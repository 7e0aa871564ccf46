--------------------------- MODULE ConnectionPool ---------------------------
(***************************************************************************)
(* Threads and database connections of one API process.  The dependency    *)
(* get_auth_context (app/security.py) runs in a thread and uses the        *)
(* session of get_db (app/db.py), which lives until the request is over.   *)
(* With an API key it commits, which returns its connection; with a JWT    *)
(* its SELECT leaves a transaction open, and the session keeps the         *)
(* connection.  The handlers then work in a thread: search_leads,          *)
(* create_job and the Zyla and billing routes open a session of their own, *)
(* the synchronous handlers go on with the one of get_db.                  *)
(***************************************************************************)
EXTENDS Naturals, FiniteSets

CONSTANTS
  Requests,
  Threads,     \* thread limit of the process (of the AnyIO library)
  Connections  \* DB_POOL_SIZE + DB_MAX_OVERFLOW

ASSUME ConnectionPoolAssumption ==
  /\ IsFiniteSet(Requests)
  /\ Threads \in Nat \ {0} /\ Connections \in Nat \ {0}

VARIABLES
  pc,       \* where each request stands
  token,    \* whether it was authenticated by a JWT
  own,      \* whether its handler opens a session of its own
  shared,   \* requests whose session of get_db has a connection
  private   \* requests whose own session has one

vars == <<pc, token, own, shared, private>>

InThread == {"authConnect", "auth", "workConnect", "work"}

Active == InThread \union {"authThread", "await", "workThread", "close"}

Init ==
  /\ pc = [r \in Requests |-> "idle"]
  /\ token = [r \in Requests |-> FALSE]
  /\ own = [r \in Requests |-> FALSE]
  /\ shared = {} /\ private = {}

Goto(r, from, to) == pc[r] = from /\ pc' = [pc EXCEPT ![r] = to]

ThreadFree == Cardinality({r \in Requests : pc[r] \in InThread}) < Threads

ConnectionFree == Cardinality(shared) + Cardinality(private) < Connections

----------------------------------------------------------------------------

\* Most routes authenticate first.  The marketplace and the webhook need no
\* session to do so; registration, login and health checks go to their handler.
Arrive(r) ==
  /\ \E t, o \in BOOLEAN :
       /\ token' = [token EXCEPT ![r] = t] /\ own' = [own EXCEPT ![r] = o]
       /\ \/ Goto(r, "idle", "authThread")
          \/ ~t /\ Goto(r, "idle", IF o THEN "await" ELSE "workThread")
  /\ UNCHANGED <<shared, private>>

GetThread(r) ==
  /\ ThreadFree
  /\ Goto(r, "authThread", "authConnect") \/ Goto(r, "workThread", "workConnect")
  /\ UNCHANGED <<token, own, shared, private>>

\* The first statement of the session of get_db checks a connection out.
ConnectToAuthenticate(r) ==
  /\ Goto(r, "authConnect", "auth")
  /\ ConnectionFree
  /\ shared' = shared \union {r}
  /\ UNCHANGED <<token, own, private>>

\* Mutant: the API key branch does not commit.
AuthenticateKeeping(r) ==
  /\ Goto(r, "auth", IF own[r] THEN "await" ELSE "workThread")
  /\ UNCHANGED <<token, own, shared, private>>

\* get_auth_context returns.  An asynchronous handler awaits Redis and the
\* provider before it works in a thread.
Authenticate(r) ==
  /\ Goto(r, "auth", IF own[r] THEN "await" ELSE "workThread")
  /\ shared' = IF token[r] THEN shared ELSE shared \ {r}
  /\ UNCHANGED <<token, own, private>>

\* Unknown key or user.
RefuseCredentials(r) == Goto(r, "auth", "close") /\ UNCHANGED <<token, own, shared, private>>

\* Limiter, idempotency store and provider let the search go on.
AwaitEnds(r) == Goto(r, "await", "workThread") /\ UNCHANGED <<token, own, shared, private>>

\* Missing scope, 429, replay, conflict or failing provider.
AwaitAnswers(r) == Goto(r, "await", "close") /\ UNCHANGED <<token, own, shared, private>>

\* require_scope raises in a synchronous handler, before its first statement.
RequireScope(r) ==
  /\ ~own[r] /\ ThreadFree
  /\ Goto(r, "workThread", "close")
  /\ UNCHANGED <<token, own, shared, private>>

\* The handler's first statement, in its own session or in that of get_db.
ConnectToWork(r) ==
  /\ Goto(r, "workConnect", "work")
  /\ \/ own[r] /\ ConnectionFree /\ private' = private \union {r} /\ UNCHANGED shared
     \/ ~own[r] /\ r \notin shared /\ ConnectionFree
        /\ shared' = shared \union {r} /\ UNCHANGED private
     \/ ~own[r] /\ r \in shared /\ UNCHANGED <<shared, private>>
  /\ UNCHANGED <<token, own>>

\* The transaction ends, committed or rolled back, and its own session closes.
Work(r) ==
  /\ Goto(r, "work", "close")
  /\ private' = private \ {r}
  /\ UNCHANGED <<token, own, shared>>

WaitsForConnection(r) ==
  /\ ~ConnectionFree
  /\ \/ pc[r] = "authConnect"
     \/ pc[r] = "workConnect" /\ (own[r] \/ r \notin shared)

\* Mutant: the pool waits without limit.
PoolTimeoutNever(r) == FALSE /\ UNCHANGED vars

\* pool_timeout: the statement raises and the request fails with 500.
PoolTimeout(r) ==
  /\ WaitsForConnection(r)
  /\ Goto(r, pc[r], "close")
  /\ UNCHANGED <<token, own, shared, private>>

\* Mutant: get_db does not close its session.
CloseKeeping(r) == Goto(r, "close", "ended") /\ UNCHANGED <<token, own, shared, private>>

\* get_db closes its session once the handler has returned or raised; the exit
\* of a dependency has a thread of its own.
Close(r) ==
  /\ Goto(r, "close", "ended")
  /\ shared' = shared \ {r}
  /\ UNCHANGED <<token, own, private>>

----------------------------------------------------------------------------

\* The steps that need no timeout.
Proceed(r) ==
  \/ GetThread(r) \/ ConnectToAuthenticate(r) \/ Authenticate(r) \/ RefuseCredentials(r)
  \/ AwaitEnds(r) \/ AwaitAnswers(r) \/ RequireScope(r) \/ ConnectToWork(r)
  \/ Work(r) \/ Close(r)

RequestStep(r) == Proceed(r) \/ PoolTimeout(r)

Next == \E r \in Requests : Arrive(r) \/ RequestStep(r)

Spec == Init /\ [][Next]_vars

\* Threads run, awaits end, and a wait for a connection is timed out.
FairSpec == Spec /\ \A r \in Requests : WF_vars(RequestStep(r))

----------------------------------------------------------------------------
(* Properties *)

\* The type invariant.  The limits of the process are kept, and a request that
\* is not at work holds no connection of its own.
TypeOK ==
  /\ pc \in [Requests -> {"idle", "ended"} \union Active]
  /\ token \in [Requests -> BOOLEAN] /\ own \in [Requests -> BOOLEAN]
  /\ shared \subseteq {r \in Requests : pc[r] \in Active \ {"authThread", "authConnect"}}
  /\ private = {r \in Requests : pc[r] = "work" /\ own[r]}
  /\ Cardinality(shared) + Cardinality(private) <= Connections
  /\ Cardinality({r \in Requests : pc[r] \in InThread}) <= Threads

\* Every request that has begun waits for a thread or a connection.
Blocked(r) ==
  \/ pc[r] \in {"authThread", "workThread"} /\ ~ThreadFree
  \/ WaitsForConnection(r)

Stalled ==
  /\ \E r \in Requests : pc[r] \in Active
  /\ \A r \in Requests : pc[r] \in Active => Blocked(r)

\* Everyone waits for everyone, until pool_timeout fails one of them, only when
\* requests authenticated by a JWT have every connection of the pool: those of
\* API keys, of the marketplace and of webhooks have none while they wait
\* (get_auth_context commits for a key and does not for a JWT).
StallNeedsTokens ==
  Stalled => /\ Cardinality({r \in shared : token[r]}) = Connections
             /\ private = {}

\* A request that was accepted is answered and its connections go back to the
\* pool, with an error at worst: nothing but pool_timeout ends a stall.
RequestsEnd == \A r \in Requests : pc[r] \in Active ~> pc[r] = "ended" /\ r \notin shared
=============================================================================
