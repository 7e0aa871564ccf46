---------------------------- MODULE KeyedSearch ----------------------------
(***************************************************************************)
(* A lead search under an Idempotency-Key, as any number of API processes  *)
(* run it: the handlers search_leads and _execute_zyla_search of           *)
(* app/main.py over the RedisIdempotencyStore of app/idempotency.py.       *)
(*                                                                         *)
(* An element of Requests is one HTTP call; a client that retries sends    *)
(* another element with the same key.  Every await of the handler is a     *)
(* step, so the calls interleave freely between any two Redis commands.    *)
(* The database transaction of _persist_lead_search is the one step        *)
(* Commit: module CreditTransactions opens it up.                          *)
(***************************************************************************)
EXTENDS Naturals, FiniteSets

CONSTANTS
  Requests,       \* HTTP search calls, retries included
  SearchKeys,     \* scopes "tenant:actor:key" built by search_leads
  ZylaKeys,       \* scopes "zyla:tenant:key" built by _execute_zyla_search
  Fingerprints,   \* sha256 digests of request payloads
  NoKey,          \* the call carries no Idempotency-Key header
  NoFingerprint,
  NoRequest,
  MaxExpiries     \* bound: times the TTL of one key may run out

Keys == SearchKeys \union ZylaKeys

ASSUME RequestsAssumption == IsFiniteSet(Requests) /\ NoRequest \notin Requests
ASSUME KeysAssumption     == NoKey \notin Keys
ASSUME ExpiryAssumption   == MaxExpiries \in Nat

VARIABLES
  pc,        \* where each call's handler stands
  key,       \* its idempotency scope, or NoKey
  fp,        \* the fingerprint of its payload
  charged,   \* whether its transaction committed: credits were debited
  answer,    \* the call whose search result it returned to its client
  store,     \* the Redis record of each key
  expiries,  \* history: times the record of a key ran out of TTL
  erased     \* history: times a call that had charged deleted the record

vars == <<pc, key, fp, charged, answer, store, expiries, erased>>

\* The transaction is open or about to be: no effect of the call is durable.
Searching == {"provider", "persist"}

\* From the reservation to the answer: the call acts as owner of its key.
Working == Searching \union {"put", "cleanup"}

Waiting == {"get", "reserve", "recheck"}

\* "failed" and "error" are exceptions raised out of the handler: after the
\* reservation was released, and by a failing Redis command.
Ended == {"rejected", "conflict", "inProgress", "replayed", "ok", "failed",
          "error", "crashed"}

Absent == [state |-> "absent", fp |-> NoFingerprint, by |-> NoRequest]

\* by is the call that wrote the record: the owner of a reservation (Redis
\* does not hold it), the call whose response body a completed record holds.
Pending(r) == [state |-> "pending", fp |-> fp[r], by |-> r]

\* Mutant: put and get disagree on the name of the state.
CompletedMisnamed(r) == [state |-> "complete", fp |-> fp[r], by |-> r]

Completed(r) == [state |-> "completed", fp |-> fp[r], by |-> r]

Records == [state : {"absent", "pending", "completed"},
            fp : Fingerprints \union {NoFingerprint},
            by : Requests \union {NoRequest}]

Init ==
  /\ pc = [r \in Requests |-> "idle"]
  /\ key = [r \in Requests |-> NoKey]
  /\ fp = [r \in Requests |-> NoFingerprint]
  /\ charged = [r \in Requests |-> FALSE]
  /\ answer = [r \in Requests |-> NoRequest]
  /\ store = [k \in Keys |-> Absent]
  /\ expiries = [k \in Keys |-> 0]
  /\ erased = [k \in Keys |-> 0]

Goto(r, from, to) == pc[r] = from /\ pc' = [pc EXCEPT ![r] = to]

\* A step that only moves the handler, and one that also writes its key.
StoreAndHistoryUnchanged == UNCHANGED <<store, expiries, erased>>
OnlyControl == UNCHANGED <<key, fp, charged, answer, store, expiries, erased>>

----------------------------------------------------------------------------
(* The request path *)

\* The call gets past authentication and rate limiting; with a key it turns
\* to the store, without one it goes straight to the provider.
Accept(r, k, f) ==
  /\ Goto(r, "idle", IF k = NoKey THEN "provider" ELSE "get")
  /\ key' = [key EXCEPT ![r] = k]
  /\ fp' = [fp EXCEPT ![r] = f]
  /\ UNCHANGED <<charged, answer>> /\ StoreAndHistoryUnchanged

AcceptSearch(r) == \E k \in SearchKeys \union {NoKey}, f \in Fingerprints : Accept(r, k, f)

AcceptZyla(r) == \E k \in ZylaKeys \union {NoKey}, f \in Fingerprints : Accept(r, k, f)

\* Missing scope, failed authorization or 429 from the limiter.
Reject(r) == Goto(r, "idle", "rejected") /\ OnlyControl

\* Mutant: store.get compares no fingerprints.
StoreGetAnyPayload(r) ==
  LET rec == store[key[r]] IN
  /\ pc[r] = "get"
  /\ \/ rec.state = "absent" /\ Goto(r, "get", "reserve") /\ UNCHANGED answer
     \/ rec.state = "pending" /\ Goto(r, "get", "inProgress") /\ UNCHANGED answer
     \/ rec.state = "completed"
        /\ Goto(r, "get", "replayed") /\ answer' = [answer EXCEPT ![r] = rec.by]
  /\ UNCHANGED <<key, fp, charged>> /\ StoreAndHistoryUnchanged

\* store.get: one Redis GET and its four outcomes.
StoreGet(r) ==
  LET rec == store[key[r]] IN
  /\ pc[r] = "get"
  /\ \/ rec.state = "absent" /\ Goto(r, "get", "reserve") /\ UNCHANGED answer
     \/ rec.state # "absent" /\ rec.fp # fp[r]
        /\ Goto(r, "get", "conflict") /\ UNCHANGED answer
     \/ rec.state = "pending" /\ rec.fp = fp[r]
        /\ Goto(r, "get", "inProgress") /\ UNCHANGED answer
     \/ rec.state = "completed" /\ rec.fp = fp[r]
        /\ Goto(r, "get", "replayed") /\ answer' = [answer EXCEPT ![r] = rec.by]
  /\ UNCHANGED <<key, fp, charged>> /\ StoreAndHistoryUnchanged

\* Mutant: SET without NX.
ReserveOverwriting(r) ==
  /\ Goto(r, "reserve", "provider")
  /\ store' = [store EXCEPT ![key[r]] = Pending(r)]
  /\ UNCHANGED <<key, fp, charged, answer, expiries, erased>>

\* store.reserve, first command: SET NX.
Reserve(r) ==
  /\ pc[r] = "reserve"
  /\ \/ /\ store[key[r]].state = "absent"
        /\ Goto(r, "reserve", "provider")
        /\ store' = [store EXCEPT ![key[r]] = Pending(r)]
     \/ /\ store[key[r]].state # "absent"
        /\ Goto(r, "reserve", "recheck")
        /\ UNCHANGED store
  /\ UNCHANGED <<key, fp, charged, answer, expiries, erased>>

\* Mutant: reserve is called inside the try block, whose except branch deletes.
RecheckInsideTry(r) ==
  /\ pc[r] = "recheck"
  /\ IF store[key[r]].state = "absent" THEN Goto(r, "recheck", "reserve")
     ELSE Goto(r, "recheck", "cleanup")
  /\ OnlyControl

\* Mutant: a refused reservation is retried until the key is free.
RecheckForever(r) == Goto(r, "recheck", "reserve") /\ OnlyControl

\* store.reserve, second command: GET of the record that refused the SET.  It
\* may be gone (try again) or completed by now (still answered 409).
Recheck(r) ==
  LET rec == store[key[r]] IN
  /\ pc[r] = "recheck"
  /\ \/ rec.state = "absent" /\ Goto(r, "recheck", "reserve")
     \/ rec.state # "absent" /\ rec.fp # fp[r] /\ Goto(r, "recheck", "conflict")
     \/ rec.state # "absent" /\ rec.fp = fp[r] /\ Goto(r, "recheck", "inProgress")
  /\ OnlyControl

ProviderAnswers(r) == Goto(r, "provider", "persist") /\ OnlyControl

\* Mutant: the except branch raises without releasing the reservation.
AfterFailureKeeping(r) == "failed"

AfterFailure(r) == IF key[r] = NoKey THEN "failed" ELSE "cleanup"

\* The provider raises, or the transaction does before it commits (suspended
\* tenant, too few credits, database error) and is rolled back.
SearchFails(r) ==
  /\ pc[r] \in Searching
  /\ Goto(r, pc[r], AfterFailure(r))
  /\ OnlyControl

\* The transaction commits.  Without a key the response is returned.
Commit(r) ==
  /\ Goto(r, "persist", IF key[r] = NoKey THEN "ok" ELSE "put")
  /\ charged' = [charged EXCEPT ![r] = TRUE]
  /\ answer' = [answer EXCEPT ![r] = IF key[r] = NoKey THEN r ELSE @]
  /\ UNCHANGED <<key, fp>> /\ StoreAndHistoryUnchanged

\* The database commits but the reply to COMMIT is lost: db.commit() raises.
CommitReplyLost(r) ==
  /\ Goto(r, "persist", AfterFailure(r))
  /\ charged' = [charged EXCEPT ![r] = TRUE]
  /\ UNCHANGED <<key, fp, answer>> /\ StoreAndHistoryUnchanged

\* SET XX: replaces whatever record is there, creates none.
WriteCompleted(r) ==
  store' = IF store[key[r]].state = "absent" THEN store
           ELSE [store EXCEPT ![key[r]] = Completed(r)]

Put(r) ==
  /\ Goto(r, "put", "ok")
  /\ WriteCompleted(r)
  /\ answer' = [answer EXCEPT ![r] = r]
  /\ UNCHANGED <<key, fp, charged, expiries, erased>>

\* DEL: removes whatever record is there.
EraseRecord(r) ==
  /\ store' = [store EXCEPT ![key[r]] = Absent]
  /\ erased' = IF charged[r] /\ store[key[r]].state # "absent"
                 THEN [erased EXCEPT ![key[r]] = @ + 1] ELSE erased

\* The except branch: delete the reservation and raise.
Cleanup(r) ==
  /\ Goto(r, "cleanup", "failed")
  /\ EraseRecord(r)
  /\ UNCHANGED <<key, fp, charged, answer, expiries>>

----------------------------------------------------------------------------
(* The environment *)

\* A Redis command raises.  The command may have been executed: the reply is
\* what is lost.  get and reserve are outside the handler's try block, a
\* failing put runs the except branch, a failing delete leaves it.
ReadFails(r) == pc[r] \in {"get", "recheck"} /\ Goto(r, pc[r], "error") /\ OnlyControl

ReserveFails(r) ==
  /\ Goto(r, "reserve", "error")
  /\ \/ UNCHANGED store
     \/ /\ store[key[r]].state = "absent"
        /\ store' = [store EXCEPT ![key[r]] = Pending(r)]
  /\ UNCHANGED <<key, fp, charged, answer, expiries, erased>>

PutFails(r) ==
  /\ Goto(r, "put", "cleanup")
  /\ UNCHANGED store \/ WriteCompleted(r)
  /\ UNCHANGED <<key, fp, charged, answer, expiries, erased>>

CleanupFails(r) ==
  /\ Goto(r, "cleanup", "error")
  /\ EraseRecord(r) \/ UNCHANGED <<store, erased>>
  /\ UNCHANGED <<key, fp, charged, answer, expiries>>

\* The API process dies, or the call is cancelled: CancelledError is not an
\* Exception, so the except branch does not run.
Crash(r) ==
  /\ pc[r] \in Waiting \union Working
  /\ Goto(r, pc[r], "crashed")
  /\ OnlyControl

\* Redis drops the record of k when its TTL is over.
Expire(k) ==
  /\ store[k].state # "absent"
  /\ expiries[k] < MaxExpiries
  /\ store' = [store EXCEPT ![k] = Absent]
  /\ expiries' = [expiries EXCEPT ![k] = @ + 1]
  /\ UNCHANGED <<pc, key, fp, charged, answer, erased>>

----------------------------------------------------------------------------

\* What a live process does for the call: any of these ends the await it is in.
HandlerStep(r) ==
  \/ StoreGet(r) \/ Reserve(r) \/ Recheck(r)
  \/ ProviderAnswers(r) \/ SearchFails(r) \/ Commit(r) \/ CommitReplyLost(r)
  \/ Put(r) \/ Cleanup(r)
  \/ ReadFails(r) \/ ReserveFails(r) \/ PutFails(r) \/ CleanupFails(r)

Next ==
  \/ \E r \in Requests :
       AcceptSearch(r) \/ AcceptZyla(r) \/ Reject(r) \/ HandlerStep(r) \/ Crash(r)
  \/ \E k \in Keys : Expire(k)

Spec == Init /\ [][Next]_vars

\* Each await of a live process ends: the provider client has a timeout, Redis
\* and the database answer or the connection breaks.  Clients, crashes and TTLs
\* owe nothing.
FairSpec == Spec /\ \A r \in Requests : WF_vars(HandlerStep(r))

----------------------------------------------------------------------------
(* Properties *)

\* The type invariant.
TypeOK ==
  /\ pc \in [Requests -> {"idle"} \union Waiting \union Working \union Ended]
  /\ key \in [Requests -> Keys \union {NoKey}]
  /\ fp \in [Requests -> Fingerprints \union {NoFingerprint}]
  /\ charged \in [Requests -> BOOLEAN]
  /\ answer \in [Requests -> Requests \union {NoRequest}]
  /\ store \in [Keys -> Records]
  /\ expiries \in [Keys -> Nat]
  /\ erased \in [Keys -> Nat]

ChargedUnder(k) == {r \in Requests : key[r] = k /\ charged[r]}

\* The credits debited under one key: every charge after the first is paid
\* for by a TTL that ran out or by a charged call that deleted the record
\* (search_leads, except branch).  With neither, a key charges once.
ChargesExplained ==
  \A k \in Keys : Cardinality(ChargedUnder(k)) <= 1 + expiries[k] + erased[k]

\* Until the TTL of its key runs out, a call between its reservation and its
\* answer owns the record: two calls never search under one key, and put and
\* delete, which look at no owner, only ever hit the record of their call.
OwnerHoldsRecord ==
  \A r \in Requests :
    pc[r] \in Working /\ key[r] # NoKey /\ expiries[key[r]] = 0
      => store[key[r]].by = r

\* openapi.yaml says of Idempotency-Key: "Replays a completed request safely
\* and prevents duplicate charging".  The except branch of search_leads breaks
\* it without any TTL running out: when the reply to COMMIT is lost, or put
\* fails, it deletes the reservation of a search that is already paid, and the
\* retry pays again.
ChargedOnce == \A k \in Keys : Cardinality(ChargedUnder(k)) <= 1

\* A replayed call debits nothing and hands out the response of a call that
\* did pay, under the same key and for the same payload.
ReplayFaithful ==
  \A r \in Requests : pc[r] = "replayed" =>
    LET q == answer[r] IN
    /\ q \in Requests /\ q # r
    /\ charged[q] /\ ~charged[r]
    /\ key[q] = key[r] /\ fp[q] = fp[r]

\* A key is blocked with 409 only for a call that still works on it, or
\* because a process died or a Redis command failed: no return path of the
\* handler leaves its reservation behind.
BlockedOnlyByFault ==
  \A k \in Keys : store[k].state = "pending" =>
    pc[store[k].by] \in Working \union {"crashed", "error"}

\* Every call a live process accepted is answered, however the others race
\* it between SET NX and GET.
CallsEnd == \A r \in Requests : pc[r] \in Waiting \union Working ~> pc[r] \in Ended

=============================================================================
