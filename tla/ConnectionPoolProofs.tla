------------------------ MODULE ConnectionPoolProofs ------------------------
(***************************************************************************)
(* Proofs about ConnectionPool for any number of requests, threads and     *)
(* connections.  StallNeedsTokens needs to know where a request without a  *)
(* JWT may hold a connection (KeysReturn): nowhere it could be made to     *)
(* wait.                                                                   *)
(***************************************************************************)
EXTENDS ConnectionPool, FiniteSetTheorems, TLAPS

\* Without a JWT, the session of get_db has a connection only while it is
\* being used, or until it is closed.
KeysReturn == \A r \in shared : token[r] \/ pc[r] \in {"auth", "work", "close"}

\* A request holds nothing before it authenticates.
Positions ==
  /\ pc \in [Requests -> {"idle", "ended"} \union Active]
  /\ token \in [Requests -> BOOLEAN] /\ own \in [Requests -> BOOLEAN]
  /\ shared \subseteq {r \in Requests : pc[r] \in Active \ {"authThread", "authConnect"}}
  /\ private = {r \in Requests : pc[r] = "work" /\ own[r]}
  /\ KeysReturn

PoolKept == Cardinality(shared) + Cardinality(private) <= Connections

AtWork == {r \in Requests : pc[r] \in InThread}
ThreadsKept == Cardinality(AtWork) <= Threads

\* The inductive invariant.
IInv == Positions /\ PoolKept /\ ThreadsKept

----------------------------------------------------------------------------
(* Sets of requests *)

\* A set of requests is finite, and one that loses members is no larger.
LEMMA Shrinking ==
  ASSUME NEW S \in SUBSET Requests, NEW T \in SUBSET S
  PROVE  /\ IsFiniteSet(S) /\ Cardinality(S) \in Nat
         /\ Cardinality(T) \in Nat /\ Cardinality(T) <= Cardinality(S)
<1>1. IsFiniteSet(S)
  BY ConnectionPoolAssumption, FS_Subset
<1>2. IsFiniteSet(T) /\ Cardinality(T) <= Cardinality(S)
  BY <1>1, FS_Subset
<1> QED BY <1>1, <1>2, FS_CardinalityType

\* One more request makes a set larger by at most one.
LEMMA Growing ==
  ASSUME NEW S \in SUBSET Requests, NEW r \in Requests
  PROVE  Cardinality(S \union {r}) <= Cardinality(S) + 1
<1>1. IsFiniteSet(S) /\ Cardinality(S) \in Nat
  BY Shrinking
<1> QED BY <1>1, FS_AddElement

----------------------------------------------------------------------------
(* Steps *)

\* Every step keeps the positions.
LEMMA PositionsStep == Positions /\ [Next]_vars => Positions'
<1> SUFFICES ASSUME Positions, [Next]_vars PROVE Positions'
  OBVIOUS
<1> USE DEF Positions, KeysReturn, Active, InThread, Goto
<1>1. CASE UNCHANGED vars
  BY <1>1 DEF vars
<1>2. ASSUME NEW r \in Requests, Arrive(r) PROVE Positions'
  BY <1>2 DEF Arrive
<1>3. ASSUME NEW r \in Requests, GetThread(r) PROVE Positions'
  BY <1>3 DEF GetThread
<1>4. ASSUME NEW r \in Requests, ConnectToAuthenticate(r) PROVE Positions'
  BY <1>4 DEF ConnectToAuthenticate
<1>5. ASSUME NEW r \in Requests, Authenticate(r) PROVE Positions'
  BY <1>5 DEF Authenticate
<1>6. ASSUME NEW r \in Requests,
             RefuseCredentials(r) \/ AwaitEnds(r) \/ AwaitAnswers(r) \/ RequireScope(r)
      PROVE  Positions'
  BY <1>6 DEF RefuseCredentials, AwaitEnds, AwaitAnswers, RequireScope
<1>7. ASSUME NEW r \in Requests, ConnectToWork(r) PROVE Positions'
  BY <1>7 DEF ConnectToWork
<1>8. ASSUME NEW r \in Requests, Work(r) PROVE Positions'
  BY <1>8 DEF Work
<1>9. ASSUME NEW r \in Requests, Close(r) PROVE Positions'
  BY <1>9 DEF Close
<1>10. ASSUME NEW r \in Requests, PoolTimeout(r) PROVE Positions'
  BY <1>10 DEF PoolTimeout, WaitsForConnection
<1> QED
  BY <1>1, <1>2, <1>3, <1>4, <1>5, <1>6, <1>7, <1>8, <1>9, <1>10
  DEF Next, RequestStep, Proceed

\* Either nobody gets a connection, or one request does, of one that is free.
LEMMA PoolSteps ==
  ASSUME Positions, [Next]_vars
  PROVE  \/ shared' \subseteq shared /\ private' \subseteq private
         \/ /\ ConnectionFree
            /\ \E r \in Requests :
                 \/ shared' = shared \union {r} /\ private' = private
                 \/ shared' = shared /\ private' = private \union {r}
<1> DEFINE Goal ==
      \/ shared' \subseteq shared /\ private' \subseteq private
      \/ /\ ConnectionFree
         /\ \E r \in Requests :
              \/ shared' = shared \union {r} /\ private' = private
              \/ shared' = shared /\ private' = private \union {r}
<1>1. CASE UNCHANGED <<shared, private>>
  BY <1>1
<1>2. ASSUME NEW r \in Requests, ConnectToAuthenticate(r) PROVE Goal
  BY <1>2 DEF ConnectToAuthenticate
<1>3. ASSUME NEW r \in Requests, ConnectToWork(r) PROVE Goal
  BY <1>3 DEF ConnectToWork
<1>4. ASSUME NEW r \in Requests, Authenticate(r) \/ Work(r) \/ Close(r) PROVE Goal
  BY <1>4 DEF Authenticate, Work, Close
<1> QED
  BY <1>1, <1>2, <1>3, <1>4
  DEF Next, RequestStep, Proceed, Arrive, GetThread, RefuseCredentials, AwaitEnds, AwaitAnswers,
      RequireScope, PoolTimeout, vars

\* The pool never has more connections than it may.
LEMMA PoolStep == Positions /\ PoolKept /\ [Next]_vars => PoolKept'
<1> SUFFICES ASSUME Positions, PoolKept, [Next]_vars PROVE PoolKept'
  OBVIOUS
<1>1. shared \in SUBSET Requests /\ private \in SUBSET Requests
  BY DEF Positions
<1>2. Cardinality(shared) \in Nat /\ Cardinality(private) \in Nat /\ Connections \in Nat
  BY <1>1, Shrinking, ConnectionPoolAssumption
<1>3. CASE shared' \subseteq shared /\ private' \subseteq private
  BY <1>1, <1>2, <1>3, Shrinking DEF PoolKept
<1>4. ASSUME ConnectionFree, NEW r \in Requests, shared' = shared \union {r}, private' = private
      PROVE  PoolKept'
  <2>1. Cardinality(shared') <= Cardinality(shared) + 1 /\ Cardinality(shared') \in Nat
    BY <1>1, <1>4, Growing, Shrinking
  <2> QED BY <1>2, <1>4, <2>1 DEF PoolKept, ConnectionFree
<1>5. ASSUME ConnectionFree, NEW r \in Requests, shared' = shared, private' = private \union {r}
      PROVE  PoolKept'
  <2>1. Cardinality(private') <= Cardinality(private) + 1 /\ Cardinality(private') \in Nat
    BY <1>1, <1>5, Growing, Shrinking
  <2> QED BY <1>2, <1>5, <2>1 DEF PoolKept, ConnectionFree
<1> QED BY <1>3, <1>4, <1>5, PoolSteps

\* A request that gets a thread finds one free; no other step takes one.
LEMMA ThreadSteps ==
  ASSUME Positions, [Next]_vars
  PROVE  \/ AtWork' \subseteq AtWork
         \/ ThreadFree /\ \E r \in Requests : AtWork' \subseteq AtWork \union {r}
<1> USE DEF Positions, AtWork, InThread, Active, Goto
<1>1. ASSUME NEW r \in Requests, GetThread(r)
      PROVE  ThreadFree /\ AtWork' \subseteq AtWork \union {r}
  BY <1>1 DEF GetThread
<1>2. ASSUME NEW r \in Requests, Arrive(r) PROVE AtWork' \subseteq AtWork
  BY <1>2 DEF Arrive
<1>3. ASSUME NEW r \in Requests, ConnectToAuthenticate(r) \/ ConnectToWork(r)
      PROVE  AtWork' \subseteq AtWork
  BY <1>3 DEF ConnectToAuthenticate, ConnectToWork
<1>4. ASSUME NEW r \in Requests,
             Authenticate(r) \/ RefuseCredentials(r) \/ AwaitEnds(r) \/ AwaitAnswers(r)
      PROVE  AtWork' \subseteq AtWork
  BY <1>4 DEF Authenticate, RefuseCredentials, AwaitEnds, AwaitAnswers
<1>5. ASSUME NEW r \in Requests, RequireScope(r) \/ Work(r) \/ Close(r) \/ PoolTimeout(r)
      PROVE  AtWork' \subseteq AtWork
  BY <1>5 DEF RequireScope, Work, Close, PoolTimeout
<1>6. CASE UNCHANGED vars
  BY <1>6 DEF vars
<1> QED
  BY <1>1, <1>2, <1>3, <1>4, <1>5, <1>6 DEF Next, RequestStep, Proceed

\* The process never uses more threads than it has.
LEMMA ThreadStep == Positions /\ ThreadsKept /\ [Next]_vars => ThreadsKept'
<1> SUFFICES ASSUME Positions, ThreadsKept, [Next]_vars PROVE ThreadsKept'
  OBVIOUS
<1>1. AtWork \in SUBSET Requests /\ Threads \in Nat
  BY ConnectionPoolAssumption DEF AtWork
<1>2. CASE AtWork' \subseteq AtWork
  BY <1>1, <1>2, Shrinking DEF ThreadsKept
<1>3. ASSUME ThreadFree, NEW r \in Requests, AtWork' \subseteq AtWork \union {r}
      PROVE  ThreadsKept'
  <2>1. Cardinality(AtWork) \in Nat /\ Cardinality(AtWork) < Threads
    BY <1>1, <1>3, Shrinking DEF ThreadFree, AtWork
  <2>2. AtWork \union {r} \in SUBSET Requests
    BY <1>1
  <2>3. /\ Cardinality(AtWork \union {r}) <= Cardinality(AtWork) + 1
        /\ Cardinality(AtWork \union {r}) \in Nat
        /\ Cardinality(AtWork') <= Cardinality(AtWork \union {r})
        /\ Cardinality(AtWork') \in Nat
    BY <1>1, <1>3, <2>2, Growing, Shrinking
  <2> QED BY <1>1, <2>1, <2>3 DEF ThreadsKept
<1> QED BY <1>2, <1>3, ThreadSteps

----------------------------------------------------------------------------
(* Theorems *)

\* The invariant holds of any number of requests, threads and connections.
THEOREM Invariance == Spec => []IInv
<1>1. Init => IInv
  <2> SUFFICES ASSUME Init PROVE IInv
    OBVIOUS
  <2>1. AtWork = {} /\ shared = {} /\ private = {}
    BY DEF Init, AtWork, InThread
  <2>2. Cardinality(AtWork) = 0 /\ Cardinality(shared) = 0 /\ Cardinality(private) = 0
    BY <2>1, FS_EmptySet
  <2>3. Positions
    BY DEF Init, Positions, KeysReturn, Active, InThread
  <2> QED BY <2>2, <2>3, ConnectionPoolAssumption DEF IInv, PoolKept, ThreadsKept
<1>2. IInv /\ [Next]_vars => IInv'
  BY PositionsStep, PoolStep, ThreadStep DEF IInv
<1> QED BY <1>1, <1>2, PTL DEF Spec

\* The type invariant: the limits of the process are kept, and a request that
\* is not at work holds no connection of its own.
THEOREM TypeCorrect == Spec => []TypeOK
<1>1. IInv => TypeOK
  BY DEF IInv, Positions, PoolKept, ThreadsKept, AtWork, TypeOK
<1> QED BY <1>1, Invariance, PTL

\* Requests wait for each other without end only when JWT requests have every
\* connection of the pool (security.py, get_auth_context; db.py, get_db).
THEOREM StallsExplained == Spec => []StallNeedsTokens
<1>1. IInv => StallNeedsTokens
  <2> SUFFICES ASSUME IInv, Stalled
               PROVE  Cardinality({r \in shared : token[r]}) = Connections /\ private = {}
    BY DEF StallNeedsTokens
  <2> USE DEF IInv, Positions, Active, InThread
  <2>1. private = {}
    BY DEF Stalled, Blocked, WaitsForConnection
  <2>2. {r \in shared : token[r]} = shared
    BY DEF KeysReturn, Stalled, Blocked, WaitsForConnection
  <2>3. ~ConnectionFree
    <3>1. PICK r \in Requests : pc[r] \in Active /\ Blocked(r)
      BY DEF Stalled
    <3>2. CASE WaitsForConnection(r)
      BY <3>2 DEF WaitsForConnection
    <3>3. CASE ~ThreadFree
      <4>1. AtWork # {}
        BY <3>3, FS_EmptySet, ConnectionPoolAssumption DEF ThreadFree, AtWork
      <4>2. PICK s \in Requests : pc[s] \in InThread
        BY <4>1 DEF AtWork
      <4>3. Blocked(s) /\ pc[s] \notin {"authThread", "workThread"}
        BY <4>2 DEF Stalled
      <4> QED BY <4>3 DEF Blocked, WaitsForConnection
    <3> QED BY <3>1, <3>2, <3>3 DEF Blocked
  <2>4. Cardinality(shared) \in Nat /\ Cardinality(private) = 0 /\ Connections \in Nat
    BY <2>1, FS_EmptySet, Shrinking, ConnectionPoolAssumption
  <2> QED BY <2>1, <2>2, <2>3, <2>4 DEF ConnectionFree, PoolKept
<1> QED BY <1>1, Invariance, PTL
=============================================================================
