------------------------- MODULE KeyedSearchProofs -------------------------
(***************************************************************************)
(* Safety of KeyedSearch for any number of calls, keys and payloads: the   *)
(* inductive invariant, and the four invariants of the module from it.     *)
(***************************************************************************)
EXTENDS KeyedSearch, FiniteSetTheorems, TLAPS

\* Only a call with a key uses the store, and a call charges once, on its way
\* from the transaction to the end.
ControlInv ==
  \A r \in Requests :
    /\ pc[r] \in Waiting \union {"put", "cleanup", "replayed"} => key[r] \in Keys
    /\ pc[r] \in {"idle", "replayed"} \union Waiting \union Searching => ~charged[r]
    /\ pc[r] = "put" => charged[r]

\* Who stands behind a record: nobody, the call that reserved and has not
\* released it, or a call that paid for the response under that very key.
RecordInv ==
  \A k \in Keys :
    LET rec == store[k] IN
    /\ rec.state = "absent" => rec.by = NoRequest
    /\ rec.state = "pending" =>
         /\ rec.by \in Requests /\ key[rec.by] = k
         /\ pc[rec.by] \in Working \union {"crashed", "error"}
    /\ rec.state = "completed" =>
         /\ rec.by \in Requests /\ key[rec.by] = k /\ charged[rec.by]
         /\ fp[rec.by] = rec.fp
         /\ pc[rec.by] \in {"cleanup", "ok", "error", "crashed"}

IInv == TypeOK /\ ControlInv /\ RecordInv /\ OwnerHoldsRecord /\ ReplayFaithful

\* The places of a call, by the name each group has.
LEMMA StateSets ==
  /\ Searching = {"provider", "persist"}
  /\ Working = {"provider", "persist", "put", "cleanup"}
  /\ Waiting = {"get", "reserve", "recheck"}
  /\ Ended = {"rejected", "conflict", "inProgress", "replayed", "ok", "failed",
              "error", "crashed"}
  BY DEF Searching, Working, Waiting, Ended

\* What a call under a key writes to Redis is a record.
LEMMA RecordTypes ==
  ASSUME TypeOK, NEW r \in Requests, key[r] \in Keys
  PROVE  /\ Absent \in Records
         /\ fp[r] \in Fingerprints \union {NoFingerprint}
         /\ Pending(r) \in Records
         /\ Completed(r) \in Records
  BY DEF TypeOK, Records, Absent, Pending, Completed

\* No call has begun and Redis is empty.
LEMMA InitInv == Init => IInv
  BY RequestsAssumption, KeysAssumption, StateSets
     DEF Init, IInv, TypeOK, ControlInv, RecordInv, OwnerHoldsRecord, ReplayFaithful,
         Records, Absent

\* The type invariant is inductive with the control invariant, which says
\* that a call about to use the store has a key.
LEMMA TypeStep ==
  ASSUME TypeOK, ControlInv, [Next]_vars
  PROVE  TypeOK'
  <1> USE RequestsAssumption, KeysAssumption, ExpiryAssumption, StateSets
          DEF TypeOK, ControlInv, Goto, OnlyControl, StoreAndHistoryUnchanged
  <1>1. ASSUME NEW r \in Requests, AcceptSearch(r) PROVE TypeOK'
    BY <1>1 DEF AcceptSearch, Accept, Keys
  <1>2. ASSUME NEW r \in Requests, AcceptZyla(r) PROVE TypeOK'
    BY <1>2 DEF AcceptZyla, Accept, Keys
  <1>3. ASSUME NEW r \in Requests, Reject(r) PROVE TypeOK'
    BY <1>3 DEF Reject
  <1>4. ASSUME NEW r \in Requests, StoreGet(r) PROVE TypeOK'
    BY <1>4 DEF StoreGet, Records
  <1>5. ASSUME NEW r \in Requests, Reserve(r) PROVE TypeOK'
    BY <1>5, RecordTypes DEF Reserve
  <1>6. ASSUME NEW r \in Requests, Recheck(r) PROVE TypeOK'
    BY <1>6 DEF Recheck
  <1>7. ASSUME NEW r \in Requests, ProviderAnswers(r) PROVE TypeOK'
    BY <1>7 DEF ProviderAnswers
  <1>8. ASSUME NEW r \in Requests, SearchFails(r) PROVE TypeOK'
    BY <1>8 DEF SearchFails, AfterFailure
  <1>9. ASSUME NEW r \in Requests, Commit(r) PROVE TypeOK'
    BY <1>9 DEF Commit
  <1>10. ASSUME NEW r \in Requests, CommitReplyLost(r) PROVE TypeOK'
    BY <1>10 DEF CommitReplyLost, AfterFailure
  <1>11. ASSUME NEW r \in Requests, Put(r) PROVE TypeOK'
    BY <1>11, RecordTypes DEF Put, WriteCompleted
  <1>12. ASSUME NEW r \in Requests, Cleanup(r) PROVE TypeOK'
    BY <1>12, RecordTypes DEF Cleanup, EraseRecord
  <1>13. ASSUME NEW r \in Requests, ReadFails(r) PROVE TypeOK'
    BY <1>13 DEF ReadFails
  <1>14. ASSUME NEW r \in Requests, ReserveFails(r) PROVE TypeOK'
    BY <1>14, RecordTypes DEF ReserveFails
  <1>15. ASSUME NEW r \in Requests, PutFails(r) PROVE TypeOK'
    BY <1>15, RecordTypes DEF PutFails, WriteCompleted
  <1>16. ASSUME NEW r \in Requests, CleanupFails(r) PROVE TypeOK'
    BY <1>16, RecordTypes DEF CleanupFails, EraseRecord
  <1>17. ASSUME NEW r \in Requests, Crash(r) PROVE TypeOK'
    BY <1>17 DEF Crash
  <1>18. ASSUME NEW k \in Keys, Expire(k) PROVE TypeOK'
    BY <1>18 DEF Expire, Records, Absent
  <1>19. CASE UNCHANGED vars
    BY <1>19 DEF vars
  <1>20. QED
    BY <1>1, <1>2, <1>3, <1>4, <1>5, <1>6, <1>7, <1>8, <1>9, <1>10, <1>11, <1>12,
       <1>13, <1>14, <1>15, <1>16, <1>17, <1>18, <1>19 DEF Next, HandlerStep

\* Control only moves forward, except from recheck to reserve, and no call
\* returns to a step before its charge.
LEMMA ControlStep ==
  ASSUME TypeOK, ControlInv, [Next]_vars
  PROVE  ControlInv'
  <1> USE RequestsAssumption, KeysAssumption, ExpiryAssumption, StateSets
          DEF TypeOK, ControlInv, Goto, OnlyControl, StoreAndHistoryUnchanged
  <1>1. ASSUME NEW r \in Requests, AcceptSearch(r) PROVE ControlInv'
    BY <1>1 DEF AcceptSearch, Accept, Keys
  <1>2. ASSUME NEW r \in Requests, AcceptZyla(r) PROVE ControlInv'
    BY <1>2 DEF AcceptZyla, Accept, Keys
  <1>3. ASSUME NEW r \in Requests, Reject(r) PROVE ControlInv'
    BY <1>3 DEF Reject
  <1>4. ASSUME NEW r \in Requests, StoreGet(r) PROVE ControlInv'
    BY <1>4 DEF StoreGet
  <1>5. ASSUME NEW r \in Requests, Reserve(r) PROVE ControlInv'
    BY <1>5 DEF Reserve, Pending
  <1>6. ASSUME NEW r \in Requests, Recheck(r) PROVE ControlInv'
    BY <1>6 DEF Recheck
  <1>7. ASSUME NEW r \in Requests, ProviderAnswers(r) PROVE ControlInv'
    BY <1>7 DEF ProviderAnswers
  <1>8. ASSUME NEW r \in Requests, SearchFails(r) PROVE ControlInv'
    BY <1>8 DEF SearchFails, AfterFailure
  <1>9. ASSUME NEW r \in Requests, Commit(r) PROVE ControlInv'
    BY <1>9 DEF Commit
  <1>10. ASSUME NEW r \in Requests, CommitReplyLost(r) PROVE ControlInv'
    BY <1>10 DEF CommitReplyLost, AfterFailure
  <1>11. ASSUME NEW r \in Requests, Put(r) PROVE ControlInv'
    BY <1>11 DEF Put, WriteCompleted, Completed
  <1>12. ASSUME NEW r \in Requests, Cleanup(r) PROVE ControlInv'
    BY <1>12 DEF Cleanup, EraseRecord, Absent
  <1>13. ASSUME NEW r \in Requests, ReadFails(r) PROVE ControlInv'
    BY <1>13 DEF ReadFails
  <1>14. ASSUME NEW r \in Requests, ReserveFails(r) PROVE ControlInv'
    BY <1>14 DEF ReserveFails, Pending
  <1>15. ASSUME NEW r \in Requests, PutFails(r) PROVE ControlInv'
    BY <1>15 DEF PutFails, WriteCompleted, Completed
  <1>16. ASSUME NEW r \in Requests, CleanupFails(r) PROVE ControlInv'
    BY <1>16 DEF CleanupFails, EraseRecord, Absent
  <1>17. ASSUME NEW r \in Requests, Crash(r) PROVE ControlInv'
    BY <1>17 DEF Crash
  <1>18. ASSUME NEW k \in Keys, Expire(k) PROVE ControlInv'
    BY <1>18 DEF Expire, Absent
  <1>19. CASE UNCHANGED vars
    BY <1>19 DEF vars
  <1>20. QED
    BY <1>1, <1>2, <1>3, <1>4, <1>5, <1>6, <1>7, <1>8, <1>9, <1>10, <1>11, <1>12,
       <1>13, <1>14, <1>15, <1>16, <1>17, <1>18, <1>19 DEF Next, HandlerStep

\* A record is written only under the key of the call that writes it, and a
\* call that leaves its reservation for good erases it or stopped by a fault.
LEMMA RecordStep ==
  ASSUME TypeOK, ControlInv, RecordInv, [Next]_vars
  PROVE  RecordInv'
  <1> USE RequestsAssumption, KeysAssumption, ExpiryAssumption, StateSets
          DEF TypeOK, ControlInv, RecordInv, Goto, OnlyControl, StoreAndHistoryUnchanged
  <1>1. ASSUME NEW r \in Requests, AcceptSearch(r) PROVE RecordInv'
    BY <1>1 DEF AcceptSearch, Accept, Keys
  <1>2. ASSUME NEW r \in Requests, AcceptZyla(r) PROVE RecordInv'
    BY <1>2 DEF AcceptZyla, Accept, Keys
  <1>3. ASSUME NEW r \in Requests, Reject(r) PROVE RecordInv'
    BY <1>3 DEF Reject
  <1>4. ASSUME NEW r \in Requests, StoreGet(r) PROVE RecordInv'
    BY <1>4 DEF StoreGet
  <1>5. ASSUME NEW r \in Requests, Reserve(r) PROVE RecordInv'
    BY <1>5 DEF Reserve, Pending
  <1>6. ASSUME NEW r \in Requests, Recheck(r) PROVE RecordInv'
    BY <1>6 DEF Recheck
  <1>7. ASSUME NEW r \in Requests, ProviderAnswers(r) PROVE RecordInv'
    BY <1>7 DEF ProviderAnswers
  <1>8. ASSUME NEW r \in Requests, SearchFails(r) PROVE RecordInv'
    BY <1>8 DEF SearchFails, AfterFailure
  <1>9. ASSUME NEW r \in Requests, Commit(r) PROVE RecordInv'
    BY <1>9 DEF Commit
  <1>10. ASSUME NEW r \in Requests, CommitReplyLost(r) PROVE RecordInv'
    BY <1>10 DEF CommitReplyLost, AfterFailure
  <1>11. ASSUME NEW r \in Requests, Put(r) PROVE RecordInv'
    BY <1>11 DEF Put, WriteCompleted, Completed
  <1>12. ASSUME NEW r \in Requests, Cleanup(r) PROVE RecordInv'
    BY <1>12 DEF Cleanup, EraseRecord, Absent
  <1>13. ASSUME NEW r \in Requests, ReadFails(r) PROVE RecordInv'
    BY <1>13 DEF ReadFails
  <1>14. ASSUME NEW r \in Requests, ReserveFails(r) PROVE RecordInv'
    BY <1>14 DEF ReserveFails, Pending
  <1>15. ASSUME NEW r \in Requests, PutFails(r) PROVE RecordInv'
    BY <1>15 DEF PutFails, WriteCompleted, Completed
  <1>16. ASSUME NEW r \in Requests, CleanupFails(r) PROVE RecordInv'
    BY <1>16 DEF CleanupFails, EraseRecord, Absent
  <1>17. ASSUME NEW r \in Requests, Crash(r) PROVE RecordInv'
    BY <1>17 DEF Crash
  <1>18. ASSUME NEW k \in Keys, Expire(k) PROVE RecordInv'
    BY <1>18 DEF Expire, Absent
  <1>19. CASE UNCHANGED vars
    BY <1>19 DEF vars
  <1>20. QED
    BY <1>1, <1>2, <1>3, <1>4, <1>5, <1>6, <1>7, <1>8, <1>9, <1>10, <1>11, <1>12,
       <1>13, <1>14, <1>15, <1>16, <1>17, <1>18, <1>19 DEF Next, HandlerStep

\* Without expiry a reservation is granted only when no call works on the
\* key, and only the owner's own put and delete can reach the record.
LEMMA OwnerStep ==
  ASSUME TypeOK, ControlInv, RecordInv, OwnerHoldsRecord, [Next]_vars
  PROVE  OwnerHoldsRecord'
  <1> USE RequestsAssumption, KeysAssumption, ExpiryAssumption, StateSets
          DEF TypeOK, ControlInv, RecordInv, OwnerHoldsRecord, Goto, OnlyControl, StoreAndHistoryUnchanged
  <1>1. ASSUME NEW r \in Requests, AcceptSearch(r) PROVE OwnerHoldsRecord'
    BY <1>1 DEF AcceptSearch, Accept, Keys
  <1>2. ASSUME NEW r \in Requests, AcceptZyla(r) PROVE OwnerHoldsRecord'
    BY <1>2 DEF AcceptZyla, Accept, Keys
  <1>3. ASSUME NEW r \in Requests, Reject(r) PROVE OwnerHoldsRecord'
    BY <1>3 DEF Reject
  <1>4. ASSUME NEW r \in Requests, StoreGet(r) PROVE OwnerHoldsRecord'
    BY <1>4 DEF StoreGet
  <1>5. ASSUME NEW r \in Requests, Reserve(r) PROVE OwnerHoldsRecord'
    BY <1>5 DEF Reserve, Pending
  <1>6. ASSUME NEW r \in Requests, Recheck(r) PROVE OwnerHoldsRecord'
    BY <1>6 DEF Recheck
  <1>7. ASSUME NEW r \in Requests, ProviderAnswers(r) PROVE OwnerHoldsRecord'
    BY <1>7 DEF ProviderAnswers
  <1>8. ASSUME NEW r \in Requests, SearchFails(r) PROVE OwnerHoldsRecord'
    BY <1>8 DEF SearchFails, AfterFailure
  <1>9. ASSUME NEW r \in Requests, Commit(r) PROVE OwnerHoldsRecord'
    BY <1>9 DEF Commit
  <1>10. ASSUME NEW r \in Requests, CommitReplyLost(r) PROVE OwnerHoldsRecord'
    BY <1>10 DEF CommitReplyLost, AfterFailure
  <1>11. ASSUME NEW r \in Requests, Put(r) PROVE OwnerHoldsRecord'
    BY <1>11 DEF Put, WriteCompleted, Completed
  <1>12. ASSUME NEW r \in Requests, Cleanup(r) PROVE OwnerHoldsRecord'
    BY <1>12 DEF Cleanup, EraseRecord, Absent
  <1>13. ASSUME NEW r \in Requests, ReadFails(r) PROVE OwnerHoldsRecord'
    BY <1>13 DEF ReadFails
  <1>14. ASSUME NEW r \in Requests, ReserveFails(r) PROVE OwnerHoldsRecord'
    BY <1>14 DEF ReserveFails, Pending
  <1>15. ASSUME NEW r \in Requests, PutFails(r) PROVE OwnerHoldsRecord'
    BY <1>15 DEF PutFails, WriteCompleted, Completed
  <1>16. ASSUME NEW r \in Requests, CleanupFails(r) PROVE OwnerHoldsRecord'
    BY <1>16 DEF CleanupFails, EraseRecord, Absent
  <1>17. ASSUME NEW r \in Requests, Crash(r) PROVE OwnerHoldsRecord'
    BY <1>17 DEF Crash
  <1>18. ASSUME NEW k \in Keys, Expire(k) PROVE OwnerHoldsRecord'
    BY <1>18 DEF Expire, Absent
  <1>19. CASE UNCHANGED vars
    BY <1>19 DEF vars
  <1>20. QED
    BY <1>1, <1>2, <1>3, <1>4, <1>5, <1>6, <1>7, <1>8, <1>9, <1>10, <1>11, <1>12,
       <1>13, <1>14, <1>15, <1>16, <1>17, <1>18, <1>19 DEF Next, HandlerStep

\* A replay reads a completed record, whose response is paid (RecordInv).
LEMMA ReplayStep ==
  ASSUME TypeOK, ControlInv, RecordInv, ReplayFaithful, [Next]_vars
  PROVE  ReplayFaithful'
  <1> USE RequestsAssumption, KeysAssumption, ExpiryAssumption, StateSets
          DEF TypeOK, ControlInv, RecordInv, ReplayFaithful, Goto, OnlyControl, StoreAndHistoryUnchanged
  <1>1. ASSUME NEW r \in Requests, AcceptSearch(r) PROVE ReplayFaithful'
    BY <1>1 DEF AcceptSearch, Accept, Keys
  <1>2. ASSUME NEW r \in Requests, AcceptZyla(r) PROVE ReplayFaithful'
    BY <1>2 DEF AcceptZyla, Accept, Keys
  <1>3. ASSUME NEW r \in Requests, Reject(r) PROVE ReplayFaithful'
    BY <1>3 DEF Reject
  <1>4. ASSUME NEW r \in Requests, StoreGet(r) PROVE ReplayFaithful'
    BY <1>4 DEF StoreGet
  <1>5. ASSUME NEW r \in Requests, Reserve(r) PROVE ReplayFaithful'
    BY <1>5 DEF Reserve, Pending
  <1>6. ASSUME NEW r \in Requests, Recheck(r) PROVE ReplayFaithful'
    BY <1>6 DEF Recheck
  <1>7. ASSUME NEW r \in Requests, ProviderAnswers(r) PROVE ReplayFaithful'
    BY <1>7 DEF ProviderAnswers
  <1>8. ASSUME NEW r \in Requests, SearchFails(r) PROVE ReplayFaithful'
    BY <1>8 DEF SearchFails, AfterFailure
  <1>9. ASSUME NEW r \in Requests, Commit(r) PROVE ReplayFaithful'
    BY <1>9 DEF Commit
  <1>10. ASSUME NEW r \in Requests, CommitReplyLost(r) PROVE ReplayFaithful'
    BY <1>10 DEF CommitReplyLost, AfterFailure
  <1>11. ASSUME NEW r \in Requests, Put(r) PROVE ReplayFaithful'
    BY <1>11 DEF Put, WriteCompleted, Completed
  <1>12. ASSUME NEW r \in Requests, Cleanup(r) PROVE ReplayFaithful'
    BY <1>12 DEF Cleanup, EraseRecord, Absent
  <1>13. ASSUME NEW r \in Requests, ReadFails(r) PROVE ReplayFaithful'
    BY <1>13 DEF ReadFails
  <1>14. ASSUME NEW r \in Requests, ReserveFails(r) PROVE ReplayFaithful'
    BY <1>14 DEF ReserveFails, Pending
  <1>15. ASSUME NEW r \in Requests, PutFails(r) PROVE ReplayFaithful'
    BY <1>15 DEF PutFails, WriteCompleted, Completed
  <1>16. ASSUME NEW r \in Requests, CleanupFails(r) PROVE ReplayFaithful'
    BY <1>16 DEF CleanupFails, EraseRecord, Absent
  <1>17. ASSUME NEW r \in Requests, Crash(r) PROVE ReplayFaithful'
    BY <1>17 DEF Crash
  <1>18. ASSUME NEW k \in Keys, Expire(k) PROVE ReplayFaithful'
    BY <1>18 DEF Expire, Absent
  <1>19. CASE UNCHANGED vars
    BY <1>19 DEF vars
  <1>20. QED
    BY <1>1, <1>2, <1>3, <1>4, <1>5, <1>6, <1>7, <1>8, <1>9, <1>10, <1>11, <1>12,
       <1>13, <1>14, <1>15, <1>16, <1>17, <1>18, <1>19 DEF Next, HandlerStep

----------------------------------------------------------------------------
(* Counting charges.  A call weighs on its key from its reservation until it
   is known not to have charged; a present record accounts for one such call,
   an expiry or an erasure for every other. *)

Spent(k) ==
  {r \in Requests : key[r] = k /\ (charged[r] \/ pc[r] \in Searching \union {"cleanup"})}

Allowance(k) == expiries[k] + erased[k] + (IF store[k].state = "absent" THEN 0 ELSE 1)

SpendingInv == \A k \in Keys : Cardinality(Spent(k)) <= Allowance(k)

\* The calls that are counted are finitely many.
LEMMA SpentFinite ==
  \A k \in Keys : IsFiniteSet(Spent(k)) /\ Cardinality(Spent(k)) \in Nat
  BY RequestsAssumption, FS_Subset, FS_CardinalityType DEF Spent

\* How a step may change the set: not at all or shrink it, or add one call.
LEMMA SpentShrinks ==
  ASSUME NEW k \in Keys, Spent(k)' \subseteq Spent(k)
  PROVE  /\ Cardinality(Spent(k)') \in Nat
         /\ Cardinality(Spent(k)') <= Cardinality(Spent(k))
         /\ \A r \in Spent(k) \ Spent(k)' : Cardinality(Spent(k)') <= Cardinality(Spent(k)) - 1
  <1>1. IsFiniteSet(Spent(k)) /\ IsFiniteSet(Spent(k)')
    BY SpentFinite, FS_Subset
  <1>2. Cardinality(Spent(k)') \in Nat /\ Cardinality(Spent(k)) \in Nat
    BY <1>1, FS_CardinalityType
  <1>3. Cardinality(Spent(k)') <= Cardinality(Spent(k))
    BY <1>1, FS_Subset
  <1>4. ASSUME NEW r \in Spent(k) \ Spent(k)'
        PROVE  Cardinality(Spent(k)') <= Cardinality(Spent(k)) - 1
    <2>1. /\ IsFiniteSet(Spent(k) \ {r})
          /\ Cardinality(Spent(k) \ {r}) = Cardinality(Spent(k)) - 1
      BY <1>1, FS_RemoveElement
    <2>2. Spent(k)' \subseteq Spent(k) \ {r}
      BY <1>4
    <2>3. QED
      BY <2>1, <2>2, FS_Subset
  <1>5. QED
    BY <1>2, <1>3, <1>4

\* One call is added at most.
LEMMA SpentGrows ==
  ASSUME NEW k \in Keys, NEW r \in Requests, Spent(k)' = Spent(k) \union {r}
  PROVE  /\ Cardinality(Spent(k)') \in Nat
         /\ Cardinality(Spent(k)') <= Cardinality(Spent(k)) + 1
  <1>1. IsFiniteSet(Spent(k)) /\ Cardinality(Spent(k)) \in Nat
    BY SpentFinite
  <1>2. /\ IsFiniteSet(Spent(k) \union {r})
        /\ Cardinality(Spent(k) \union {r}) \in {Cardinality(Spent(k)), Cardinality(Spent(k)) + 1}
    BY <1>1, FS_AddElement
  <1>3. QED
    BY <1>1, <1>2

\* Steps that leave the store alone add no call to the set.
LEMMA QuietStep ==
  ASSUME TypeOK, ControlInv, SpendingInv, UNCHANGED <<store, expiries, erased>>,
         \A k \in Keys : Spent(k)' \subseteq Spent(k)
  PROVE  SpendingInv'
  <1> SUFFICES ASSUME NEW k \in Keys PROVE Cardinality(Spent(k)') <= Allowance(k)'
    BY DEF SpendingInv
  <1>1. Cardinality(Spent(k)) <= Allowance(k) /\ Allowance(k) \in Nat /\ Allowance(k)' = Allowance(k)
    BY DEF SpendingInv, Allowance, TypeOK
  <1>2. QED
    BY <1>1, SpentFinite, SpentShrinks

\* Only a reservation adds a call, and it also adds a record; a record that
\* disappears was expired, erased by a charged call, or released by a call
\* that leaves the set.
LEMMA SpendingStep ==
  ASSUME TypeOK, ControlInv, SpendingInv, [Next]_vars
  PROVE  SpendingInv'
  <1> USE RequestsAssumption, KeysAssumption, StateSets
          DEF TypeOK, ControlInv, Goto, OnlyControl, StoreAndHistoryUnchanged
  <1>a. ASSUME NEW k \in Keys
        PROVE  /\ Cardinality(Spent(k)) \in Nat /\ Cardinality(Spent(k)) <= Allowance(k)
               /\ expiries[k] \in Nat /\ erased[k] \in Nat
    BY <1>a, SpentFinite DEF SpendingInv
  <1>b. SpendingInv' <=> \A k \in Keys : Cardinality(Spent(k)') <= Allowance(k)'
    BY DEF SpendingInv
  <1>1. ASSUME NEW r \in Requests, AcceptSearch(r) PROVE SpendingInv'
    BY <1>1, QuietStep DEF AcceptSearch, Accept, Keys, Spent
  <1>2. ASSUME NEW r \in Requests, AcceptZyla(r) PROVE SpendingInv'
    BY <1>2, QuietStep DEF AcceptZyla, Accept, Keys, Spent
  <1>3. ASSUME NEW r \in Requests, Reject(r) PROVE SpendingInv'
    BY <1>3, QuietStep DEF Reject, Spent
  <1>4. ASSUME NEW r \in Requests, StoreGet(r) PROVE SpendingInv'
    BY <1>4, QuietStep DEF StoreGet, Spent
  <1>5. ASSUME NEW r \in Requests, Recheck(r) PROVE SpendingInv'
    BY <1>5, QuietStep DEF Recheck, Spent
  <1>6. ASSUME NEW r \in Requests, ProviderAnswers(r) PROVE SpendingInv'
    BY <1>6, QuietStep DEF ProviderAnswers, Spent
  <1>7. ASSUME NEW r \in Requests, SearchFails(r) PROVE SpendingInv'
    BY <1>7, QuietStep DEF SearchFails, AfterFailure, Spent
  <1>8. ASSUME NEW r \in Requests, Commit(r) PROVE SpendingInv'
    BY <1>8, QuietStep DEF Commit, Spent
  <1>9. ASSUME NEW r \in Requests, CommitReplyLost(r) PROVE SpendingInv'
    BY <1>9, QuietStep DEF CommitReplyLost, AfterFailure, Spent
  <1>10. ASSUME NEW r \in Requests, ReadFails(r) PROVE SpendingInv'
    BY <1>10, QuietStep DEF ReadFails, Spent
  <1>11. ASSUME NEW r \in Requests, Crash(r) PROVE SpendingInv'
    BY <1>11, QuietStep DEF Crash, Spent
  <1>12. ASSUME NEW r \in Requests, Reserve(r) PROVE SpendingInv'
    <2> SUFFICES ASSUME NEW k \in Keys PROVE Cardinality(Spent(k)') <= Allowance(k)'
      BY <1>b
    <2>1. CASE k = key[r] /\ store[k].state = "absent"
      <3>1. Spent(k)' = Spent(k) \union {r}
        BY <1>12, <2>1 DEF Reserve, Spent
      <3>2. Allowance(k) = expiries[k] + erased[k] /\ Allowance(k)' = expiries[k] + erased[k] + 1
        BY <1>12, <2>1, <1>a DEF Reserve, Pending, Allowance
      <3>3. Cardinality(Spent(k)') \in Nat /\ Cardinality(Spent(k)') <= Cardinality(Spent(k)) + 1
        BY <3>1, SpentGrows
      <3>4. QED
        BY <1>a, <3>2, <3>3
    <2>2. CASE ~(k = key[r] /\ store[k].state = "absent")
      <3>1. Spent(k)' \subseteq Spent(k) /\ Allowance(k)' = Allowance(k)
        BY <1>12, <2>2 DEF Reserve, Spent, Allowance
      <3>2. QED
        BY <1>a, <3>1, SpentShrinks DEF Allowance
    <2>3. QED
      BY <2>1, <2>2
  <1>13. ASSUME NEW r \in Requests, ReserveFails(r) PROVE SpendingInv'
    <2> SUFFICES ASSUME NEW k \in Keys PROVE Cardinality(Spent(k)') <= Allowance(k)'
      BY <1>b
    <2>1. Spent(k)' \subseteq Spent(k)
      BY <1>13 DEF ReserveFails, Spent
    <2>2. Allowance(k) <= Allowance(k)' /\ Allowance(k) \in Nat /\ Allowance(k)' \in Nat
      BY <1>13, <1>a DEF ReserveFails, Pending, Allowance
    <2>3. QED
      BY <1>a, <2>1, <2>2, SpentShrinks
  <1>14. ASSUME NEW r \in Requests, Put(r) PROVE SpendingInv'
    <2> SUFFICES ASSUME NEW k \in Keys PROVE Cardinality(Spent(k)') <= Allowance(k)'
      BY <1>b
    <2>1. Spent(k)' \subseteq Spent(k)
      BY <1>14 DEF Put, Spent
    <2>2. Allowance(k) <= Allowance(k)' /\ Allowance(k) \in Nat /\ Allowance(k)' \in Nat
      BY <1>14, <1>a DEF Put, WriteCompleted, Completed, Allowance
    <2>3. QED
      BY <1>a, <2>1, <2>2, SpentShrinks
  <1>15. ASSUME NEW r \in Requests, PutFails(r) PROVE SpendingInv'
    <2> SUFFICES ASSUME NEW k \in Keys PROVE Cardinality(Spent(k)') <= Allowance(k)'
      BY <1>b
    <2>1. Spent(k)' \subseteq Spent(k)
      BY <1>15 DEF PutFails, Spent
    <2>2. Allowance(k) <= Allowance(k)' /\ Allowance(k) \in Nat /\ Allowance(k)' \in Nat
      BY <1>15, <1>a DEF PutFails, WriteCompleted, Completed, Allowance
    <2>3. QED
      BY <1>a, <2>1, <2>2, SpentShrinks
  <1>16. ASSUME NEW r \in Requests, Cleanup(r) PROVE SpendingInv'
    <2> SUFFICES ASSUME NEW k \in Keys PROVE Cardinality(Spent(k)') <= Allowance(k)'
      BY <1>b
    <2>1. Spent(k)' \subseteq Spent(k)
      BY <1>16 DEF Cleanup, Spent
    <2>2. Allowance(k) \in Nat /\ Allowance(k)' \in Nat
      BY <1>16, <1>a DEF Cleanup, EraseRecord, Absent, Allowance
    <2>3. CASE Allowance(k) <= Allowance(k)'
      BY <1>a, <2>1, <2>2, <2>3, SpentShrinks
    <2>4. CASE ~(Allowance(k) <= Allowance(k)')
      <3>1. k = key[r] /\ ~charged[r] /\ Allowance(k)' = Allowance(k) - 1
        BY <1>16, <1>a, <2>4 DEF Cleanup, EraseRecord, Absent, Allowance
      <3>2. r \in Spent(k) \ Spent(k)'
        BY <1>16, <3>1 DEF Cleanup, Spent
      <3>3. QED
        BY <1>a, <2>1, <2>2, <3>1, <3>2, SpentShrinks
    <2>5. QED
      BY <2>3, <2>4
  <1>17. ASSUME NEW r \in Requests, CleanupFails(r) PROVE SpendingInv'
    <2> SUFFICES ASSUME NEW k \in Keys PROVE Cardinality(Spent(k)') <= Allowance(k)'
      BY <1>b
    <2>1. Spent(k)' \subseteq Spent(k)
      BY <1>17 DEF CleanupFails, Spent
    <2>2. Allowance(k) \in Nat /\ Allowance(k)' \in Nat
      BY <1>17, <1>a DEF CleanupFails, EraseRecord, Absent, Allowance
    <2>3. CASE Allowance(k) <= Allowance(k)'
      BY <1>a, <2>1, <2>2, <2>3, SpentShrinks
    <2>4. CASE ~(Allowance(k) <= Allowance(k)')
      <3>1. k = key[r] /\ ~charged[r] /\ Allowance(k)' = Allowance(k) - 1
        BY <1>17, <1>a, <2>4 DEF CleanupFails, EraseRecord, Absent, Allowance
      <3>2. r \in Spent(k) \ Spent(k)'
        BY <1>17, <3>1 DEF CleanupFails, Spent
      <3>3. QED
        BY <1>a, <2>1, <2>2, <3>1, <3>2, SpentShrinks
    <2>5. QED
      BY <2>3, <2>4
  <1>18. ASSUME NEW j \in Keys, Expire(j) PROVE SpendingInv'
    <2> SUFFICES ASSUME NEW k \in Keys PROVE Cardinality(Spent(k)') <= Allowance(k)'
      BY <1>b
    <2>1. Spent(k)' \subseteq Spent(k)
      BY <1>18 DEF Expire, Spent
    <2>2. Allowance(k)' = Allowance(k) /\ Allowance(k) \in Nat
      BY <1>18, <1>a DEF Expire, Absent, Allowance
    <2>3. QED
      BY <1>a, <2>1, <2>2, SpentShrinks
  <1>19. CASE UNCHANGED vars
    BY <1>19, QuietStep DEF vars, Spent
  <1>20. QED
    BY <1>1, <1>2, <1>3, <1>4, <1>5, <1>6, <1>7, <1>8, <1>9, <1>10, <1>11, <1>12,
       <1>13, <1>14, <1>15, <1>16, <1>17, <1>18, <1>19 DEF Next, HandlerStep

----------------------------------------------------------------------------
(* The theorems *)

\* The inductive invariant of the module.
THEOREM Invariance == Spec => [](IInv /\ SpendingInv)
  <1>1. Init => IInv /\ SpendingInv
    <2>1. ASSUME Init, NEW k \in Keys PROVE Cardinality(Spent(k)) <= Allowance(k)
      <3>1. Spent(k) = {}
        BY <2>1, StateSets DEF Init, Spent
      <3>2. Allowance(k) = 0
        BY <2>1 DEF Init, Allowance, Absent
      <3>3. QED
        BY <3>1, <3>2, FS_EmptySet
    <2>2. QED
      BY <2>1, InitInv DEF SpendingInv
  <1>2. IInv /\ SpendingInv /\ [Next]_vars => (IInv /\ SpendingInv)'
    BY TypeStep, ControlStep, RecordStep, OwnerStep, ReplayStep, SpendingStep DEF IInv
  <1>3. QED
    BY <1>1, <1>2, PTL DEF Spec

\* Every variable keeps its type: in particular a call that turns to the store
\* always has a key (handlers of app/main.py).
THEOREM TypeCorrect == Spec => []TypeOK
  BY Invariance, PTL DEF IInv

\* Mutual exclusion by reservation: until its TTL runs out, the record of a
\* key belongs to the one call that works under it (RedisIdempotencyStore).
THEOREM ReservationOwned == Spec => []OwnerHoldsRecord
  BY Invariance, PTL DEF IInv

\* A replayed response was paid for, under the same key, for the same payload.
THEOREM ReplaysFaithful == Spec => []ReplayFaithful
  BY Invariance, PTL DEF IInv

\* No return path of the handlers leaves a reservation behind.
THEOREM BlockingExplained == Spec => []BlockedOnlyByFault
  <1>1. IInv => BlockedOnlyByFault
    BY DEF IInv, RecordInv, BlockedOnlyByFault
  <1>2. QED
    BY <1>1, Invariance, PTL

\* A key never charges more than once plus its expiries and erasures.
THEOREM ChargesBounded == Spec => []ChargesExplained
  <1>1. IInv /\ SpendingInv => ChargesExplained
    <2> SUFFICES ASSUME IInv, SpendingInv, NEW k \in Keys
                 PROVE  Cardinality(ChargedUnder(k)) <= 1 + expiries[k] + erased[k]
      BY DEF ChargesExplained
    <2>1. /\ IsFiniteSet(Spent(k)) /\ Cardinality(Spent(k)) \in Nat
          /\ Cardinality(Spent(k)) <= Allowance(k)
      BY SpentFinite DEF SpendingInv
    <2>2. ChargedUnder(k) \subseteq Spent(k)
      BY DEF ChargedUnder, Spent
    <2>3. /\ Cardinality(ChargedUnder(k)) \in Nat
          /\ Cardinality(ChargedUnder(k)) <= Cardinality(Spent(k))
      BY <2>1, <2>2, FS_Subset, FS_CardinalityType
    <2>4. /\ expiries[k] \in Nat /\ erased[k] \in Nat
          /\ Allowance(k) \in Nat /\ Allowance(k) <= 1 + expiries[k] + erased[k]
      BY DEF Allowance, IInv, TypeOK
    <2>5. QED
      BY <2>1, <2>3, <2>4
  <1>2. QED
    BY <1>1, Invariance, PTL
=============================================================================
