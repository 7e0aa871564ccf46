--------------------------- MODULE JobQueueProofs ---------------------------
(***************************************************************************)
(* Proofs about JobQueue.  The inductive invariant has four parts: the     *)
(* types (Base), an accepted job stays live (LiveInv), a job that was not  *)
(* claimed from a live worker has one message and one worker (SingleInv),  *)
(* and the attempts of a job together with the executions still to come    *)
(* are paid for by its claims (AttemptsInv).  Each part has one lemma for  *)
(* each group of actions; what the actions change is stated once, in the   *)
(* ...Effect lemmas.                                                       *)
(***************************************************************************)
EXTENDS JobQueue, FiniteSetTheorems, SequenceTheorems, TLAPS

\* The ids a worker fetched and has not finished.
Ids(w) == ToSet(batch[w])

\* No id occurs twice in a batch.
Distinct(ids) == \A m, n \in DOMAIN ids : ids[m] = ids[n] => m = n

\* The type invariant by component, with the types TypeOK leaves out: the
\* private copies, the history and what each place of a worker implies.
Statuses == {"none", "QUEUED", "RUNNING", "SUCCEEDED", "FAILED"}

JobRows == [status : Statuses, attempts : Nat]

RowsTyped ==
  /\ submit \in [Jobs -> {"idle", "created", "failing", "done", "dead"}]
  /\ job \in [Jobs -> JobRows]

RedisTyped ==
  /\ stream \in Seq(Jobs) /\ delivered \in 0 .. Len(stream)
  /\ pending \subseteq 1 .. delivered /\ stale \subseteq pending

AtWork == {"mark", "running", "ack", "requeue"}

WorkerTyped(w) ==
  /\ wpc[w] \in {"down", "starting"} => batch[w] = <<>>
  /\ wpc[w] \in AtWork => batch[w] # <<>>
  /\ wpc[w] = "ack" => copy[w].status \in {"QUEUED", "SUCCEEDED", "FAILED"}
  /\ Distinct(batch[w])

WorkersTyped ==
  /\ wpc \in [Workers -> {"down", "starting", "next"} \union AtWork]
  /\ batch \in [Workers -> Seq(1 .. delivered)]
  /\ copy \in [Workers -> JobRows]
  /\ \A w \in Workers : WorkerTyped(w)

HistoryTyped ==
  /\ stops \in Nat
  /\ claims \in [Jobs -> Nat]
  /\ overlapped \subseteq Jobs /\ dropped \subseteq Jobs

\* A job whose submitter has not reached enqueue was never executed and no
\* message is about it.
FreshInv ==
  \A j \in Jobs : submit[j] \in {"idle", "created"} =>
    /\ job[j].attempts = 0
    /\ \A i \in 1 .. Len(stream) : stream[i] # j
    /\ submit[j] = "idle" => job[j] = NoRow

Base == RowsTyped /\ RedisTyped /\ WorkersTyped /\ HistoryTyped /\ FreshInv

\* A worker about to acknowledge a message for good.
Finishing(w) == wpc[w] = "ack" /\ copy[w].status # "QUEUED"

\* What JobTracked asks for, by a message no worker is about to acknowledge for
\* good.
Live(j) ==
  \/ Waiting(j)
  \/ \E i \in pending : stream[i] = j /\ \A w \in Workers : Finishing(w) => i # Head(batch[w])
  \/ \E w \in Workers : \E i \in Ids(w) : stream[i] = j /\ ~(Finishing(w) /\ i = Head(batch[w]))
  \/ j \in dropped

LiveInv == \A j \in Jobs : submit[j] = "done" /\ Unfinished(j) => Live(j)

\* The executions of a job that are still to begin or to be retried: messages to
\* be read, and messages held by a worker that has not finished with them and is
\* not in the last execution they give rise to.
Waits(j) == {i \in delivered + 1 .. Len(stream) : stream[i] = j}

Spent(w) == Finishing(w) \/ (wpc[w] = "running" /\ copy[w].attempts >= MaxAttempts)

Active(w, i, j) == i \in Ids(w) /\ stream[i] = j /\ ~(Spent(w) /\ i = Head(batch[w]))

Works(j) == {t \in Workers \X (1 .. delivered) : Active(t[1], t[2], j)}

Potential(j) == Cardinality(Waits(j)) + Cardinality(Works(j))

\* Claims pay for all of them but one; and once the attempts are used up, in the
\* row or in the copy of a worker about to execute, for every attempt past them.
AttemptsOf(j) ==
  /\ Potential(j) <= claims[j] + 1
  /\ job[j].attempts >= MaxAttempts => job[j].attempts + Potential(j) <= MaxAttempts + claims[j]
  /\ \A w \in Workers : wpc[w] = "mark" /\ Current(w) = j /\ copy[w].attempts >= MaxAttempts =>
       copy[w].attempts + Potential(j) <= MaxAttempts + claims[j]

AttemptsInv == \A j \in Jobs : AttemptsOf(j)

\* The messages of a job that are not acknowledged.
Kept(j) == {i \in 1 .. Len(stream) : stream[i] = j /\ (i > delivered \/ i \in pending)}

\* A job none of whose messages was claimed from a live worker: at most one
\* message is kept; what is held is pending, but for the message a worker is
\* about to add again; one worker holds it, once; while it is to be added again
\* nothing else is kept; and it is not executed once it has succeeded.
OneKept(j) == \A i, k \in Kept(j) : i = k

HeldKept(j) ==
  \A w \in Workers : \A i \in Ids(w) :
    stream[i] = j => i \in pending \/ (wpc[w] = "requeue" /\ i = Head(batch[w]))

OneHolder(j) ==
  \A v, w \in Workers : \A k \in Ids(v), i \in Ids(w) :
    stream[k] = j /\ stream[i] = j => v = w /\ i = k

RequeueLast(j) == \A w \in Workers : wpc[w] = "requeue" /\ Current(w) = j => Kept(j) = {}

NotRepeated(j) ==
  \A w \in Workers : wpc[w] \in {"mark", "running"} /\ Current(w) = j => job[j].status # "SUCCEEDED"

Single(j) == OneKept(j) /\ HeldKept(j) /\ OneHolder(j) /\ RequeueLast(j) /\ NotRepeated(j)

SingleInv == \A j \in Jobs \ overlapped : Single(j)

----------------------------------------------------------------------------
(* The first ids of a set *)

Count(ids) == IF Cardinality(ids) < BatchSize THEN Cardinality(ids) ELSE BatchSize

\* The ranks of a finite set of ids are the numbers from 1 to its size.
LEMMA Ranked ==
  ASSUME NEW ids \in SUBSET Nat, IsFiniteSet(ids)
  PROVE  /\ \A i \in ids : Rank(ids, i) \in 1 .. Cardinality(ids)
         /\ \A i, k \in ids : Rank(ids, i) = Rank(ids, k) => i = k
         /\ \A n \in 1 .. Cardinality(ids) : \E i \in ids : Rank(ids, i) = n
<1> DEFINE upTo(i) == {m \in ids : m <= i}
<1>1. Cardinality(ids) \in Nat
  BY FS_CardinalityType
<1>2. ASSUME NEW i \in ids PROVE Rank(ids, i) \in 1 .. Cardinality(ids)
  <2>1. IsFiniteSet(upTo(i)) /\ Cardinality(upTo(i)) <= Cardinality(ids)
    BY FS_Subset
  <2>2. Cardinality(upTo(i)) \in Nat /\ (Cardinality(upTo(i)) = 0 <=> upTo(i) = {})
    BY <2>1, FS_CardinalityType, FS_EmptySet
  <2>3. i \in upTo(i)
    OBVIOUS
  <2> QED BY <1>1, <2>1, <2>2, <2>3 DEF Rank
<1>3. ASSUME NEW i \in ids, NEW k \in ids, i < k PROVE Rank(ids, i) < Rank(ids, k)
  <2>1. upTo(i) \subseteq upTo(k) /\ k \in upTo(k) /\ k \notin upTo(i)
    <3>1. i \in Nat /\ k \in Nat /\ k <= k /\ ~(k <= i)
      BY <1>3
    <3>2. ASSUME NEW m \in ids, m <= i PROVE m <= k
      BY <1>3, <3>1, <3>2
    <3> QED BY <3>1, <3>2
  <2>2. IsFiniteSet(upTo(k))
    BY FS_Subset
  <2>3. /\ Cardinality(upTo(i)) <= Cardinality(upTo(k))
        /\ Cardinality(upTo(k)) = Cardinality(upTo(i)) => upTo(k) = upTo(i)
    BY <2>1, <2>2, FS_Subset
  <2>4. Rank(ids, i) \in Nat /\ Rank(ids, k) \in Nat
    BY <1>1, <1>2
  <2> HIDE DEF upTo
  <2>5. Cardinality(upTo(k)) # Cardinality(upTo(i))
    BY <2>1, <2>3
  <2>6. Rank(ids, i) = Cardinality(upTo(i)) /\ Rank(ids, k) = Cardinality(upTo(k))
    BY DEF Rank, upTo
  <2> QED BY <2>3, <2>4, <2>5, <2>6
<1>4. ASSUME NEW i \in ids, NEW k \in ids, Rank(ids, i) = Rank(ids, k) PROVE i = k
  BY <1>1, <1>2, <1>3, <1>4
<1>5. ASSUME NEW n \in 1 .. Cardinality(ids) PROVE \E i \in ids : Rank(ids, i) = n
  <2> DEFINE f == [i \in ids |-> Rank(ids, i)]
  <2>1. f \in Injection(ids, 1 .. Cardinality(ids))
    BY <1>2, <1>4 DEF Injection, IsInjective
  <2>2. /\ IsFiniteSet(1 .. Cardinality(ids))
        /\ Cardinality(1 .. Cardinality(ids)) = Cardinality(ids)
    BY <1>1, FS_Interval
  <2>3. f \in Surjection(ids, 1 .. Cardinality(ids))
    BY <2>1, <2>2, FS_Injection
  <2> QED BY <2>3 DEF Surjection
<1> QED BY <1>2, <1>4, <1>5

\* FirstIds lists members of the set, each once.
LEMMA FirstIdsListed ==
  ASSUME NEW ids \in SUBSET Nat, IsFiniteSet(ids)
  PROVE  /\ Count(ids) \in 0 .. Cardinality(ids) /\ Cardinality(ids) \in Nat
         /\ FirstIds(ids) \in Seq(ids) /\ Len(FirstIds(ids)) = Count(ids)
         /\ FirstIds(ids) \in [1 .. Count(ids) -> ids]
         /\ \A n \in 1 .. Count(ids) : Rank(ids, FirstIds(ids)[n]) = n
         /\ \A m, n \in DOMAIN FirstIds(ids) : FirstIds(ids)[m] = FirstIds(ids)[n] => m = n
<1>1. Cardinality(ids) \in Nat /\ Count(ids) \in 0 .. Cardinality(ids)
  BY FS_CardinalityType, JobQueueAssumption DEF Count
<1>2. FirstIds(ids) = [n \in 1 .. Count(ids) |-> CHOOSE i \in ids : Rank(ids, i) = n]
  BY DEF FirstIds, Count
<1>3. ASSUME NEW n \in 1 .. Count(ids)
      PROVE  FirstIds(ids)[n] \in ids /\ Rank(ids, FirstIds(ids)[n]) = n
  <2>1. \E i \in ids : Rank(ids, i) = n
    BY <1>1, Ranked
  <2> QED BY <1>2, <2>1
<1>4. FirstIds(ids) \in [1 .. Count(ids) -> ids]
  BY <1>2, <1>3
<1>5. FirstIds(ids) \in Seq(ids) /\ Len(FirstIds(ids)) = Count(ids)
  BY <1>1, <1>4
<1> QED BY <1>1, <1>3, <1>4, <1>5

\* Of the messages never delivered, those that follow the last delivered one.
LEMMA FirstIdsFollow ==
  ASSUME NEW a \in Nat, NEW b \in Nat, a <= b
  PROVE  LET ids == a + 1 .. b IN
         /\ IsFiniteSet(ids) /\ ids \in SUBSET Nat
         /\ Len(FirstIds(ids)) \in 0 .. b - a
         /\ FirstIds(ids) \in [1 .. Len(FirstIds(ids)) -> a + 1 .. a + Len(FirstIds(ids))]
         /\ \A n \in 1 .. Len(FirstIds(ids)) : FirstIds(ids)[n] = a + n
<1> DEFINE ids == a + 1 .. b
<1>1. IsFiniteSet(ids) /\ Cardinality(ids) = b - a /\ ids \in SUBSET Nat
  <2>1. a + 1 \in Int /\ b \in Int /\ ids \subseteq Nat
    OBVIOUS
  <2>2. IsFiniteSet(ids) /\ Cardinality(ids) = IF a + 1 > b THEN 0 ELSE b - (a + 1) + 1
    BY <2>1, FS_Interval
  <2> QED BY <2>1, <2>2
<1>2. ASSUME NEW i \in ids PROVE Rank(ids, i) = i - a
  <2>1. {m \in ids : m <= i} = a + 1 .. i
    OBVIOUS
  <2>2. Cardinality(a + 1 .. i) = i - a
    BY FS_Interval
  <2> QED BY <2>1, <2>2 DEF Rank
<1> HIDE DEF ids
<1>3. /\ FirstIds(ids) \in [1 .. Count(ids) -> ids] /\ Len(FirstIds(ids)) = Count(ids)
      /\ Count(ids) \in 0 .. b - a
      /\ \A n \in 1 .. Count(ids) : Rank(ids, FirstIds(ids)[n]) = n
  BY <1>1, FirstIdsListed
<1>4. ASSUME NEW n \in 1 .. Count(ids) PROVE FirstIds(ids)[n] = a + n
  <2>1. FirstIds(ids)[n] \in ids /\ n = FirstIds(ids)[n] - a
    BY <1>2, <1>3
  <2> QED BY <2>1 DEF ids
<1> QED BY <1>1, <1>3, <1>4 DEF ids
----------------------------------------------------------------------------
(* Types *)

\* The parts make up the type invariant of the model.
LEMMA BaseTypes == Base => TypeOK
<1> SUFFICES ASSUME Base PROVE TypeOK
  OBVIOUS
<1>1. RowsTyped /\ RedisTyped /\ WorkersTyped
  BY DEF Base
<1>2. ASSUME NEW w \in Workers PROVE ToSet(batch[w]) \subseteq 1 .. delivered
  <2>1. batch[w] \in Seq(1 .. delivered)
    BY <1>1 DEF WorkersTyped
  <2> QED BY <2>1, ElementOfSeq, LenProperties DEF ToSet
<1>3. /\ wpc \in [Workers -> {"down", "starting", "next", "mark", "running", "ack", "requeue"}]
      /\ \A w \in Workers : wpc[w] \in {"mark", "running", "ack", "requeue"} => batch[w] # <<>>
  BY <1>1 DEF WorkersTyped, WorkerTyped, AtWork
<1> QED BY <1>1, <1>2, <1>3 DEF TypeOK, RowsTyped, RedisTyped, JobRows, Statuses

\* Rows, and the changes that are made to them.
LEMMA RowsMade ==
  /\ \A s \in Statuses, n \in Nat : Row(s, n) \in JobRows
  /\ NoRow \in JobRows /\ NoRow.attempts = 0 /\ NoRow.status = "none"
  /\ \A r \in JobRows, s \in Statuses : [r EXCEPT !.status = s] \in JobRows
  /\ \A r \in JobRows, s \in Statuses :
       [r EXCEPT !.status = s].status = s /\ [r EXCEPT !.status = s].attempts = r.attempts
  BY DEF Row, NoRow, JobRows, Statuses

\* The initial state has the types.
LEMMA InitBase == Init => Base
<1> SUFFICES ASSUME Init PROVE Base
  OBVIOUS
<1>1. RowsTyped /\ RedisTyped /\ HistoryTyped
  BY RowsMade DEF Init, RowsTyped, RedisTyped, HistoryTyped
<1>2. WorkersTyped
  BY RowsMade DEF Init, WorkersTyped, WorkerTyped, AtWork, Distinct
<1>3. FreshInv
  BY RowsMade DEF Init, FreshInv
<1> QED BY <1>1, <1>2, <1>3 DEF Base

\* A worker that is done with a message has one less.
LEMMA TailOfBatch ==
  ASSUME NEW S, NEW b \in Seq(S), b # <<>>, Distinct(b)
  PROVE  /\ Tail(b) \in Seq(S) /\ Head(b) \in ToSet(b) /\ Head(b) \in S
         /\ Distinct(Tail(b))
         /\ ToSet(Tail(b)) = ToSet(b) \ {Head(b)}
<1>1. /\ Tail(b) \in Seq(S) /\ Len(Tail(b)) = Len(b) - 1 /\ Len(b) \in Nat \ {0}
      /\ \A i \in 1 .. Len(Tail(b)) : Tail(b)[i] = b[i + 1]
      /\ DOMAIN b = 1 .. Len(b) /\ DOMAIN Tail(b) = 1 .. Len(Tail(b))
      /\ Head(b) = b[1] /\ Head(b) \in S
  BY HeadTailProperties, LenProperties, EmptySeq
<1>2. Head(b) \in ToSet(b)
  BY <1>1 DEF ToSet
<1>3. Distinct(Tail(b))
  BY <1>1 DEF Distinct
<1>4. ASSUME NEW i \in ToSet(Tail(b)) PROVE i \in ToSet(b) \ {Head(b)}
  <2>1. PICK n \in 1 .. Len(Tail(b)) : i = Tail(b)[n]
    BY <1>1, <1>4 DEF ToSet
  <2> QED BY <1>1, <2>1 DEF ToSet, Distinct
<1>5. ASSUME NEW i \in ToSet(b) \ {Head(b)} PROVE i \in ToSet(Tail(b))
  <2>1. PICK n \in 1 .. Len(b) : i = b[n] /\ n # 1
    BY <1>1, <1>5 DEF ToSet
  <2>2. n - 1 \in DOMAIN Tail(b) /\ Tail(b)[n - 1] = i
    BY <1>1, <2>1
  <2> QED BY <2>2 DEF ToSet
<1> QED BY <1>1, <1>2, <1>3, <1>4, <1>5

\* A message added to the stream.
LEMMA Added ==
  ASSUME RedisTyped, NEW j \in Jobs, XAdd(j)
  PROVE  /\ stream' \in Seq(Jobs) /\ Len(stream') = Len(stream) + 1 /\ Len(stream) \in Nat
         /\ \A i \in 1 .. Len(stream) : stream'[i] = stream[i]
         /\ stream'[Len(stream) + 1] = j
  BY AppendProperties, LenProperties DEF RedisTyped, XAdd

\* What a worker at work has in its hands.
LEMMA CurrentHeld ==
  ASSUME Base, NEW w \in Workers, batch[w] # <<>>
  PROVE  /\ Head(batch[w]) \in 1 .. delivered /\ Head(batch[w]) \in Ids(w)
         /\ Head(batch[w]) \in 1 .. Len(stream)
         /\ Current(w) \in Jobs /\ stream[Head(batch[w])] = Current(w)
         /\ submit[Current(w)] \notin {"idle", "created"}
         /\ Tail(batch[w]) \in Seq(1 .. delivered) /\ Distinct(Tail(batch[w]))
         /\ ToSet(Tail(batch[w])) = Ids(w) \ {Head(batch[w])}
<1>1. /\ batch[w] \in Seq(1 .. delivered) /\ Distinct(batch[w])
      /\ stream \in Seq(Jobs) /\ delivered \in 0 .. Len(stream)
  BY DEF Base, WorkersTyped, WorkerTyped, RedisTyped
<1>2. /\ Tail(batch[w]) \in Seq(1 .. delivered) /\ Head(batch[w]) \in Ids(w)
      /\ Head(batch[w]) \in 1 .. delivered /\ Distinct(Tail(batch[w]))
      /\ ToSet(Tail(batch[w])) = Ids(w) \ {Head(batch[w])}
  BY <1>1, TailOfBatch DEF Ids
<1>3. Len(stream) \in Nat
  BY <1>1, LenProperties
<1>4. Head(batch[w]) \in 1 .. Len(stream)
  BY <1>1, <1>2, <1>3
<1>5. Current(w) \in Jobs /\ stream[Head(batch[w])] = Current(w)
  BY <1>1, <1>4, ElementOfSeq DEF Current
<1>6. submit[Current(w)] \notin {"idle", "created"}
  BY <1>4, <1>5 DEF Base, FreshInv
<1> QED BY <1>2, <1>4, <1>5, <1>6

\* What a claim or a read returns.
LEMMA Claimable ==
  ASSUME RedisTyped
  PROVE  /\ stale \in SUBSET Nat /\ IsFiniteSet(stale)
         /\ FirstIds(stale) \in Seq(1 .. delivered) /\ Distinct(FirstIds(stale))
         /\ ToSet(FirstIds(stale)) \subseteq stale
<1>1. delivered \in Nat /\ stale \subseteq 1 .. delivered
  BY LenProperties DEF RedisTyped
<1>2. stale \in SUBSET Nat /\ IsFiniteSet(stale)
  <2>1. IsFiniteSet(1 .. delivered)
    BY <1>1, FS_Interval
  <2>2. IsFiniteSet(stale)
    BY <1>1, <2>1, FS_Subset
  <2>3. 1 .. delivered \subseteq Nat
    BY <1>1
  <2> QED BY <1>1, <2>2, <2>3
<1>3. FirstIds(stale) \in Seq(stale)
  BY <1>2, FirstIdsListed
<1>4. FirstIds(stale) \in Seq(1 .. delivered)
  BY <1>1, <1>3, SeqMonotonic
<1>5. ToSet(FirstIds(stale)) \subseteq stale
  BY <1>3, ElementOfSeq, LenProperties DEF ToSet
<1>6. Distinct(FirstIds(stale))
  BY <1>2, FirstIdsListed DEF Distinct
<1> QED BY <1>2, <1>4, <1>5, <1>6

\* A read returns the messages that follow the last delivered one.
LEMMA Readable ==
  ASSUME RedisTyped, NEW ids, ids = FirstIds(delivered + 1 .. Len(stream))
  PROVE  /\ Len(ids) \in Nat /\ delivered + Len(ids) \in 0 .. Len(stream)
         /\ delivered \in Nat /\ Len(stream) \in Nat
         /\ ids \in Seq(1 .. delivered + Len(ids)) /\ Distinct(ids)
         /\ ToSet(ids) = delivered + 1 .. delivered + Len(ids)
<1>1. delivered \in Nat /\ Len(stream) \in Nat /\ delivered <= Len(stream)
  BY LenProperties DEF RedisTyped
<1>2. /\ Len(ids) \in 0 .. Len(stream) - delivered
      /\ ids \in [1 .. Len(ids) -> delivered + 1 .. delivered + Len(ids)]
      /\ \A n \in 1 .. Len(ids) : ids[n] = delivered + n
  BY <1>1, FirstIdsFollow
<1>3. Len(ids) \in Nat /\ delivered + Len(ids) \in 0 .. Len(stream)
  BY <1>1, <1>2
<1>4. ids \in Seq(delivered + 1 .. delivered + Len(ids))
  BY <1>2, <1>3
<1>5. ids \in Seq(1 .. delivered + Len(ids))
  <2>1. delivered + 1 .. delivered + Len(ids) \subseteq 1 .. delivered + Len(ids)
    BY <1>1, <1>3
  <2> QED BY <1>4, <2>1, SeqMonotonic
<1>6. \A i \in delivered + 1 .. delivered + Len(ids) :
        i - delivered \in 1 .. Len(ids) /\ ids[i - delivered] = i
  BY <1>1, <1>2, <1>3
<1>7. ToSet(ids) = delivered + 1 .. delivered + Len(ids)
  <2>1. DOMAIN ids = 1 .. Len(ids)
    BY <1>2
  <2>2. ASSUME NEW i \in ToSet(ids) PROVE i \in delivered + 1 .. delivered + Len(ids)
    BY <1>2, <2>1, <2>2 DEF ToSet
  <2>3. ASSUME NEW i \in delivered + 1 .. delivered + Len(ids) PROVE i \in ToSet(ids)
    BY <1>6, <2>1, <2>3 DEF ToSet
  <2> QED BY <2>2, <2>3
<1>8. Distinct(ids)
  <2>1. DOMAIN ids = 1 .. Len(ids)
    BY <1>2
  <2>2. ASSUME NEW m \in DOMAIN ids, NEW n \in DOMAIN ids, ids[m] = ids[n] PROVE m = n
    <3>1. m \in 1 .. Len(ids) /\ n \in 1 .. Len(ids)
      BY <2>1
    <3>2. delivered + m = delivered + n
      BY <1>2, <2>2, <3>1
    <3> QED BY <1>1, <1>3, <3>1, <3>2
  <2> QED BY <2>2 DEF Distinct
<1> QED BY <1>1, <1>3, <1>5, <1>7, <1>8

\* Steps of the submitter of a job.
LEMMA SubmitBase ==
  ASSUME Base, NEW j \in Jobs, CreateRecord(j) \/ SubmitStep(j) \/ SubmitterDies(j)
  PROVE  Base'
<1>0. RowsTyped /\ RedisTyped /\ WorkersTyped /\ HistoryTyped /\ FreshInv
  BY DEF Base
<1>1. UNCHANGED <<delivered, pending, stale, wpc, batch, copy, history>>
  BY DEF CreateRecord, SubmitStep, Enqueue, EnqueueRaises, MarkJobFailed, SubmitterDies, redis
<1>2. WorkersTyped' /\ HistoryTyped'
  BY <1>0, <1>1 DEF WorkersTyped, WorkerTyped, HistoryTyped, history
<1>3. CASE CreateRecord(j)
  <2>1. /\ submit[j] = "idle" /\ submit' = [submit EXCEPT ![j] = "created"] /\ UNCHANGED stream
        /\ job' = [job EXCEPT ![j] = Row("QUEUED", 0)]
    BY <1>3 DEF CreateRecord, Submission, redis
  <2>2. Row("QUEUED", 0) \in JobRows /\ Row("QUEUED", 0).attempts = 0
    BY DEF Row, JobRows, Statuses
  <2>3. RowsTyped'
    BY <1>0, <2>1, <2>2 DEF RowsTyped
  <2>4. RedisTyped'
    BY <1>0, <1>1, <2>1 DEF RedisTyped
  <2>5. FreshInv'
    BY <1>0, <2>1, <2>2 DEF FreshInv, RowsTyped
  <2> QED BY <1>2, <2>3, <2>4, <2>5 DEF Base
<1>4. CASE Enqueue(j) \/ EnqueueRaises(j)
  <2>1. /\ XAdd(j) \/ UNCHANGED stream
        /\ UNCHANGED job
        /\ \E to \in {"done", "failing"} : submit' = [submit EXCEPT ![j] = to]
    BY <1>4 DEF Enqueue, EnqueueRaises, Submission
  <2>2. /\ stream' \in Seq(Jobs) /\ Len(stream') \in Nat /\ Len(stream) \in Nat
        /\ Len(stream) <= Len(stream')
        /\ \A i \in 1 .. Len(stream') : (i \in 1 .. Len(stream) /\ stream'[i] = stream[i]) \/ stream'[i] = j
    <3>1. CASE XAdd(j)
      BY <1>0, <3>1, Added
    <3>2. CASE UNCHANGED stream
      BY <1>0, <3>2, LenProperties DEF RedisTyped
    <3> QED BY <2>1, <3>1, <3>2
  <2>3. RowsTyped'
    BY <1>0, <2>1 DEF RowsTyped
  <2>4. RedisTyped'
    BY <1>0, <1>1, <2>2 DEF RedisTyped
  <2>5. FreshInv'
    <3> SUFFICES ASSUME NEW k \in Jobs, submit'[k] \in {"idle", "created"}
                 PROVE  /\ job'[k].attempts = 0
                        /\ \A i \in 1 .. Len(stream') : stream'[i] # k
                        /\ submit'[k] = "idle" => job'[k] = NoRow
      BY DEF FreshInv
    <3>1. k # j /\ submit[k] = submit'[k]
      BY <1>0, <2>1 DEF RowsTyped
    <3> QED BY <1>0, <2>1, <2>2, <3>1 DEF FreshInv
  <2> QED BY <1>2, <2>3, <2>4, <2>5 DEF Base
<1>5. CASE MarkJobFailed(j) \/ SubmitterDies(j)
  <2>1. /\ UNCHANGED stream
        /\ \E to \in {"done", "dead"} : submit' = [submit EXCEPT ![j] = to]
        /\ job' = [job EXCEPT ![j].status = "FAILED"] \/ UNCHANGED job
    BY <1>5 DEF MarkJobFailed, SubmitterDies, Submission, redis
  <2>2. job[j] \in JobRows /\ [job[j] EXCEPT !.status = "FAILED"] \in JobRows
    BY <1>0, RowsMade DEF RowsTyped, Statuses
  <2>3. RowsTyped'
    BY <1>0, <2>1, <2>2 DEF RowsTyped
  <2>4. RedisTyped'
    BY <1>0, <1>1, <2>1 DEF RedisTyped
  <2>5. FreshInv'
    <3> SUFFICES ASSUME NEW k \in Jobs, submit'[k] \in {"idle", "created"}
                 PROVE  /\ job'[k].attempts = 0
                        /\ \A i \in 1 .. Len(stream') : stream'[i] # k
                        /\ submit'[k] = "idle" => job'[k] = NoRow
      BY DEF FreshInv
    <3>1. k # j /\ submit[k] = submit'[k] /\ job'[k] = job[k]
      BY <1>0, <2>1 DEF RowsTyped
    <3> QED BY <1>0, <2>1, <3>1 DEF FreshInv
  <2> QED BY <1>2, <2>3, <2>4, <2>5 DEF Base
<1> QED BY <1>3, <1>4, <1>5 DEF SubmitStep

\* A worker's step that leaves every batch but its own alone.
LEMMA WorkerBase ==
  ASSUME Base, NEW w \in Workers, NEW b \in Seq(1 .. delivered), Distinct(b),
         NEW to \in {"down", "starting", "next"} \union AtWork,
         NEW c \in JobRows,
         to \in {"down", "starting"} => b = <<>>,
         to \in AtWork => b # <<>>,
         to = "ack" => c.status \in {"QUEUED", "SUCCEEDED", "FAILED"},
         wpc' = [wpc EXCEPT ![w] = to],
         batch' = [batch EXCEPT ![w] = b],
         copy' = [copy EXCEPT ![w] = c],
         delivered' = delivered
  PROVE  WorkersTyped'
<1>1. WorkersTyped
  BY DEF Base
<1>2. /\ wpc' \in [Workers -> {"down", "starting", "next"} \union AtWork]
      /\ batch' \in [Workers -> Seq(1 .. delivered')] /\ copy' \in [Workers -> JobRows]
  BY <1>1 DEF WorkersTyped
<1>3. ASSUME NEW v \in Workers, v # w PROVE WorkerTyped(v)'
  BY <1>1, <1>3 DEF WorkersTyped, WorkerTyped
<1>4. WorkerTyped(w)'
  BY <1>1 DEF WorkersTyped, WorkerTyped
<1> QED BY <1>2, <1>3, <1>4 DEF WorkersTyped

\* A worker fetches messages: the stale ones, or those never delivered.
LEMMA FetchBase ==
  ASSUME Base, NEW w \in Workers, ClaimPending(w) \/ Read(w)
  PROVE  Base'
<1>0. RowsTyped /\ RedisTyped /\ WorkersTyped /\ HistoryTyped /\ FreshInv
  BY DEF Base
<1>1. RowsTyped' /\ FreshInv'
  BY <1>0 DEF RowsTyped, FreshInv, ClaimPending, Read, rows
<1>2. CASE ClaimPending(w)
  <2>1. /\ FirstIds(stale) \in Seq(1 .. delivered) /\ Distinct(FirstIds(stale))
        /\ ToSet(FirstIds(stale)) \subseteq stale /\ IsFiniteSet(stale)
    BY <1>0, Claimable
  <2>2. /\ wpc' = [wpc EXCEPT ![w] = "next"] /\ batch' = [batch EXCEPT ![w] = FirstIds(stale)]
        /\ stale' = stale \ ToSet(FirstIds(stale))
        /\ UNCHANGED <<stream, delivered, pending, copy, stops, dropped>>
    BY <1>2 DEF ClaimPending, Goto
  <2>3. copy' = [copy EXCEPT ![w] = copy[w]] /\ copy[w] \in JobRows
    BY <1>0, <2>2 DEF WorkersTyped
  <2>4. WorkersTyped'
    BY <2>1, <2>2, <2>3, WorkerBase DEF AtWork
  <2>5. RedisTyped'
    BY <1>0, <2>2 DEF RedisTyped
  <2>6. claims' \in [Jobs -> Nat]
    <3>1. ASSUME NEW j \in Jobs
          PROVE  Cardinality({i \in ToSet(FirstIds(stale)) : stream[i] = j}) \in Nat
      BY <2>1, FS_Subset, FS_CardinalityType
    <3> QED BY <1>0, <1>2, <3>1 DEF ClaimPending, HistoryTyped
  <2>7. ASSUME NEW i \in ToSet(FirstIds(stale)) PROVE stream[i] \in Jobs
    <3>1. /\ i \in 1 .. delivered /\ stream \in Seq(Jobs)
          /\ delivered \in 0 .. Len(stream) /\ Len(stream) \in Nat
      <4>1. stream \in Seq(Jobs) /\ delivered \in 0 .. Len(stream) /\ stale \subseteq 1 .. delivered
        BY <1>0 DEF RedisTyped
      <4> QED BY <2>1, <4>1, LenProperties
    <3>2. i \in 1 .. Len(stream)
      BY <3>1
    <3> QED BY <3>1, <3>2, ElementOfSeq
  <2>8. HistoryTyped'
    BY <1>0, <1>2, <2>2, <2>6, <2>7 DEF ClaimPending, HistoryTyped
  <2> QED BY <1>1, <2>4, <2>5, <2>8 DEF Base
<1>3. CASE Read(w)
  <2> DEFINE ids == FirstIds(delivered + 1 .. Len(stream))
  <2>1. /\ Len(ids) \in Nat /\ delivered + Len(ids) \in 0 .. Len(stream)
        /\ delivered \in Nat /\ Len(stream) \in Nat
        /\ ids \in Seq(1 .. delivered + Len(ids)) /\ Distinct(ids)
        /\ ToSet(ids) = delivered + 1 .. delivered + Len(ids)
    BY <1>0, Readable
  <2>2. /\ batch' = [batch EXCEPT ![w] = ids] /\ delivered' = delivered + Len(ids)
        /\ pending' = pending \union ToSet(ids) /\ wpc[w] = "next"
        /\ UNCHANGED <<rows, stream, stale, wpc, copy, history>>
    BY <1>3 DEF Read
  <2> HIDE DEF ids
  <2>3. HistoryTyped'
    BY <1>0, <2>2 DEF HistoryTyped, history
  <2>4. RedisTyped'
    <3>1. /\ 1 .. delivered \subseteq 1 .. delivered'
          /\ delivered + 1 .. delivered + Len(ids) \subseteq 1 .. delivered'
      BY <2>1, <2>2
    <3>2. pending' \subseteq 1 .. delivered'
      BY <1>0, <2>1, <2>2, <3>1 DEF RedisTyped
    <3> QED BY <1>0, <2>1, <2>2, <3>2 DEF RedisTyped
  <2>5. WorkersTyped'
    <3>1. 1 .. delivered \subseteq 1 .. delivered'
      BY <2>1, <2>2
    <3>2. batch' \in [Workers -> Seq(1 .. delivered')]
      <4>1. \A v \in Workers : batch[v] \in Seq(1 .. delivered')
        BY <1>0, <3>1, SeqMonotonic DEF WorkersTyped
      <4> QED BY <1>0, <2>1, <2>2, <4>1 DEF WorkersTyped
    <3>3. ASSUME NEW v \in Workers PROVE WorkerTyped(v)'
      <4>1. CASE v # w
        BY <1>0, <2>2, <4>1 DEF WorkersTyped, WorkerTyped
      <4>2. CASE v = w
        <5>1. batch'[w] = ids /\ wpc'[w] = "next"
          BY <1>0, <2>2 DEF WorkersTyped
        <5> QED BY <2>1, <4>2, <5>1 DEF WorkerTyped, AtWork
      <4> QED BY <4>1, <4>2
    <3> QED BY <1>0, <2>2, <3>2, <3>3 DEF WorkersTyped
  <2> QED BY <1>1, <2>3, <2>4, <2>5 DEF Base
<1> QED BY <1>2, <1>3

\* A worker loads and executes the current job of its batch.
LEMMA ExecuteBase ==
  ASSUME Base, NEW w \in Workers, Load(w) \/ MarkRunning(w) \/ Succeed(w) \/ Raise(w)
  PROVE  Base'
<1>0. RowsTyped /\ RedisTyped /\ WorkersTyped /\ HistoryTyped /\ FreshInv
  BY DEF Base
<1>1. batch[w] # <<>> /\ UNCHANGED <<submit, redis, batch, history>>
  BY <1>0 DEF Load, MarkRunning, Succeed, Raise, Finish, Goto, WorkersTyped, WorkerTyped, AtWork, rows
<1>2. RedisTyped' /\ HistoryTyped' /\ UNCHANGED <<stream, delivered>>
  BY <1>0, <1>1 DEF RedisTyped, HistoryTyped, redis, history
<1>3. Current(w) \in Jobs /\ submit[Current(w)] \notin {"idle", "created"}
  BY <1>1, CurrentHeld
<1>4. job[Current(w)] \in JobRows /\ copy[w] \in JobRows
  BY <1>0, <1>3 DEF RowsTyped, WorkersTyped
<1>5. /\ batch' = [batch EXCEPT ![w] = batch[w]]
      /\ batch[w] \in Seq(1 .. delivered) /\ Distinct(batch[w])
  BY <1>0, <1>1 DEF WorkersTyped, WorkerTyped
<1>6. ASSUME NEW c \in JobRows, NEW to \in {"mark", "running", "ack"},
             to = "ack" => c.status \in {"QUEUED", "SUCCEEDED", "FAILED"},
             NEW r \in JobRows,
             wpc' = [wpc EXCEPT ![w] = to], copy' = [copy EXCEPT ![w] = c],
             job' = [job EXCEPT ![Current(w)] = r]
      PROVE  Base'
  <2>1. WorkersTyped'
    <3>1. to \in {"down", "starting", "next"} \union AtWork /\ to \notin {"down", "starting"}
      BY <1>6 DEF AtWork
    <3> QED BY <1>1, <1>2, <1>5, <1>6, <3>1, WorkerBase
  <2>2. RowsTyped'
    BY <1>0, <1>1, <1>6 DEF RowsTyped
  <2>3. FreshInv'
    <3>1. \A k \in Jobs : submit[k] \in {"idle", "created"} => job'[k] = job[k]
      BY <1>0, <1>3, <1>6 DEF RowsTyped
    <3> QED BY <1>0, <1>1, <1>2, <3>1 DEF FreshInv
  <2> QED BY <1>2, <2>1, <2>2, <2>3 DEF Base
<1>7. CASE Load(w)
  <2>1. job' = [job EXCEPT ![Current(w)] = job[Current(w)]]
    BY <1>0, <1>7 DEF Load, rows, RowsTyped
  <2>2. /\ copy' = [copy EXCEPT ![w] = job[Current(w)]]
        /\ \/ wpc' = [wpc EXCEPT ![w] = "ack"] /\ job[Current(w)].status = "SUCCEEDED"
           \/ wpc' = [wpc EXCEPT ![w] = "mark"]
    BY <1>7 DEF Load, Goto
  <2>3. CASE wpc' = [wpc EXCEPT ![w] = "ack"] /\ job[Current(w)].status = "SUCCEEDED"
    BY <1>4, <1>6, <2>1, <2>2, <2>3
  <2>4. CASE wpc' = [wpc EXCEPT ![w] = "mark"]
    BY <1>4, <1>6, <2>1, <2>2, <2>4
  <2> QED BY <2>2, <2>3, <2>4
<1>8. CASE MarkRunning(w)
  <2> DEFINE s == IF copy[w].status = "RUNNING" THEN job[Current(w)].status ELSE "RUNNING"
  <2>1. copy[w].attempts + 1 \in Nat /\ "RUNNING" \in Statuses /\ s \in Statuses
    BY <1>4 DEF JobRows, Statuses
  <2>2. Row("RUNNING", copy[w].attempts + 1) \in JobRows /\ Row(s, copy[w].attempts + 1) \in JobRows
    BY <2>1, RowsMade
  <2>3. /\ wpc' = [wpc EXCEPT ![w] = "running"]
        /\ copy' = [copy EXCEPT ![w] = Row("RUNNING", copy[w].attempts + 1)]
        /\ job' = [job EXCEPT ![Current(w)] = Row(s, copy[w].attempts + 1)]
    BY <1>0, <1>3, <1>8 DEF MarkRunning, Goto, WorkersTyped, RowsTyped
  <2> HIDE DEF s
  <2> QED BY <1>6, <2>2, <2>3
<1>9. CASE Succeed(w) \/ Raise(w)
  <2>1. PICK status \in {"QUEUED", "SUCCEEDED", "FAILED"} : Finish(w, status)
    BY <1>9 DEF Succeed, Raise
  <2>2. status \in Statuses
    BY DEF Statuses
  <2>3. /\ wpc' = [wpc EXCEPT ![w] = "ack"]
        /\ copy' = [copy EXCEPT ![w] = [copy[w] EXCEPT !.status = status]]
        /\ job' = [job EXCEPT ![Current(w)] = [job[Current(w)] EXCEPT !.status = status]]
    BY <1>0, <1>3, <2>1 DEF Finish, Goto, WorkersTyped, RowsTyped
  <2>4. /\ [copy[w] EXCEPT !.status = status] \in JobRows
        /\ [job[Current(w)] EXCEPT !.status = status] \in JobRows
        /\ [copy[w] EXCEPT !.status = status].status = status
    BY <1>4, <2>2, RowsMade
  <2> QED BY <1>6, <2>3, <2>4
<1> QED BY <1>7, <1>8, <1>9

\* A worker acknowledges its current message and enqueues the job again.
LEMMA AcknowledgeBase ==
  ASSUME Base, NEW w \in Workers, Acknowledge(w) \/ Requeue(w)
  PROVE  Base'
<1>0. RowsTyped /\ RedisTyped /\ WorkersTyped /\ HistoryTyped /\ FreshInv
  BY DEF Base
<1>1. batch[w] # <<>> /\ UNCHANGED <<rows, delivered, history>>
  BY <1>0 DEF Acknowledge, Requeue, Goto, WorkersTyped, WorkerTyped, AtWork
<1>2. RowsTyped' /\ HistoryTyped' /\ UNCHANGED <<submit, job>>
  BY <1>0, <1>1 DEF RowsTyped, HistoryTyped, rows, history
<1>3. /\ Tail(batch[w]) \in Seq(1 .. delivered) /\ Distinct(Tail(batch[w]))
      /\ Current(w) \in Jobs /\ submit[Current(w)] \notin {"idle", "created"}
  BY <1>1, CurrentHeld
<1>4. /\ batch[w] \in Seq(1 .. delivered) /\ Distinct(batch[w]) /\ copy[w] \in JobRows
      /\ NoRow \in JobRows
  BY <1>0, RowsMade DEF WorkersTyped, WorkerTyped
<1>5. CASE Acknowledge(w)
  <2>1. /\ \/ /\ wpc' = [wpc EXCEPT ![w] = "requeue"] /\ UNCHANGED <<batch, copy>>
           \/ /\ wpc' = [wpc EXCEPT ![w] = "next"] /\ batch' = [batch EXCEPT ![w] = Tail(batch[w])]
              /\ copy' = [copy EXCEPT ![w] = NoRow]
        /\ pending' = pending \ {Head(batch[w])} /\ stale' = stale \ {Head(batch[w])}
        /\ UNCHANGED stream
    BY <1>0, <1>5 DEF Acknowledge, Goto, Drop, WorkersTyped
  <2>2. WorkersTyped'
    <3>1. CASE wpc' = [wpc EXCEPT ![w] = "requeue"] /\ UNCHANGED <<batch, copy>>
      <4>1. batch' = [batch EXCEPT ![w] = batch[w]] /\ copy' = [copy EXCEPT ![w] = copy[w]]
        BY <1>0, <3>1 DEF WorkersTyped
      <4>2. "requeue" \in AtWork
        BY DEF AtWork
      <4> QED BY <1>1, <1>4, <3>1, <4>1, <4>2, WorkerBase
    <3>2. CASE /\ wpc' = [wpc EXCEPT ![w] = "next"] /\ batch' = [batch EXCEPT ![w] = Tail(batch[w])]
               /\ copy' = [copy EXCEPT ![w] = NoRow]
      <4>1. "next" \notin AtWork
        BY DEF AtWork
      <4> QED BY <1>1, <1>3, <1>4, <3>2, <4>1, WorkerBase
    <3> QED BY <2>1, <3>1, <3>2
  <2>3. RedisTyped' /\ FreshInv'
    BY <1>0, <1>1, <1>2, <2>1 DEF RedisTyped, FreshInv
  <2> QED BY <1>2, <2>2, <2>3 DEF Base
<1>6. CASE Requeue(w)
  <2>1. /\ XAdd(Current(w)) /\ wpc' = [wpc EXCEPT ![w] = "next"]
        /\ batch' = [batch EXCEPT ![w] = Tail(batch[w])] /\ copy' = [copy EXCEPT ![w] = NoRow]
        /\ UNCHANGED <<delivered, pending, stale>>
    BY <1>0, <1>6 DEF Requeue, Goto, Drop, WorkersTyped
  <2>2. WorkersTyped'
    <3>1. "next" \notin AtWork
      BY DEF AtWork
    <3> QED BY <1>3, <1>4, <2>1, <3>1, WorkerBase
  <2>3. /\ stream' \in Seq(Jobs) /\ Len(stream') = Len(stream) + 1 /\ Len(stream) \in Nat
        /\ \A i \in 1 .. Len(stream) : stream'[i] = stream[i]
        /\ stream'[Len(stream) + 1] = Current(w)
    BY <1>0, <1>3, <2>1, Added
  <2>4. RedisTyped'
    BY <1>0, <2>1, <2>3 DEF RedisTyped
  <2>5. FreshInv'
    <3>1. ASSUME NEW k \in Jobs, submit[k] \in {"idle", "created"}, NEW i \in 1 .. Len(stream')
          PROVE  stream'[i] # k
      <4>1. i \in 1 .. Len(stream) \/ i = Len(stream) + 1
        BY <2>3
      <4> QED BY <1>0, <1>3, <2>3, <3>1, <4>1 DEF FreshInv
    <3> QED BY <1>0, <1>2, <3>1 DEF FreshInv
  <2> QED BY <1>2, <2>2, <2>4, <2>5 DEF Base
<1> QED BY <1>5, <1>6

\* A worker starts or ends, and messages become stale.
LEMMA EnvironmentBase ==
  ASSUME Base, (\E w \in Workers : Start(w) \/ Stop(w)) \/ (\E i \in pending : Age(i))
  PROVE  Base'
<1>0. RowsTyped /\ RedisTyped /\ WorkersTyped /\ HistoryTyped /\ FreshInv
  BY DEF Base
<1>1. UNCHANGED <<rows, stream, delivered, pending>>
  BY DEF Start, Stop, Age, redis
<1>2. RowsTyped' /\ FreshInv'
  BY <1>0, <1>1 DEF RowsTyped, FreshInv, rows
<1>3. <<>> \in Seq(1 .. delivered) /\ Distinct(<<>>) /\ NoRow \in JobRows
  BY RowsMade DEF Distinct
<1>4. ASSUME NEW w \in Workers, Start(w) PROVE Base'
  <2>1. /\ wpc[w] = "down" /\ wpc' = [wpc EXCEPT ![w] = "starting"]
        /\ UNCHANGED <<batch, copy, stale, history>>
    BY <1>4 DEF Start, Goto, redis
  <2>2. batch' = [batch EXCEPT ![w] = <<>>] /\ copy' = [copy EXCEPT ![w] = copy[w]] /\ copy[w] \in JobRows
    BY <1>0, <2>1 DEF WorkersTyped, WorkerTyped
  <2>3. WorkersTyped'
    BY <1>1, <1>3, <2>1, <2>2, WorkerBase DEF AtWork
  <2>4. RedisTyped' /\ HistoryTyped'
    BY <1>0, <1>1, <2>1 DEF RedisTyped, HistoryTyped, history
  <2> QED BY <1>2, <2>3, <2>4 DEF Base
<1>5. ASSUME NEW w \in Workers, Stop(w) PROVE Base'
  <2>1. /\ wpc' = [wpc EXCEPT ![w] = "down"] /\ batch' = [batch EXCEPT ![w] = <<>>]
        /\ copy' = [copy EXCEPT ![w] = NoRow] /\ UNCHANGED stale
        /\ stops' = stops + 1 /\ UNCHANGED <<claims, overlapped>>
    BY <1>5 DEF Stop, redis
  <2>2. WorkersTyped'
    BY <1>1, <1>3, <2>1, WorkerBase DEF AtWork
  <2>3. ASSUME NEW i \in ToSet(batch[w]) PROVE stream[i] \in Jobs
    <3>1. batch[w] \in Seq(1 .. delivered) /\ delivered \in 0 .. Len(stream) /\ stream \in Seq(Jobs)
      BY <1>0 DEF WorkersTyped, RedisTyped
    <3>2. i \in 1 .. delivered
      BY <3>1, ElementOfSeq, LenProperties DEF ToSet
    <3> QED BY <3>1, <3>2, ElementOfSeq, LenProperties
  <2>4. dropped' \subseteq Jobs
    BY <1>0, <1>5, <2>3 DEF Stop, HistoryTyped
  <2>5. RedisTyped' /\ HistoryTyped'
    BY <1>0, <1>1, <2>1, <2>4 DEF RedisTyped, HistoryTyped
  <2> QED BY <1>2, <2>2, <2>5 DEF Base
<1>6. ASSUME NEW i \in pending, Age(i) PROVE Base'
  BY <1>0, <1>1, <1>2, <1>6 DEF Base, Age, RedisTyped, HistoryTyped, WorkersTyped, WorkerTyped, history
<1> QED BY <1>4, <1>5, <1>6

\* Every step keeps the types.
LEMMA BaseStep == Base /\ [Next]_vars => Base'
<1> SUFFICES ASSUME Base, [Next]_vars PROVE Base'
  OBVIOUS
<1>1. CASE UNCHANGED vars
  BY <1>1 DEF Base, vars, RowsTyped, RedisTyped, WorkersTyped, WorkerTyped, HistoryTyped, FreshInv,
     rows, redis, history
<1>2. CASE Next
  BY <1>2, SubmitBase, FetchBase, ExecuteBase, AcknowledgeBase, EnvironmentBase DEF Next, WorkerStep
<1> QED BY <1>1, <1>2
----------------------------------------------------------------------------
(* What each step of a worker changes *)

\* The other workers stay as they are.
Others(w) ==
  \A v \in Workers \ {w} : wpc'[v] = wpc[v] /\ batch'[v] = batch[v] /\ copy'[v] = copy[v]

\* Start touches nothing but the place of a worker that has no batch.
LEMMA StartEffect ==
  ASSUME Base, NEW w \in Workers, Start(w)
  PROVE  /\ Others(w) /\ wpc[w] = "down" /\ wpc'[w] = "starting"
         /\ batch[w] = <<>> /\ batch'[w] = <<>> /\ copy'[w] = copy[w]
         /\ UNCHANGED <<submit, job, stream, delivered, pending, claims, overlapped, dropped>>
  BY DEF Base, WorkersTyped, WorkerTyped, Start, Goto, Others, rows, redis, history

\* ClaimPending gives stale messages to a worker that had none.
LEMMA ClaimEffect ==
  ASSUME Base, NEW w \in Workers, ClaimPending(w)
  PROVE  /\ Others(w) /\ wpc[w] = "starting" /\ wpc'[w] = "next"
         /\ batch[w] = <<>> /\ batch'[w] = FirstIds(stale) /\ copy'[w] = copy[w]
         /\ UNCHANGED <<submit, job, stream, delivered, pending, dropped>>
  BY DEF Base, WorkersTyped, WorkerTyped, ClaimPending, Goto, Others, rows

\* Read gives undelivered messages to a worker that had none.
LEMMA ReadEffect ==
  ASSUME Base, NEW w \in Workers, Read(w)
  PROVE  /\ Others(w) /\ wpc[w] = "next" /\ wpc'[w] = "next" /\ copy'[w] = copy[w]
         /\ batch[w] = <<>> /\ ToSet(batch'[w]) = delivered + 1 .. delivered'
         /\ delivered \in Nat /\ delivered' \in delivered .. Len(stream) /\ Len(stream) \in Nat
         /\ pending' = pending \union (delivered + 1 .. delivered')
         /\ UNCHANGED <<submit, job, stream, claims, overlapped, dropped>>
<1> DEFINE ids == FirstIds(delivered + 1 .. Len(stream))
<1>1. RedisTyped /\ WorkersTyped
  BY DEF Base
<1>2. /\ Len(ids) \in Nat /\ delivered + Len(ids) \in 0 .. Len(stream)
      /\ delivered \in Nat /\ Len(stream) \in Nat
      /\ ToSet(ids) = delivered + 1 .. delivered + Len(ids)
  BY <1>1, Readable
<1>3. /\ wpc[w] = "next" /\ batch[w] = <<>> /\ batch' = [batch EXCEPT ![w] = ids]
      /\ delivered' = delivered + Len(ids) /\ pending' = pending \union ToSet(ids)
      /\ UNCHANGED <<wpc, copy>>
      /\ UNCHANGED <<submit, job, stream, claims, overlapped, dropped>>
  BY DEF Read, rows, history
<1> HIDE DEF ids
<1>4. batch'[w] = ids /\ Others(w)
  BY <1>1, <1>3 DEF Others, WorkersTyped
<1> QED BY <1>2, <1>3, <1>4

\* Load takes a copy of the current job's row.
LEMMA LoadEffect ==
  ASSUME Base, NEW w \in Workers, Load(w)
  PROVE  /\ Others(w) /\ wpc[w] = "next" /\ batch[w] # <<>> /\ batch'[w] = batch[w]
         /\ copy'[w] = job[Current(w)]
         /\ wpc'[w] = IF job[Current(w)].status = "SUCCEEDED" THEN "ack" ELSE "mark"
         /\ UNCHANGED <<submit, job, stream, delivered, pending, claims, overlapped, dropped>>
  BY DEF Base, WorkersTyped, Load, Goto, Others, rows, redis, history

\* MarkRunning writes the copy and the row.
LEMMA MarkEffect ==
  ASSUME Base, NEW w \in Workers, MarkRunning(w)
  PROVE  /\ Others(w) /\ wpc[w] = "mark" /\ wpc'[w] = "running"
         /\ batch[w] # <<>> /\ batch'[w] = batch[w]
         /\ copy[w] \in JobRows
         /\ copy'[w].status = "RUNNING" /\ copy'[w].attempts = copy[w].attempts + 1
         /\ job'[Current(w)].attempts = copy[w].attempts + 1
         /\ job'[Current(w)].status =
              IF copy[w].status = "RUNNING" THEN job[Current(w)].status ELSE "RUNNING"
         /\ \A k \in Jobs : k # Current(w) => job'[k] = job[k]
         /\ UNCHANGED <<submit, stream, delivered, pending, claims, overlapped, dropped>>
<1>1. WorkersTyped /\ RowsTyped /\ batch[w] # <<>>
  BY DEF Base, WorkersTyped, WorkerTyped, AtWork, MarkRunning, Goto
<1>2. Current(w) \in Jobs
  BY <1>1, CurrentHeld
<1> QED BY <1>1, <1>2 DEF WorkersTyped, RowsTyped, MarkRunning, Goto, Others, Row, redis, history

\* Succeed and Raise write the status of the copy and of the row.
LEMMA FinishEffect ==
  ASSUME Base, NEW w \in Workers, Succeed(w) \/ Raise(w)
  PROVE  /\ Others(w) /\ wpc[w] = "running" /\ wpc'[w] = "ack"
         /\ batch[w] # <<>> /\ batch'[w] = batch[w]
         /\ copy'[w].status \in {"QUEUED", "SUCCEEDED", "FAILED"}
         /\ copy'[w].status = "QUEUED" => ~(copy[w].attempts >= MaxAttempts)
         /\ copy'[w].attempts = copy[w].attempts
         /\ job'[Current(w)].status = copy'[w].status
         /\ job'[Current(w)].attempts = job[Current(w)].attempts
         /\ \A k \in Jobs : k # Current(w) => job'[k] = job[k]
         /\ UNCHANGED <<submit, stream, delivered, pending, claims, overlapped, dropped>>
<1>1. PICK status \in {"QUEUED", "SUCCEEDED", "FAILED"} :
        Finish(w, status) /\ (status = "QUEUED" => ~(copy[w].attempts >= MaxAttempts))
  BY DEF Succeed, Raise
<1>2. WorkersTyped /\ RowsTyped /\ batch[w] # <<>>
  BY <1>1 DEF Base, WorkersTyped, WorkerTyped, AtWork, Finish, Goto
<1>3. Current(w) \in Jobs
  BY <1>2, CurrentHeld
<1>4. copy[w] \in JobRows /\ job[Current(w)] \in JobRows
  BY <1>2, <1>3 DEF WorkersTyped, RowsTyped
<1>5. /\ copy'[w] = [copy[w] EXCEPT !.status = status]
      /\ job'[Current(w)] = [job[Current(w)] EXCEPT !.status = status]
  BY <1>1, <1>2, <1>3 DEF Finish, WorkersTyped, RowsTyped
<1>6. status \in Statuses
  BY DEF Statuses
<1>7. /\ copy'[w].status = status /\ copy'[w].attempts = copy[w].attempts
      /\ job'[Current(w)].status = status
      /\ job'[Current(w)].attempts = job[Current(w)].attempts
  BY <1>4, <1>5, <1>6, RowsMade
<1>8. /\ Others(w) /\ wpc[w] = "running" /\ wpc'[w] = "ack" /\ batch'[w] = batch[w]
      /\ \A k \in Jobs : k # Current(w) => job'[k] = job[k]
      /\ UNCHANGED <<submit, stream, delivered, pending, claims, overlapped, dropped>>
  BY <1>1, <1>2, <1>3 DEF Finish, Goto, WorkersTyped, RowsTyped, Others, redis, history
<1> QED BY <1>1, <1>2, <1>7, <1>8

\* Acknowledge takes the current message out of the pending list.
LEMMA AckEffect ==
  ASSUME Base, NEW w \in Workers, Acknowledge(w)
  PROVE  /\ Others(w) /\ wpc[w] = "ack" /\ batch[w] # <<>>
         /\ pending' = pending \ {Head(batch[w])}
         /\ copy[w].status = "QUEUED" =>
              wpc'[w] = "requeue" /\ batch'[w] = batch[w] /\ copy'[w] = copy[w]
         /\ copy[w].status # "QUEUED" =>
              /\ wpc'[w] = "next" /\ batch'[w] = Tail(batch[w]) /\ copy'[w] = NoRow
              /\ ToSet(batch'[w]) = ToSet(batch[w]) \ {Head(batch[w])}
         /\ UNCHANGED <<submit, job, stream, delivered, claims, overlapped, dropped>>
<1>1. WorkersTyped /\ batch[w] # <<>>
  BY DEF Base, WorkersTyped, WorkerTyped, AtWork, Acknowledge, Goto
<1>2. ToSet(Tail(batch[w])) = ToSet(batch[w]) \ {Head(batch[w])}
  BY <1>1, CurrentHeld DEF Ids
<1> QED BY <1>1, <1>2 DEF WorkersTyped, Acknowledge, Goto, Drop, Others, rows, history

\* Requeue adds a message and drops the current one.
LEMMA RequeueEffect ==
  ASSUME Base, NEW w \in Workers, Requeue(w)
  PROVE  /\ Others(w) /\ wpc[w] = "requeue" /\ wpc'[w] = "next" /\ batch[w] # <<>>
         /\ batch'[w] = Tail(batch[w]) /\ copy'[w] = NoRow
         /\ ToSet(batch'[w]) = ToSet(batch[w]) \ {Head(batch[w])}
         /\ Len(stream) \in Nat /\ Len(stream') = Len(stream) + 1
         /\ \A i \in 1 .. Len(stream) : stream'[i] = stream[i]
         /\ stream'[Len(stream) + 1] = Current(w)
         /\ UNCHANGED <<submit, job, delivered, pending, claims, overlapped, dropped>>
<1>1. WorkersTyped /\ RedisTyped /\ batch[w] # <<>>
  BY DEF Base, WorkersTyped, WorkerTyped, AtWork, Requeue, Goto
<1>2. ToSet(Tail(batch[w])) = ToSet(batch[w]) \ {Head(batch[w])} /\ Current(w) \in Jobs
  BY <1>1, CurrentHeld DEF Ids
<1>3. XAdd(Current(w))
  BY DEF Requeue
<1>4. /\ Len(stream) \in Nat /\ Len(stream') = Len(stream) + 1
      /\ \A i \in 1 .. Len(stream) : stream'[i] = stream[i]
      /\ stream'[Len(stream) + 1] = Current(w)
  BY <1>1, <1>2, <1>3, Added
<1> QED BY <1>1, <1>2, <1>4 DEF WorkersTyped, Requeue, Goto, Drop, Others, rows, history

\* A worker that stops loses its batch.
LEMMA StopEffect ==
  ASSUME Base, NEW w \in Workers, Stop(w)
  PROVE  /\ Others(w) /\ wpc[w] # "down" /\ wpc'[w] = "down" /\ batch'[w] = <<>> /\ copy'[w] = NoRow
         /\ dropped' = dropped \union
              {stream[i] : i \in {m \in Ids(w) :
                                    m \notin pending \/ \E v \in Workers \ {w} : Holds(v, m)}}
         /\ UNCHANGED <<submit, job, stream, delivered, pending, claims, overlapped>>
  BY DEF Base, WorkersTyped, Stop, Others, rows, redis, Ids
----------------------------------------------------------------------------
(* A job that was accepted stays live *)

\* The live jobs are tracked.
LEMMA LiveTracked == LiveInv => JobTracked
  BY DEF LiveInv, Live, JobTracked, HeldBy, Ids

\* No job is accepted in the initial state.
LEMMA InitLive == Init => LiveInv
  BY DEF Init, LiveInv

\* The ids that can be delivered, and those a worker that is finishing has.
LEMMA IdRanges ==
  ASSUME Base
  PROVE  /\ delivered \in Nat /\ Len(stream) \in Nat /\ delivered <= Len(stream)
         /\ \A i \in pending : i \in 1 .. delivered /\ i \in 1 .. Len(stream)
         /\ \A w \in Workers : \A i \in Ids(w) : i \in 1 .. delivered /\ i \in 1 .. Len(stream)
         /\ \A w \in Workers : wpc[w] \in AtWork => Head(batch[w]) \in Ids(w)
<1>1. RedisTyped /\ WorkersTyped /\ TypeOK
  BY BaseTypes DEF Base
<1>2. delivered \in Nat /\ Len(stream) \in Nat /\ delivered <= Len(stream)
  BY <1>1, LenProperties DEF RedisTyped
<1>3. /\ \A i \in pending : i \in 1 .. delivered
      /\ \A w \in Workers : \A i \in Ids(w) : i \in 1 .. delivered
  BY <1>1 DEF TypeOK, Ids
<1>4. \A i \in 1 .. delivered : i \in 1 .. Len(stream)
  BY <1>2
<1>5. ASSUME NEW w \in Workers, wpc[w] \in AtWork PROVE Head(batch[w]) \in Ids(w)
  BY <1>1, <1>5, CurrentHeld DEF WorkersTyped, WorkerTyped
<1> QED BY <1>2, <1>3, <1>4, <1>5

\* A longer stream keeps a job live.
LEMMA LiveExtended ==
  ASSUME Base, NEW k, Live(k),
         Len(stream') \in Nat, Len(stream) <= Len(stream'),
         \A i \in 1 .. Len(stream) : stream'[i] = stream[i],
         UNCHANGED <<delivered, pending, wpc, batch, copy, dropped>>
  PROVE  Live(k)'
<1>1. /\ delivered \in Nat /\ Len(stream) \in Nat /\ delivered <= Len(stream)
      /\ \A i \in pending : i \in 1 .. Len(stream)
      /\ \A w \in Workers : \A i \in Ids(w) : i \in 1 .. Len(stream)
  BY IdRanges
<1>2. CASE Waiting(k)
  <2>1. PICK i \in delivered + 1 .. Len(stream) : stream[i] = k
    BY <1>2 DEF Waiting
  <2>2. i \in delivered + 1 .. Len(stream') /\ stream'[i] = k
    BY <1>1, <2>1
  <2> QED BY <2>2 DEF Live, Waiting
<1>3. CASE ~Waiting(k)
  BY <1>1, <1>3 DEF Live, Finishing, Ids
<1> QED BY <1>2, <1>3

\* Steps of the submitter.
LEMMA SubmitLive ==
  ASSUME Base, LiveInv, NEW j \in Jobs, CreateRecord(j) \/ SubmitStep(j) \/ SubmitterDies(j)
  PROVE  LiveInv'
<1>0. RowsTyped /\ RedisTyped
  BY DEF Base
<1>1. /\ UNCHANGED <<delivered, pending, wpc, batch, copy, dropped>>
      /\ Len(stream') \in Nat /\ Len(stream) \in Nat /\ Len(stream) <= Len(stream')
      /\ \A i \in 1 .. Len(stream) : stream'[i] = stream[i]
  <2>1. XAdd(j) \/ UNCHANGED stream
    BY DEF CreateRecord, SubmitStep, Enqueue, EnqueueRaises, MarkJobFailed, SubmitterDies, redis
  <2>2. CASE XAdd(j)
    BY <1>0, <2>2, Added
       DEF CreateRecord, SubmitStep, Enqueue, EnqueueRaises, MarkJobFailed, SubmitterDies, redis, history
  <2>3. CASE UNCHANGED stream
    BY <1>0, <2>3, LenProperties
       DEF RedisTyped, CreateRecord, SubmitStep, Enqueue, EnqueueRaises, MarkJobFailed, SubmitterDies,
           redis, history
  <2> QED BY <2>1, <2>2, <2>3
<1>2. ASSUME NEW k \in Jobs, k # j, submit'[k] = "done", Unfinished(k)' PROVE Live(k)'
  <2>1. submit[k] = "done" /\ job'[k] = job[k]
    BY <1>0, <1>2 DEF RowsTyped, CreateRecord, SubmitStep, Enqueue, EnqueueRaises, MarkJobFailed,
       SubmitterDies, Submission
  <2>2. Live(k)
    BY <1>2, <2>1 DEF LiveInv, Unfinished
  <2> QED BY <1>1, <2>2, LiveExtended
<1>3. ASSUME submit'[j] = "done", Unfinished(j)' PROVE Live(j)'
  <2>1. Enqueue(j) \/ MarkJobFailed(j)
    BY <1>0, <1>3 DEF RowsTyped, CreateRecord, SubmitStep, EnqueueRaises, SubmitterDies, Submission
  <2>2. job[j] \in JobRows /\ "FAILED" \in Statuses
    BY <1>0 DEF RowsTyped, Statuses
  <2>3. ~MarkJobFailed(j)
    <3>1. SUFFICES ASSUME MarkJobFailed(j) PROVE FALSE
      OBVIOUS
    <3>2. job'[j] = [job[j] EXCEPT !.status = "FAILED"]
      BY <1>0, <3>1 DEF RowsTyped, MarkJobFailed
    <3> QED BY <1>3, <2>2, <3>2, RowsMade DEF Unfinished
  <2>4. /\ Len(stream') = Len(stream) + 1 /\ stream'[Len(stream) + 1] = j /\ delivered \in 0 .. Len(stream)
    BY <1>0, <2>1, <2>3, Added DEF Enqueue, RedisTyped
  <2>5. Len(stream) + 1 \in delivered' + 1 .. Len(stream')
    BY <1>1, <2>4
  <2> QED BY <2>4, <2>5 DEF Live, Waiting
<1> QED BY <1>2, <1>3 DEF LiveInv

\* Steps that leave the jobs' rows alone keep every job live, if what was live
\* stays live.
LEMMA RowsLive ==
  ASSUME LiveInv, UNCHANGED <<submit, job>>, \A k \in Jobs : Live(k) => Live(k)'
  PROVE  LiveInv'
  BY DEF LiveInv, Unfinished

\* Fetching.
LEMMA FetchLive ==
  ASSUME Base, LiveInv, NEW w \in Workers, Start(w) \/ ClaimPending(w) \/ Read(w)
  PROVE  LiveInv'
<1>1. /\ UNCHANGED <<submit, job, stream, dropped>> /\ Others(w)
      /\ wpc[w] # "ack" /\ wpc'[w] # "ack" /\ batch[w] = <<>>
      /\ pending \subseteq pending'
      /\ \A i \in delivered + 1 .. Len(stream) : i \in delivered' + 1 .. Len(stream') \/ i \in Ids(w)'
  <2>1. CASE Start(w)
    BY <2>1, StartEffect
  <2>2. CASE ClaimPending(w)
    BY <2>2, ClaimEffect
  <2>3. CASE Read(w)
    BY <2>3, ReadEffect DEF Ids
  <2> QED BY <2>1, <2>2, <2>3
<1>2. /\ ~Finishing(w) /\ ~Finishing(w)' /\ Ids(w) = {}
      /\ \A v \in Workers \ {w} : /\ Finishing(v)' = Finishing(v) /\ Ids(v)' = Ids(v)
                                  /\ Head(batch'[v]) = Head(batch[v])
  BY <1>1 DEF Finishing, Ids, Others, ToSet
<1>3. ASSUME NEW k \in Jobs, Live(k) PROVE Live(k)'
  <2>1. CASE Waiting(k)
    <3>1. PICK i \in delivered + 1 .. Len(stream) : stream[i] = k
      BY <2>1 DEF Waiting
    <3>2. CASE i \in delivered' + 1 .. Len(stream')
      BY <1>1, <3>1, <3>2 DEF Live, Waiting
    <3>3. CASE i \in Ids(w)'
      BY <1>1, <1>2, <3>1, <3>3 DEF Live
    <3> QED BY <1>1, <3>1, <3>2, <3>3
  <2>2. CASE \E i \in pending : stream[i] = k /\ \A v \in Workers : Finishing(v) => i # Head(batch[v])
    <3>1. PICK i \in pending : stream[i] = k /\ \A v \in Workers : Finishing(v) => i # Head(batch[v])
      BY <2>2
    <3>2. \A v \in Workers : Finishing(v)' => i # Head(batch'[v])
      BY <1>2, <3>1
    <3> QED BY <1>1, <3>1, <3>2 DEF Live
  <2>3. CASE \E v \in Workers : \E i \in Ids(v) : stream[i] = k /\ ~(Finishing(v) /\ i = Head(batch[v]))
    <3>1. PICK v \in Workers : \E i \in Ids(v) : stream[i] = k /\ ~(Finishing(v) /\ i = Head(batch[v]))
      BY <2>3
    <3>2. v # w
      BY <1>2, <3>1
    <3> QED BY <1>1, <1>2, <3>1, <3>2 DEF Live
  <2>4. CASE k \in dropped
    BY <1>1, <2>4 DEF Live
  <2> QED BY <1>3, <2>1, <2>2, <2>3, <2>4 DEF Live
<1> QED BY <1>1, <1>3, RowsLive

\* A worker that turns to the acknowledgement of one job's message, or to its
\* execution, keeps every other job live.
LEMMA OtherLive ==
  ASSUME Base, NEW w \in Workers, Others(w), batch[w] # <<>>, batch'[w] = batch[w], ~Finishing(w),
         UNCHANGED <<stream, delivered, pending, dropped>>,
         NEW k \in Jobs, Live(k), k # Current(w)
  PROVE  Live(k)'
<1>1. /\ Ids(w)' = Ids(w) /\ stream[Head(batch[w])] # k
      /\ \A v \in Workers \ {w} : /\ Finishing(v)' = Finishing(v) /\ Ids(v)' = Ids(v)
                                  /\ Head(batch'[v]) = Head(batch[v])
  BY DEF Finishing, Ids, Others, Current
<1>2. CASE \E i \in pending : stream[i] = k /\ \A v \in Workers : Finishing(v) => i # Head(batch[v])
  <2>1. PICK i \in pending : stream[i] = k /\ \A v \in Workers : Finishing(v) => i # Head(batch[v])
    BY <1>2
  <2>2. \A v \in Workers : Finishing(v)' => i # Head(batch'[v])
    BY <1>1, <2>1
  <2> QED BY <2>1, <2>2 DEF Live
<1>3. CASE \E v \in Workers : \E i \in Ids(v) : stream[i] = k /\ ~(Finishing(v) /\ i = Head(batch[v]))
  <2>0. PICK v \in Workers : \E i \in Ids(v) : stream[i] = k /\ ~(Finishing(v) /\ i = Head(batch[v]))
    BY <1>3
  <2>1. PICK i \in Ids(v) : stream[i] = k /\ ~(Finishing(v) /\ i = Head(batch[v]))
    BY <2>0
  <2>2. i \in Ids(v)' /\ ~(Finishing(v)' /\ i = Head(batch'[v]))
    BY <1>1, <2>1
  <2> QED BY <2>1, <2>2 DEF Live
<1>4. CASE Waiting(k) \/ k \in dropped
  BY <1>4 DEF Live, Waiting
<1> QED BY <1>2, <1>3, <1>4 DEF Live

\* Execution.
LEMMA ExecuteLive ==
  ASSUME Base, LiveInv, NEW w \in Workers, Load(w) \/ MarkRunning(w) \/ Succeed(w) \/ Raise(w)
  PROVE  LiveInv'
<1>1. /\ Others(w) /\ batch[w] # <<>> /\ batch'[w] = batch[w] /\ wpc[w] # "ack"
      /\ UNCHANGED <<submit, stream, delivered, pending, dropped>>
      /\ \A k \in Jobs : k # Current(w) => job'[k] = job[k]
  <2>1. CASE Load(w)
    BY <2>1, LoadEffect
  <2>2. CASE MarkRunning(w)
    BY <2>2, MarkEffect
  <2>3. CASE Succeed(w) \/ Raise(w)
    BY <2>3, FinishEffect
  <2> QED BY <2>1, <2>2, <2>3
<1>2. Finishing(w)' => job'[Current(w)].status \in {"SUCCEEDED", "FAILED"}
  <2>1. CASE Load(w)
    BY <2>1, LoadEffect DEF Finishing
  <2>2. CASE MarkRunning(w)
    BY <2>2, MarkEffect DEF Finishing
  <2>3. CASE Succeed(w) \/ Raise(w)
    BY <2>3, FinishEffect DEF Finishing
  <2> QED BY <2>1, <2>2, <2>3
<1>3. ASSUME NEW k \in Jobs, submit'[k] = "done", Unfinished(k)' PROVE Live(k)'
  <2>1. CASE k # Current(w)
    <3>1. submit[k] = "done" /\ Unfinished(k)
      BY <1>1, <1>3, <2>1 DEF Unfinished
    <3>2. ~Finishing(w)
      BY <1>1 DEF Finishing
    <3> QED BY <1>1, <2>1, <3>1, <3>2, OtherLive DEF LiveInv
  <2>2. CASE k = Current(w)
    <3>1. Head(batch[w]) \in Ids(w) /\ stream[Head(batch[w])] = k
      BY <1>1, <2>2, CurrentHeld
    <3>2. Head(batch[w]) \in Ids(w)' /\ stream'[Head(batch[w])] = k
      BY <1>1, <3>1 DEF Ids
    <3>3. ~Finishing(w)'
      BY <1>2, <1>3, <2>2 DEF Unfinished
    <3> QED BY <3>2, <3>3 DEF Live
  <2> QED BY <2>1, <2>2
<1> QED BY <1>3 DEF LiveInv

\* Acknowledgement and requeue.
LEMMA AcknowledgeLive ==
  ASSUME Base, LiveInv, NEW w \in Workers, Acknowledge(w) \/ Requeue(w)
  PROVE  LiveInv'
<1>1. CASE Acknowledge(w)
  <2>1. /\ Others(w) /\ wpc[w] = "ack" /\ batch[w] # <<>>
        /\ pending' = pending \ {Head(batch[w])} /\ UNCHANGED <<submit, job, stream, delivered, dropped>>
    BY <1>1, AckEffect
  <2>2. \A v \in Workers \ {w} : /\ Finishing(v)' = Finishing(v) /\ Ids(v)' = Ids(v)
                                 /\ Head(batch'[v]) = Head(batch[v])
    BY <2>1 DEF Finishing, Ids, Others
  <2>3. Head(batch[w]) \in Ids(w)
    BY <2>1, CurrentHeld
  <2>4. ~Finishing(w)' /\ (\A i \in Ids(w) : (Finishing(w) => i # Head(batch[w])) => i \in Ids(w)')
    <3>1. CASE copy[w].status = "QUEUED"
      BY <1>1, <3>1, AckEffect DEF Finishing, Ids
    <3>2. CASE copy[w].status # "QUEUED"
      BY <1>1, <3>2, AckEffect DEF Finishing, Ids
    <3> QED BY <3>1, <3>2
  <2>5. ASSUME NEW k \in Jobs, Live(k) PROVE Live(k)'
    <3>1. CASE \E i \in pending : stream[i] = k /\ \A v \in Workers : Finishing(v) => i # Head(batch[v])
      <4>1. PICK i \in pending : stream[i] = k /\ \A v \in Workers : Finishing(v) => i # Head(batch[v])
        BY <3>1
      <4>2. CASE i = Head(batch[w])
        <5>1. i \in Ids(w)' /\ ~Finishing(w)' /\ stream'[i] = k
          BY <2>1, <2>3, <2>4, <4>1, <4>2
        <5> QED BY <5>1 DEF Live
      <4>3. CASE i # Head(batch[w])
        <5>1. i \in pending' /\ stream'[i] = k /\ \A v \in Workers : Finishing(v)' => i # Head(batch'[v])
          BY <2>1, <2>2, <2>4, <4>1, <4>3
        <5> QED BY <5>1 DEF Live
      <4> QED BY <4>2, <4>3
    <3>2. CASE \E v \in Workers : \E i \in Ids(v) : stream[i] = k /\ ~(Finishing(v) /\ i = Head(batch[v]))
      <4>0. PICK v \in Workers : \E i \in Ids(v) : stream[i] = k /\ ~(Finishing(v) /\ i = Head(batch[v]))
        BY <3>2
      <4>1. PICK i \in Ids(v) : stream[i] = k /\ ~(Finishing(v) /\ i = Head(batch[v]))
        BY <4>0
      <4>2. i \in Ids(v)' /\ ~(Finishing(v)' /\ i = Head(batch'[v])) /\ stream'[i] = k
        BY <2>1, <2>2, <2>4, <4>1
      <4> QED BY <4>2 DEF Live
    <3>3. CASE Waiting(k) \/ k \in dropped
      BY <2>1, <3>3 DEF Live, Waiting
    <3> QED BY <2>5, <3>1, <3>2, <3>3 DEF Live
  <2> QED BY <2>1, <2>5, RowsLive
<1>2. CASE Requeue(w)
  <2>1. /\ Others(w) /\ wpc[w] = "requeue" /\ wpc'[w] = "next" /\ batch[w] # <<>>
        /\ UNCHANGED <<submit, job, delivered, pending, dropped>>
        /\ ToSet(batch'[w]) = ToSet(batch[w]) \ {Head(batch[w])}
        /\ Len(stream) \in Nat /\ Len(stream') = Len(stream) + 1
        /\ \A i \in 1 .. Len(stream) : stream'[i] = stream[i]
        /\ stream'[Len(stream) + 1] = Current(w)
    BY <1>2, RequeueEffect
  <2>2. /\ \A v \in Workers : Finishing(v)' => Finishing(v)
        /\ \A v \in Workers \ {w} : Ids(v)' = Ids(v) /\ Head(batch'[v]) = Head(batch[v])
        /\ ~Finishing(w)' /\ Ids(w)' = Ids(w) \ {Head(batch[w])}
    BY <2>1 DEF Finishing, Ids, Others
  <2>3. /\ delivered \in Nat /\ delivered <= Len(stream)
        /\ \A i \in pending : i \in 1 .. Len(stream)
        /\ \A v \in Workers : \A i \in Ids(v) : i \in 1 .. Len(stream)
    BY IdRanges
  <2>4. ASSUME NEW k \in Jobs, Live(k) PROVE Live(k)'
    <3>1. CASE k = Current(w)
      <4>1. Len(stream) + 1 \in delivered' + 1 .. Len(stream')
        BY <2>1, <2>3
      <4> QED BY <2>1, <3>1, <4>1 DEF Live, Waiting
    <3>2. CASE Waiting(k)
      <4>1. PICK i \in delivered + 1 .. Len(stream) : stream[i] = k
        BY <3>2 DEF Waiting
      <4>2. i \in delivered' + 1 .. Len(stream') /\ stream'[i] = k
        BY <2>1, <2>3, <4>1
      <4> QED BY <4>2 DEF Live, Waiting
    <3>3. CASE \E i \in pending : stream[i] = k /\ \A v \in Workers : Finishing(v) => i # Head(batch[v])
      <4>1. PICK i \in pending : stream[i] = k /\ \A v \in Workers : Finishing(v) => i # Head(batch[v])
        BY <3>3
      <4>2. i \in pending' /\ stream'[i] = k /\ \A v \in Workers : Finishing(v)' => i # Head(batch'[v])
        BY <2>1, <2>2, <2>3, <4>1
      <4> QED BY <4>2 DEF Live
    <3>4. CASE k # Current(w)
               /\ \E v \in Workers : \E i \in Ids(v) : stream[i] = k /\ ~(Finishing(v) /\ i = Head(batch[v]))
      <4>0. PICK v \in Workers : \E i \in Ids(v) : stream[i] = k /\ ~(Finishing(v) /\ i = Head(batch[v]))
        BY <3>4
      <4>1. PICK i \in Ids(v) : stream[i] = k /\ ~(Finishing(v) /\ i = Head(batch[v]))
        BY <4>0
      <4>2. v = w => i # Head(batch[w])
        BY <3>4, <4>1 DEF Current
      <4>3. i \in Ids(v)' /\ ~(Finishing(v)' /\ i = Head(batch'[v])) /\ stream'[i] = k
        BY <2>1, <2>2, <2>3, <4>1, <4>2
      <4> QED BY <4>3 DEF Live
    <3>5. CASE k \in dropped
      BY <2>1, <3>5 DEF Live
    <3> QED BY <2>4, <3>1, <3>2, <3>3, <3>4, <3>5 DEF Live
  <2> QED BY <2>1, <2>4, RowsLive
<1> QED BY <1>1, <1>2

\* The end of a worker: what only it had is pending, or recorded as dropped.
LEMMA StopLive ==
  ASSUME Base, LiveInv, NEW w \in Workers, Stop(w)
  PROVE  LiveInv'
<1>1. /\ Others(w) /\ wpc'[w] = "down"
      /\ dropped' = dropped \union
           {stream[i] : i \in {m \in Ids(w) : m \notin pending \/ \E v \in Workers \ {w} : Holds(v, m)}}
      /\ UNCHANGED <<submit, job, stream, delivered, pending>>
  BY StopEffect
<1>2. /\ ~Finishing(w)'
      /\ \A v \in Workers \ {w} : /\ Finishing(v)' = Finishing(v) /\ Ids(v)' = Ids(v)
                                  /\ Head(batch'[v]) = Head(batch[v])
  BY <1>1 DEF Finishing, Ids, Others
<1>3. ASSUME NEW k \in Jobs, Live(k) PROVE Live(k)'
  <2>1. CASE Waiting(k) \/ k \in dropped
    BY <1>1, <2>1 DEF Live, Waiting
  <2>2. CASE \E i \in pending : stream[i] = k /\ \A v \in Workers : Finishing(v) => i # Head(batch[v])
    <3>1. PICK i \in pending : stream[i] = k /\ \A v \in Workers : Finishing(v) => i # Head(batch[v])
      BY <2>2
    <3>2. i \in pending' /\ stream'[i] = k /\ \A v \in Workers : Finishing(v)' => i # Head(batch'[v])
      BY <1>1, <1>2, <3>1
    <3> QED BY <3>2 DEF Live
  <2>3. CASE \E v \in Workers : \E i \in Ids(v) : stream[i] = k /\ ~(Finishing(v) /\ i = Head(batch[v]))
    <3>0. PICK v \in Workers : \E i \in Ids(v) : stream[i] = k /\ ~(Finishing(v) /\ i = Head(batch[v]))
      BY <2>3
    <3>1. PICK i \in Ids(v) : stream[i] = k /\ ~(Finishing(v) /\ i = Head(batch[v]))
      BY <3>0
    <3>2. CASE v # w
      BY <1>1, <1>2, <3>1, <3>2 DEF Live
    <3>3. CASE v = w /\ (i \notin pending \/ \E u \in Workers \ {w} : Holds(u, i))
      <4>1. k \in dropped'
        BY <1>1, <3>1, <3>3
      <4> QED BY <4>1 DEF Live
    <3>4. CASE v = w /\ i \in pending /\ \A u \in Workers \ {w} : ~Holds(u, i)
      <4>1. ASSUME NEW u \in Workers, Finishing(u)' PROVE i # Head(batch'[u])
        <5>1. u # w /\ Finishing(u) /\ Head(batch'[u]) = Head(batch[u])
          BY <1>2, <4>1
        <5>2. Head(batch[u]) \in Ids(u)
          BY <5>1, IdRanges DEF Finishing, AtWork
        <5> QED BY <3>4, <5>1, <5>2 DEF Holds, Ids
      <4> QED BY <1>1, <3>1, <3>4, <4>1 DEF Live
    <3> QED BY <3>2, <3>3, <3>4
  <2> QED BY <1>3, <2>1, <2>2, <2>3 DEF Live
<1> QED BY <1>1, <1>3, RowsLive

\* Every step keeps accepted jobs live.
LEMMA LiveStep == Base /\ LiveInv /\ [Next]_vars => LiveInv'
<1> SUFFICES ASSUME Base, LiveInv, [Next]_vars PROVE LiveInv'
  OBVIOUS
<1>1. CASE UNCHANGED vars \/ \E i \in pending : Age(i)
  <2>1. UNCHANGED <<submit, job, stream, delivered, pending, wpc, batch, copy, dropped>>
    BY <1>1 DEF vars, Age, rows, redis, history
  <2> QED BY <2>1 DEF LiveInv, Unfinished, Live, Waiting, Finishing, Ids
<1>2. CASE \E j \in Jobs : CreateRecord(j) \/ SubmitStep(j) \/ SubmitterDies(j)
  BY <1>2, SubmitLive
<1>3. CASE \E w \in Workers : WorkerStep(w) \/ Stop(w)
  BY <1>3, FetchLive, ExecuteLive, AcknowledgeLive, StopLive DEF WorkerStep
<1> QED BY <1>1, <1>2, <1>3 DEF Next
----------------------------------------------------------------------------
(* One message, one worker *)

\* There is no message and no worker at work in the initial state.
LEMMA InitSingle == Init => SingleInv
<1> SUFFICES ASSUME Init, NEW j \in Jobs PROVE Single(j)
  BY DEF SingleInv
<1>1. Len(stream) = 0 /\ \A w \in Workers : wpc[w] = "down" /\ Ids(w) = {}
  BY DEF Init, Ids, ToSet
<1>2. Kept(j) = {}
  BY <1>1 DEF Kept
<1> QED BY <1>1, <1>2 DEF Single, OneKept, HeldKept, OneHolder, RequeueLast, NotRepeated

\* Steps of the submitter: the first message of a job finds no other.
LEMMA SubmitSingle ==
  ASSUME Base, SingleInv, NEW j \in Jobs, CreateRecord(j) \/ SubmitStep(j) \/ SubmitterDies(j)
  PROVE  SingleInv'
<1>0. RowsTyped /\ RedisTyped /\ FreshInv
  BY DEF Base
<1>1. /\ UNCHANGED <<delivered, pending, wpc, batch, overlapped>>
      /\ \A w \in Workers : Ids(w)' = Ids(w)
  BY DEF CreateRecord, SubmitStep, Enqueue, EnqueueRaises, MarkJobFailed, SubmitterDies, redis, history, Ids
<1>2. \A k \in Jobs : job'[k] = job[k] \/ job'[k].status # "SUCCEEDED"
  <2>1. job[j] \in JobRows /\ "FAILED" \in Statuses
    BY <1>0 DEF RowsTyped, Statuses
  <2>2. [job[j] EXCEPT !.status = "FAILED"].status = "FAILED"
    BY <2>1, RowsMade
  <2>3. \/ UNCHANGED job
        \/ job' = [job EXCEPT ![j] = Row("QUEUED", 0)]
        \/ job' = [job EXCEPT ![j] = [job[j] EXCEPT !.status = "FAILED"]]
    BY <1>0 DEF RowsTyped, CreateRecord, SubmitStep, Enqueue, EnqueueRaises, MarkJobFailed, SubmitterDies
  <2>4. Row("QUEUED", 0).status = "QUEUED"
    BY DEF Row
  <2>5. ASSUME NEW k \in Jobs, k # j PROVE job'[k] = job[k]
    BY <1>0, <2>3, <2>5 DEF RowsTyped
  <2>6. job'[j] = job[j] \/ job'[j].status # "SUCCEEDED"
    BY <1>0, <2>2, <2>3, <2>4 DEF RowsTyped
  <2> QED BY <2>5, <2>6
<1>3. /\ delivered \in Nat /\ Len(stream) \in Nat /\ delivered <= Len(stream)
      /\ \A w \in Workers : \A i \in Ids(w) : i \in 1 .. Len(stream)
      /\ \A w \in Workers : wpc[w] \in AtWork => Head(batch[w]) \in Ids(w)
  BY IdRanges
<1>4. CASE UNCHANGED stream
  <2> SUFFICES ASSUME NEW k \in Jobs \ overlapped PROVE Single(k)'
    BY <1>1 DEF SingleInv
  <2>1. Single(k) /\ Kept(k)' = Kept(k) /\ \A w \in Workers : Current(w)' = Current(w)
    BY <1>1, <1>4 DEF SingleInv, Kept, Current
  <2> QED BY <1>1, <1>2, <1>4, <2>1 DEF Single, OneKept, HeldKept, OneHolder, RequeueLast, NotRepeated
<1>5. CASE XAdd(j) /\ submit[j] = "created"
  <2>1. /\ Len(stream') = Len(stream) + 1 /\ stream'[Len(stream) + 1] = j
        /\ \A i \in 1 .. Len(stream) : stream'[i] = stream[i]
        /\ \A i \in 1 .. Len(stream) : stream[i] # j
    BY <1>0, <1>5, Added DEF FreshInv
  <2> SUFFICES ASSUME NEW k \in Jobs \ overlapped PROVE Single(k)'
    BY <1>1 DEF SingleInv
  <2>2. \A w \in Workers : \A i \in Ids(w) : stream'[i] = stream[i] /\ stream'[i] # j
    BY <1>3, <2>1
  <2>3. \A w \in Workers : wpc[w] \in AtWork => Current(w)' = Current(w) /\ Current(w) # j
    BY <1>1, <1>3, <2>2 DEF Current
  <2>4. CASE k = j
    <3>1. \A i \in Kept(k)' : i = Len(stream) + 1
      <4>1. \A i \in 1 .. Len(stream') : i \in 1 .. Len(stream) \/ i = Len(stream) + 1
        BY <1>3, <2>1
      <4> QED BY <2>1, <2>4, <4>1 DEF Kept
    <3>2. OneKept(k)' /\ HeldKept(k)' /\ OneHolder(k)'
      BY <1>1, <2>2, <2>4, <3>1 DEF OneKept, HeldKept, OneHolder
    <3>3. RequeueLast(k)' /\ NotRepeated(k)'
      BY <1>1, <2>3, <2>4 DEF RequeueLast, NotRepeated, AtWork
    <3> QED BY <3>2, <3>3 DEF Single
  <2>5. CASE k # j
    <3>1. Kept(k)' = Kept(k)
      <4>1. \A i \in 1 .. Len(stream') : stream'[i] = k => i \in 1 .. Len(stream)
        BY <1>3, <2>1, <2>5
      <4>2. \A i \in 1 .. Len(stream) : i \in 1 .. Len(stream')
        BY <1>3, <2>1
      <4> QED BY <1>1, <2>1, <4>1, <4>2 DEF Kept
    <3>2. Single(k)
      BY DEF SingleInv
    <3>3. OneKept(k)' /\ HeldKept(k)' /\ OneHolder(k)'
      BY <1>1, <2>2, <3>1, <3>2 DEF Single, OneKept, HeldKept, OneHolder
    <3>4. RequeueLast(k)' /\ NotRepeated(k)'
      BY <1>1, <1>2, <2>3, <3>1, <3>2 DEF Single, RequeueLast, NotRepeated, AtWork
    <3> QED BY <3>3, <3>4 DEF Single
  <2> QED BY <2>4, <2>5
<1> QED
  BY <1>4, <1>5 DEF CreateRecord, SubmitStep, Enqueue, EnqueueRaises, MarkJobFailed, SubmitterDies,
     Submission, redis

\* Fetching: what is delivered was not held, or was claimed from a live worker.
LEMMA FetchSingle ==
  ASSUME Base, SingleInv, NEW w \in Workers, Start(w) \/ ClaimPending(w) \/ Read(w) \/ Stop(w)
  PROVE  SingleInv'
<1>1. /\ UNCHANGED <<job, stream>> /\ Others(w)
      /\ wpc'[w] \in {"down", "starting", "next"}
      /\ overlapped \subseteq overlapped'
      /\ \A k \in Jobs : Kept(k)' = Kept(k)
      /\ pending \subseteq pending'
      /\ \A i \in Ids(w)' : \A k \in Jobs \ overlapped' : stream[i] = k =>
           /\ i \in Kept(k) /\ i \in pending'
           /\ \A v \in Workers \ {w} : i \notin Ids(v)
  <2>1. CASE Start(w)
    BY <2>1, StartEffect DEF Kept, Ids, ToSet
  <2>2. CASE Stop(w)
    BY <2>2, StopEffect DEF Kept, Ids, ToSet
  <2>3. CASE ClaimPending(w)
    <3>1. RedisTyped /\ Ids(w)' = ToSet(FirstIds(stale)) /\ ToSet(FirstIds(stale)) \subseteq stale
      BY <2>3, ClaimEffect, Claimable DEF Ids, Base
    <3>2. overlapped' = overlapped \union
            {stream[i] : i \in {m \in Ids(w)' : \E v \in Workers \ {w} : Holds(v, m)}}
      BY <2>3, <3>1 DEF ClaimPending
    <3>3. \A i \in stale : i \in pending /\ i \in 1 .. Len(stream)
      BY <3>1, IdRanges DEF RedisTyped
    <3>4. ASSUME NEW i \in Ids(w)', NEW k \in Jobs \ overlapped', stream[i] = k
          PROVE  /\ i \in Kept(k) /\ i \in pending'
                 /\ \A v \in Workers \ {w} : i \notin Ids(v)
      <4>1. i \in pending /\ i \in 1 .. Len(stream) /\ pending' = pending
        BY <2>3, <3>1, <3>3, <3>4, ClaimEffect
      <4>2. \A v \in Workers \ {w} : ~Holds(v, i)
        BY <3>2, <3>4
      <4> QED BY <3>4, <4>1, <4>2 DEF Kept, Holds, Ids
    <3> QED BY <2>3, <3>2, <3>4, ClaimEffect DEF Kept
  <2>4. CASE Read(w)
    <3>1. /\ Ids(w)' = delivered + 1 .. delivered'
          /\ delivered \in Nat /\ delivered' \in delivered .. Len(stream) /\ Len(stream) \in Nat
          /\ pending' = pending \union (delivered + 1 .. delivered')
          /\ UNCHANGED <<job, stream, overlapped>> /\ wpc'[w] = "next" /\ Others(w)
      BY <2>4, ReadEffect DEF Ids
    <3>2. \A i \in pending : i \in 1 .. delivered
      BY IdRanges
    <3>3. ASSUME NEW k \in Jobs PROVE Kept(k)' = Kept(k)
      <4>1. \A i \in 1 .. Len(stream) :
              (i > delivered' \/ i \in pending') <=> (i > delivered \/ i \in pending)
        BY <3>1, <3>2
      <4> QED BY <3>1, <4>1 DEF Kept
    <3>4. ASSUME NEW i \in Ids(w)', NEW k \in Jobs, stream[i] = k
          PROVE  /\ i \in Kept(k) /\ i \in pending'
                 /\ \A v \in Workers \ {w} : i \notin Ids(v)
      <4>1. i > delivered /\ i \in 1 .. Len(stream) /\ i \in pending'
        BY <3>1, <3>4
      <4>2. \A v \in Workers : \A m \in Ids(v) : m \in 1 .. delivered
        BY IdRanges
      <4>3. \A v \in Workers : i \notin Ids(v)
        BY <3>1, <4>1, <4>2
      <4> QED BY <3>4, <4>1, <4>3 DEF Kept
    <3> QED BY <3>1, <3>3, <3>4
  <2> QED BY <2>1, <2>2, <2>3, <2>4
<1>2. \A v \in Workers \ {w} : wpc'[v] = wpc[v] /\ Ids(v)' = Ids(v) /\ Current(v)' = Current(v)
                              /\ Head(batch'[v]) = Head(batch[v])
  BY <1>1 DEF Others, Ids, Current
<1> SUFFICES ASSUME NEW k \in Jobs \ overlapped' PROVE Single(k)'
  BY DEF SingleInv
<1>3. Single(k) /\ Kept(k)' = Kept(k)
  BY <1>1 DEF SingleInv
<1>4. OneKept(k)'
  BY <1>3 DEF Single, OneKept
<1>5. HeldKept(k)'
  <2> SUFFICES ASSUME NEW v \in Workers, NEW i \in Ids(v)', stream[i] = k
               PROVE  i \in pending' \/ (wpc'[v] = "requeue" /\ i = Head(batch'[v]))
    BY <1>1 DEF HeldKept
  <2>1. CASE v = w
    BY <1>1, <2>1
  <2>2. CASE v # w
    BY <1>1, <1>2, <1>3, <2>2 DEF Single, HeldKept
  <2> QED BY <2>1, <2>2
<1>6. \A v \in Workers \ {w} : \A m \in Ids(v) : stream[m] = k =>
        m \in Kept(k) \/ Kept(k) = {}
  <2> SUFFICES ASSUME NEW v \in Workers \ {w}, NEW m \in Ids(v), stream[m] = k
               PROVE  m \in Kept(k) \/ Kept(k) = {}
    OBVIOUS
  <2>1. m \in pending \/ (wpc[v] = "requeue" /\ m = Head(batch[v]))
    BY <1>3 DEF Single, HeldKept
  <2>2. CASE m \in pending
    BY <2>2, IdRanges DEF Kept
  <2>3. CASE wpc[v] = "requeue" /\ m = Head(batch[v])
    BY <1>3, <2>3 DEF Single, RequeueLast, Current
  <2> QED BY <2>1, <2>2, <2>3
<1>7. OneHolder(k)'
  <2> SUFFICES ASSUME NEW u \in Workers, NEW v \in Workers, NEW m \in Ids(u)', NEW i \in Ids(v)',
                      stream[m] = k, stream[i] = k
               PROVE  u = v /\ i = m
    BY <1>1 DEF OneHolder
  <2>1. CASE u = w /\ v = w
    BY <1>1, <1>3, <2>1 DEF Single, OneKept
  <2>2. CASE u # w /\ v # w
    BY <1>2, <1>3, <2>2 DEF Single, OneHolder
  <2>3. CASE u = w /\ v # w
    <3>1. m \in Kept(k) /\ i \in Ids(v) /\ m \notin Ids(v)
      BY <1>1, <1>2, <2>3
    <3>2. i \in Kept(k)
      BY <1>6, <2>3, <3>1
    <3> QED BY <1>3, <3>1, <3>2 DEF Single, OneKept
  <2>4. CASE u # w /\ v = w
    <3>1. i \in Kept(k) /\ m \in Ids(u) /\ i \notin Ids(u)
      BY <1>1, <1>2, <2>4
    <3>2. m \in Kept(k)
      BY <1>6, <2>4, <3>1
    <3> QED BY <1>3, <3>1, <3>2 DEF Single, OneKept
  <2> QED BY <2>1, <2>2, <2>3, <2>4
<1>8. RequeueLast(k)' /\ NotRepeated(k)'
  BY <1>1, <1>2, <1>3 DEF Single, RequeueLast, NotRepeated
<1> QED BY <1>4, <1>5, <1>7, <1>8 DEF Single

\* Execution: a worker that turns to a job that has succeeded acknowledges it.
LEMMA ExecuteSingle ==
  ASSUME Base, SingleInv, NEW w \in Workers, Load(w) \/ MarkRunning(w) \/ Succeed(w) \/ Raise(w)
  PROVE  SingleInv'
<1>1. /\ Others(w) /\ batch[w] # <<>> /\ batch'[w] = batch[w]
      /\ wpc[w] # "requeue" /\ wpc'[w] # "requeue"
      /\ UNCHANGED <<submit, stream, delivered, pending, overlapped>>
      /\ \A k \in Jobs : k # Current(w) => job'[k] = job[k]
  <2>1. CASE Load(w)
    BY <2>1, LoadEffect
  <2>2. CASE MarkRunning(w)
    BY <2>2, MarkEffect
  <2>3. CASE Succeed(w) \/ Raise(w)
    BY <2>3, FinishEffect
  <2> QED BY <2>1, <2>2, <2>3
<1>2. /\ \A v \in Workers : Ids(v)' = Ids(v) /\ Current(v)' = Current(v) /\ batch'[v] = batch[v]
      /\ \A v \in Workers \ {w} : wpc'[v] = wpc[v]
      /\ \A v \in Workers : (wpc'[v] = "requeue") = (wpc[v] = "requeue")
      /\ \A k \in Jobs : Kept(k)' = Kept(k)
  BY <1>1 DEF Others, Ids, Current, Kept
<1> SUFFICES ASSUME NEW k \in Jobs \ overlapped PROVE Single(k)'
  BY <1>1 DEF SingleInv
<1>3. Single(k)
  BY DEF SingleInv
<1>4. OneKept(k)' /\ HeldKept(k)' /\ OneHolder(k)' /\ RequeueLast(k)'
  BY <1>1, <1>2, <1>3 DEF Single, OneKept, HeldKept, OneHolder, RequeueLast
<1>5. NotRepeated(k)'
  <2> SUFFICES ASSUME NEW v \in Workers, wpc'[v] \in {"mark", "running"}, Current(v) = k
               PROVE  job'[k].status # "SUCCEEDED"
    BY <1>2 DEF NotRepeated
  <2>1. CASE k # Current(w)
    BY <1>1, <1>2, <1>3, <2>1 DEF Single, NotRepeated
  <2>2. CASE k = Current(w) /\ v # w
    <3>1. /\ Head(batch[v]) \in Ids(v) /\ stream[Head(batch[v])] = k
          /\ Head(batch[w]) \in Ids(w) /\ stream[Head(batch[w])] = k
      BY <1>1, <1>2, <2>2, IdRanges, CurrentHeld DEF AtWork, Current
    <3> QED BY <1>3, <2>2, <3>1 DEF Single, OneHolder
  <2>3. CASE k = Current(w) /\ v = w
    <3>1. CASE Load(w)
      BY <2>3, <3>1, LoadEffect
    <3>2. CASE MarkRunning(w)
      BY <1>3, <2>3, <3>2, MarkEffect DEF Single, NotRepeated
    <3>3. CASE Succeed(w) \/ Raise(w)
      BY <2>3, <3>3, FinishEffect
    <3> QED BY <3>1, <3>2, <3>3
  <2> QED BY <2>1, <2>2, <2>3
<1> QED BY <1>4, <1>5 DEF Single

\* Acknowledgement: the worker had the one message that was kept.
LEMMA AcknowledgeSingle ==
  ASSUME Base, SingleInv, NEW w \in Workers, Acknowledge(w)
  PROVE  SingleInv'
<1> DEFINE h == Head(batch[w])
<1>1. /\ Others(w) /\ wpc[w] = "ack" /\ batch[w] # <<>>
      /\ pending' = pending \ {h} /\ UNCHANGED <<job, stream, delivered, overlapped>>
  BY AckEffect
<1>2. \/ wpc'[w] = "requeue" /\ batch'[w] = batch[w]
      \/ wpc'[w] = "next" /\ Ids(w)' = Ids(w) \ {h}
  BY AckEffect DEF Ids
<1>3. h \in Ids(w) /\ h \in 1 .. Len(stream) /\ h \in 1 .. delivered /\ stream[h] = Current(w)
  BY <1>1, CurrentHeld
<1>4. /\ \A v \in Workers \ {w} : wpc'[v] = wpc[v] /\ Ids(v)' = Ids(v) /\ batch'[v] = batch[v]
      /\ \A v \in Workers : Ids(v)' \subseteq Ids(v)
  BY <1>1, <1>2 DEF Others, Ids
<1> HIDE DEF h
<1>5. \A k \in Jobs : Kept(k)' \subseteq Kept(k)
  BY <1>1 DEF Kept
<1> SUFFICES ASSUME NEW k \in Jobs \ overlapped PROVE Single(k)'
  BY <1>1 DEF SingleInv
<1>6. Single(k)
  BY DEF SingleInv
<1>7. OneKept(k)' /\ OneHolder(k)'
  BY <1>1, <1>4, <1>5, <1>6 DEF Single, OneKept, OneHolder
<1>8. HeldKept(k)'
  <2> SUFFICES ASSUME NEW v \in Workers, NEW i \in Ids(v)', stream[i] = k
               PROVE  i \in pending' \/ (wpc'[v] = "requeue" /\ i = Head(batch'[v]))
    BY <1>1 DEF HeldKept
  <2>1. i \in Ids(v) /\ (i \in pending \/ (wpc[v] = "requeue" /\ i = Head(batch[v])))
    BY <1>4, <1>6 DEF Single, HeldKept
  <2>2. CASE v = w
    BY <1>1, <1>2, <2>1, <2>2 DEF h
  <2>3. CASE v # w
    <3>1. i # h
      BY <1>3, <1>6, <2>1, <2>3 DEF Single, OneHolder
    <3> QED BY <1>1, <1>4, <2>1, <2>3, <3>1
  <2> QED BY <2>2, <2>3
<1>9. RequeueLast(k)'
  <2> SUFFICES ASSUME NEW v \in Workers, wpc'[v] = "requeue", Current(v)' = k
               PROVE  Kept(k)' = {}
    BY DEF RequeueLast
  <2>1. CASE v # w
    BY <1>1, <1>4, <1>5, <1>6, <2>1 DEF Single, RequeueLast, Current
  <2>2. CASE v = w
    <3>1. Current(w) = k /\ stream[h] = k
      BY <1>1, <1>2, <1>3, <2>2 DEF Current
    <3>2. h \in Kept(k)
      BY <1>1, <1>3, <1>6, <3>1 DEF Single, HeldKept, Kept
    <3>3. \A i \in Kept(k)' : i = h
      BY <1>5, <1>6, <3>2 DEF Single, OneKept
    <3>4. h \notin Kept(k)'
      <4>1. ~(h > delivered) /\ h \notin pending'
        BY <1>1, <1>3, IdRanges
      <4> QED BY <1>1, <4>1 DEF Kept
    <3> QED BY <3>3, <3>4
  <2> QED BY <2>1, <2>2
<1>10. NotRepeated(k)'
  <2>1. \A v \in Workers \ {w} : Current(v)' = Current(v)
    BY <1>1, <1>4 DEF Current
  <2>2. wpc'[w] \notin {"mark", "running"}
    BY <1>2
  <2> QED BY <1>1, <1>4, <1>6, <2>1, <2>2 DEF Single, NotRepeated
<1> QED BY <1>7, <1>8, <1>9, <1>10 DEF Single

\* Adding the job again: the new message is the only one.
LEMMA RequeueSingle ==
  ASSUME Base, SingleInv, NEW w \in Workers, Requeue(w)
  PROVE  SingleInv'
<1> DEFINE h == Head(batch[w])
<1>1. /\ Others(w) /\ wpc[w] = "requeue" /\ wpc'[w] = "next" /\ batch[w] # <<>>
      /\ UNCHANGED <<job, delivered, pending, overlapped>>
      /\ Ids(w)' = Ids(w) \ {h}
      /\ Len(stream) \in Nat /\ Len(stream') = Len(stream) + 1
      /\ \A i \in 1 .. Len(stream) : stream'[i] = stream[i]
      /\ stream'[Len(stream) + 1] = Current(w)
  BY RequeueEffect DEF Ids
<1>2. h \in Ids(w) /\ stream[h] = Current(w)
  BY <1>1, CurrentHeld
<1>3. /\ \A v \in Workers \ {w} : wpc'[v] = wpc[v] /\ Ids(v)' = Ids(v) /\ batch'[v] = batch[v]
      /\ \A v \in Workers : Ids(v)' \subseteq Ids(v)
  BY <1>1 DEF Others, Ids
<1> HIDE DEF h
<1>4. /\ delivered \in Nat /\ delivered <= Len(stream)
      /\ \A v \in Workers : \A i \in Ids(v) : i \in 1 .. Len(stream)
      /\ \A v \in Workers : wpc[v] \in AtWork => Head(batch[v]) \in Ids(v)
  BY IdRanges
<1>5. \A v \in Workers : \A i \in Ids(v)' : stream'[i] = stream[i]
  BY <1>1, <1>3, <1>4
<1>6. \A v \in Workers \ {w} : wpc[v] \in AtWork => Current(v)' = Current(v)
  BY <1>1, <1>3, <1>4 DEF Current
<1> SUFFICES ASSUME NEW k \in Jobs \ overlapped PROVE Single(k)'
  BY <1>1 DEF SingleInv
<1>7. Single(k)
  BY DEF SingleInv
<1>8. HeldKept(k)'
  <2> SUFFICES ASSUME NEW v \in Workers, NEW i \in Ids(v)', stream[i] = k
               PROVE  i \in pending \/ (wpc'[v] = "requeue" /\ i = Head(batch'[v]))
    BY <1>1, <1>5 DEF HeldKept
  <2>1. i \in pending \/ (wpc[v] = "requeue" /\ i = Head(batch[v]))
    BY <1>3, <1>7 DEF Single, HeldKept
  <2> QED BY <1>1, <1>3, <2>1 DEF h
<1>9. OneHolder(k)'
  BY <1>3, <1>5, <1>7 DEF Single, OneHolder
<1>10. NotRepeated(k)'
  BY <1>1, <1>3, <1>6, <1>7 DEF Single, NotRepeated, AtWork
<1>11. OneKept(k)' /\ RequeueLast(k)'
  <2>1. \A i \in 1 .. Len(stream') : i \in 1 .. Len(stream) \/ i = Len(stream) + 1
    BY <1>1
  <2>2. CASE k = Current(w)
    <3>1. Kept(k) = {}
      BY <1>1, <1>7, <2>2 DEF Single, RequeueLast
    <3>2. \A i \in Kept(k)' : i = Len(stream) + 1
      BY <1>1, <2>1, <3>1 DEF Kept
    <3>3. ASSUME NEW v \in Workers, wpc'[v] = "requeue" PROVE Current(v)' # k
      <4>1. v # w /\ wpc[v] = "requeue"
        BY <1>1, <1>3, <3>3
      <4>2. Head(batch[v]) \in Ids(v) /\ Current(v)' = Current(v)
        BY <1>4, <1>6, <4>1 DEF AtWork
      <4> QED BY <1>2, <1>7, <2>2, <4>1, <4>2 DEF Single, OneHolder, Current
    <3> QED BY <3>2, <3>3 DEF OneKept, RequeueLast
  <2>3. CASE k # Current(w)
    <3>1. Kept(k)' = Kept(k)
      <4>1. \A i \in 1 .. Len(stream) : i \in 1 .. Len(stream')
        BY <1>1
      <4> QED BY <1>1, <2>1, <2>3, <4>1 DEF Kept
    <3> QED BY <1>1, <1>3, <1>6, <1>7, <3>1 DEF Single, OneKept, RequeueLast, AtWork
  <2> QED BY <2>2, <2>3
<1> QED BY <1>8, <1>9, <1>10, <1>11 DEF Single

\* Every step keeps one message and one worker.
LEMMA SingleStep == Base /\ SingleInv /\ [Next]_vars => SingleInv'
<1> SUFFICES ASSUME Base, SingleInv, [Next]_vars PROVE SingleInv'
  OBVIOUS
<1>1. CASE UNCHANGED vars \/ \E i \in pending : Age(i)
  <2>1. UNCHANGED <<job, stream, delivered, pending, wpc, batch, overlapped>>
    BY <1>1 DEF vars, Age, rows, redis, history
  <2> QED BY <2>1 DEF SingleInv, Single, OneKept, HeldKept, OneHolder, RequeueLast, NotRepeated, Kept,
          Ids, Current
<1>2. CASE \E j \in Jobs : CreateRecord(j) \/ SubmitStep(j) \/ SubmitterDies(j)
  BY <1>2, SubmitSingle
<1>3. CASE \E w \in Workers : WorkerStep(w) \/ Stop(w)
  BY <1>3, FetchSingle, ExecuteSingle, AcknowledgeSingle, RequeueSingle DEF WorkerStep
<1> QED BY <1>1, <1>2, <1>3 DEF Next

\* A step that takes a job away from SUCCEEDED is one SuccessKept allows.
LEMMA SuccessStep ==
  ASSUME Base, SingleInv, [Next]_vars,
         NEW j \in Jobs, job[j].status = "SUCCEEDED", job'[j].status # "SUCCEEDED"
  PROVE  j \in overlapped \/ submit[j] = "failing"
<1>0. RowsTyped /\ FreshInv
  BY DEF Base
<1>1. CASE \E k \in Jobs : CreateRecord(k) \/ SubmitStep(k) \/ SubmitterDies(k)
  <2>1. PICK k \in Jobs : CreateRecord(k) \/ SubmitStep(k) \/ SubmitterDies(k)
    BY <1>1
  <2>2. ~(Enqueue(k) \/ EnqueueRaises(k) \/ SubmitterDies(k))
    BY DEF Enqueue, EnqueueRaises, SubmitterDies
  <2>3. CASE CreateRecord(k)
    <3>1. j = k /\ submit[j] = "idle"
      BY <1>0, <2>3 DEF CreateRecord, Submission, RowsTyped
    <3> QED BY <1>0, <3>1, RowsMade DEF FreshInv
  <2>4. CASE MarkJobFailed(k)
    BY <1>0, <2>4 DEF MarkJobFailed, Submission, RowsTyped
  <2> QED BY <2>1, <2>2, <2>3, <2>4 DEF SubmitStep
<1>2. CASE \E w \in Workers : MarkRunning(w) \/ Succeed(w) \/ Raise(w)
  <2>1. PICK w \in Workers : MarkRunning(w) \/ Succeed(w) \/ Raise(w)
    BY <1>2
  <2>2. wpc[w] \in {"mark", "running"} /\ j = Current(w)
    BY <2>1, MarkEffect, FinishEffect
  <2> QED BY <2>2 DEF SingleInv, Single, NotRepeated
<1>3. CASE \/ UNCHANGED vars \/ \E i \in pending : Age(i)
           \/ \E w \in Workers : \/ Start(w) \/ ClaimPending(w) \/ Read(w) \/ Load(w)
                                 \/ Acknowledge(w) \/ Requeue(w) \/ Stop(w)
  BY <1>3 DEF vars, rows, Age, Start, ClaimPending, Read, Load, Acknowledge, Requeue, Stop
<1> QED BY <1>1, <1>2, <1>3 DEF Next, WorkerStep
----------------------------------------------------------------------------
(* Attempts *)

\* The two sets that are counted are finite.
LEMMA FiniteParts ==
  ASSUME NEW m \in Nat, NEW n \in Nat, NEW S, S \subseteq 1 .. m, NEW T, T \subseteq Workers \X (1 .. n)
  PROVE  /\ IsFiniteSet(S) /\ Cardinality(S) \in Nat
         /\ IsFiniteSet(T) /\ Cardinality(T) \in Nat
<1>1. IsFiniteSet(1 .. m) /\ IsFiniteSet(1 .. n)
  BY FS_Interval
<1>2. IsFiniteSet(Workers \X (1 .. n))
  BY <1>1, JobQueueAssumption, FS_Product
<1> QED BY <1>1, <1>2, FS_Subset, FS_CardinalityType

\* So is what a job can still cost.
LEMMA FinitePotential ==
  ASSUME Base, NEW j
  PROVE  /\ IsFiniteSet(Waits(j)) /\ Cardinality(Waits(j)) \in Nat
         /\ IsFiniteSet(Works(j)) /\ Cardinality(Works(j)) \in Nat
         /\ Potential(j) \in Nat
<1>1. delivered \in Nat /\ Len(stream) \in Nat
  BY IdRanges
<1>2. Waits(j) \subseteq 1 .. Len(stream) /\ Works(j) \subseteq Workers \X (1 .. delivered)
  BY <1>1 DEF Waits, Works
<1>3. /\ IsFiniteSet(Waits(j)) /\ Cardinality(Waits(j)) \in Nat
      /\ IsFiniteSet(Works(j)) /\ Cardinality(Works(j)) \in Nat
  BY <1>1, <1>2, FiniteParts
<1> QED BY <1>3 DEF Potential

\* The same in the next state.
LEMMA FinitePotentialNext ==
  ASSUME Base', NEW j
  PROVE  /\ IsFiniteSet(Waits(j)') /\ Cardinality(Waits(j)') \in Nat
         /\ IsFiniteSet(Works(j)') /\ Cardinality(Works(j)') \in Nat
         /\ Potential(j)' \in Nat
<1>1. delivered' \in Nat /\ Len(stream') \in Nat
  BY LenProperties DEF Base, RedisTyped
<1>2. Waits(j)' \subseteq 1 .. Len(stream') /\ Works(j)' \subseteq Workers \X (1 .. delivered')
  BY <1>1 DEF Waits, Works
<1>3. Potential(j)' = Cardinality(Waits(j)') + Cardinality(Works(j)')
  BY DEF Potential
<1> QED BY <1>1, <1>2, <1>3, FiniteParts

\* Nothing is to be executed in the initial state.
LEMMA InitAttempts == Init => AttemptsInv
<1> SUFFICES ASSUME Init, NEW j \in Jobs PROVE AttemptsOf(j)
  BY DEF AttemptsInv
<1>1. Len(stream) = 0 /\ delivered = 0
  BY DEF Init
<1>2. Waits(j) = {} /\ Works(j) = {}
  BY <1>1 DEF Waits, Works
<1>3. Potential(j) = 0
  BY <1>2, FS_EmptySet DEF Potential
<1>4. /\ claims[j] = 0 /\ job[j].attempts = 0 /\ MaxAttempts \in Nat \ {0}
      /\ \A w \in Workers : wpc[w] = "down"
  BY RowsMade, JobQueueAssumption DEF Init
<1> QED BY <1>3, <1>4 DEF AttemptsOf

\* The numbers AttemptsOf compares.
LEMMA AttemptTypes ==
  ASSUME Base
  PROVE  /\ MaxAttempts \in Nat \ {0}
         /\ \A j \in Jobs : job[j].attempts \in Nat /\ claims[j] \in Nat
         /\ \A w \in Workers : copy[w].attempts \in Nat
  BY JobQueueAssumption DEF Base, RowsTyped, WorkersTyped, HistoryTyped, JobRows

\* A step that gives a job no more executions than claims, does not change its
\* attempts, and sends to "mark" only workers that load its row.
LEMMA NotMore ==
  ASSUME Base, Base', NEW j \in Jobs, AttemptsOf(j), NEW d \in Nat,
         claims'[j] = claims[j] + d, Potential(j)' <= Potential(j) + d,
         job'[j].attempts = job[j].attempts,
         \A v \in Workers : wpc'[v] = "mark" /\ Current(v)' = j =>
           \/ copy'[v].attempts = job[j].attempts
           \/ wpc[v] = "mark" /\ Current(v) = j /\ copy'[v] = copy[v]
  PROVE  AttemptsOf(j)'
<1>1. /\ Potential(j) \in Nat /\ Potential(j)' \in Nat /\ MaxAttempts \in Nat
      /\ job[j].attempts \in Nat /\ claims[j] \in Nat
      /\ \A w \in Workers : copy[w].attempts \in Nat
  BY FinitePotential, FinitePotentialNext, AttemptTypes
<1> DEFINE p == Potential(j)
           q == Potential(j)'
<1>2. p \in Nat /\ q \in Nat /\ q <= p + d
  BY <1>1
<1>3. /\ p <= claims[j] + 1
      /\ job[j].attempts >= MaxAttempts => job[j].attempts + p <= MaxAttempts + claims[j]
      /\ \A w \in Workers : wpc[w] = "mark" /\ Current(w) = j /\ copy[w].attempts >= MaxAttempts =>
           copy[w].attempts + p <= MaxAttempts + claims[j]
  BY DEF AttemptsOf
<1> HIDE DEF p, q
<1>4. q <= claims'[j] + 1
  BY <1>1, <1>2, <1>3
<1>5. job'[j].attempts >= MaxAttempts => job'[j].attempts + q <= MaxAttempts + claims'[j]
  BY <1>1, <1>2, <1>3
<1>6. ASSUME NEW v \in Workers, wpc'[v] = "mark", Current(v)' = j, copy'[v].attempts >= MaxAttempts
      PROVE  copy'[v].attempts + q <= MaxAttempts + claims'[j]
  <2>1. CASE copy'[v].attempts = job[j].attempts
    BY <1>1, <1>2, <1>3, <1>6, <2>1
  <2>2. CASE wpc[v] = "mark" /\ Current(v) = j /\ copy'[v] = copy[v]
    BY <1>1, <1>2, <1>3, <1>6, <2>2
  <2> QED BY <1>6, <2>1, <2>2
<1> QED BY <1>4, <1>5, <1>6 DEF AttemptsOf, q

\* A step that gives a job no execution at all.
LEMMA Fewer ==
  ASSUME Base, Base', NEW j \in Jobs, Waits(j)' \subseteq Waits(j), Works(j)' \subseteq Works(j)
  PROVE  Potential(j)' <= Potential(j) + 0
<1>1. /\ IsFiniteSet(Waits(j)) /\ IsFiniteSet(Works(j))
      /\ Cardinality(Waits(j)) \in Nat /\ Cardinality(Works(j)) \in Nat
      /\ Cardinality(Waits(j)') \in Nat /\ Cardinality(Works(j)') \in Nat
  BY FinitePotential, FinitePotentialNext
<1>2. Cardinality(Waits(j)') <= Cardinality(Waits(j)) /\ Cardinality(Works(j)') <= Cardinality(Works(j))
  BY <1>1, FS_Subset
<1>3. Potential(j)' = Cardinality(Waits(j)') + Cardinality(Works(j)')
  BY DEF Potential
<1> QED BY <1>1, <1>2, <1>3 DEF Potential

\* The part of another worker in the count.
LEMMA OthersActive ==
  ASSUME NEW w \in Workers, Others(w), NEW v \in Workers \ {w}, NEW i, stream'[i] = stream[i], NEW j
  PROVE  Active(v, i, j)' = Active(v, i, j)
  BY DEF Others, Active, Spent, Finishing, Ids

\* A worker that takes messages over counts for them, and for nothing before.
LEMMA TakenOver ==
  ASSUME Base, Base', NEW w \in Workers, Others(w), Ids(w) = {}, UNCHANGED stream,
         NEW j \in Jobs
  PROVE  LET new == {i \in Ids(w)' : stream[i] = j} IN
         /\ IsFiniteSet(new) /\ Cardinality(new) \in Nat
         /\ Cardinality(Works(j)') <= Cardinality(Works(j)) + Cardinality(new)
<1> DEFINE new == {i \in Ids(w)' : stream[i] = j}
<1>1. delivered' \in Nat /\ Ids(w)' \subseteq 1 .. delivered'
  <2>1. /\ delivered' \in 0 .. Len(stream') /\ stream' \in Seq(Jobs)
        /\ batch'[w] \in Seq(1 .. delivered')
    BY DEF Base, RedisTyped, WorkersTyped
  <2> QED BY <2>1, ElementOfSeq, LenProperties DEF Ids, ToSet
<1>2. IsFiniteSet(new) /\ Cardinality(new) \in Nat
  <2>1. IsFiniteSet(1 .. delivered') /\ new \subseteq 1 .. delivered'
    BY <1>1, FS_Interval
  <2> QED BY <2>1, FS_Subset, FS_CardinalityType
<1>3. IsFiniteSet({w} \X new) /\ Cardinality({w} \X new) = Cardinality(new)
  <2>1. IsFiniteSet({w}) /\ Cardinality({w}) = 1
    BY FS_Singleton
  <2> HIDE DEF new
  <2>2. /\ IsFiniteSet({w} \X new)
        /\ Cardinality({w} \X new) = Cardinality({w}) * Cardinality(new)
    BY <1>2, <2>1, FS_Product
  <2> QED BY <1>2, <2>1, <2>2
<1>4. IsFiniteSet(Works(j)) /\ Cardinality(Works(j)) \in Nat /\ Cardinality(Works(j)') \in Nat
  BY FinitePotential, FinitePotentialNext
<1>5. Works(j)' \subseteq Works(j) \union ({w} \X new)
  <2> SUFFICES ASSUME NEW v \in Workers, NEW i \in 1 .. delivered', Active(v, i, j)'
               PROVE  <<v, i>> \in Works(j) \union ({w} \X new)
    BY DEF Works
  <2>1. CASE v = w
    BY <2>1 DEF Active
  <2>2. CASE v # w
    <3>1. Active(v, i, j)
      BY <2>2, OthersActive
    <3>2. i \in 1 .. delivered
      BY <3>1, IdRanges DEF Active
    <3> QED BY <3>1, <3>2 DEF Works
  <2> QED BY <2>1, <2>2
<1>6. /\ IsFiniteSet(Works(j) \union ({w} \X new))
      /\ Cardinality(Works(j) \union ({w} \X new)) =
           Cardinality(Works(j)) + Cardinality({w} \X new) - Cardinality(Works(j) \cap ({w} \X new))
      /\ Cardinality(Works(j) \cap ({w} \X new)) \in Nat
  BY <1>3, <1>4, FS_Union, FS_Intersection, FS_CardinalityType
<1>7. Cardinality(Works(j)') <= Cardinality(Works(j) \union ({w} \X new))
  BY <1>5, <1>6, FS_Subset
<1> QED BY <1>2, <1>3, <1>4, <1>6, <1>7, FS_CardinalityType

\* What a worker that keeps its batch counts for: no more than before, if it
\* does not come back from its last execution.
LEMMA SameBatch ==
  ASSUME Base, Base', NEW w \in Workers, Others(w), batch'[w] = batch[w], Spent(w) => Spent(w)',
         UNCHANGED <<stream, delivered>>, NEW j \in Jobs
  PROVE  Potential(j)' <= Potential(j) + 0
<1>1. Waits(j)' = Waits(j)
  BY DEF Waits
<1>2. ASSUME NEW v \in Workers, NEW i \in 1 .. delivered, Active(v, i, j)' PROVE Active(v, i, j)
  <2>1. CASE v = w
    BY <1>2, <2>1 DEF Active, Ids
  <2>2. CASE v # w
    BY <1>2, <2>2, OthersActive
  <2> QED BY <2>1, <2>2
<1>3. Works(j)' \subseteq Works(j)
  BY <1>2 DEF Works
<1> QED BY <1>1, <1>3, Fewer

\* Steps of the submitter: the message of a submission is the first execution.
LEMMA SubmitAttempts ==
  ASSUME Base, Base', AttemptsInv, NEW j \in Jobs, CreateRecord(j) \/ SubmitStep(j) \/ SubmitterDies(j)
  PROVE  AttemptsInv'
<1>0. RowsTyped /\ RedisTyped /\ FreshInv
  BY DEF Base
<1>1. /\ UNCHANGED <<delivered, wpc, batch, copy, claims>>
      /\ \A v \in Workers : Ids(v)' = Ids(v) /\ Spent(v)' = Spent(v)
  BY DEF CreateRecord, SubmitStep, Enqueue, EnqueueRaises, MarkJobFailed, SubmitterDies, redis, history, Ids,
     Spent, Finishing
<1>2. ASSUME NEW k \in Jobs PROVE job'[k].attempts = job[k].attempts
  <2>1. CASE CreateRecord(j)
    <3>1. submit[j] = "idle" /\ job' = [job EXCEPT ![j] = Row("QUEUED", 0)]
      BY <2>1 DEF CreateRecord, Submission
    <3>2. job[j].attempts = 0 /\ Row("QUEUED", 0).attempts = 0
      BY <1>0, <3>1 DEF FreshInv, Row
    <3> QED BY <1>0, <3>1, <3>2 DEF RowsTyped
  <2>2. CASE MarkJobFailed(j)
    <3>1. job' = [job EXCEPT ![j] = [job[j] EXCEPT !.status = "FAILED"]]
      BY <1>0, <2>2 DEF MarkJobFailed, RowsTyped
    <3>2. [job[j] EXCEPT !.status = "FAILED"].attempts = job[j].attempts
      BY <1>0, RowsMade DEF RowsTyped, Statuses
    <3> QED BY <1>0, <3>1, <3>2 DEF RowsTyped
  <2>3. CASE Enqueue(j) \/ EnqueueRaises(j) \/ SubmitterDies(j)
    BY <2>3 DEF Enqueue, EnqueueRaises, SubmitterDies
  <2> QED BY <2>1, <2>2, <2>3 DEF SubmitStep
<1>3. /\ delivered \in Nat /\ Len(stream) \in Nat /\ delivered <= Len(stream)
      /\ \A v \in Workers : \A i \in Ids(v) : i \in 1 .. Len(stream) /\ i \in 1 .. delivered
      /\ \A v \in Workers : wpc[v] \in AtWork => Head(batch[v]) \in Ids(v)
  BY IdRanges
<1>4. ASSUME \A i \in 1 .. Len(stream) : stream'[i] = stream[i],
             NEW k \in Jobs, Waits(k)' \subseteq Waits(k)
      PROVE  AttemptsOf(k)'
  <2>1. Works(k)' \subseteq Works(k)
    <3>1. ASSUME NEW v \in Workers, NEW i \in 1 .. delivered, Active(v, i, k)' PROVE Active(v, i, k)
      <4>1. i \in Ids(v) /\ stream'[i] = stream[i]
        BY <1>1, <1>3, <1>4, <3>1 DEF Active
      <4> QED BY <1>1, <3>1, <4>1 DEF Active
    <3> QED BY <1>1, <3>1 DEF Works
  <2>2. Potential(k)' <= Potential(k) + 0
    BY <1>4, <2>1, Fewer
  <2>3. \A v \in Workers : wpc'[v] = "mark" /\ Current(v)' = k =>
          wpc[v] = "mark" /\ Current(v) = k /\ copy'[v] = copy[v]
    BY <1>1, <1>3, <1>4 DEF AtWork, Current
  <2>4. claims'[k] = claims[k] + 0 /\ AttemptsOf(k)
    BY <1>1, AttemptTypes DEF AttemptsInv
  <2> QED BY <1>2, <2>2, <2>3, <2>4, NotMore
<1>5. CASE UNCHANGED stream
  <2>1. \A k \in Jobs : Waits(k)' = Waits(k)
    BY <1>1, <1>5 DEF Waits
  <2> QED BY <1>4, <1>5, <2>1 DEF AttemptsInv
<1>6. CASE XAdd(j) /\ submit[j] = "created"
  <2>1. /\ Len(stream') = Len(stream) + 1 /\ stream'[Len(stream) + 1] = j
        /\ \A i \in 1 .. Len(stream) : stream'[i] = stream[i]
        /\ \A i \in 1 .. Len(stream) : stream[i] # j
        /\ job[j].attempts = 0
    BY <1>0, <1>6, Added DEF FreshInv
  <2>2. \A i \in 1 .. Len(stream') : i \in 1 .. Len(stream) \/ i = Len(stream) + 1
    BY <1>3, <2>1
  <2>3. ASSUME NEW k \in Jobs, k # j PROVE AttemptsOf(k)'
    <3>1. ASSUME NEW i \in delivered + 1 .. Len(stream'), stream'[i] = k
          PROVE  i \in delivered + 1 .. Len(stream) /\ stream[i] = k
      BY <1>3, <2>1, <2>2, <2>3, <3>1
    <3>2. Waits(k)' \subseteq Waits(k)
      BY <1>1, <3>1 DEF Waits
    <3> QED BY <1>4, <2>1, <3>2
  <2>4. AttemptsOf(j)'
    <3>1. Works(j)' = {}
      <4>1. ASSUME NEW v \in Workers, NEW i \in Ids(v)' PROVE stream'[i] # j
        BY <1>1, <1>3, <2>1, <4>1
      <4> QED BY <4>1 DEF Works, Active
    <3>2. Waits(j)' = {Len(stream) + 1}
      <4>1. Len(stream) + 1 \in delivered' + 1 .. Len(stream')
        BY <1>1, <1>3, <2>1
      <4>2. ASSUME NEW i \in delivered' + 1 .. Len(stream'), stream'[i] = j PROVE i = Len(stream) + 1
        BY <1>1, <1>3, <2>1, <2>2, <4>2
      <4> QED BY <2>1, <4>1, <4>2 DEF Waits
    <3>3. Potential(j)' = 1
      <4>1. Cardinality(Works(j)') = 0 /\ Cardinality(Waits(j)') = 1
        BY <3>1, <3>2, FS_EmptySet, FS_Singleton
      <4> QED BY <4>1 DEF Potential
    <3>4. claims'[j] \in Nat /\ MaxAttempts \in Nat \ {0} /\ job'[j].attempts = 0
      BY <1>1, <1>2, <2>1, AttemptTypes
    <3>5. ASSUME NEW v \in Workers, wpc'[v] = "mark" PROVE Current(v)' # j
      <4>1. Head(batch[v]) \in 1 .. Len(stream)
        BY <1>1, <1>3, <3>5 DEF AtWork
      <4> QED BY <1>1, <2>1, <4>1 DEF Current
    <3> QED BY <3>3, <3>4, <3>5 DEF AttemptsOf
  <2> QED BY <2>3, <2>4 DEF AttemptsInv
<1> QED
  BY <1>5, <1>6 DEF CreateRecord, SubmitStep, Enqueue, EnqueueRaises, MarkJobFailed, SubmitterDies,
     Submission, redis

\* A range of ids, cut in two.
LEMMA Ranges ==
  ASSUME NEW a \in Nat, NEW b \in Nat, NEW c \in Nat, a <= b, b <= c
  PROVE  /\ a + 1 .. c = (a + 1 .. b) \union (b + 1 .. c)
         /\ (a + 1 .. b) \cap (b + 1 .. c) = {}
  OBVIOUS

\* Fetching: a read turns waiting messages into held ones; a claim is paid for.
LEMMA FetchAttempts ==
  ASSUME Base, Base', AttemptsInv, NEW w \in Workers, ClaimPending(w) \/ Read(w)
  PROVE  AttemptsInv'
<1> SUFFICES ASSUME NEW j \in Jobs PROVE AttemptsOf(j)'
  BY DEF AttemptsInv
<1> DEFINE new == {i \in Ids(w)' : stream[i] = j}
<1>1. Others(w) /\ Ids(w) = {} /\ wpc'[w] = "next" /\ UNCHANGED <<job, stream>>
  BY ClaimEffect, ReadEffect DEF Ids, ToSet
<1>2. /\ IsFiniteSet(new) /\ Cardinality(new) \in Nat
      /\ Cardinality(Works(j)') <= Cardinality(Works(j)) + Cardinality(new)
  BY <1>1, TakenOver
<1>3. /\ Cardinality(Works(j)) \in Nat /\ Cardinality(Works(j)') \in Nat
      /\ Cardinality(Waits(j)) \in Nat /\ Cardinality(Waits(j)') \in Nat
      /\ IsFiniteSet(Waits(j)) /\ IsFiniteSet(Waits(j)')
  BY FinitePotential, FinitePotentialNext
<1>4. \A v \in Workers : wpc'[v] = "mark" /\ Current(v)' = j =>
        wpc[v] = "mark" /\ Current(v) = j /\ copy'[v] = copy[v]
  BY <1>1 DEF Others, Current
<1>5. /\ Potential(j) = Cardinality(Waits(j)) + Cardinality(Works(j))
      /\ Potential(j)' = Cardinality(Waits(j)') + Cardinality(Works(j)')
      /\ AttemptsOf(j) /\ claims[j] \in Nat
  BY AttemptTypes DEF Potential, AttemptsInv
<1>6. CASE ClaimPending(w)
  <2>1. claims'[j] = claims[j] + Cardinality(new)
    BY <1>6, ClaimEffect DEF ClaimPending, Ids
  <2> HIDE DEF new
  <2>2. Waits(j)' = Waits(j)
    BY <1>6, ClaimEffect DEF Waits
  <2>3. Potential(j)' <= Potential(j) + Cardinality(new)
    BY <1>2, <1>3, <1>5, <2>2
  <2> QED BY <1>1, <1>2, <1>4, <1>5, <2>1, <2>3, NotMore
<1>7. CASE Read(w)
  <2>1. /\ Ids(w)' = delivered + 1 .. delivered'
        /\ delivered \in Nat /\ delivered' \in delivered .. Len(stream) /\ Len(stream) \in Nat
        /\ UNCHANGED claims
    BY <1>7, ReadEffect DEF Ids
  <2>2. Waits(j) = Waits(j)' \union new /\ Waits(j)' \cap new = {}
    <3>1. delivered' \in Nat /\ delivered <= delivered' /\ delivered' <= Len(stream)
      BY <2>1
    <3>2. /\ delivered + 1 .. Len(stream) =
               (delivered + 1 .. delivered') \union (delivered' + 1 .. Len(stream))
          /\ (delivered + 1 .. delivered') \cap (delivered' + 1 .. Len(stream)) = {}
      BY <2>1, <3>1, Ranges
    <3> QED BY <1>1, <2>1, <3>2 DEF Waits
  <2> HIDE DEF new
  <2>3. Cardinality(Waits(j)) = Cardinality(Waits(j)') + Cardinality(new)
    <3>1. /\ Cardinality(Waits(j)' \union new) =
               Cardinality(Waits(j)') + Cardinality(new) - Cardinality(Waits(j)' \cap new)
          /\ Cardinality(Waits(j)' \cap new) = 0
      BY <1>2, <1>3, <2>2, FS_Union, FS_EmptySet
    <3> QED BY <1>2, <1>3, <2>2, <3>1
  <2>4. Potential(j)' <= Potential(j) + 0
    BY <1>2, <1>3, <1>5, <2>3
  <2>5. claims'[j] = claims[j] + 0
    BY <1>5, <2>1
  <2> QED BY <1>1, <1>4, <1>5, <2>4, <2>5, NotMore
<1> QED BY <1>6, <1>7

\* Loading and finishing.
LEMMA ExecuteAttempts ==
  ASSUME Base, Base', AttemptsInv, NEW w \in Workers, Load(w) \/ Succeed(w) \/ Raise(w)
  PROVE  AttemptsInv'
<1> SUFFICES ASSUME NEW j \in Jobs PROVE AttemptsOf(j)'
  BY DEF AttemptsInv
<1>1. /\ Others(w) /\ batch'[w] = batch[w] /\ UNCHANGED <<stream, delivered, claims>>
      /\ Spent(w) => Spent(w)'
      /\ job'[j].attempts = job[j].attempts
      /\ wpc'[w] = "mark" => copy'[w] = job[Current(w)]
  <2>1. CASE Load(w)
    BY <2>1, LoadEffect DEF Spent, Finishing
  <2>2. CASE Succeed(w) \/ Raise(w)
    BY <2>2, FinishEffect DEF Spent, Finishing
  <2> QED BY <2>1, <2>2
<1>2. Potential(j)' <= Potential(j) + 0
  BY <1>1, SameBatch
<1>3. \A v \in Workers : wpc'[v] = "mark" /\ Current(v)' = j =>
        \/ copy'[v].attempts = job[j].attempts
        \/ wpc[v] = "mark" /\ Current(v) = j /\ copy'[v] = copy[v]
  BY <1>1 DEF Others, Current
<1>4. claims'[j] = claims[j] + 0 /\ AttemptsOf(j)
  BY <1>1, AttemptTypes DEF AttemptsInv
<1> QED BY <1>1, <1>2, <1>3, <1>4, NotMore

\* The beginning of an execution: the last one is spent.
LEMMA MarkAttempts ==
  ASSUME Base, Base', AttemptsInv, NEW w \in Workers, MarkRunning(w)
  PROVE  AttemptsInv'
<1> SUFFICES ASSUME NEW j \in Jobs PROVE AttemptsOf(j)'
  BY DEF AttemptsInv
<1>1. /\ Others(w) /\ wpc[w] = "mark" /\ wpc'[w] = "running" /\ batch[w] # <<>> /\ batch'[w] = batch[w]
      /\ copy'[w].attempts = copy[w].attempts + 1
      /\ job'[Current(w)].attempts = copy[w].attempts + 1
      /\ \A k \in Jobs : k # Current(w) => job'[k] = job[k]
      /\ UNCHANGED <<stream, delivered, claims>>
  BY MarkEffect
<1>2. ~Spent(w)
  BY <1>1 DEF Spent, Finishing
<1>3. Potential(j)' <= Potential(j) + 0
  BY <1>1, <1>2, SameBatch
<1>4. \A v \in Workers : wpc'[v] = "mark" /\ Current(v)' = j =>
        wpc[v] = "mark" /\ Current(v) = j /\ copy'[v] = copy[v]
  BY <1>1 DEF Others, Current
<1>5. claims'[j] = claims[j] + 0 /\ AttemptsOf(j) /\ claims[j] \in Nat
  BY <1>1, AttemptTypes DEF AttemptsInv
<1>6. CASE j # Current(w)
  BY <1>1, <1>3, <1>4, <1>5, <1>6, NotMore
<1>7. CASE j = Current(w)
  <2> DEFINE p == Potential(j)
             q == Potential(j)'
             c == copy[w].attempts
  <2>1. /\ p \in Nat /\ q \in Nat /\ q <= p /\ c \in Nat /\ claims[j] \in Nat /\ MaxAttempts \in Nat
        /\ \A v \in Workers : copy[v].attempts \in Nat
    BY <1>3, FinitePotential, FinitePotentialNext, AttemptTypes
  <2>2. c + 1 >= MaxAttempts => q <= p - 1
    <3> SUFFICES ASSUME c + 1 >= MaxAttempts PROVE q <= p - 1
      OBVIOUS
    <3> DEFINE t == <<w, Head(batch[w])>>
    <3>1. /\ Head(batch[w]) \in 1 .. delivered /\ Head(batch[w]) \in Ids(w)
          /\ stream[Head(batch[w])] = j
      BY <1>1, <1>7, CurrentHeld
    <3>2. t \in Works(j)
      BY <1>2, <3>1 DEF Works, Active
    <3>3. Spent(w)'
      BY <1>1 DEF Spent
    <3>4. Works(j)' \subseteq Works(j) \ {t}
      <4> SUFFICES ASSUME NEW v \in Workers, NEW i \in 1 .. delivered, Active(v, i, j)'
                   PROVE  Active(v, i, j) /\ <<v, i>> # t
        BY <1>1 DEF Works
      <4>1. CASE v = w
        BY <1>1, <1>2, <3>3, <4>1 DEF Active, Ids
      <4>2. CASE v # w
        BY <1>1, <4>2, OthersActive
      <4> QED BY <4>1, <4>2
    <3>5. /\ IsFiniteSet(Works(j)) /\ Cardinality(Works(j)) \in Nat
          /\ Cardinality(Works(j)') \in Nat /\ Cardinality(Waits(j)) \in Nat
      BY FinitePotential, FinitePotentialNext
    <3> HIDE DEF t
    <3>6. IsFiniteSet(Works(j) \ {t}) /\ Cardinality(Works(j) \ {t}) = Cardinality(Works(j)) - 1
      BY <3>2, <3>5, FS_RemoveElement
    <3>7. Cardinality(Works(j)') <= Cardinality(Works(j)) - 1
      BY <3>4, <3>6, FS_Subset
    <3>8. Waits(j)' = Waits(j)
      BY <1>1 DEF Waits
    <3>9. q = Cardinality(Waits(j)') + Cardinality(Works(j)') /\ p = Cardinality(Waits(j)) + Cardinality(Works(j))
      BY DEF Potential
    <3> HIDE DEF p, q
    <3> QED BY <3>5, <3>7, <3>8, <3>9
  <2>3. /\ p <= claims[j] + 1
        /\ c >= MaxAttempts => c + p <= MaxAttempts + claims[j]
        /\ \A v \in Workers : wpc[v] = "mark" /\ Current(v) = j /\ copy[v].attempts >= MaxAttempts =>
             copy[v].attempts + p <= MaxAttempts + claims[j]
    BY <1>1, <1>5, <1>7 DEF AttemptsOf
  <2>4. job'[j].attempts = c + 1 /\ claims'[j] = claims[j]
    BY <1>1, <1>7
  <2> HIDE DEF p, q, c
  <2>5. q <= claims'[j] + 1
    BY <2>1, <2>3, <2>4
  <2>6. job'[j].attempts >= MaxAttempts => job'[j].attempts + q <= MaxAttempts + claims'[j]
    BY <2>1, <2>2, <2>3, <2>4
  <2>7. ASSUME NEW v \in Workers, wpc'[v] = "mark", Current(v)' = j, copy'[v].attempts >= MaxAttempts
        PROVE  copy'[v].attempts + q <= MaxAttempts + claims'[j]
    <3>1. copy'[v] = copy[v] /\ copy[v].attempts + p <= MaxAttempts + claims[j]
      BY <1>4, <2>3, <2>7
    <3> QED BY <2>1, <2>4, <3>1
  <2> QED BY <2>5, <2>6, <2>7 DEF AttemptsOf, q
<1> QED BY <1>6, <1>7

\* A worker that has less to do than before.
LEMMA LessToDo ==
  ASSUME Base, Base', AttemptsInv, NEW w \in Workers, Others(w),
         UNCHANGED <<job, stream, delivered, claims>>, wpc'[w] # "mark",
         \A i, k : Active(w, i, k)' => Active(w, i, k)
  PROVE  AttemptsInv'
<1> SUFFICES ASSUME NEW j \in Jobs PROVE AttemptsOf(j)'
  BY DEF AttemptsInv
<1>1. Waits(j)' = Waits(j)
  BY DEF Waits
<1>2. ASSUME NEW v \in Workers, NEW i \in 1 .. delivered, Active(v, i, j)' PROVE Active(v, i, j)
  <2>1. CASE v = w
    BY <1>2, <2>1
  <2>2. CASE v # w
    BY <1>2, <2>2, OthersActive
  <2> QED BY <2>1, <2>2
<1>3. Works(j)' \subseteq Works(j)
  BY <1>2 DEF Works
<1>4. Potential(j)' <= Potential(j) + 0
  BY <1>1, <1>3, Fewer
<1>5. \A v \in Workers : wpc'[v] = "mark" /\ Current(v)' = j =>
        wpc[v] = "mark" /\ Current(v) = j /\ copy'[v] = copy[v]
  BY DEF Others, Current
<1>6. claims'[j] = claims[j] + 0 /\ AttemptsOf(j)
  BY AttemptTypes DEF AttemptsInv
<1> QED BY <1>4, <1>5, <1>6, NotMore

\* Starting, ending and acknowledging.
LEMMA ReleaseAttempts ==
  ASSUME Base, Base', AttemptsInv, NEW w \in Workers, Start(w) \/ Stop(w) \/ Acknowledge(w)
  PROVE  AttemptsInv'
<1>1. CASE Start(w)
  <2>1. \A i, k : ~Active(w, i, k)'
    BY <1>1, StartEffect DEF Active, Ids, ToSet
  <2> QED BY <1>1, <2>1, StartEffect, LessToDo
<1>2. CASE Stop(w)
  <2>1. \A i, k : ~Active(w, i, k)'
    BY <1>2, StopEffect DEF Active, Ids, ToSet
  <2> QED BY <1>2, <2>1, StopEffect, LessToDo
<1>3. CASE Acknowledge(w)
  <2>1. CASE copy[w].status = "QUEUED"
    <3>1. \A i, k : Active(w, i, k)' => Active(w, i, k)
      BY <1>3, <2>1, AckEffect DEF Active, Ids, Spent, Finishing
    <3> QED BY <1>3, <2>1, <3>1, AckEffect, LessToDo
  <2>2. CASE copy[w].status # "QUEUED"
    <3>1. \A i, k : Active(w, i, k)' => Active(w, i, k)
      BY <1>3, <2>2, AckEffect DEF Active, Ids, Spent, Finishing
    <3> QED BY <1>3, <2>2, <3>1, AckEffect, LessToDo
  <2> QED BY <2>1, <2>2
<1> QED BY <1>1, <1>2, <1>3

\* Requeue: the execution that is retried waits in the stream.
LEMMA RequeueAttempts ==
  ASSUME Base, Base', AttemptsInv, NEW w \in Workers, Requeue(w)
  PROVE  AttemptsInv'
<1> DEFINE h == Head(batch[w])
           n == Len(stream) + 1
<1>1. /\ Others(w) /\ wpc[w] = "requeue" /\ wpc'[w] = "next" /\ batch[w] # <<>>
      /\ UNCHANGED <<job, delivered, claims>>
      /\ Ids(w)' = Ids(w) \ {h}
      /\ Len(stream) \in Nat /\ Len(stream') = n
      /\ \A i \in 1 .. Len(stream) : stream'[i] = stream[i]
      /\ stream'[n] = Current(w)
  BY RequeueEffect DEF Ids
<1>2. h \in Ids(w) /\ h \in 1 .. delivered /\ stream[h] = Current(w)
  BY <1>1, CurrentHeld
<1> HIDE DEF h
<1>3. /\ delivered \in Nat /\ delivered <= Len(stream)
      /\ \A v \in Workers : \A i \in Ids(v) : i \in 1 .. Len(stream)
      /\ \A v \in Workers : wpc[v] \in AtWork => Head(batch[v]) \in Ids(v)
  BY IdRanges
<1>4. ~Spent(w) /\ ~Spent(w)'
  BY <1>1 DEF Spent, Finishing
<1> SUFFICES ASSUME NEW j \in Jobs PROVE AttemptsOf(j)'
  BY DEF AttemptsInv
<1>5. ASSUME NEW v \in Workers, NEW i \in 1 .. delivered, Active(v, i, j)'
      PROVE  Active(v, i, j) /\ <<v, i>> # <<w, h>>
  <2>1. stream'[i] = stream[i]
    BY <1>1, <1>3, <1>5
  <2>2. CASE v = w
    BY <1>1, <1>4, <1>5, <2>1, <2>2 DEF Active
  <2>3. CASE v # w
    BY <1>1, <1>5, <2>1, <2>3, OthersActive
  <2> QED BY <2>2, <2>3
<1>6. /\ IsFiniteSet(Works(j)) /\ Cardinality(Works(j)) \in Nat
      /\ Cardinality(Works(j)') \in Nat
      /\ IsFiniteSet(Waits(j)) /\ Cardinality(Waits(j)) \in Nat
      /\ Cardinality(Waits(j)') \in Nat
  BY FinitePotential, FinitePotentialNext
<1>7. \A i \in delivered + 1 .. n : i \in delivered + 1 .. Len(stream) \/ i = n
  BY <1>1, <1>3
<1> HIDE DEF n
<1>8. Potential(j)' <= Potential(j) + 0
  <2>1. CASE j # Current(w)
    <3>1. Waits(j)' \subseteq Waits(j)
      <4> SUFFICES ASSUME NEW i \in delivered + 1 .. n, stream'[i] = j
                   PROVE  i \in delivered + 1 .. Len(stream) /\ stream[i] = j
        BY <1>1 DEF Waits
      <4>1. i \in delivered + 1 .. Len(stream)
        BY <1>1, <1>7, <2>1
      <4>2. i \in 1 .. Len(stream)
        BY <1>1, <1>3, <4>1
      <4> QED BY <1>1, <4>1, <4>2
    <3>2. Works(j)' \subseteq Works(j)
      BY <1>1, <1>5 DEF Works
    <3> QED BY <3>1, <3>2, Fewer
  <2>2. CASE j = Current(w)
    <3>1. Waits(j)' \subseteq Waits(j) \union {n}
      <4> SUFFICES ASSUME NEW i \in delivered + 1 .. n, stream'[i] = j, i # n
                   PROVE  i \in delivered + 1 .. Len(stream) /\ stream[i] = j
        BY <1>1 DEF Waits
      <4>1. i \in delivered + 1 .. Len(stream)
        BY <1>7
      <4>2. i \in 1 .. Len(stream)
        BY <1>1, <1>3, <4>1
      <4> QED BY <1>1, <4>1, <4>2
    <3>2. Cardinality(Waits(j)') <= Cardinality(Waits(j)) + 1
      <4>1. /\ IsFiniteSet(Waits(j) \union {n})
            /\ Cardinality(Waits(j) \union {n}) \in {Cardinality(Waits(j)), Cardinality(Waits(j)) + 1}
        BY <1>6, FS_AddElement
      <4>2. Cardinality(Waits(j)') <= Cardinality(Waits(j) \union {n})
        BY <3>1, <4>1, FS_Subset
      <4> QED BY <1>6, <4>1, <4>2
    <3> DEFINE t == <<w, h>>
    <3>3. t \in Works(j)
      BY <1>2, <1>4, <2>2 DEF Works, Active
    <3>4. Works(j)' \subseteq Works(j) \ {t}
      BY <1>1, <1>5 DEF Works
    <3> HIDE DEF t
    <3>5. Cardinality(Works(j)') <= Cardinality(Works(j)) - 1
      <4>1. /\ IsFiniteSet(Works(j) \ {t})
            /\ Cardinality(Works(j) \ {t}) = Cardinality(Works(j)) - 1
        BY <1>6, <3>3, FS_RemoveElement
      <4> QED BY <3>4, <4>1, FS_Subset
    <3>6. Potential(j)' = Cardinality(Waits(j)') + Cardinality(Works(j)')
      BY DEF Potential
    <3> QED BY <1>6, <3>2, <3>5, <3>6 DEF Potential
  <2> QED BY <2>1, <2>2
<1>9. \A v \in Workers : wpc'[v] = "mark" /\ Current(v)' = j =>
        wpc[v] = "mark" /\ Current(v) = j /\ copy'[v] = copy[v]
  <2> SUFFICES ASSUME NEW v \in Workers, wpc'[v] = "mark"
               PROVE  wpc[v] = "mark" /\ Current(v)' = Current(v) /\ copy'[v] = copy[v]
    OBVIOUS
  <2>1. v # w /\ wpc[v] = "mark" /\ batch'[v] = batch[v] /\ copy'[v] = copy[v]
    BY <1>1 DEF Others
  <2>2. Head(batch[v]) \in 1 .. Len(stream)
    BY <1>3, <2>1 DEF AtWork
  <2> QED BY <1>1, <2>1, <2>2 DEF Current
<1>10. claims'[j] = claims[j] + 0 /\ AttemptsOf(j)
  BY <1>1, AttemptTypes DEF AttemptsInv
<1> QED BY <1>1, <1>8, <1>9, <1>10, NotMore

\* Every step keeps the count.
LEMMA AttemptsStep == Base /\ AttemptsInv /\ [Next]_vars => AttemptsInv'
<1> SUFFICES ASSUME Base, AttemptsInv, [Next]_vars PROVE AttemptsInv'
  OBVIOUS
<1>0. Base'
  BY BaseStep
<1>1. CASE UNCHANGED vars \/ \E i \in pending : Age(i)
  <2>1. UNCHANGED <<job, stream, delivered, wpc, batch, copy, claims>>
    BY <1>1 DEF vars, Age, rows, redis, history
  <2>2. ASSUME NEW j \in Jobs PROVE AttemptsOf(j)'
    <3>1. Waits(j)' = Waits(j) /\ Works(j)' = Works(j)
      BY <2>1 DEF Waits, Works, Active, Spent, Finishing, Ids
    <3>2. Potential(j)' = Potential(j)
      BY <3>1 DEF Potential
    <3> QED BY <2>1, <3>2 DEF AttemptsInv, AttemptsOf, Current
  <2> QED BY <2>2 DEF AttemptsInv
<1>2. CASE \E j \in Jobs : CreateRecord(j) \/ SubmitStep(j) \/ SubmitterDies(j)
  BY <1>0, <1>2, SubmitAttempts
<1>3. CASE \E w \in Workers : WorkerStep(w) \/ Stop(w)
  BY <1>0, <1>3, FetchAttempts, ExecuteAttempts, MarkAttempts, ReleaseAttempts, RequeueAttempts
     DEF WorkerStep
<1> QED BY <1>1, <1>2, <1>3 DEF Next

\* The bound on the attempts follows from what they left to be executed.
LEMMA AttemptsExplain == Base /\ AttemptsInv => AttemptsExplained
<1> SUFFICES ASSUME Base, AttemptsInv, NEW j \in Jobs
             PROVE  job[j].attempts <= MaxAttempts + claims[j]
  BY DEF AttemptsExplained
<1>1. /\ Potential(j) \in Nat /\ MaxAttempts \in Nat /\ job[j].attempts \in Nat /\ claims[j] \in Nat
      /\ job[j].attempts >= MaxAttempts => job[j].attempts + Potential(j) <= MaxAttempts + claims[j]
  BY FinitePotential, AttemptTypes DEF AttemptsInv, AttemptsOf
<1> QED BY <1>1

----------------------------------------------------------------------------
(* The theorems *)

\* The inductive invariant: types and fresh jobs, liveness of what was accepted,
\* one message and one worker for jobs that were never claimed from a live
\* worker, and attempts against what is left to execute.
IInv == Base /\ LiveInv /\ SingleInv /\ AttemptsInv

\* Every reachable state of submission, queue and workers satisfies it.
THEOREM Invariance == Spec => []IInv
<1>1. Init => IInv
  BY InitBase, InitLive, InitSingle, InitAttempts DEF IInv
<1>2. IInv /\ [Next]_vars => IInv'
  BY BaseStep, LiveStep, SingleStep, AttemptsStep DEF IInv
<1> QED BY <1>1, <1>2, PTL DEF Spec

\* The rows, the stream, the pending list and the workers keep their types.
THEOREM TypeCorrect == Spec => []TypeOK
<1>1. IInv => TypeOK
  BY BaseTypes DEF IInv
<1> QED BY <1>1, Invariance, PTL

\* A job accepted with 202 and not finished has a message to be read or claimed,
\* or a worker on it, unless a worker ended on a message already acknowledged or
\* held by another worker as well (app/jobs.py, app/queue.py, scripts/worker.py).
THEOREM JobsTracked == Spec => []JobTracked
<1>1. IInv => JobTracked
  BY LiveTracked DEF IInv
<1> QED BY <1>1, Invariance, PTL

\* Executions past --max-attempts are paid for one by one by messages that
\* claim_pending delivered again.
THEOREM AttemptsBounded == Spec => []AttemptsExplained
<1>1. IInv => AttemptsExplained
  BY AttemptsExplain DEF IInv
<1> QED BY <1>1, Invariance, PTL

\* A job leaves SUCCEEDED only if its message was claimed from a live worker, or
\* if its submitter saw enqueue fail after the message was added.
THEOREM SuccessStays == Spec => SuccessKept
<1>1. IInv /\ [Next]_vars =>
        [\A j \in Jobs : job[j].status = "SUCCEEDED" /\ job'[j].status # "SUCCEEDED"
           => j \in overlapped \/ submit[j] = "failing"]_vars
  BY SuccessStep DEF IInv
<1> QED BY <1>1, Invariance, PTL DEF Spec, SuccessKept
=============================================================================
