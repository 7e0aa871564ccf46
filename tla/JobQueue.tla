------------------------------ MODULE JobQueue ------------------------------
(***************************************************************************)
(* Background jobs: submit_job (app/jobs.py) writes a background_jobs row  *)
(* and adds a message to a Redis stream; the workers of scripts/worker.py  *)
(* consume the stream through one consumer group (app/queue.py).           *)
(*                                                                         *)
(* A message that was delivered and not acknowledged is in the group's     *)
(* pending list.  Only claim_pending, which a worker calls once when it    *)
(* starts, delivers it again, and only if it has been idle for a minute    *)
(* (stale).  A worker works on its private copy of the job row.            *)
(***************************************************************************)
EXTENDS Naturals, FiniteSets, Sequences, SequencesExt

CONSTANTS
  Jobs,         \* jobs submitted through POST /jobs/{kind}
  Workers,      \* worker processes
  MaxAttempts,  \* --max-attempts
  BatchSize,    \* count of claim_pending and read
  MaxStops      \* bound: times worker processes end

ASSUME JobQueueAssumption ==
  /\ IsFiniteSet(Workers)
  /\ MaxAttempts \in Nat \ {0} /\ BatchSize \in Nat \ {0} /\ MaxStops \in Nat

VARIABLES
  submit,     \* where the request that submits each job stands
  job,        \* rows of background_jobs: status and attempts
  stream,     \* job of every message ever added, in order of message id
  delivered,  \* last id delivered to the group
  pending,    \* ids delivered and not acknowledged
  stale,      \* those idle for at least min_idle_ms
  wpc,        \* where each worker stands
  batch,      \* ids it fetched and has not finished, the current one first
  copy,       \* the row of the current job, as loaded and changed in its session
  stops,      \* worker processes that ended
  claims,     \* history: times a message of each job was claimed
  overlapped, \* history: jobs claimed while a live worker still had the message
  dropped     \* history: jobs whose worker ended on a message that was already
              \* acknowledged, or that another worker had as well

rows == <<submit, job>>
redis == <<stream, delivered, pending, stale>>
history == <<stops, claims, overlapped, dropped>>
vars == <<rows, redis, wpc, batch, copy, history>>

Row(status, attempts) == [status |-> status, attempts |-> attempts]

NoRow == Row("none", 0)

Init ==
  /\ submit = [j \in Jobs |-> "idle"]
  /\ job = [j \in Jobs |-> NoRow]
  /\ stream = <<>> /\ delivered = 0 /\ pending = {} /\ stale = {}
  /\ wpc = [w \in Workers |-> "down"]
  /\ batch = [w \in Workers |-> <<>>]
  /\ copy = [w \in Workers |-> NoRow]
  /\ stops = 0
  /\ claims = [j \in Jobs |-> 0]
  /\ overlapped = {} /\ dropped = {}

Current(w) == stream[Head(batch[w])]

Holds(w, i) == i \in ToSet(batch[w])

XAdd(j) == stream' = Append(stream, j)

----------------------------------------------------------------------------
(* Submission *)

Submission(j, from, to) == submit[j] = from /\ submit' = [submit EXCEPT ![j] = to]

CreateRecord(j) ==
  /\ Submission(j, "idle", "created")
  /\ job' = [job EXCEPT ![j] = Row("QUEUED", 0)]
  /\ UNCHANGED <<redis, wpc, batch, copy, history>>

Enqueue(j) ==
  /\ Submission(j, "created", "done")
  /\ XAdd(j)
  /\ UNCHANGED <<job, delivered, pending, stale, wpc, batch, copy, history>>

\* enqueue raises; the message may be in the stream all the same.
EnqueueRaises(j) ==
  /\ Submission(j, "created", "failing")
  /\ XAdd(j) \/ UNCHANGED stream
  /\ UNCHANGED <<job, delivered, pending, stale, wpc, batch, copy, history>>

MarkJobFailed(j) ==
  /\ Submission(j, "failing", "done")
  /\ job' = [job EXCEPT ![j].status = "FAILED"]
  /\ UNCHANGED <<redis, wpc, batch, copy, history>>

\* The API process dies between two steps of submit_job.
SubmitterDies(j) ==
  /\ submit[j] \in {"created", "failing"}
  /\ Submission(j, submit[j], "dead")
  /\ UNCHANGED <<job, redis, wpc, batch, copy, history>>

----------------------------------------------------------------------------
(* The worker *)

Goto(w, from, to) == wpc[w] = from /\ wpc' = [wpc EXCEPT ![w] = to]

Start(w) == Goto(w, "down", "starting") /\ UNCHANGED <<rows, redis, batch, copy, history>>

Rank(ids, i) == Cardinality({m \in ids : m <= i})

\* The oldest messages of a set, in the order of their ids.
FirstIds(ids) ==
  LET n == IF Cardinality(ids) < BatchSize THEN Cardinality(ids) ELSE BatchSize IN
  [k \in 1 .. n |-> CHOOSE i \in ids : Rank(ids, i) = k]

\* XAUTOCLAIM: the oldest stale messages become this worker's, idle time 0.
ClaimPending(w) ==
  LET ids == ToSet(FirstIds(stale))
      jobs == {stream[i] : i \in ids} IN
  /\ Goto(w, "starting", "next")
  /\ batch' = [batch EXCEPT ![w] = FirstIds(stale)]
  /\ stale' = stale \ ids
  /\ claims' = [j \in Jobs |-> claims[j] + Cardinality({i \in ids : stream[i] = j})]
  /\ overlapped' = overlapped \union
       {stream[i] : i \in {m \in ids : \E v \in Workers \ {w} : Holds(v, m)}}
  /\ UNCHANGED <<rows, stream, delivered, pending, copy, stops, dropped>>

\* XREADGROUP >: messages never delivered to the group.
Read(w) ==
  LET ids == FirstIds(delivered + 1 .. Len(stream)) IN
  /\ wpc[w] = "next" /\ batch[w] = <<>> /\ ids # <<>>
  /\ batch' = [batch EXCEPT ![w] = ids]
  /\ delivered' = delivered + Len(ids)
  /\ pending' = pending \union ToSet(ids)
  /\ UNCHANGED <<rows, stream, stale, wpc, copy, history>>

\* Mutant: a job that has succeeded is executed again.
LoadAlways(w) ==
  /\ batch[w] # <<>>
  /\ Goto(w, "next", "mark")
  /\ copy' = [copy EXCEPT ![w] = job[Current(w)]]
  /\ UNCHANGED <<rows, redis, batch, history>>

\* Mutant: a RUNNING job is left to the worker that is taken to run it.
LoadSkippingRunning(w) ==
  /\ batch[w] # <<>>
  /\ Goto(w, "next", IF job[Current(w)].status \in {"RUNNING", "SUCCEEDED"} THEN "ack" ELSE "mark")
  /\ copy' = [copy EXCEPT ![w] = job[Current(w)]]
  /\ UNCHANGED <<rows, redis, batch, history>>

\* process_message: load the row; a job that has succeeded is only acknowledged.
Load(w) ==
  /\ batch[w] # <<>>
  /\ Goto(w, "next", IF job[Current(w)].status = "SUCCEEDED" THEN "ack" ELSE "mark")
  /\ copy' = [copy EXCEPT ![w] = job[Current(w)]]
  /\ UNCHANGED <<rows, redis, batch, history>>

\* The ORM writes the columns that differ from what was loaded: a row loaded
\* as RUNNING keeps the status another worker may have given it since.
MarkRunning(w) ==
  LET j == Current(w) IN
  /\ Goto(w, "mark", "running")
  /\ copy' = [copy EXCEPT ![w] = Row("RUNNING", @.attempts + 1)]
  /\ job' = [job EXCEPT ![j] = Row(IF copy[w].status = "RUNNING" THEN @.status ELSE "RUNNING",
                                   copy[w].attempts + 1)]
  /\ UNCHANGED <<submit, redis, batch, history>>

\* Commits the status of the copy and turns to the acknowledgement.
Finish(w, status) ==
  /\ Goto(w, "running", "ack")
  /\ copy' = [copy EXCEPT ![w].status = status]
  /\ job' = [job EXCEPT ![Current(w)].status = status]
  /\ UNCHANGED <<submit, redis, batch, history>>

\* Mutant: a status nobody looks for.
SucceedMisnamed(w) == Finish(w, "COMPLETED")

Succeed(w) == Finish(w, "SUCCEEDED")

\* Mutant: retries without counting attempts.
RaiseRetrying(w) == Finish(w, "QUEUED")

Raise(w) == Finish(w, IF copy[w].attempts >= MaxAttempts THEN "FAILED" ELSE "QUEUED")

\* The message is done with and the session of process_message closed.
Drop(w) ==
  /\ batch' = [batch EXCEPT ![w] = Tail(@)]
  /\ copy' = [copy EXCEPT ![w] = NoRow]

\* Mutant: the message is acknowledged and never enqueued again.
AcknowledgeOnly(w) ==
  /\ Goto(w, "ack", "next")
  /\ pending' = pending \ {Head(batch[w])}
  /\ stale' = stale \ {Head(batch[w])}
  /\ Drop(w)
  /\ UNCHANGED <<rows, stream, delivered, history>>

\* XACK, whatever the outcome; a job to be retried is enqueued afterwards.
Acknowledge(w) ==
  LET retry == copy[w].status = "QUEUED" IN
  /\ Goto(w, "ack", IF retry THEN "requeue" ELSE "next")
  /\ pending' = pending \ {Head(batch[w])}
  /\ stale' = stale \ {Head(batch[w])}
  /\ IF retry THEN UNCHANGED <<batch, copy>> ELSE Drop(w)
  /\ UNCHANGED <<rows, stream, delivered, history>>

Requeue(w) ==
  /\ Goto(w, "requeue", "next")
  /\ XAdd(Current(w))
  /\ Drop(w)
  /\ UNCHANGED <<rows, delivered, pending, stale, history>>

----------------------------------------------------------------------------
(* The environment *)

\* The worker ends: killed, SIGTERM after a message of its batch, or an error
\* that process_message does not handle (its except branch commits without a
\* rollback, and nothing catches a failing Redis command).
Stop(w) ==
  /\ wpc[w] # "down" /\ stops < MaxStops
  /\ wpc' = [wpc EXCEPT ![w] = "down"]
  /\ batch' = [batch EXCEPT ![w] = <<>>]
  /\ copy' = [copy EXCEPT ![w] = NoRow]
  /\ stops' = stops + 1
  /\ dropped' = dropped \union
       {stream[i] : i \in {m \in ToSet(batch[w]) :
                             m \notin pending \/ \E v \in Workers \ {w} : Holds(v, m)}}
  /\ UNCHANGED <<rows, redis, claims, overlapped>>

\* A pending message has been idle for min_idle_ms.
Age(i) ==
  /\ i \in pending \ stale
  /\ stale' = stale \union {i}
  /\ UNCHANGED <<rows, stream, delivered, pending, wpc, batch, copy, history>>

----------------------------------------------------------------------------

SubmitStep(j) == Enqueue(j) \/ EnqueueRaises(j) \/ MarkJobFailed(j)

WorkerStep(w) ==
  \/ Start(w) \/ ClaimPending(w) \/ Read(w)
  \/ Load(w) \/ MarkRunning(w) \/ Succeed(w) \/ Raise(w)
  \/ Acknowledge(w) \/ Requeue(w)

Next ==
  \/ \E j \in Jobs : CreateRecord(j) \/ SubmitStep(j) \/ SubmitterDies(j)
  \/ \E w \in Workers : WorkerStep(w) \/ Stop(w)
  \/ \E i \in pending : Age(i)

Spec == Init /\ [][Next]_vars

\* Workers run and are started again when they end; a job's execution ends.
\* Pending messages become stale, but nothing says before which start of a
\* worker.
FairSpec ==
  /\ Spec
  /\ \A w \in Workers : WF_vars(WorkerStep(w))
  /\ WF_vars(\E i \in pending : Age(i))

----------------------------------------------------------------------------
(* Properties *)

\* The type invariant.
TypeOK ==
  /\ submit \in [Jobs -> {"idle", "created", "failing", "done", "dead"}]
  /\ job \in [Jobs -> [status : {"none", "QUEUED", "RUNNING", "SUCCEEDED", "FAILED"},
                       attempts : Nat]]
  /\ stream \in Seq(Jobs)
  /\ delivered \in 0 .. Len(stream)
  /\ pending \subseteq 1 .. delivered
  /\ stale \subseteq pending
  /\ wpc \in [Workers -> {"down", "starting", "next", "mark", "running", "ack", "requeue"}]
  /\ \A w \in Workers : ToSet(batch[w]) \subseteq 1 .. delivered
  /\ \A w \in Workers : wpc[w] \in {"mark", "running", "ack", "requeue"} => batch[w] # <<>>

Unfinished(j) == job[j].status \in {"QUEUED", "RUNNING"}

Waiting(j) == \E i \in delivered + 1 .. Len(stream) : stream[i] = j

HeldBy(w, j) == \E i \in ToSet(batch[w]) : stream[i] = j

\* A job accepted with 202 and not finished still has a message to be read, a
\* message to be claimed, or a worker on it; the one way to lose it is a worker
\* that ends on a message already acknowledged: between acknowledge and
\* requeue_if_needed, or where two workers had the message.
JobTracked ==
  \A j \in Jobs : submit[j] = "done" /\ Unfinished(j) =>
    \/ Waiting(j)
    \/ \E i \in pending : stream[i] = j
    \/ \E w \in Workers : HeldBy(w, j)
    \/ j \in dropped

\* Every execution past --max-attempts is one that claim_pending delivered
\* again: process_message looks at the attempts after an execution, not before.
AttemptsExplained == \A j \in Jobs : job[j].attempts <= MaxAttempts + claims[j]

\* A job that succeeded is run again only if its message was claimed from a live
\* worker, and reported as failed only then or by a submitter whose enqueue
\* took effect and raised.
SuccessKept ==
  [][\A j \in Jobs : job[j].status = "SUCCEEDED" /\ job'[j].status # "SUCCEEDED"
       => j \in overlapped \/ submit[j] = "failing"]_vars

\* A message nobody works on, which only a later start of a worker can recover.
Orphaned(j) ==
  \E i \in pending : stream[i] = j /\ \A w \in Workers : ~Holds(w, i)

\* An accepted job ends, unless the workers that had it ended first.
JobEndsOrIsOrphaned ==
  \A j \in Jobs : submit[j] = "done" ~> ~Unfinished(j) \/ Orphaned(j) \/ j \in dropped

\* queue.py: "Redis Streams queue with a durable consumer group and crash
\* recovery."  A worker that ends and is started again within min_idle_ms does
\* not claim the message it had, and no running worker ever does.
CrashRecovery == \A j \in Jobs : submit[j] = "done" ~> ~Unfinished(j) \/ j \in dropped
=============================================================================
