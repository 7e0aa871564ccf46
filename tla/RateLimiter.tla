----------------------------- MODULE RateLimiter -----------------------------
(***************************************************************************)
(* RedisRateLimiter (app/rate_limit.py) for one rate key: the calls of     *)
(* check, in any number of API processes, and the sorted set their script  *)
(* keeps in Redis.  A call reads the clock of its process and then awaits  *)
(* Redis, which runs the script later, calls in any order.                 *)
(***************************************************************************)
EXTENDS Naturals, FiniteSets, Sequences

CONSTANTS
  Calls,
  Limit,     \* RATE_LIMIT_PER_MINUTE
  Window,    \* window_seconds
  Skew,      \* how far a process' clock may be from that of Redis
  MaxTime    \* bound on the time that passes

ASSUME RateLimiterAssumption ==
  /\ IsFiniteSet(Calls)
  /\ Limit \in Nat \ {0} /\ Window \in Nat \ {0} /\ Skew \in Nat
  /\ MaxTime \in Nat /\ Skew <= MaxTime

VARIABLES
  now,       \* the clock of Redis
  pc,        \* where each call stands
  at,        \* the time each call has read
  members,   \* the sorted set: a member per call, its score is at[c]
  expires,   \* when Redis drops the key
  executed   \* history: the script's executions in their order

vars == <<now, pc, at, members, expires, executed>>

Init ==
  /\ now = Skew
  /\ pc = [c \in Calls |-> "idle"]
  /\ at = [c \in Calls |-> 0]
  /\ members = {} /\ expires = 0
  /\ executed = <<>>

Stored == IF now < expires THEN members ELSE {}

\* Mutant: a call of exactly one window ago still counts.
EvictBefore(S, t) == {d \in S : at[d] + Window >= t}

\* ZREMRANGEBYSCORE key 0 now-window.
Evict(S, t) == {d \in S : at[d] + Window > t}

\* Mutant: the wait until the newest call leaves the window.
RetryNewest(S, t) ==
  LET newest == CHOOSE d \in S : \A e \in S : at[e] <= at[d]
      wait   == Window + at[newest] - t
  IN  IF wait < 1 THEN 1 ELSE wait

\* The time until the oldest call leaves the window, at least a second.
RetryAfter(S, t) ==
  LET oldest == CHOOSE d \in S : \A e \in S : at[d] <= at[e]
      wait   == Window + at[oldest] - t
  IN  IF wait < 1 THEN 1 ELSE wait

\* Mutant: EXPIRE key window.
KeyLifeExact == Window

\* EXPIRE key window + 1.
KeyLife == Window + 1

----------------------------------------------------------------------------

\* check reads time.time and awaits the script.
Check(c) ==
  /\ pc[c] = "idle"
  /\ \E t \in (now - Skew)..(now + Skew) : at' = [at EXCEPT ![c] = t]
  /\ pc' = [pc EXCEPT ![c] = "sent"]
  /\ UNCHANGED <<now, members, expires, executed>>

\* The script runs to its end; its answer reaches the call, or the connection
\* fails first.  retry 0 stands for the answer {1, 0}.
Script(c, kept, retry, answer) ==
  /\ members' = IF retry = 0 THEN kept \union {c} ELSE kept
  /\ expires' = now + KeyLife
  /\ executed' = Append(executed, [call |-> c, time |-> now, retry |-> retry])
  /\ \E a \in {answer, "failed"} : pc' = [pc EXCEPT ![c] = a]
  /\ UNCHANGED <<now, at>>

\* Mutant: the comparison is off by one.
AdmitOneMore(c) ==
  LET kept == Evict(Stored, at[c])
  IN  pc[c] = "sent" /\ Cardinality(kept) <= Limit /\ Script(c, kept, 0, "allowed")

Admit(c) ==
  LET kept == Evict(Stored, at[c])
  IN  pc[c] = "sent" /\ Cardinality(kept) < Limit /\ Script(c, kept, 0, "allowed")

\* RateLimitExceeded, which the handler answers with 429.
Refuse(c) ==
  LET kept == Evict(Stored, at[c])
  IN  /\ pc[c] = "sent" /\ Cardinality(kept) >= Limit
      /\ Script(c, kept, RetryAfter(kept, at[c]), "limited")

\* The command never reaches Redis.
Lose(c) ==
  /\ pc[c] = "sent"
  /\ pc' = [pc EXCEPT ![c] = "failed"]
  /\ UNCHANGED <<now, at, members, expires, executed>>

Tick ==
  /\ now < MaxTime /\ now' = now + 1
  /\ UNCHANGED <<pc, at, members, expires, executed>>

Next == Tick \/ \E c \in Calls : Check(c) \/ Admit(c) \/ Refuse(c) \/ Lose(c)

Spec == Init /\ [][Next]_vars

----------------------------------------------------------------------------
(* Properties *)

\* The type invariant.  The set never holds more members than the limit.
TypeOK ==
  /\ now \in 0..MaxTime
  /\ pc \in [Calls -> {"idle", "sent", "allowed", "limited", "failed"}]
  /\ at \in [Calls -> 0..(MaxTime + Skew)]
  /\ members \subseteq Calls /\ Cardinality(members) <= Limit
  /\ expires \in 0..(MaxTime + KeyLife)
  /\ executed \in Seq([call : Calls, time : 0..MaxTime, retry : 0..(Window + MaxTime + Skew)])

Stamp(i) == at[executed[i].call]

\* The script ran for this call in the order of the stamps, and so soon that
\* delay and skew together stay within the extra second of the key's life.
Prompt(i) ==
  /\ \A j \in 1..(i - 1) : Stamp(j) <= Stamp(i)
  /\ executed[i].time + Skew <= Stamp(i) + 1

Admitted == {i \in DOMAIN executed : executed[i].retry = 0}

InWindow(i, t) == Stamp(i) <= t /\ t < Stamp(i) + Window

\* The sliding window: of the calls whose script ran in time, at most Limit
\* are admitted in any Window seconds, although keys expire by another clock
\* than the one the scores are read from and late calls evict members early
\* (the script of RedisRateLimiter).
WindowKept ==
  \A t \in 0..(MaxTime + Skew) :
    Cardinality({i \in Admitted : Prompt(i) /\ InWindow(i, t)}) <= Limit

\* A call is refused only when Limit calls of its window were admitted before
\* it: refused ones use nothing up, and none counts for longer than the window.
RefusalsExplained ==
  \A i \in DOMAIN executed \ Admitted :
    Prompt(i) =>
      Cardinality({j \in Admitted : j < i /\ InWindow(j, Stamp(i))}) >= Limit

\* The retry_after of a refusal is exact: the members stored then leave room
\* for a call that comes so much later, and would not a second before.
RetryExact ==
  \A i \in DOMAIN executed \ Admitted :
    LET Blocking(t) == {j \in Admitted : j < i /\ InWindow(j, t) /\ executed[j].call \in members}
    IN  i = Len(executed) /\ Prompt(i) =>
          /\ Cardinality(Blocking(Stamp(i) + executed[i].retry)) < Limit
          /\ Cardinality(Blocking(Stamp(i) + executed[i].retry - 1)) >= Limit
=============================================================================
