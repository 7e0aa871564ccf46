------------------------- MODULE RateLimiterProofs -------------------------
(***************************************************************************)
(* Proofs about RateLimiter.  A member leaves the sorted set in two ways   *)
(* only: a script with a stamp a window later evicts it, or the key        *)
(* expires.  Neither can have happened when a prompt call runs its script  *)
(* within the window, so the set holds every admitted call that counts.    *)
(***************************************************************************)
EXTENDS RateLimiter, FiniteSetTheorems, WellFoundedInduction, SequenceTheorems, TLAPS

Execution == [call : Calls, time : 0..MaxTime, retry : 0..(Window + MaxTime + Skew)]

Base ==
  /\ now \in Skew..MaxTime
  /\ pc \in [Calls -> {"idle", "sent", "allowed", "limited", "failed"}]
  /\ at \in [Calls -> 0..(MaxTime + Skew)]
  /\ members \subseteq Calls
  /\ expires \in 0..(MaxTime + KeyLife)
  /\ executed \in Seq(Execution)

\* A call's script runs once, in the order of the clock of Redis and no earlier
\* than the call's own stamp allows; the key lives KeyLife from each.
History ==
  /\ \A c \in Calls : pc[c] = "sent" => at[c] <= now + Skew
  /\ \A i \in DOMAIN executed :
       /\ pc[executed[i].call] \notin {"idle", "sent"}
       /\ Stamp(i) <= executed[i].time + Skew
       /\ executed[i].time <= now
       /\ executed[i].time + KeyLife <= expires
  /\ \A i, j \in DOMAIN executed : executed[i].call = executed[j].call => i = j

\* The script that has removed an admitted call from the set.
Removed(j) ==
  \E k \in DOMAIN executed :
    /\ j < k
    /\ \/ Stamp(j) + Window <= Stamp(k)
       \/ executed[j].time + KeyLife <= executed[k].time

\* The members are admitted calls, and all of them that no script has removed.
MembersInv ==
  /\ \A d \in members : \E j \in Admitted : executed[j].call = d
  /\ \A j \in Admitted : executed[j].call \in members \/ Removed(j)
  /\ Cardinality(members) <= Limit

IInv ==
  /\ Base /\ History /\ MembersInv
  /\ WindowKept /\ RefusalsExplained /\ RetryExact
----------------------------------------------------------------------------
(* Numbers and sets *)

\* A function that takes no value twice has no more arguments than values.
LEMMA Counted ==
  ASSUME NEW S, NEW T, IsFiniteSet(S), IsFiniteSet(T),
         NEW f \in [S -> T], \A x, y \in S : f[x] = f[y] => x = y
  PROVE  Cardinality(S) <= Cardinality(T)
<1>1. Cardinality(S) \in Nat /\ Cardinality(T) \in Nat
  BY FS_CardinalityType
<1>2. ~(Cardinality(T) < Cardinality(S))
  BY FS_PigeonHole
<1> QED BY <1>1, <1>2

\* Of some calls one has the smallest stamp.
LEMMA Oldest ==
  ASSUME NEW S, S # {}, \A d \in S : at[d] \in Nat
  PROVE  \E d \in S : \A e \in S : at[d] <= at[e]
<1> DEFINE T == {at[d] : d \in S}
<1>1. T \subseteq Nat /\ T # {}
  OBVIOUS
<1>2. PICK x \in T : \A y \in T : ~(<<y, x>> \in OpToRel(<, Nat))
  BY <1>1, NatLessThanWellFounded, WFMin
<1>3. \A y \in T : ~(y < x)
  BY <1>1, <1>2 DEF OpToRel
<1>4. \A y \in T : x <= y
  BY <1>1, <1>3
<1>5. PICK d \in S : x = at[d]
  OBVIOUS
<1> QED BY <1>4, <1>5

\* The oldest of the calls S is the one RetryAfter waits for.
LEMMA Retry ==
  ASSUME Base, NEW c \in Calls, NEW S \in SUBSET Calls, S # {},
         \A d \in S : at[d] + Window > at[c]
  PROVE  \E d \in S : /\ \A e \in S : at[d] <= at[e]
                      /\ RetryAfter(S, at[c]) = Window + at[d] - at[c]
                      /\ RetryAfter(S, at[c]) \in 1..(Window + MaxTime + Skew)
<1>1. /\ \A e \in Calls : at[e] \in Nat /\ at[e] <= MaxTime + Skew
      /\ Window \in Nat /\ MaxTime \in Nat /\ Skew \in Nat
  BY RateLimiterAssumption DEF Base
<1> DEFINE oldest == CHOOSE d \in S : \A e \in S : at[d] <= at[e]
<1>2. oldest \in S /\ \A e \in S : at[oldest] <= at[e]
  <2>1. \E d \in S : \A e \in S : at[d] <= at[e]
    BY <1>1, Oldest
  <2> QED BY <2>1
<1>3. RetryAfter(S, at[c]) =
        IF Window + at[oldest] - at[c] < 1 THEN 1 ELSE Window + at[oldest] - at[c]
  BY DEF RetryAfter
<1> HIDE DEF oldest
<1>4. at[oldest] \in Nat /\ at[c] \in Nat /\ at[oldest] + Window > at[c] /\ at[oldest] <= MaxTime + Skew
  BY <1>1, <1>2
<1>5. /\ RetryAfter(S, at[c]) = Window + at[oldest] - at[c]
      /\ RetryAfter(S, at[c]) \in 1..(Window + MaxTime + Skew)
  BY <1>1, <1>3, <1>4
<1> QED BY <1>2, <1>5
----------------------------------------------------------------------------
(* Executions of the script *)

\* What the types and the history say of an execution.
LEMMA ExecutedTypes ==
  ASSUME Base
  PROVE  /\ DOMAIN executed = 1..Len(executed) /\ Len(executed) \in Nat
         /\ IsFiniteSet(DOMAIN executed) /\ IsFiniteSet(Calls) /\ Admitted \subseteq DOMAIN executed
         /\ \A c \in Calls : at[c] \in Nat /\ at[c] <= MaxTime + Skew
         /\ \A i \in DOMAIN executed :
              /\ executed[i].call \in Calls /\ Stamp(i) = at[executed[i].call] /\ Stamp(i) \in Nat
              /\ executed[i].time \in Nat /\ executed[i].time <= MaxTime
              /\ executed[i].retry \in Nat
         /\ now \in Nat /\ expires \in Nat
         /\ Limit \in Nat /\ Limit > 0 /\ Window \in Nat /\ Window > 0 /\ Skew \in Nat
         /\ MaxTime \in Nat /\ KeyLife = Window + 1
<1>1. Limit \in Nat /\ Limit > 0 /\ Window \in Nat /\ Window > 0 /\ Skew \in Nat /\ MaxTime \in Nat
  BY RateLimiterAssumption
<1>2. DOMAIN executed = 1..Len(executed) /\ Len(executed) \in Nat
  BY LenProperties DEF Base
<1>3. IsFiniteSet(DOMAIN executed)
  BY <1>2, FS_Interval
<1>4. \A c \in Calls : at[c] \in Nat /\ at[c] <= MaxTime + Skew
  BY <1>1 DEF Base
<1>5. ASSUME NEW i \in DOMAIN executed
      PROVE  /\ executed[i].call \in Calls /\ Stamp(i) = at[executed[i].call] /\ Stamp(i) \in Nat
             /\ executed[i].time \in Nat /\ executed[i].time <= MaxTime
             /\ executed[i].retry \in Nat
  <2>1. executed[i] \in Execution
    BY <1>2, ElementOfSeq DEF Base
  <2>2. /\ executed[i].call \in Calls /\ executed[i].time \in 0..MaxTime
        /\ executed[i].retry \in 0..(Window + MaxTime + Skew)
    BY <2>1 DEF Execution
  <2> QED BY <1>1, <1>4, <2>2 DEF Stamp
<1>6. now \in Nat /\ expires \in Nat
  BY <1>1 DEF Base
<1> QED BY <1>1, <1>2, <1>3, <1>4, <1>5, <1>6, RateLimiterAssumption DEF Admitted, KeyLife

\* What is in executed stays, with the stamps of its calls.
Grows ==
  /\ DOMAIN executed \subseteq DOMAIN executed'
  /\ \A i \in DOMAIN executed :
       executed'[i] = executed[i] /\ at'[executed[i].call] = at[executed[i].call]

\* What is executed keeps its stamp, and its being prompt.
LEMMA StampsStay ==
  ASSUME Base, Grows, NEW i \in DOMAIN executed
  PROVE  /\ Stamp(i)' = Stamp(i)
         /\ Prompt(i)' <=> Prompt(i)
         /\ \A t : InWindow(i, t)' <=> InWindow(i, t)
         /\ i \in Admitted' <=> i \in Admitted
         /\ executed'[i] = executed[i]
<1>1. \A j \in DOMAIN executed : Stamp(j)' = Stamp(j) /\ executed'[j] = executed[j]
  BY DEF Grows, Stamp
<1>2. 1..(i - 1) \subseteq DOMAIN executed
  BY ExecutedTypes
<1>3. Prompt(i)' <=> Prompt(i)
  BY <1>1, <1>2 DEF Prompt
<1>4. \A t : InWindow(i, t)' <=> InWindow(i, t)
  BY <1>1 DEF InWindow
<1>5. i \in Admitted' <=> i \in Admitted
  BY <1>1 DEF Admitted, Grows
<1> QED BY <1>1, <1>3, <1>4, <1>5

\* A step of which Redis sees nothing but time keeps what is said of executions.
LEMMA QuietStep ==
  ASSUME IInv, Base', Grows, UNCHANGED <<members, executed>>
  PROVE  /\ WindowKept' /\ RefusalsExplained' /\ RetryExact'
         /\ MembersInv'
<1>0. Base /\ Admitted' = Admitted
  BY DEF IInv, Admitted
<1>1. \A i \in DOMAIN executed :
        /\ Stamp(i)' = Stamp(i) /\ (Prompt(i)' <=> Prompt(i))
        /\ \A t : InWindow(i, t)' <=> InWindow(i, t)
  BY <1>0, StampsStay
<1>2. Admitted \subseteq DOMAIN executed
  BY DEF Admitted
<1>3. WindowKept'
  <2>1. ASSUME NEW t \in 0..(MaxTime + Skew)
        PROVE  Cardinality({i \in Admitted' : Prompt(i)' /\ InWindow(i, t)'}) <= Limit
    <3>1. {i \in Admitted' : Prompt(i)' /\ InWindow(i, t)'} = {i \in Admitted : Prompt(i) /\ InWindow(i, t)}
      BY <1>0, <1>1, <1>2
    <3> QED BY <3>1 DEF IInv, WindowKept
  <2> QED BY <2>1 DEF WindowKept
<1>4. RefusalsExplained'
  <2>1. ASSUME NEW i \in DOMAIN executed \ Admitted, Prompt(i)
        PROVE  Cardinality({j \in Admitted' : j < i /\ InWindow(j, Stamp(i))'}) >= Limit
    <3>1. {j \in Admitted' : j < i /\ InWindow(j, Stamp(i))'} = {j \in Admitted : j < i /\ InWindow(j, Stamp(i))}
      BY <1>0, <1>1, <1>2 DEF InWindow
    <3> QED BY <2>1, <3>1 DEF IInv, RefusalsExplained
  <2> QED BY <1>0, <1>1, <2>1 DEF RefusalsExplained
<1>5. RetryExact'
  <2> DEFINE Blocking(i, t) == {j \in Admitted : j < i /\ InWindow(j, t) /\ executed[j].call \in members}
  <2>1. ASSUME NEW i \in DOMAIN executed
        PROVE  \A t : Blocking(i, t)' = Blocking(i, t)
    BY <1>0, <1>1, <1>2
  <2>2. \A i \in DOMAIN executed \ Admitted : i = Len(executed) /\ Prompt(i) =>
          /\ Cardinality(Blocking(i, Stamp(i) + executed[i].retry)) < Limit
          /\ Cardinality(Blocking(i, Stamp(i) + executed[i].retry - 1)) >= Limit
    BY DEF IInv, RetryExact
  <2>3. \A i \in DOMAIN executed \ Admitted : i = Len(executed) /\ Prompt(i)' =>
          /\ Cardinality(Blocking(i, Stamp(i) + executed[i].retry)') < Limit
          /\ Cardinality(Blocking(i, Stamp(i) + executed[i].retry - 1)') >= Limit
    <3> HIDE DEF Blocking
    <3> QED BY <1>1, <2>1, <2>2
  <2> QED BY <1>0, <1>1, <2>3 DEF RetryExact
<1>6. MembersInv'
  BY <1>0, <1>1, <1>2 DEF IInv, MembersInv, Removed
<1> QED BY <1>3, <1>4, <1>5, <1>6

\* Nothing has been executed.
LEMMA InitInv == Init => IInv
<1> SUFFICES ASSUME Init PROVE IInv
  OBVIOUS
<1>1. executed = <<>> /\ members = {} /\ Admitted = {} /\ DOMAIN executed = {}
  BY DEF Init, Admitted
<1>2. Base
  BY RateLimiterAssumption DEF Init, Base, KeyLife
<1>3. History
  BY <1>1 DEF Init, History
<1>4. MembersInv
  BY <1>1, FS_EmptySet, RateLimiterAssumption DEF MembersInv
<1>5. WindowKept
  <2>1. \A t : {i \in Admitted : Prompt(i) /\ InWindow(i, t)} = {}
    BY <1>1
  <2> QED BY <2>1, FS_EmptySet, RateLimiterAssumption DEF WindowKept
<1>6. RefusalsExplained /\ RetryExact
  BY <1>1 DEF RefusalsExplained, RetryExact
<1> QED BY <1>2, <1>3, <1>4, <1>5, <1>6 DEF IInv

\* Time passes, a call reads its clock, or its command is lost.
LEMMA WaitStep ==
  ASSUME IInv, Tick \/ \E c \in Calls : Check(c) \/ Lose(c)
  PROVE  IInv'
<1>0. Base /\ History
  BY DEF IInv
<1>1. UNCHANGED <<members, expires, executed>>
  BY DEF Tick, Check, Lose
<1>2. now' \in Skew..MaxTime /\ now <= now' /\ now \in Nat
  BY <1>0, RateLimiterAssumption DEF Tick, Check, Lose, Base
<1>3. Base' /\ Grows /\ \A c \in Calls : pc'[c] = "sent" => at'[c] <= now' + Skew
  <2>1. CASE Tick
    <3>1. Base' /\ Grows
      BY <1>0, <1>1, <1>2, <2>1 DEF Tick, Base, Grows
    <3>2. \A c \in Calls : pc[c] = "sent" => at[c] <= now + Skew /\ at[c] \in Nat
      BY <1>0, ExecutedTypes DEF History
    <3> QED BY <1>2, <2>1, <3>1, <3>2, RateLimiterAssumption DEF Tick
  <2>2. ASSUME NEW c \in Calls, Check(c)
        PROVE  Base' /\ Grows /\ \A d \in Calls : pc'[d] = "sent" => at'[d] <= now' + Skew
    <3>1. PICK t \in (now - Skew)..(now + Skew) : at' = [at EXCEPT ![c] = t]
      BY <2>2 DEF Check
    <3>2. t \in 0..(MaxTime + Skew) /\ t <= now + Skew
      BY <1>0, RateLimiterAssumption DEF Base
    <3>3. Base'
      BY <1>0, <1>1, <1>2, <2>2, <3>1, <3>2 DEF Check, Base
    <3>4. Grows
      BY <1>0, <1>1, <2>2, <3>1, ExecutedTypes DEF Check, Grows, History, Base
    <3>5. \A d \in Calls : pc'[d] = "sent" => at'[d] <= now' + Skew
      BY <1>0, <2>2, <3>1, <3>2 DEF Check, History, Base
    <3> QED BY <3>3, <3>4, <3>5
  <2>3. ASSUME NEW c \in Calls, Lose(c)
        PROVE  Base' /\ Grows /\ \A d \in Calls : pc'[d] = "sent" => at'[d] <= now' + Skew
    BY <1>0, <1>1, <1>2, <2>3 DEF Lose, Base, Grows, History
  <2> QED BY <2>1, <2>2, <2>3
<1>4. \A c \in Calls : pc[c] \notin {"idle", "sent"} => pc'[c] = pc[c]
  BY <1>0 DEF Tick, Check, Lose, Base
<1>5. History'
  <2>1. ASSUME NEW i \in DOMAIN executed
        PROVE  /\ pc'[executed[i].call] \notin {"idle", "sent"}
               /\ Stamp(i)' <= executed[i].time + Skew
               /\ executed[i].time <= now' /\ executed[i].time + KeyLife <= expires
    <3>1. /\ pc[executed[i].call] \notin {"idle", "sent"} /\ Stamp(i) <= executed[i].time + Skew
          /\ executed[i].time <= now /\ executed[i].time + KeyLife <= expires
      BY <1>0 DEF History
    <3>2. executed[i].call \in Calls /\ executed[i].time \in Nat /\ now' \in Nat
      BY <1>0, <1>2, ExecutedTypes, RateLimiterAssumption
    <3>3. Stamp(i)' = Stamp(i)
      BY <1>0, <1>3, StampsStay
    <3> QED BY <1>2, <1>4, <3>1, <3>2, <3>3
  <2> QED BY <1>0, <1>1, <1>3, <2>1 DEF History, KeyLife
<1>6. WindowKept' /\ RefusalsExplained' /\ RetryExact' /\ MembersInv'
  BY <1>1, <1>3, QuietStep
<1> QED BY <1>3, <1>5, <1>6 DEF IInv

\* The admitted calls whose members a script of call c does not evict.
Counting(c) == {j \in Admitted : Stamp(j) + Window > at[c]}

\* Call c would be prompt if its script ran now.
PromptNow(c) ==
  (\A j \in DOMAIN executed : Stamp(j) <= at[c]) /\ now + Skew <= at[c] + 1

\* Members the script keeps are admitted calls of the window: all of them, if the
\* call is prompt.
LEMMA Kept ==
  ASSUME IInv, NEW c \in Calls, pc[c] = "sent",
         NEW kept, kept = Evict(Stored, at[c])
  PROVE  /\ kept \subseteq members /\ kept \subseteq Calls /\ IsFiniteSet(kept)
         /\ Cardinality(kept) \in Nat /\ Cardinality(kept) <= Limit
         /\ \A d \in kept : at[d] + Window > at[c] /\ \E j \in Counting(c) : executed[j].call = d
         /\ IsFiniteSet(Counting(c))
         /\ PromptNow(c) => \A j \in Counting(c) : executed[j].call \in kept
<1>0. Base /\ History /\ MembersInv
  BY DEF IInv
<1>1. kept \subseteq members /\ kept \subseteq Calls /\ \A d \in kept : at[d] + Window > at[c]
  BY <1>0 DEF Evict, Stored, Base
<1>2. IsFiniteSet(members) /\ IsFiniteSet(kept)
  <2>1. members \in SUBSET Calls /\ kept \in SUBSET members
    BY <1>0, <1>1 DEF Base
  <2>2. IsFiniteSet(members)
    BY <1>0, <2>1, ExecutedTypes, FS_Subset
  <2> QED BY <2>1, <2>2, FS_Subset
<1>3. Cardinality(kept) \in Nat /\ Cardinality(kept) <= Limit
  <2>1. Cardinality(kept) <= Cardinality(members)
    BY <1>1, <1>2, FS_Subset
  <2> QED BY <1>0, <1>2, <2>1, FS_CardinalityType, ExecutedTypes DEF MembersInv
<1>4. ASSUME NEW d \in kept PROVE \E j \in Counting(c) : executed[j].call = d
  <2>1. PICK j \in Admitted : executed[j].call = d
    BY <1>0, <1>1 DEF MembersInv
  <2>2. Stamp(j) = at[d]
    BY <2>1 DEF Stamp
  <2> QED BY <1>1, <2>1, <2>2 DEF Counting
<1>5. IsFiniteSet(Counting(c))
  <2>1. Counting(c) \in SUBSET DOMAIN executed
    BY <1>0, ExecutedTypes DEF Counting
  <2> QED BY <1>0, <2>1, ExecutedTypes, FS_Subset
<1>6. ASSUME PromptNow(c), NEW j \in Counting(c) PROVE executed[j].call \in kept
  <2>1. /\ j \in Admitted /\ j \in DOMAIN executed /\ Stamp(j) + Window > at[c]
        /\ Stamp(j) = at[executed[j].call]
    BY <1>0, ExecutedTypes DEF Counting
  <2>2. now + Skew <= at[c] + 1 /\ Stamp(j) <= executed[j].time + Skew
        /\ executed[j].time + KeyLife <= expires
    BY <1>0, <1>6, <2>1 DEF PromptNow, History
  <2>3. /\ Stamp(j) \in Nat /\ at[c] \in Nat /\ executed[j].time \in Nat /\ now \in Nat
        /\ expires \in Nat /\ Skew \in Nat /\ Window \in Nat /\ KeyLife = Window + 1
    BY <1>0, <2>1, ExecutedTypes
  <2>4. now < executed[j].time + KeyLife /\ now < expires
    BY <2>1, <2>2, <2>3
  <2>5. ~Removed(j)
    <3> SUFFICES ASSUME NEW k \in DOMAIN executed,
                        \/ Stamp(j) + Window <= Stamp(k)
                        \/ executed[j].time + KeyLife <= executed[k].time
                 PROVE  FALSE
      BY DEF Removed
    <3>1. Stamp(k) <= at[c] /\ Stamp(k) \in Nat
      BY <1>0, <1>6, ExecutedTypes DEF PromptNow
    <3>2. executed[k].time <= now /\ executed[k].time \in Nat
      BY <1>0, ExecutedTypes DEF History
    <3> QED BY <2>1, <2>3, <2>4, <3>1, <3>2
  <2>6. executed[j].call \in members
    BY <1>0, <2>1, <2>5 DEF MembersInv
  <2> QED BY <2>1, <2>4, <2>6 DEF Evict, Stored
<1> QED BY <1>1, <1>2, <1>3, <1>4, <1>5, <1>6

\* What the n-th execution of the script records.
Records(c, retry, n) ==
  /\ DOMAIN executed' = DOMAIN executed \union {n} /\ n \notin DOMAIN executed /\ n \in Nat
  /\ n = Len(executed')
  /\ executed'[n] = [call |-> c, time |-> now, retry |-> retry]
  /\ Stamp(n)' = at[c] /\ (Prompt(n)' <=> PromptNow(c))
  /\ Admitted' = IF retry = 0 THEN Admitted \union {n} ELSE Admitted

\* A script adds one execution and keeps types and history.
LEMMA Recorded ==
  ASSUME IInv, NEW c \in Calls, pc[c] = "sent", NEW kept,
         NEW retry \in 0..(Window + MaxTime + Skew), NEW answer \in {"allowed", "limited"},
         Script(c, kept, retry, answer), kept \subseteq Calls,
         NEW n, n = Len(executed) + 1
  PROVE  Base' /\ History' /\ Grows /\ Records(c, retry, n)
<1> DEFINE e == [call |-> c, time |-> now, retry |-> retry]
<1>0. Base /\ History
  BY DEF IInv
<1>1. /\ executed' = Append(executed, e) /\ expires' = now + KeyLife
      /\ members' = IF retry = 0 THEN kept \union {c} ELSE kept
      /\ UNCHANGED <<now, at>>
  BY DEF Script
<1>2. PICK a \in {answer, "failed"} : pc' = [pc EXCEPT ![c] = a]
  BY DEF Script
<1>3. /\ executed \in Seq(Execution) /\ now \in Skew..MaxTime /\ e \in Execution
  <2>1. now \in 0..MaxTime
    BY <1>0, RateLimiterAssumption DEF Base
  <2> QED BY <1>0, <2>1 DEF Base, Execution
<1>4. /\ e.call = c /\ e.time = now /\ e.retry = retry
  OBVIOUS
<1> HIDE DEF e
<1>5. /\ executed' \in Seq(Execution) /\ Len(executed') = Len(executed) + 1
      /\ \A i \in 1..Len(executed) : executed'[i] = executed[i]
      /\ executed'[Len(executed) + 1] = e
  BY <1>1, <1>3, AppendProperties
<1>6. DOMAIN executed' = 1..(Len(executed) + 1) /\ DOMAIN executed = 1..Len(executed) /\ Len(executed) \in Nat
  BY <1>3, <1>5, LenProperties
<1>7. DOMAIN executed' = DOMAIN executed \union {n} /\ n \notin DOMAIN executed /\ n \in Nat
  BY <1>6
<1>8. Grows
  BY <1>1, <1>5, <1>6, <1>7 DEF Grows
<1>9. Base'
  <2>1. expires' \in 0..(MaxTime + KeyLife)
    <3>1. KeyLife \in Nat /\ MaxTime \in Nat /\ Skew \in Nat
      BY RateLimiterAssumption DEF KeyLife
    <3>2. (MaxTime + KeyLife)' = MaxTime + KeyLife
      BY DEF KeyLife
    <3> QED BY <1>1, <1>3, <3>1, <3>2
  <2>2. KeyLife' = KeyLife /\ Execution' = Execution
    BY DEF KeyLife, Execution
  <2>3. members' \subseteq Calls
    BY <1>1
  <2>4. pc' \in [Calls -> {"idle", "sent", "allowed", "limited", "failed"}]
    BY <1>0, <1>2 DEF Base
  <2>5. now' \in Skew..MaxTime /\ at' \in [Calls -> 0..(MaxTime + Skew)]
    BY <1>0, <1>1 DEF Base
  <2> QED BY <1>5, <2>1, <2>2, <2>3, <2>4, <2>5 DEF Base
<1>10. Stamp(n)' = at[c]
  BY <1>1, <1>4, <1>5 DEF Stamp
<1>11. \A i \in DOMAIN executed : Stamp(i)' = Stamp(i)
  BY <1>0, <1>8, StampsStay
<1>12. Prompt(n)' <=> PromptNow(c)
  <2>1. 1..(n - 1) = DOMAIN executed
    BY <1>6
  <2> QED BY <1>1, <1>4, <1>5, <1>10, <1>11, <2>1 DEF Prompt, PromptNow
<1>13. Admitted' = IF retry = 0 THEN Admitted \union {n} ELSE Admitted
  BY <1>4, <1>5, <1>6, <1>7 DEF Admitted
<1>14. \A i \in DOMAIN executed : executed[i].call # c
  BY <1>0 DEF History
<1>15. History'
  <2>1. \A d \in Calls : pc'[d] = "sent" => at'[d] <= now' + Skew
    BY <1>0, <1>1, <1>2 DEF History, Base
  <2>2. ASSUME NEW i \in DOMAIN executed
        PROVE  /\ pc'[executed[i].call] \notin {"idle", "sent"}
               /\ Stamp(i)' <= executed[i].time + Skew
               /\ executed[i].time <= now' /\ executed[i].time + KeyLife <= expires'
    <3>1. /\ pc[executed[i].call] \notin {"idle", "sent"} /\ Stamp(i) <= executed[i].time + Skew
          /\ executed[i].time <= now
      BY <1>0 DEF History
    <3>2. pc'[executed[i].call] = pc[executed[i].call]
      BY <1>0, <1>2, <1>14, ExecutedTypes DEF Base
    <3>3. executed[i].time + KeyLife <= now + KeyLife
      <4>1. executed[i].time \in Nat /\ now \in Nat /\ KeyLife \in Nat
        BY <1>0, ExecutedTypes
      <4> QED BY <3>1, <4>1
    <3> QED BY <1>1, <1>11, <3>1, <3>2, <3>3
  <2>3. /\ pc'[c] \notin {"idle", "sent"} /\ at[c] <= now + Skew
        /\ now <= now /\ now + KeyLife <= expires'
    <3>1. pc'[c] \notin {"idle", "sent"} /\ at[c] <= now + Skew
      BY <1>0, <1>2 DEF History, Base
    <3>2. now \in Nat /\ KeyLife \in Nat
      BY <1>0, ExecutedTypes
    <3> QED BY <1>1, <3>1, <3>2
  <2>4. ASSUME NEW i \in DOMAIN executed'
        PROVE  /\ pc'[executed'[i].call] \notin {"idle", "sent"}
               /\ Stamp(i)' <= executed'[i].time + Skew
               /\ executed'[i].time <= now' /\ executed'[i].time + KeyLife <= expires'
    <3>1. CASE i = n
      BY <1>1, <1>4, <1>5, <1>10, <2>3, <3>1
    <3>2. CASE i \in DOMAIN executed
      BY <1>5, <1>6, <2>2, <3>2
    <3> QED BY <1>7, <3>1, <3>2
  <2>5. ASSUME NEW i \in DOMAIN executed', NEW j \in DOMAIN executed', executed'[i].call = executed'[j].call
        PROVE  i = j
    BY <1>0, <1>4, <1>5, <1>6, <1>7, <1>14, <2>5 DEF History
  <2>6. KeyLife' = KeyLife
    BY DEF KeyLife
  <2> QED BY <2>1, <2>4, <2>5, <2>6 DEF History
<1>16. Records(c, retry, n)
  BY <1>5, <1>6, <1>7, <1>10, <1>12, <1>13 DEF Records, e
<1> QED BY <1>8, <1>9, <1>15, <1>16

\* The set after an execution: what the script evicted is removed.
LEMMA MembersStep ==
  ASSUME IInv, NEW c \in Calls, pc[c] = "sent", NEW kept, kept = Evict(Stored, at[c]),
         NEW retry \in 0..(Window + MaxTime + Skew), NEW answer \in {"allowed", "limited"},
         Script(c, kept, retry, answer), retry = 0 => Cardinality(kept) < Limit
  PROVE  MembersInv'
<1> PICK n : n = Len(executed) + 1
  OBVIOUS
<1>0. Base /\ History /\ MembersInv
  BY DEF IInv
<1>1. /\ kept \subseteq members /\ kept \subseteq Calls /\ IsFiniteSet(kept)
      /\ Cardinality(kept) \in Nat /\ Cardinality(kept) <= Limit
  BY Kept
<1>2. Base' /\ Grows /\ Records(c, retry, n)
  BY <1>1, Recorded
<1>3. members' = IF retry = 0 THEN kept \union {c} ELSE kept
  BY DEF Script
<1>4. \A i \in DOMAIN executed : Stamp(i)' = Stamp(i) /\ executed'[i] = executed[i] /\ i < n
  BY <1>0, <1>2, StampsStay, ExecutedTypes
<1>5. /\ DOMAIN executed' = DOMAIN executed \union {n} /\ Stamp(n)' = at[c]
      /\ executed'[n].call = c /\ executed'[n].time = now
      /\ Admitted' = IF retry = 0 THEN Admitted \union {n} ELSE Admitted
  <2>1. executed'[n] = [call |-> c, time |-> now, retry |-> retry]
    BY <1>2 DEF Records
  <2>2. executed'[n].call = c /\ executed'[n].time = now
    BY <2>1
  <2> QED BY <1>2, <2>2 DEF Records
<1>6. Admitted \subseteq DOMAIN executed
  BY DEF Admitted
<1>7. \A d \in members' : \E j \in Admitted' : executed'[j].call = d
  BY <1>0, <1>1, <1>3, <1>4, <1>5, <1>6 DEF MembersInv
<1>8. ASSUME NEW j \in Admitted' PROVE executed'[j].call \in members' \/ Removed(j)'
  <2>1. CASE j \notin Admitted
    BY <1>3, <1>5, <2>1
  <2>2. CASE j \in Admitted /\ Removed(j)
    BY <1>4, <1>5, <1>6, <2>2 DEF Removed, KeyLife
  <2>3. CASE j \in Admitted /\ executed[j].call \in kept
    BY <1>3, <1>4, <1>6, <2>3
  <2>4. CASE j \in Admitted /\ executed[j].call \in members \ kept
    <3>1. /\ j \in DOMAIN executed /\ Stamp(j) = at[executed[j].call] /\ Stamp(j) \in Nat
          /\ at[c] \in Nat /\ Window \in Nat
      BY <1>0, <1>6, <2>4, ExecutedTypes
    <3>2. CASE now < expires
      <4>1. Stamp(j) + Window <= at[c]
        <5>1. ~(at[executed[j].call] + Window > at[c])
          BY <2>4, <3>2 DEF Evict, Stored
        <5> QED BY <3>1, <5>1
      <4> QED BY <1>4, <1>5, <3>1, <4>1 DEF Removed
    <3>3. CASE ~(now < expires)
      <4>1. executed[j].time + KeyLife <= expires
        BY <1>0, <3>1 DEF History
      <4>2. executed[j].time + KeyLife <= now
        BY <1>0, <3>1, <3>3, <4>1, ExecutedTypes
      <4> QED BY <1>4, <1>5, <3>1, <4>2 DEF Removed, KeyLife
    <3> QED BY <3>2, <3>3
  <2> QED BY <1>0, <2>1, <2>2, <2>3, <2>4 DEF MembersInv
<1>9. Cardinality(members') <= Limit
  <2>1. Cardinality(kept \union {c}) = IF c \in kept THEN Cardinality(kept) ELSE Cardinality(kept) + 1
    BY <1>1, FS_AddElement
  <2>2. Limit \in Nat
    BY RateLimiterAssumption
  <2> QED BY <1>1, <1>3, <2>1, <2>2
<1> QED BY <1>7, <1>8, <1>9 DEF MembersInv

\* Executions are counted by their calls, calls by their executions.
LEMMA CallsCounted ==
  ASSUME IInv, NEW S \in SUBSET DOMAIN executed, NEW C, IsFiniteSet(C)
  PROVE  /\ IsFiniteSet(S) /\ Cardinality(S) \in Nat
         /\ (\A j \in S : executed[j].call \in C) => Cardinality(S) <= Cardinality(C)
         /\ (\A d \in C : \E j \in S : executed[j].call = d) => Cardinality(C) <= Cardinality(S)
<1>0. Base /\ History
  BY DEF IInv
<1>1. IsFiniteSet(S)
  BY <1>0, ExecutedTypes, FS_Subset
<1>2. Cardinality(S) \in Nat
  BY <1>1, FS_CardinalityType
<1>3. ASSUME \A j \in S : executed[j].call \in C PROVE Cardinality(S) <= Cardinality(C)
  <2> DEFINE f == [j \in S |-> executed[j].call]
  <2>1. f \in [S -> C]
    BY <1>3
  <2>2. \A x, y \in S : f[x] = f[y] => x = y
    BY <1>0 DEF History
  <2> HIDE DEF f
  <2> QED BY <1>1, <2>1, <2>2, Counted
<1>4. ASSUME \A d \in C : \E j \in S : executed[j].call = d PROVE Cardinality(C) <= Cardinality(S)
  <2> DEFINE f == [d \in C |-> CHOOSE j \in S : executed[j].call = d]
  <2>1. \A d \in C : f[d] \in S /\ executed[f[d]].call = d
    BY <1>4
  <2>2. f \in [C -> S]
    BY <2>1
  <2>3. \A x, y \in C : f[x] = f[y] => x = y
    BY <2>1
  <2> HIDE DEF f
  <2> QED BY <1>1, <2>2, <2>3, Counted
<1> QED BY <1>1, <1>2, <1>3, <1>4

\* A call is admitted: it is counted in the windows of its stamp, where there
\* were fewer members than the limit.
LEMMA AdmitStep ==
  ASSUME IInv, NEW c \in Calls, Admit(c)
  PROVE  IInv'
<1>0. Base /\ History /\ MembersInv
  BY DEF IInv
<1> PICK kept, n : kept = Evict(Stored, at[c]) /\ n = Len(executed) + 1
  OBVIOUS
<1>1. pc[c] = "sent" /\ Cardinality(kept) < Limit /\ Script(c, kept, 0, "allowed")
  BY DEF Admit
<1>2. 0 \in 0..(Window + MaxTime + Skew) /\ Limit \in Nat
  BY RateLimiterAssumption
<1>3. MembersInv'
  BY <1>1, <1>2, MembersStep
<1>4. /\ kept \subseteq Calls /\ IsFiniteSet(kept) /\ Cardinality(kept) \in Nat
      /\ IsFiniteSet(Counting(c))
      /\ PromptNow(c) => \A j \in Counting(c) : executed[j].call \in kept
  BY <1>1, Kept
<1>5. Base' /\ History' /\ Grows /\ Records(c, 0, n)
  BY <1>1, <1>2, <1>4, Recorded
<1>6. DOMAIN executed' = DOMAIN executed \union {n} /\ n \notin DOMAIN executed /\ n \in Nat /\ n = Len(executed')
  BY <1>5 DEF Records
<1>7. Stamp(n)' = at[c] /\ (Prompt(n)' <=> PromptNow(c))
  BY <1>5 DEF Records
<1>8. Admitted' = Admitted \union {n}
  BY <1>5 DEF Records
<1>9. \A i \in DOMAIN executed :
        /\ Stamp(i)' = Stamp(i) /\ (Prompt(i)' <=> Prompt(i)) /\ executed'[i] = executed[i]
        /\ \A t : InWindow(i, t)' <=> InWindow(i, t)
  BY <1>0, <1>5, StampsStay
<1>10. Admitted \subseteq DOMAIN executed /\ at' = at
  BY <1>1 DEF Admitted, Script
<1>11. WindowKept'
  <2> SUFFICES ASSUME NEW t \in 0..(MaxTime + Skew)
               PROVE  Cardinality({i \in Admitted' : Prompt(i)' /\ InWindow(i, t)'}) <= Limit
    BY DEF WindowKept
  <2> DEFINE old == {i \in Admitted : Prompt(i) /\ InWindow(i, t)}
             new == {i \in Admitted' : Prompt(i)' /\ InWindow(i, t)'}
  <2>1. new = IF Prompt(n)' /\ InWindow(n, t)' THEN old \union {n} ELSE old
    BY <1>6, <1>8, <1>9, <1>10
  <2>2. Cardinality(old) <= Limit
    BY DEF IInv, WindowKept
  <2>3. old \in SUBSET DOMAIN executed
    BY <1>10
  <2>4. ASSUME Prompt(n)', InWindow(n, t)' PROVE Cardinality(old) <= Cardinality(kept)
    <3>1. ASSUME NEW j \in old PROVE j \in Counting(c)
      <4>1. t < Stamp(j) + Window /\ j \in Admitted
        BY DEF InWindow
      <4>2. at[c] <= t
        BY <1>7, <2>4 DEF InWindow
      <4>3. at[c] \in Nat /\ Stamp(j) \in Nat /\ t \in Int /\ Window \in Nat
        BY <1>0, <1>10, <4>1, ExecutedTypes
      <4> QED BY <4>1, <4>2, <4>3 DEF Counting
    <3>2. \A j \in old : executed[j].call \in kept
      BY <1>4, <1>7, <2>4, <3>1
    <3> HIDE DEF old
    <3> QED BY <1>4, <2>3, <3>2, CallsCounted
  <2>5. IsFiniteSet(old) /\ Cardinality(old) \in Nat
    <3> HIDE DEF old
    <3> QED BY <1>4, <2>3, CallsCounted
  <2>6. Cardinality(old \union {n}) <= Cardinality(old) + 1
    <3> HIDE DEF old
    <3>1. Cardinality(old \union {n}) = IF n \in old THEN Cardinality(old) ELSE Cardinality(old) + 1
      BY <2>5, FS_AddElement
    <3> QED BY <2>5, <3>1
  <2>7. IsFiniteSet(old \union {n}) /\ Cardinality(old \union {n}) \in Nat
    <3> HIDE DEF old
    <3> QED BY <2>5, FS_AddElement, FS_CardinalityType
  <2> HIDE DEF old, new
  <2>8. Cardinality(new) <= Limit
    <3>1. CASE Prompt(n)' /\ InWindow(n, t)'
      <4>1. Cardinality(old \union {n}) <= Limit
        BY <1>1, <1>2, <1>4, <2>4, <2>5, <2>6, <2>7, <3>1
      <4> QED BY <2>1, <3>1, <4>1
    <3>2. CASE ~(Prompt(n)' /\ InWindow(n, t)')
      BY <2>1, <2>2, <3>2
    <3> QED BY <3>1, <3>2
  <2> QED BY <2>8 DEF new
<1>12. RefusalsExplained'
  <2> SUFFICES ASSUME NEW i \in DOMAIN executed' \ Admitted', Prompt(i)'
               PROVE  Cardinality({j \in Admitted' : j < i /\ InWindow(j, Stamp(i))'}) >= Limit
    BY DEF RefusalsExplained
  <2>1. i \in DOMAIN executed \ Admitted /\ Prompt(i) /\ Stamp(i)' = Stamp(i)
    BY <1>6, <1>8, <1>9
  <2>2. ~(n < i)
    BY <1>0, <2>1, ExecutedTypes
  <2>3. {j \in Admitted' : j < i /\ InWindow(j, Stamp(i))'} = {j \in Admitted : j < i /\ InWindow(j, Stamp(i))}
    BY <1>0, <1>6, <1>8, <1>9, <1>10, <2>1, <2>2, ExecutedTypes DEF InWindow
  <2> QED BY <2>1, <2>3 DEF IInv, RefusalsExplained
<1>13. RetryExact'
  BY <1>6, <1>8 DEF RetryExact
<1> QED BY <1>3, <1>5, <1>11, <1>12, <1>13 DEF IInv

\* A call is refused: the members kept are executions of its window, and the
\* oldest of them leaves it after the time answered.
LEMMA RefuseStep ==
  ASSUME IInv, NEW c \in Calls, Refuse(c)
  PROVE  IInv'
<1>0. Base /\ History /\ MembersInv
  BY DEF IInv
<1> PICK kept, n, retry :
      kept = Evict(Stored, at[c]) /\ n = Len(executed) + 1 /\ retry = RetryAfter(kept, at[c])
  OBVIOUS
<1>1. pc[c] = "sent" /\ Cardinality(kept) >= Limit /\ Script(c, kept, retry, "limited")
  BY DEF Refuse
<1>2. /\ kept \subseteq Calls /\ IsFiniteSet(kept)
      /\ Cardinality(kept) \in Nat /\ Cardinality(kept) <= Limit
      /\ \A d \in kept : at[d] + Window > at[c] /\ \E j \in Counting(c) : executed[j].call = d
      /\ IsFiniteSet(Counting(c))
  BY <1>1, Kept
<1>3. Limit \in Nat /\ Limit > 0
  BY RateLimiterAssumption
<1>4. kept # {}
  <2>1. Cardinality(kept) # 0
    BY <1>1, <1>2, <1>3
  <2> QED BY <2>1, FS_EmptySet
<1>5. PICK d \in kept : /\ \A e \in kept : at[d] <= at[e]
                        /\ retry = Window + at[d] - at[c]
                        /\ retry \in 1..(Window + MaxTime + Skew)
  BY <1>0, <1>2, <1>4, Retry
<1>6. retry \in 0..(Window + MaxTime + Skew) /\ retry # 0
  BY <1>5, RateLimiterAssumption
<1>7. MembersInv' /\ Base' /\ History' /\ Grows /\ Records(c, retry, n)
  BY <1>1, <1>2, <1>6, MembersStep, Recorded
<1>8. /\ DOMAIN executed' = DOMAIN executed \union {n} /\ n \notin DOMAIN executed /\ n \in Nat
      /\ n = Len(executed') /\ executed'[n].call = c /\ executed'[n].retry = retry
      /\ Stamp(n)' = at[c] /\ (Prompt(n)' <=> PromptNow(c)) /\ Admitted' = Admitted
  BY <1>6, <1>7 DEF Records
<1>9. \A i \in DOMAIN executed :
        /\ Stamp(i)' = Stamp(i) /\ (Prompt(i)' <=> Prompt(i)) /\ executed'[i] = executed[i]
        /\ \A t : InWindow(i, t)' <=> InWindow(i, t)
  BY <1>0, <1>7, StampsStay
<1>10. Admitted \subseteq DOMAIN executed /\ at' = at /\ members' = kept
  BY <1>1, <1>6 DEF Admitted, Script
<1>11. WindowKept'
  <2>1. ASSUME NEW t \in 0..(MaxTime + Skew)
        PROVE  Cardinality({i \in Admitted' : Prompt(i)' /\ InWindow(i, t)'}) <= Limit
    <3>1. {i \in Admitted' : Prompt(i)' /\ InWindow(i, t)'} = {i \in Admitted : Prompt(i) /\ InWindow(i, t)}
      BY <1>8, <1>9, <1>10
    <3> QED BY <3>1 DEF IInv, WindowKept
  <2> QED BY <2>1 DEF WindowKept
\* The stamps of what counts for a prompt call.
<1>12. ASSUME PromptNow(c), NEW j \in Counting(c)
       PROVE  /\ j \in Admitted /\ j < n /\ Stamp(j) \in Nat /\ at[c] \in Nat /\ Window \in Nat
              /\ Stamp(j) <= at[c] /\ at[c] < Stamp(j) + Window /\ Stamp(j) = at[executed[j].call]
              /\ Stamp(j)' = Stamp(j) /\ executed'[j] = executed[j]
  <2>1. j \in Admitted /\ j \in DOMAIN executed /\ Stamp(j) + Window > at[c] /\ Stamp(j) <= at[c]
    BY <1>10, <1>12 DEF Counting, PromptNow
  <2>2. /\ Stamp(j) \in Nat /\ at[c] \in Nat /\ Window \in Nat /\ j < n
        /\ Stamp(j) = at[executed[j].call]
    BY <1>0, <2>1, ExecutedTypes
  <2> QED BY <1>9, <2>1, <2>2
<1>13. RefusalsExplained'
  <2> SUFFICES ASSUME NEW i \in DOMAIN executed' \ Admitted', Prompt(i)'
               PROVE  Cardinality({j \in Admitted' : j < i /\ InWindow(j, Stamp(i))'}) >= Limit
    BY DEF RefusalsExplained
  <2>1. CASE i \in DOMAIN executed
    <3>1. i \in DOMAIN executed \ Admitted /\ Prompt(i) /\ Stamp(i)' = Stamp(i)
      BY <1>8, <1>9, <2>1
    <3>2. {j \in Admitted' : j < i /\ InWindow(j, Stamp(i))'} = {j \in Admitted : j < i /\ InWindow(j, Stamp(i))}
      BY <1>8, <1>9, <1>10, <3>1 DEF InWindow
    <3> QED BY <3>1, <3>2 DEF IInv, RefusalsExplained
  <2>2. CASE i = n
    <3> DEFINE S == {j \in Admitted' : j < i /\ InWindow(j, Stamp(i))'}
    <3>1. S \in SUBSET DOMAIN executed
      BY <1>8, <1>10
    <3>2. \A j \in Counting(c) : j \in S
      BY <1>8, <1>12, <2>2 DEF InWindow
    <3>3. \A e \in kept : \E j \in S : executed[j].call = e
      BY <1>2, <3>2
    <3> HIDE DEF S
    <3>4. Cardinality(kept) <= Cardinality(S) /\ Cardinality(S) \in Nat
      BY <1>2, <3>1, <3>3, CallsCounted
    <3>5. Cardinality(S) >= Limit
      BY <1>1, <1>2, <1>3, <3>4
    <3> QED BY <3>5 DEF S
  <2> QED BY <1>8, <2>1, <2>2
<1>14. RetryExact'
  <2> PICK stamp : stamp = at[c]
    OBVIOUS
  <2> DEFINE Blocking(t) == {j \in Admitted : j < n /\ InWindow(j, t)' /\ executed[j].call \in kept}
  <2>1. ASSUME PromptNow(c)
        PROVE  /\ Cardinality(Blocking(stamp + retry)) < Limit
               /\ Cardinality(Blocking(stamp + retry - 1)) >= Limit
    <3>1. /\ stamp + retry = Window + at[d] /\ stamp + retry - 1 = Window + at[d] - 1
          /\ at[d] \in Nat /\ stamp \in Nat /\ Window \in Nat /\ retry \in Nat /\ retry >= 1
          /\ \A e \in kept : at[e] \in Nat
      <4>1. at[d] \in Nat /\ at[c] \in Nat /\ Window \in Nat /\ MaxTime \in Nat /\ Skew \in Nat
        BY <1>0, <1>2, ExecutedTypes
      <4>2. \A e \in kept : at[e] \in Nat
        BY <1>0, <1>2, ExecutedTypes
      <4> QED BY <1>5, <4>1, <4>2
    <3>2. Cardinality(Blocking(stamp + retry)) < Limit
      <4> DEFINE S == Blocking(stamp + retry)
      <4>1. S \in SUBSET DOMAIN executed
        BY <1>10
      <4>2. ASSUME NEW j \in S PROVE executed[j].call \in kept \ {d}
        <5>1. j \in DOMAIN executed /\ executed[j].call \in kept /\ Window + at[d] < Stamp(j)' + Window
          BY <1>10, <3>1 DEF InWindow
        <5>2. Stamp(j)' = at[executed[j].call] /\ Stamp(j)' \in Nat
          BY <1>0, <1>9, <5>1, ExecutedTypes
        <5> QED BY <3>1, <5>1, <5>2
      <4> HIDE DEF S
      <4>3. IsFiniteSet(kept \ {d}) /\ Cardinality(kept \ {d}) = Cardinality(kept) - 1
        BY <1>2, FS_RemoveElement
      <4>4. Cardinality(S) <= Cardinality(kept \ {d}) /\ Cardinality(S) \in Nat
        BY <4>1, <4>2, <4>3, CallsCounted
      <4>5. Cardinality(S) < Limit
        BY <1>2, <1>3, <4>3, <4>4
      <4> QED BY <4>5 DEF S
    <3>3. Cardinality(Blocking(stamp + retry - 1)) >= Limit
      <4> DEFINE S == Blocking(stamp + retry - 1)
      <4>1. S \in SUBSET DOMAIN executed
        BY <1>10
      <4>2. ASSUME NEW e \in kept PROVE \E j \in S : executed[j].call = e
        <5>1. PICK j \in Counting(c) : executed[j].call = e
          BY <1>2
        <5>2. /\ j \in Admitted /\ j < n /\ Stamp(j)' = at[e] /\ at[e] <= at[c]
          BY <1>12, <2>1, <5>1
        <5>3. at[e] <= stamp + retry - 1 /\ stamp + retry - 1 < at[e] + Window
          <6>1. at[e] \in Nat /\ at[d] <= at[e] /\ at[e] <= stamp
            BY <1>5, <3>1, <5>2
          <6>2. /\ stamp + retry - 1 = Window + at[d] - 1 /\ stamp \in Nat /\ retry \in Nat /\ retry >= 1
                /\ Window \in Nat /\ at[d] \in Nat
            BY <3>1
          <6>3. at[e] <= stamp + retry - 1
            BY <6>1, <6>2
          <6>4. stamp + retry - 1 < at[e] + Window
            BY <6>1, <6>2
          <6> QED BY <6>3, <6>4
        <5> QED BY <5>1, <5>2, <5>3 DEF InWindow
      <4> HIDE DEF S
      <4>3. Cardinality(kept) <= Cardinality(S) /\ Cardinality(S) \in Nat
        BY <1>2, <4>1, <4>2, CallsCounted
      <4>4. Cardinality(S) >= Limit
        BY <1>1, <1>2, <1>3, <4>3
      <4> QED BY <4>4 DEF S
    <3> QED BY <3>2, <3>3
  <2>2. \A t : {j \in Admitted' : j < n /\ InWindow(j, t)' /\ executed'[j].call \in members'} = Blocking(t)
    BY <1>8, <1>9, <1>10
  <2> HIDE DEF Blocking
  <2>3. ASSUME NEW i \in DOMAIN executed' \ Admitted', i = Len(executed'), Prompt(i)'
        PROVE  i = n /\ PromptNow(c) /\ Stamp(i)' = stamp /\ executed'[i].retry = retry
    BY <1>8, <2>3
  <2>4. \A i \in DOMAIN executed' \ Admitted' : i = Len(executed') /\ Prompt(i)' =>
          LET Blocks(t) == {j \in Admitted' : j < i /\ InWindow(j, t)' /\ executed'[j].call \in members'}
          IN  /\ Cardinality(Blocks(stamp + retry)) < Limit
              /\ Cardinality(Blocks(stamp + retry - 1)) >= Limit
    BY <2>1, <2>2, <2>3
  <2> QED BY <2>3, <2>4 DEF RetryExact, InWindow
<1> QED BY <1>7, <1>11, <1>13, <1>14 DEF IInv

\* Every step keeps the invariant.
LEMMA InvStep == IInv /\ [Next]_vars => IInv'
<1> SUFFICES ASSUME IInv, [Next]_vars PROVE IInv'
  OBVIOUS
<1>1. CASE UNCHANGED vars
  <2>1. Base' /\ Grows /\ History'
    BY <1>1 DEF IInv, vars, Base, Grows, History, Stamp, KeyLife
  <2> QED BY <1>1, <2>1, QuietStep DEF IInv, vars
<1>2. CASE Next
  BY <1>2, WaitStep, AdmitStep, RefuseStep DEF Next
<1> QED BY <1>1, <1>2
----------------------------------------------------------------------------
(* The theorems *)

\* Every reachable state of the limiter satisfies it.
THEOREM Invariance == Spec => []IInv
  BY InitInv, InvStep, PTL DEF Spec

\* The sorted set never holds more members than the limit.
THEOREM TypeCorrect == Spec => []TypeOK
<1>1. IInv => TypeOK
  <2> SUFFICES ASSUME IInv PROVE TypeOK
    OBVIOUS
  <2>1. now \in 0..MaxTime
    BY RateLimiterAssumption DEF IInv, Base
  <2> QED BY <2>1 DEF IInv, Base, Execution, MembersInv, TypeOK
<1> QED BY <1>1, Invariance, PTL

\* At most Limit of the calls whose script ran in time are admitted in any
\* Window seconds (RedisRateLimiter.check).
THEOREM WindowHolds == Spec => []WindowKept
<1>1. IInv => WindowKept
  BY DEF IInv
<1> QED BY <1>1, Invariance, PTL

\* A call is refused only after Limit calls of its window were admitted.
THEOREM RefusalsJust == Spec => []RefusalsExplained
<1>1. IInv => RefusalsExplained
  BY DEF IInv
<1> QED BY <1>1, Invariance, PTL

\* The retry_after of a refusal is neither too short nor a second too long.
THEOREM RetryIsExact == Spec => []RetryExact
<1>1. IInv => RetryExact
  BY DEF IInv
<1> QED BY <1>1, Invariance, PTL
=============================================================================
