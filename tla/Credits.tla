------------------------------ MODULE Credits ------------------------------
(***************************************************************************)
(* What the credit accounting promises: each account has a balance that    *)
(* grants and debits change one at a time, a search never spends credits   *)
(* the account does not have, and a billing event is granted at most once. *)
(* CreditTransactions is the code that keeps the promise.                  *)
(***************************************************************************)
EXTENDS Naturals

CONSTANTS Tenants, Events, EventTenant, EventCredits, OpeningCredits

VARIABLES status, balance, granted

vars == <<status, balance, granted>>

Init ==
  /\ status = [t \in Tenants |-> "absent"]
  /\ balance = [t \in Tenants |-> 0]
  /\ granted = {}

Open(t) ==
  /\ status[t] = "absent"
  /\ status' = [status EXCEPT ![t] = "ACTIVE"]
  /\ balance' = [balance EXCEPT ![t] = OpeningCredits[t]]
  /\ UNCHANGED granted

SetStatus(t) ==
  /\ status[t] # "absent"
  /\ \E st \in {"ACTIVE", "SUSPENDED"} : status' = [status EXCEPT ![t] = st]
  /\ UNCHANGED <<balance, granted>>

Debit(t) ==
  /\ status[t] = "ACTIVE"
  /\ \E n \in 1 .. balance[t] : balance' = [balance EXCEPT ![t] = @ - n]
  /\ UNCHANGED <<status, granted>>

Grant(e) ==
  /\ e \notin granted
  /\ status[EventTenant[e]] = "ACTIVE"
  /\ balance' = [balance EXCEPT ![EventTenant[e]] = @ + EventCredits[e]]
  /\ granted' = granted \union {e}
  /\ UNCHANGED status

Next ==
  \/ \E t \in Tenants : Open(t) \/ SetStatus(t) \/ Debit(t)
  \/ \E e \in Events : Grant(e)

Spec == Init /\ [][Next]_vars
=============================================================================
