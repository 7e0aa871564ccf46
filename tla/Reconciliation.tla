--------------------------- MODULE Reconciliation ---------------------------
(***************************************************************************)
(* The job run_credit_reconciliation (app/jobs.py) while the transactions  *)
(* of CreditTransactions go on.  Its session runs at READ COMMITTED: one   *)
(* statement sums every ledger, then each tenant row is read by a          *)
(* statement of its own, so the two sides of a comparison are of           *)
(* different times.                                                        *)
(***************************************************************************)
EXTENDS CreditTransactions

CONSTANT MaxRuns  \* bound: executions of the job

ASSUME RunsAssumption == MaxRuns \in Nat

VARIABLES
  runs,        \* executions begun
  sums,        \* the ledger sum of each tenant, as the first statement read it
  unchecked,   \* tenants of its result still to be compared
  mismatches,  \* tenants counted as mismatches by the current execution
  moved        \* history: tenants whose ledger changed since the sums were read

jobVars == <<runs, sums, unchecked, mismatches>>
recVars == <<vars, jobVars, moved>>

RecInit ==
  /\ Init
  /\ runs = 0
  /\ sums = [t \in Tenants |-> 0]
  /\ unchecked = {}
  /\ mismatches = {}
  /\ moved = {}

\* Mutant: sums of an earlier execution are kept.
SumLedgersOnce ==
  /\ unchecked = {} /\ runs < MaxRuns
  /\ runs' = runs + 1
  /\ sums' = IF runs = 0 THEN ledger ELSE sums
  /\ unchecked' = {t \in Tenants : status[t] # "absent"}
  /\ mismatches' = {}
  /\ moved' = {}
  /\ UNCHANGED vars

\* SELECT tenant_id, SUM(amount) ... GROUP BY tenant_id: every tenant with a
\* ledger row, which each inserted tenant has.
SumLedgers ==
  /\ unchecked = {} /\ runs < MaxRuns
  /\ runs' = runs + 1
  /\ sums' = ledger
  /\ unchecked' = {t \in Tenants : status[t] # "absent"}
  /\ mismatches' = {}
  /\ moved' = {}
  /\ UNCHANGED vars

\* db.get(Tenant, tenant_id) and the comparison with its sum.
CompareTenant(t) ==
  /\ t \in unchecked
  /\ unchecked' = unchecked \ {t}
  /\ mismatches' = IF balance[t] # sums[t] THEN mismatches \union {t} ELSE mismatches
  /\ UNCHANGED <<vars, runs, sums, moved>>

\* Any transaction of the API goes on meanwhile.
Transact ==
  /\ Next
  /\ moved' = moved \union {t \in Tenants : ledger'[t] # ledger[t]}
  /\ UNCHANGED jobVars

RecNext == Transact \/ SumLedgers \/ \E t \in Tenants : CompareTenant(t)

RecSpec == RecInit /\ [][RecNext]_recVars

\* The type invariant.
RecTypeOK ==
  /\ TypeOK
  /\ runs \in 0 .. MaxRuns
  /\ sums \in [Tenants -> Int]
  /\ unchecked \subseteq Tenants
  /\ mismatches \subseteq Tenants
  /\ moved \subseteq Tenants

\* The accounting is sound at every moment, so whatever the job reports comes
\* from credits that moved between its two reads of a tenant, never from a
\* tenant that was at rest (jobs.py, run_credit_reconciliation).
MismatchMoved == mismatches \subseteq moved
=============================================================================
