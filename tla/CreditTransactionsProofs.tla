---------------------- MODULE CreditTransactionsProofs ----------------------
(***************************************************************************)
(* For any tenants, sessions and events: a transaction that holds the row  *)
(* works on the current balance, so balances equal their ledgers and the   *)
(* transactions implement the abstract specification Credits; and what the *)
(* reconciliation job reports is explained by what moved between its       *)
(* reads.                                                                  *)
(***************************************************************************)
EXTENDS Reconciliation, TLAPS

\* What a transaction knows of its tenant and event at each step.
SessionInv ==
  \A s \in Sessions :
    /\ pc[s] # "idle" => cur[s] \in Tenants
    /\ pc[s] = "provision" => cur[s] = ZylaTenant
    /\ pc[s] \in {"grant", "grantLocked"} => event[s] \in Events /\ cur[s] = EventTenant[event[s]]

\* A row lock belongs to the transaction that works under it.
LockInv ==
  \A t \in Tenants, s \in Sessions : lock[t] = s => pc[s] \in Locked /\ cur[s] = t

\* No credits move before the row exists.
AbsentInv == \A t \in Tenants : status[t] = "absent" => balance[t] = 0 /\ ledger[t] = 0

IInv == TypeOK /\ SessionInv /\ LockInv /\ AbsentInv /\ FreshUnderLock /\ LedgerBalances

\* No tenant exists and no session is open.
LEMMA InitInv == Init => IInv
  BY TenantsAssumption, SessionsAssumption, EventsAssumption, AmountsAssumption
     DEF Init, IInv, TypeOK, SessionInv, LockInv, AbsentInv, FreshUnderLock, LedgerBalances,
         Locked

\* A commit stays in range: a search checks what it read, a grant is refused by
\* the column.
LEMMA TypeStep ==
  ASSUME TypeOK, SessionInv, [Next]_vars
  PROVE  TypeOK'
  <1> USE TenantsAssumption, SessionsAssumption, EventsAssumption, AmountsAssumption
          DEF TypeOK, SessionInv, Locked, tables
  <1>1. ASSUME NEW t \in Tenants, Register(t) PROVE TypeOK'
    BY <1>1 DEF Register, OpenAccount
  <1>2. ASSUME NEW t \in Tenants, SetStatus(t) PROVE TypeOK'
    BY <1>2 DEF SetStatus
  <1>3. ASSUME NEW s \in Sessions, NEW t \in Tenants, StartSearch(s, t) PROVE TypeOK'
    BY <1>3 DEF StartSearch, Begin, Goto
  <1>4. ASSUME NEW s \in Sessions, NEW e \in Events, Deliver(s, e) PROVE TypeOK'
    BY <1>4 DEF Deliver, Begin, Goto
  <1>5. ASSUME NEW s \in Sessions, ZylaLookup(s) PROVE TypeOK'
    BY <1>5 DEF ZylaLookup, Begin, Goto
  <1>6. ASSUME NEW s \in Sessions, ZylaProvision(s) PROVE TypeOK'
    BY <1>6 DEF ZylaProvision, OpenAccount, Return, Goto
  <1>7. ASSUME NEW s \in Sessions, SearchLock(s) PROVE TypeOK'
    BY <1>7 DEF SearchLock, LockTenant, TakeRowLock, Return, Goto
  <1>8. ASSUME NEW s \in Sessions, SearchCommit(s) PROVE TypeOK'
    BY <1>8 DEF SearchCommit, CommitAmount, Return
  <1>9. ASSUME NEW s \in Sessions, SearchRefused(s) PROVE TypeOK'
    BY <1>9 DEF SearchRefused, Rollback, Return
  <1>10. ASSUME NEW s \in Sessions, GrantLock(s) PROVE TypeOK'
    BY <1>10 DEF GrantLock, LockTenant, TakeRowLock, Return, Goto
  <1>11. ASSUME NEW s \in Sessions, GrantCommit(s) PROVE TypeOK'
    BY <1>11 DEF GrantCommit, Insertable, CommitAmount, RecordGrant, Return
  <1>12. ASSUME NEW s \in Sessions, GrantRefused(s) PROVE TypeOK'
    BY <1>12 DEF GrantRefused, Rollback, Return
  <1>13. ASSUME NEW s \in Sessions, Fail(s) PROVE TypeOK'
    BY <1>13 DEF Fail, Rollback, Return
  <1>14. CASE UNCHANGED vars
    BY <1>14 DEF vars
  <1>15. QED
    BY <1>1, <1>2, <1>3, <1>4, <1>5, <1>6, <1>7, <1>8, <1>9, <1>10, <1>11, <1>12, <1>13, <1>14
       DEF Next, SessionStep

\* A transaction keeps its tenant and event until it ends.
LEMMA SessionInvStep ==
  ASSUME TypeOK, SessionInv, [Next]_vars
  PROVE  SessionInv'
  <1> USE TenantsAssumption, SessionsAssumption, EventsAssumption, AmountsAssumption
          DEF TypeOK, SessionInv, Locked, tables
  <1>1. ASSUME NEW t \in Tenants, Register(t) PROVE SessionInv'
    BY <1>1 DEF Register, OpenAccount
  <1>2. ASSUME NEW t \in Tenants, SetStatus(t) PROVE SessionInv'
    BY <1>2 DEF SetStatus
  <1>3. ASSUME NEW s \in Sessions, NEW t \in Tenants, StartSearch(s, t) PROVE SessionInv'
    BY <1>3 DEF StartSearch, Begin, Goto
  <1>4. ASSUME NEW s \in Sessions, NEW e \in Events, Deliver(s, e) PROVE SessionInv'
    BY <1>4 DEF Deliver, Begin, Goto
  <1>5. ASSUME NEW s \in Sessions, ZylaLookup(s) PROVE SessionInv'
    BY <1>5 DEF ZylaLookup, Begin, Goto
  <1>6. ASSUME NEW s \in Sessions, ZylaProvision(s) PROVE SessionInv'
    BY <1>6 DEF ZylaProvision, OpenAccount, Return, Goto
  <1>7. ASSUME NEW s \in Sessions, SearchLock(s) PROVE SessionInv'
    BY <1>7 DEF SearchLock, LockTenant, TakeRowLock, Return, Goto
  <1>8. ASSUME NEW s \in Sessions, SearchCommit(s) PROVE SessionInv'
    BY <1>8 DEF SearchCommit, CommitAmount, Return
  <1>9. ASSUME NEW s \in Sessions, SearchRefused(s) PROVE SessionInv'
    BY <1>9 DEF SearchRefused, Rollback, Return
  <1>10. ASSUME NEW s \in Sessions, GrantLock(s) PROVE SessionInv'
    BY <1>10 DEF GrantLock, LockTenant, TakeRowLock, Return, Goto
  <1>11. ASSUME NEW s \in Sessions, GrantCommit(s) PROVE SessionInv'
    BY <1>11 DEF GrantCommit, Insertable, CommitAmount, RecordGrant, Return
  <1>12. ASSUME NEW s \in Sessions, GrantRefused(s) PROVE SessionInv'
    BY <1>12 DEF GrantRefused, Rollback, Return
  <1>13. ASSUME NEW s \in Sessions, Fail(s) PROVE SessionInv'
    BY <1>13 DEF Fail, Rollback, Return
  <1>14. CASE UNCHANGED vars
    BY <1>14 DEF vars
  <1>15. QED
    BY <1>1, <1>2, <1>3, <1>4, <1>5, <1>6, <1>7, <1>8, <1>9, <1>10, <1>11, <1>12, <1>13, <1>14
       DEF Next, SessionStep

\* A lock is taken only when free, and released by its holder only.
LEMMA LockStep ==
  ASSUME TypeOK, SessionInv, FreshUnderLock, LockInv, [Next]_vars
  PROVE  LockInv'
  <1> USE TenantsAssumption, SessionsAssumption, EventsAssumption, AmountsAssumption
          DEF TypeOK, SessionInv, Locked, tables, FreshUnderLock, LockInv
  <1>1. ASSUME NEW t \in Tenants, Register(t) PROVE LockInv'
    BY <1>1 DEF Register, OpenAccount
  <1>2. ASSUME NEW t \in Tenants, SetStatus(t) PROVE LockInv'
    BY <1>2 DEF SetStatus
  <1>3. ASSUME NEW s \in Sessions, NEW t \in Tenants, StartSearch(s, t) PROVE LockInv'
    BY <1>3 DEF StartSearch, Begin, Goto
  <1>4. ASSUME NEW s \in Sessions, NEW e \in Events, Deliver(s, e) PROVE LockInv'
    BY <1>4 DEF Deliver, Begin, Goto
  <1>5. ASSUME NEW s \in Sessions, ZylaLookup(s) PROVE LockInv'
    BY <1>5 DEF ZylaLookup, Begin, Goto
  <1>6. ASSUME NEW s \in Sessions, ZylaProvision(s) PROVE LockInv'
    BY <1>6 DEF ZylaProvision, OpenAccount, Return, Goto
  <1>7. ASSUME NEW s \in Sessions, SearchLock(s) PROVE LockInv'
    BY <1>7 DEF SearchLock, LockTenant, TakeRowLock, Return, Goto
  <1>8. ASSUME NEW s \in Sessions, SearchCommit(s) PROVE LockInv'
    BY <1>8 DEF SearchCommit, CommitAmount, Return
  <1>9. ASSUME NEW s \in Sessions, SearchRefused(s) PROVE LockInv'
    BY <1>9 DEF SearchRefused, Rollback, Return
  <1>10. ASSUME NEW s \in Sessions, GrantLock(s) PROVE LockInv'
    BY <1>10 DEF GrantLock, LockTenant, TakeRowLock, Return, Goto
  <1>11. ASSUME NEW s \in Sessions, GrantCommit(s) PROVE LockInv'
    BY <1>11 DEF GrantCommit, Insertable, CommitAmount, RecordGrant, Return
  <1>12. ASSUME NEW s \in Sessions, GrantRefused(s) PROVE LockInv'
    BY <1>12 DEF GrantRefused, Rollback, Return
  <1>13. ASSUME NEW s \in Sessions, Fail(s) PROVE LockInv'
    BY <1>13 DEF Fail, Rollback, Return
  <1>14. CASE UNCHANGED vars
    BY <1>14 DEF vars
  <1>15. QED
    BY <1>1, <1>2, <1>3, <1>4, <1>5, <1>6, <1>7, <1>8, <1>9, <1>10, <1>11, <1>12, <1>13, <1>14
       DEF Next, SessionStep

\* Balance and status of a locked row change only by its holder's commit.
LEMMA FreshStep ==
  ASSUME TypeOK, SessionInv, LockInv, FreshUnderLock, [Next]_vars
  PROVE  FreshUnderLock'
  <1> USE TenantsAssumption, SessionsAssumption, EventsAssumption, AmountsAssumption
          DEF TypeOK, SessionInv, Locked, tables, LockInv, FreshUnderLock
  <1>1. ASSUME NEW t \in Tenants, Register(t) PROVE FreshUnderLock'
    BY <1>1 DEF Register, OpenAccount
  <1>2. ASSUME NEW t \in Tenants, SetStatus(t) PROVE FreshUnderLock'
    BY <1>2 DEF SetStatus
  <1>3. ASSUME NEW s \in Sessions, NEW t \in Tenants, StartSearch(s, t) PROVE FreshUnderLock'
    BY <1>3 DEF StartSearch, Begin, Goto
  <1>4. ASSUME NEW s \in Sessions, NEW e \in Events, Deliver(s, e) PROVE FreshUnderLock'
    BY <1>4 DEF Deliver, Begin, Goto
  <1>5. ASSUME NEW s \in Sessions, ZylaLookup(s) PROVE FreshUnderLock'
    BY <1>5 DEF ZylaLookup, Begin, Goto
  <1>6. ASSUME NEW s \in Sessions, ZylaProvision(s) PROVE FreshUnderLock'
    BY <1>6 DEF ZylaProvision, OpenAccount, Return, Goto
  <1>7. ASSUME NEW s \in Sessions, SearchLock(s) PROVE FreshUnderLock'
    BY <1>7 DEF SearchLock, LockTenant, TakeRowLock, Return, Goto
  <1>8. ASSUME NEW s \in Sessions, SearchCommit(s) PROVE FreshUnderLock'
    BY <1>8 DEF SearchCommit, CommitAmount, Return
  <1>9. ASSUME NEW s \in Sessions, SearchRefused(s) PROVE FreshUnderLock'
    BY <1>9 DEF SearchRefused, Rollback, Return
  <1>10. ASSUME NEW s \in Sessions, GrantLock(s) PROVE FreshUnderLock'
    BY <1>10 DEF GrantLock, LockTenant, TakeRowLock, Return, Goto
  <1>11. ASSUME NEW s \in Sessions, GrantCommit(s) PROVE FreshUnderLock'
    BY <1>11 DEF GrantCommit, Insertable, CommitAmount, RecordGrant, Return
  <1>12. ASSUME NEW s \in Sessions, GrantRefused(s) PROVE FreshUnderLock'
    BY <1>12 DEF GrantRefused, Rollback, Return
  <1>13. ASSUME NEW s \in Sessions, Fail(s) PROVE FreshUnderLock'
    BY <1>13 DEF Fail, Rollback, Return
  <1>14. CASE UNCHANGED vars
    BY <1>14 DEF vars
  <1>15. QED
    BY <1>1, <1>2, <1>3, <1>4, <1>5, <1>6, <1>7, <1>8, <1>9, <1>10, <1>11, <1>12, <1>13, <1>14
       DEF Next, SessionStep

\* Every commit adds to the ledger what it adds to the balance, because the
\* balance it read is the current one.
LEMMA LedgerStep ==
  ASSUME TypeOK, SessionInv, LockInv, FreshUnderLock, AbsentInv, LedgerBalances, [Next]_vars
  PROVE  (AbsentInv /\ LedgerBalances)'
  <1> USE TenantsAssumption, SessionsAssumption, EventsAssumption, AmountsAssumption
          DEF TypeOK, SessionInv, Locked, tables, FreshUnderLock, AbsentInv, LedgerBalances
  <1>1. ASSUME NEW t \in Tenants, Register(t) PROVE (AbsentInv /\ LedgerBalances)'
    BY <1>1 DEF Register, OpenAccount
  <1>2. ASSUME NEW t \in Tenants, SetStatus(t) PROVE (AbsentInv /\ LedgerBalances)'
    BY <1>2 DEF SetStatus
  <1>3. ASSUME NEW s \in Sessions, NEW t \in Tenants, StartSearch(s, t) PROVE (AbsentInv /\ LedgerBalances)'
    BY <1>3 DEF StartSearch, Begin, Goto
  <1>4. ASSUME NEW s \in Sessions, NEW e \in Events, Deliver(s, e) PROVE (AbsentInv /\ LedgerBalances)'
    BY <1>4 DEF Deliver, Begin, Goto
  <1>5. ASSUME NEW s \in Sessions, ZylaLookup(s) PROVE (AbsentInv /\ LedgerBalances)'
    BY <1>5 DEF ZylaLookup, Begin, Goto
  <1>6. ASSUME NEW s \in Sessions, ZylaProvision(s) PROVE (AbsentInv /\ LedgerBalances)'
    BY <1>6 DEF ZylaProvision, OpenAccount, Return, Goto
  <1>7. ASSUME NEW s \in Sessions, SearchLock(s) PROVE (AbsentInv /\ LedgerBalances)'
    BY <1>7 DEF SearchLock, LockTenant, TakeRowLock, Return, Goto
  <1>8. ASSUME NEW s \in Sessions, SearchCommit(s) PROVE (AbsentInv /\ LedgerBalances)'
    BY <1>8 DEF SearchCommit, CommitAmount, Return
  <1>9. ASSUME NEW s \in Sessions, SearchRefused(s) PROVE (AbsentInv /\ LedgerBalances)'
    BY <1>9 DEF SearchRefused, Rollback, Return
  <1>10. ASSUME NEW s \in Sessions, GrantLock(s) PROVE (AbsentInv /\ LedgerBalances)'
    BY <1>10 DEF GrantLock, LockTenant, TakeRowLock, Return, Goto
  <1>11. ASSUME NEW s \in Sessions, GrantCommit(s) PROVE (AbsentInv /\ LedgerBalances)'
    BY <1>11 DEF GrantCommit, Insertable, CommitAmount, RecordGrant, Return
  <1>12. ASSUME NEW s \in Sessions, GrantRefused(s) PROVE (AbsentInv /\ LedgerBalances)'
    BY <1>12 DEF GrantRefused, Rollback, Return
  <1>13. ASSUME NEW s \in Sessions, Fail(s) PROVE (AbsentInv /\ LedgerBalances)'
    BY <1>13 DEF Fail, Rollback, Return
  <1>14. CASE UNCHANGED vars
    BY <1>14 DEF vars
  <1>15. QED
    BY <1>1, <1>2, <1>3, <1>4, <1>5, <1>6, <1>7, <1>8, <1>9, <1>10, <1>11, <1>12, <1>13, <1>14
       DEF Next, SessionStep

----------------------------------------------------------------------------
(* The theorems *)

\* The inductive invariant: what a transaction past its row lock read is still
\* so (_persist_lead_search, _apply_billing_event), and the books balance.
THEOREM Invariance == Spec => []IInv
  <1>1. Init => IInv
    BY InitInv
  <1>2. IInv /\ [Next]_vars => IInv'
    BY TypeStep, SessionInvStep, LockStep, FreshStep, LedgerStep DEF IInv
  <1>3. QED
    BY <1>1, <1>2, PTL DEF Spec

\* Balances never leave the range of their column, and never go below zero.
THEOREM TypeCorrect == Spec => []TypeOK
  BY Invariance, PTL DEF IInv

\* SELECT ... FOR UPDATE protects the read-modify-write of the balance.
THEOREM LockProtects == Spec => []FreshUnderLock
  BY Invariance, PTL DEF IInv

\* The balance of a tenant is the sum of its credit_ledger rows.
THEOREM BalanceIsLedger == Spec => []LedgerBalances
  BY Invariance, PTL DEF IInv

\* Every step is one step of the abstract accounting, or none.
LEMMA StepImplements ==
  ASSUME IInv, [Next]_vars
  PROVE  [Promise!Next]_(Promise!vars)
  <1> USE TenantsAssumption, SessionsAssumption, EventsAssumption, AmountsAssumption
          DEF IInv, TypeOK, SessionInv, AbsentInv, Locked, FreshUnderLock, tables
  <1>1. ASSUME NEW t \in Tenants, Register(t) PROVE [Promise!Next]_(Promise!vars)
    <2>1. Promise!Open(t)
      BY <1>1 DEF Register, OpenAccount, Promise!Open
    <2>2. QED
      BY <2>1 DEF Promise!Next
  <1>2. ASSUME NEW t \in Tenants, SetStatus(t) PROVE [Promise!Next]_(Promise!vars)
    <2>1. Promise!SetStatus(t)
      BY <1>2 DEF SetStatus, Promise!SetStatus
    <2>2. QED
      BY <2>1 DEF Promise!Next
  <1>3. ASSUME NEW s \in Sessions, NEW t \in Tenants, StartSearch(s, t) PROVE [Promise!Next]_(Promise!vars)
    BY <1>3 DEF StartSearch, Begin, Goto, Promise!vars
  <1>4. ASSUME NEW s \in Sessions, NEW e \in Events, Deliver(s, e) PROVE [Promise!Next]_(Promise!vars)
    BY <1>4 DEF Deliver, Begin, Goto, Promise!vars
  <1>5. ASSUME NEW s \in Sessions, ZylaLookup(s) PROVE [Promise!Next]_(Promise!vars)
    BY <1>5 DEF ZylaLookup, Begin, Goto, Promise!vars
  <1>6. ASSUME NEW s \in Sessions, ZylaProvision(s) PROVE [Promise!Next]_(Promise!vars)
    <2>1. CASE status[ZylaTenant] = "absent"
      <3>1. Promise!Open(ZylaTenant)
        BY <1>6, <2>1 DEF ZylaProvision, OpenAccount, Return, Goto, Promise!Open
      <3>2. QED
        BY <3>1 DEF Promise!Next
    <2>2. CASE status[ZylaTenant] # "absent"
      BY <1>6, <2>2 DEF ZylaProvision, OpenAccount, Return, Goto, Promise!vars
    <2>3. QED
      BY <2>1, <2>2
  <1>7. ASSUME NEW s \in Sessions, SearchLock(s) PROVE [Promise!Next]_(Promise!vars)
    BY <1>7 DEF SearchLock, LockTenant, TakeRowLock, Return, Goto, Promise!vars
  <1>8. ASSUME NEW s \in Sessions, SearchCommit(s) PROVE [Promise!Next]_(Promise!vars)
    <2>1. cur[s] \in Tenants /\ seen[s] = balance[cur[s]] /\ status[cur[s]] = "ACTIVE"
      BY <1>8 DEF SearchCommit
    <2>2. PICK c \in 0 .. MaxLeads : c <= seen[s] /\ CommitAmount(s, -c)
      BY <1>8 DEF SearchCommit
    <2>3. UNCHANGED <<status, events>>
      BY <1>8 DEF SearchCommit, CommitAmount
    <2>4. CASE c = 0
      BY <2>1, <2>2, <2>3, <2>4 DEF CommitAmount, Promise!vars
    <2>5. CASE c # 0
      <3>1. c \in 1 .. balance[cur[s]] /\ balance' = [balance EXCEPT ![cur[s]] = @ - c]
        <4>1. c \in 1 .. balance[cur[s]]
          BY <2>1, <2>2, <2>5
        <4>2. seen[s] + (-c) = balance[cur[s]] - c
          BY <2>1, <4>1
        <4>3. QED
          BY <2>2, <4>1, <4>2 DEF CommitAmount
      <3>2. Promise!Debit(cur[s])
        BY <2>1, <2>3, <3>1 DEF Promise!Debit
      <3>3. QED
        BY <2>1, <3>2 DEF Promise!Next
    <2>6. QED
      BY <2>4, <2>5
  <1>9. ASSUME NEW s \in Sessions, SearchRefused(s) PROVE [Promise!Next]_(Promise!vars)
    BY <1>9 DEF SearchRefused, Rollback, Return, Promise!vars
  <1>10. ASSUME NEW s \in Sessions, GrantLock(s) PROVE [Promise!Next]_(Promise!vars)
    BY <1>10 DEF GrantLock, LockTenant, TakeRowLock, Return, Goto, Promise!vars
  <1>11. ASSUME NEW s \in Sessions, GrantCommit(s) PROVE [Promise!Next]_(Promise!vars)
    <2>1. /\ event[s] \in Events /\ cur[s] = EventTenant[event[s]] /\ cur[s] \in Tenants
          /\ seen[s] = balance[cur[s]] /\ status[cur[s]] = "ACTIVE"
      BY <1>11 DEF GrantCommit
    <2>2. Promise!Grant(event[s])
      BY <1>11, <2>1 DEF GrantCommit, Insertable, CommitAmount, RecordGrant, Promise!Grant
    <2>3. QED
      BY <2>1, <2>2 DEF Promise!Next
  <1>12. ASSUME NEW s \in Sessions, GrantRefused(s) PROVE [Promise!Next]_(Promise!vars)
    BY <1>12 DEF GrantRefused, Rollback, Return, Promise!vars
  <1>13. ASSUME NEW s \in Sessions, Fail(s) PROVE [Promise!Next]_(Promise!vars)
    BY <1>13 DEF Fail, Rollback, Return, Promise!vars
  <1>14. CASE UNCHANGED vars
    BY <1>14 DEF vars, Promise!vars
  <1>15. QED
    BY <1>1, <1>2, <1>3, <1>4, <1>5, <1>6, <1>7, <1>8, <1>9, <1>10, <1>11, <1>12, <1>13, <1>14
       DEF Next, SessionStep

\* The transactions implement Credits: however they overlap, each takes effect
\* at its commit, on the current balance, and an event is granted once.
THEOREM Refinement == Spec => ImplementsCredits
  <1>1. Init => Promise!Init
    BY DEF Init, Promise!Init
  <1>2. IInv /\ [Next]_vars => [Promise!Next]_(Promise!vars)
    BY StepImplements
  <1>3. QED
    BY <1>1, <1>2, Invariance, PTL DEF Spec, ImplementsCredits, Promise!Spec
----------------------------------------------------------------------------
(* The reconciliation job *)

\* The sum of a tenant that did not move is still its ledger, once read.
JobInv ==
  /\ RecTypeOK
  /\ MismatchMoved
  /\ runs = 0 => unchecked = {}
  /\ runs > 0 => \A t \in Tenants \ moved : sums[t] = ledger[t]

\* The job only reads, and a transaction that changes a ledger is noted in moved.
LEMMA JobStep ==
  ASSUME IInv, JobInv, IInv', [RecNext]_recVars
  PROVE  JobInv'
  <1> USE RunsAssumption DEF JobInv, RecTypeOK, MismatchMoved, jobVars
  <1>1. TypeOK /\ TypeOK' /\ LedgerBalances
    BY DEF IInv
  <1>2. CASE Transact
    BY <1>1, <1>2 DEF Transact, TypeOK
  <1>3. CASE SumLedgers
    BY <1>1, <1>3 DEF SumLedgers, TypeOK, vars, tables
  <1>4. ASSUME NEW t \in Tenants, CompareTenant(t) PROVE JobInv'
    <2>1. t \notin moved => balance[t] = sums[t]
      BY <1>1, <1>4 DEF CompareTenant, LedgerBalances
    <2>2. QED
      BY <1>1, <1>4, <2>1 DEF CompareTenant, vars, tables
  <1>5. CASE UNCHANGED recVars
    BY <1>1, <1>5 DEF recVars, vars, tables
  <1>6. QED
    BY <1>2, <1>3, <1>4, <1>5 DEF RecNext

\* The inductive invariant of run_credit_reconciliation among the transactions.
THEOREM RecInvariance == RecSpec => [](IInv /\ JobInv)
  <1>1. RecInit => IInv /\ JobInv
    BY InitInv, RunsAssumption
       DEF RecInit, JobInv, RecTypeOK, MismatchMoved, IInv
  <1>2. IInv /\ JobInv /\ [RecNext]_recVars => (IInv /\ JobInv)'
    <2>1. [RecNext]_recVars => [Next]_vars
      BY DEF RecNext, recVars, Transact, SumLedgers, CompareTenant
    <2>2. IInv /\ [RecNext]_recVars => IInv'
      BY <2>1, TypeStep, SessionInvStep, LockStep, FreshStep, LedgerStep DEF IInv
    <2>3. QED
      BY <2>2, JobStep
  <1>3. QED
    BY <1>1, <1>2, PTL DEF RecSpec

\* The job never accuses a tenant whose credits did not move between its reads.
THEOREM ReportsExplained == RecSpec => []MismatchMoved
  BY RecInvariance, PTL DEF JobInv

\* The job reads sums of ledgers of tenants, and counts tenants.
THEOREM RecTypeCorrect == RecSpec => []RecTypeOK
  BY RecInvariance, PTL DEF JobInv
=============================================================================
