------------------------ MODULE CreditTransactions ------------------------
(***************************************************************************)
(* The database transactions that open accounts and move credits:          *)
(* register and _apply_billing_event (app/main.py), ensure_zyla_tenant     *)
(* (app/zyla.py) and _persist_lead_search (app/search_service.py), run     *)
(* concurrently by the threads of any number of API processes.             *)
(*                                                                         *)
(* The ORM computes a new balance in Python from the row it read, so a     *)
(* transaction holds a copy (seen) of the balance and writes it back.      *)
(* SELECT ... FOR UPDATE locks the row until commit or rollback; an insert *)
(* that breaks a unique constraint or a column limit fails the whole       *)
(* transaction.  A transaction's writes become visible at its commit.      *)
(***************************************************************************)
EXTENDS Integers, FiniteSets

CONSTANTS
  Tenants,        \* ids of tenants rows, those not yet inserted included
  ZylaTenant,     \* settings.zyla_tenant_id
  OpeningCredits, \* credits each tenant row is inserted with
  Sessions,       \* threads, each with a database session
  Events,         \* (provider, event_id) pairs of billing webhooks
  EventTenant,    \* the tenant an event credits
  EventCredits,   \* the credits it grants
  Reference,      \* its ledger reference "billing:provider:event_id"
  TooLong,        \* the references longer than credit_ledger.reference_id
  MaxLeads,       \* upper limit of a search's result count
  IntegerMax,     \* largest value of the Integer column credits_balance
  MaxFailures,    \* bound: transactions that end by failure of the environment
  NoSession, NoTenant, NoEvent

ASSUME TenantsAssumption == ZylaTenant \in Tenants /\ NoTenant \notin Tenants
ASSUME SessionsAssumption == NoSession \notin Sessions
ASSUME EventsAssumption ==
  /\ NoEvent \notin Events
  /\ EventTenant \in [Events -> Tenants]
  /\ EventCredits \in [Events -> Nat \ {0}]
ASSUME AmountsAssumption ==
  /\ MaxLeads \in Nat /\ IntegerMax \in Nat /\ MaxFailures \in Nat
  /\ OpeningCredits \in [Tenants -> 0 .. IntegerMax]

VARIABLES
  pc,       \* where each session's transaction stands
  cur,      \* the tenant it works on
  event,    \* the billing event it applies
  seen,     \* the balance it read under the row lock
  status,   \* tenants.status, "absent" before the row exists
  balance,  \* tenants.credits_balance
  lock,     \* the session that holds the lock on the tenant's row
  ledger,   \* sum of the tenant's credit_ledger rows
  refs,     \* reference_id of its billing rows in credit_ledger
  events,   \* rows of billing_events
  failures  \* history: transactions that failed

tables == <<status, balance, ledger, refs, events>>
vars == <<pc, cur, event, seen, tables, lock, failures>>

Locked == {"searchLocked", "grantLocked"}

Init ==
  /\ pc = [s \in Sessions |-> "idle"]
  /\ cur = [s \in Sessions |-> NoTenant]
  /\ event = [s \in Sessions |-> NoEvent]
  /\ seen = [s \in Sessions |-> 0]
  /\ status = [t \in Tenants |-> "absent"]
  /\ balance = [t \in Tenants |-> 0]
  /\ lock = [t \in Tenants |-> NoSession]
  /\ ledger = [t \in Tenants |-> 0]
  /\ refs = [t \in Tenants |-> {}]
  /\ events = {}
  /\ failures = 0

Goto(s, from, to) == pc[s] = from /\ pc' = [pc EXCEPT ![s] = to]

\* The transaction is over, committed or not: the session forgets what it read.
Return(s) ==
  /\ pc' = [pc EXCEPT ![s] = "idle"]
  /\ cur' = [cur EXCEPT ![s] = NoTenant]
  /\ event' = [event EXCEPT ![s] = NoEvent]
  /\ seen' = [seen EXCEPT ![s] = 0]

Begin(s, to, t, e) ==
  /\ Goto(s, "idle", to)
  /\ cur' = [cur EXCEPT ![s] = t]
  /\ event' = [event EXCEPT ![s] = e]
  /\ UNCHANGED <<seen, tables, lock, failures>>

\* Mutant: SELECT without FOR UPDATE.
ReadWithoutLock(s, t) ==
  /\ seen' = [seen EXCEPT ![s] = balance[t]]
  /\ UNCHANGED <<cur, event, tables, lock, failures>>

\* SELECT ... FOR UPDATE grants the lock of a free row and reads its balance.
TakeRowLock(s, t) ==
  /\ lock[t] = NoSession
  /\ lock' = [lock EXCEPT ![t] = s]
  /\ seen' = [seen EXCEPT ![s] = balance[t]]
  /\ UNCHANGED <<cur, event, tables, failures>>

\* Mutant: the status of the locked row is not looked at.
LockAnyTenant(s, from, to) ==
  /\ Goto(s, from, to)
  /\ status[cur[s]] # "absent"
  /\ TakeRowLock(s, cur[s])

\* The SELECT ... FOR UPDATE of a transaction at pc from, and its early return
\* (403 or 404) when the row is missing or the tenant is not active.
LockTenant(s, from, to) ==
  /\ pc[s] = from
  /\ \/ /\ status[cur[s]] = "ACTIVE"
        /\ Goto(s, from, to)
        /\ TakeRowLock(s, cur[s])
     \/ /\ status[cur[s]] # "ACTIVE"
        /\ lock[cur[s]] = NoSession
        /\ Return(s)
        /\ UNCHANGED <<tables, lock, failures>>

\* COMMIT of a transaction that holds the row: the new balance, the ledger row.
CommitAmount(s, amount) ==
  LET t == cur[s] IN
  /\ balance' = [balance EXCEPT ![t] = seen[s] + amount]
  /\ ledger' = [ledger EXCEPT ![t] = @ + amount]
  /\ lock' = [lock EXCEPT ![t] = NoSession]
  /\ Return(s)
  /\ UNCHANGED <<status, failures>>

\* Mutant: the session is returned without ending its transaction.
RollbackKeepingLock(s) == Return(s) /\ UNCHANGED <<tables, lock>>

\* ROLLBACK: nothing written, the row lock released if the session has it.
Rollback(s) ==
  /\ lock' = [t \in Tenants |-> IF lock[t] = s THEN NoSession ELSE lock[t]]
  /\ Return(s)
  /\ UNCHANGED tables

----------------------------------------------------------------------------
(* Accounts *)

OpenAccount(t) ==
  /\ status' = [status EXCEPT ![t] = "ACTIVE"]
  /\ balance' = [balance EXCEPT ![t] = OpeningCredits[t]]
  /\ ledger' = [ledger EXCEPT ![t] = @ + OpeningCredits[t]]
  /\ UNCHANGED <<refs, events, failures>>

\* register: tenant, user and opening ledger row in one transaction.  The id is
\* a fresh UUID, so no other session knows the row before the commit.
Register(t) ==
  /\ t # ZylaTenant /\ status[t] = "absent"
  /\ OpenAccount(t)
  /\ UNCHANGED <<pc, cur, event, seen, lock>>

\* ensure_zyla_tenant, the SELECT by id of a marketplace search.  A refusal,
\* for the status or the slug (module Accounts), leaves the session as it was.
ZylaLookup(s) ==
  /\ status[ZylaTenant] # "SUSPENDED"
  /\ Begin(s, IF status[ZylaTenant] = "ACTIVE" THEN "search" ELSE "provision",
           ZylaTenant, NoEvent)

\* Mutant: the insert is an upsert, which resets the account.
ZylaProvisionUpsert(s) ==
  /\ Goto(s, "provision", "search")
  /\ OpenAccount(ZylaTenant)
  /\ UNCHANGED <<cur, event, seen, lock>>

\* The insert: the row may exist by now, then the primary key refuses it.
ZylaProvision(s) ==
  /\ pc[s] = "provision"
  /\ \/ /\ status[ZylaTenant] = "absent"
        /\ Goto(s, "provision", "search")
        /\ OpenAccount(ZylaTenant)
        /\ UNCHANGED <<cur, event, seen, lock>>
     \/ /\ status[ZylaTenant] # "absent"
        /\ Return(s)
        /\ UNCHANGED <<tables, lock, failures>>

\* An operator suspends or reactivates a tenant (no code under app/ does): an
\* UPDATE of the row, which waits for its lock.
SetStatus(t) ==
  /\ status[t] # "absent" /\ lock[t] = NoSession
  /\ status' = [status EXCEPT ![t] = IF @ = "ACTIVE" THEN "SUSPENDED" ELSE "ACTIVE"]
  /\ UNCHANGED <<pc, cur, event, seen, lock, balance, ledger, refs, events, failures>>

----------------------------------------------------------------------------
(* Searches: _persist_lead_search *)

\* An authenticated tenant's search reaches its transaction.
StartSearch(s, t) ==
  /\ t # ZylaTenant /\ status[t] # "absent"
  /\ Begin(s, "search", t, NoEvent)

SearchLock(s) == LockTenant(s, "search", "searchLocked")

\* Mutant: the balance is not looked at.
SearchCommitOverdrawing(s) ==
  /\ pc[s] = "searchLocked"
  /\ \E n \in 0 .. MaxLeads : CommitAmount(s, -n)
  /\ UNCHANGED <<refs, events>>

\* n leads remain after suppression, scoring and limit; each costs a credit.
SearchCommit(s) ==
  /\ pc[s] = "searchLocked"
  /\ \E n \in 0 .. MaxLeads :
       /\ n <= seen[s]
       /\ CommitAmount(s, -n)
  /\ UNCHANGED <<refs, events>>

\* INSUFFICIENT_CREDITS: more leads than the row has credits.
SearchRefused(s) ==
  /\ pc[s] = "searchLocked"
  /\ MaxLeads > seen[s]
  /\ Rollback(s) /\ UNCHANGED failures

----------------------------------------------------------------------------
(* Billing events: _apply_billing_event *)

\* The webhook arrives, for the first time or again.  The check for a recorded
\* event comes before the row lock; a recorded one is answered DUPLICATE.
Deliver(s, e) == e \notin events /\ Begin(s, "grant", EventTenant[e], e)

GrantLock(s) == LockTenant(s, "grant", "grantLocked")

RecordGrant(s) ==
  /\ events' = events \union {event[s]}
  /\ refs' = [refs EXCEPT ![cur[s]] = @ \union {Reference[event[s]]}]

\* Mutant: no limit on the balance.
InsertableUnbounded(e, t, credit) == e \notin events /\ Reference[e] \notin refs[t]

\* What the database accepts: a new event, a reference that fits its column
\* and is new for the tenant, a balance that fits its column.
Insertable(e, t, credit) ==
  /\ e \notin events
  /\ Reference[e] \notin refs[t] \union TooLong
  /\ credit + EventCredits[e] <= IntegerMax

GrantCommit(s) ==
  /\ pc[s] = "grantLocked"
  /\ Insertable(event[s], cur[s], seen[s])
  /\ CommitAmount(s, EventCredits[event[s]])
  /\ RecordGrant(s)

\* A refused insert raises, and the transaction is rolled back.
GrantRefused(s) ==
  /\ pc[s] = "grantLocked"
  /\ ~Insertable(event[s], cur[s], seen[s])
  /\ Rollback(s) /\ UNCHANGED failures

----------------------------------------------------------------------------
(* The environment *)

\* A database error, a lost connection or a dead process ends a transaction.
Fail(s) ==
  /\ pc[s] # "idle" /\ failures < MaxFailures
  /\ failures' = failures + 1
  /\ Rollback(s)

----------------------------------------------------------------------------

\* The next step of a transaction that has begun.
SessionStep(s) ==
  \/ ZylaProvision(s)
  \/ SearchLock(s) \/ SearchCommit(s) \/ SearchRefused(s)
  \/ GrantLock(s) \/ GrantCommit(s) \/ GrantRefused(s)

Next ==
  \/ \E t \in Tenants : Register(t) \/ SetStatus(t)
  \/ \E s \in Sessions :
       \/ \E t \in Tenants : StartSearch(s, t)
       \/ \E e \in Events : Deliver(s, e)
       \/ ZylaLookup(s) \/ SessionStep(s) \/ Fail(s)

Spec == Init /\ [][Next]_vars

\* A thread goes on with its transaction, the database serves the waiters of a
\* row lock, and the processor redelivers an event until it is answered with
\* success.
FairSpec ==
  /\ Spec
  /\ \A s \in Sessions : WF_vars(SessionStep(s)) /\ SF_vars(GrantLock(s))
  /\ \A e \in Events : SF_vars(\E s \in Sessions : Deliver(s, e))

----------------------------------------------------------------------------
(* Properties *)

\* The type invariant.  No search overdraws an account and no grant leaves the
\* range of the column, whatever the ORM writes back.
TypeOK ==
  /\ pc \in [Sessions -> {"idle", "provision", "search", "grant"} \union Locked]
  /\ cur \in [Sessions -> Tenants \union {NoTenant}]
  /\ event \in [Sessions -> Events \union {NoEvent}]
  /\ seen \in [Sessions -> 0 .. IntegerMax]
  /\ status \in [Tenants -> {"absent", "ACTIVE", "SUSPENDED"}]
  /\ balance \in [Tenants -> 0 .. IntegerMax]
  /\ lock \in [Tenants -> Sessions \union {NoSession}]
  /\ ledger \in [Tenants -> Int]
  /\ events \subseteq Events
  /\ failures \in Nat

\* A transaction past its SELECT ... FOR UPDATE owns the row: the balance it
\* read and the status it checked are still the row's when it commits
\* (search_service.py, _persist_lead_search; main.py, _apply_billing_event).
FreshUnderLock ==
  \A s \in Sessions : pc[s] \in Locked =>
    /\ lock[cur[s]] = s
    /\ seen[s] = balance[cur[s]]
    /\ status[cur[s]] = "ACTIVE"

\* The balance of every tenant is the sum of its ledger rows: what the job
\* run_credit_reconciliation (jobs.py) is there to verify.
LedgerBalances == \A t \in Tenants : balance[t] = ledger[t]

\* The transactions implement the abstract accounting: however they overlap,
\* each one takes effect at its commit as one grant or debit of the current
\* balance, and an event is granted once however often it is delivered.
Promise == INSTANCE Credits WITH granted <- events
ImplementsCredits == Promise!Spec

\* README.md: the webhook "grants credits once per provider event".  An event
\* whose tenant stays active, and has room for the credits, is granted in the
\* end, whatever searches, suspensions, failures and refused deliveries come
\* first - unless its ledger reference "billing:provider:event_id" is longer
\* than its column or is that of another event: then no delivery succeeds.
Referable(e) ==
  /\ Reference[e] \notin TooLong
  /\ \A o \in Events \ {e} : EventTenant[o] = EventTenant[e] => Reference[o] # Reference[e]
EventsGranted ==
  \A e \in {e \in Events : Referable(e)} :
    LET t == EventTenant[e] IN
    <>[](status[t] = "ACTIVE" /\ balance[t] + EventCredits[e] <= IntegerMax)
      => <>(e \in events)
=============================================================================
