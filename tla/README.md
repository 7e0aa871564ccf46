# Verification of the lead-generation API

TLA+ modules, TLC runs and TLAPS proofs for the FastAPI service in `app/` and its
worker `scripts/worker.py`. The modules translate the Python source; line numbers
are in `PROJECT.json` (`map`), which also lists the runs, the mutants each property
is tried against, the findings, the hazards and the theorems.

## 1. The system

| Component | State | Operations | Interacts with |
|---|---|---|---|
| Search endpoints (`main.py`: `search_leads`, `_execute_zyla_search`) | none of their own; local variables across awaits | authorise, limit, `get`, `reserve`, search, `put`, `delete` | Redis (idempotency, limiter), provider, database |
| Idempotency store (`idempotency.py`) | one Redis record per key: pending or completed, with TTL | `get`, `reserve` (SET NX, then GET), `put` (SET XX), `delete` | every API process |
| Search transaction (`search_service.py`) | tenants, companies, contacts, leads, searches, ledger, usage | lock tenant, check suppression, score, get-or-create rows, debit, commit | suppressions, credits |
| Credits (`main.py`: `register`, `_apply_billing_event`; `zyla.py`: `ensure_zyla_tenant`) | `tenants.credits_balance`, `credit_ledger`, `billing_events` | open account, grant, debit | payment processor (redelivers), searches |
| Reconciliation and retention (`jobs.py`) | none | sum ledgers, compare tenants; delete old rows | credits |
| Job queue and worker (`jobs.py`, `queue.py`, `scripts/worker.py`) | `background_jobs` rows, Redis stream, the group's pending list | submit, claim, read, execute, acknowledge, requeue | reconciliation, retention |
| Suppression (`main.py`, `privacy.py`) | `suppressions` | create, look up | search transaction |
| Providers (`providers.py`) | none | search: the synthetic fixture, or a licensed source over HTTP | search endpoints |
| Zyla query adapter (`zyla.py`) | none | parse a query, make a payload of it, provision the marketplace tenant | marketplace endpoints, accounts |
| Scoring and selection (`services.py`, `search_service.py`) | none | score a record, filter by minimum, sort, cut at the limit | search transaction, providers |
| Rate limiter (`rate_limit.py`) | sorted set per tenant | `check` | search endpoints |
| Accounts and keys (`main.py`, `security.py`) | tenants, users, api_keys | register, login, create and revoke key, authenticate | all endpoints |
| Sessions (`db.py`) | connection pool | check out, return | all database code |
| Privacy requests, usage, middleware, health, metrics, settings, migrations | none that interacts | conversions, single inserts and reads | |

**What is hard here.** Any number of API processes, each with an event loop and a
thread pool, share Redis and PostgreSQL. A search crosses three systems (Redis,
provider, database) with no common transaction, so a failure or a crash between two
of them leaves them in disagreement. Balances are computed in Python and written
back. Clients retry, payment processors redeliver, Redis delivers a message again.
A worker keeps a private copy of a row across the execution of its job. The
transactions are at READ COMMITTED, so two statements of one report see different
states; slugs and marketplace tenants are looked for in one statement and inserted in a
later one. A query is validated three times over, and its filters are read once by the
provider and once by the scoring. `PROJECT.json` lists these places one by one (`hazards`).

**What makes each component correct.**

- Idempotency: one key is charged once, a replay is the response of the charged
  call, a key is never blocked without cause, every call ends.
- Credits: no lost update, balance = ledger sum, never overdrawn, an event granted
  once and in the end, no debit of a suspended tenant.
- Reconciliation: reports a tenant only if its books are wrong.
- Jobs: an accepted job is not lost, ends, is not run again after success, is tried
  at most `--max-attempts` times.
- Rate limiter: at most the limit in any window, refused only then, an exact wait.
- Sessions: no request waits for ever for a connection another waiter holds.
- Accounts: one tenant per slug, whoever was told so is registered and can log in, a
  revoked key ends, everyone gets their account in the end.
- Selection: no layer of validation lets through what the next one refuses, a matched
  record is scored as matched, the answer holds the best records; faults of Redis and the
  database apart, only a request id too long for its column, a record that cannot be scored,
  or a chosen one that cannot be stored, answered or dated fails a search.
- Lead store: rows are stored once, a lead combines rows that belong together, a
  suppressed subject is neither stored nor returned.

## 2. Modules

| Module | Models | Composition |
|---|---|---|
| `KeyedSearch` | a search under an `Idempotency-Key`, by any number of processes | its step `Commit` is a transaction of `CreditTransactions` |
| `KeyedSearchProofs` | theorems about it | |
| `Credits` | abstract: accounts that are opened, credited per event, debited | promise of the next |
| `CreditTransactions` | the transactions that change balance and ledger | implements `Credits` |
| `Reconciliation` | the reconciliation job | extends `CreditTransactions`: its steps interleave with all transactions |
| `CreditTransactionsProofs` | theorems about both, the refinement included | extends `Reconciliation` |
| `JobQueue` | submission, stream, workers | |
| `JobQueueProofs` | theorems | |
| `LeadStore` | suppression, stored companies and contacts, leads of one tenant | the data side of the transaction whose credits are in `CreditTransactions` |
| `LeadStoreProofs` | theorems | |
| `RateLimiter` | `RedisRateLimiter`: the script, its callers' clocks, the key's expiry | refuses a call of `KeyedSearch` before it reads its key (`Reject`) |
| `RateLimiterProofs` | theorems | |
| `ConnectionPool` | threads and database connections of one process | holds the sessions the other modules' transactions run in |
| `ConnectionPoolProofs` | theorems | |
| `Accounts` | registration, login, the marketplace tenant, keys and their revocation | the tenants whose credits are in `CreditTransactions` |
| `AccountsProofs` | theorems | |
| `LeadSelection` | one request from its words to the chosen records: validation, matching, scoring, sorting | chooses what `LeadStore` stores and what `KeyedSearch` pays for |
| `LeadSelectionProofs` | theorems | |
| `MC*` | constants for TLC | |

### KeyedSearch

`pc[r]` is the await a call is in: `get`, `reserve`, `recheck` (the second command
of `reserve`), `provider`, `persist`, `put`, `cleanup` (the `except` branch), then one
of the answers. Each Redis command is one step, and it can fail with or without
having taken effect (`ReadFails`, `ReserveFails`, `PutFails`, `CleanupFails`); a
failing `get` or `reserve` leaves the handler, a failing `put` runs the `except`
branch, because that is where the `try` begins and ends. `Crash` is the death of a
process and also the cancellation of a request, which `except Exception` does not
catch. `CommitReplyLost` is `db.commit()` raising after the database committed.
`SearchFails` is everything else that makes `execute_lead_search` raise.

The two handlers differ in the scope of their keys (`SearchKeys`, `ZylaKeys`, disjoint
by prefix) and in their checks before the key is read. A record holds, beside the
state and the fingerprint, the call that wrote it (`by`): for a completed record
this is the response body; for a pending one it is a ghost that Redis does not have.
`charged`, `expiries` and `erased` are history.

### Credits, CreditTransactions

A session is a thread with a database session. `seen` is the balance the ORM read
and from which it computes what it writes. `TakeRowLock` is `SELECT ... FOR UPDATE`:
it waits while another session has the row. An insert that a constraint refuses
raises, and the whole transaction is rolled back: `Insertable` collects the unique
event, the unique reference per tenant, the length of `credit_ledger.reference_id`
and the range of the Integer column. `Deliver` makes the check for a recorded event
before the lock, as the code does. A tenant's opening ledger row is in the same
transaction as the tenant. `SetStatus` is external: nothing in `app/` suspends a
tenant, but the code checks the status, so an operator can. `Credits` knows
status, balance and granted events; the refinement mapping is the identity on
these (`granted <- events`), and locks, copies and ledger are stuttering.

### Reconciliation

`SumLedgers` is the grouped sum, `CompareTenant` each later read of a tenant. `moved`
(history) collects the tenants whose ledger changed since the sum.

### JobQueue

`stream` holds every message ever added; `delivered` is the group's last delivered
id, `pending` its pending entries, `stale` those idle for `min_idle_ms`. A worker's
`batch` is the list a `claim_pending` or `read` returned, `copy` its ORM object: the
session is created with `expire_on_commit=False`, so the copy is never refreshed, and
the ORM writes only columns that changed (`MarkRunning`). `FirstIds` are the ids of a set that
have a rank up to the batch size, in their order, as Redis returns them. `Stop` is any end of a worker
process: a kill, SIGTERM between two messages, or an exception that `run_worker` does
not handle (a Redis error, or the `except` branch of `process_message`, which commits
without a rollback). `claims`, `overlapped` and `dropped` are history.

### LeadStore

One instance is one tenant, since every query filters by `tenant_id`. A record is a
name, a domain (a host, bare or in a URL) and maybe a contact. `normalize_domain` drops
the URL; `Candidates` are the subjects `is_suppressed` looks up, with the domain as
given. `companies` and `contacts` are the committed rows, `newCompanies` and
`newContacts` those an open transaction has flushed. `SelectLeads` stands for minimal
score, sort and limit: any selection in any order. A row's `after` and `given`, and
`before`, are history. Suppressions take no lock and commit between any two steps.

### RateLimiter

Time is in whole seconds of Redis' clock, `now`. `Check` reads the clock of a process,
up to `Skew` off, before it awaits Redis; `Admit` and `Refuse` are the script, atomic in
Redis, whenever it gets there, and the answer may be lost (`Script`); `Lose` is a
command that never arrives. A stored member is its call, its score the call's `at`.
The key's life is counted by Redis (`Stored`, `KeyLife`), the scores by the processes.
In whole seconds the rounding up of the script (`math.ceil`, `rate_limit.py:58`) has nothing to
round: `RetryExact` is about which member a caller waits for, not about fractions of a second.
`executed` is history. A call is `Prompt` if no call with a later time was executed before
it and its delay and skew together stay within the second by which the key outlives
the window. Calls that are not prompt can exceed the window by as many: what the code
promises is about the others.

### ConnectionPool

`own` marks requests whose handler opens its own session (`with SessionLocal()`),
`token` those with a JWT. `shared` is the session of `get_db`: an API key's `commit` gives
its connection back, a JWT's `SELECT` leaves a transaction open and keeps it until the
request is over. One commit is one `Work`: that a handler may commit several times, and
get a connection again, and that a marketplace search has one session more, for
`ensure_zyla_tenant`, adds nothing to what a request holds while it waits.

### Accounts

A row of `tenants` is a tenant with its user. A registration (`reg[r]`) has looked for its
slug and holds one, plain or with a suffix; the insert is a later statement, in one transaction
with the user, the grant and the commit, so `RegisterCommit` is one step that is refused when a slug
is taken or does not fit (`Insertable`). The column is unique: an insert waits for one that is not
yet committed, which is the order of the two steps. `RegisterReplyLost` is a commit whose answer
does not arrive; its client tries again. A suffix is drawn from a UUID and never twice.
`ensure_zyla_tenant` is three statements, and others commit between them: `ZylaLookup`,
`ZylaCheckSlug`, `ZylaInsert`. The lookup refuses a row under another slug (`Misassigned`: the
deployment may start with the row of an earlier one, `EarlierSlugs`) and a tenant that is not active
(`Suspended`); the client of a refused call repeats it. `SetZylaStatus` is external, as
`SetStatus` of `CreditTransactions` is. A login only reads, so it is an operator (`LoginRows`, any of whose rows
the database may return first) and no action. An API key is loaded, its `last_used_at` is
committed, and then the request is served (`LoadKey`, `TouchKey`, `EndCall`); the update writes
that one column. Revoking a revoked key writes nothing and is a stuttering step. `lost` and `admitted`
are history.

### LeadSelection

The stages of one request: `ParseQuery` or `ValidateBody`, a provider, `SelectLeads`,
`BuildAnswer`, or the failure of one of them. `Lower` and `Strip` are tables of the words that
occur; words of more than 100 characters are in `Long`. A record has what scoring reads,
with a gap where a licensed record may have one (`Missing`, `Null`, `Unusable`), and three marks for
what else may raise over it: `texts` (what the suppression check hashes is text), `storable` (the
columns and the response models take its values) and `dated` (`observed_at` is an ISO date). The
fixture is `SyntheticRecords`. `BuildAnswer` is the loop over the chosen records and the insert
into `usage_records`: a record raises there if it has no date, or is not storable and no earlier
search has stored its company and contact (any subset of the chosen ones: rows are in
`LeadStore`). `RequestIdLength` is the middleware's choice of a request id. `OtherPartFails` is a 500
from a part that is not in this module, at any stage; `faulted`, a history variable, remembers it. Scores and filters are operators. `SelectLeads` takes the one arrangement of the
qualified records that `ComesBefore`, Python's stable sort, allows, and cuts it at the limit;
`SyntheticSearch` takes the matching records in the order of the fixture. Suppression, which drops records before
they are scored, is in `LeadStore`.

## 3. Runs

| Run | Instance | Shows |
|---|---|---|
| `keyed_search` | 3 calls, 1 key, 2 payloads, 1 expiry; 306 k states | type invariant, `ChargesExplained`, `OwnerHoldsRecord`, `ReplayFaithful`, `BlockedOnlyByFault`, `CallsEnd` |
| `keyed_search_once` | 2 calls, no expiry | `ChargedOnce` is violated (finding) |
| `credit_transactions` | 2 sessions, a tenant and the Zyla tenant, 4 events, one with a reference too long, 1 failure; 80 k states | type invariant, `FreshUnderLock`, `LedgerBalances`, `ImplementsCredits`, `EventsGranted` |
| `reconciliation` | 2 executions, 2 sessions, 2 events with one reference, a small `IntegerMax`; 981 k states | `RecTypeOK`, `MismatchMoved` |
| `job_queue` | 1 job, 2 workers, 2 attempts, 2 ends of a worker; 904 k states | `JobTracked`, `AttemptsExplained`, `SuccessKept`, `JobEndsOrIsOrphaned` |
| `job_queue_recovery` | 1 job, 1 worker, 1 end | `CrashRecovery` is violated (finding) |
| `lead_store` | 2 searches, 4 records in answers of up to 2, 2 suppressions; 2.8 M states | `StoredOnce`, `LeadsConsistent`, `LeaksExplained` |
| `suppression` | 2 searches, domains as hosts, 1 suppression | `SuppressedNeverReturned` is violated (finding) |
| `connection_pool` | 3 requests, 2 threads, 2 connections; 45 k states | `StallNeedsTokens`, `RequestsEnd` |
| `rate_limiter` | 4 calls, limit 2, window 2 s, skew 1 s, 4 s pass; 2.3 M states | `WindowKept`, `RefusalsExplained`, `RetryExact` |
| `accounts` | 4 registrants, 2 marketplace calls, a key and a call, maybe the row of an earlier deployment; 68 k states | `LoginExplained`, `RevokedEnds`, `EveryoneRegisters`, `MarketServed` |
| `lead_selection` | 1634 pairs of request and provider mode, 9 licensed answers; 29 k states | `QueriesValid`, `FiltersScored`, `BestLeads`, `FailuresExplained` |

**Bounds.** Three calls are an owner, a rival that takes its key over, and a third
that sees the result of both; keys do not interact (no action touches two), so one
key is enough, and one expiry per key gives each way a reservation can be lost. Of
the credits, a session may hold the lock while another waits for it or provisions; the
events are for both tenants, and one of them is delivered while another is being
granted. `EventsGranted` is for events whose references fit and differ and whose credits
fit: of the four, e4 has a reference that does not fit, and fails each time without
holding up the others. Colliding references, and a grant that passes the column (`IntegerMax` is small),
are in the run of the reconciliation, which composes all transactions. Its two
executions show that nothing is kept between them. A job's message is with at
most two workers at a time; two ends of a worker are a crash, a claim and a crash of
the claimer. In the lead store a first search stores what the second finds, or both
race for the lock; the four records have a pair with the same company and job and
different persons, one person at two companies, a URL domain, a missing domain and a
missing contact. Two connections are held by two requests that each need another while
a third waits for its first; more requests only queue behind these. Four calls are one more than two admitted and one that is
late or refused; the window of two seconds has an inside, and the time that passes lets a
key expire and be used again. Of the registrants, two share a name and an email that each spells in two ways, one
takes the marketplace's name, whose slug leaves no room for a suffix, and one has a name that no
column takes; each may lose one answer (`MaxLost`), which gives a second tenant. The earlier deployment's slug is
the one that two registrants want; a row under the configured slug is what each provisioning leaves. One key and one
call suffice, as no action touches two keys or two calls. The requests of the selection vary the
scalars around their limits without filters, the limit with every sort, the filters with each
other (upper and lower case, spaces, words too long), the lengths of the lists around theirs, and the
length of the request id around the middleware's and the column's limit;
the licensed answers have each gap once, records that cannot be stored (among those chosen
or below the limit), ties, and up to four records. The proofs below have no bounds. CHECK_DEADLOCK is off in all runs but
`lead_selection`, whose requests end in `Done`: calls, events and jobs are finitely many, and the
system rests when they are served.

**Fairness.** `KeyedSearch`: a live process goes on with a call (weak fairness of its
next step): the provider client has a timeout (`providers.py`), Redis and the
database answer or break the connection; nothing is owed by clients, crashes or
expiry. `CreditTransactions`: threads go on (weak), the database serves the waiters
of a row lock and does not starve one (strong), and the processor redelivers an
event that was not accepted (strong), which is how webhooks are run; each event gets
its turn on some session. `JobQueue`: workers are restarted and go on, pending
messages become stale in the end (weak); no order between a restart and a message
becoming stale is assumed. `ConnectionPool`: threads run, awaits end by their timeouts, and
SQLAlchemy raises when `pool_timeout` is over (weak, on the step of a request whichever
it is): no order among waiters is assumed. `Accounts`: requests go on and clients repeat what failed (weak on
lookups and refusals); a commit, a check of the slug and an insert that are possible again and again
do not fail or lose their answer each time (strong). Nothing is owed by an operator: a lookup
that is refused now and then may be refused each time it is made, so `MarketServed` excepts a tenant
that is suspended again and again (`[]<>Suspended`). `RateLimiter` and `LeadSelection` have no
liveness to check.

**Findings.** Three places where a doc, docstring or test promises more than the code
does, each with a run that shows it; they are quoted in `PROJECT.json`. For each, a
passing run holds the strongest statement that is true of the code instead:
`ChargesExplained` beside `ChargedOnce`, `JobEndsOrIsOrphaned` beside `CrashRecovery`,
`LeaksExplained` beside `SuppressedNeverReturned`. Other properties name in their exceptions
what the code cannot do: an event whose ledger reference is longer than its column is never
granted (`EventsGranted`), the reconciliation reports a tenant that was debited between its two reads
(`MismatchMoved`), the marketplace is never served if somebody registered its name or its id
has a row under another slug, and not while its tenant is suspended (`MarketServed`), two registrants
with one email make a login ambiguous (`LoginExplained`), and a request id of 101 to 128 characters
passes the middleware and fails the search at its last insert (`FailuresExplained`).

## 4. Proofs

All proofs are for every value of the constants, under the named assumptions of the
modules. They say what a set of parameters is, not how the system behaves: sets of calls and
workers are finite, amounts are in the range of their column, sentinel values are no members,
a domain is a host and whether it is given as a URL (`DomainAssumption`), the clocks are no further
off than the time that is modelled (`Skew <= MaxTime`: it begins at `Skew`), a provider answers
with a list (`CatalogsAssumption`) and the marks for gaps are no values
of the fixture (`FixtureAssumption`); the slugs of the marketplace fit their column
(`AccountsAssumption`).

- `KeyedSearchProofs`. `ChargesExplained` is not inductive: a step that charges must
  know that its key has no other charge unaccounted for. `IInv` adds where a call may
  stand charged (`ControlInv`), who is behind a record - the call that reserved it and
  works or was stopped by a fault, or the charged call whose response it holds
  (`RecordInv`) - and that owners hold their records. `SpendingInv` counts: the calls
  that charged or may still charge under a key are at most its expiries, plus its
  erasures, plus one for a record that is present. A reservation adds such a call and
  the record together; an expiry or an erasure trades the record for a count.
  `Invariance` is proved action by action, the five properties follow.
- `CreditTransactionsProofs`. `IInv` adds that a row lock belongs to a transaction in a
  locked stage that works on that row (`LockInv`), that a transaction works on the
  tenant of its event (`SessionInv`), and that a row not yet inserted has no credits
  (`AbsentInv`). Then the balance in `seen` is current (`LockProtects`), a commit adds the
  same amount to balance and ledger (`BalanceIsLedger`), stays in range
  (`TypeCorrect`) and is a step of `Credits` (`Refinement`): each action maps to
  `Open`, `SetStatus`, `Debit`, `Grant` or a stutter.
  Of the reconciliation it proves that as long as a tenant's ledger has not moved, `sums` is its
  ledger, and by `BalanceIsLedger` its balance: a mismatch has moved (`ReportsExplained`).
- `JobQueueProofs`. `IInv` has four parts. `Base` are the types, with what a worker's place says
  of its batch and its copy. `LiveInv` is `JobTracked` without the messages a worker is about to
  acknowledge for good: with them the acknowledgement itself would break it. `SingleInv` is about a
  job that is not in `overlapped`: its messages that are waiting or pending are at most one
  (`OneKept`), what a worker has is pending (`HeldKept`), with one worker (`OneHolder`), and is the
  last one when it is to be requeued; then nobody executes a job that has succeeded
  (`NotRepeated`), from which `SuccessKept` follows. `AttemptsInv` is a count: the
  executions of a job still to come or to be retried (`Potential`: messages waiting to be read,
  and messages with a worker that has not spent them) are at most one more than its claims, and
  once the attempts are used up, attempts and executions to come together are at most
  `MaxAttempts` and the claims. A read moves a message from one part of `Potential` to the
  other, a requeue moves it back, the beginning of an execution beyond the last attempt moves it to
  the attempts, and a claim raises the bound.
- `LeadStoreProofs`. The three properties compare rows, and the rows another search commits may
  change what a comparison finds. `Locked` says that only the search with the lock on the tenant's
  row has rows of its own, so that a commit adds to what the others see and renumbers nothing
  (`CommitStep`, with `Extends`); then `RowsOK` (each domain and each job title of a company
  once) and `LeadOK` (a lead names rows of its record that belong together) are kept. That a
  record was not suppressed when its search began is in the types: `kept` is a list over
  `Clean(before)` (`Checked`), and every row is one made of such a record (`CompanyRows`,
  `ContactRows`). `SuppressionLeaks` looks back from a row to its `after`.
- `RateLimiterProofs`. A member leaves the sorted set when a script with a stamp a window later
  evicts it, or when the key expires (`Removed`). When a prompt call runs its script neither can
  have happened to a call of its window, so the set holds them all (`Kept`); conversely each
  member was admitted. `WindowHolds` and `RefusalsJust` then compare the executions in a window
  with the members, by functions that take no value twice (`CallsCounted`); the oldest member kept is
  the execution that `RetryIsExact` waits for.
- `AccountsProofs`. `LoginExplained` speaks of the rows under an email and needs to know
  whose they are: `EmailInv` gives each row the normalised email of its owner, `OneTenant` that
  a registrant whose answers all arrived has a tenant if and only if it was told so, and only
  one. That whoever was told so has a row at all is in the types; that a registrant who shares the
  email with nobody is never refused follows from `EmailInv` alone. `OneTenant` is proved per
  registrant (`Counted`): another's row changes nothing
  (`OthersRow`), the own one is the first (`FirstRow`). `RevokedEnds` is inductive with the types:
  no step but `Revoke` writes a status that is not absent, and `LoadKey` loads active keys only.
  The uniqueness of slugs and of the marketplace's row (`TenantsOK`) rests on `RowInserted`; a row
  once usable by its slug stays so, whoever registers (`ServedStep`).
- `ConnectionPoolProofs`. `StallNeedsTokens` needs to know where a request without a JWT may have a
  connection: while it uses the session of `get_db` or is about to close it (`KeysReturn`), never
  where it can be made to wait. `Positions` is inductive by itself. The limits are about
  cardinalities: a step gives a connection, or a thread, to at most one request (`PoolSteps`,
  `ThreadSteps`), and only if one is free. If every request waits, no handler is in a transaction
  and all connections are held by the sessions of JWT requests; if they wait for threads, the
  threads are held by requests that wait for connections (`StallsExplained`).
- `LeadSelectionProofs`. Facts of the operators, for every request and record: what
  `parse_zyla_query` accepts the schema accepts, because its limits are no wider and the settable
  `ZYLA_MAX_LIMIT` is at most 100 (`QueriesSound`); what the synthetic provider can match has full
  marks (`MatchesScored`); scores are bounded (`ScoreBounded`). Of a request's stages: an accepted
  payload satisfies the schema, and synthetic records are matching ones of the fixture
  (`FromFixture`), which can be scored and answered (`FixtureComplete`), so only a licensed
  record can fail a search (`FailuresHaveCauses`). A strict order
  of as many places as there are qualified records lists each of them (`OrderedListsAll`), so the
  part up to the limit leaves out nothing better than what it has (`BestSelected`).

Each invariant and action property of the passing runs is the statement of a theorem. Only
model-checked: the liveness properties (`CallsEnd`, `EventsGranted`, `JobEndsOrIsOrphaned`,
`RequestsEnd`, `EveryoneRegisters`, `MarketServed`), which are out of the prover's reach; that the
constants of the MC modules satisfy the assumptions; and the three violations, which are
counterexamples.

## 5. Not modelled

- `InMemoryIdempotencyStore` and `InMemoryRateLimiter`: for development and tests only.
- The trimming of the stream and `--once`: with the one or two jobs TLC can follow, a trimmed
  stream loses a message by the definition of the step, and a worker that never reads has no
  bound on its claims.
- Retention: it deletes rows of `usage_records`, `searches` and the unused
  `idempotency_records`, which no other code reads for a decision (the counts of
  `/metrics` and of the usage report go down with them).
- Claims and expiry of access tokens, the comparison of the marketplace's bearer token,
  password hashing: a decision on one value, with no state.
- `quality_for`: a percentage that nothing reads. Two concurrent requests for one
  suppression, of which the second fails on the unique constraint with 500 and leaves what was
  asked for. Texts longer than their columns, other than slugs, ledger references, request ids
  and what a record has.
- Privacy requests, usage reports, middleware, error handlers, health, metrics, the validation of settings,
  migrations, scripts: pure I/O and formatting, single inserts and reads.

Two searches of one tenant share its lock but not Redis keys, so
`KeyedSearch` and `CreditTransactions` are kept apart; the commit is their one meeting
point. `Accounts` and `CreditTransactions` both insert tenants: one looks at names and emails, the other at
credits, and no guard of either depends on the other's state but for the status of the
marketplace tenant, which both have and only an operator changes.

## 6. Plan

1. An abstract key, charged and answered at most once between two expiries, as the promise of
   `KeyedSearch`, with the refinement as a theorem; an abstract queue for `JobQueue`.
2. The in-memory store as a second implementation of what `KeyedSearch` needs.
