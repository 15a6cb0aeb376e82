# Fintech Guard in TLA+

TLA+ models of the Fintech Guard backend, of the simulator that attacks it and
of the dashboard that watches it; TLC configurations that check them on small
instances; and machine-checked proofs, for every instance, of every safety property
the passing runs check. Paths below are relative to the
repository (`src/`).

The central question is the one the product is about: a bank's accounts are
debited and held by many concurrent requests and by the auditors who review
what the antifraud rules flagged. Does the money always add up, is a verdict
final, and are dashboards and reports told the truth?

| question | answer | where |
|---|---|---|
| Can an account go below zero, or hold more than it has? | no, proved for any number of sessions | `AlwaysSolvent` |
| Can one request overwrite what another wrote to an account? | no, proved | `NoUpdateIsLost` |
| Is a resolution final, and does it agree with the transaction? | with one auditor yes, proved; **no** with two | `VerdictsAreFinal`, `VerdictIsOnRecord`; `double_review` |
| Is every transaction debited, held, captured or released exactly once? | with one auditor yes, proved; no with two | `FundsAreKept`; `double_review` |
| Do balance and hold equal the sum of the transactions? | with one auditor yes, proved for any number of them; no with two | `BooksReconcile`; `double_review` |
| Is every recorded amount positive? | **no**: one below half a cent is recorded as 0.00 | `zero_amount` |
| Is a fourth 9000 within ten seconds always flagged? | if submissions are screened one at a time, yes, proved; **no** if two overlap, but never more than one approved transaction over the limit is on record, proved for any number of submissions | `OneAtATimeIsExact`, `OneMoreIsAll` |
| Is it flagged without cause? | never without as many *submissions*, proved; but those need not be on record: **retries count** | `AlarmsAreTrue` |
| Does an event reach every dashboard, in order? | yes, if they were there when it began; proved for any number | `EveryoneIsReached`, `OrderIsKept` |
| Can a name be taken twice, or refused for nothing? | no, proved for any number of requests racing for it | `NamesAreKept`, `CreationIsOnRecord`, `RefusalIsJustified` |
| Are tokens and 401s what they should be? | yes, proved | `TokensEarned`, `RefusalsLogged` |
| Can the race-condition attack spend a balance twice, and is its verdict right? | no; right unless an answer was lost; proved with one auditor | `BalanceIsSpentOnce`, `AttackVerdictIsTrue` |
| Does the table of flagged cases show what the backend has? | a listed case keeps its row, a verdict comes from a decision (both proved), what is decided here and stays decided leaves; **no**: a case may be in the queue and never shown, or be shown with a verdict it no longer has | `ListedCasesAreShown`, `VerdictsHaveSources`, `DecidedLeaves`; `announced_is_dropped` |
| Does the simulator's report count what was recorded? | on a network that answers, yes, proved; with timeouts, what is reported as failed or refused may be on record | `ReportsAreTrue`, `StatusesAreTrue`; `failed_is_recorded` |

## 1. Inventory

The system is a FastAPI process (one uvicorn worker, one asyncio event loop),
PostgreSQL, Redis, a React dashboard, and a second FastAPI process that
simulates attacks on the first.

| component | state it keeps | operations that change it | modelled |
|---|---|---|---|
| Transaction service, `services/transactions.py` | none of its own | `submit_transaction` | `Ledger` |
| Audit service, `services/audit.py` | none of its own | `resolve_flagged` | `Ledger` |
| Relational store, `repositories/postgres.py`, `infrastructure/models.py`, `infrastructure/database.py`, `init.sql` | tables account, transaction, flagged_transaction, auth_user, security_logs; row locks; unique indexes; connection pool | versioned UPDATE, INSERTs, SELECT FOR UPDATE, COMMIT, ROLLBACK | the money tables in `Ledger`, the others in `Registry`; not the pool |
| Antifraud service, `services/antifraud.py`, `repositories/redis.py` | one sorted set per account and per IP in Redis, with an expiry | `record_and_check` | `FraudWindow`, and `Screening` for its caller |
| Notification hub, `services/notifications.py`, `/ws` of `main.py` | the set of connected dashboards | connect, disconnect, broadcast | `NotificationHub` |
| Simulator, `simulator/app/` | `sim:{id}` in Redis, a cached token, tasks in flight | fraud, stress, race-condition and expired-token scenarios | fraud and stress in `SimClient`, the race in `RaceAttack` |
| Account registry, `services/accounts.py`, `api/v1/routes.py` | rows of account | create_account | `Registry` |
| Authentication and roles, `services/auth.py`, `api/v1/routes.py`, `api/dependencies.py` | rows of auth_user; tokens are stateless | register, login, require_role | `Registry` |
| Security log, `services/security.py` | append-only rows | one INSERT per refused login or query | `Registry` |
| Dashboard, `frontend/src/` | listing, rows shown, last event, decisions in flight | refetch, event, optimistic decision | the administrator's table in `Dashboard` |
| WebSocket manager, `api/ws_manager.py` | a set of sockets | as the hub's | not: imported by nothing |
| Configuration, logging, deployment, monitoring, integration test | - | - | not: no behaviour of the program |

**How they interact.** An endpoint opens a database transaction
(`session.begin()`), and inside it calls a service. `submit_transaction` reads
the account without a lock, asks antifraud (two awaits of Redis), runs the
versioned UPDATE, INSERTs the transaction and, if it was flagged, the flagged
row, and awaits `notify_flagged` - a send to every dashboard - still inside the
database transaction. `resolve_flagged` reads the flagged row and its
transaction without a lock, locks the account with SELECT FOR UPDATE if its
decision moves money, settles, rewrites the flagged row, commits; the endpoint
then broadcasts the verdict. The simulator calls the endpoints over HTTP and
retries conflicts and timeouts. The dashboard refetches, listens to `/ws`, and
resolves cases optimistically.

**What is hard in it.** Everything interleaves at every await. Sessions meet
on account rows (READ COMMITTED: reads may be stale, updates wait and look
again), flagged rows, Redis keys and the hub's set. Any await may be the last
one of a request: a lost connection, a Redis timeout, a cancelled or killed
process. The order of what clients are told and what is committed differs
between submissions (alert, then COMMIT) and resolutions (COMMIT, then
verdict). Two requests find the same name free. Amounts have more decimals than
columns. Requests are retried without an idempotency key. The dashboard draws one
table from three sources: a listing, a stream of events, its own optimism.
PROJECT.json lists these hazards one by one, each at its line, with the
properties that cover it.

**What makes each component correct.** Transactions and audit: solvent
accounts, no lost update, balances that reconcile with the transactions, final
verdicts, truthful events, requests that end. Antifraud: no more transactions
pass in a window than the rule allows, none is flagged without cause. Hub:
every event to every dashboard that was there, in order, dead connections
forgotten, no broadcast that hangs. Simulator: a report that counts what
happened, and is stored; a race verdict that is true. Registry: names bound once,
answers that match the record, no token unearned, no refusal unlogged. Dashboard:
cases in the queue shown, decided cases gone, no verdict out of nowhere or out of date.

## 2. The modules

| module | models | lines of the code |
|---|---|---|
| `Ledger` | both services over the three tables, with row locks, versions, rollback, alerts and verdict events | `services/transactions.py:50-135`, `services/audit.py:31-114`, `repositories/postgres.py`, `infrastructure/models.py`, `api/v1/routes.py:192-247` |
| `AccountFunds` | abstract specification: debit, hold, capture, release, each once | what the services promise |
| `LedgerFunds` | the refinement mapping from `Ledger` to `AccountFunds` | - |
| `LedgerProofs` | inductive invariants and theorems of `Ledger`: any number of auditors, then what one auditor adds, with the refinement and the books | - |
| `FraudWindow` | antifraud over Redis: stamps, two pipelines, pruning, expiry, failures | `services/antifraud.py:46-73`, `repositories/redis.py` |
| `Screening` | `submit_transaction` around `record_and_check`: the row read before, the versioned UPDATE after | `services/transactions.py:57-135`, `repositories/postgres.py:64-82` |
| `FraudProofs` | inductive invariants and theorems of `FraudWindow` and `Screening` | - |
| `NotificationHub` | hub, `/ws` endpoint, clients that pause and leave | `services/notifications.py`, `main.py:63-81`, `api/v1/routes.py:534-553` |
| `HubProofs` | inductive invariant and theorems of `NotificationHub` | - |
| `SimClient` | sender with retries, gather, consolidated report | `simulator/app/client.py:17-162`, `scenarios.py:36-143`, `main.py:137-152` |
| `SimClientProofs` | inductive invariant and theorems of `SimClient` | - |
| `RaceAttack` | the race-condition attack composed with `Ledger` | `simulator/app/client.py:224-256`, `scenarios.py:153-188`, `main.py:198-235` |
| `RaceAttackProofs` | inductive invariant of the attack, on top of the ledger's | - |
| `Registry` | users, accounts and the security log over unique indexes | `services/accounts.py:17-41`, `services/security.py`, `api/v1/routes.py:61-175, 280-345, 490-514`, `api/dependencies.py:98-118` |
| `NameBinding` | abstract specification: a name is bound once | what the registry promises |
| `RegistryProofs` | inductive invariant and theorems of `Registry` | - |
| `Dashboard` | the table of flagged cases next to the backend's queue, with other auditors | `services/audit.py:31-119`, `api/v1/routes.py:221-247`, `frontend/src/App.tsx:266-527`, `FlaggedTransactionTable.tsx`, `useWebSocket.ts` |
| `DashboardProofs` | inductive invariant and theorems of `Dashboard` | - |
| `SumLemmas` | what a sum over a finite set is, and how it changes | - |
| `MC...` | instances for TLC: model values, symmetry | - |

### Ledger

A *session* is one pooled connection serving one request at a time: a *teller*
serves submissions, an *auditor* resolutions. An action is one statement or
awaited call with the Python up to the next await, so TLC interleaves exactly
where the event loop and PostgreSQL may.

| action | code |
|---|---|
| `Submit` | account read and all checks, `transactions.py:57-75`; a request that fails a check changes nothing and is not an action |
| `Screen` | the answer of `record_and_check`, `:77-78`: either one, `FraudWindow` says when |
| `Update`, `UpdateFails`, `Conflict` | `update_balances_with_version`, `postgres.py:64-82`: row as expected, CHECK or INTEGER range violated, no row matched |
| `Insert`, `InsertFails` | both INSERTs, `transactions.py:88-101`; the sequence value is not given back by a rollback |
| `Notify`, `CommitSubmit` | `:102-115`, and the end of `session.begin()` |
| `ReadFlag` | `audit.py:36-49`, without a lock |
| `LockAccount`, `HoldMissing` | `:51-64`, SELECT FOR UPDATE and the check of the hold |
| `Mark`, `CommitReview` | `:75-114`: states of the transaction and of the flagged row, COMMIT |
| `Broadcast` | `routes.py:233-247`, after the COMMIT |
| `Abort` | any await that raises: everything uncommitted is undone, the lock released |

`account`, `txn` and `flag` are committed tables; what a session has written
and not committed is its `draft`, invisible to others, and `rowLock` /
`flagLock` keep others from writing. Since `UPDATE ... WHERE version = v`
waits for the lock and re-reads the committed row, `Update` compares the version of
the committed row at the moment the lock is free; an UPDATE whose version is already
wrong matches no row without waiting. Amounts of a request are *mills* (tenths
of a cent), the coarsest unit in which rounding to NUMERIC(_,2) shows.

`Mark` and the two INSERTs are one step each, though each is two statements: both rows
they touch are locked by the session or not visible to any other, so nothing
can observe the point in between, and `Abort` after or before has the same effect.

### FraudWindow

A *worker* is one submission inside `record_and_check`. It stamps itself
(`Start`), runs the IP pipeline (`IpBurst`, `IpClear`, `IpNext`), perhaps the
account pipeline (`AccountPattern`, `AccountClear`), or fails at either
(`Fail`: the pipeline in flight may or may not have been executed). MULTI makes
a pipeline atomic; the order in which pipelines reach Redis is free. A window is
the number of members at each score: members are unique strings, so nothing
else about them matters. `Tick` moves the clock and drops expired keys.
`passed` is what `record_and_check` lets through, recorded or not.
`attempts`, `passed`, `alarms` and `peak` (how many submissions were ever in flight
at once) are history, kept only for the properties.

`Patience` bounds how long a worker may lag behind its stamp: the Redis client gives
up after `redis_socket_timeout` (5 s, `core/config.py`). A Redis that
loses its keys (restart, eviction) is not modelled: the windows are a cache by design.

### Screening

`Screening` extends `FraudWindow` by its caller. A submission reads the account row without a lock
(`ReadAccount`), is screened (`Screen`, `Check`), and is recorded only by a versioned UPDATE
(`Commit`, guarded by `SameVersion`); otherwise it is refused with 409, cancelled or fails (`GiveUp`, `Break`), and what it
left in Redis stays there. As every write of a row adds one to its version, a version is
modelled by who has read the row since it was last written (`fresh`); `Resolve` is a resolution that writes the row. `recorded` keeps
the transactions of 9000 on record, by anomaly and stamp. Funds, locks and holds are `Ledger`'s.

### NotificationHub

The event loop runs one thing at a time and the hub's lock is never held across
another await, so a locked section is one step. A broadcast copies the set
(`Begin`, in any order: it is a Python set), then awaits one send after the
other: `Delivered`, `Lost` (the client is gone and the server does not know),
`SendFails`; `Finish` discards what failed. A client may pause reading
(`Stall`), resume, or drop. `Crash` is an endpoint that ends by an exception
other than `WebSocketDisconnect`: the socket stays in the hub (`main.py:79-81`).

### SimClient

A *sender* is one task of a simulation: a burst on one account, or one
transaction among many from one address (`plan`). `server` records what the
backend makes of each attempt, and goes on with it even if the sender has given up
(`NoAnswer`). Whether the network may fail at all is chosen at the start
(`faulty`), so one run shows both what holds without timeouts and what is left
with them. A login that raises does so outside the `try` of the retry loop
(`client.py:88`), makes `gather` raise, and the report is never stored. The
stress report carries no `status`; `sim = "STORED"` stands for "the final report is stored"
for both. Reports expire after an hour; that is not modelled. The verdict
`invalid` includes the 401 of a token that expired while a sender was
retrying, so it may come at any attempt, also after one that was recorded.

### RaceAttack

Every action of `Ledger` is a step of `Backend`, which also follows what becomes of
the two *shots* of the attack. `Launch` is the endpoint that picks accounts by *available*
balance and takes their *balance*; `Aim` starts the two coroutines on one of
them; `GetToken`, `TokenFails`, `Post`, `Refused`, `Answer` and `NoAnswer` are one
coroutine's way through `client.py`; `Conclude` is what follows `gather`. A shot whose answer is
lost goes on at its teller, into the next attack if it takes that long; there is no retry.

### Registry

A *worker* is a session serving one request. A key is a table and a name.

| action | code |
|---|---|
| `FindFree`, `FindTaken` | the SELECT that looks the name up: `routes.py:155-161`, `accounts.py:31-34` |
| `Insert`, `Duplicate` | the INSERT: it takes the index entry, or fails because a row of the name was committed meanwhile; while another's entry is not committed it is not enabled, as PostgreSQL waits |
| `Commit` | the end of `session.begin()` |
| `Login`, `WrongCredentials` | `routes.py:110-134` and the credentials of `/transactions/query` |
| `LogRefusal` | the row in `security_logs`, in a database transaction of its own |
| `Answer` | the response, with a token |
| `Abort` | any await that raises or is cancelled |

A token is a name and a role: the endpoints trust it and look nothing up. The
administrator of the settings may log in whatever `auth_user` holds; the role of a token is
the one on record if the password on record matches, and `admin` otherwise.

### Dashboard

The backend's side is one state per case and the events on their way: `Announce` (the
alert, before the COMMIT) and `Conclude` (COMMIT or rollback). A resolution, by this dashboard (`Own...`) or by
another auditor (`Other...`), takes the steps of the code: the unlocked check of the case (`Unresolved`), the
unconditional write with its COMMIT (`Write`, whatever the case has become since), then the broadcast (`Tell`). So two
resolutions of one case may both succeed, be broadcast in the other order, or be cut off between COMMIT and broadcast; and a
"Bajo Revision" that read the case before a decision was committed puts it back in the queue. `taken` is history: the
decisions ever committed on a case. Accounts are left out: a decision may be refused for its funds once a decision has settled some
hold (`HoldMayBeGone`), which allows more refusals than the program has, never fewer.

`Serve` and `Arrive` are a listing answered and received; React Query gives a listing
equal to the last its identity, so the effect that replaces the rows may
not run. `Receive` keeps one last event, `ApplyStatus` and `ApplyAlert` are the effect on it,
which may come late. `Click` and `Finish` are the ends of a decision here: the
optimistic status, and the refetch. `faulty` is chosen at the start: with it
requests may fail and the socket may close for good. The rows are those App keeps; the table itself shows
"Loading..." during each refetch (`App.tsx:798`).

## 3. Runs

A run stops by design when its bounds are used up (transaction ids, clock,
requests, broadcasts, names, clicks) or when the simulation is over, hence `CHECK_DEADLOCK FALSE`;
that nothing is *stuck* is what the liveness properties say.

| run | instance | checks |
|---|---|---|
| `one_auditor` | 2 accounts, 2 tellers, 1 auditor, 2 transactions; 1.3 M states | `TypeOK`, `Solvent`, `ConstraintsNeverFire`, `FlaggedWasAnnounced`, `Reconciled`, `VerdictOnRecord`, `NoLostUpdate`, `ResolutionIsFinal`, `KeepsFunds` |
| `racing_auditors` | 1 account, 1 teller, 2 auditors, 2 transactions, fairness; 255 k | `ReviewNeverConflicts`, `RequestsEnd` |
| `double_review` | 2 auditors | **violated**: `ResolutionIsFinal` |
| `zero_amount` | an amount of 0.004 | **violated**: `AmountsPositive` |
| `submissions` | 2 workers, 1 account, 1 IP, both windows 2, both limits 1, clock to 3, 4 requests; 4.7 M | `ScreeningTypeOK`, `PatternIsBounded`, `BurstIsBounded`, `NoFalseAlarm`, `OneMoreAtMost` |
| `overlapping_broadcasts` | 2 dashboards, 2 broadcasts, fairness; 31 k | `TypeOK`, `DeliveredToAll`, `AnsweredComesFirst`, `GhostsAreForgotten`, `BroadcastsEnd` |
| `simulation` | 1 task of 2 transactions or 2 tasks of 1, 2 attempts each, fairness; 45 k | `TypeOK`, `ResultsAreTrue`, `ReportIsTrue`, `SuccessWasRecorded`, `SimulationEnds` |
| `failed_is_recorded` | 1 task, 1 transaction | **violated**: `FailedIsFinal` |
| `registrations` | 2 workers, 2 names of which one is seeded, 2 passwords, 1 refusal, fairness; 324 k | `TypeOK`, `CreatedIsOnRecord`, `RefusedWasTaken`, `TokensAreEarned`, `RefusalsAreLogged`, `KeepsNames`, `RequestsEnd` |
| `race_attack` | 1 account of two cents, 2 tellers, 1 auditor, 2 transactions; 2.6 M | `AttackTypeOK`, `SpentOnce`, `VerdictIsTrue` |
| `flagged_table` | 2 cases, 1 other auditor, 1 event on its way, 1 decision on each case, that on the second taken here or there, fairness; 789 k | `TypeOK`, `ListedIsShown`, `VerdictHasSource`, `DecidedLeaves` |
| `announced_is_dropped` | 1 case, no other auditor, no decision | **violated**: `OpenIsShown` |

### What the passing runs show, and why the bounds are enough

*Ledger.* Two tellers are enough for every race on a row: a conflict involves a
reader and one writer that overtakes it, and a third session would only add
further conflicts of the same kind (the proofs cover any number). Two transactions let
one be held while another is debited, and an account opens with two cents, so that
two amounts of one cent fit exactly and one and two do not. `Amounts` holds 1.0 and
1.5 cents: one that rounds up and one that does not. `MaxAmount` and `MaxVersion` are
reached, so `InsertFails` and `UpdateFails` happen; with
versions up to 4 two auditors can settle one case twice, one after the other. `Reconciled`, `VerdictOnRecord`,
`ResolutionIsFinal` and `KeepsFunds` are checked with one auditor because they
are false with two; `racing_auditors` says what two auditors still cannot break (and `AlwaysSolvent` is proved for any number).

*FraudWindow and Screening.* `submissions` runs the windows under their caller, which implements them (`ScreeningUsesWindows`). One
clock tick is a fraction of the window; a window of two ticks
distinguishes "inside", "exactly one window old" and "expired". `PatternIsBounded` and `BurstIsBounded` bound
what passes in any window by the limit plus `Overlap`, twice the number of *other*
submissions that were ever in flight together. In the behaviours of the run where submissions
never overlap that is the rule itself. Where they do, each other
submission can cause two misses: a pipeline that arrives late is not seen by, and does not
count, those with later stamps; and a later-stamped pipeline may prune members
the late one should count. The limits are one so that limit and overlap together (three) are less than the four
requests, and the bounds are tight: with a slack of one less TLC finds
a counterexample to either on the same instance. `NoFalseAlarm` is the other direction.
What passes in Redis is not yet on record. Of submissions that overlap on one account the version lets one
commit, so what they miss of each other counts once: `OneMoreAtMost`. That bound is tight too: without the one more TLC finds a
counterexample on this instance.

*NotificationHub.* Two broadcasts over two clients give every overlap of a broadcast
with a connection, a departure, a failed send and another broadcast's cleanup.

*SimClient.* Two attempts are one retry, so a stale attempt can run beside the one
that replaces it; a burst of two shows that it may still run during the next transaction.

*Registry.* Two workers are every race on an index entry; the proofs cover any number.
The seeded name is registered with one password and accepted by the settings with another, so
both ways to log in happen. One refusal at a time is counted, cancelled or answered.

*RaceAttack.* One account, attacked once: attacks follow one another and share nothing but the
tellers, and both shots of one already fill the two tellers. The auditor can reject a held
shot, which is the one way both can be recorded.

*Dashboard.* The transaction of case 1 has the number of the flagged row of case 2, the
coincidence that a reader of both tables meets after one transaction that was not flagged. One event on
its way is enough to overtake a listing and to replace an event whose effect has not run. One other auditor can
decide after this dashboard has, before it, or between its check and its write; the proofs cover any number. `VerdictHasSource`
says that a verdict was committed, not that it still stands: the record may have moved on. `DecidedLeaves` is claimed only of
a case that stays decided, since a racing "Bajo Revision" brings it back; it says that the row leaves, not that an alert still
on its way cannot add it again.

### What the violated runs show

* `double_review`: `resolve_flagged` checks the state
  of the flagged row on an unlocked read (`audit.py:39-43`) and locks only the account; the
  second auditor waits, finds enough held money - that of *another* case - and resolves
  again. The verdict is replaced. Two approvals debit the account twice for one transaction, the
  second time out of the other case's hold: `Reconciled` and `KeepsFunds` fail by the same
  behaviour. With a single held transaction the second attempt fails with "insufficient held
  funds", except that decisions which move no money always pass.
* `zero_amount`: `amount <= 0` is checked before the rounding of the column. The API
  schemas require a positive amount, not two decimals.
* `failed_is_recorded`: a timeout does not mean that the backend did nothing. The report says
  "falló definitivamente" of a transaction that is on record. The same property fails by a retry that is refused, for want of the money the first
  attempt has spent: the report counts as fended off what is on record.
* `announced_is_dropped`: the alert is broadcast before the COMMIT. While the first listing is on its way `refetch` does not ask again, and
  a listing served before the COMMIT drops the row the alert added. Nothing makes the dashboard ask again.
  With two other auditors the same property fails otherwise: a decision is committed, overwritten by a "Bajo Revision" that had read the case before (the
  race of `double_review`), and the two are broadcast in the other order. The case is in the queue, shown with a verdict.

Divergences noted while modelling, without a run of their own:

* One approved transaction of 9000 over the limit can be on record in a window (`OneMoreAtMost` is tight). The stamp is taken before Redis is awaited
  (`antifraud.py:52`), and a pipeline counts up to its own stamp but prunes everything one window older than it. Of two overlapping submissions the later-stamped
  one reaches Redis first and prunes the oldest member; the earlier-stamped one counts one too few and is recorded. The later one
  is then refused by its version, or fails: no two of the overlapping submissions are recorded, and one too many is. Two that
  merely miss each other are not enough, because the version refuses one of them (`transactions.py:60, 79-86, 118-125`).
* A submission refused with 409 has been counted by the windows, and is counted again when it is sent again: a
  client that retries conflicts can be blocked for a pattern of which it has nothing on record.
* A lost answer counts as 500 in the race attack (`client.py:255`): with the other submission refused it is
  "RECHAZADO_TOTAL (Ambas fallaron)" (`scenarios.py:178`), and one may be on record. `VerdictIsTrue` excepts it.
* The loser of a registration race gets a 500 from the unique index where
  `routes.py:146` documents 409 (`Duplicate` of `Registry`); the loser of an account race
  likewise instead of 400.
* The simulator takes a 403 for a block by antifraud (`client.py:125`, `scenarios.py:92`), while
  the backend answers 403 to a blocked account or missing funds (`main.py:99-100`) and 201
  to what its rules flag.
* `App.tsx:423` compares the id of a flagged row with the id of a transaction, so a verdict can
  label another case's row until the next listing: the third disjunct of `VerdictHasSource`.
* `App.tsx:515-524` reports a decision as applied also when the request failed.
* An alert that is received after the listing that already lacks its case, because it was decided meanwhile, leaves a row
  until a listing that differs: the effect on an equal listing does not run.
* The role column of `auth_user` defaults to `admin` in `models.py:169` and to `user` in
  `init.sql:70`; `register` passes the role, so neither default is ever used.
* `README.md:71` registers `admin` with `"role":"admin"`, and `schemas.py:127` defaults the role of a registration to `admin`;
  `register` ignores it and records `user` (`routes.py:165`), which is what `Registry` does.
* `DEPLOYMENT.md:336` says that a success removes the transaction from the list. With a racing auditor an answered
  success may be overwritten, and the case listed again (`DecidedLeaves` excepts it; the cause is that of `double_review`).

### Fairness

* `Ledger!FairSpec`: strong fairness of each request's own steps. The event loop resumes
  what is ready and PostgreSQL queues lock waiters, so a request whose row becomes free again and again gets its
  turn. No fairness of `Submit`, `ReadFlag` or `Abort`: nobody has to send
  requests, and nothing relies on a failure. Strong, not weak, because a lock may be taken and
  released by others while a session waits.
* `NotificationHub!FairSpec`: strong fairness of sends (a client that pauses and resumes
  accepts a send in between), weak fairness of `Finish`, and of dropping a client that
  stays paused, which is the server's websocket keep-alive.
* `SimClient!FairSpec`: weak fairness of each sender and of each request at the
  backend. Every wait of a sender has a timeout of its own, and requests at the backend
  end (`Ledger!RequestsEnd`). The launch is not fair.
* `Registry!FairSpec`: strong fairness of each request's own steps, as for `Ledger`: the
  index entry may be taken and released by others while an INSERT waits.
* `Dashboard!FairSpec`: weak fairness of the backend's answers to listings and decisions, of what other auditors have begun, of the
  arrival of a listing, of receiving events, of effects and of the end of a decision: the browser runs what is
  queued. Nobody has to click or to resolve, and nothing relies on a failure.
* `RaceAttack` has no fairness: its properties are safety.

## 4. Proofs

Every invariant and every action property of the passing runs, and both refinements, are proved for
every value of the constants, under the assumptions named in the module they are about. None of these
assumes a size; `FraudWindow` and `SimClient` ask that the sets they count be finite. Two further hypotheses
are stated in the theorems that need them: `OneAuditor`, without which TLC refutes the property
(`double_review`), and for the two bounds of `FraudWindow` and for `OneAtATimeIsExact` that no submission waits longer than the window.

**Sums.** `Reconciled`, the report of a simulation and the windows of Redis are sums, defined with the folds of
the community modules. `SumLemmas` proves what is needed of them: a sum over a finite set is that over the
set without one member plus its value, whichever member (`SumRemove`, `SumAdd`), is monotone, and splits over disjoint sets.
An induction theorem that takes a predicate as parameter cannot be instantiated here, so each of these goes by a *smallest
counterexample*: if the sets for which it fails are not none, one of them has no smaller one
(`SmallestSubset`, from the well-foundedness of inclusion on finite sets), and taking a member from it gives a
contradiction.

### The ledger

`LedgerProofs`, from `AccountAssumption`, `SessionAssumption` and `NumberAssumption`: the two
kinds of session differ, opening balances and amounts are naturals, `None` is neither an account
nor a session.

| theorem | says |
|---|---|
| `TypeCorrect` | `Spec => []TypeOK` |
| `AlwaysSolvent` | `Spec => []Solvent` |
| `NoUpdateIsLost` | `Spec => NoLostUpdate` |
| `ChecksAreRedundant` | `Spec => []ConstraintsNeverFire` |
| `ReviewsDoNotConflict` | `Spec => []ReviewNeverConflicts` |
| `AlwaysAnnounced` | `Spec => []FlaggedWasAnnounced` |

**The argument.** `Solvent` is not inductive: whether a commit keeps it depends on a row
read, unlocked, several steps before. `IInv` says what ties the two together:

* `ReadOK`: a row a session has read is not newer than the committed one, and *if it has
  the same version it is the committed one*; the checks made on it (available funds for a
  teller, a covering hold for an auditor) hold of it. So the version test of the UPDATE
  carries checks on a stale read over to the row that is written.
* `LockOK`, `DraftOK`: a session with an uncommitted row holds its lock, and the draft is
  the committed row moved by the decision. As two sessions cannot hold one lock, the
  committed row cannot change under a draft (`CommitKeepsOthers`).
* `TellerOK`, `AuditorOK`, `RequestOK`, `FlagOK`: each kind of session goes through the
  phases of its own handler, and what a request refers to exists.

`InitInv` and `NextInv` show `IInv` inductive, with one lemma for each action; the
theorems draw the properties from it. `NoUpdateIsLost` is an action property: a step
that changes an account row is a COMMIT, whose draft is one version ahead of the row it
replaces (`DraftAhead`, `StepBuildsOnRow`). `CentsFit` is the lemma about rounding: an amount covered by an
available balance in whole cents is covered after it is rounded to cents.
None of it needs a bound on the number of auditors: this is why two auditors can
break the books but never solvency.

The second part of the module adds `OneAuditor` (any two members of `Auditors` are equal) as a hypothesis
of each theorem:

| theorem | says |
|---|---|
| `VerdictIsOnRecord` | `Spec => []VerdictOnRecord` |
| `VerdictsAreFinal` | `Spec => ResolutionIsFinal` |
| `FundsAreKept` | `Spec => KeepsFunds`: `Ledger` implements `AccountFunds` |
| `BooksReconcile` | `Spec => []Reconciled` |

**The argument.** `JInv`, inductive together with `IInv`, says: a sequence value belongs to at most one
request or row (`SequenceOK`), so an INSERT never overwrites; the state of a flagged row
determines that of its transaction (`FlagAgrees`); a case under review is open and what
the auditor read of it still stands (`ReviewOK`) - this is where a second auditor would break
it; an event in flight is what was committed (`EventOK`). For the refinement, every action but the two
COMMITs leaves the tables alone, and each COMMIT is `Debit`, `Hold`, `Capture` or `Release`
(`RowEnters`, `RowSettles`), because the draft of `IInv` is the committed row moved by
the decision. The same two cases reconcile the books: a COMMIT adds one entry to one sum or moves one entry from
one sum to another (`TotalGrows`, `TotalShrinks`, `TotalStays`), by what it adds to or takes from the row.

`RaceAttackProofs` builds on both parts, also with `OneAuditor`:

| theorem | says |
|---|---|
| `AttackIsTyped` | `AttackSpec => []AttackTypeOK` |
| `BalanceIsSpentOnce` | `AttackSpec => []SpentOnce` |
| `AttackVerdictIsTrue` | `AttackSpec => []VerdictIsTrue` |

**The argument.** The ledger's invariants hold under attack because every step of the attack is a step of the ledger or
leaves it alone. A balance never grows, so what the attack read at its launch is never less
than what is there; a shot that was debited for all of it leaves nothing (`ShotOK`), and one that is held reserves
all of it - here `Reconciled` is needed, to say that what is held is reserved (`HeldIsReserved`). So
the second shot finds funds only after the first was rejected.

### The registry

| theorem | says |
|---|---|
| `TypeCorrect` | `Spec => []TypeOK` |
| `CreationIsOnRecord` | `Spec => []CreatedIsOnRecord` |
| `RefusalIsJustified` | `Spec => []RefusedWasTaken` |
| `TokensEarned` | `Spec => []TokensAreEarned` |
| `RefusalsLogged` | `Spec => []RefusalsAreLogged` |
| `NamesAreKept` | `Spec => KeepsNames`: `Registry` implements `NameBinding` |

From `RegistryAssumption` (seeds are users, the set of workers is finite). **The argument.** A session with an uncommitted
row holds the index entry of its name, and a name whose entry is held is not on record: so its
COMMIT binds a free name. Committed rows never change, so what was true of an answer when it was
composed stays true until it is sent. `RefusalsAreLogged` counts: the rows of a kind are at
least the answers given plus the sessions that have logged a refusal and still
owe the answer (`Owing`, a finite set: the one use of the finiteness of `Workers`).

### The hub

| theorem | says |
|---|---|
| `TypeCorrect` | `Spec => []TypeOK` |
| `EveryoneIsReached` | `Spec => []DeliveredToAll` |
| `OrderIsKept` | `Spec => []AnsweredComesFirst` |
| `GhostsAreRemoved` | `Spec => []GhostsAreForgotten` |

From `HubAssumption` (finitely many clients). **The argument.** `PairOK` follows one broadcast and one socket of its
snapshot: it is in the queue, or the event is in its inbox, or its connection is gone; if its endpoint
has ended and it is in the hub although its send is over without success, it is in `stale` and
the broadcast has still to discard it. `DeliveredToAll` and `GhostsAreForgotten` are what is left of it when
the queue is empty. For the order, `preceding` names only broadcasts that are done, and one that is
done delivers no more, so nothing is appended behind an event that had to come after it.

### The antifraud windows

| theorem | says |
|---|---|
| `FraudIsTyped` | `Spec => []TypeOK` |
| `AlarmsAreTrue` | `Spec => []NoFalseAlarm` |
| `PatternBounded` | `Spec => []PatternIsBounded`, if `Patience <= AccountWindow` |
| `BurstBounded` | `Spec => []BurstIsBounded`, if `Patience <= IpWindow` |
| `ScreeningUsesWindows` | `ScreeningSpec => Spec`: submissions with rows and versions are submissions |
| `ScreeningIsTyped` | `ScreeningSpec => []ScreeningTypeOK` |
| `OneMoreIsAll` | `ScreeningSpec => []OneMoreAtMost` |
| `OneAtATimeIsExact` | `ScreeningSpec => [](peak <= 1 => NextIsFlagged)`, if `Patience <= AccountWindow` |

From `RuleAssumption` (windows and limits are positive, keys of accounts and of IPs differ, workers and IPs are finite) and `NoAccountAssumption`.
**The hypothesis** on `Patience` is needed: with an IP window of 1, a limit of 1 and a patience of 2, TLC refutes
`BurstIsBounded` with two submissions that do not even overlap. Both have one stamp, but the second waits for two
windows, and by then the key, and with it the first, is dropped. With the defaults, a pipeline on an open connection is cut off
after 5 s, which makes at most 10 s for the two, the account's window; the IP window is 60 s. A larger
`REDIS_SOCKET_TIMEOUT`, or reconnecting (another `REDIS_SOCKET_CONNECT_TIMEOUT`), may exceed the former, and then the bound
of the account is not claimed. The hypothesis is a relation between settings that the code does not check.

**The argument.** The bound says nothing of Redis, so it has to be tied to what the sorted set holds. `WInv` has, for each key:

* `Kept`: what was let through with a stamp in the current window is still in the sorted set; `Dated`: the key expires no
  earlier than two windows after any of its members.
* `Fits`, for a window that has not ended: whatever was let through last saw everything before it but what was on its way
  beside it. With `Slack` the number of submissions that have run beside another, what was let through, plus
  what is still due with an *earlier* stamp than some that was let through, is at most the limit plus `Slack`.
* `Settled` or `Brink`, for one that has ended, and may still have late submissions: what was let through and what is due together are at most the
  limit plus twice `Slack`, or just one more. In the latter case everyone in flight is due in that window and behind everything let through, and the
  sorted set still holds all of it, so the first to be recorded is counted with it and either is an anomaly or shows
  that there was room.

A pipeline of a worker does one of two things to a window (`StepParts`): it lets nothing more through (`Quiet`) or it was
counted with what the window held, and there was room for it (`Passes`); each keeps the four (`QuietKeeps`, `PassesKeeps`). `StartKeeps` uses
that a new submission raises `Slack` just when everyone else is due, `TickKeeps` that a window that ends goes from `Fits` to
`Settled` or `Brink`, and that a key is dropped only when nothing due can still count on it - the use of `Patience`.
`AlarmsAreTrue` is simpler: every member of a sorted set, and every submission still to be recorded, is one of
`attempts` (`Counted`), and the pipeline prunes exactly the members one window old (`CountParts`).

`OneMoreIsAll` does not need the hypothesis. `SInv` adds to `WInv` that a window which ends *now* never holds more than the limit of
approved transactions, and follows each *rival*: a session whose row is still the committed one, and which has its stamp. As long as it is a
rival nothing was approved since it read the row, so nothing with a later stamp, and the window behind its stamp is not over the limit
(`RivalOK`). Its own COMMIT is therefore at most one more, and makes rivals of none of the other readers of the row. `OneAtATimeIsExact`
has the windows themselves bound what is on record, `PatternBounded` with no overlap.

### The simulator

| theorem | says |
|---|---|
| `SimulationIsTyped` | `Spec => []TypeOK` |
| `StatusesAreTrue` | `Spec => []ResultsAreTrue` |
| `SuccessesWereRecorded` | `Spec => []SuccessWasRecorded` |
| `ReportsAreTrue` | `Spec => []ReportIsTrue` |

From `SimulationAssumption` (finitely many senders, a positive burst and number of attempts). **The argument.** `SInv` follows each sender:
what it has not sent is not at the backend (`Unsent`), what it waits for is; on a network that answers, every attempt
before the current one met a conflict (`Current`), so at most one can have been recorded (`Outcome`). The report counts
pairs of a sender and a transaction; `CountPlanned` shows that there are as many as the plans add up to.

### The dashboard

| theorem | says |
|---|---|
| `DashboardIsTyped` | `Spec => []TypeOK` |
| `ListedCasesAreShown` | `Spec => []ListedIsShown` |
| `VerdictsHaveSources` | `Spec => []VerdictHasSource` |

From `DashboardAssumption` (different cases have different transactions and flagged rows), for any set of other auditors. **The argument.**
`VerdictHasSource` is not inductive by itself. `EventsOK` adds that a verdict in any event on its way, and in the last one
received, is that of a decision once committed on its case; `CommittedOK`, that a decision about to be broadcast has been committed. Neither
needs a decision to stand: `taken` only grows, though the case may be decided again or put back (`DecisionsKept`).

### Only model-checked

Liveness (`RequestsEnd` of `Ledger` and of `Registry`, `BroadcastsEnd`, `SimulationEnds`, `DecidedLeaves`): fairness and ENABLED are out of the prover's reach. The
four violated properties are refuted, not proved. That the bounds of the runs are reached, and that each property can be broken by a plausible bug, is
something only the runs show.

## 5. Not modelled, and why

* The signature and the expiry of tokens, and the simulator's expired-token task, which waits until a token
  has expired, sends one request with it and reports whether it was answered 401. `ws_manager.py`: imported by nothing.
* Read-only endpoints as requests of their own (`list_pending`, `list_recent`, `list_active`, `get_my_account`); what
  `list_pending` and `list_active` return is part of `Dashboard` and `RaceAttack`.
* `PATCH /transactions/{id}/status` (`routes.py:567-579`): it changes no row, only broadcasts, as
  any `Broadcasts` element of `NotificationHub` does.
* The state of an account: no endpoint changes it, so `Active` is a constant.
* The connection pool: SQLAlchemy's. A check-out that times out raises at the first statement of a
  request, which `Abort` covers. How many requests wait at once is not counted.
* The user's own page, the login form and the simulator's panel of the dashboard. Simulator alerts and
  status patches reach it only from endpoints that no program of the repository calls.
* `garantizar_cuentas_iniciales` of the simulator: called by nothing.
* Liveness of the race attack: it ends when its two HTTP calls do, each of which has a timeout.
* Formatting, correlation ids, logging, metrics, containers.

## 6. State of the plan

Done: all the modules above with their runs, and the proofs of every safety property the passing runs check,
of both refinements, and of what one auditor adds.

What further work could add: a proof that the two refinements compose with the attack (`RaceAttack` implements
`AccountFunds`); what two auditors can break at most, as a bound on the books like the one of `FraudWindow`; the connection
pool as a resource that sessions hold while they wait.
