------------------------------- MODULE Ledger -------------------------------
(***************************************************************************)
(* The money core: TransactionService.submit_transaction and               *)
(* AuditService.resolve_flagged over the three PostgreSQL tables they       *)
(* share (account, transaction, flagged_transaction).                       *)
(*                                                                         *)
(* A session is one pooled connection serving one HTTP request at a time:   *)
(* a teller serves POST /transactions and POST /me/transactions, an auditor *)
(* serves POST /flagged/{id}/resolve.  An action is one statement or one    *)
(* awaited call of the handler together with the Python that follows it up  *)
(* to the next await.  The isolation level is PostgreSQL's default, READ    *)
(* COMMITTED: a plain SELECT sees the last committed row, an UPDATE or a    *)
(* SELECT FOR UPDATE waits for the row lock and then looks at the row       *)
(* again, and nothing a session writes is seen before its COMMIT.           *)
(*                                                                         *)
(* Amounts are integers in cents.  A request's amount is a Decimal of any   *)
(* precision; it is modelled in mills (tenths of a cent), which is what the *)
(* rounding of the database casts can tell apart.                           *)
(***************************************************************************)
EXTENDS Integers, Functions

CONSTANTS
    Accounts,    \* the rows of table account
    Active,      \* the accounts whose state is Activo; no endpoint changes it
    Opening,     \* Opening[a]: the balance, in cents, account a was created with
    Tellers,     \* sessions serving submissions
    Auditors,    \* sessions serving resolutions
    Amounts,     \* the amounts, in mills, requests ask for
    MaxAmount,   \* largest transaction.amount, in cents: NUMERIC(10,2)
    MaxTx,       \* last value of the sequence of transaction.id
    MaxVersion,  \* largest account.version: INTEGER
    None         \* no session, no account

ASSUME AccountAssumption ==
    /\ Active \subseteq Accounts
    /\ Opening \in [Accounts -> Nat]
    /\ None \notin Accounts

ASSUME SessionAssumption ==
    /\ Tellers \cap Auditors = {}
    /\ None \notin Tellers \cup Auditors

ASSUME NumberAssumption ==
    /\ Amounts \subseteq Nat
    /\ MaxAmount \in Nat
    /\ MaxTx \in Nat
    /\ MaxVersion \in Nat \ {0}

-----------------------------------------------------------------------------

Sessions == Tellers \cup Auditors

TxIds == 1 .. MaxTx

TransactionState == {"Aprobada", "Rechazada", "Bloqueada"}

AuditState == {"Aprobado", "Bloqueado", "Revision Pendiente", "Bajo Revision"}

\* The states after which resolve_flagged refuses a flagged transaction.
Resolved == {"Aprobado", "Bloqueado"}

\* A row of table account, and one of table transaction.
AccountRow == [balance : Nat, reserved : Nat, version : Nat]

TransactionRow == [account : Accounts, amount : Nat, state : TransactionState]

\* No row, in either table: also what a session holds when it has read none.
Absent == [state |-> "Absent"]

Phase == {"idle", "read", "screened", "updated", "recorded", "notified",
          "review", "locked", "marked", "committed"}

\* What a request is about.  `decision` is the transaction state antifraud led
\* to for a teller, the audit state asked for by an auditor.
Request == [account  : Accounts, amount : Nat, tx : TxIds \cup {0},
            decision : TransactionState \cup AuditState \cup {"Unknown"}]

NoRequest == [tx |-> 0]

VARIABLES
    account,    \* committed account rows
    txn,        \* committed transaction rows
    flag,       \* committed state of the flagged row of each transaction
    nextTx,     \* the sequence of transaction.id; it does not roll back
    pc,         \* where each session is
    req,        \* the request each session serves
    seen,       \* the account row each session read
    draft,      \* the account row each session wrote and has not committed
    rowLock,    \* the session holding the lock of each account row
    flagLock,   \* the session holding the lock of each flagged row
    announced,  \* transactions broadcast as "flagged"
    lastEvent   \* status of the last "transaction_status_updated" of each

database == <<account, txn, flag, nextTx>>
locals   == <<pc, req, seen, draft>>
locks    == <<rowLock, flagLock>>
events   == <<announced, lastEvent>>
vars     == <<database, locals, locks, events>>

TypeOK ==
    /\ account \in [Accounts -> AccountRow]
    /\ txn \in [TxIds -> TransactionRow \cup {Absent}]
    /\ flag \in [TxIds -> AuditState \cup {"Absent"}]
    /\ nextTx \in 1 .. MaxTx + 1
    /\ pc \in [Sessions -> Phase]
    /\ req \in [Sessions -> Request \cup {NoRequest}]
    /\ seen \in [Sessions -> AccountRow \cup {Absent}]
    /\ draft \in [Sessions -> AccountRow \cup {Absent}]
    /\ rowLock \in [Accounts -> Sessions \cup {None}]
    /\ flagLock \in [TxIds -> Sessions \cup {None}]
    /\ announced \subseteq TxIds
    /\ lastEvent \in [TxIds -> {"none", "Aprobada", "Rechazada", "Under Review"}]

Init ==
    /\ account = [a \in Accounts |->
                    [balance |-> Opening[a], reserved |-> 0, version |-> 1]]
    /\ txn = [x \in TxIds |-> Absent]
    /\ flag = [x \in TxIds |-> "Absent"]
    /\ nextTx = 1
    /\ pc = [s \in Sessions |-> "idle"]
    /\ req = [s \in Sessions |-> NoRequest]
    /\ seen = [s \in Sessions |-> Absent]
    /\ draft = [s \in Sessions |-> Absent]
    /\ rowLock = [a \in Accounts |-> None]
    /\ flagLock = [x \in TxIds |-> None]
    /\ announced = {}
    /\ lastEvent = [x \in TxIds |-> "none"]

-----------------------------------------------------------------------------
(* Arithmetic of the rows *)

\* NUMERIC(_,2) rounds half away from zero.
Cents(mills) == (mills + 5) \div 10

Available(row) == row.balance - row.reserved

\* What each decision adds to the balance and to the reserved balance.
BalanceDelta(decision, amount) ==
    IF decision \in {"Aprobada", "Aprobado"} THEN -amount ELSE 0

\* Mutant: an approval debits the account and keeps the hold.
HoldKept(decision, amount) ==
    CASE decision = "Bloqueada" -> amount
      [] decision = "Bloqueado" -> -amount
      [] OTHER -> 0

ReservedDelta(decision, amount) ==
    CASE decision = "Bloqueada" -> amount
      [] decision \in Resolved -> -amount
      [] OTHER -> 0

\* Mutant: the UPDATE forgets version = version + 1.
MovedSameVersion(row, balance_delta, reserved_delta) ==
    [balance  |-> row.balance + balance_delta,
     reserved |-> row.reserved + reserved_delta,
     version  |-> row.version]

\* The SET clause of update_balances_with_version.
Moved(row, balance_delta, reserved_delta) ==
    [balance  |-> row.balance + balance_delta,
     reserved |-> row.reserved + reserved_delta,
     version  |-> row.version + 1]

\* The CHECK constraints of table account and the range of its version.
RowLegal(row) ==
    /\ row.balance >= 0
    /\ row.reserved >= 0
    /\ row.version <= MaxVersion

\* The row the UPDATE of session s writes.
Target(s) ==
    LET r == req[s] IN
    Moved(account[r.account], BalanceDelta(r.decision, r.amount),
                              ReservedDelta(r.decision, r.amount))

\* Mutant: WHERE id = account_id.
VersionIgnored(s) == TRUE

\* WHERE id = account_id AND version = expected_version.
VersionMatches(s) == account[req[s].account].version = seen[s].version

RowFree(s, a) == rowLock[a] \in {None, s}
FlagFree(s, x) == flagLock[x] \in {None, s}

-----------------------------------------------------------------------------
(* What every session does *)

\* Mutant: the lock of a flagged row outlives its database transaction.
UnlockRowOnly(s) ==
    /\ rowLock' = [a \in Accounts |-> IF rowLock[a] = s THEN None ELSE rowLock[a]]
    /\ UNCHANGED flagLock

\* The end of a database transaction: its locks are released.
Unlock(s) ==
    /\ rowLock' = [a \in Accounts |-> IF rowLock[a] = s THEN None ELSE rowLock[a]]
    /\ flagLock' = [x \in TxIds |-> IF flagLock[x] = s THEN None ELSE flagLock[x]]

\* The end of a request: the session goes back to the pool.
Forget(s) ==
    /\ pc' = [pc EXCEPT ![s] = "idle"]
    /\ req' = [req EXCEPT ![s] = NoRequest]
    /\ seen' = [seen EXCEPT ![s] = Absent]
    /\ draft' = [draft EXCEPT ![s] = Absent]

\* An exception leaves session.begin(): nothing written is kept.
Rollback(s) == Unlock(s) /\ Forget(s) /\ UNCHANGED <<database, events>>

\* The phases in which a session is about to run the versioned UPDATE.
ReadyToUpdate == {"screened", "locked"}

\* The versioned UPDATE finds the row it expects and takes its lock.
Update(s) ==
    /\ pc[s] \in ReadyToUpdate
    /\ RowFree(s, req[s].account)
    /\ VersionMatches(s)
    /\ RowLegal(Target(s))
    /\ pc' = [pc EXCEPT ![s] = "updated"]
    /\ draft' = [draft EXCEPT ![s] = Target(s)]
    /\ rowLock' = [rowLock EXCEPT ![req[s].account] = s]
    /\ UNCHANGED <<database, req, seen, flagLock, events>>

\* A CHECK constraint or the range of version refuses the new row.
UpdateFails(s) ==
    /\ pc[s] \in ReadyToUpdate
    /\ RowFree(s, req[s].account)
    /\ VersionMatches(s)
    /\ ~RowLegal(Target(s))
    /\ Rollback(s)

\* The versioned UPDATE matches no row: ConcurrencyConflictError, HTTP 409.
Conflict(s) ==
    /\ pc[s] \in ReadyToUpdate
    /\ ~VersionMatches(s)
    /\ Rollback(s)

\* A lost connection, a Redis or socket error, a cancelled or killed process:
\* any await may be the last one of the request.
Abort(s) == pc[s] # "idle" /\ Rollback(s)

-----------------------------------------------------------------------------
(* TransactionService.submit_transaction *)

\* The account is read without a lock and every check on it is made; a request
\* that fails one is answered with an error and changes nothing.
Submit(t, a, mills) ==
    /\ pc[t] = "idle"
    /\ mills > 0
    /\ a \in Active
    /\ 10 * Available(account[a]) >= mills
    /\ pc' = [pc EXCEPT ![t] = "read"]
    /\ req' = [req EXCEPT ![t] = [account |-> a, amount |-> Cents(mills), tx |-> 0,
                                  decision |-> "Unknown"]]
    /\ seen' = [seen EXCEPT ![t] = account[a]]
    /\ UNCHANGED <<database, draft, locks, events>>

\* The answer of antifraud.record_and_check: no anomaly, or one.
Screen(t, decision) ==
    /\ pc[t] = "read"
    /\ pc' = [pc EXCEPT ![t] = "screened"]
    /\ req' = [req EXCEPT ![t].decision = decision]
    /\ UNCHANGED <<database, seen, draft, locks, events>>

\* Mutant: the sequence runs past its end.
AmountLegal(t) == req[t].amount <= MaxAmount

InsertLegal(t) == req[t].amount <= MaxAmount /\ nextTx <= MaxTx

\* INSERT of the transaction row, and of its flagged row when there is one.
Insert(t) ==
    /\ pc[t] = "updated"
    /\ InsertLegal(t)
    /\ pc' = [pc EXCEPT ![t] = "recorded"]
    /\ req' = [req EXCEPT ![t].tx = nextTx]
    /\ nextTx' = nextTx + 1
    /\ UNCHANGED <<account, txn, flag, seen, draft, locks, events>>

\* The amount does not fit the column, or the sequence is at its end.
InsertFails(t) ==
    /\ pc[t] = "updated"
    /\ ~InsertLegal(t)
    /\ Rollback(t)

\* notify_flagged is awaited inside the database transaction.
Notify(t) ==
    /\ pc[t] = "recorded"
    /\ req[t].decision = "Bloqueada"
    /\ pc' = [pc EXCEPT ![t] = "notified"]
    /\ announced' = announced \cup {req[t].tx}
    /\ UNCHANGED <<database, req, seen, draft, locks, lastEvent>>

\* Mutant: a flagged transaction may commit before its alert.
Recorded(t) == pc[t] \in {"recorded", "notified"}

\* The handler has returned: a flagged transaction's alert is out by then.
ReadyToCommit(t) ==
    /\ pc[t] \in {"recorded", "notified"}
    /\ req[t].decision = "Bloqueada" => pc[t] = "notified"

\* session.begin() exits normally: COMMIT, and the 201 response.
CommitSubmit(t) ==
    LET r == req[t] IN
    /\ ReadyToCommit(t)
    /\ account' = [account EXCEPT ![r.account] = draft[t]]
    /\ txn' = [txn EXCEPT ![r.tx] =
                 [account |-> r.account, amount |-> r.amount, state |-> r.decision]]
    /\ flag' = [flag EXCEPT ![r.tx] =
                 IF r.decision = "Bloqueada" THEN "Revision Pendiente" ELSE @]
    /\ Unlock(t)
    /\ Forget(t)
    /\ UNCHANGED <<nextTx, events>>

-----------------------------------------------------------------------------
(* AuditService.resolve_flagged *)

\* Mutant: a resolved case can be taken up again.
OpenIfFlagged(x) == flag[x] # "Absent"

\* The case of transaction x is there and not resolved.
Open(x) == flag[x] \notin Resolved \cup {"Absent"}

\* The flagged row and its transaction are read without a lock; only the state
\* read here decides whether the case is still open.
ReadFlag(u, x, decision) ==
    /\ pc[u] = "idle"
    /\ Open(x)
    /\ pc' = [pc EXCEPT ![u] = "review"]
    /\ req' = [req EXCEPT ![u] = [account |-> txn[x].account, amount |-> txn[x].amount,
                                  tx |-> x, decision |-> decision]]
    /\ UNCHANGED <<database, seen, draft, locks, events>>

HoldCovers(row, amount) == row.reserved >= amount

\* Mutant: a plain SELECT of the account.
ReadAccount(u) ==
    LET a == req[u].account IN
    /\ pc[u] = "review"
    /\ req[u].decision \in Resolved
    /\ HoldCovers(account[a], req[u].amount)
    /\ pc' = [pc EXCEPT ![u] = "locked"]
    /\ seen' = [seen EXCEPT ![u] = account[a]]
    /\ UNCHANGED <<database, req, draft, locks, events>>

\* SELECT ... FOR UPDATE of the account, for a decision that moves money.
LockAccount(u) ==
    LET a == req[u].account IN
    /\ pc[u] = "review"
    /\ req[u].decision \in Resolved
    /\ RowFree(u, a)
    /\ HoldCovers(account[a], req[u].amount)
    /\ pc' = [pc EXCEPT ![u] = "locked"]
    /\ seen' = [seen EXCEPT ![u] = account[a]]
    /\ rowLock' = [rowLock EXCEPT ![a] = u]
    /\ UNCHANGED <<database, req, draft, flagLock, events>>

\* "insufficient held funds".
HoldMissing(u) ==
    /\ pc[u] = "review"
    /\ req[u].decision \in Resolved
    /\ RowFree(u, req[u].account)
    /\ ~HoldCovers(account[req[u].account], req[u].amount)
    /\ Rollback(u)

\* The transaction's state (under the account lock) and the flagged row's are
\* written.  The UPDATE of the flagged row has no condition on its state.
Mark(u) ==
    LET r == req[u] IN
    /\ pc[u] \in {"review", "updated"}
    /\ pc[u] = "updated" <=> r.decision \in Resolved
    /\ FlagFree(u, r.tx)
    /\ pc' = [pc EXCEPT ![u] = "marked"]
    /\ flagLock' = [flagLock EXCEPT ![r.tx] = u]
    /\ UNCHANGED <<database, req, seen, draft, rowLock, events>>

\* Mutant: a rejection leaves the transaction held.
SettledIfApproved(decision, state) ==
    IF decision = "Aprobado" THEN "Aprobada" ELSE state

\* The transaction state each decision writes; the others write none.
Settled(decision, state) ==
    CASE decision = "Aprobado" -> "Aprobada"
      [] decision = "Bloqueado" -> "Rechazada"
      [] OTHER -> state

CommitReview(u) ==
    LET r == req[u] IN
    /\ pc[u] = "marked"
    /\ pc' = [pc EXCEPT ![u] = "committed"]
    /\ account' = IF r.decision \in Resolved
                    THEN [account EXCEPT ![r.account] = draft[u]] ELSE account
    /\ txn' = [txn EXCEPT ![r.tx].state = Settled(r.decision, @)]
    /\ flag' = [flag EXCEPT ![r.tx] = r.decision]
    /\ seen' = [seen EXCEPT ![u] = Absent]
    /\ draft' = [draft EXCEPT ![u] = Absent]
    /\ Unlock(u)
    /\ UNCHANGED <<nextTx, req, events>>

EventStatus(decision) ==
    CASE decision = "Aprobado" -> "Aprobada"
      [] decision = "Bloqueado" -> "Rechazada"
      [] OTHER -> "Under Review"

\* routes.py broadcasts the verdict once the database transaction is over.
Broadcast(u) ==
    /\ pc[u] = "committed"
    /\ lastEvent' = [lastEvent EXCEPT ![req[u].tx] = EventStatus(req[u].decision)]
    /\ Forget(u)
    /\ UNCHANGED <<database, locks, announced>>

-----------------------------------------------------------------------------

\* What every request does at its versioned UPDATE, a teller's and an auditor's.
UpdateStep(s) == Update(s) \/ UpdateFails(s) \/ Conflict(s)

TellerStep(t) ==
    \/ \E d \in {"Aprobada", "Bloqueada"} : Screen(t, d)
    \/ Insert(t)
    \/ InsertFails(t)
    \/ Notify(t)
    \/ CommitSubmit(t)

AuditorStep(u) ==
    \/ LockAccount(u)
    \/ HoldMissing(u)
    \/ Mark(u)
    \/ CommitReview(u)
    \/ Broadcast(u)

Next ==
    \/ \E t \in Tellers :
         \/ \E a \in Accounts, m \in Amounts : Submit(t, a, m)
         \/ TellerStep(t)
    \/ \E u \in Auditors :
         \/ \E x \in TxIds, d \in AuditState : ReadFlag(u, x, d)
         \/ AuditorStep(u)
    \/ \E s \in Sessions : UpdateStep(s) \/ Abort(s)

Spec == Init /\ [][Next]_vars

\* What a request does by itself once it has been accepted: the event loop runs
\* it again when its await is over, and PostgreSQL grants row locks in the order
\* they are asked for, so no request is passed over for ever.
Step(s) ==
    \/ s \in Tellers /\ TellerStep(s)
    \/ s \in Auditors /\ AuditorStep(s)
    \/ UpdateStep(s)

FairSpec == Spec /\ \A s \in Sessions : SF_vars(Step(s))

-----------------------------------------------------------------------------
(* Properties *)

\* The money held for review never exceeds the money in the account, and both
\* stay non-negative.  The database checks only that each is not negative; the
\* rest relies on the check of the available balance made on an unlocked read
\* (transactions.py:73-75) and on the version the UPDATE asks for.
Solvent ==
    \A a \in Accounts : 0 <= account[a].reserved /\ account[a].reserved <= account[a].balance

\* Whatever a session is about to write on the row it expects respects the CHECK
\* constraints of init.sql:22-23, so they never turn a request into an HTTP 500.
ConstraintsNeverFire ==
    \A s \in Sessions :
        (pc[s] \in ReadyToUpdate /\ VersionMatches(s)) =>
            Target(s).balance >= 0 /\ Target(s).reserved >= 0

\* No committed write is lost: a COMMIT that changes an account row builds on
\* the row it replaces, never on one another session has replaced since.
NoLostUpdate ==
    [][\A a \in Accounts : account'[a] # account[a] =>
          account'[a].version = account[a].version + 1]_vars

\* A resolution that moves money reads the account under its lock, so its
\* versioned UPDATE never fails with "account version mismatch"
\* (audit.py:72-73, 99-100).
ReviewNeverConflicts ==
    \A u \in Auditors : pc[u] = "locked" => VersionMatches(u)

\* An alert for a flagged transaction is broadcast before the transaction can be
\* seen and reviewed: no case waits in the queue without its alert.
FlaggedWasAnnounced ==
    \A x \in TxIds : flag[x] # "Absent" => x \in announced

\* The transactions of account a in a state, and their total.
Entries(a, state) == {x \in TxIds : txn[x].state = state /\ txn[x].account = a}

Total(a, state) == SumFunction([x \in Entries(a, state) |-> txn[x].amount])

\* The balance is what the account opened with less every approved transaction,
\* and the reserved balance is the sum of the transactions held for review.
Reconciled ==
    \A a \in Accounts :
        /\ account[a].balance = Opening[a] - Total(a, "Aprobada")
        /\ account[a].reserved = Total(a, "Bloqueada")

\* A flagged transaction that was approved or rejected stays so: audit.py:42-43
\* answers "flagged transaction already resolved" to a second resolution.
ResolutionIsFinal ==
    [][\A x \in TxIds : flag[x] \in Resolved => flag'[x] = flag[x]]_vars

\* A verdict clients were told of is the verdict on record
\* (routes.py:233-246 broadcasts after the COMMIT).
VerdictOnRecord ==
    \A x \in TxIds : lastEvent[x] \in TransactionState => txn[x].state = lastEvent[x]

\* Only positive amounts are recorded: transactions.py:57-58 answers "amount
\* must be positive" to the others.
AmountsPositive ==
    \A x \in TxIds : txn[x] # Absent => txn[x].amount > 0

\* Every request accepted is answered, whatever locks it waits for.
RequestsEnd == \A s \in Sessions : pc[s] # "idle" ~> pc[s] = "idle"
=============================================================================
