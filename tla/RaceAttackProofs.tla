-------------------------- MODULE RaceAttackProofs --------------------------
(***************************************************************************)
(* The race-condition attack against a ledger with one auditor: whatever    *)
(* the interleaving, the balance is spent once and the simulator's verdict  *)
(* is true.  RInv is the inductive invariant of the attack; the ledger's    *)
(* own invariants, and the reconciled books, carry the argument.            *)
(***************************************************************************)
EXTENDS RaceAttack, LedgerProofs

\* What shot i asked for, in its request or in its row: all the account held when
\* the attack was launched, on the account under attack.
Asked(entry) ==
    /\ entry.amount = amount[entry.account]
    /\ amount[entry.account] # 0
    /\ target # None => entry.account = target

\* How far shot i is, and what the simulator knows of it.
ShotOK(i) ==
    /\ Serving(i) =>
         shot[i] = NoneYet /\ status[i] \in {"sent", "lost"} /\ Asked(req[teller[i]])
    /\ shot[i] \in TxIds =>
         /\ txn[shot[i]] \in TransactionRow
         /\ Asked(txn[shot[i]])
         /\ txn[shot[i]].state = "Aprobada" => account[txn[shot[i]].account].balance = 0
    /\ status[i] \in {"token", "post"} => ~Serving(i) /\ shot[i] = NoneYet
    /\ status[i] = "sent" => Serving(i) \/ shot[i] # NoneYet
    /\ status[i] = "ok" => ~Serving(i) /\ shot[i] \in TxIds
    /\ status[i] = "error" => ~Serving(i) /\ shot[i] = Refusal

\* Shot i has a request or a row, on an account.
Live(i) == Serving(i) \/ shot[i] \in TxIds
AccountOf(i) == IF Serving(i) THEN req[teller[i]].account ELSE txn[shot[i]].account

\* The shots have a teller each and one account.
PairOK ==
    \A i, j \in Shots : 
        /\ Serving(i) /\ Serving(j) /\ teller[i] = teller[j] => i = j
        /\ Live(i) /\ Live(j) => AccountOf(i) = AccountOf(j)

\* What was read when the attack was launched is not less than what is there now.
AmountsOK ==
    /\ \A a \in Accounts : amount[a] # 0 => account[a].balance <= amount[a]
    /\ \A a \in targets : amount[a] # 0
    /\ target # None => amount[target] # 0
    /\ verdict = "none" => target = None /\ \A i \in Shots : status[i] = "token"

\* The verdict is drawn from answers that have arrived.
VerdictOK ==
    /\ verdict \in Verdict => Answered
    /\ verdict = "VULNERABLE" => \A i \in Shots : status[i] = "ok"
    /\ verdict = "PROTEGIDO" => /\ \E i \in Shots : status[i] = "ok"
                                /\ \E i \in Shots : status[i] # "ok"
    /\ verdict = "RECHAZADO_TOTAL" => \A i \in Shots : status[i] # "ok"

RInv ==
    /\ AttackTypeOK
    /\ AmountsOK
    /\ \A i \in Shots : ShotOK(i)
    /\ PairOK
    /\ SpentOnce
    /\ VerdictOK

\* The ledger under attack keeps its own invariants.
LInv == IInv /\ JInv /\ Reconciled


-----------------------------------------------------------------------------
(* What a step of the ledger may do *)

\* A held transaction is reserved in its account.
LEMMA HeldIsReserved ==
    ASSUME IInv, Reconciled, NEW x \in TxIds, txn[x] \in TransactionRow,
           txn[x].state = "Bloqueada"
    PROVE  txn[x].amount <= account[txn[x].account].reserved
  <1> DEFINE a == txn[x].account
  <1>1. PICK old, new :
          /\ old = txn /\ new = txn'
          /\ \A b, st : Total(b, st) = TotalOf(old, b, st) /\ Total(b, st)' = TotalOf(new, b, st)
    BY TotalOfTxn
  <1>2. old \in Table /\ a \in Accounts /\ x \in EntriesOf(old, a, "Bloqueada")
    BY <1>1 DEF IInv, TypeOK, Table, TransactionRow, EntriesOf
  <1>3. /\ IsFiniteSet(EntriesOf(old, a, "Bloqueada"))
        /\ \A y \in EntriesOf(old, a, "Bloqueada") :
             PartsOf(old, a, "Bloqueada")[y] = old[y].amount /\ old[y].amount \in Nat
        /\ TotalOf(old, a, "Bloqueada") =
             SumFunctionOnSet(PartsOf(old, a, "Bloqueada"), EntriesOf(old, a, "Bloqueada"))
    <2>1. "Bloqueada" \in TransactionState
      BY DEF TransactionState
    <2> QED BY <1>2, <2>1, TotalAdds
  <1>4. PartsOf(old, a, "Bloqueada")[x] <= TotalOf(old, a, "Bloqueada")
    <2>1. \A y \in EntriesOf(old, a, "Bloqueada") : PartsOf(old, a, "Bloqueada")[y] \in Nat
      BY <1>3
    <2> QED BY <1>2, <1>3, <2>1, SumMember
  <1>5. account[a].reserved = TotalOf(old, a, "Bloqueada")
    BY <1>1, <1>2 DEF Reconciled
  <1> QED BY <1>1, <1>2, <1>3, <1>4, <1>5

\* Money leaves an account and never comes in; a row keeps its account and its
\* amount, a verdict is final, and an approval takes the amount.
LEMMA BooksMove ==
    ASSUME IInv, JInv, [Next]_vars
    PROVE  /\ \A a \in Accounts : account'[a].balance <= account[a].balance
           /\ \A x \in TxIds : txn[x] \in TransactionRow =>
                /\ txn'[x] \in TransactionRow
                /\ txn'[x].account = txn[x].account /\ txn'[x].amount = txn[x].amount
                /\ txn[x].state \in {"Aprobada", "Rechazada"} => txn'[x].state = txn[x].state
                /\ txn'[x].state = "Aprobada" /\ txn[x].state # "Aprobada" =>
                     account'[txn[x].account].balance =
                       account[txn[x].account].balance - txn[x].amount
  <1>0. account \in [Accounts -> AccountRow] /\ txn \in Table
    BY DEF IInv, TypeOK, Table
  <1>1. CASE UNCHANGED <<account, txn>>
    BY <1>0, <1>1 DEF AccountRow
  <1>2. ASSUME NEW t \in Tellers, CommitSubmit(t)
        PROVE  /\ \A a \in Accounts : account'[a].balance <= account[a].balance
               /\ \A x \in TxIds : txn[x] \in TransactionRow => txn'[x] = txn[x]
    <2> DEFINE r == req[t]
    <2>1. /\ r.amount \in Nat /\ r.account \in Accounts /\ r.tx \in TxIds
          /\ r.decision \in {"Aprobada", "Bloqueada"}
          /\ txn[r.tx] = Absent
          /\ account' = [account EXCEPT ![r.account] =
                            Moved(account[r.account], BalanceDelta(r.decision, r.amount),
                                                      ReservedDelta(r.decision, r.amount))]
          /\ txn' = [txn EXCEPT ![r.tx] = [account |-> r.account, amount |-> r.amount,
                                            state |-> r.decision]]
      BY <1>2, SubmissionWrites
    <2>2. Absent \notin TransactionRow
      BY DEF Absent, TransactionRow, TransactionState
    <2> HIDE DEF r
    <2> QED BY <1>0, <2>1, <2>2 DEF Moved, BalanceDelta, AccountRow, Table
  <1>3. ASSUME NEW u \in Auditors, CommitReview(u), ~UNCHANGED <<account, txn>>
        PROVE  /\ \A a \in Accounts : account'[a].balance <= account[a].balance
               /\ \A x \in TxIds : txn[x] \in TransactionRow =>
                /\ txn'[x] \in TransactionRow
                /\ txn'[x].account = txn[x].account /\ txn'[x].amount = txn[x].amount
                /\ txn[x].state \in {"Aprobada", "Rechazada"} => txn'[x].state = txn[x].state
                /\ txn'[x].state = "Aprobada" /\ txn[x].state # "Aprobada" =>
                     account'[txn[x].account].balance =
                       account[txn[x].account].balance - txn[x].amount
    <2> DEFINE r == req[u]
    <2>1. /\ r.decision \in Resolved
          /\ r.tx \in TxIds /\ r.account \in Accounts /\ r.amount \in Nat
          /\ txn[r.tx] # Absent /\ txn[r.tx].state = "Bloqueada"
          /\ txn[r.tx].account = r.account /\ txn[r.tx].amount = r.amount
          /\ account' = [account EXCEPT ![r.account] =
                           Moved(account[r.account], BalanceDelta(r.decision, r.amount),
                                                     ReservedDelta(r.decision, r.amount))]
          /\ txn' = [txn EXCEPT ![r.tx].state = Settled(r.decision, @)]
      BY <1>3, ReviewWrites
    <2> HIDE DEF r
    <2>2. /\ \A a \in Accounts \ {r.account} : account'[a] = account[a]
          /\ account'[r.account].balance =
               account[r.account].balance + BalanceDelta(r.decision, r.amount)
      BY <1>0, <2>1 DEF Moved
    <2>3. txn[r.tx] \in TransactionRow
      BY <1>0, <2>1 DEF Table
    <2>4. Settled(r.decision, txn[r.tx].state) =
            IF r.decision = "Aprobado" THEN "Aprobada" ELSE "Rechazada"
      BY <2>1 DEF Settled, Resolved
    <2>5. /\ txn'[r.tx].state = IF r.decision = "Aprobado" THEN "Aprobada" ELSE "Rechazada"
          /\ txn'[r.tx].account = r.account /\ txn'[r.tx].amount = r.amount
          /\ txn'[r.tx] \in TransactionRow
          /\ \A x \in TxIds \ {r.tx} : txn'[x] = txn[x]
      BY <1>0, <2>1, <2>3, <2>4 DEF Table, TransactionRow, TransactionState
    <2>6. \A a \in Accounts : account'[a].balance <= account[a].balance
      BY <1>0, <2>1, <2>2 DEF BalanceDelta, AccountRow
    <2>7. r.decision = "Aprobado" =>
            account'[r.account].balance = account[r.account].balance - r.amount
      BY <1>0, <2>1, <2>2 DEF BalanceDelta, AccountRow
    <2> QED BY <2>1, <2>5, <2>6, <2>7
  <1> QED BY <1>1, <1>2, <1>3, OnlyCommitsWrite

\* A teller at work goes on with its request, gives it up or commits it.
LEMMA TellerFollows ==
    ASSUME IInv, Next, NEW t \in Tellers, pc[t] # "idle"
    PROVE  \/ /\ pc'[t] # "idle"
              /\ req'[t].account = req[t].account /\ req'[t].amount = req[t].amount
           \/ pc'[t] = "idle" /\ UNCHANGED <<account, txn>>
           \/ /\ CommitSubmit(t)
              /\ \A v \in Tellers \ {t} : pc'[v] = pc[v]
  <1>0. /\ t \in Sessions /\ t \notin Auditors
        /\ pc \in [Sessions -> Phase] /\ req \in [Sessions -> Request \cup {NoRequest}]
        /\ req[t] \in Request
    BY SessionAssumption DEF IInv, TypeOK, SessionOK, RequestOK, Sessions
  <1>1. ASSUME NEW v \in Tellers, NEW a \in Accounts, NEW m \in Amounts, Submit(v, a, m)
        PROVE  pc'[t] = pc[t] /\ req'[t] = req[t]
    BY <1>0, <1>1 DEF Submit
  <1>2. ASSUME NEW s \in Sessions, s # t,
               \/ TellerStep(s) \/ AuditorStep(s) \/ UpdateStep(s) \/ Abort(s)
               \/ \E x \in TxIds, d \in AuditState : ReadFlag(s, x, d)
        PROVE  pc'[t] = pc[t] /\ req'[t] = req[t]
    BY <1>0, <1>2 DEF TellerStep, Screen, Insert, InsertFails, Notify, CommitSubmit, AuditorStep,
         LockAccount, HoldMissing, Mark, CommitReview, Broadcast, UpdateStep, Update, UpdateFails,
         Conflict, Abort, ReadFlag, Rollback, Forget
  <1>3. CASE \E d \in {"Aprobada", "Bloqueada"} : Screen(t, d)
    BY <1>0, <1>3 DEF Screen, Request
  <1>4. CASE Insert(t)
    BY <1>0, <1>4 DEF Insert, Request
  <1>5. CASE Notify(t)
    BY <1>0, <1>5 DEF Notify
  <1>6. CASE Update(t)
    BY <1>0, <1>6 DEF Update
  <1>7. CASE Rollback(t)
    BY <1>0, <1>7 DEF Rollback, Forget, database
  <1>8. CASE CommitSubmit(t)
    BY <1>0, <1>8 DEF CommitSubmit, Forget, Sessions
  <1> QED BY <1>0, <1>1, <1>2, <1>3, <1>4, <1>5, <1>6, <1>7, <1>8
         DEF Next, TellerStep, UpdateStep, InsertFails, UpdateFails, Conflict, Abort, Sessions

-----------------------------------------------------------------------------
(* Steps of the backend *)

\* A step of the ledger that ends a shot's request records it or refuses it.
LEMMA ShotFollows ==
    ASSUME LInv, RInv, Backend, NEW i \in Shots
    PROVE  \/ shot'[i] = shot[i] /\ teller'[i] = None /\ ~Serving(i)
           \/ /\ Serving(i) /\ shot'[i] = shot[i] /\ teller'[i] = teller[i]
              /\ req'[teller[i]].account = req[teller[i]].account
              /\ req'[teller[i]].amount = req[teller[i]].amount
              /\ pc'[teller[i]] # "idle"
           \/ Serving(i) /\ shot'[i] = Refusal /\ teller'[i] = None
           \/ /\ CommitSubmit(teller[i])
              /\ Serving(i) /\ shot'[i] = req[teller[i]].tx /\ teller'[i] = None
              /\ \A j \in Shots \ {i} : shot'[j] = shot[j]
  <1>1. /\ shot' = [j \in Shots |-> IF ~Ends(j) THEN shot[j]
                                    ELSE IF txn' = txn THEN Refusal ELSE req[teller[j]].tx]
        /\ teller' = [j \in Shots |-> IF Ends(j) THEN None ELSE teller[j]]
    BY DEF Backend, Followed
  <1>2. CASE ~Serving(i)
    BY <1>1, <1>2 DEF Ends, Serving
  <1>3. CASE Serving(i)
    <2> DEFINE t == teller[i]
    <2>1. t \in Tellers /\ pc[t] # "idle" /\ IInv /\ Next
      BY <1>3 DEF RInv, AttackTypeOK, Serving, LInv, Backend
    <2>2. CASE /\ pc'[t] # "idle"
               /\ req'[t].account = req[t].account /\ req'[t].amount = req[t].amount
      BY <1>1, <1>3, <2>2 DEF Ends
    <2>3. CASE pc'[t] = "idle" /\ UNCHANGED <<account, txn>>
      BY <1>1, <1>3, <2>3 DEF Ends
    <2>4. CASE CommitSubmit(t) /\ \A v \in Tellers \ {t} : pc'[v] = pc[v]
      <3>1. txn' # txn
        <4>1. /\ txn[req[t].tx] = Absent /\ req[t].tx \in TxIds /\ txn \in Table
              /\ req[t].decision # "Absent"
              /\ txn' = [txn EXCEPT ![req[t].tx] = [account |-> req[t].account,
                            amount |-> req[t].amount, state |-> req[t].decision]]
          BY <2>1, <2>4, SubmissionWrites DEF LInv
        <4>2. txn'[req[t].tx].state # txn[req[t].tx].state
          BY <4>1 DEF Table, Absent
        <4> QED BY <4>2
      <3>2. pc'[t] = "idle"
        BY <2>1, <2>4 DEF CommitSubmit, Forget, IInv, TypeOK, Sessions
      <3>3. \A j \in Shots \ {i} : ~Ends(j)
        <4> SUFFICES ASSUME NEW j \in Shots \ {i}, Serving(j) PROVE pc'[teller[j]] # "idle"
          BY DEF Ends
        <4>1. teller[j] \in Tellers /\ pc[teller[j]] # "idle" /\ teller[j] # t
          BY <1>3 DEF RInv, AttackTypeOK, PairOK, Serving
        <4> QED BY <2>4, <4>1
      <3> QED BY <1>1, <1>3, <2>4, <3>1, <3>2, <3>3 DEF Ends
    <2> QED BY <2>1, <2>2, <2>3, <2>4, TellerFollows
  <1> QED BY <1>2, <1>3

\* The submission that is recorded leaves nothing of the balance read.
LEMMA RecordedShot ==
    ASSUME LInv, RInv, NEW i \in Shots, Serving(i), CommitSubmit(teller[i])
    PROVE  LET r == req[teller[i]] IN
           /\ r.tx \in TxIds /\ r.account \in Accounts /\ Asked(r)
           /\ r.amount <= account[r.account].balance - account[r.account].reserved
           /\ txn'[r.tx] \in TransactionRow
           /\ txn'[r.tx].account = r.account /\ txn'[r.tx].amount = r.amount
           /\ txn'[r.tx].state = "Aprobada" =>
                account'[r.account].balance = account[r.account].balance - r.amount
  <1> DEFINE r == req[teller[i]]
  <1>1. teller[i] \in Tellers /\ IInv /\ JInv /\ Asked(r)
    BY DEF RInv, AttackTypeOK, Serving, LInv, ShotOK
  <1>2. /\ account \in [Accounts -> AccountRow] /\ txn \in Table
        /\ r.tx \in TxIds /\ r.account \in Accounts /\ r.amount \in Nat
        /\ r.decision \in {"Aprobada", "Bloqueada"}
        /\ r.amount <= account[r.account].balance - account[r.account].reserved
        /\ account' = [account EXCEPT ![r.account] =
                         Moved(account[r.account], BalanceDelta(r.decision, r.amount),
                                                   ReservedDelta(r.decision, r.amount))]
        /\ txn' = [txn EXCEPT ![r.tx] = [account |-> r.account, amount |-> r.amount,
                                         state |-> r.decision]]
    BY <1>1, SubmissionWrites
  <1> DEFINE row == [account |-> r.account, amount |-> r.amount, state |-> r.decision]
  <1>3. /\ row \in TransactionRow
        /\ row.account = r.account /\ row.amount = r.amount /\ row.state = r.decision
    BY <1>2 DEF TransactionRow, TransactionState
  <1>4. txn'[r.tx] = row
    BY <1>2 DEF Table
  <1>5. r.decision = "Aprobada" =>
          account'[r.account].balance = account[r.account].balance - r.amount
    BY <1>2 DEF Moved, BalanceDelta, AccountRow
  <1> HIDE DEF r, row
  <1> QED BY <1>1, <1>2, <1>3, <1>4, <1>5 DEF r, row

\* Both invariants survive a step of the ledger.
LEMMA BackendInv ==
    ASSUME LInv, LInv', RInv, Backend
    PROVE  RInv'
  <1>1. UNCHANGED <<amount, targets, target, status, verdict>> /\ Next
    BY DEF Backend, Followed
  <1>2. /\ \A a \in Accounts : account'[a].balance <= account[a].balance
        /\ \A x \in TxIds : txn[x] \in TransactionRow =>
             /\ txn'[x] \in TransactionRow
             /\ txn'[x].account = txn[x].account /\ txn'[x].amount = txn[x].amount
             /\ txn[x].state \in {"Aprobada", "Rechazada"} => txn'[x].state = txn[x].state
             /\ txn'[x].state = "Aprobada" /\ txn[x].state # "Aprobada" =>
                  account'[txn[x].account].balance =
                    account[txn[x].account].balance - txn[x].amount
    BY <1>1, BooksMove DEF LInv
  <1>3. \A a \in Accounts : /\ account[a].balance \in Nat /\ account[a].reserved \in Nat
                            /\ account'[a].balance \in Nat /\ amount[a] \in Nat
                            /\ amount[a] # 0 => account[a].balance <= amount[a]
    BY DEF LInv, IInv, TypeOK, AccountRow, RInv, AttackTypeOK, AmountsOK
  <1>4. AttackTypeOK'
    <2>1. shot' \in [Shots -> {NoneYet, Refusal} \cup TxIds]
      <3>1. \A i \in Shots : shot'[i] \in {NoneYet, Refusal} \cup TxIds
        BY ShotFollows, RecordedShot DEF RInv, AttackTypeOK
      <3> QED BY <3>1 DEF Backend, Followed
    <2>2. teller' \in [Shots -> Tellers \cup {None}]
      BY DEF Backend, Followed, RInv, AttackTypeOK
    <2>3. \A i \in Shots : teller'[i] # None => pc'[teller'[i]] # "idle"
      BY ShotFollows
    <2> QED BY <1>1, <2>1, <2>2, <2>3 DEF RInv, AttackTypeOK
  <1>5. AmountsOK'
    BY <1>1, <1>2, <1>3 DEF RInv, AmountsOK, AttackTypeOK
  <1>6. ASSUME NEW i \in Shots PROVE ShotOK(i)'
    <2>1. ShotOK(i) /\ NoneYet \notin TxIds /\ Refusal \notin TxIds /\ NoneYet # Refusal
      BY DEF RInv, TxIds, NoneYet, Refusal
    <2>2. ASSUME shot[i] \in TxIds, shot'[i] = shot[i], teller'[i] = None, ~Serving(i)
          PROVE  /\ txn'[shot[i]] \in TransactionRow
                 /\ Asked(txn[shot[i]])'
                 /\ txn'[shot[i]].state = "Aprobada" =>
                      account'[txn'[shot[i]].account].balance = 0
      <3> DEFINE x == shot[i]
                 a == txn[x].account
      <3>1. /\ txn[x] \in TransactionRow /\ a \in Accounts
            /\ txn[x].amount = amount[a] /\ amount[a] # 0
            /\ target # None => a = target
            /\ txn[x].state = "Aprobada" => account[a].balance = 0
        BY <2>1, <2>2 DEF ShotOK, Asked, TransactionRow
      <3>2. /\ txn'[x] \in TransactionRow
            /\ txn'[x].account = a /\ txn'[x].amount = txn[x].amount
            /\ txn'[x].state = "Aprobada" /\ txn[x].state # "Aprobada" =>
                 account'[a].balance = account[a].balance - txn[x].amount
            /\ account'[a].balance <= account[a].balance
        BY <1>2, <2>2, <3>1
      <3>3. txn'[x].state = "Aprobada" => account'[a].balance = 0
        BY <1>3, <3>1, <3>2
      <3> QED BY <1>1, <2>2, <3>1, <3>2, <3>3 DEF Asked
    <2>3. CASE shot'[i] = shot[i] /\ teller'[i] = None /\ ~Serving(i)
      BY <1>1, <2>1, <2>2, <2>3 DEF ShotOK, Serving
    <2>4. CASE /\ Serving(i) /\ shot'[i] = shot[i] /\ teller'[i] = teller[i]
               /\ req'[teller[i]].account = req[teller[i]].account
               /\ req'[teller[i]].amount = req[teller[i]].amount
      BY <1>1, <2>1, <2>4 DEF ShotOK, Serving, Asked
    <2>5. CASE Serving(i) /\ shot'[i] = Refusal /\ teller'[i] = None
      BY <1>1, <2>1, <2>5 DEF ShotOK, Serving
    <2>6. CASE /\ CommitSubmit(teller[i])
               /\ Serving(i) /\ shot'[i] = req[teller[i]].tx /\ teller'[i] = None
      <3> DEFINE r == req[teller[i]]
                 x == r.tx
      <3>1. /\ x \in TxIds /\ r.account \in Accounts
            /\ r.amount = amount[r.account] /\ amount[r.account] # 0
            /\ target # None => r.account = target
            /\ r.amount <= account[r.account].balance - account[r.account].reserved
            /\ txn'[x] \in TransactionRow
            /\ txn'[x].account = r.account /\ txn'[x].amount = r.amount
            /\ txn'[x].state = "Aprobada" =>
                 account'[r.account].balance = account[r.account].balance - r.amount
        BY <2>6, RecordedShot DEF Asked
      <3>2. txn'[x].state = "Aprobada" => account'[r.account].balance = 0
        BY <1>3, <3>1
      <3>3. Asked(txn[shot[i]])'
        BY <1>1, <3>1, <2>6 DEF Asked
      <3> QED BY <1>1, <2>1, <2>6, <3>1, <3>2, <3>3 DEF ShotOK, Serving
    <2> QED BY <2>3, <2>4, <2>5, <2>6, ShotFollows
  <1>7. PairOK'
    <2>1. ASSUME NEW i \in Shots, Live(i)'
          PROVE  Live(i) /\ AccountOf(i)' = AccountOf(i)
      <3>1. NoneYet \notin TxIds /\ Refusal \notin TxIds /\ ShotOK(i)
        BY DEF RInv, TxIds, NoneYet, Refusal
      <3>2. CASE shot'[i] = shot[i] /\ teller'[i] = None /\ ~Serving(i)
        BY <1>2, <2>1, <3>1, <3>2 DEF Live, AccountOf, Serving, ShotOK
      <3>3. CASE /\ Serving(i) /\ shot'[i] = shot[i] /\ teller'[i] = teller[i]
                 /\ req'[teller[i]].account = req[teller[i]].account
        BY <3>3 DEF Live, AccountOf, Serving
      <3>4. CASE Serving(i) /\ shot'[i] = Refusal /\ teller'[i] = None
        BY <2>1, <3>1, <3>4 DEF Live, Serving
      <3>5. CASE /\ CommitSubmit(teller[i])
                 /\ Serving(i) /\ shot'[i] = req[teller[i]].tx /\ teller'[i] = None
        BY <3>5, RecordedShot DEF Live, AccountOf, Serving
      <3> QED BY <3>2, <3>3, <3>4, <3>5, ShotFollows
    <2>2. \A i \in Shots : Serving(i)' => Serving(i) /\ teller'[i] = teller[i]
      BY ShotFollows DEF Serving
    <2> QED BY <2>1, <2>2 DEF RInv, PairOK
  <1>8. SpentOnce'
    <2>1. NoneYet \notin TxIds /\ Refusal \notin TxIds
      BY DEF TxIds, NoneYet, Refusal
    <2>2. \A i \in Shots : shot[i] \in TxIds => txn[shot[i]] \in TransactionRow
      BY DEF RInv, ShotOK
    <2>3. CASE \A i \in Shots : shot'[i] \in TxIds => shot'[i] = shot[i]
      BY <1>2, <2>2, <2>3 DEF RInv, SpentOnce
    <2>4. ASSUME NEW i \in Shots, shot'[i] \in TxIds, shot'[i] # shot[i],
                 NEW j \in Shots \ {i}, shot'[j] \in TxIds
          PROVE  txn'[shot'[j]].state = "Rechazada"
      <3> DEFINE r == req[teller[i]]
                 a == r.account
                 x == shot[j]
      <3>1. CommitSubmit(teller[i]) /\ Serving(i) /\ shot'[j] = x
        BY <2>1, <2>4, ShotFollows
      <3>2. /\ a \in Accounts /\ r.amount = amount[a] /\ amount[a] # 0
            /\ r.amount <= account[a].balance - account[a].reserved
        BY <3>1, RecordedShot DEF Asked
      <3>3. ~Serving(j) /\ x \in TxIds /\ ShotOK(j)
        BY <2>1, <2>4, <3>1 DEF RInv, ShotOK
      <3>4. /\ txn[x] \in TransactionRow
            /\ txn[x].account = a /\ txn[x].amount = amount[a]
            /\ txn[x].state = "Aprobada" => account[a].balance = 0
        BY <3>1, <3>3 DEF ShotOK, Asked, RInv, PairOK, Live, AccountOf
      <3>5. txn[x].state # "Aprobada"
        BY <1>3, <3>2, <3>4
      <3>6. txn[x].state # "Bloqueada"
        <4> SUFFICES ASSUME txn[x].state = "Bloqueada" PROVE FALSE
          OBVIOUS
        <4>1. txn[x].amount <= account[a].reserved
          BY <3>3, <3>4, HeldIsReserved DEF LInv
        <4> QED BY <1>3, <3>2, <3>4, <4>1
      <3>7. txn[x].state = "Rechazada"
        BY <3>4, <3>5, <3>6 DEF TransactionRow, TransactionState
      <3> QED BY <1>2, <3>1, <3>3, <3>4, <3>7
    <2>5. \A i \in Shots : \E j \in Shots : j # i
      BY DEF Shots
    <2> QED BY <2>3, <2>4, <2>5 DEF SpentOnce
  <1>9. VerdictOK'
    BY <1>1 DEF RInv, VerdictOK, Answered
  <1> QED BY <1>4, <1>5, <1>6, <1>7, <1>8, <1>9 DEF RInv

-----------------------------------------------------------------------------
(* Steps of the simulator *)

\* Reading the balances: nothing has been asked for yet.
LEMMA LaunchInv ==
    ASSUME LInv, RInv, NEW chosen \in SUBSET Accounts, Launch(chosen)
    PROVE  RInv'
  <1>1. /\ verdict = "none" /\ chosen \subseteq Apt
        /\ amount' = [a \in Accounts |-> IF a \in chosen THEN account[a].balance ELSE 0]
        /\ targets' = chosen /\ verdict' = "running"
        /\ UNCHANGED <<account, txn, pc, req, target, teller, shot, status>>
    BY DEF Launch, ReadBalance, vars, database, locals
  <1>2. \A a \in chosen : account[a].balance \in Nat /\ account[a].balance # 0
    <2>1. \A a \in Accounts : account[a] \in AccountRow
      BY DEF LInv, IInv, TypeOK
    <2>2. \A a \in chosen : account[a].balance - account[a].reserved >= 1
      BY <1>1 DEF Apt, Available
    <2> QED BY <2>1, <2>2 DEF AccountRow
  <1>3. AttackTypeOK'
    BY <1>1, <1>2 DEF RInv, AttackTypeOK
  <1>4. target = None /\ \A i \in Shots : ~Serving(i) /\ shot[i] = NoneYet /\ status[i] = "token"
    BY <1>1 DEF RInv, AmountsOK, ShotOK
  <1>5. AmountsOK'
    <2>1. \A a \in Accounts : account[a].balance \in Nat
      BY DEF LInv, IInv, TypeOK, AccountRow
    <2> QED BY <1>1, <1>2, <1>4, <2>1 DEF AmountsOK
  <1>6. NoneYet \notin TxIds
    BY DEF NoneYet, TxIds
  <1>7. ASSUME NEW i \in Shots PROVE ShotOK(i)'
    BY <1>1, <1>4, <1>6 DEF ShotOK, Serving
  <1>8. PairOK' /\ SpentOnce'
    BY <1>1, <1>4, <1>6 DEF PairOK, Live, Serving, SpentOnce, Shots
  <1>9. VerdictOK'
    BY <1>1 DEF VerdictOK, Verdict
  <1> QED BY <1>3, <1>5, <1>7, <1>8, <1>9 DEF RInv

\* The next account starts afresh.
LEMMA AimInv ==
    ASSUME LInv, RInv, NEW a \in Accounts, Aim(a)
    PROVE  RInv'
  <1>1. /\ a \in targets /\ target' = a /\ targets' = targets \ {a}
        /\ teller' = [i \in Shots |-> None]
        /\ shot' = [i \in Shots |-> NoneYet]
        /\ status' = [i \in Shots |-> "token"]
        /\ verdict' = "running"
        /\ UNCHANGED <<account, txn, pc, req, amount>>
    BY DEF Aim, vars, database, locals
  <1>2. NoneYet \notin TxIds
    BY DEF NoneYet, TxIds
  <1>3. AttackTypeOK'
    BY <1>1 DEF RInv, AttackTypeOK
  <1>4. AmountsOK'
    BY <1>1 DEF RInv, AmountsOK
  <1>5. ASSUME NEW i \in Shots PROVE ShotOK(i)'
    BY <1>1, <1>2 DEF ShotOK, Serving
  <1>6. PairOK' /\ SpentOnce'
    BY <1>1, <1>2 DEF PairOK, Live, Serving, SpentOnce, Shots
  <1>7. VerdictOK'
    BY <1>1 DEF VerdictOK, Verdict
  <1> QED BY <1>3, <1>4, <1>5, <1>6, <1>7 DEF RInv

\* What the simulator learns of a shot does not touch the shot.
LEMMA LearnInv ==
    ASSUME LInv, RInv, NEW i \in Shots,
           GetToken(i) \/ TokenFails(i) \/ Answer(i) \/ NoAnswer(i)
    PROVE  RInv'
  <1>1. /\ UNCHANGED <<account, txn, pc, req, amount, targets, target, teller, shot>>
        /\ \/ UNCHANGED verdict
           \/ verdict' = "raised"
        /\ \A j \in Shots \ {i} : status'[j] = status[j]
        /\ \/ status[i] = "token" /\ status'[i] \in {"token", "post"} /\ target # None
           \/ status[i] = "sent" /\ ~Serving(i) /\ status'[i] = Success(i)
           \/ status[i] \in {"post", "sent"} /\ status'[i] = "lost"
        /\ status' \in [Shots -> {"token", "post", "sent", "ok", "error", "lost"}]
    BY DEF GetToken, TokenFails, Answer, NoAnswer, Aiming, vars, database, locals, RInv,
           AttackTypeOK, Success
  <1>2. AttackTypeOK'
    BY <1>1 DEF RInv, AttackTypeOK, Verdict
  <1>3. AmountsOK'
    BY <1>1 DEF RInv, AmountsOK
  <1>4. ASSUME NEW j \in Shots PROVE ShotOK(j)'
    <2>1. ShotOK(j) /\ shot[j] \in {NoneYet, Refusal} \cup TxIds
      BY DEF RInv, AttackTypeOK
    <2>2. CASE j = i
      BY <1>1, <2>1, <2>2 DEF ShotOK, Serving, Asked, Success
    <2>3. CASE j # i
      BY <1>1, <2>1, <2>3 DEF ShotOK, Serving, Asked
    <2> QED BY <2>2, <2>3
  <1>5. PairOK' /\ SpentOnce'
    BY <1>1 DEF RInv, PairOK, Live, Serving, AccountOf, SpentOnce
  <1>6. VerdictOK'
    <2>1. verdict \notin Verdict
      BY <1>1 DEF RInv, VerdictOK, Answered
    <2>2. verdict' \notin Verdict
      BY <1>1, <2>1 DEF Verdict
    <2> QED BY <2>2 DEF VerdictOK, Verdict
  <1> QED BY <1>2, <1>3, <1>4, <1>5, <1>6 DEF RInv

\* The request asks for the balance read, of the account under attack.
LEMMA PostInv ==
    ASSUME LInv, RInv, NEW i \in Shots, NEW t \in Tellers, Post(i, t)
    PROVE  RInv'
  <1>1. /\ t \in Sessions /\ target \in Accounts /\ amount[target] \in Nat
        /\ target # None /\ status[i] = "post"
        /\ ~Serving(i) /\ shot[i] = NoneYet /\ NoneYet \notin TxIds
    BY AccountAssumption DEF Post, Sessions, RInv, AttackTypeOK, ShotOK, NoneYet, TxIds
  <1>2. Cents(10 * amount[target]) = amount[target]
    BY <1>1 DEF Cents
  <1>3. /\ pc[t] = "idle" /\ pc' = [pc EXCEPT ![t] = "read"]
        /\ req' = [req EXCEPT ![t] = [account |-> target, amount |-> amount[target], tx |-> 0,
                                      decision |-> "Unknown"]]
        /\ teller' = [teller EXCEPT ![i] = t]
        /\ status' = [status EXCEPT ![i] = "sent"]
        /\ UNCHANGED <<account, txn, amount, targets, target, shot, verdict>>
    BY <1>2 DEF Post, Submit, database
  <1>4. /\ pc'[t] = "read"
        /\ req'[t].account = target /\ req'[t].amount = amount[target]
        /\ teller'[i] = t /\ t # None /\ status'[i] = "sent"
        /\ \A j \in Shots \ {i} : teller'[j] = teller[j] /\ status'[j] = status[j]
        /\ \A r \in Sessions \ {t} : pc'[r] = pc[r] /\ req'[r] = req[r]
    BY <1>1, <1>3, SessionAssumption DEF LInv, IInv, TypeOK, RInv, AttackTypeOK
  <1>5. \A j \in Shots : Serving(j) => teller[j] \in Sessions \ {t}
    BY <1>3 DEF RInv, AttackTypeOK, Serving, Sessions
  <1>6. AttackTypeOK'
    BY <1>1, <1>3, <1>4, <1>5 DEF RInv, AttackTypeOK, Serving
  <1>7. AmountsOK'
    BY <1>1, <1>3 DEF RInv, AmountsOK
  <1>8. ASSUME NEW j \in Shots PROVE ShotOK(j)'
    <2>1. ShotOK(j) /\ amount[target] # 0
      BY <1>1 DEF RInv, AmountsOK
    <2>2. CASE j = i
      BY <1>1, <1>3, <1>4, <2>1, <2>2 DEF ShotOK, Serving, Asked
    <2>3. CASE j # i
      BY <1>1, <1>3, <1>4, <1>5, <2>1, <2>3 DEF ShotOK, Serving, Asked
    <2> QED BY <2>2, <2>3
  <1>9. PairOK'
    <2>1. ASSUME NEW j \in Shots, Live(j)' PROVE AccountOf(j)' = target
      <3>1. ShotOK(j)'
        BY <1>8
      <3> QED BY <1>1, <1>3, <2>1, <3>1 DEF ShotOK, Live, AccountOf, Serving, Asked
    <2>2. \A j, k \in Shots : Serving(j)' /\ Serving(k)' /\ teller'[j] = teller'[k] => j = k
      BY <1>4, <1>5 DEF RInv, PairOK, Serving
    <2> QED BY <2>1, <2>2 DEF PairOK
  <1>10. SpentOnce'
    BY <1>3 DEF RInv, SpentOnce
  <1>11. VerdictOK'
    <2>1. verdict \notin Verdict
      BY <1>1 DEF RInv, VerdictOK, Answered
    <2> QED BY <1>3, <2>1 DEF VerdictOK, Verdict
  <1> QED BY <1>6, <1>7, <1>8, <1>9, <1>10, <1>11 DEF RInv

\* A refused shot records nothing.
LEMMA RefusedInv ==
    ASSUME LInv, RInv, NEW i \in Shots, Refused(i)
    PROVE  RInv'
  <1>1. /\ status[i] = "post" /\ target # None
        /\ ~Serving(i) /\ shot[i] = NoneYet
        /\ NoneYet \notin TxIds /\ Refusal \notin TxIds
    BY DEF Refused, RInv, ShotOK, NoneYet, Refusal, TxIds
  <1>2. /\ shot' = [shot EXCEPT ![i] = Refusal]
        /\ status' = [status EXCEPT ![i] = "error"]
        /\ UNCHANGED <<account, txn, pc, req, amount, targets, target, teller, verdict>>
    BY DEF Refused, vars, database, locals
  <1>3. /\ shot'[i] = Refusal /\ status'[i] = "error"
        /\ \A j \in Shots \ {i} : shot'[j] = shot[j] /\ status'[j] = status[j]
    BY <1>2 DEF RInv, AttackTypeOK
  <1>4. AttackTypeOK'
    BY <1>2 DEF RInv, AttackTypeOK
  <1>5. AmountsOK'
    BY <1>1, <1>2 DEF RInv, AmountsOK
  <1>6. ASSUME NEW j \in Shots PROVE ShotOK(j)'
    <2>1. ShotOK(j)
      BY DEF RInv
    <2>2. CASE j = i
      BY <1>1, <1>2, <1>3, <2>2 DEF ShotOK, Serving
    <2>3. CASE j # i
      BY <1>2, <1>3, <2>1, <2>3 DEF ShotOK, Serving, Asked
    <2> QED BY <2>2, <2>3
  <1>7. PairOK' /\ SpentOnce'
    BY <1>1, <1>2, <1>3 DEF RInv, PairOK, Live, Serving, AccountOf, SpentOnce
  <1>8. VerdictOK'
    <2>1. verdict \notin Verdict
      BY <1>1 DEF RInv, VerdictOK, Answered
    <2> QED BY <1>2, <2>1 DEF VerdictOK, Verdict
  <1> QED BY <1>4, <1>5, <1>6, <1>7, <1>8 DEF RInv

\* The verdict is drawn when both answers are in.
LEMMA ConcludeInv ==
    ASSUME LInv, RInv, Conclude
    PROVE  RInv'
  <1>1. /\ verdict = "running" /\ Answered
        /\ verdict' = CASE {i \in Shots : status[i] = "ok"} = Shots -> "VULNERABLE"
                        [] {i \in Shots : status[i] = "ok"} = {} -> "RECHAZADO_TOTAL"
                        [] OTHER -> "PROTEGIDO"
        /\ target' = None
        /\ UNCHANGED <<account, txn, pc, req, amount, targets, teller, shot, status>>
    BY DEF Conclude, Aiming, vars, database, locals
  <1>2. verdict' \in Verdict
    BY <1>1 DEF Verdict
  <1>3. AttackTypeOK'
    BY <1>1, <1>2 DEF RInv, AttackTypeOK
  <1>4. AmountsOK'
    BY <1>1, <1>2 DEF RInv, AmountsOK, Verdict
  <1>5. ASSUME NEW i \in Shots PROVE ShotOK(i)'
    <2>1. ShotOK(i)
      BY DEF RInv
    <2> QED BY <1>1, <2>1 DEF ShotOK, Serving, Asked
  <1>6. PairOK' /\ SpentOnce'
    BY <1>1 DEF RInv, PairOK, Live, Serving, AccountOf, SpentOnce
  <1>7. VerdictOK'
    BY <1>1 DEF VerdictOK, Answered
  <1> QED BY <1>3, <1>4, <1>5, <1>6, <1>7 DEF RInv

-----------------------------------------------------------------------------
(* The invariant *)

\* The ledger keeps its invariants under attack: the simulator only submits.
LEMMA AttackKeepsLedger ==
    ASSUME OneAuditor, LInv, AttackTypeOK, [AttackNext]_allvars
    PROVE  LInv'
  <1>1. CASE [Next]_vars
    BY <1>1, NextInv, NextCases, StepKeepsFunds DEF LInv
  <1>2. ASSUME NEW i \in Shots, NEW t \in Tellers, Post(i, t) PROVE LInv'
    <2>1. target \in Accounts /\ 10 * amount[target] \in Nat
      BY <1>2 DEF Post, AttackTypeOK
    <2>2. Submit(t, target, 10 * amount[target])
      BY <1>2 DEF Post
    <2>3. PICK a \in Accounts, m \in Nat : Submit(t, a, m)
      BY <2>1, <2>2
    <2>4. IInv' /\ JInv'
      BY <2>3, SubmitInv, SubmitCases DEF LInv
    <2>5. UNCHANGED <<account, txn>>
      BY <2>3 DEF Submit, database
    <2>6. \A b \in Accounts : /\ Total(b, "Aprobada")' = Total(b, "Aprobada")
                              /\ Total(b, "Bloqueada")' = Total(b, "Bloqueada")
      BY <2>5, TotalKept
    <2> QED BY <2>4, <2>5, <2>6 DEF LInv, Reconciled
  <1>3. CASE UNCHANGED allvars
    BY <1>1, <1>3 DEF allvars
  <1>4. ASSUME Simulator, ~ \E i \in Shots, t \in Tellers : Post(i, t) PROVE UNCHANGED vars
    BY <1>4 DEF Simulator, Launch, Aim, Shoot, GetToken, TokenFails, Refused, Answer, NoAnswer,
                Conclude
  <1> QED BY <1>1, <1>2, <1>3, <1>4 DEF AttackNext, Backend

\* Before the attack nothing has been read or asked for.
LEMMA AttackInitInv == AttackInit => LInv /\ RInv
  <1> SUFFICES ASSUME AttackInit PROVE LInv /\ RInv
    OBVIOUS
  <1>1. LInv
    BY InitInv, InitCases, InitReconciled DEF AttackInit, LInv
  <1>2. NoneYet \notin TxIds
    BY DEF NoneYet, TxIds
  <1>3. RInv
    BY <1>2 DEF AttackInit, RInv, AttackTypeOK, AmountsOK, ShotOK, Serving, PairOK, Live,
                SpentOnce, Shots, VerdictOK, Verdict
  <1> QED BY <1>1, <1>3

\* Every step of the attack and of the ledger keeps both.
LEMMA AttackNextInv ==
    ASSUME OneAuditor, LInv, RInv, [AttackNext]_allvars
    PROVE  LInv' /\ RInv'
  <1>1. LInv'
    BY AttackKeepsLedger DEF RInv
  <1>2. CASE Backend
    BY <1>1, <1>2, BackendInv
  <1>3. CASE Simulator
    <2>1. ASSUME NEW i \in Shots, Shoot(i) PROVE RInv'
      BY <2>1, LearnInv, PostInv, RefusedInv DEF Shoot
    <2> QED BY <1>1, <1>3, <2>1, LaunchInv, AimInv, ConcludeInv DEF Simulator
  <1>4. CASE UNCHANGED allvars
    <2>1. UNCHANGED <<account, txn, pc, req, amount, targets, target, teller, shot, status, verdict>>
      BY <1>4 DEF allvars, attack, vars, database, locals
    <2>2. AttackTypeOK' /\ AmountsOK' /\ SpentOnce' /\ VerdictOK'
      BY <2>1 DEF RInv, AttackTypeOK, AmountsOK, SpentOnce, VerdictOK, Answered
    <2>3. ASSUME NEW i \in Shots PROVE ShotOK(i)'
      BY <2>1 DEF RInv, ShotOK, Serving, Asked
    <2>4. PairOK'
      BY <2>1 DEF RInv, PairOK, Live, Serving, AccountOf
    <2> QED BY <1>1, <2>2, <2>3, <2>4 DEF RInv
  <1> QED BY <1>1, <1>2, <1>3, <1>4 DEF AttackNext

\* It holds throughout.
LEMMA AttackInvariance ==
    ASSUME OneAuditor PROVE AttackSpec => [](LInv /\ RInv)
  BY AttackInitInv, AttackNextInv, PTL DEF AttackSpec

-----------------------------------------------------------------------------
(* Theorems *)

\* Every variable of the attack keeps its type, and a shot is served by a teller
\* that is at work.
THEOREM AttackIsTyped ==
    ASSUME OneAuditor PROVE AttackSpec => []AttackTypeOK
  <1>1. RInv => AttackTypeOK
    BY DEF RInv
  <1> QED BY <1>1, AttackInvariance, PTL

\* With one auditor, two submissions at once for the whole balance are both
\* recorded only if one of them was held and rejected, however the tellers, the
\* other requests and the auditor interleave.
THEOREM BalanceIsSpentOnce ==
    ASSUME OneAuditor PROVE AttackSpec => []SpentOnce
  <1>1. RInv => SpentOnce
    BY DEF RInv
  <1> QED BY <1>1, AttackInvariance, PTL

\* What the simulator concludes of the two answers is what the backend recorded.
THEOREM AttackVerdictIsTrue ==
    ASSUME OneAuditor PROVE AttackSpec => []VerdictIsTrue
  <1>1. RInv => VerdictIsTrue
    <2> SUFFICES ASSUME RInv PROVE VerdictIsTrue
      OBVIOUS
    <2>1. Refusal \notin TxIds
      BY DEF Refusal, TxIds
    <2>2. \A i \in Shots : /\ status[i] = "ok" => shot[i] \in TxIds
                           /\ status[i] = "error" => shot[i] \notin TxIds
      BY <2>1 DEF RInv, ShotOK
    <2>3. CASE verdict = "VULNERABLE"
      BY <2>2, <2>3 DEF RInv, VerdictOK, VerdictIsTrue
    <2>4. CASE verdict = "PROTEGIDO"
      BY <2>2, <2>4 DEF RInv, VerdictOK, VerdictIsTrue, Answered, Lost, Verdict
    <2>5. CASE verdict = "RECHAZADO_TOTAL"
      BY <2>2, <2>5 DEF RInv, VerdictOK, VerdictIsTrue, Answered, Lost, Verdict
    <2> QED BY <2>3, <2>4, <2>5 DEF VerdictIsTrue
  <1> QED BY <1>1, AttackInvariance, PTL
=============================================================================
