---------------------------- MODULE LedgerProofs ----------------------------
(***************************************************************************)
(* Safety of the ledger for every number of accounts, sessions and          *)
(* transactions.  IInv is the inductive invariant of the first part; the    *)
(* second adds what one auditor at a time makes true.                       *)
(***************************************************************************)
EXTENDS LedgerFunds, SumLemmas, TLAPS

TellerPhase == {"idle", "read", "screened", "updated", "recorded", "notified"}
AuditorPhase == {"idle", "review", "locked", "updated", "marked", "committed"}

\* Session s has written an account row and not committed it yet.
HasDraft(s) ==
    \/ pc[s] \in {"updated", "recorded", "notified"}
    \/ pc[s] = "marked" /\ req[s].decision \in Resolved

\* Session s must hold the lock of its account row.
HoldsRow(s) == pc[s] = "locked" \/ HasDraft(s)

\* Each session goes through the phases of its own handler, and what its request
\* says is known by the phase that uses it.
TellerOK(t) ==
    /\ pc[t] \in TellerPhase
    /\ pc[t] \in {"screened", "updated", "recorded", "notified"}
         => req[t].decision \in {"Aprobada", "Bloqueada"}
    /\ pc[t] \in {"recorded", "notified"} => req[t].tx \in TxIds
    /\ pc[t] = "notified" => req[t].tx \in announced

AuditorOK(u) ==
    /\ pc[u] \in AuditorPhase
    /\ pc[u] # "idle" => /\ req[u].decision \in AuditState
                         /\ req[u].tx \in TxIds
                         /\ txn[req[u].tx] \in TransactionRow
                         /\ flag[req[u].tx] # "Absent"
    /\ pc[u] \in {"locked", "updated"} => req[u].decision \in Resolved

RequestOK(s) == pc[s] # "idle" => req[s] \in Request

\* The row s read is not newer than the committed one, and is the committed one
\* if it has its version; the checks made on it hold of it.
ReadOK(s) ==
    pc[s] \in {"read", "screened", "locked"} =>
        /\ seen[s] \in AccountRow
        /\ seen[s].version <= account[req[s].account].version
        /\ VersionMatches(s) => seen[s] = account[req[s].account]
        /\ s \in Tellers => req[s].amount <= Available(seen[s])
        /\ pc[s] = "locked" => VersionMatches(s) /\ req[s].amount <= seen[s].reserved

LockOK(s) == HoldsRow(s) => rowLock[req[s].account] = s

\* An uncommitted row is the committed one moved by the decision, and solvent.
DraftOK(s) ==
    HasDraft(s) => /\ draft[s] = Target(s)
                   /\ draft[s] \in AccountRow
                   /\ draft[s].reserved <= draft[s].balance

SessionOK(s) ==
    RequestOK(s) /\ ReadOK(s) /\ LockOK(s) /\ DraftOK(s)

FlagOK == \A x \in TxIds : flag[x] # "Absent" => txn[x] \in TransactionRow

IInv ==
    /\ TypeOK
    /\ Solvent
    /\ FlagOK
    /\ FlaggedWasAnnounced
    /\ \A t \in Tellers : TellerOK(t)
    /\ \A u \in Auditors : AuditorOK(u)
    /\ \A s \in Sessions : SessionOK(s)

-----------------------------------------------------------------------------

\* Rounding an amount the available balance covers gives cents it covers too.
LEMMA CentsFit ==
    ASSUME NEW mills \in Nat, NEW available \in Int, 10 * available >= mills
    PROVE  Cents(mills) \in Nat /\ Cents(mills) <= available
  BY DEF Cents

\* The rows the ledger starts with satisfy the invariant.
LEMMA InitInv == Init => IInv
  BY AccountAssumption, SessionAssumption, NumberAssumption
     DEF Init, IInv, TypeOK, Solvent, FlagOK, FlaggedWasAnnounced, TellerOK, AuditorOK,
         SessionOK, RequestOK, ReadOK, LockOK, DraftOK, HoldsRow, HasDraft, AccountRow,
         Sessions, TxIds, Phase, TellerPhase, AuditorPhase, NoRequest, Absent

\* A rollback forgets one session and leaves the others as they were.
LEMMA RollbackInv ==
    ASSUME IInv, NEW s \in Sessions, Rollback(s)
    PROVE  IInv'
  <1> USE DEF Rollback, Forget, Unlock, database, events, IInv
  <1>1. TypeOK' /\ Solvent' /\ FlagOK' /\ FlaggedWasAnnounced'
    BY SessionAssumption DEF TypeOK, Solvent, FlagOK, FlaggedWasAnnounced, Phase
  <1>2. ASSUME NEW t \in Tellers PROVE TellerOK(t)'
    BY DEF TellerOK, TypeOK, TellerPhase, Sessions
  <1>3. ASSUME NEW u \in Auditors PROVE AuditorOK(u)'
    BY DEF AuditorOK, TypeOK, AuditorPhase, Sessions
  <1>4. ASSUME NEW r \in Sessions PROVE SessionOK(r)'
    <2>1. CASE r = s
      BY <2>1 DEF TypeOK, SessionOK, RequestOK, ReadOK, LockOK, DraftOK, HoldsRow, HasDraft
    <2>2. CASE r # s
      BY <2>2 DEF TypeOK, SessionOK, RequestOK, ReadOK, LockOK, DraftOK, HoldsRow, HasDraft,
                  Target, VersionMatches, Request
    <2> QED BY <2>1, <2>2
  <1> QED BY <1>1, <1>2, <1>3, <1>4

\* The versioned UPDATE writes the committed row moved by a checked amount.
LEMMA UpdateInv ==
    ASSUME IInv, NEW s \in Sessions, Update(s)
    PROVE  IInv'
  <1> DEFINE r == req[s]
  <1> USE DEF IInv
  <1>1. /\ r \in Request
        /\ account[r.account] \in AccountRow
        /\ seen[s] = account[r.account]
    BY DEF Update, ReadyToUpdate, SessionOK, RequestOK, ReadOK, TypeOK, Request
  <1>2. /\ Target(s).balance \in Int /\ Target(s).reserved \in Int
        /\ Target(s).version = account[r.account].version + 1
        /\ Target(s).reserved <= Target(s).balance
    <2>1. CASE s \in Tellers
      <3>1. pc[s] = "screened" /\ r.decision \in {"Aprobada", "Bloqueada"}
        BY <2>1 DEF Update, ReadyToUpdate, TellerOK, TellerPhase
      <3>2. r.amount \in Nat /\ r.amount <= Available(account[r.account])
        BY <1>1, <2>1, <3>1 DEF SessionOK, ReadOK, Request
      <3> QED
        BY <1>1, <3>1, <3>2
           DEF Target, Moved, BalanceDelta, ReservedDelta, Available, AccountRow, Resolved
    <2>2. CASE s \in Auditors
      <3>1. pc[s] = "locked" /\ r.decision \in Resolved
        BY <2>2 DEF Update, ReadyToUpdate, AuditorOK, AuditorPhase
      <3>2. /\ r.amount \in Nat
            /\ r.amount <= account[r.account].reserved
            /\ account[r.account].reserved <= account[r.account].balance
        BY <1>1, <3>1 DEF SessionOK, ReadOK, Request, Solvent
      <3> QED
        BY <1>1, <3>1, <3>2
           DEF Target, Moved, BalanceDelta, ReservedDelta, AccountRow, Resolved
    <2> QED BY <2>1, <2>2 DEF Sessions
  <1>3. Target(s) \in AccountRow
    BY <1>1, <1>2 DEF Update, RowLegal, AccountRow, Target, Moved
  <1>4. TypeOK' /\ Solvent' /\ FlagOK' /\ FlaggedWasAnnounced'
    BY <1>1, <1>3 DEF Update, database, events, TypeOK, Solvent, FlagOK, FlaggedWasAnnounced,
                      Phase, Request
  <1>5. ASSUME NEW t \in Tellers PROVE TellerOK(t)'
    BY DEF Update, database, events, ReadyToUpdate, TellerOK, TypeOK, TellerPhase, Sessions
  <1>6. ASSUME NEW u \in Auditors PROVE AuditorOK(u)'
    BY DEF Update, database, events, ReadyToUpdate, AuditorOK, TypeOK, AuditorPhase, Sessions
  <1>7. ASSUME NEW q \in Sessions PROVE SessionOK(q)'
    <2> USE DEF Update, database, ReadyToUpdate, TypeOK, SessionOK, RequestOK, ReadOK, LockOK,
                DraftOK, HoldsRow, HasDraft
    <2>1. CASE q = s
      BY <1>1, <1>2, <1>3, <2>1 DEF Target, Request
    <2>2. CASE q # s
      <3>1. LockOK(q)'
        BY <1>1, <2>2, SessionAssumption DEF RowFree, Request, Sessions
      <3>2. RequestOK(q)' /\ ReadOK(q)' /\ DraftOK(q)'
        BY <2>2 DEF VersionMatches, Target
      <3> QED BY <3>1, <3>2
    <2> QED BY <2>1, <2>2
  <1> QED BY <1>4, <1>5, <1>6, <1>7

\* The amount a teller accepts, whatever it is, is covered by the row it read.
LEMMA SubmitInv ==
    ASSUME IInv, NEW t \in Tellers, NEW a \in Accounts, NEW m \in Nat, Submit(t, a, m)
    PROVE  IInv'
  <1> USE DEF IInv
  <1>1. /\ account[a] \in AccountRow
        /\ Cents(m) \in Nat
        /\ Cents(m) <= Available(account[a])
    <2>1. account[a] \in AccountRow
      BY DEF TypeOK
    <2>2. Available(account[a]) \in Int
      BY <2>1 DEF AccountRow, Available
    <2> QED BY <2>1, <2>2, CentsFit DEF Submit
  <1>2. TypeOK' /\ Solvent' /\ FlagOK' /\ FlaggedWasAnnounced'
    BY <1>1 DEF Submit, database, events, locks, TypeOK, Solvent, FlagOK,
                FlaggedWasAnnounced, Phase, Request
  <1>3. ASSUME NEW v \in Tellers PROVE TellerOK(v)'
    BY DEF Submit, database, events, TellerOK, TypeOK, TellerPhase, Sessions
  <1>4. ASSUME NEW u \in Auditors PROVE AuditorOK(u)'
    BY SessionAssumption DEF Submit, database, events, AuditorOK, TypeOK, Sessions
  <1>5. ASSUME NEW q \in Sessions PROVE SessionOK(q)'
    <2>1. CASE q = t
      <3>1. /\ pc'[t] = "read"
            /\ req'[t] = [account |-> a, amount |-> Cents(m), tx |-> 0, decision |-> "Unknown"]
            /\ seen'[t] = account[a]
            /\ account' = account
        BY DEF Sessions, Submit, database, TypeOK
      <3>2. RequestOK(t)'
        BY <1>1, <3>1 DEF RequestOK, Request
      <3>3. LockOK(t)' /\ DraftOK(t)'
        BY <3>1 DEF LockOK, DraftOK, HoldsRow, HasDraft
      <3>4. Cents(m) <= Available(account[a]) /\ account[a].version <= account[a].version
        BY <1>1 DEF AccountRow
      <3>5. ReadOK(t)'
        BY <1>1, <3>1, <3>4 DEF ReadOK, VersionMatches
      <3> QED BY <2>1, <3>2, <3>3, <3>5 DEF SessionOK
    <2>2. CASE q # t
      BY <2>2 DEF Submit, database, locks, TypeOK, SessionOK, RequestOK, ReadOK, LockOK,
                  DraftOK, HoldsRow, HasDraft, VersionMatches, Target
    <2> QED BY <2>1, <2>2
  <1> QED BY <1>2, <1>3, <1>4, <1>5

\* Antifraud's answer changes nothing but the decision.
LEMMA ScreenInv ==
    ASSUME IInv, NEW t \in Tellers, NEW d \in {"Aprobada", "Bloqueada"}, Screen(t, d)
    PROVE  IInv'
  <1> USE DEF IInv
  <1>1. req[t] \in Request
    BY DEF Screen, SessionOK, RequestOK, Sessions
  <1>2. TypeOK' /\ Solvent' /\ FlagOK' /\ FlaggedWasAnnounced'
    BY <1>1 DEF Screen, database, events, locks, TypeOK, Solvent, FlagOK,
                FlaggedWasAnnounced, Phase, Request, TransactionState
  <1>3. ASSUME NEW v \in Tellers PROVE TellerOK(v)'
    BY <1>1 DEF Screen, database, events, TellerOK, TypeOK, TellerPhase, Sessions, Request
  <1>4. ASSUME NEW u \in Auditors PROVE AuditorOK(u)'
    BY SessionAssumption DEF Screen, database, events, AuditorOK, TypeOK, Sessions
  <1>5. ASSUME NEW q \in Sessions PROVE SessionOK(q)'
    <2> USE DEF Screen, database, locks, TypeOK, SessionOK, RequestOK, ReadOK, LockOK,
                DraftOK, HoldsRow, HasDraft
    <2>1. CASE q = t
      BY <1>1, <2>1 DEF Sessions, Request, VersionMatches, TransactionState
    <2>2. CASE q # t
      BY <2>2 DEF VersionMatches, Target
    <2> QED BY <2>1, <2>2
  <1> QED BY <1>2, <1>3, <1>4, <1>5

\* An INSERT only takes the next value of the sequence.
LEMMA InsertInv ==
    ASSUME IInv, NEW t \in Tellers, Insert(t)
    PROVE  IInv'
  <1> USE DEF IInv
  <1>1. req[t] \in Request /\ nextTx \in TxIds /\ nextTx + 1 \in 1 .. MaxTx + 1
    <2>1. req[t] \in Request
      BY DEF Insert, SessionOK, RequestOK, Sessions
    <2>2. nextTx \in 1 .. MaxTx + 1 /\ nextTx <= MaxTx
      BY DEF Insert, InsertLegal, TypeOK
    <2> QED BY <2>1, <2>2, NumberAssumption DEF TxIds
  <1>2. TypeOK' /\ Solvent' /\ FlagOK' /\ FlaggedWasAnnounced'
    BY <1>1 DEF Insert, database, events, locks, TypeOK, Solvent, FlagOK,
                FlaggedWasAnnounced, Phase, Request
  <1>3. ASSUME NEW v \in Tellers PROVE TellerOK(v)'
    BY <1>1 DEF Insert, events, TellerOK, TypeOK, TellerPhase, Sessions, Request
  <1>4. ASSUME NEW u \in Auditors PROVE AuditorOK(u)'
    BY SessionAssumption DEF Insert, AuditorOK, TypeOK, Sessions
  <1>5. ASSUME NEW q \in Sessions PROVE SessionOK(q)'
    <2> USE DEF Insert, locks, TypeOK, SessionOK, RequestOK, ReadOK, LockOK, DraftOK,
                HoldsRow, HasDraft
    <2>1. CASE q = t
      BY <1>1, <2>1 DEF Sessions, Request, Target
    <2>2. CASE q # t
      BY <2>2 DEF VersionMatches, Target
    <2> QED BY <2>1, <2>2
  <1> QED BY <1>2, <1>3, <1>4, <1>5

\* The alert names the transaction the session has inserted.
LEMMA NotifyInv ==
    ASSUME IInv, NEW t \in Tellers, Notify(t)
    PROVE  IInv'
  <1> USE DEF IInv
  <1>1. req[t].tx \in TxIds
    BY DEF Notify, TellerOK
  <1>2. TypeOK' /\ Solvent' /\ FlagOK' /\ FlaggedWasAnnounced'
    BY <1>1 DEF Notify, database, locks, TypeOK, Solvent, FlagOK, FlaggedWasAnnounced, Phase
  <1>3. ASSUME NEW v \in Tellers PROVE TellerOK(v)'
    BY <1>1 DEF Notify, TellerOK, TypeOK, TellerPhase, Sessions
  <1>4. ASSUME NEW u \in Auditors PROVE AuditorOK(u)'
    BY SessionAssumption DEF Notify, database, AuditorOK, TypeOK, Sessions
  <1>5. ASSUME NEW q \in Sessions PROVE SessionOK(q)'
    BY DEF Notify, database, locks, TypeOK, SessionOK, RequestOK, ReadOK, LockOK, DraftOK,
           HoldsRow, HasDraft, VersionMatches, Target
  <1> QED BY <1>2, <1>3, <1>4, <1>5

\* The draft of a session that holds the lock is typed and one version ahead.
LEMMA DraftAhead ==
    ASSUME IInv, NEW s \in Sessions, HasDraft(s)
    PROVE  /\ req[s] \in Request
           /\ req[s].account \in Accounts
           /\ rowLock[req[s].account] = s
           /\ draft[s] \in AccountRow
           /\ draft[s].reserved <= draft[s].balance
           /\ draft[s].version = account[req[s].account].version + 1
  <1>1. pc[s] # "idle" /\ SessionOK(s)
    BY DEF IInv, HasDraft
  <1>2. req[s] \in Request /\ req[s].account \in Accounts
    BY <1>1 DEF SessionOK, RequestOK, Request
  <1> QED BY <1>1, <1>2 DEF SessionOK, LockOK, HoldsRow, DraftOK, Target, Moved

\* A COMMIT leaves the other sessions right about the rows they read and wrote:
\* those of its account have an older version now, and none has a draft of it.
LEMMA CommitKeepsOthers ==
    ASSUME IInv, NEW s \in Sessions, HasDraft(s), Unlock(s),
           account' = [account EXCEPT ![req[s].account] = draft[s]],
           NEW q \in Sessions, q # s,
           pc'[q] = pc[q], req'[q] = req[q], seen'[q] = seen[q], draft'[q] = draft[q]
    PROVE  SessionOK(q)'
  <1> DEFINE a == req[s].account
  <1>1. /\ a \in Accounts
        /\ rowLock[a] = s
        /\ draft[s].version = account[a].version + 1
        /\ account[a].version \in Nat
    BY DraftAhead DEF IInv, TypeOK, AccountRow
  <1>2. /\ account'[a] = draft[s]
        /\ \A b \in Accounts : b # a => account'[b] = account[b]
    BY <1>1 DEF IInv, TypeOK
  <1>3. SessionOK(q)
    BY DEF IInv
  <1>4. CASE pc[q] = "idle"
    BY <1>4 DEF SessionOK, RequestOK, ReadOK, LockOK, DraftOK, HoldsRow, HasDraft
  <1>5. CASE pc[q] # "idle"
    <2>1. req[q] \in Request /\ req[q].account \in Accounts
      BY <1>3, <1>5 DEF SessionOK, RequestOK, Request
    <2>2. HoldsRow(q) => req[q].account # a
      BY <1>1, <1>3 DEF SessionOK, LockOK
    <2>3. RequestOK(q)'
      BY <2>1 DEF RequestOK
    <2>4. LockOK(q)'
      BY <1>3, <2>1 DEF SessionOK, LockOK, HoldsRow, HasDraft, Unlock
    <2>5. DraftOK(q)'
      BY <1>2, <1>3, <2>1, <2>2 DEF SessionOK, DraftOK, HoldsRow, HasDraft, Target
    <2>6. ReadOK(q)'
      <3>1. CASE req[q].account # a
        BY <1>2, <1>3, <2>1, <3>1 DEF SessionOK, ReadOK, VersionMatches
      <3>2. CASE req[q].account = a /\ pc[q] \in {"read", "screened"}
        <4>1. /\ seen[q] \in AccountRow
              /\ seen[q].version \in Nat
              /\ seen[q].version <= account[a].version
              /\ q \in Tellers => req[q].amount <= Available(seen[q])
          BY <1>3, <3>2 DEF SessionOK, ReadOK, AccountRow
        <4>2. seen[q].version < account'[a].version
          BY <1>1, <1>2, <4>1
        <4> QED BY <1>1, <1>2, <3>2, <4>1, <4>2 DEF ReadOK, VersionMatches
      <3>3. CASE req[q].account = a /\ pc[q] \notin {"read", "screened"}
        BY <2>2, <3>3 DEF ReadOK, HoldsRow
      <3> QED BY <3>1, <3>2, <3>3
    <2> QED BY <2>3, <2>4, <2>5, <2>6 DEF SessionOK
  <1> QED BY <1>4, <1>5

\* The COMMIT of a submission publishes the draft and its transaction.
LEMMA CommitSubmitInv ==
    ASSUME IInv, NEW t \in Tellers, CommitSubmit(t)
    PROVE  IInv'
  <1> DEFINE r == req[t]
  <1>1. t \in Sessions /\ HasDraft(t)
    BY DEF CommitSubmit, ReadyToCommit, Sessions, HasDraft
  <1>2. /\ r \in Request
        /\ r.account \in Accounts
        /\ draft[t] \in AccountRow
        /\ draft[t].reserved <= draft[t].balance
    BY <1>1, DraftAhead
  <1>3. /\ r.tx \in TxIds
        /\ r.decision \in {"Aprobada", "Bloqueada"}
        /\ r.decision = "Bloqueada" => r.tx \in announced
    BY DEF IInv, TellerOK, CommitSubmit, ReadyToCommit
  <1>4. [account |-> r.account, amount |-> r.amount, state |-> r.decision] \in TransactionRow
    BY <1>2, <1>3 DEF Request, TransactionRow, TransactionState
  <1>5. TypeOK'
    BY <1>1, <1>2, <1>3, <1>4, SessionAssumption
       DEF IInv, TypeOK, CommitSubmit, Unlock, Forget, events, Phase, AuditState
  <1>6. Solvent'
    <2>1. /\ account'[r.account] = draft[t]
          /\ \A a \in Accounts : a # r.account => account'[a] = account[a]
      BY <1>2 DEF IInv, TypeOK, CommitSubmit
    <2>2. 0 <= draft[t].reserved
      BY <1>2 DEF AccountRow
    <2> QED BY <1>2, <2>1, <2>2 DEF IInv, Solvent
  <1>7. FlagOK' /\ FlaggedWasAnnounced'
    BY <1>3, <1>4 DEF IInv, TypeOK, CommitSubmit, events, FlagOK, FlaggedWasAnnounced
  <1>8. ASSUME NEW v \in Tellers PROVE TellerOK(v)'
    BY <1>1 DEF IInv, TypeOK, CommitSubmit, Forget, events, TellerOK, TellerPhase, Sessions
  <1>9. ASSUME NEW u \in Auditors PROVE AuditorOK(u)'
    BY <1>1, <1>3, <1>4, SessionAssumption
       DEF IInv, TypeOK, CommitSubmit, Forget, AuditorOK, Sessions
  <1>10. ASSUME NEW q \in Sessions PROVE SessionOK(q)'
    <2>1. CASE q = t
      BY <1>1, <2>1 DEF IInv, TypeOK, CommitSubmit, Forget, SessionOK, RequestOK, ReadOK,
                        LockOK, DraftOK, HoldsRow, HasDraft
    <2>2. CASE q # t
      BY <1>1, <2>2, CommitKeepsOthers DEF IInv, TypeOK, CommitSubmit, Forget
    <2> QED BY <2>1, <2>2
  <1> QED BY <1>5, <1>6, <1>7, <1>8, <1>9, <1>10 DEF IInv

\* An auditor reads a flagged row only if its transaction is there.
LEMMA ReadFlagInv ==
    ASSUME IInv, NEW u \in Auditors, NEW x \in TxIds, NEW d \in AuditState, ReadFlag(u, x, d)
    PROVE  IInv'
  <1> USE DEF IInv
  <1>1. txn[x] \in TransactionRow
    BY DEF ReadFlag, Open, FlagOK
  <1>2. [account |-> txn[x].account, amount |-> txn[x].amount, tx |-> x, decision |-> d]
           \in Request
    BY <1>1 DEF Request, TransactionRow
  <1>3. TypeOK' /\ Solvent' /\ FlagOK' /\ FlaggedWasAnnounced'
    BY <1>2 DEF ReadFlag, database, events, locks, TypeOK, Solvent, FlagOK,
                FlaggedWasAnnounced, Phase
  <1>4. ASSUME NEW v \in Tellers PROVE TellerOK(v)'
    BY SessionAssumption DEF ReadFlag, events, TellerOK, TypeOK, Sessions
  <1>5. ASSUME NEW v \in Auditors PROVE AuditorOK(v)'
    BY <1>1 DEF ReadFlag, Open, database, AuditorOK, TypeOK, AuditorPhase, Sessions
  <1>6. ASSUME NEW q \in Sessions PROVE SessionOK(q)'
    <2> USE DEF ReadFlag, database, locks, TypeOK, SessionOK, RequestOK, ReadOK, LockOK,
                DraftOK, HoldsRow, HasDraft
    <2>1. CASE q = u
      BY <1>2, <2>1
    <2>2. CASE q # u
      BY <2>2 DEF VersionMatches, Target
    <2> QED BY <2>1, <2>2
  <1> QED BY <1>3, <1>4, <1>5, <1>6

\* Under the lock the row read is the committed one.
LEMMA LockAccountInv ==
    ASSUME IInv, NEW u \in Auditors, LockAccount(u)
    PROVE  IInv'
  <1> DEFINE a == req[u].account
  <1> USE DEF IInv
  <1>1. /\ req[u] \in Request
        /\ a \in Accounts
        /\ account[a] \in AccountRow
    BY DEF LockAccount, SessionOK, RequestOK, Sessions, Request, TypeOK
  <1>2. TypeOK' /\ Solvent' /\ FlagOK' /\ FlaggedWasAnnounced'
    BY <1>1 DEF LockAccount, database, events, TypeOK, Solvent, FlagOK,
                FlaggedWasAnnounced, Phase, Sessions
  <1>3. ASSUME NEW v \in Tellers PROVE TellerOK(v)'
    BY SessionAssumption DEF LockAccount, events, TellerOK, TypeOK, Sessions
  <1>4. ASSUME NEW v \in Auditors PROVE AuditorOK(v)'
    BY DEF LockAccount, database, AuditorOK, TypeOK, AuditorPhase, Sessions
  <1>5. ASSUME NEW q \in Sessions PROVE SessionOK(q)'
    <2>1. CASE q = u
      <3>1. /\ pc'[u] = "locked"
            /\ req' = req
            /\ account' = account
            /\ seen'[u] = account[a]
            /\ rowLock'[a] = u
        BY <1>1 DEF LockAccount, database, TypeOK, Sessions
      <3>2. account[a].version <= account[a].version /\ req[u].amount <= account[a].reserved
        BY <1>1 DEF LockAccount, HoldCovers, AccountRow, Request
      <3>3. RequestOK(u)' /\ LockOK(u)' /\ DraftOK(u)'
        BY <1>1, <3>1 DEF RequestOK, LockOK, DraftOK, HasDraft
      <3>4. ReadOK(u)'
        BY <1>1, <3>1, <3>2, SessionAssumption DEF ReadOK, VersionMatches
      <3> QED BY <2>1, <3>3, <3>4 DEF SessionOK
    <2>2. CASE q # u
      <3>1. LockOK(q)'
        <4>1. /\ pc'[q] = pc[q] /\ req' = req
              /\ \A b \in Accounts : b # a => rowLock'[b] = rowLock[b]
              /\ rowLock[a] # q
          BY <1>1, <2>2, SessionAssumption DEF LockAccount, TypeOK, RowFree, Sessions
        <4>2. LockOK(q) /\ RequestOK(q)
          BY DEF SessionOK
        <4>3. HoldsRow(q)' <=> HoldsRow(q)
          BY <4>1 DEF HoldsRow, HasDraft
        <4>4. HoldsRow(q) => req[q].account \in Accounts /\ req[q].account # a
          BY <4>1, <4>2 DEF LockOK, RequestOK, HoldsRow, HasDraft, Request
        <4> QED BY <4>1, <4>2, <4>3, <4>4 DEF LockOK
      <3>2. RequestOK(q)' /\ ReadOK(q)' /\ DraftOK(q)'
        BY <2>2 DEF LockAccount, database, TypeOK, SessionOK, RequestOK, ReadOK, DraftOK,
                    HasDraft, VersionMatches, Target
      <3> QED BY <3>1, <3>2, <2>2 DEF SessionOK
    <2> QED BY <2>1, <2>2
  <1> QED BY <1>2, <1>3, <1>4, <1>5

\* Marking the case keeps the draft, if the decision made one.
LEMMA MarkInv ==
    ASSUME IInv, NEW u \in Auditors, Mark(u)
    PROVE  IInv'
  <1> USE DEF IInv
  <1>1. TypeOK' /\ Solvent' /\ FlagOK' /\ FlaggedWasAnnounced'
    BY DEF Mark, database, events, TypeOK, Solvent, FlagOK, FlaggedWasAnnounced, Phase,
           Sessions
  <1>2. ASSUME NEW v \in Tellers PROVE TellerOK(v)'
    BY SessionAssumption DEF Mark, events, TellerOK, TypeOK, Sessions
  <1>3. ASSUME NEW v \in Auditors PROVE AuditorOK(v)'
    BY DEF Mark, database, AuditorOK, TypeOK, AuditorPhase, Sessions
  <1>4. ASSUME NEW q \in Sessions PROVE SessionOK(q)'
    BY DEF Mark, database, TypeOK, SessionOK, RequestOK, ReadOK, LockOK, DraftOK, HoldsRow,
           HasDraft, VersionMatches, Target, Sessions
  <1> QED BY <1>1, <1>2, <1>3, <1>4

\* The COMMIT of a resolution publishes the draft if the decision made one.
LEMMA CommitReviewInv ==
    ASSUME IInv, NEW u \in Auditors, CommitReview(u)
    PROVE  IInv'
  <1> DEFINE r == req[u]
  <1>1. /\ u \in Sessions
        /\ r \in Request
        /\ r.account \in Accounts
        /\ r.tx \in TxIds
        /\ r.decision \in AuditState
        /\ txn[r.tx] \in TransactionRow
    BY DEF IInv, CommitReview, Sessions, SessionOK, RequestOK, Request, AuditorOK
  <1>2. r.decision \in Resolved => /\ HasDraft(u)
                                   /\ draft[u] \in AccountRow
                                   /\ draft[u].reserved <= draft[u].balance
    BY <1>1, DraftAhead DEF CommitReview, HasDraft
  <1>3. [txn[r.tx] EXCEPT !.state = Settled(r.decision, @)] \in TransactionRow
    BY <1>1 DEF TransactionRow, TransactionState, Settled
  <1>4. /\ txn' \in [TxIds -> TransactionRow \cup {Absent}]
        /\ \A x \in TxIds : txn[x] \in TransactionRow => txn'[x] \in TransactionRow
        /\ txn'[r.tx] \in TransactionRow
    BY <1>1, <1>3 DEF IInv, TypeOK, CommitReview
  <1>5. account' \in [Accounts -> AccountRow]
    BY <1>1, <1>2 DEF IInv, TypeOK, CommitReview
  <1>6. TypeOK'
    BY <1>1, <1>4, <1>5, SessionAssumption
       DEF IInv, TypeOK, CommitReview, Unlock, events, Phase
  <1>7. Solvent'
    <2>1. CASE r.decision \notin Resolved
      BY <2>1 DEF IInv, Solvent, CommitReview
    <2>2. CASE r.decision \in Resolved
      <3>1. /\ account'[r.account] = draft[u]
            /\ \A a \in Accounts : a # r.account => account'[a] = account[a]
        BY <1>1, <2>2 DEF IInv, TypeOK, CommitReview
      <3>2. 0 <= draft[u].reserved
        BY <1>2, <2>2 DEF AccountRow
      <3> QED BY <1>2, <2>2, <3>1, <3>2 DEF IInv, Solvent
    <2> QED BY <2>1, <2>2
  <1>8. FlagOK' /\ FlaggedWasAnnounced'
    <2>1. r.tx \in announced
      BY <1>1 DEF IInv, CommitReview, AuditorOK, FlaggedWasAnnounced
    <2> QED BY <1>1, <1>4, <2>1
        DEF IInv, TypeOK, CommitReview, events, FlagOK, FlaggedWasAnnounced
  <1>9. ASSUME NEW v \in Tellers PROVE TellerOK(v)'
    BY SessionAssumption DEF IInv, TypeOK, CommitReview, events, TellerOK, Sessions
  <1>10. ASSUME NEW v \in Auditors PROVE AuditorOK(v)'
    <2>1. \A x \in TxIds : flag[x] # "Absent" => flag'[x] # "Absent"
      BY <1>1 DEF IInv, TypeOK, CommitReview, AuditState
    <2>2. pc' = [pc EXCEPT ![u] = "committed"] /\ req' = req
      BY DEF CommitReview
    <2>3. v \in Sessions /\ pc \in [Sessions -> Phase] /\ AuditorOK(v) /\ AuditorOK(u)
      BY DEF IInv, TypeOK, Sessions
    <2>4. CASE v = u
      BY <1>1, <1>4, <2>1, <2>2, <2>3, <2>4 DEF CommitReview, AuditorOK, AuditorPhase
    <2>5. CASE v # u
      BY <1>4, <2>1, <2>2, <2>3, <2>5 DEF AuditorOK
    <2> QED BY <2>4, <2>5
  <1>11. ASSUME NEW q \in Sessions PROVE SessionOK(q)'
    <2>1. CASE q = u
      BY <1>1, <2>1 DEF IInv, TypeOK, CommitReview, SessionOK, RequestOK, ReadOK, LockOK,
                        DraftOK, HoldsRow, HasDraft
    <2>2. CASE q # u /\ r.decision \in Resolved
      BY <1>1, <1>2, <2>2, CommitKeepsOthers DEF IInv, TypeOK, CommitReview
    <2>3. CASE q # u /\ r.decision \notin Resolved
      <3>1. /\ account' = account
            /\ pc'[q] = pc[q] /\ req' = req /\ seen'[q] = seen[q] /\ draft'[q] = draft[q]
            /\ \A a \in Accounts : rowLock[a] = q => rowLock'[a] = q
        BY <2>3 DEF IInv, TypeOK, CommitReview, Unlock
      <3> QED
        BY <3>1 DEF IInv, SessionOK, RequestOK, ReadOK, LockOK, DraftOK, HoldsRow, HasDraft,
                    VersionMatches, Target, Request
    <2> QED BY <2>1, <2>2, <2>3
  <1> QED BY <1>6, <1>7, <1>8, <1>9, <1>10, <1>11 DEF IInv

\* The broadcast of a verdict ends the request.
LEMMA BroadcastInv ==
    ASSUME IInv, NEW u \in Auditors, Broadcast(u)
    PROVE  IInv'
  <1> USE DEF IInv
  <1>1. req[u].tx \in TxIds
    BY DEF Broadcast, AuditorOK
  <1>2. EventStatus(req[u].decision) \in {"Aprobada", "Rechazada", "Under Review"}
    BY DEF EventStatus
  <1>3. TypeOK' /\ Solvent' /\ FlagOK' /\ FlaggedWasAnnounced'
    BY <1>1, <1>2 DEF Broadcast, Forget, database, locks, TypeOK, Solvent, FlagOK,
                      FlaggedWasAnnounced, Phase, Sessions
  <1>4. ASSUME NEW v \in Tellers PROVE TellerOK(v)'
    BY SessionAssumption DEF Broadcast, Forget, TellerOK, TypeOK, Sessions
  <1>5. ASSUME NEW v \in Auditors PROVE AuditorOK(v)'
    BY DEF Broadcast, Forget, database, AuditorOK, TypeOK, AuditorPhase, Sessions
  <1>6. ASSUME NEW q \in Sessions PROVE SessionOK(q)'
    BY DEF Broadcast, Forget, database, locks, TypeOK, SessionOK, RequestOK, ReadOK, LockOK,
           DraftOK, HoldsRow, HasDraft, VersionMatches, Target, Sessions
  <1> QED BY <1>3, <1>4, <1>5, <1>6

-----------------------------------------------------------------------------

\* Every step keeps the invariant: one case per action of Next.
LEMMA NextInv == IInv /\ [Next]_vars => IInv'
  <1> SUFFICES ASSUME IInv, [Next]_vars PROVE IInv'
    OBVIOUS
  <1>1. ASSUME NEW t \in Tellers, NEW a \in Accounts, NEW m \in Amounts, Submit(t, a, m)
        PROVE  IInv'
    BY <1>1, SubmitInv, NumberAssumption
  <1>2. ASSUME NEW t \in Tellers, TellerStep(t) PROVE IInv'
    <2>1. t \in Sessions
      BY DEF Sessions
    <2>2. ASSUME NEW d \in {"Aprobada", "Bloqueada"}, Screen(t, d) PROVE IInv'
      BY <2>2, ScreenInv
    <2>3. CASE Insert(t)
      BY <2>3, InsertInv
    <2>4. CASE InsertFails(t)
      BY <2>1, <2>4, RollbackInv DEF InsertFails
    <2>5. CASE Notify(t)
      BY <2>5, NotifyInv
    <2>6. CASE CommitSubmit(t)
      BY <2>6, CommitSubmitInv
    <2> QED BY <1>2, <2>2, <2>3, <2>4, <2>5, <2>6 DEF TellerStep
  <1>3. ASSUME NEW u \in Auditors, NEW x \in TxIds, NEW d \in AuditState, ReadFlag(u, x, d)
        PROVE  IInv'
    BY <1>3, ReadFlagInv
  <1>4. ASSUME NEW u \in Auditors, AuditorStep(u) PROVE IInv'
    <2>1. u \in Sessions
      BY DEF Sessions
    <2>2. CASE LockAccount(u)
      BY <2>2, LockAccountInv
    <2>3. CASE HoldMissing(u)
      BY <2>1, <2>3, RollbackInv DEF HoldMissing
    <2>4. CASE Mark(u)
      BY <2>4, MarkInv
    <2>5. CASE CommitReview(u)
      BY <2>5, CommitReviewInv
    <2>6. CASE Broadcast(u)
      BY <2>6, BroadcastInv
    <2> QED BY <1>4, <2>2, <2>3, <2>4, <2>5, <2>6 DEF AuditorStep
  <1>5. ASSUME NEW s \in Sessions, UpdateStep(s) PROVE IInv'
    BY <1>5, UpdateInv, RollbackInv DEF UpdateStep, UpdateFails, Conflict
  <1>6. ASSUME NEW s \in Sessions, Abort(s) PROVE IInv'
    BY <1>6, RollbackInv DEF Abort
  <1>7. CASE UNCHANGED vars
    BY <1>7 DEF vars, database, locals, locks, events, IInv, TypeOK, Solvent, FlagOK,
                FlaggedWasAnnounced, TellerOK, AuditorOK, SessionOK, RequestOK, ReadOK, LockOK,
                DraftOK, HoldsRow, HasDraft, VersionMatches, Target
  <1> QED BY <1>1, <1>2, <1>3, <1>4, <1>5, <1>6, <1>7 DEF Next

\* The invariant holds in every reachable state.
THEOREM Invariance == Spec => []IInv
  BY InitInv, NextInv, PTL DEF Spec

\* Every variable keeps its type, for all constants.
THEOREM TypeCorrect == Spec => []TypeOK
  <1>1. IInv => TypeOK
    BY DEF IInv
  <1> QED BY <1>1, Invariance, PTL

\* However many tellers and auditors run at once, no account holds more for
\* review than its balance and neither goes below zero.
THEOREM AlwaysSolvent == Spec => []Solvent
  <1>1. IInv => Solvent
    BY DEF IInv
  <1> QED BY <1>1, Invariance, PTL

\* No case enters the review queue without its alert having been broadcast.
THEOREM AlwaysAnnounced == Spec => []FlaggedWasAnnounced
  <1>1. IInv => FlaggedWasAnnounced
    BY DEF IInv
  <1> QED BY <1>1, Invariance, PTL

\* The versioned UPDATE of a resolution finds the version it has read.
THEOREM ReviewsDoNotConflict == Spec => []ReviewNeverConflicts
  <1>1. IInv => ReviewNeverConflicts
    BY DEF IInv, ReviewNeverConflicts, SessionOK, ReadOK, Sessions
  <1> QED BY <1>1, Invariance, PTL

\* What a session is about to write always satisfies the CHECK constraints.
THEOREM ChecksAreRedundant == Spec => []ConstraintsNeverFire
  <1>1. ASSUME IInv, NEW s \in Sessions, pc[s] \in ReadyToUpdate, VersionMatches(s)
        PROVE  Target(s).balance >= 0 /\ Target(s).reserved >= 0
    <2> DEFINE r == req[s]
    <2>1. /\ r \in Request
          /\ account[r.account] \in AccountRow
          /\ seen[s] = account[r.account]
          /\ r.amount \in Nat
      BY <1>1 DEF IInv, ReadyToUpdate, SessionOK, RequestOK, ReadOK, TypeOK, Request
    <2>2. CASE s \in Tellers
      <3>1. r.decision \in {"Aprobada", "Bloqueada"} /\ r.amount <= Available(seen[s])
        BY <1>1, <2>2 DEF IInv, ReadyToUpdate, SessionOK, ReadOK, TellerOK, TellerPhase
      <3> QED
        BY <2>1, <3>1
           DEF Target, Moved, BalanceDelta, ReservedDelta, Available, AccountRow, Resolved
    <2>3. CASE s \in Auditors
      <3>1. pc[s] = "locked" /\ r.decision \in Resolved
        BY <1>1, <2>3 DEF IInv, ReadyToUpdate, AuditorOK, AuditorPhase
      <3>2. /\ r.amount <= account[r.account].reserved
            /\ account[r.account].reserved <= account[r.account].balance
        BY <1>1, <2>1, <3>1 DEF IInv, SessionOK, ReadOK, Solvent, Request
      <3> QED
        BY <2>1, <3>1, <3>2 DEF Target, Moved, BalanceDelta, ReservedDelta, AccountRow, Resolved
    <2> QED BY <2>2, <2>3 DEF Sessions
  <1>2. IInv => ConstraintsNeverFire
    BY <1>1 DEF ConstraintsNeverFire
  <1> QED BY <1>2, Invariance, PTL

\* A step that changes an account row replaces the row it was computed from.
LEMMA StepBuildsOnRow ==
    ASSUME IInv, [Next]_vars, NEW a \in Accounts, account'[a] # account[a]
    PROVE  account'[a].version = account[a].version + 1
  <1>1. ASSUME NEW s \in Sessions, HasDraft(s),
               account' = [account EXCEPT ![req[s].account] = draft[s]]
        PROVE  account'[a].version = account[a].version + 1
    <2>1. account \in [Accounts -> AccountRow]
      BY DEF IInv, TypeOK
    <2> QED BY <1>1, <2>1, DraftAhead
  <1>2. ASSUME NEW t \in Tellers, TellerStep(t)
        PROVE  account'[a].version = account[a].version + 1
    <2>1. t \in Sessions
      BY DEF Sessions
    <2>2. CASE CommitSubmit(t)
      BY <1>1, <2>1, <2>2 DEF CommitSubmit, ReadyToCommit, HasDraft
    <2>3. CASE ~CommitSubmit(t)
      BY <1>2, <2>3 DEF TellerStep, Screen, Insert, InsertFails, Notify, Rollback, database
    <2> QED BY <2>2, <2>3
  <1>3. ASSUME NEW u \in Auditors, AuditorStep(u)
        PROVE  account'[a].version = account[a].version + 1
    <2>1. u \in Sessions
      BY DEF Sessions
    <2>2. CASE CommitReview(u)
      BY <1>1, <2>1, <2>2 DEF CommitReview, HasDraft
    <2>3. CASE ~CommitReview(u)
      BY <1>3, <2>3
         DEF AuditorStep, LockAccount, HoldMissing, Mark, Broadcast, Rollback, database
    <2> QED BY <2>2, <2>3
  <1>4. ASSUME NEW t \in Tellers, NEW b \in Accounts, NEW m \in Amounts, Submit(t, b, m)
        PROVE  FALSE
    BY <1>4 DEF Submit, database
  <1>5. ASSUME NEW u \in Auditors, NEW x \in TxIds, NEW d \in AuditState, ReadFlag(u, x, d)
        PROVE  FALSE
    BY <1>5 DEF ReadFlag, database
  <1>6. ASSUME NEW s \in Sessions, UpdateStep(s) \/ Abort(s)
        PROVE  FALSE
    BY <1>6 DEF UpdateStep, Update, UpdateFails, Conflict, Abort, Rollback, database
  <1>7. CASE UNCHANGED vars
    BY <1>7 DEF vars, database
  <1> QED BY <1>2, <1>3, <1>4, <1>5, <1>6, <1>7 DEF Next

\* No write to an account is lost, however many sessions write to it.
THEOREM NoUpdateIsLost == Spec => NoLostUpdate
  <1>1. IInv /\ [Next]_vars =>
          [\A a \in Accounts : account'[a] # account[a] =>
             account'[a].version = account[a].version + 1]_vars
    BY StepBuildsOnRow
  <1> QED BY <1>1, Invariance, PTL DEF Spec, NoLostUpdate

-----------------------------------------------------------------------------
(***************************************************************************)
(* The ledger with one auditor at a time: verdicts are final and true, and  *)
(* every COMMIT moves one transaction's money once, for every number of     *)
(* tellers, accounts and transactions.  With two auditors none of this      *)
(* holds.  JInv is the inductive invariant, beside IInv.                    *)
(***************************************************************************)

OneAuditor == \A u, v \in Auditors : u = v

\* A value of the sequence that is not in the tables yet.
Fresh(x) == txn[x] = Absent /\ flag[x] = "Absent"

InsertPending(t) == pc[t] \in {"recorded", "notified"}

\* What the sequence has not given out is in no table, and what it has given out
\* to a session that has not committed is in no table either, nor another's.
SequenceOK ==
    /\ \A x \in TxIds : x >= nextTx => Fresh(x)
    /\ \A t \in Tellers : InsertPending(t) => req[t].tx < nextTx /\ Fresh(req[t].tx)
    /\ \A t, v \in Tellers :
         InsertPending(t) /\ InsertPending(v) /\ req[t].tx = req[v].tx => t = v

\* The state of a flagged transaction is the one its flagged row stands for.
StateOf(state) ==
    CASE state = "Aprobado" -> "Aprobada"
      [] state = "Bloqueado" -> "Rechazada"
      [] OTHER -> "Bloqueada"

FlagAgrees == \A x \in TxIds : flag[x] # "Absent" => txn[x].state = StateOf(flag[x])

\* The case under review is still open, and the request has its money right.
ReviewOK(u) ==
    /\ pc[u] \in {"review", "locked", "updated", "marked"} =>
         /\ Open(req[u].tx)
         /\ req[u].account = txn[req[u].tx].account
         /\ req[u].amount = txn[req[u].tx].amount
    /\ pc[u] = "committed" => flag[req[u].tx] = req[u].decision

\* A verdict was broadcast only of a case that is decided that way.
EventOK ==
    \A x \in TxIds : lastEvent[x] \in {"Aprobada", "Rechazada"} =>
        flag[x] \in Resolved /\ lastEvent[x] = StateOf(flag[x])

JInv ==
    /\ SequenceOK
    /\ FlagAgrees
    /\ \A u \in Auditors : ReviewOK(u)
    /\ EventOK

-----------------------------------------------------------------------------
(* The invariant *)

\* At first nothing is flagged, given out or broadcast.
LEMMA InitCases == Init => JInv
  BY SessionAssumption
     DEF Init, JInv, SequenceOK, Fresh, InsertPending, FlagAgrees, ReviewOK, EventOK, Sessions,
         Absent

\* A step that leaves the tables and the events alone keeps the invariant if its
\* session gives a request up or goes on with the one it has.
LEMMA QuietStep ==
    ASSUME IInv, JInv, NEW s \in Sessions, UNCHANGED <<txn, flag, nextTx, lastEvent>>,
           \A r \in Sessions \ {s} : pc'[r] = pc[r] /\ req'[r] = req[r],
           s \in Tellers /\ InsertPending(s)' => InsertPending(s) /\ req'[s] = req[s],
           s \in Auditors => ReviewOK(s)'
    PROVE  JInv'
  <1> USE DEF JInv
  <1>1. SequenceOK'
    BY DEF SequenceOK, Fresh, InsertPending, Sessions
  <1>2. FlagAgrees' /\ EventOK'
    BY DEF FlagAgrees, EventOK
  <1>3. ASSUME NEW u \in Auditors PROVE ReviewOK(u)'
    <2>1. CASE u = s
      BY <2>1
    <2>2. CASE u # s
      BY <2>2 DEF ReviewOK, Open, Sessions
    <2> QED BY <2>1, <2>2
  <1> QED BY <1>1, <1>2, <1>3

\* A rollback gives the request up; its value of the sequence stays unused.
LEMMA RollbackCases ==
    ASSUME IInv, JInv, NEW s \in Sessions, Rollback(s)
    PROVE  JInv'
  <1>1. pc'[s] = "idle"
    BY DEF Rollback, Forget, IInv, TypeOK
  <1>2. \A r \in Sessions \ {s} : pc'[r] = pc[r] /\ req'[r] = req[r]
    BY DEF Rollback, Forget, IInv, TypeOK
  <1>3. UNCHANGED <<txn, flag, nextTx, lastEvent>>
    BY DEF Rollback, database, events
  <1> QED BY <1>1, <1>2, <1>3, QuietStep DEF InsertPending, ReviewOK

\* The steps of a submission up to its INSERT, and the alert.
LEMMA SubmitCases ==
    ASSUME IInv, JInv, NEW t \in Tellers,
           \/ \E a \in Accounts, m \in Nat : Submit(t, a, m)
           \/ \E d \in {"Aprobada", "Bloqueada"} : Screen(t, d)
           \/ Notify(t)
    PROVE  JInv'
  <1>1. t \in Sessions /\ t \notin Auditors
    BY SessionAssumption DEF Sessions
  <1>2. \A r \in Sessions \ {t} : pc'[r] = pc[r] /\ req'[r] = req[r]
    BY DEF Submit, Screen, Notify, IInv, TypeOK
  <1>3. UNCHANGED <<txn, flag, nextTx, lastEvent>>
    BY DEF Submit, Screen, Notify, database, events
  <1>4. InsertPending(t)' => InsertPending(t) /\ req'[t] = req[t]
    BY <1>1 DEF Submit, Screen, Notify, InsertPending, IInv, TypeOK
  <1> QED BY <1>1, <1>2, <1>3, <1>4, QuietStep

\* The INSERT takes a value nobody has.
LEMMA InsertCases ==
    ASSUME IInv, JInv, NEW t \in Tellers, Insert(t)
    PROVE  JInv'
  <1> USE DEF JInv
  <1>1. /\ t \in Sessions
        /\ nextTx \in TxIds /\ nextTx' = nextTx + 1
        /\ UNCHANGED <<txn, flag, lastEvent>>
    <2>1. nextTx \in TxIds
      <3>1. nextTx \in 1 .. MaxTx + 1
        BY DEF IInv, TypeOK
      <3>2. nextTx <= MaxTx
        BY DEF Insert, InsertLegal
      <3> QED BY <3>1, <3>2, NumberAssumption DEF TxIds
    <2> QED BY <2>1 DEF Insert, events, Sessions
  <1>2. pc'[t] = "recorded" /\ req'[t].tx = nextTx
    BY <1>1 DEF Insert, IInv, TypeOK, SessionOK, RequestOK, Request
  <1>3. \A r \in Sessions \ {t} : pc'[r] = pc[r] /\ req'[r] = req[r]
    BY DEF Insert, IInv, TypeOK
  <1>4. SequenceOK'
    <2>1. ASSUME NEW x \in TxIds, x >= nextTx' PROVE Fresh(x)'
      BY <1>1, <2>1 DEF SequenceOK, Fresh, TxIds
    <2>2. ASSUME NEW v \in Tellers, InsertPending(v)'
          PROVE  req'[v].tx < nextTx' /\ Fresh(req[v].tx)'
      <3>1. CASE v = t
        BY <1>1, <1>2, <3>1 DEF SequenceOK, Fresh, TxIds
      <3>2. CASE v # t
        <4>1. InsertPending(v) /\ req'[v] = req[v]
          BY <1>3, <2>2, <3>2 DEF InsertPending, Sessions
        <4>2. req[v].tx \in TxIds
          BY <4>1 DEF InsertPending, IInv, TellerOK
        <4> QED BY <1>1, <4>1, <4>2 DEF SequenceOK, Fresh, TxIds
      <3> QED BY <3>1, <3>2
    <2>3. ASSUME NEW v \in Tellers, NEW w \in Tellers, InsertPending(v)', InsertPending(w)',
                 req'[v].tx = req'[w].tx
          PROVE  v = w
      <3>1. \A z \in Tellers \ {t} : InsertPending(z)' =>
               InsertPending(z) /\ req'[z] = req[z] /\ req[z].tx # nextTx
        BY <1>1, <1>3 DEF InsertPending, Sessions, SequenceOK, TxIds
      <3> QED BY <1>2, <2>3, <3>1 DEF SequenceOK
    <2> QED BY <2>1, <2>2, <2>3 DEF SequenceOK
  <1>5. FlagAgrees' /\ EventOK'
    BY <1>1 DEF FlagAgrees, EventOK
  <1>6. ASSUME NEW u \in Auditors PROVE ReviewOK(u)'
    BY <1>1, <1>3, SessionAssumption DEF ReviewOK, Open, Sessions
  <1> QED BY <1>4, <1>5, <1>6

\* The COMMIT of a submission puts a row where none was.
LEMMA CommitSubmitCases ==
    ASSUME IInv, JInv, NEW t \in Tellers, CommitSubmit(t)
    PROVE  JInv'
  <1> DEFINE x == req[t].tx
  <1> USE DEF JInv
  <1>1. /\ t \in Sessions /\ InsertPending(t) /\ x \in TxIds
        /\ req[t].decision \in {"Aprobada", "Bloqueada"}
        /\ Fresh(x) /\ x < nextTx
    BY DEF CommitSubmit, ReadyToCommit, InsertPending, SequenceOK, IInv, TellerOK, Sessions
  <1>2. /\ txn'[x] = [account |-> req[t].account, amount |-> req[t].amount,
                      state |-> req[t].decision]
        /\ flag'[x] = IF req[t].decision = "Bloqueada" THEN "Revision Pendiente" ELSE "Absent"
        /\ \A y \in TxIds \ {x} : txn'[y] = txn[y] /\ flag'[y] = flag[y]
        /\ UNCHANGED <<nextTx, lastEvent>>
    BY <1>1 DEF CommitSubmit, events, Fresh, IInv, TypeOK
  <1>3. pc'[t] = "idle" /\ \A r \in Sessions \ {t} : pc'[r] = pc[r] /\ req'[r] = req[r]
    BY <1>1 DEF CommitSubmit, Forget, IInv, TypeOK
  <1>4. SequenceOK'
    <2>1. \A y \in TxIds : y >= nextTx' => Fresh(y)'
      <3> SUFFICES ASSUME NEW y \in TxIds, y >= nextTx PROVE Fresh(y)'
        BY <1>2
      <3>1. y # x
        <4>1. nextTx \in 1 .. MaxTx + 1
          BY DEF IInv, TypeOK
        <4> QED BY <1>1, <4>1, NumberAssumption DEF TxIds
      <3>2. Fresh(y)
        BY DEF SequenceOK
      <3> QED BY <1>2, <3>1, <3>2 DEF Fresh
    <2>2. \A v \in Tellers : InsertPending(v)' =>
            v # t /\ InsertPending(v) /\ req'[v] = req[v] /\ req[v].tx # x /\ req[v].tx \in TxIds
      BY <1>1, <1>3 DEF SequenceOK, InsertPending, Sessions, IInv, TellerOK
    <2>3. \A v \in Tellers : InsertPending(v)' => req'[v].tx < nextTx' /\ Fresh(req[v].tx)'
      <3> SUFFICES ASSUME NEW v \in Tellers, InsertPending(v)'
                   PROVE  req'[v].tx < nextTx' /\ Fresh(req[v].tx)'
        OBVIOUS
      <3>1. /\ req'[v] = req[v] /\ req[v].tx \in TxIds \ {x}
            /\ req[v].tx < nextTx /\ Fresh(req[v].tx)
        BY <2>2 DEF SequenceOK
      <3> QED BY <1>2, <3>1 DEF Fresh
    <2>4. \A v, w \in Tellers :
            InsertPending(v)' /\ InsertPending(w)' /\ req'[v].tx = req'[w].tx => v = w
      BY <2>2 DEF SequenceOK
    <2> QED BY <2>1, <2>3, <2>4 DEF SequenceOK
  <1>5. FlagAgrees'
    <2> SUFFICES ASSUME NEW y \in TxIds, flag'[y] # "Absent"
                 PROVE  txn'[y].state = StateOf(flag'[y])
      BY DEF FlagAgrees
    <2>1. CASE y = x
      <3>1. flag'[x] = "Revision Pendiente" /\ req[t].decision = "Bloqueada"
        BY <1>2, <2>1
      <3>2. txn'[x].state = "Bloqueada"
        <4> DEFINE row == [account |-> req[t].account, amount |-> req[t].amount,
                           state |-> req[t].decision]
        <4>1. row.state = req[t].decision
          OBVIOUS
        <4>2. txn'[x] = row
          BY <1>2
        <4> HIDE DEF row
        <4> QED BY <3>1, <4>1, <4>2
      <3> QED BY <2>1, <3>1, <3>2 DEF StateOf
    <2>2. CASE y # x
      BY <1>2, <2>2 DEF FlagAgrees
    <2> QED BY <2>1, <2>2
  <1>6. EventOK'
    BY <1>1, <1>2 DEF EventOK, Fresh, Resolved
  <1>7. ASSUME NEW u \in Auditors PROVE ReviewOK(u)'
    <2>1. u \in Sessions \ {t}
      BY SessionAssumption DEF Sessions
    <2>2. CASE pc[u] = "idle"
      BY <1>3, <2>1, <2>2 DEF ReviewOK
    <2>3. CASE pc[u] # "idle"
      <3>1. req[u].tx \in TxIds /\ flag[req[u].tx] # "Absent"
        BY <2>3 DEF IInv, AuditorOK
      <3>2. req[u].tx # x
        BY <1>1, <3>1 DEF Fresh
      <3>3. pc'[u] = pc[u] /\ req'[u] = req[u]
        BY <1>3, <2>1
      <3>4. txn'[req[u].tx] = txn[req[u].tx] /\ flag'[req[u].tx] = flag[req[u].tx]
        BY <1>2, <3>1, <3>2
      <3> QED BY <3>3, <3>4 DEF ReviewOK, Open
    <2> QED BY <2>2, <2>3
  <1> QED BY <1>4, <1>5, <1>6, <1>7

\* A review takes up an open case, and the steps up to its COMMIT keep it.
LEMMA ReviewCases ==
    ASSUME IInv, JInv, NEW u \in Auditors,
           \/ \E x \in TxIds, d \in AuditState : ReadFlag(u, x, d)
           \/ LockAccount(u)
           \/ Mark(u)
    PROVE  JInv'
  <1>1. u \in Sessions /\ u \notin Tellers
    BY SessionAssumption DEF Sessions
  <1>2. \A r \in Sessions \ {u} : pc'[r] = pc[r] /\ req'[r] = req[r]
    BY DEF ReadFlag, LockAccount, Mark, IInv, TypeOK
  <1>3. UNCHANGED <<txn, flag, nextTx, lastEvent>>
    BY DEF ReadFlag, LockAccount, Mark, database, events
  <1>4. ReviewOK(u)'
    <2>1. CASE \E x \in TxIds, d \in AuditState : ReadFlag(u, x, d)
      <3>1. PICK x \in TxIds, d \in AuditState : ReadFlag(u, x, d)
        BY <2>1
      <3>2. /\ pc'[u] = "review"
            /\ req'[u] = [account |-> txn[x].account, amount |-> txn[x].amount,
                          tx |-> x, decision |-> d]
            /\ Open(x)
        BY <1>1, <3>1 DEF ReadFlag, IInv, TypeOK
      <3> QED BY <1>3, <3>2 DEF ReviewOK, Open
    <2>2. CASE LockAccount(u) \/ Mark(u)
      BY <1>1, <1>3, <2>2 DEF LockAccount, Mark, ReviewOK, Open, IInv, TypeOK, JInv
    <2> QED BY <2>1, <2>2
  <1> QED BY <1>1, <1>2, <1>3, <1>4, QuietStep

\* The versioned UPDATE, of a teller or of the auditor.
LEMMA UpdateCases ==
    ASSUME IInv, JInv, NEW s \in Sessions, Update(s)
    PROVE  JInv'
  <1>1. \A r \in Sessions \ {s} : pc'[r] = pc[r] /\ req'[r] = req[r]
    BY DEF Update, IInv, TypeOK
  <1>2. UNCHANGED <<txn, flag, nextTx, lastEvent>> /\ pc'[s] = "updated" /\ req' = req
    BY DEF Update, database, events, IInv, TypeOK
  <1>3. s \in Auditors => ReviewOK(s)'
    BY <1>2 DEF Update, ReadyToUpdate, ReviewOK, Open, JInv, IInv, AuditorOK, AuditorPhase
  <1> QED BY <1>1, <1>2, <1>3, QuietStep DEF InsertPending

\* The COMMIT of the only auditor decides a case that is open.
LEMMA CommitReviewCases ==
    ASSUME OneAuditor, IInv, JInv, NEW u \in Auditors, CommitReview(u)
    PROVE  JInv'
  <1> DEFINE x == req[u].tx
  <1> USE DEF JInv
  <1>1. /\ u \in Sessions /\ u \notin Tellers
        /\ x \in TxIds /\ txn[x] \in TransactionRow
        /\ req[u].decision \in AuditState /\ Open(x)
    BY SessionAssumption DEF CommitReview, IInv, AuditorOK, Sessions, ReviewOK
  <1>2. /\ txn' = [txn EXCEPT ![x].state = Settled(req[u].decision, @)]
        /\ flag' = [flag EXCEPT ![x] = req[u].decision]
        /\ UNCHANGED <<nextTx, lastEvent, req>>
        /\ pc' = [pc EXCEPT ![u] = "committed"]
    BY DEF CommitReview, events
  <1>3. /\ txn'[x].state = StateOf(req[u].decision)
        /\ flag'[x] = req[u].decision
        /\ \A y \in TxIds \ {x} : txn'[y] = txn[y] /\ flag'[y] = flag[y]
    <2>1. txn'[x].state = Settled(req[u].decision, txn[x].state)
      BY <1>1, <1>2 DEF IInv, TypeOK, TransactionRow
    <2>2. txn[x].state = "Bloqueada"
      BY <1>1 DEF FlagAgrees, StateOf, Open, Resolved
    <2> QED BY <1>1, <1>2, <2>1, <2>2 DEF Settled, StateOf, IInv, TypeOK, AuditState
  <1>4. SequenceOK'
    <2>1. \A t \in Tellers : InsertPending(t)' =>
            InsertPending(t) /\ req[t].tx # x /\ req[t].tx \in TxIds
      BY <1>1, <1>2
         DEF SequenceOK, InsertPending, Fresh, Open, IInv, TypeOK, TellerOK, Sessions
    <2>2. \A y \in TxIds : y >= nextTx => y # x
      BY <1>1 DEF SequenceOK, Fresh, Open
    <2> QED BY <1>2, <1>3, <2>1, <2>2 DEF SequenceOK, Fresh
  <1>5. FlagAgrees'
    BY <1>3 DEF FlagAgrees
  <1>6. EventOK'
    BY <1>1, <1>2, <1>3 DEF EventOK, Open
  <1>7. ASSUME NEW v \in Auditors PROVE ReviewOK(v)'
    <2>1. v = u
      BY DEF OneAuditor
    <2>2. pc'[u] = "committed"
      BY <1>1, <1>2 DEF IInv, TypeOK
    <2> QED BY <1>2, <1>3, <2>1, <2>2 DEF ReviewOK
  <1> QED BY <1>4, <1>5, <1>6, <1>7

\* The verdict broadcast is the one on record.
LEMMA BroadcastCases ==
    ASSUME IInv, JInv, NEW u \in Auditors, Broadcast(u)
    PROVE  JInv'
  <1> USE DEF JInv
  <1>1. /\ u \in Sessions /\ u \notin Tellers
        /\ req[u].tx \in TxIds /\ req[u].decision \in AuditState
        /\ flag[req[u].tx] = req[u].decision
    BY SessionAssumption DEF Broadcast, IInv, AuditorOK, Sessions, ReviewOK
  <1>2. /\ UNCHANGED <<txn, flag, nextTx>>
        /\ lastEvent' = [lastEvent EXCEPT ![req[u].tx] = EventStatus(req[u].decision)]
        /\ pc'[u] = "idle"
        /\ \A r \in Sessions \ {u} : pc'[r] = pc[r] /\ req'[r] = req[r]
    BY <1>1 DEF Broadcast, Forget, database, IInv, TypeOK
  <1>3. SequenceOK'
    BY <1>1, <1>2 DEF SequenceOK, Fresh, InsertPending, Sessions
  <1>4. FlagAgrees'
    BY <1>2 DEF FlagAgrees
  <1>5. EventOK'
    BY <1>1, <1>2 DEF EventOK, EventStatus, StateOf, Resolved, AuditState, IInv, TypeOK
  <1>6. ASSUME NEW v \in Auditors PROVE ReviewOK(v)'
    BY <1>2 DEF ReviewOK, Open, Sessions
  <1> QED BY <1>3, <1>4, <1>5, <1>6

\* Every step keeps it, if there is one auditor.
LEMMA NextCases == OneAuditor /\ IInv /\ JInv /\ [Next]_vars => JInv'
  <1> SUFFICES ASSUME OneAuditor, IInv, JInv, [Next]_vars PROVE JInv'
    OBVIOUS
  <1>1. ASSUME NEW t \in Tellers,
               \/ \E a \in Accounts, m \in Amounts : Submit(t, a, m)
               \/ TellerStep(t)
        PROVE  JInv'
    <2>1. CASE InsertFails(t)
      BY <2>1, RollbackCases DEF InsertFails, Sessions
    <2> QED BY <1>1, <2>1, NumberAssumption, SubmitCases, InsertCases, CommitSubmitCases
            DEF TellerStep
  <1>2. ASSUME NEW u \in Auditors,
               \/ \E x \in TxIds, d \in AuditState : ReadFlag(u, x, d)
               \/ AuditorStep(u)
        PROVE  JInv'
    <2>1. CASE HoldMissing(u)
      BY <2>1, RollbackCases DEF HoldMissing, Sessions
    <2> QED BY <1>2, <2>1, ReviewCases, CommitReviewCases, BroadcastCases DEF AuditorStep
  <1>3. ASSUME NEW s \in Sessions, UpdateStep(s) \/ Abort(s) PROVE JInv'
    BY <1>3, UpdateCases, RollbackCases DEF UpdateStep, UpdateFails, Conflict, Abort
  <1>4. CASE UNCHANGED vars
    BY <1>4 DEF vars, database, locals, events, JInv, SequenceOK, Fresh, InsertPending,
                FlagAgrees, ReviewOK, Open, EventOK
  <1> QED BY <1>1, <1>2, <1>3, <1>4 DEF Next

\* It holds throughout.
LEMMA CasesInvariance ==
    ASSUME OneAuditor PROVE Spec => []JInv
  BY InitCases, NextCases, Invariance, PTL DEF Spec

-----------------------------------------------------------------------------
(* Theorems *)

\* A verdict clients were told of is the verdict on record, with one auditor.
THEOREM VerdictIsOnRecord ==
    ASSUME OneAuditor PROVE Spec => []VerdictOnRecord
  <1>1. IInv /\ JInv => VerdictOnRecord
    BY DEF IInv, TypeOK, JInv, EventOK, FlagAgrees, VerdictOnRecord, TransactionState, Resolved
  <1> QED BY <1>1, Invariance, CasesInvariance, PTL

\* A step that changes a flagged row does not change a verdict.
LEMMA StepKeepsVerdicts ==
    ASSUME IInv, JInv, [Next]_vars, NEW x \in TxIds, flag[x] \in Resolved
    PROVE  flag'[x] = flag[x]
  <1>1. ASSUME NEW t \in Tellers, CommitSubmit(t) PROVE flag'[x] = flag[x]
    <2>1. Fresh(req[t].tx)
      BY <1>1 DEF CommitSubmit, ReadyToCommit, JInv, SequenceOK, InsertPending
    <2>2. req[t].tx # x
      BY <2>1 DEF Fresh, Resolved
    <2> QED BY <1>1, <2>2 DEF CommitSubmit, IInv, TypeOK
  <1>2. ASSUME NEW u \in Auditors, CommitReview(u) PROVE flag'[x] = flag[x]
    <2>1. Open(req[u].tx)
      BY <1>2 DEF CommitReview, JInv, ReviewOK
    <2>2. req[u].tx # x
      BY <2>1 DEF Open
    <2> QED BY <1>2, <2>2 DEF CommitReview, IInv, TypeOK
  <1>3. ASSUME NEW t \in Tellers, NEW a \in Accounts, NEW m \in Amounts, Submit(t, a, m)
        PROVE  UNCHANGED flag
    BY <1>3 DEF Submit, database
  <1>4. ASSUME NEW t \in Tellers, TellerStep(t), ~CommitSubmit(t) PROVE UNCHANGED flag
    BY <1>4 DEF TellerStep, Screen, Insert, InsertFails, Notify, Rollback, database
  <1>5. ASSUME NEW u \in Auditors, AuditorStep(u), ~CommitReview(u) PROVE UNCHANGED flag
    BY <1>5 DEF AuditorStep, LockAccount, HoldMissing, Mark, Broadcast, Rollback, database
  <1>6. ASSUME NEW u \in Auditors, NEW y \in TxIds, NEW d \in AuditState, ReadFlag(u, y, d)
        PROVE  UNCHANGED flag
    BY <1>6 DEF ReadFlag, database
  <1>7. ASSUME NEW s \in Sessions, UpdateStep(s) \/ Abort(s) PROVE UNCHANGED flag
    BY <1>7 DEF UpdateStep, Update, UpdateFails, Conflict, Abort, Rollback, database
  <1>8. CASE UNCHANGED vars
    BY <1>8 DEF vars, database
  <1> QED BY <1>1, <1>2, <1>3, <1>4, <1>5, <1>6, <1>7, <1>8 DEF Next

\* With one auditor, a case that was approved or rejected stays so.
THEOREM VerdictsAreFinal ==
    ASSUME OneAuditor PROVE Spec => ResolutionIsFinal
  <1>1. IInv /\ JInv /\ [Next]_vars =>
          [\A x \in TxIds : flag[x] \in Resolved => flag'[x] = flag[x]]_vars
    BY StepKeepsVerdicts
  <1> QED BY <1>1, Invariance, CasesInvariance, PTL DEF Spec, ResolutionIsFinal

-----------------------------------------------------------------------------
(* What a step does to the rows and the tables *)

Table == [TxIds -> TransactionRow \cup {Absent}]

\* Only a COMMIT writes an account or a transaction.
LEMMA OnlyCommitsWrite ==
    ASSUME [Next]_vars
    PROVE  \/ UNCHANGED <<account, txn>>
           \/ \E t \in Tellers : CommitSubmit(t)
           \/ \E u \in Auditors : CommitReview(u)
  <1> DEFINE Same == UNCHANGED <<account, txn>>
  <1>1. ASSUME NEW t \in Tellers, NEW a \in Accounts, NEW m \in Amounts, Submit(t, a, m)
        PROVE  Same
    BY <1>1 DEF Submit, database
  <1>2. ASSUME NEW t \in Tellers, TellerStep(t), ~CommitSubmit(t) PROVE Same
    BY <1>2 DEF TellerStep, Screen, Insert, InsertFails, Notify, Rollback, database
  <1>3. ASSUME NEW u \in Auditors, AuditorStep(u), ~CommitReview(u) PROVE Same
    BY <1>3 DEF AuditorStep, LockAccount, HoldMissing, Mark, Broadcast, Rollback, database
  <1>4. ASSUME NEW u \in Auditors, NEW x \in TxIds, NEW d \in AuditState, ReadFlag(u, x, d)
        PROVE  Same
    BY <1>4 DEF ReadFlag, database
  <1>5. ASSUME NEW s \in Sessions, UpdateStep(s) \/ Abort(s) PROVE Same
    BY <1>5 DEF UpdateStep, Update, UpdateFails, Conflict, Abort, Rollback, database
  <1>6. ASSUME UNCHANGED vars PROVE Same
    BY <1>6 DEF vars, database
  <1> QED BY <1>1, <1>2, <1>3, <1>4, <1>5, <1>6 DEF Next

\* The COMMIT of a submission writes a covered amount, in its account and in a
\* row where none was.
LEMMA SubmissionWrites ==
    ASSUME IInv, JInv, NEW t \in Tellers, CommitSubmit(t)
    PROVE  LET r == req[t] IN
           /\ account \in [Accounts -> AccountRow] /\ txn \in Table
           /\ r.tx \in TxIds /\ r.account \in Accounts /\ r.amount \in Nat
           /\ r.decision \in {"Aprobada", "Bloqueada"}
           /\ txn[r.tx] = Absent
           /\ r.amount <= account[r.account].balance - account[r.account].reserved
           /\ account' = [account EXCEPT ![r.account] =
                            Moved(account[r.account], BalanceDelta(r.decision, r.amount),
                                                      ReservedDelta(r.decision, r.amount))]
           /\ txn' = [txn EXCEPT ![r.tx] = [account |-> r.account, amount |-> r.amount,
                                            state |-> r.decision]]
  <1> DEFINE r == req[t]
  <1>1. t \in Sessions /\ HasDraft(t) /\ InsertPending(t)
    BY DEF CommitSubmit, ReadyToCommit, HasDraft, InsertPending, Sessions
  <1>2. /\ r \in Request /\ r.account \in Accounts /\ r.amount \in Nat
        /\ draft[t] = Target(t) /\ draft[t] \in AccountRow
        /\ draft[t].reserved <= draft[t].balance
    BY <1>1 DEF IInv, SessionOK, RequestOK, DraftOK, HasDraft, Request
  <1>3. /\ r.tx \in TxIds /\ r.decision \in {"Aprobada", "Bloqueada"}
        /\ txn[r.tx] = Absent
    BY <1>1 DEF InsertPending, IInv, TellerOK, JInv, SequenceOK, Fresh
  <1>4. /\ account \in [Accounts -> AccountRow] /\ account[r.account] \in AccountRow
        /\ txn \in Table
    BY <1>2 DEF IInv, TypeOK, Table
  <1>5. /\ account' = [account EXCEPT ![r.account] = draft[t]]
        /\ txn' = [txn EXCEPT ![r.tx] = [account |-> r.account, amount |-> r.amount,
                                         state |-> r.decision]]
    BY DEF CommitSubmit
  <1>6. draft[t] = Moved(account[r.account], BalanceDelta(r.decision, r.amount),
                                             ReservedDelta(r.decision, r.amount))
    BY <1>2 DEF Target
  <1>7. r.amount <= account[r.account].balance - account[r.account].reserved
    BY <1>2, <1>3, <1>4, <1>6 DEF Moved, BalanceDelta, ReservedDelta, Resolved, AccountRow
  <1> QED BY <1>2, <1>3, <1>4, <1>5, <1>6, <1>7

\* The COMMIT of a review writes the verdict on a held transaction, in its account
\* and in its row, or nothing.
LEMMA ReviewWrites ==
    ASSUME IInv, JInv, NEW u \in Auditors, CommitReview(u)
    PROVE  LET r == req[u] IN
           /\ account \in [Accounts -> AccountRow] /\ txn \in Table
           /\ \/ UNCHANGED <<account, txn>>
              \/ /\ r.decision \in Resolved
                 /\ r.tx \in TxIds /\ r.account \in Accounts /\ r.amount \in Nat
                 /\ txn[r.tx] # Absent /\ txn[r.tx].state = "Bloqueada"
                 /\ txn[r.tx].account = r.account /\ txn[r.tx].amount = r.amount
                 /\ account' = [account EXCEPT ![r.account] =
                                  Moved(account[r.account], BalanceDelta(r.decision, r.amount),
                                                            ReservedDelta(r.decision, r.amount))]
                 /\ txn' = [txn EXCEPT ![r.tx].state = Settled(r.decision, @)]
  <1> DEFINE r == req[u]
             x == r.tx
  <1>1. /\ u \in Sessions /\ x \in TxIds /\ txn[x] \in TransactionRow /\ Open(x)
        /\ r.account = txn[x].account /\ r.amount = txn[x].amount
        /\ r.decision \in AuditState
    BY DEF CommitReview, IInv, AuditorOK, JInv, ReviewOK, Sessions
  <1>2. /\ account' = IF r.decision \in Resolved
                        THEN [account EXCEPT ![r.account] = draft[u]] ELSE account
        /\ txn' = [txn EXCEPT ![x].state = Settled(r.decision, @)]
    BY DEF CommitReview
  <1>3. account \in [Accounts -> AccountRow] /\ txn \in Table
    BY DEF IInv, TypeOK, Table
  <1>4. CASE r.decision \notin Resolved
    <2>1. Settled(r.decision, txn[x].state) = txn[x].state
      BY <1>4 DEF Settled, Resolved
    <2>2. txn' = txn
      BY <1>1, <1>2, <1>3, <2>1 DEF TransactionRow, Table
    <2> QED BY <1>2, <1>3, <1>4, <2>2
  <1>5. CASE r.decision \in Resolved
    <2>1. txn[x] # Absent /\ txn[x].state = "Bloqueada"
      BY <1>1 DEF JInv, FlagAgrees, StateOf, Open, Resolved, Absent
    <2>2. HasDraft(u) /\ draft[u] = Target(u) /\ r.account \in Accounts /\ r.amount \in Nat
      BY <1>1, <1>5 DEF CommitReview, HasDraft, IInv, SessionOK, DraftOK, TransactionRow
    <2>3. draft[u] = Moved(account[r.account], BalanceDelta(r.decision, r.amount),
                                               ReservedDelta(r.decision, r.amount))
      BY <2>2 DEF Target
    <2> QED BY <1>1, <1>2, <1>3, <1>5, <2>1, <2>2, <2>3
  <1> QED BY <1>4, <1>5

-----------------------------------------------------------------------------
(* The sums *)

\* Entries and Total of any table, before or after a step.
EntriesOf(table, a, state) == {x \in TxIds : table[x].state = state /\ table[x].account = a}

PartsOf(table, a, state) == [x \in EntriesOf(table, a, state) |-> table[x].amount]

TotalOf(table, a, state) == SumFunction(PartsOf(table, a, state))

\* A total adds finitely many naturals up.
LEMMA TotalAdds ==
    ASSUME NEW table \in Table, NEW a, NEW state \in TransactionState
    PROVE  /\ IsFiniteSet(EntriesOf(table, a, state))
           /\ \A x \in EntriesOf(table, a, state) :
                PartsOf(table, a, state)[x] = table[x].amount /\ table[x].amount \in Nat
           /\ TotalOf(table, a, state) =
                SumFunctionOnSet(PartsOf(table, a, state), EntriesOf(table, a, state))
  <1>1. IsFiniteSet(EntriesOf(table, a, state))
    <2>1. IsFiniteSet(TxIds)
      BY NumberAssumption, FS_Interval DEF TxIds
    <2> QED BY <2>1, FS_Subset DEF EntriesOf
  <1>2. \A x \in EntriesOf(table, a, state) : table[x].amount \in Nat
    BY DEF Table, EntriesOf, TransactionRow, TransactionState, Absent
  <1>3. DOMAIN PartsOf(table, a, state) = EntriesOf(table, a, state)
    BY DEF PartsOf
  <1> QED BY <1>1, <1>2, <1>3 DEF TotalOf, PartsOf, SumFunction

\* It is one itself.
LEMMA TotalNat ==
    ASSUME NEW table \in Table, NEW a, NEW state \in TransactionState
    PROVE  TotalOf(table, a, state) \in Nat
  <1>1. /\ IsFiniteSet(EntriesOf(table, a, state))
        /\ \A x \in EntriesOf(table, a, state) : PartsOf(table, a, state)[x] \in Nat
        /\ TotalOf(table, a, state) =
             SumFunctionOnSet(PartsOf(table, a, state), EntriesOf(table, a, state))
    BY TotalAdds
  <1> QED BY <1>1, SumNat

\* A transaction that comes into a state adds its amount to the total of it...
LEMMA TotalGrows ==
    ASSUME NEW old \in Table, NEW new \in Table, NEW a, NEW state \in TransactionState,
           NEW x, x \notin EntriesOf(old, a, state),
           EntriesOf(new, a, state) = EntriesOf(old, a, state) \cup {x},
           \A y \in EntriesOf(old, a, state) : new[y].amount = old[y].amount
    PROVE  TotalOf(new, a, state) = TotalOf(old, a, state) + new[x].amount
  <1> DEFINE E == EntriesOf(old, a, state)
             parts == PartsOf(old, a, state)
             grown == PartsOf(new, a, state)
  <1>1. /\ IsFiniteSet(E) /\ x \notin E
        /\ \A y \in E : parts[y] = old[y].amount /\ old[y].amount \in Nat
        /\ TotalOf(old, a, state) = SumFunctionOnSet(parts, E)
    BY TotalAdds
  <1>2. /\ \A y \in E \cup {x} : grown[y] = new[y].amount /\ new[y].amount \in Nat
        /\ TotalOf(new, a, state) = SumFunctionOnSet(grown, E \cup {x})
    BY TotalAdds
  <1>3. /\ \A y \in E : parts[y] = grown[y] /\ parts[y] \in Int
        /\ \A y \in E \cup {x} : grown[y] \in Int
    BY <1>1, <1>2
  <1> HIDE DEF E, parts, grown
  <1>4. SumFunctionOnSet(grown, E \cup {x}) = SumFunctionOnSet(grown, E) + grown[x]
    BY <1>1, <1>3, SumAdd
  <1>5. SumFunctionOnSet(parts, E) = SumFunctionOnSet(grown, E)
    BY <1>1, <1>3, SumSame
  <1> QED BY <1>1, <1>2, <1>4, <1>5

\* ... one that goes out of it takes its amount off...
LEMMA TotalShrinks ==
    ASSUME NEW old \in Table, NEW new \in Table, NEW a, NEW state \in TransactionState,
           NEW x \in EntriesOf(old, a, state),
           EntriesOf(new, a, state) = EntriesOf(old, a, state) \ {x},
           \A y \in EntriesOf(new, a, state) : new[y].amount = old[y].amount
    PROVE  TotalOf(new, a, state) = TotalOf(old, a, state) - old[x].amount
  <1> DEFINE E == EntriesOf(old, a, state)
             parts == PartsOf(old, a, state)
             left == PartsOf(new, a, state)
  <1>1. /\ IsFiniteSet(E) /\ x \in E
        /\ \A y \in E : parts[y] = old[y].amount /\ old[y].amount \in Nat
        /\ TotalOf(old, a, state) = SumFunctionOnSet(parts, E)
    BY TotalAdds
  <1>2. /\ IsFiniteSet(E \ {x})
        /\ \A y \in E \ {x} : left[y] = new[y].amount /\ new[y].amount \in Nat
        /\ TotalOf(new, a, state) = SumFunctionOnSet(left, E \ {x})
    BY TotalAdds
  <1>3. \A y \in E \ {x} : left[y] = parts[y] /\ left[y] \in Nat
    BY <1>1, <1>2
  <1> HIDE DEF E, parts, left
  <1>4. SumFunctionOnSet(parts, E) = parts[x] + SumFunctionOnSet(parts, E \ {x})
    BY <1>1, SumRemove
  <1>5. SumFunctionOnSet(left, E \ {x}) = SumFunctionOnSet(parts, E \ {x})
    BY <1>2, <1>3, SumSame
  <1>6. SumFunctionOnSet(left, E \ {x}) \in Nat
    BY <1>2, <1>3, SumNat
  <1> QED BY <1>1, <1>2, <1>4, <1>5, <1>6

\* ... and nothing else changes one.
LEMMA TotalStays ==
    ASSUME NEW old \in Table, NEW new \in Table, NEW a, NEW state \in TransactionState,
           EntriesOf(new, a, state) = EntriesOf(old, a, state),
           \A y \in EntriesOf(old, a, state) : new[y].amount = old[y].amount
    PROVE  TotalOf(new, a, state) = TotalOf(old, a, state)
  <1> DEFINE E == EntriesOf(old, a, state)
             parts == PartsOf(old, a, state)
             same == PartsOf(new, a, state)
  <1>1. /\ IsFiniteSet(E)
        /\ \A y \in E : parts[y] = old[y].amount /\ old[y].amount \in Nat
        /\ TotalOf(old, a, state) = SumFunctionOnSet(parts, E)
    BY TotalAdds
  <1>2. /\ \A y \in E : same[y] = new[y].amount
        /\ TotalOf(new, a, state) = SumFunctionOnSet(same, E)
    BY TotalAdds
  <1>3. \A y \in E : parts[y] \in Int /\ parts[y] = same[y]
    BY <1>1, <1>2
  <1> HIDE DEF E, parts, same
  <1> QED BY <1>1, <1>2, <1>3, SumSame

\* A transaction entered adds its amount to the total it belongs to.
LEMMA EnteredTotals ==
    ASSUME NEW old \in Table, NEW new \in Table, NEW x \in TxIds,
           old[x] = Absent, new[x] # Absent,
           \A y \in TxIds \ {x} : new[y] = old[y],
           NEW b \in Accounts, NEW st \in TransactionState
    PROVE  TotalOf(new, b, st) = TotalOf(old, b, st) +
             IF b = new[x].account /\ st = new[x].state THEN new[x].amount ELSE 0
  <1>1. x \notin EntriesOf(old, b, st)
    BY DEF EntriesOf, Absent, TransactionState
  <1>2. \A y \in EntriesOf(old, b, st) : new[y].amount = old[y].amount
    BY <1>1 DEF EntriesOf
  <1>3. CASE b = new[x].account /\ st = new[x].state
    <2>1. EntriesOf(new, b, st) = EntriesOf(old, b, st) \cup {x}
      BY <1>1, <1>3 DEF EntriesOf
    <2> QED BY <1>1, <1>2, <1>3, <2>1, TotalGrows
  <1>4. CASE ~ (b = new[x].account /\ st = new[x].state)
    <2>1. EntriesOf(new, b, st) = EntriesOf(old, b, st)
      BY <1>1, <1>4 DEF EntriesOf
    <2>2. TotalOf(new, b, st) = TotalOf(old, b, st)
      BY <1>2, <2>1, TotalStays
    <2> QED BY <1>4, <2>2, TotalNat
  <1> QED BY <1>3, <1>4

\* A held transaction that is settled leaves one total and may enter another.
LEMMA SettledTotals ==
    ASSUME NEW old \in Table, NEW new \in Table, NEW x \in TxIds,
           old[x] # Absent, old[x].state = "Bloqueada", new[x].state # "Bloqueada",
           new[x].account = old[x].account, new[x].amount = old[x].amount,
           \A y \in TxIds \ {x} : new[y] = old[y],
           NEW b \in Accounts, NEW st \in TransactionState
    PROVE  TotalOf(new, b, st) = TotalOf(old, b, st) +
             IF b = old[x].account
             THEN CASE st = "Bloqueada" -> -old[x].amount
                    [] st = new[x].state -> old[x].amount
                    [] OTHER -> 0
             ELSE 0
  <1>1. \A y \in TxIds : new[y].amount = old[y].amount
    OBVIOUS
  <1>2. TotalOf(old, b, st) \in Nat /\ old[x].amount \in Nat
    BY TotalNat DEF Table, TransactionRow
  <1>3. CASE b = old[x].account /\ st = "Bloqueada"
    <2>1. x \in EntriesOf(old, b, st) /\ EntriesOf(new, b, st) = EntriesOf(old, b, st) \ {x}
      BY <1>3 DEF EntriesOf
    <2>2. \A y \in EntriesOf(new, b, st) : new[y].amount = old[y].amount
      BY <1>1 DEF EntriesOf
    <2>3. TotalOf(new, b, st) = TotalOf(old, b, st) - old[x].amount
      BY <2>1, <2>2, TotalShrinks
    <2> QED BY <1>2, <1>3, <2>3
  <1>4. CASE b = old[x].account /\ st # "Bloqueada" /\ st = new[x].state
    <2>1. x \notin EntriesOf(old, b, st) /\ EntriesOf(new, b, st) = EntriesOf(old, b, st) \cup {x}
      BY <1>4 DEF EntriesOf
    <2>2. \A y \in EntriesOf(old, b, st) : new[y].amount = old[y].amount
      BY <1>1 DEF EntriesOf
    <2>3. TotalOf(new, b, st) = TotalOf(old, b, st) + old[x].amount
      BY <2>1, <2>2, TotalGrows
    <2> QED BY <1>2, <1>4, <2>3
  <1>5. CASE b # old[x].account \/ (st # "Bloqueada" /\ st # new[x].state)
    <2>1. EntriesOf(new, b, st) = EntriesOf(old, b, st)
      BY <1>5 DEF EntriesOf
    <2>2. \A y \in EntriesOf(old, b, st) : new[y].amount = old[y].amount
      BY <1>1 DEF EntriesOf
    <2>3. TotalOf(new, b, st) = TotalOf(old, b, st)
      BY <2>1, <2>2, TotalStays
    <2> QED BY <1>2, <1>5, <2>3
  <1> QED BY <1>3, <1>4, <1>5

\* Total is the total of the table txn, before and after a step.
LEMMA TotalOfTxn ==
    \E old, new : /\ old = txn /\ new = txn'
                  /\ \A b, st : /\ Total(b, st) = TotalOf(old, b, st)
                                /\ Total(b, st)' = TotalOf(new, b, st)
  <1>1. PICK old, new : old = txn /\ new = txn'
    OBVIOUS
  <1>2. ASSUME NEW b, NEW st
        PROVE  Total(b, st) = TotalOf(old, b, st) /\ Total(b, st)' = TotalOf(new, b, st)
    BY <1>1 DEF Total, Entries, TotalOf, PartsOf, EntriesOf
  <1> QED BY <1>1, <1>2

\* A step that leaves the table alone leaves the totals.
LEMMA TotalKept ==
    ASSUME txn' = txn, NEW b, NEW st PROVE Total(b, st)' = Total(b, st)
  BY DEF Total, Entries

\* A transaction enters the tables with the money it moves.
LEMMA EnterReconciles ==
    ASSUME Reconciled, account \in [Accounts -> AccountRow], txn \in Table,
           NEW x \in TxIds, NEW a \in Accounts, NEW amount \in Nat,
           NEW state \in {"Aprobada", "Bloqueada"},
           txn[x] = Absent,
           account' = [account EXCEPT ![a] =
                         Moved(account[a], BalanceDelta(state, amount), ReservedDelta(state, amount))],
           txn' = [txn EXCEPT ![x] = [account |-> a, amount |-> amount, state |-> state]]
    PROVE  Reconciled'
  <1>1. PICK old, new :
          /\ old = txn /\ new = txn'
          /\ \A b, st : Total(b, st) = TotalOf(old, b, st) /\ Total(b, st)' = TotalOf(new, b, st)
    BY TotalOfTxn
  <1>2. /\ old \in Table /\ new \in Table /\ old[x] = Absent
        /\ new[x].account = a /\ new[x].amount = amount /\ new[x].state = state
        /\ new[x] # Absent
        /\ \A y \in TxIds \ {x} : new[y] = old[y]
    <2> DEFINE row == [account |-> a, amount |-> amount, state |-> state]
    <2>1. /\ row \in TransactionRow /\ row # Absent
          /\ row.account = a /\ row.amount = amount /\ row.state = state
      BY DEF TransactionRow, TransactionState, Absent
    <2>2. new = [old EXCEPT ![x] = row]
      BY <1>1
    <2> HIDE DEF row
    <2> QED BY <1>1, <2>1, <2>2 DEF Table
  <1>3. SUFFICES ASSUME NEW b \in Accounts
                 PROVE  /\ account'[b].balance = Opening[b] - Total(b, "Aprobada")'
                        /\ account'[b].reserved = Total(b, "Bloqueada")'
    BY DEF Reconciled
  <1>4. \A st \in {"Aprobada", "Bloqueada"} :
          /\ Total(b, st) \in Nat
          /\ Total(b, st)' = Total(b, st) + IF b = a /\ st = state THEN amount ELSE 0
    <2>1. \A st \in {"Aprobada", "Bloqueada"} :
            TotalOf(new, b, st) = TotalOf(old, b, st) + IF b = a /\ st = state THEN amount ELSE 0
      BY <1>2, EnteredTotals DEF TransactionState
    <2>2. \A st \in {"Aprobada", "Bloqueada"} : TotalOf(old, b, st) \in Nat
      BY <1>2, TotalNat DEF TransactionState
    <2>3. \A st : Total(b, st) = TotalOf(old, b, st) /\ Total(b, st)' = TotalOf(new, b, st)
      BY <1>1
    <2> QED BY <2>1, <2>2, <2>3
  <1>5. /\ account[b].balance = Opening[b] - Total(b, "Aprobada")
        /\ account[b].reserved = Total(b, "Bloqueada")
        /\ Opening[b] \in Nat
    BY AccountAssumption DEF Reconciled
  <1>6. CASE b = a
    <2>1. /\ account'[b].balance = account[b].balance + BalanceDelta(state, amount)
          /\ account'[b].reserved = account[b].reserved + ReservedDelta(state, amount)
      BY <1>6 DEF Moved
    <2> QED BY <1>4, <1>5, <1>6, <2>1 DEF BalanceDelta, ReservedDelta, Resolved
  <1>7. CASE b # a
    <2>1. account'[b] = account[b]
      BY <1>7
    <2> QED BY <1>4, <1>5, <1>7, <2>1
  <1> QED BY <1>6, <1>7

\* A verdict settles a transaction with the money it moves.
LEMMA SettleReconciles ==
    ASSUME Reconciled, account \in [Accounts -> AccountRow], txn \in Table,
           NEW x \in TxIds, NEW a \in Accounts, NEW amount \in Nat, NEW decision \in Resolved,
           txn[x] # Absent, txn[x].state = "Bloqueada",
           txn[x].account = a, txn[x].amount = amount,
           account' = [account EXCEPT ![a] =
                         Moved(account[a], BalanceDelta(decision, amount),
                               ReservedDelta(decision, amount))],
           txn' = [txn EXCEPT ![x].state = Settled(decision, @)]
    PROVE  Reconciled'
  <1> DEFINE settled == IF decision = "Aprobado" THEN "Aprobada" ELSE "Rechazada"
  <1>1. PICK old, new :
          /\ old = txn /\ new = txn'
          /\ \A b, st : Total(b, st) = TotalOf(old, b, st) /\ Total(b, st)' = TotalOf(new, b, st)
    BY TotalOfTxn
  <1>2. /\ old \in Table /\ new \in Table
        /\ old[x] # Absent /\ old[x].state = "Bloqueada"
        /\ new[x].state = settled
        /\ old[x].account = a /\ old[x].amount = amount
        /\ new[x].account = a /\ new[x].amount = amount
        /\ \A y \in TxIds \ {x} : new[y] = old[y]
    <2>1. old \in Table /\ old[x] \in TransactionRow
      BY <1>1 DEF Table
    <2>2. new = [old EXCEPT ![x].state = settled]
      BY <1>1 DEF Settled, Resolved
    <2>3. settled \in TransactionState
      BY DEF TransactionState
    <2> HIDE DEF settled
    <2>4. /\ new[x] \in TransactionRow /\ new[x].state = settled
          /\ new[x].account = old[x].account /\ new[x].amount = old[x].amount
          /\ \A y \in TxIds \ {x} : new[y] = old[y]
      BY <2>1, <2>2, <2>3 DEF Table, TransactionRow
    <2>5. new \in Table
      BY <2>1, <2>2, <2>4 DEF Table
    <2> QED BY <1>1, <2>1, <2>4, <2>5
  <1>3. SUFFICES ASSUME NEW b \in Accounts
                 PROVE  /\ account'[b].balance = Opening[b] - Total(b, "Aprobada")'
                        /\ account'[b].reserved = Total(b, "Bloqueada")'
    BY DEF Reconciled
  <1>4. /\ Total(b, "Aprobada") \in Nat /\ Total(b, "Bloqueada") \in Nat
        /\ Total(b, "Aprobada")' =
             Total(b, "Aprobada") + IF b = a /\ settled = "Aprobada" THEN amount ELSE 0
        /\ Total(b, "Bloqueada")' = Total(b, "Bloqueada") + IF b = a THEN -amount ELSE 0
    <2>1. \A st \in TransactionState :
            TotalOf(new, b, st) = TotalOf(old, b, st) +
              IF b = old[x].account
              THEN CASE st = "Bloqueada" -> -old[x].amount
                     [] st = new[x].state -> old[x].amount
                     [] OTHER -> 0
              ELSE 0
      <3>1. new[x].state # "Bloqueada"
        BY <1>2
      <3> HIDE DEF settled
      <3> QED BY <1>2, <3>1, SettledTotals
    <2>2. \A st \in TransactionState : TotalOf(old, b, st) \in Nat
      BY <1>2, TotalNat
    <2>3. \A st : Total(b, st) = TotalOf(old, b, st) /\ Total(b, st)' = TotalOf(new, b, st)
      BY <1>1
    <2>4. "Aprobada" \in TransactionState /\ "Bloqueada" \in TransactionState
      BY DEF TransactionState
    <2>5. settled # "Bloqueada"
      OBVIOUS
    <2>6. /\ TotalOf(new, b, "Bloqueada")
               = TotalOf(old, b, "Bloqueada") + IF b = a THEN -amount ELSE 0
          /\ TotalOf(new, b, "Aprobada") = TotalOf(old, b, "Aprobada") +
               IF b = a /\ settled = "Aprobada" THEN amount ELSE 0
      <3> HIDE DEF settled
      <3> QED BY <1>2, <2>1, <2>4, <2>5
    <2> HIDE DEF settled
    <2> QED BY <2>2, <2>3, <2>4, <2>6
  <1>5. /\ account[b].balance = Opening[b] - Total(b, "Aprobada")
        /\ account[b].reserved = Total(b, "Bloqueada")
        /\ Opening[b] \in Nat
    BY AccountAssumption DEF Reconciled
  <1>6. CASE b = a
    <2>1. /\ account'[b].balance = account[b].balance + BalanceDelta(decision, amount)
          /\ account'[b].reserved = account[b].reserved + ReservedDelta(decision, amount)
      BY <1>6 DEF Moved
    <2> QED BY <1>4, <1>5, <1>6, <2>1 DEF BalanceDelta, ReservedDelta, Resolved
  <1>7. CASE b # a
    <2>1. account'[b] = account[b]
      BY <1>7
    <2> QED BY <1>4, <1>5, <1>7, <2>1
  <1> QED BY <1>6, <1>7

-----------------------------------------------------------------------------
(* The refinement *)

\* What the abstract specification sees of the accounts.
FundsOf == [a \in Accounts |-> [balance  |-> account[a].balance,
                                reserved |-> account[a].reserved]]

\* One account's row moved is the same account's funds moved.
LEMMA RowMoves ==
    ASSUME account \in [Accounts -> AccountRow], NEW a \in Accounts,
           NEW b \in Int, NEW c \in Int,
           account' = [account EXCEPT ![a] = Moved(account[a], b, c)]
    PROVE  Funds!Move(a, b, c)
  BY DEF Funds!Move, Moved, AccountRow

\* A covered transaction that enters the tables enters the book.
LEMMA RowEnters ==
    ASSUME account \in [Accounts -> AccountRow],
           NEW x \in TxIds, NEW a \in Accounts, NEW amount \in Nat,
           NEW state \in {"Aprobada", "Bloqueada"},
           txn[x] = Absent,
           amount <= account[a].balance - account[a].reserved,
           account' = [account EXCEPT ![a] =
                         Moved(account[a], BalanceDelta(state, amount), ReservedDelta(state, amount))],
           txn' = [txn EXCEPT ![x] = [account |-> a, amount |-> amount, state |-> state]]
    PROVE  Funds!Next
  <1>1. account[a].balance \in Nat /\ account[a].reserved \in Nat
    BY DEF AccountRow
  <1>2. amount \in 0 .. FundsOf[a].balance
    BY <1>1 DEF FundsOf
  <1>3. Funds!Enter(x, a, amount, state)
    BY DEF Funds!Enter
  <1>4. CASE state = "Aprobada"
    <2>1. Funds!Move(a, -amount, 0)
      <3>1. account' = [account EXCEPT ![a] = Moved(account[a], -amount, 0)]
        BY <1>4 DEF BalanceDelta, ReservedDelta, Resolved
      <3>2. 0 \in Int /\ amount \in Int /\ -amount \in Int
        OBVIOUS
      <3> QED BY <3>1, <3>2, RowMoves, Zenon
    <2>2. Funds!Debit(x, a, amount)
      BY <1>3, <1>4, <2>1 DEF Funds!Debit
    <2> QED BY <1>2, <2>2 DEF Funds!Next, FundsOf
  <1>5. CASE state = "Bloqueada"
    <2>1. Funds!Move(a, 0, amount)
      <3>1. account' = [account EXCEPT ![a] = Moved(account[a], 0, amount)]
        BY <1>5 DEF BalanceDelta, ReservedDelta, Resolved
      <3>2. 0 \in Int /\ amount \in Int /\ -amount \in Int
        OBVIOUS
      <3> QED BY <3>1, <3>2, RowMoves, Zenon
    <2>2. Funds!Hold(x, a, amount)
      BY <1>3, <1>5, <2>1 DEF Funds!Hold
    <2> QED BY <1>2, <2>2 DEF Funds!Next, FundsOf
  <1> QED BY <1>4, <1>5

\* A verdict on a held transaction captures or releases its hold.
LEMMA RowSettles ==
    ASSUME account \in [Accounts -> AccountRow],
           NEW x \in TxIds, NEW a \in Accounts, NEW amount \in Nat, NEW decision \in Resolved,
           txn[x] # Absent, txn[x].state = "Bloqueada",
           txn[x].account = a, txn[x].amount = amount,
           account' = [account EXCEPT ![a] =
                         Moved(account[a], BalanceDelta(decision, amount),
                               ReservedDelta(decision, amount))],
           txn' = [txn EXCEPT ![x].state = Settled(decision, @)]
    PROVE  Funds!Next
  <1>1. CASE decision = "Aprobado"
    <2>1. Funds!Move(a, -amount, -amount)
      <3>1. account' = [account EXCEPT ![a] = Moved(account[a], -amount, -amount)]
        BY <1>1 DEF BalanceDelta, ReservedDelta, Resolved
      <3>2. 0 \in Int /\ amount \in Int /\ -amount \in Int
        OBVIOUS
      <3> QED BY <3>1, <3>2, RowMoves, Zenon
    <2>2. Funds!Settle(x, "Aprobada")
      BY <1>1 DEF Funds!Settle, Settled
    <2>3. Funds!Capture(x)
      BY <2>1, <2>2 DEF Funds!Capture, Funds!Move
    <2> QED BY <2>3 DEF Funds!Next
  <1>2. CASE decision = "Bloqueado"
    <2>1. Funds!Move(a, 0, -amount)
      <3>1. account' = [account EXCEPT ![a] = Moved(account[a], 0, -amount)]
        BY <1>2 DEF BalanceDelta, ReservedDelta, Resolved
      <3>2. 0 \in Int /\ amount \in Int /\ -amount \in Int
        OBVIOUS
      <3> QED BY <3>1, <3>2, RowMoves, Zenon
    <2>2. Funds!Settle(x, "Rechazada")
      BY <1>2 DEF Funds!Settle, Settled
    <2>3. Funds!Release(x)
      BY <2>1, <2>2 DEF Funds!Release, Funds!Move
    <2> QED BY <2>3 DEF Funds!Next
  <1> QED BY <1>1, <1>2 DEF Resolved

\* Every step of the ledger is a step of the abstract specification, or none, and
\* leaves the balances and the tables reconciled.
LEMMA StepKeepsFunds ==
    ASSUME IInv, JInv, [Next]_vars
    PROVE  [Funds!Next]_<<FundsOf, txn>> /\ (Reconciled => Reconciled')
  <1>1. ASSUME NEW t \in Tellers, CommitSubmit(t)
        PROVE  Funds!Next /\ (Reconciled => Reconciled')
    BY <1>1, SubmissionWrites, RowEnters, EnterReconciles
  <1>2. ASSUME NEW u \in Auditors, CommitReview(u), ~UNCHANGED <<account, txn>>
        PROVE  Funds!Next /\ (Reconciled => Reconciled')
    <2> DEFINE r == req[u]
    <2>1. /\ account \in [Accounts -> AccountRow] /\ txn \in Table
          /\ r.decision \in Resolved
          /\ r.tx \in TxIds /\ r.account \in Accounts /\ r.amount \in Nat
          /\ txn[r.tx] # Absent /\ txn[r.tx].state = "Bloqueada"
          /\ txn[r.tx].account = r.account /\ txn[r.tx].amount = r.amount
          /\ account' = [account EXCEPT ![r.account] =
                           Moved(account[r.account], BalanceDelta(r.decision, r.amount),
                                                     ReservedDelta(r.decision, r.amount))]
          /\ txn' = [txn EXCEPT ![r.tx].state = Settled(r.decision, @)]
      BY <1>2, ReviewWrites
    <2>2. Funds!Next
      BY <2>1, RowSettles
    <2>3. Reconciled => Reconciled'
      BY <2>1, SettleReconciles
    <2> QED BY <2>2, <2>3
  <1>3. CASE UNCHANGED <<account, txn>>
    <2>1. \A a \in Accounts : /\ Total(a, "Aprobada")' = Total(a, "Aprobada")
                              /\ Total(a, "Bloqueada")' = Total(a, "Bloqueada")
      BY <1>3, TotalKept
    <2> QED BY <1>3, <2>1 DEF FundsOf, Reconciled
  <1> QED BY <1>1, <1>2, <1>3, OnlyCommitsWrite

\* With one auditor the ledger implements AccountFunds: every COMMIT debits, holds,
\* captures or releases one transaction, exactly once.
THEOREM FundsAreKept ==
    ASSUME OneAuditor PROVE Spec => KeepsFunds
  <1>1. Init => Funds!Init
    BY DEF Init, Funds!Init
  <1>2. IInv /\ JInv /\ [Next]_vars => [Funds!Next]_<<FundsOf, txn>>
    BY StepKeepsFunds
  <1> QED BY <1>1, <1>2, Invariance, CasesInvariance, PTL
         DEF Spec, KeepsFunds, Funds!Spec, FundsOf

\* At first no transaction is recorded and nothing is held.
LEMMA InitReconciled == Init => Reconciled
  <1> SUFFICES ASSUME Init, NEW a \in Accounts
               PROVE  /\ account[a].balance = Opening[a] - Total(a, "Aprobada")
                      /\ account[a].reserved = Total(a, "Bloqueada")
    BY DEF Reconciled
  <1>1. Total(a, "Aprobada") = 0 /\ Total(a, "Bloqueada") = 0
    <2>1. Entries(a, "Aprobada") = {} /\ Entries(a, "Bloqueada") = {}
      BY DEF Init, Entries, Absent
    <2> QED BY <2>1, SumEmpty, Zenon DEF Total, SumFunction
  <1> QED BY <1>1, AccountAssumption DEF Init

\* With one auditor every balance is the opening balance less the approved
\* transactions, and every reserved balance the sum of the held ones.
THEOREM BooksReconcile ==
    ASSUME OneAuditor PROVE Spec => []Reconciled
  <1>1. IInv /\ JInv /\ Reconciled /\ [Next]_vars => Reconciled'
    BY StepKeepsFunds
  <1> QED BY <1>1, InitReconciled, Invariance, CasesInvariance, PTL DEF Spec
=============================================================================
