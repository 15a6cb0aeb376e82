----------------------------- MODULE Screening -----------------------------
(***************************************************************************)
(* submit_transaction around record_and_check: the account row a submission *)
(* read before it was screened, and the versioned UPDATE that only succeeds *)
(* if that row is still the committed one.  What record_and_check lets      *)
(* through is on record only after that.                                    *)
(*                                                                         *)
(* Every write to a row adds one to its version, so a version is modelled   *)
(* by who read the row since it was last written.  Ledger has the rows, and *)
(* the same UPDATE with its locks.                                          *)
(***************************************************************************)
EXTENDS FraudWindow

CONSTANTS NoAccount

ASSUME NoAccountAssumption == NoAccount \notin Accounts

VARIABLES
    row,        \* the account whose row the session of each worker has read
    fresh,      \* the sessions whose row is still the committed one
    answer,     \* what record_and_check answered to each, until its COMMIT
    recorded    \* recorded[a][x][t]: transactions of the rule's amount on record,
                \* by what they were flagged for and by stamp

session == <<row, fresh, answer>>
allvars == <<vars, session, recorded>>

\* The transaction is approved, or blocked for one of the two anomalies.
Anomalies == {"none", "burst", "pattern"}

Answers == [anomaly : Anomalies, rule_amount : BOOLEAN, stamp : Times]
NoAnswer == [anomaly |-> "unknown"]

ScreeningTypeOK ==
    /\ TypeOK
    /\ row \in [Workers -> Accounts \cup {NoAccount}]
    /\ fresh \subseteq Workers
    /\ answer \in [Workers -> Answers \cup {NoAnswer}]
    /\ recorded \in [Accounts -> [Anomalies -> Log]]

ScreeningInit ==
    /\ Init
    /\ row = [w \in Workers |-> NoAccount]
    /\ fresh = {}
    /\ answer = [w \in Workers |-> NoAnswer]
    /\ recorded = [a \in Accounts |-> [x \in Anomalies |-> Empty]]

-----------------------------------------------------------------------------

\* The sessions that have read the row of a.
Readers(a) == {w \in Workers : row[w] = a}

\* The account is read, without a lock.
ReadAccount(w, a) ==
    /\ row[w] = NoAccount
    /\ row' = [row EXCEPT ![w] = a]
    /\ fresh' = fresh \cup {w}
    /\ UNCHANGED <<vars, answer, recorded>>

\* It has the funds: record_and_check is called.
Screen(w, i, rule_amount) ==
    /\ row[w] # NoAccount /\ answer[w] = NoAnswer
    /\ Start(w, row[w], i, rule_amount)
    /\ UNCHANGED <<session, recorded>>

\* What record_and_check returns, and the stamp it took.
Reply(w, anomaly) ==
    answer' = [answer EXCEPT ![w] = [anomaly |-> anomaly, stamp |-> job[w].stamp,
                                     rule_amount |-> job[w].rule_amount]]

\* A pipeline of record_and_check, and its answer.
Check(w) ==
    /\ \/ IpNext(w) /\ UNCHANGED answer
       \/ (IpClear(w) \/ AccountClear(w)) /\ Reply(w, "none")
       \/ IpBurst(w) /\ Reply(w, "burst")
       \/ AccountPattern(w) /\ Reply(w, "pattern")
    /\ UNCHANGED <<row, fresh, recorded>>

\* Mutant: what was answered is left for the next request of the session.
KeepAnswer(w) == row' = [row EXCEPT ![w] = NoAccount] /\ UNCHANGED answer

\* The request of w is over, and its session closed.
Leave(w) ==
    /\ row' = [row EXCEPT ![w] = NoAccount]
    /\ answer' = [answer EXCEPT ![w] = NoAnswer]

\* record_and_check raises.
Break(w) ==
    /\ Fail(w)
    /\ Leave(w)
    /\ fresh' = fresh \ {w}
    /\ UNCHANGED recorded

\* Mutant: the UPDATE has no version in its WHERE.
AnyVersion(w) == row[w] # NoAccount

\* Account.version == expected_version.
SameVersion(w) == w \in fresh

\* The versioned UPDATE, the INSERTs and the COMMIT: whoever else has read the row
\* will not find that version any more.
Commit(w) ==
    LET a == row[w]  x == answer[w].anomaly IN
    /\ answer[w] # NoAnswer
    /\ SameVersion(w)
    /\ recorded' = IF answer[w].rule_amount
                     THEN [recorded EXCEPT ![a][x] = Add(@, answer[w].stamp)] ELSE recorded
    /\ fresh' = fresh \ Readers(a)
    /\ Leave(w)
    /\ UNCHANGED vars

\* A conflict, too little money, or an await that raises: nothing is recorded.
GiveUp(w) ==
    /\ row[w] # NoAccount /\ pc[w] = "idle"
    /\ Leave(w)
    /\ fresh' = fresh \ {w}
    /\ UNCHANGED <<vars, recorded>>

\* A resolution writes the row.
Resolve(a) ==
    /\ fresh \cap Readers(a) # {}
    /\ fresh' = fresh \ Readers(a)
    /\ UNCHANGED <<vars, row, answer, recorded>>

Wait == Tick /\ UNCHANGED <<session, recorded>>

Request(w) ==
    \/ \E a \in Accounts : ReadAccount(w, a)
    \/ \E i \in Ips, rule_amount \in BOOLEAN : Screen(w, i, rule_amount)
    \/ Check(w)
    \/ Break(w)
    \/ Commit(w)
    \/ GiveUp(w)

ScreeningNext ==
    \/ \E w \in Workers : Request(w)
    \/ \E a \in Accounts : Resolve(a)
    \/ Wait

ScreeningSpec == ScreeningInit /\ [][ScreeningNext]_allvars

-----------------------------------------------------------------------------
(* Properties *)

\* The approved transactions of 9000 of account a stamped in the window that ends
\* at t.
Approved(a, t) == Within(recorded[a]["none"], t - AccountWindow + 1, t)

\* However many submissions race, no window of an account has more than one
\* approved transaction of 9000 over the limit: of those that miss each other in
\* Redis (antifraud.py:52-71) the version lets only one be recorded
\* (transactions.py:60, 118-125), and the next one counts it.
OneMoreAtMost == \A a \in Accounts, t \in Times : Approved(a, t) <= AccountMax + 1

\* With max_allowed approved transactions of 9000 in the window the next one is
\* never approved (antifraud.py:23-27, 70).  It holds while submissions are screened
\* one at a time (FraudProofs), and not of two that overlap.
NextIsFlagged == \A a \in Accounts, t \in Times : Approved(a, t) <= AccountMax
=============================================================================
