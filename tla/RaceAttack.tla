----------------------------- MODULE RaceAttack -----------------------------
(***************************************************************************)
(* The simulator's race-condition attack against the ledger: on each chosen *)
(* account, one after the other, two identical submissions at once for the  *)
(* balance the simulator read, and a verdict drawn from the two answers.    *)
(*                                                                         *)
(* The backend is module Ledger, with its other requests and its auditors.  *)
(* A shot is one of the two submissions; the teller that serves it goes on  *)
(* when the simulator no longer waits.                                      *)
(***************************************************************************)
EXTENDS Ledger

VARIABLES
    amount,     \* balance of each account under attack when it was read
    targets,    \* accounts still to be attacked
    target,     \* the account under attack, or None
    teller,     \* teller[i]: the session serving shot i, or None
    shot,       \* the transaction shot i has recorded, NoneYet or Refusal
    status,     \* what the simulator knows of shot i
    verdict     \* resultado_sistema of the last attack, or how far it is

attack  == <<amount, targets, target, teller, shot, status, verdict>>
allvars == <<vars, attack>>

Shots == {1, 2}

NoneYet == 0
Refusal == -1

Verdict == {"PROTEGIDO", "VULNERABLE", "RECHAZADO_TOTAL"}

AttackTypeOK ==
    /\ amount \in [Accounts -> Nat]
    /\ targets \subseteq Accounts
    /\ target \in Accounts \cup {None}
    /\ teller \in [Shots -> Tellers \cup {None}]
    /\ shot \in [Shots -> {NoneYet, Refusal} \cup TxIds]
    /\ status \in [Shots -> {"token", "post", "sent", "ok", "error", "lost"}]
    /\ verdict \in Verdict \cup {"none", "running", "raised"}
    /\ \A i \in Shots : teller[i] # None => pc[teller[i]] # "idle"

AttackInit ==
    /\ Init
    /\ amount = [a \in Accounts |-> 0]
    /\ targets = {}
    /\ target = None
    /\ teller = [i \in Shots |-> None]
    /\ shot = [i \in Shots |-> NoneYet]
    /\ status = [i \in Shots |-> "token"]
    /\ verdict = "none"

-----------------------------------------------------------------------------
(* The backend *)

Serving(i) == teller[i] # None

\* Mutant: a request that is rolled back is not answered.
EndsRecorded(i) == Serving(i) /\ pc'[teller[i]] = "idle" /\ txn' # txn

\* The teller of shot i ends its request in this step.
Ends(i) == Serving(i) /\ pc'[teller[i]] = "idle"

\* What becomes of the shots in a step of the ledger: only a COMMIT writes txn.
Followed ==
    /\ shot' = [i \in Shots |-> IF ~Ends(i) THEN shot[i]
                                ELSE IF txn' = txn THEN Refusal ELSE req[teller[i]].tx]
    /\ teller' = [i \in Shots |-> IF Ends(i) THEN None ELSE teller[i]]
    /\ UNCHANGED <<amount, targets, target, status, verdict>>

Backend == Next /\ Followed

-----------------------------------------------------------------------------
(* The simulator *)

\* GET /accounts/active?min_balance=0.01 lists by available balance...
Apt == {a \in Active : Available(account[a]) >= 1}

\* ... and the simulator takes "balance" of what it lists.
ReadBalance(row) == row.balance

\* The endpoint picks the accounts, all with the balances of this moment.
Launch(chosen) ==
    /\ verdict = "none"
    /\ chosen # {} /\ chosen \subseteq Apt
    /\ amount' = [a \in Accounts |-> IF a \in chosen THEN ReadBalance(account[a]) ELSE 0]
    /\ targets' = chosen
    /\ verdict' = "running"
    /\ UNCHANGED <<vars, target, teller, shot, status>>

\* The next account: both coroutines start.
Aim(a) ==
    /\ verdict \in Verdict \cup {"running"}
    /\ target = None
    /\ a \in targets
    /\ target' = a
    /\ targets' = targets \ {a}
    /\ teller' = [i \in Shots |-> None]
    /\ shot' = [i \in Shots |-> NoneYet]
    /\ status' = [i \in Shots |-> "token"]
    /\ verdict' = "running"
    /\ UNCHANGED <<vars, amount>>

Aiming == target # None /\ verdict = "running"

GetToken(i) ==
    /\ Aiming
    /\ status[i] = "token"
    /\ status' = [status EXCEPT ![i] = "post"]
    /\ UNCHANGED <<vars, amount, targets, target, teller, shot, verdict>>

\* The login fails, outside the try: gather and the endpoint raise with it.
TokenFails(i) ==
    /\ Aiming
    /\ status[i] = "token"
    /\ verdict' = "raised"
    /\ UNCHANGED <<vars, amount, targets, target, teller, shot, status>>

\* The request reaches an idle teller, which accepts it.
Post(i, t) ==
    /\ target # None
    /\ status[i] = "post"
    /\ Submit(t, target, 10 * amount[target])
    /\ teller' = [teller EXCEPT ![i] = t]
    /\ status' = [status EXCEPT ![i] = "sent"]
    /\ UNCHANGED <<amount, targets, target, shot, verdict>>

\* The teller finds less available than asked for, or no active account.
Refused(i) ==
    /\ target # None
    /\ status[i] = "post"
    /\ Available(account[target]) < amount[target]
    /\ status' = [status EXCEPT ![i] = "error"]
    /\ shot' = [shot EXCEPT ![i] = Refusal]
    /\ UNCHANGED <<vars, amount, targets, target, teller, verdict>>

\* Mutant: an answer other than 201 is taken for a success.
SuccessIfAnswered(i) == "ok"

Success(i) == IF shot[i] \in TxIds THEN "ok" ELSE "error"

Answer(i) ==
    /\ status[i] = "sent"
    /\ ~Serving(i)
    /\ status' = [status EXCEPT ![i] = Success(i)]
    /\ UNCHANGED <<vars, amount, targets, target, teller, shot, verdict>>

\* A timeout or a broken connection counts as status 500, with no retry; the
\* request may have reached the backend, or not.
NoAnswer(i) ==
    /\ status[i] \in {"post", "sent"}
    /\ status' = [status EXCEPT ![i] = "lost"]
    /\ UNCHANGED <<vars, amount, targets, target, teller, shot, verdict>>

Answered == \A i \in Shots : status[i] \in {"ok", "error", "lost"}

\* gather has both answers.
Conclude ==
    LET passed == {i \in Shots : status[i] = "ok"} IN
    /\ Aiming
    /\ Answered
    /\ verdict' = CASE passed = Shots -> "VULNERABLE"
                    [] passed = {} -> "RECHAZADO_TOTAL"
                    [] OTHER -> "PROTEGIDO"
    /\ target' = None
    /\ UNCHANGED <<vars, amount, targets, teller, shot, status>>

-----------------------------------------------------------------------------

Shoot(i) ==
    \/ GetToken(i)
    \/ TokenFails(i)
    \/ \E t \in Tellers : Post(i, t)
    \/ Refused(i)
    \/ Answer(i)
    \/ NoAnswer(i)

Simulator ==
    \/ \E chosen \in SUBSET Accounts : Launch(chosen)
    \/ \E a \in Accounts : Aim(a)
    \/ \E i \in Shots : Shoot(i)
    \/ Conclude

AttackNext == Backend \/ Simulator

AttackSpec == AttackInit /\ [][AttackNext]_allvars

-----------------------------------------------------------------------------
(* Properties *)

\* The balance is spent once: both submissions are recorded only if one of them
\* was held and an auditor rejected it, which gave the money back
\* (transactions.py:73-95).
SpentOnce ==
    Shots = {i \in Shots : shot[i] \in TxIds} =>
        \E i \in Shots : txn[shot[i]].state = "Rechazada"

Lost == \E i \in Shots : status[i] = "lost"

\* What the verdict says of the backend: a success is a recorded transaction and,
\* if every answer arrived, anything else is none (scenarios.py:167-174).
VerdictIsTrue ==
    LET recorded == {i \in Shots : shot[i] \in TxIds} IN
    /\ verdict = "VULNERABLE" => recorded = Shots
    /\ verdict = "PROTEGIDO" => recorded # {} /\ (~Lost => recorded # Shots)
    /\ verdict = "RECHAZADO_TOTAL" /\ ~Lost => recorded = {}
=============================================================================
