---------------------------- MODULE AccountFunds ----------------------------
(***************************************************************************)
(* What the ledger promises about money, with no session, lock, version or  *)
(* queue: a transaction enters the book once, either debited at once or     *)
(* held, and a hold is captured or released once.  Each of the four steps   *)
(* changes one account and one entry of the book together.                  *)
(***************************************************************************)
EXTENDS Integers

CONSTANTS Accounts, Opening, TxIds, Absent

VARIABLES
    funds,   \* funds[a] = [balance, reserved]
    book     \* book[x] = [account, amount, state], or Absent

Init ==
    /\ funds = [a \in Accounts |-> [balance |-> Opening[a], reserved |-> 0]]
    /\ book = [x \in TxIds |-> Absent]

Move(a, balance_delta, reserved_delta) ==
    funds' = [funds EXCEPT ![a].balance = @ + balance_delta,
                           ![a].reserved = @ + reserved_delta]

Enter(x, a, amount, state) ==
    /\ book[x] = Absent
    /\ amount <= funds[a].balance - funds[a].reserved
    /\ book' = [book EXCEPT ![x] = [account |-> a, amount |-> amount, state |-> state]]

Settle(x, state) ==
    /\ book[x] # Absent
    /\ book[x].state = "Bloqueada"
    /\ book' = [book EXCEPT ![x].state = state]

Debit(x, a, amount) == Enter(x, a, amount, "Aprobada") /\ Move(a, -amount, 0)

Hold(x, a, amount) == Enter(x, a, amount, "Bloqueada") /\ Move(a, 0, amount)

Capture(x) ==
    /\ Settle(x, "Aprobada")
    /\ Move(book[x].account, -book[x].amount, -book[x].amount)

Release(x) ==
    /\ Settle(x, "Rechazada")
    /\ Move(book[x].account, 0, -book[x].amount)

Next ==
    \E x \in TxIds :
        \/ \E a \in Accounts : \E amount \in 0 .. funds[a].balance :
             Debit(x, a, amount) \/ Hold(x, a, amount)
        \/ Capture(x)
        \/ Release(x)

Spec == Init /\ [][Next]_<<funds, book>>
=============================================================================
