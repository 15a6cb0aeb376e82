------------------------------ MODULE MCLedger ------------------------------
(* Instances of the ledger for TLC. *)
EXTENDS LedgerFunds, TLC

CONSTANTS a1, a2, t1, t2, u1, u2

\* Every account opens with the same balance.
SmallOpening == [a \in Accounts |-> 2]

\* The sessions of one kind are interchangeable, and so are the accounts.
LedgerSymmetry == Permutations(Tellers) \cup Permutations(Auditors) \cup Permutations(Accounts)
=============================================================================
