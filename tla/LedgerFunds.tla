---------------------------- MODULE LedgerFunds ----------------------------
(***************************************************************************)
(* The ledger as an implementation of AccountFunds.  The funds of an        *)
(* account are its committed row without the version, and the book is the   *)
(* committed table of transactions: the sessions, the locks, the queue of   *)
(* flagged rows and the events are what the abstract specification hides.   *)
(***************************************************************************)
EXTENDS Ledger

Funds == INSTANCE AccountFunds WITH
    funds <- [a \in Accounts |-> [balance  |-> account[a].balance,
                                  reserved |-> account[a].reserved]],
    book <- txn

\* Every COMMIT of a request debits, holds, captures or releases one
\* transaction, exactly once (transactions.py:77-135, audit.py:51-105).
KeepsFunds == Funds!Spec
=============================================================================
