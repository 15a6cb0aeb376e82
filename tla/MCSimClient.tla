--------------------------- MODULE MCSimClient ---------------------------
(* Instances of SimClient for TLC. *)
EXTENDS SimClient

CONSTANTS s1, s2

\* A burst on one account, and two transactions from one address.
FraudOrStress == {[s \in Senders |-> IF s = s1 THEN Burst ELSE 0], [s \in Senders |-> 1]}
=============================================================================
