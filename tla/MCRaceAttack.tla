--------------------------- MODULE MCRaceAttack ---------------------------
(* Instances of RaceAttack for TLC. *)
EXTENDS RaceAttack, TLC

CONSTANTS a1, t1, t2, u1

\* Every account opens with the same balance.
SmallOpening == [a \in Accounts |-> 2]

\* The tellers are interchangeable.
TellerSymmetry == Permutations(Tellers)
=============================================================================
