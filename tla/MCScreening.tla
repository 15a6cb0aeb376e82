---------------------------- MODULE MCScreening ----------------------------
(* Instances of Screening for TLC. *)
EXTENDS Screening, TLC

CONSTANTS w1, w2, a1, i1

\* The workers are interchangeable.
WorkerSymmetry == Permutations(Workers)
=============================================================================
