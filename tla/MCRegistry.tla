---------------------------- MODULE MCRegistry ----------------------------
(* Instances of Registry for TLC. *)
EXTENDS Registry

CONSTANTS admin, guest, p1, p2, w1, w2

\* init.sql seeds the administrator, and nobody else of these.
AdminSeeded ==
    [n \in Names |-> IF n = admin
                       THEN [table |-> "auth_user", password |-> p1, role |-> "admin"]
                       ELSE Absent]
=============================================================================
