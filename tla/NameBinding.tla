---------------------------- MODULE NameBinding ----------------------------
(***************************************************************************)
(* What the registry of users and accounts promises: a name is bound to a   *)
(* row once, by one request, and the binding is never changed or undone.    *)
(***************************************************************************)
CONSTANTS
    Keys,       \* the names, of users and of account holders
    Rows,       \* what a name can be bound to
    Absent,     \* no row
    Seeded      \* the bindings the database is created with

VARIABLE bound

Init == bound = Seeded

Bind(k, row) ==
    /\ bound[k] = Absent
    /\ bound' = [bound EXCEPT ![k] = row]

Next == \E k \in Keys, row \in Rows : Bind(k, row)

Spec == Init /\ [][Next]_bound
=============================================================================
