---------------------------- MODULE MCDashboard ----------------------------
(* Instances of Dashboard for TLC. *)
EXTENDS Dashboard

\* The first transaction was not flagged: the number of the transaction of one
\* case is the number of the flagged row of the next.
LateTxId == [c \in Cases |-> c + 1]
OwnFlaggedId == [c \in Cases |-> c]

\* A decision on the first case, whose events can be taken for the second's.
OneEach == [c \in Cases |-> IF c = 1 THEN {"Aprobado"} ELSE {"Bloqueado"}]
Both == [c \in Cases |-> Decisions]

\* Decisions are taken at this dashboard never, or on the second case only.
NoClicks == [c \in Cases |-> 0]
SecondCaseOnly == [c \in Cases |-> c - 1]
=============================================================================
