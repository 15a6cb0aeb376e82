----------------------------- MODULE Dashboard -----------------------------
(***************************************************************************)
(* The administrator's table of flagged transactions: the rows one open     *)
(* dashboard shows, between the queue at the backend, the listing it        *)
(* fetches, the events of its WebSocket and its own decisions.              *)
(*                                                                         *)
(* React runs an effect after a render, and keeps one last event between    *)
(* renders.  React Query gives a listing equal to the last one the identity *)
(* of the last one, so that the effect on it does not run.  The table keeps *)
(* a copy of the rows, which each render of App replaces by its own: the    *)
(* rows here are App's.                                                     *)
(***************************************************************************)
EXTENDS Integers, Sequences

CONSTANTS
    Cases,          \* flagged transactions
    TxId,           \* TxId[c]: the id of the transaction of case c
    FlaggedId,      \* FlaggedId[c]: the id of its flagged row
    Auditors,       \* the other auditors
    Offered,        \* bound: Offered[c], the decisions anyone takes on case c
    MaxWire,        \* bound: events on their way
    MaxClicks       \* bound: MaxClicks[c], how often each decision on case c is taken here

Decisions == {"Aprobado", "Bloqueado"}
Review == "Bajo Revision"

ASSUME DashboardAssumption ==
    /\ Offered \in [Cases -> SUBSET Decisions]
    /\ TxId \in [Cases -> Nat] /\ FlaggedId \in [Cases -> Nat]
    /\ \A c, d \in Cases : c # d => TxId[c] # TxId[d] /\ FlaggedId[c] # FlaggedId[d]
    /\ MaxWire \in Nat /\ MaxClicks \in [Cases -> Nat]

\* A case before it is inserted, inserted and announced but not committed, in
\* the queue, decided, or rolled back.
CaseState == {"none", "announced", "open", "decided", "gone"}

UiStatus == {"Under Review", "Aprobada", "Rechazada", "Bloqueada"}

NoEvent == [type |-> "none"]

Event == [type : {"flagged"}, case : Cases]
         \cup [type : {"status"}, case : Cases, status : UiStatus]

\* A request of another auditor: the case passed the check, or the state is
\* committed and not broadcast.
NoRequest == [stage |-> "idle"]

Request == [case : Cases, state : Decisions \cup {Review}, stage : {"checked", "written"}]

Answers == {"none", "checked", "written", "ok", "error"}

VARIABLES
    faulty,     \* whether requests and the socket may fail, this time
    case,       \* the state of each case at the backend
    taken,      \* history: the decisions committed on each case
    other,      \* the request each other auditor has in flight
    wire,       \* events broadcast and not received
    lastEvent,  \* the last event received, until the effect on it has run
    fetch,      \* the listing in flight: idle, asked for, or answered
    snapshot,   \* what it was answered with
    loaded,     \* whether a listing has arrived: pendingFlagged is not undefined
    data,       \* pendingFlagged
    rows,       \* the status shown for each case, "absent" if it has no row
    decision,   \* the decision in flight for each case
    answer,     \* how far it is, and its answer
    clicks      \* how often each decision was taken here, for each case

record  == <<case, taken>>
query   == <<fetch, snapshot, loaded, data>>
acting  == <<decision, answer, clicks>>
vars    == <<faulty, record, other, wire, lastEvent, query, rows, acting>>

TypeOK ==
    /\ faulty \in BOOLEAN
    /\ case \in [Cases -> CaseState]
    /\ taken \in [Cases -> SUBSET Decisions]
    /\ other \in [Auditors -> Request \cup {NoRequest}]
    /\ wire \in Seq(Event) /\ Len(wire) <= MaxWire
    /\ lastEvent \in Event \cup {NoEvent}
    /\ fetch \in {"idle", "asked", "answered"}
    /\ snapshot \subseteq Cases
    /\ loaded \in BOOLEAN
    /\ data \subseteq Cases
    /\ rows \in [Cases -> UiStatus \cup {"absent"}]
    /\ decision \in [Cases -> Decisions \cup {"none"}]
    /\ answer \in [Cases -> Answers]
    /\ clicks \in [Cases -> [Decisions -> Nat]]
    /\ \A c \in Cases, d \in Decisions : clicks[c][d] <= MaxClicks[c]

\* An administrator has logged in: the first listing is asked for.
Init ==
    /\ faulty \in BOOLEAN
    /\ case = [c \in Cases |-> "none"]
    /\ taken = [c \in Cases |-> {}]
    /\ other = [x \in Auditors |-> NoRequest]
    /\ wire = <<>>
    /\ lastEvent = NoEvent
    /\ fetch = "asked"
    /\ snapshot = {}
    /\ loaded = FALSE
    /\ data = {}
    /\ rows = [c \in Cases |-> "absent"]
    /\ decision = [c \in Cases |-> "none"]
    /\ answer = [c \in Cases |-> "none"]
    /\ clicks = [c \in Cases |-> [d \in Decisions |-> 0]]

-----------------------------------------------------------------------------
(* The backend, as the dashboard sees it *)

Send(event) == Len(wire) < MaxWire /\ wire' = Append(wire, event)

\* notify_flagged, inside the database transaction; then its end.
Announce(c) ==
    /\ case[c] = "none"
    /\ case' = [case EXCEPT ![c] = "announced"]
    /\ Send([type |-> "flagged", case |-> c])
    /\ UNCHANGED <<faulty, taken, other, lastEvent, query, rows, acting>>

Conclude(c) ==
    /\ case[c] = "announced"
    /\ \E end \in {"open", "gone"} : case' = [case EXCEPT ![c] = end]
    /\ UNCHANGED <<faulty, taken, other, wire, lastEvent, query, rows, acting>>

\* The status resolve_flagged broadcasts, which normalizeStatus keeps.
EventStatus(state) ==
    CASE state = "Aprobado" -> "Aprobada" [] state = "Bloqueado" -> "Rechazada"
      [] OTHER -> "Under Review"

\* resolve_flagged reads a case without a lock, and refuses one that is decided
\* or not found.
Unresolved(c) == case[c] = "open"

\* Accounts are left out here (module Ledger): the funds a decision needs may be
\* gone only when a decision has settled a hold of the account before.
HoldMayBeGone == \E c \in Cases : taken[c] # {}

\* It writes the state, whatever the case has become since, and commits.
Write(c, state) ==
    /\ case' = [case EXCEPT ![c] = IF state \in Decisions THEN "decided" ELSE "open"]
    /\ taken' = [taken EXCEPT ![c] = @ \cup ({state} \cap Decisions)]

\* Then it broadcasts the status.
Tell(c, state) == Send([type |-> "status", case |-> c, status |-> EventStatus(state)])

-----------------------------------------------------------------------------
(* The other auditors: a decision, or "Bajo Revision" *)

OtherChecks(x, c, state) ==
    /\ other[x] = NoRequest
    /\ Unresolved(c)
    /\ other' = [other EXCEPT ![x] = [case |-> c, state |-> state, stage |-> "checked"]]
    /\ UNCHANGED <<faulty, record, wire, lastEvent, query, rows, acting>>

OtherWrites(x) ==
    /\ other[x].stage = "checked"
    /\ Write(other[x].case, other[x].state)
    /\ other' = [other EXCEPT ![x].stage = "written"]
    /\ UNCHANGED <<faulty, wire, lastEvent, query, rows, acting>>

OtherTells(x) ==
    /\ other[x].stage = "written"
    /\ Tell(other[x].case, other[x].state)
    /\ other' = [other EXCEPT ![x] = NoRequest]
    /\ UNCHANGED <<faulty, record, lastEvent, query, rows, acting>>

\* Refused for its funds; or cut off, before its COMMIT or after it.
OtherFails(x) ==
    /\ other[x] # NoRequest
    /\ \/ other[x].stage = "checked" /\ other[x].state \in Decisions /\ HoldMayBeGone
       \/ faulty
    /\ other' = [other EXCEPT ![x] = NoRequest]
    /\ UNCHANGED <<faulty, record, wire, lastEvent, query, rows, acting>>

-----------------------------------------------------------------------------
(* The listing *)

Listed == {c \in Cases : case[c] = "open"}

Ask == fetch' = "asked" /\ snapshot' = {}

\* Mutant: a listing in flight is waited for, never asked for again.
RefetchJoins ==
    IF fetch = "idle" THEN Ask ELSE UNCHANGED <<fetch, snapshot>>

\* refetch() cancels a listing in flight, except the first.
Refetch ==
    IF loaded \/ fetch = "idle" THEN Ask ELSE UNCHANGED <<fetch, snapshot>>

\* The backend answers with the queue of this moment.
Serve ==
    /\ fetch = "asked"
    /\ fetch' = "answered"
    /\ snapshot' = Listed
    /\ UNCHANGED <<faulty, record, other, wire, lastEvent, loaded, data, rows, acting>>

\* The listing and the transactions it names have arrived.  The effect replaces
\* the rows if anything changed since the last: a case, or a detail that could
\* not be read this time or the last.
Arrive ==
    /\ fetch = "answered"
    /\ fetch' = "idle"
    /\ snapshot' = {}
    /\ loaded' = TRUE
    /\ data' = snapshot
    /\ \E changed \in BOOLEAN :
         /\ (~loaded \/ snapshot # data) => changed
         /\ (~loaded \/ faulty \/ snapshot # data) \/ ~changed
         /\ rows' = IF changed
                      THEN [c \in Cases |-> IF c \in snapshot THEN "Under Review" ELSE "absent"]
                      ELSE rows
    /\ UNCHANGED <<faulty, record, other, wire, lastEvent, acting>>

\* The listing fails, and so does the one retry: the last one stays.
FetchFails ==
    /\ faulty
    /\ fetch # "idle"
    /\ fetch' = "idle"
    /\ snapshot' = {}
    /\ UNCHANGED <<faulty, record, other, wire, lastEvent, loaded, data, rows, acting>>

-----------------------------------------------------------------------------
(* The events *)

\* onmessage: an event whose effect has not run yet is lost.
Receive ==
    /\ wire # <<>>
    /\ lastEvent' = Head(wire)
    /\ wire' = Tail(wire)
    /\ UNCHANGED <<faulty, record, other, query, rows, acting>>

\* The socket closes for good: no event arrives any more.
Close ==
    /\ faulty
    /\ wire # <<>>
    /\ wire' = <<>>
    /\ UNCHANGED <<faulty, record, other, lastEvent, query, rows, acting>>

\* row.transactionId === txId || row.flaggedId === txId
Named(row, c) == TxId[row] = TxId[c] \/ FlaggedId[row] = TxId[c]

Relabel(which, status) ==
    rows' = [c \in Cases |-> IF c \in which /\ rows[c] # "absent" THEN status ELSE rows[c]]

\* transaction_status_updated.
ApplyStatus ==
    /\ lastEvent.type = "status"
    /\ Relabel({row \in Cases : Named(row, lastEvent.case)}, lastEvent.status)
    /\ lastEvent' = NoEvent
    /\ UNCHANGED <<faulty, record, other, wire, query, acting>>

\* Mutant: the new row replaces whatever either of its ids names.
ReplacedEither(row, c) == Named(row, c)

\* The rows an alert replaces by its own.
Replaced(row, c) == TxId[row] = TxId[c] \/ FlaggedId[row] = FlaggedId[c]

\* Any other event is a row of its own, and an alert refetches.
ApplyAlert ==
    LET new == lastEvent.case IN
    /\ lastEvent.type = "flagged"
    /\ rows' = [c \in Cases |-> IF c = new THEN "Under Review"
                                ELSE IF Replaced(c, new) THEN "absent" ELSE rows[c]]
    /\ lastEvent' = NoEvent
    /\ Refetch
    /\ UNCHANGED <<faulty, record, other, wire, loaded, data, acting>>

-----------------------------------------------------------------------------
(* A decision on a row *)

\* Mutant: the id of the flagged row is taken for the transaction's.
ChosenByOtherId(row, c) == TxId[row] = FlaggedId[c]

\* row.flaggedId === Number(tx.id) || row.transactionId === tx.transactionId
Chosen(row, c) == FlaggedId[row] = FlaggedId[c] \/ TxId[row] = TxId[c]

\* Mutant: the decision is shown as the request words it.
OptimisticRaw(d) == d

Optimistic(d) == IF d = "Aprobado" THEN "Aprobada" ELSE "Bloqueada"

\* The button, once confirmed: the optimistic status, and the request.
Click(c, d) ==
    /\ rows[c] # "absent"
    /\ decision[c] = "none"
    /\ clicks[c][d] < MaxClicks[c]
    /\ Relabel({row \in Cases : Chosen(row, c)}, Optimistic(d))
    /\ decision' = [decision EXCEPT ![c] = d]
    /\ clicks' = [clicks EXCEPT ![c][d] = @ + 1]
    /\ UNCHANGED <<faulty, record, other, wire, lastEvent, query, answer>>

Waiting(c, stage) == decision[c] # "none" /\ answer[c] = stage

Answered(c, result) == answer' = [answer EXCEPT ![c] = result]

\* The same steps of resolve_flagged, for the decision made here.
OwnChecks(c) ==
    /\ Waiting(c, "none")
    /\ Unresolved(c)
    /\ Answered(c, "checked")
    /\ UNCHANGED <<faulty, record, other, wire, lastEvent, query, rows, decision, clicks>>

OwnWrites(c) ==
    /\ Waiting(c, "checked")
    /\ Write(c, decision[c])
    /\ Answered(c, "written")
    /\ UNCHANGED <<faulty, other, wire, lastEvent, query, rows, decision, clicks>>

\* The answer follows the broadcast, and may be lost.
OwnTells(c) ==
    /\ Waiting(c, "written")
    /\ Tell(c, decision[c])
    /\ \E result \in {"ok", "error"} : (result = "error" => faulty) /\ Answered(c, result)
    /\ UNCHANGED <<faulty, record, other, lastEvent, query, rows, decision, clicks>>

\* A case found decided or not found, funds that are gone, or a request cut off.
OwnFails(c) ==
    /\ \/ Waiting(c, "none") /\ ~Unresolved(c)
       \/ Waiting(c, "checked") /\ HoldMayBeGone
       \/ faulty /\ \E stage \in {"none", "checked", "written"} : Waiting(c, stage)
    /\ Answered(c, "error")
    /\ UNCHANGED <<faulty, record, other, wire, lastEvent, query, rows, decision, clicks>>

\* Success and failure alike are reported as applied, and refetch.  What the
\* table restores after a failure is replaced in the same render.
Finish(c) ==
    /\ \E result \in {"ok", "error"} : Waiting(c, result)
    /\ decision' = [decision EXCEPT ![c] = "none"]
    /\ answer' = [answer EXCEPT ![c] = "none"]
    /\ Refetch
    /\ UNCHANGED <<faulty, record, other, wire, lastEvent, loaded, data, rows, clicks>>

-----------------------------------------------------------------------------

Effect == ApplyStatus \/ ApplyAlert

Own(c) == OwnChecks(c) \/ OwnWrites(c) \/ OwnTells(c) \/ OwnFails(c)

OtherEnds(x) == OtherWrites(x) \/ OtherTells(x) \/ OtherFails(x)

Other(x) ==
    \/ \E c \in Cases : \E state \in Offered[c] \cup {Review} : OtherChecks(x, c, state)
    \/ OtherEnds(x)

Next ==
    \/ \E c \in Cases :
         \/ Announce(c)
         \/ Conclude(c)
         \/ \E d \in Offered[c] : Click(c, d)
         \/ Own(c)
         \/ Finish(c)
    \/ \E x \in Auditors : Other(x)
    \/ Serve \/ Arrive \/ FetchFails
    \/ Receive \/ Close \/ Effect

Spec == Init /\ [][Next]_vars

\* The browser runs its callbacks and effects, and the backend answers and ends
\* what it has begun.
FairSpec ==
    /\ Spec
    /\ WF_vars(Serve) /\ WF_vars(Arrive)
    /\ WF_vars(Receive) /\ WF_vars(Effect)
    /\ \A c \in Cases : WF_vars(Own(c)) /\ WF_vars(Finish(c))
    /\ \A x \in Auditors : WF_vars(OtherEnds(x))

-----------------------------------------------------------------------------
(* Properties *)

\* A case the backend has listed keeps its row, whatever events arrive, until a
\* listing without it (App.tsx:447-454).
ListedIsShown == \A c \in data : rows[c] # "absent"

\* Someone's decision on c was committed, and broadcast with this status.
Committed(c, status) == \E d \in taken[c] : EventStatus(d) = status

\* A row shows a verdict only if that decision was committed on its case, by
\* whoever, or was taken here; or if the number of another case's transaction is
\* the one of its flagged row, and that case was so decided: App.tsx:423 does not
\* tell the two apart.  A racing auditor may have replaced the decision since.
VerdictHasSource ==
    \A c \in Cases : rows[c] \in {"Aprobada", "Rechazada", "Bloqueada"} =>
        \/ Committed(c, rows[c])
        \/ \E d \in Decisions : clicks[c][d] > 0 /\ rows[c] = Optimistic(d)
        \/ \E e \in Cases : FlaggedId[c] = TxId[e] /\ Committed(e, rows[c])

\* A listed case decided here leaves the table when requests do not fail, unless
\* it is put back in the queue: a listing asked for before the decision is not
\* the last word (App.tsx:524).
DecidedLeaves ==
    \A c \in Cases :
        (~faulty /\ answer[c] = "ok" /\ c \in data)
            ~> (rows[c] = "absent" \/ case[c] # "decided")

\* A case in the queue comes to be shown as under review, or leaves the queue, when
\* requests do not fail (ARCHITECTURE.md:192-194).  The alert comes before the COMMIT
\* (transactions.py:103): a listing served between the two drops the row.  Verdicts
\* come after it (routes.py:246): the one committed first may be broadcast last.
OpenIsShown ==
    \A c \in Cases :
        (~faulty /\ case[c] = "open") ~> (rows[c] = "Under Review" \/ case[c] # "open")
=============================================================================
