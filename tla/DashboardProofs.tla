-------------------------- MODULE DashboardProofs --------------------------
(***************************************************************************)
(* Safety of the dashboard's table for every number of cases, whatever      *)
(* numbers their transactions and flagged rows have, however many events    *)
(* are on their way and whatever fails.                                     *)
(***************************************************************************)
EXTENDS Dashboard, TLAPS

\* A verdict in an event is the backend's: such a decision was committed before.
Sourced(event, made) ==
    event.type = "status" /\ event.status # "Under Review" =>
        \E d \in made[event.case] : EventStatus(d) = event.status

EventsOK ==
    /\ \A i \in 1 .. Len(wire) : Sourced(wire[i], taken)
    /\ Sourced(lastEvent, taken)

\* A decision about to be broadcast is committed.
CommittedOK ==
    /\ \A x \in Auditors : other[x].stage = "written" =>
            {other[x].state} \cap Decisions \subseteq taken[other[x].case]
    /\ \A c \in Cases : answer[c] = "written" => decision[c] \in taken[c]

DInv ==
    /\ TypeOK
    /\ EventsOK
    /\ CommittedOK
    /\ ListedIsShown
    /\ VerdictHasSource

\* What was committed stays committed, if only in the past.
DecisionsKept == \A c \in Cases : taken[c] \subseteq taken'[c]

Verdicts == {"Aprobada", "Rechazada", "Bloqueada"}

\* Where a verdict on a row may come from.
Justified(c, status, made, clicked) ==
    \/ \E d \in made[c] : EventStatus(d) = status
    \/ \E d \in Decisions : clicked[c][d] > 0 /\ status = Optimistic(d)
    \/ \E e \in Cases : FlaggedId[c] = TxId[e] /\ \E d \in made[e] : EventStatus(d) = status

-----------------------------------------------------------------------------
(* Events *)

\* An event of a case is an event.
LEMMA EventParts ==
    ASSUME NEW c \in Cases, NEW status \in UiStatus
    PROVE  /\ [type |-> "flagged", case |-> c] \in Event
           /\ [type |-> "status", case |-> c, status |-> status] \in Event
  BY DEF Event

\* What an event on its way may be.
LEMMA EventCases ==
    ASSUME NEW event \in Event
    PROVE  /\ event.case \in Cases
           /\ event.type = "flagged" \/ (event.type = "status" /\ event.status \in UiStatus)
  BY DEF Event

\* What a sequence of events becomes when one is sent.
LEMMA SendKeeps ==
    ASSUME TypeOK, NEW event \in Event, Send(event)
    PROVE  /\ wire' \in Seq(Event) /\ Len(wire') <= MaxWire
           /\ \A i \in 1 .. Len(wire') : \/ wire'[i] = event
                                         \/ \E j \in 1 .. Len(wire) : wire'[i] = wire[j]
  <1>1. wire \in Seq(Event) /\ Len(wire) \in Nat /\ MaxWire \in Nat
    BY DashboardAssumption DEF TypeOK
  <1>2. wire' = Append(wire, event) /\ Len(wire) < MaxWire
    BY DEF Send
  <1> QED BY <1>1, <1>2

\* An event keeps its source when decisions do.
LEMMA SourceStays ==
    ASSUME NEW event \in Event \cup {NoEvent}, NEW old, NEW new,
           \A c \in Cases : old[c] \subseteq new[c],
           Sourced(event, old)
    PROVE  Sourced(event, new)
  <1>1. CASE event = NoEvent
    BY <1>1 DEF NoEvent, Sourced
  <1>2. CASE event \in Event
    <2>1. event.case \in Cases
      BY <1>2, EventCases
    <2> QED BY <2>1 DEF Sourced
  <1> QED BY <1>1, <1>2

\* Events keep their sources when decisions do and what is sent has one.
LEMMA EventsStay ==
    ASSUME TypeOK, EventsOK, DecisionsKept, NEW event,
           Sourced(event, taken'),
           \A i \in 1 .. Len(wire') : \/ wire'[i] = event
                                      \/ \E j \in 1 .. Len(wire) : wire'[i] = wire[j],
           \/ lastEvent' \in {lastEvent, NoEvent}
           \/ \E j \in 1 .. Len(wire) : lastEvent' = wire[j]
    PROVE  EventsOK'
  <1>1. wire \in Seq(Event) /\ lastEvent \in Event \cup {NoEvent}
    BY DEF TypeOK
  <1>2. PICK old, new : old = taken /\ new = taken'
    OBVIOUS
  <1>3. \A c \in Cases : old[c] \subseteq new[c]
    BY <1>2 DEF DecisionsKept
  <1>4. \A j \in 1 .. Len(wire) : Sourced(wire[j], new)
    <2> TAKE j \in 1 .. Len(wire)
    <2>1. wire[j] \in Event \cup {NoEvent}
      BY <1>1
    <2>2. Sourced(wire[j], old)
      BY <1>2 DEF EventsOK
    <2> QED BY <2>1, <2>2, <1>3, SourceStays
  <1>5. Sourced(lastEvent, new)
    BY <1>1, <1>2, <1>3, SourceStays DEF EventsOK
  <1>6. Sourced(NoEvent, new)
    BY DEF Sourced, NoEvent
  <1>7. Sourced(event, new)
    BY <1>2
  <1>8. PICK newwire, newlast : newwire = wire' /\ newlast = lastEvent'
    OBVIOUS
  <1>9. \A i \in 1 .. Len(newwire) : Sourced(newwire[i], new)
    BY <1>4, <1>7, <1>8
  <1>10. Sourced(newlast, new)
    BY <1>4, <1>5, <1>6, <1>8
  <1> QED BY <1>2, <1>8, <1>9, <1>10 DEF EventsOK

\* A source is kept when decisions and clicks are.
LEMMA JustifiedStays ==
    ASSUME NEW c \in Cases, NEW status, NEW made, NEW more, NEW clicked, NEW again,
           \A e \in Cases : made[e] \subseteq more[e],
           \A e \in Cases, d \in Decisions : clicked[e][d] > 0 => again[e][d] > 0,
           Justified(c, status, made, clicked)
    PROVE  Justified(c, status, more, again)
  BY DEF Justified

\* What rows are shown stays true when none turns to a verdict without a source,
\* and decisions and clicks are kept.
LEMMA RowsStay ==
    ASSUME VerdictHasSource, DecisionsKept,
           \A c \in Cases, d \in Decisions : clicks[c][d] > 0 => clicks'[c][d] > 0,
           \A c \in Cases : rows'[c] \in Verdicts =>
               rows'[c] = rows[c] \/ Justified(c, rows'[c], taken', clicks')
    PROVE  VerdictHasSource'
  <1>1. PICK made, more, clicked, again, old, new :
             /\ made = taken /\ more = taken' /\ clicked = clicks /\ again = clicks'
             /\ old = rows /\ new = rows'
    OBVIOUS
  <1>2. \A c \in Cases : old[c] \in Verdicts => Justified(c, old[c], made, clicked)
    BY <1>1 DEF VerdictHasSource, Verdicts, Justified, Committed
  <1>3. \A c \in Cases : new[c] \in Verdicts => Justified(c, new[c], more, again)
    <2> SUFFICES ASSUME NEW c \in Cases, new[c] \in Verdicts
                 PROVE  Justified(c, new[c], more, again)
      OBVIOUS
    <2>1. CASE new[c] = old[c]
      <3>1. Justified(c, new[c], made, clicked)
        BY <1>2, <2>1
      <3>2. /\ \A e \in Cases : made[e] \subseteq more[e]
            /\ \A e \in Cases, d \in Decisions : clicked[e][d] > 0 => again[e][d] > 0
        BY <1>1 DEF DecisionsKept
      <3> QED BY <3>1, <3>2, JustifiedStays
    <2>2. CASE new[c] # old[c]
      BY <1>1, <2>2
    <2> QED BY <2>1, <2>2
  <1> QED BY <1>1, <1>3 DEF VerdictHasSource, Verdicts, Justified, Committed

-----------------------------------------------------------------------------
(* The backend *)

\* A step of the backend keeps the invariant: it touches no row, forgets no
\* decision, and sends at most one event, which has a source.
LEMMA ServerInv ==
    ASSUME DInv, DecisionsKept, CommittedOK',
           case' \in [Cases -> CaseState], taken' \in [Cases -> SUBSET Decisions],
           other' \in [Auditors -> Request \cup {NoRequest}], answer' \in [Cases -> Answers],
           \/ UNCHANGED wire
           \/ \E event \in Event : Send(event) /\ Sourced(event, taken'),
           UNCHANGED <<faulty, lastEvent, query, rows, decision, clicks>>
    PROVE  DInv'
  <1>1. TypeOK /\ EventsOK
    BY DEF DInv
  <1>2. PICK event \in Event \cup {NoEvent} :
             /\ Sourced(event, taken')
             /\ wire' \in Seq(Event) /\ Len(wire') <= MaxWire
             /\ \A i \in 1 .. Len(wire') : \/ wire'[i] = event
                                           \/ \E j \in 1 .. Len(wire) : wire'[i] = wire[j]
    <2>1. CASE UNCHANGED wire
      <3>1. Sourced(NoEvent, taken')
        BY DEF NoEvent, Sourced
      <3> QED BY <1>1, <2>1, <3>1 DEF TypeOK
    <2>2. CASE \E event \in Event : Send(event) /\ Sourced(event, taken')
      BY <1>1, <2>2, SendKeeps
    <2> QED BY <2>1, <2>2
  <1>3. TypeOK'
    BY <1>1, <1>2 DEF TypeOK, query
  <1>4. EventsOK'
    <2>1. lastEvent' \in {lastEvent, NoEvent}
      OBVIOUS
    <2> QED BY <1>1, <1>2, <2>1, EventsStay
  <1>5. ListedIsShown'
    BY DEF DInv, ListedIsShown, query
  <1>6. VerdictHasSource'
    BY RowsStay DEF DInv
  <1> QED BY <1>3, <1>4, <1>5, <1>6 DEF DInv

\* What a write commits: the state of the case, and a decision that is kept.
LEMMA WriteParts ==
    ASSUME TypeOK, NEW c \in Cases, NEW state, Write(c, state)
    PROVE  /\ case' \in [Cases -> CaseState]
           /\ taken' \in [Cases -> SUBSET Decisions]
           /\ DecisionsKept
           /\ {state} \cap Decisions \subseteq taken'[c]
  BY DEF TypeOK, Write, CaseState, DecisionsKept

\* What a broadcast tells: an event, with a source if the decision is committed.
LEMMA TellParts ==
    ASSUME TypeOK, NEW c \in Cases, NEW state \in Decisions \cup {Review}, Tell(c, state),
           {state} \cap Decisions \subseteq taken[c]
    PROVE  \E event \in Event : Send(event) /\ Sourced(event, taken)
  <1> DEFINE event == [type |-> "status", case |-> c, status |-> EventStatus(state)]
  <1>1. EventStatus(state) \in UiStatus
    BY DEF EventStatus, UiStatus
  <1>2. event \in Event
    BY <1>1, EventParts
  <1>3. EventStatus(state) # "Under Review" => state \in Decisions
    BY DEF EventStatus, Decisions, Review
  <1>4. Sourced(event, taken)
    BY <1>3 DEF Sourced
  <1>5. Send(event)
    BY DEF Tell
  <1> QED BY <1>2, <1>4, <1>5

\* Inserting a case, and the end of that transaction, keep the invariant.
LEMMA SubmissionInv ==
    ASSUME DInv, NEW c \in Cases, Announce(c) \/ Conclude(c)
    PROVE  DInv'
  <1>1. TypeOK /\ CommittedOK
    BY DEF DInv
  <1>2. UNCHANGED <<faulty, taken, other, lastEvent, query, rows, acting>>
    BY DEF Announce, Conclude
  <1>3. case' \in [Cases -> CaseState]
    BY <1>1 DEF TypeOK, Announce, Conclude, CaseState
  <1>4. DecisionsKept /\ CommittedOK'
    BY <1>1, <1>2 DEF DecisionsKept, CommittedOK, acting
  <1>5. \/ UNCHANGED wire
        \/ \E event \in Event : Send(event) /\ Sourced(event, taken')
    <2>1. CASE Announce(c)
      <3> DEFINE event == [type |-> "flagged", case |-> c]
      <3>1. event \in Event
        BY EventParts DEF UiStatus
      <3>2. Sourced(event, taken')
        BY DEF Sourced
      <3> QED BY <2>1, <3>1, <3>2 DEF Announce
    <2>2. CASE Conclude(c)
      BY <2>2 DEF Conclude
    <2> QED BY <2>1, <2>2
  <1> QED BY <1>1, <1>2, <1>3, <1>4, <1>5, ServerInv DEF TypeOK, acting

\* A request of another auditor keeps the invariant.
LEMMA OtherInv ==
    ASSUME DInv, NEW x \in Auditors, Other(x)
    PROVE  DInv'
  <1>1. TypeOK /\ CommittedOK
    BY DEF DInv
  <1>2. /\ case \in [Cases -> CaseState] /\ taken \in [Cases -> SUBSET Decisions]
        /\ other \in [Auditors -> Request \cup {NoRequest}] /\ answer \in [Cases -> Answers]
    BY <1>1 DEF TypeOK
  <1>3. other[x] # NoRequest => /\ other[x].case \in Cases
                               /\ other[x].state \in Decisions \cup {Review}
    BY <1>2 DEF Request
  <1>4. NoRequest.stage = "idle"
    BY DEF NoRequest
  <1>5. CASE \E c \in Cases : \E state \in Offered[c] \cup {Review} : OtherChecks(x, c, state)
    <2>1. PICK c \in Cases : \E state \in Offered[c] \cup {Review} : OtherChecks(x, c, state)
      BY <1>5
    <2>2. PICK state \in Offered[c] \cup {Review} : OtherChecks(x, c, state)
      BY <2>1
    <2> DEFINE request == [case |-> c, state |-> state, stage |-> "checked"]
    <2>3. /\ other' = [other EXCEPT ![x] = request]
          /\ UNCHANGED <<faulty, record, wire, lastEvent, query, rows, acting>>
      BY <2>2 DEF OtherChecks
    <2>4. request \in Request
      BY DashboardAssumption DEF Request
    <2>5. other' \in [Auditors -> Request \cup {NoRequest}]
      BY <1>2, <2>3, <2>4
    <2>6. CommittedOK' /\ DecisionsKept
      BY <1>1, <1>2, <2>3 DEF CommittedOK, DecisionsKept, record, acting
    <2> QED BY <1>2, <2>3, <2>5, <2>6, ServerInv DEF record, acting
  <1>6. CASE OtherWrites(x)
    <2>1. /\ other[x].stage = "checked"
          /\ Write(other[x].case, other[x].state)
          /\ other' = [other EXCEPT ![x].stage = "written"]
          /\ UNCHANGED <<faulty, wire, lastEvent, query, rows, acting>>
      BY <1>6 DEF OtherWrites
    <2>2. other[x] \in Request
      BY <1>2, <1>4, <2>1
    <2>3. other'[x] = [other[x] EXCEPT !.stage = "written"] /\ other'[x] \in Request
      BY <1>2, <2>1, <2>2 DEF Request
    <2>4. other' \in [Auditors -> Request \cup {NoRequest}]
      BY <1>2, <2>1, <2>3
    <2>5. /\ case' \in [Cases -> CaseState] /\ taken' \in [Cases -> SUBSET Decisions]
          /\ DecisionsKept
          /\ {other[x].state} \cap Decisions \subseteq taken'[other[x].case]
      BY <1>1, <1>3, <2>1, <1>4, WriteParts
    <2>6. CommittedOK'
      <3>1. ASSUME NEW y \in Auditors, other'[y].stage = "written"
            PROVE  {other'[y].state} \cap Decisions \subseteq taken'[other'[y].case]
        <4>1. CASE y = x
          <5>1. other'[y].state = other[x].state /\ other'[y].case = other[x].case
            BY <2>2, <2>3, <4>1 DEF Request
          <5> QED BY <2>5, <5>1
        <4>2. CASE y # x
          <5>1. other'[y] = other[y]
            BY <1>2, <2>1, <4>2
          <5>2. other[y].case \in Cases
            BY <1>2, <1>4, <3>1, <5>1 DEF Request
          <5> QED BY <1>1, <2>5, <3>1, <5>1, <5>2 DEF CommittedOK, DecisionsKept
        <4> QED BY <4>1, <4>2
      <3>2. \A c \in Cases : answer'[c] = "written" => decision'[c] \in taken'[c]
        BY <1>1, <2>1, <2>5 DEF CommittedOK, DecisionsKept, acting
      <3> QED BY <3>1, <3>2 DEF CommittedOK
    <2> QED BY <1>2, <2>1, <2>4, <2>5, <2>6, ServerInv DEF acting
  <1>7. CASE OtherTells(x) \/ OtherFails(x)
    <2>1. /\ other[x] # NoRequest
          /\ other' = [other EXCEPT ![x] = NoRequest]
          /\ UNCHANGED <<faulty, record, lastEvent, query, rows, acting>>
      BY <1>4, <1>7 DEF OtherTells, OtherFails
    <2>2. other' \in [Auditors -> Request \cup {NoRequest}]
      BY <1>2, <2>1
    <2>3. CommittedOK' /\ DecisionsKept
      <3>1. \A y \in Auditors : other'[y] = other[y] \/ other'[y] = NoRequest
        BY <1>2, <2>1
      <3> QED BY <1>1, <1>4, <2>1, <3>1 DEF CommittedOK, DecisionsKept, record, acting
    <2>4. \/ UNCHANGED wire
          \/ \E event \in Event : Send(event) /\ Sourced(event, taken')
      <3>1. CASE OtherTells(x)
        <4>1. other[x].stage = "written" /\ Tell(other[x].case, other[x].state)
          BY <3>1 DEF OtherTells
        <4>2. {other[x].state} \cap Decisions \subseteq taken[other[x].case]
          BY <1>1, <4>1 DEF CommittedOK
        <4>3. PICK event \in Event : Send(event) /\ Sourced(event, taken)
          BY <1>1, <1>3, <2>1, <4>1, <4>2, TellParts
        <4> QED BY <2>1, <4>3 DEF record
      <3>2. CASE OtherFails(x)
        BY <3>2 DEF OtherFails
      <3> QED BY <1>7, <3>1, <3>2
    <2> QED BY <1>2, <2>1, <2>2, <2>3, <2>4, ServerInv DEF record, acting
  <1> QED BY <1>5, <1>6, <1>7 DEF Other, OtherEnds

-----------------------------------------------------------------------------
(* The listing *)

\* A refetch leaves a listing that is typed.
LEMMA RefetchTypes ==
    ASSUME TypeOK, Refetch
    PROVE  fetch' \in {"idle", "asked", "answered"} /\ snapshot' \subseteq Cases
  BY DEF TypeOK, Refetch, Ask

\* A step of the browser that commits nothing keeps the sources of events.
LEMMA EventsIdle ==
    ASSUME TypeOK, EventsOK, UNCHANGED taken,
           \/ wire' \in {wire, <<>>} /\ lastEvent' \in {lastEvent, NoEvent}
           \/ wire # <<>> /\ wire' = Tail(wire) /\ lastEvent' = Head(wire)
    PROVE  EventsOK'
  <1>1. wire \in Seq(Event) /\ DecisionsKept
    BY DEF TypeOK, DecisionsKept
  <1>2. \A i \in 1 .. Len(wire') : \E j \in 1 .. Len(wire) : wire'[i] = wire[j]
    <2>1. CASE wire' \in {wire, <<>>}
      BY <1>1, <2>1
    <2>2. CASE wire # <<>> /\ wire' = Tail(wire)
      <3> TAKE i \in 1 .. Len(wire')
      <3>1. i + 1 \in 1 .. Len(wire) /\ wire'[i] = wire[i + 1]
        BY <1>1, <2>2
      <3> QED BY <3>1
    <2> QED BY <2>1, <2>2
  <1>3. lastEvent' \in {lastEvent, NoEvent} \/ \E j \in 1 .. Len(wire) : lastEvent' = wire[j]
    <2>1. wire # <<>> => 1 \in 1 .. Len(wire) /\ Head(wire) = wire[1]
      BY <1>1
    <2> QED BY <2>1
  <1>4. Sourced(NoEvent, taken')
    BY DEF NoEvent, Sourced
  <1> QED BY <1>1, <1>2, <1>3, <1>4, EventsStay

\* So does it keep the decisions about to be broadcast.
LEMMA CommittedIdle ==
    ASSUME CommittedOK, UNCHANGED <<record, other, acting>>
    PROVE  CommittedOK' /\ DecisionsKept
  BY DEF CommittedOK, DecisionsKept, record, acting

\* A listing keeps the invariant: one equal to the last leaves the rows it left.
LEMMA ListingInv ==
    ASSUME DInv, Serve \/ Arrive \/ FetchFails
    PROVE  DInv'
  <1>1. TypeOK /\ EventsOK
    BY DEF DInv
  <1>2. UNCHANGED <<faulty, record, other, wire, lastEvent, acting>>
    BY DEF Serve, Arrive, FetchFails
  <1>3. EventsOK'
    BY <1>1, <1>2, EventsIdle DEF record
  <1> CommittedOK' /\ DecisionsKept
    BY <1>2, CommittedIdle DEF DInv
  <1>4. CASE Serve \/ FetchFails
    <2>1. UNCHANGED <<loaded, data, rows>>
      BY <1>4 DEF Serve, FetchFails
    <2>2. TypeOK'
      BY <1>1, <1>2, <1>4, <2>1 DEF TypeOK, Serve, FetchFails, Listed, record, acting
    <2>3. ListedIsShown' /\ VerdictHasSource'
      BY <1>2, <2>1, RowsStay DEF DInv, ListedIsShown, acting
    <2> QED BY <1>3, <2>2, <2>3 DEF DInv
  <1>5. CASE Arrive
    <2>1. fetch' = "idle" /\ snapshot' = {} /\ loaded' = TRUE /\ data' = snapshot
      BY <1>5 DEF Arrive
    <2>2. \/ rows' = [c \in Cases |-> IF c \in snapshot THEN "Under Review" ELSE "absent"]
          \/ snapshot = data /\ rows' = rows
      BY <1>5 DEF Arrive
    <2>3. rows' \in [Cases -> UiStatus \cup {"absent"}]
      BY <1>1, <2>2 DEF TypeOK, UiStatus
    <2>4. TypeOK'
      BY <1>1, <1>2, <2>1, <2>3 DEF TypeOK, record, acting
    <2>5. ListedIsShown'
      BY <1>1, <2>1, <2>2 DEF DInv, ListedIsShown, TypeOK
    <2>6. \A c \in Cases : rows'[c] \in Verdicts => rows'[c] = rows[c]
      BY <2>2 DEF Verdicts
    <2>7. VerdictHasSource'
      BY <1>2, <2>6, RowsStay DEF DInv, acting
    <2> QED BY <1>3, <2>4, <2>5, <2>7 DEF DInv
  <1> QED BY <1>4, <1>5

-----------------------------------------------------------------------------
(* Events *)

\* What a relabelling leaves: every row is where it was, with its status or the
\* new one.
LEMMA RelabelParts ==
    ASSUME TypeOK, NEW which, NEW status \in UiStatus, Relabel(which, status)
    PROVE  /\ rows' \in [Cases -> UiStatus \cup {"absent"}]
           /\ \A c \in Cases : /\ rows[c] # "absent" => rows'[c] # "absent"
                               /\ rows'[c] = rows[c] \/ (c \in which /\ rows'[c] = status)
  BY DEF TypeOK, Relabel, UiStatus

\* An event that arrives, or will never arrive, keeps the invariant.
LEMMA SocketInv ==
    ASSUME DInv, Receive \/ Close
    PROVE  DInv'
  <1>1. TypeOK /\ EventsOK
    BY DEF DInv
  <1>2. UNCHANGED <<faulty, record, other, query, rows, acting>>
    BY DEF Receive, Close
  <1>3. \/ wire' = <<>> /\ lastEvent' = lastEvent
        \/ wire # <<>> /\ wire' = Tail(wire) /\ lastEvent' = Head(wire)
    BY DEF Receive, Close
  <1>4. wire \in Seq(Event) /\ Len(wire) <= MaxWire /\ MaxWire \in Nat
    BY <1>1, DashboardAssumption DEF TypeOK
  <1>5. wire' \in Seq(Event) /\ Len(wire') <= MaxWire
    <2>1. CASE wire' = <<>>
      BY <1>4, <2>1
    <2>2. CASE wire # <<>> /\ wire' = Tail(wire)
      <3>1. Tail(wire) \in Seq(Event) /\ Len(Tail(wire)) = Len(wire) - 1 /\ Len(wire) \in Nat
        BY <1>4, <2>2
      <3> QED BY <1>4, <2>2, <3>1
    <2> QED BY <1>3, <2>1, <2>2
  <1>6. lastEvent' \in Event \cup {NoEvent}
    BY <1>1, <1>3, <1>4 DEF TypeOK
  <1>7. TypeOK'
    BY <1>1, <1>2, <1>5, <1>6 DEF TypeOK, record, query, acting
  <1>8. EventsOK'
    BY <1>1, <1>2, <1>3, EventsIdle DEF record
  <1>10. CommittedOK' /\ DecisionsKept
    BY <1>2, CommittedIdle DEF DInv
  <1>9. ListedIsShown' /\ VerdictHasSource'
    BY <1>2, <1>10, RowsStay DEF DInv, ListedIsShown, query, acting
  <1> QED BY <1>7, <1>8, <1>9, <1>10 DEF DInv

\* A new status keeps the invariant: it is shown by the row of its case, whose
\* number is only its own, or by one whose flagged row has the number.
LEMMA ApplyStatusInv ==
    ASSUME DInv, ApplyStatus
    PROVE  DInv'
  <1>1. TypeOK /\ EventsOK
    BY DEF DInv
  <1>2. /\ lastEvent.type = "status" /\ lastEvent' = NoEvent
        /\ Relabel({row \in Cases : Named(row, lastEvent.case)}, lastEvent.status)
        /\ UNCHANGED <<faulty, record, other, wire, query, acting>>
    BY DEF ApplyStatus
  <1>3. lastEvent \in Event
    <2>1. lastEvent.type = "status" /\ NoEvent.type = "none"
      BY <1>2 DEF NoEvent
    <2>2. lastEvent # NoEvent
      BY <2>1
    <2> QED BY <1>1, <2>2 DEF TypeOK
  <1>4. lastEvent.case \in Cases /\ lastEvent.status \in UiStatus
    BY <1>2, <1>3, EventCases
  <1>5. /\ rows' \in [Cases -> UiStatus \cup {"absent"}]
        /\ \A c \in Cases :
             /\ rows[c] # "absent" => rows'[c] # "absent"
             /\ \/ rows'[c] = rows[c]
                \/ Named(c, lastEvent.case) /\ rows'[c] = lastEvent.status
    BY <1>1, <1>2, <1>4, RelabelParts
  <1>6. TypeOK'
    BY <1>1, <1>2, <1>5 DEF TypeOK, record, query, acting
  <1>7. EventsOK'
    BY <1>1, <1>2, EventsIdle DEF record
  <1>8. ListedIsShown'
    BY <1>1, <1>2, <1>5 DEF DInv, ListedIsShown, TypeOK, query
  <1>9. CommittedOK' /\ DecisionsKept
    BY <1>2, CommittedIdle DEF DInv
  <1>10. VerdictHasSource'
    <2>1. SUFFICES ASSUME NEW c \in Cases, rows'[c] \in Verdicts, rows'[c] # rows[c]
                   PROVE  Justified(c, rows'[c], taken', clicks')
      BY <1>2, <1>9, RowsStay DEF DInv, acting
    <2>2. Named(c, lastEvent.case) /\ rows'[c] = lastEvent.status
      BY <1>5, <2>1
    <2>3. \E d \in taken[lastEvent.case] : EventStatus(d) = lastEvent.status
      BY <1>1, <1>2, <2>1, <2>2 DEF EventsOK, Sourced, Verdicts
    <2>4. c = lastEvent.case \/ FlaggedId[c] = TxId[lastEvent.case]
      BY <1>4, <2>2, DashboardAssumption DEF Named
    <2>5. taken' = taken
      BY <1>2 DEF record
    <2> QED BY <1>4, <2>2, <2>3, <2>4, <2>5 DEF Justified
  <1> QED BY <1>6, <1>7, <1>8, <1>9, <1>10 DEF DInv

\* An alert keeps the invariant: the row it replaces is its own.
LEMMA ApplyAlertInv ==
    ASSUME DInv, ApplyAlert
    PROVE  DInv'
  <1>1. TypeOK /\ EventsOK
    BY DEF DInv
  <1>2. /\ lastEvent.type = "flagged" /\ lastEvent' = NoEvent /\ Refetch
        /\ rows' = [c \in Cases |-> IF c = lastEvent.case THEN "Under Review"
                                    ELSE IF Replaced(c, lastEvent.case) THEN "absent" ELSE rows[c]]
        /\ UNCHANGED <<faulty, record, other, wire, loaded, data, acting>>
    BY DEF ApplyAlert
  <1>3. lastEvent \in Event
    <2>1. lastEvent.type = "flagged" /\ NoEvent.type = "none"
      BY <1>2 DEF NoEvent
    <2>2. lastEvent # NoEvent
      BY <2>1
    <2> QED BY <1>1, <2>2 DEF TypeOK
  <1>4. lastEvent.case \in Cases
    BY <1>3, EventCases
  <1>5. \A c \in Cases : Replaced(c, lastEvent.case) => c = lastEvent.case
    BY <1>4, DashboardAssumption DEF Replaced
  <1>6. rows' \in [Cases -> UiStatus \cup {"absent"}]
    BY <1>1, <1>2 DEF TypeOK, UiStatus
  <1>7. \A c \in Cases : rows'[c] = rows[c] \/ rows'[c] = "Under Review"
    BY <1>2, <1>5
  <1>8. TypeOK'
    BY <1>1, <1>2, <1>6, RefetchTypes DEF TypeOK, record, acting
  <1>9. EventsOK'
    BY <1>1, <1>2, EventsIdle DEF record
  <1>10. ListedIsShown'
    BY <1>1, <1>2, <1>7 DEF DInv, ListedIsShown, TypeOK
  <1>11. \A c \in Cases : rows'[c] \in Verdicts => rows'[c] = rows[c]
    BY <1>7 DEF Verdicts
  <1>12. CommittedOK' /\ DecisionsKept
    BY <1>2, CommittedIdle DEF DInv
  <1>13. VerdictHasSource'
    BY <1>2, <1>11, <1>12, RowsStay DEF DInv, acting
  <1> QED BY <1>8, <1>9, <1>10, <1>12, <1>13 DEF DInv

-----------------------------------------------------------------------------
(* Decisions of this dashboard *)

\* A decision keeps the invariant: the row it relabels is the one it counts.
LEMMA ClickInv ==
    ASSUME DInv, NEW c \in Cases, NEW d \in Decisions, Click(c, d)
    PROVE  DInv'
  <1>1. TypeOK /\ EventsOK /\ CommittedOK
    BY DEF DInv
  <1>2. /\ clicks[c][d] < MaxClicks[c] /\ decision[c] = "none"
        /\ Relabel({row \in Cases : Chosen(row, c)}, Optimistic(d))
        /\ decision' = [decision EXCEPT ![c] = d]
        /\ clicks' = [clicks EXCEPT ![c][d] = @ + 1]
        /\ UNCHANGED <<faulty, record, other, wire, lastEvent, query, answer>>
    BY DEF Click
  <1>3. /\ clicks \in [Cases -> [Decisions -> Nat]] /\ MaxClicks \in [Cases -> Nat]
        /\ \A e \in Cases, f \in Decisions : clicks[e][f] <= MaxClicks[e]
    BY <1>1, DashboardAssumption DEF TypeOK
  <1>4. /\ clicks' \in [Cases -> [Decisions -> Nat]]
        /\ \A e \in Cases, f \in Decisions : clicks'[e][f] <= MaxClicks[e]
        /\ \A e \in Cases, f \in Decisions : clicks[e][f] > 0 => clicks'[e][f] > 0
        /\ clicks'[c][d] > 0
    <2>1. clicks'[c] = [clicks[c] EXCEPT ![d] = @ + 1]
      BY <1>2, <1>3
    <2>2. \A e \in Cases : e # c => clicks'[e] = clicks[e]
      BY <1>2, <1>3
    <2>3. clicks[c][d] \in Nat /\ clicks'[c][d] = clicks[c][d] + 1 /\ MaxClicks[c] \in Nat
      BY <1>3, <2>1
    <2>4. \A f \in Decisions : f # d => clicks'[c][f] = clicks[c][f]
      BY <1>3, <2>1
    <2>5. clicks' \in [Cases -> [Decisions -> Nat]]
      BY <1>2, <1>3, <2>3
    <2> QED BY <1>2, <1>3, <2>2, <2>3, <2>4, <2>5
  <1>5. Optimistic(d) \in UiStatus
    BY DEF Optimistic, UiStatus
  <1>6. /\ rows' \in [Cases -> UiStatus \cup {"absent"}]
        /\ \A e \in Cases : /\ rows[e] # "absent" => rows'[e] # "absent"
                            /\ rows'[e] = rows[e] \/ (Chosen(e, c) /\ rows'[e] = Optimistic(d))
    BY <1>1, <1>2, <1>5, RelabelParts
  <1>7. \A e \in Cases : Chosen(e, c) => e = c
    BY DashboardAssumption DEF Chosen
  <1>8. decision' \in [Cases -> Decisions \cup {"none"}]
    BY <1>1, <1>2 DEF TypeOK
  <1>9. TypeOK'
    BY <1>1, <1>2, <1>4, <1>6, <1>8 DEF TypeOK, record, query
  <1>10. EventsOK'
    BY <1>1, <1>2, EventsIdle DEF record
  <1>11. ListedIsShown'
    BY <1>1, <1>2, <1>6 DEF DInv, ListedIsShown, TypeOK, query
  <1>12. CommittedOK' /\ DecisionsKept
    <2>1. taken \in [Cases -> SUBSET Decisions] /\ decision \in [Cases -> Decisions \cup {"none"}]
      BY <1>1 DEF TypeOK
    <2>2. "none" \notin Decisions
      BY DEF Decisions
    <2>3. answer[c] # "written"
      BY <1>1, <1>2, <2>1, <2>2 DEF CommittedOK
    <2>4. \A e \in Cases : e # c => decision'[e] = decision[e]
      BY <1>2, <2>1
    <2> QED BY <1>1, <1>2, <2>3, <2>4 DEF CommittedOK, DecisionsKept, record
  <1>13. VerdictHasSource'
    <2>1. SUFFICES ASSUME NEW e \in Cases, rows'[e] # rows[e]
                   PROVE  Justified(e, rows'[e], taken', clicks')
      BY <1>4, <1>12, RowsStay DEF DInv
    <2>2. e = c /\ rows'[e] = Optimistic(d)
      BY <1>6, <1>7, <2>1
    <2> QED BY <1>4, <2>2 DEF Justified
  <1> QED BY <1>9, <1>10, <1>11, <1>12, <1>13 DEF DInv

\* The steps of the request keep the invariant.
LEMMA OwnInv ==
    ASSUME DInv, NEW c \in Cases, Own(c)
    PROVE  DInv'
  <1>1. TypeOK /\ CommittedOK
    BY DEF DInv
  <1>2. /\ case \in [Cases -> CaseState] /\ taken \in [Cases -> SUBSET Decisions]
        /\ other \in [Auditors -> Request \cup {NoRequest}] /\ answer \in [Cases -> Answers]
        /\ decision \in [Cases -> Decisions \cup {"none"}]
    BY <1>1 DEF TypeOK
  <1>3. CASE OwnWrites(c)
    <2>1. /\ Write(c, decision[c]) /\ decision[c] \in Decisions
          /\ answer' = [answer EXCEPT ![c] = "written"]
          /\ UNCHANGED <<faulty, other, wire, lastEvent, query, rows, decision, clicks>>
      BY <1>2, <1>3 DEF OwnWrites, Waiting, Answered
    <2>2. /\ case' \in [Cases -> CaseState] /\ taken' \in [Cases -> SUBSET Decisions]
          /\ DecisionsKept /\ decision[c] \in taken'[c]
      BY <1>1, <2>1, WriteParts
    <2>3. answer' \in [Cases -> Answers]
      BY <1>2, <2>1 DEF Answers
    <2>4. CommittedOK'
      <3>1. ASSUME NEW x \in Auditors, other[x].stage = "written"
            PROVE  {other[x].state} \cap Decisions \subseteq taken'[other[x].case]
        <4>1. other[x].case \in Cases
          BY <1>2, <3>1 DEF Request, NoRequest
        <4> QED BY <1>1, <2>2, <3>1, <4>1 DEF CommittedOK, DecisionsKept
      <3>2. \A e \in Cases : e # c => answer'[e] = answer[e]
        BY <1>2, <2>1
      <3> QED BY <1>1, <2>1, <2>2, <3>1, <3>2 DEF CommittedOK, DecisionsKept
    <2> QED BY <1>2, <2>1, <2>2, <2>3, <2>4, ServerInv
  <1>4. CASE OwnChecks(c) \/ OwnTells(c) \/ OwnFails(c)
    <2>1. /\ \E result \in {"checked", "ok", "error"} : answer' = [answer EXCEPT ![c] = result]
          /\ UNCHANGED <<faulty, record, other, lastEvent, query, rows, decision, clicks>>
      BY <1>4 DEF OwnChecks, OwnTells, OwnFails, Answered
    <2>2. answer' \in [Cases -> Answers]
      BY <1>2, <2>1 DEF Answers
    <2>3. \A e \in Cases : answer'[e] = "written" => answer[e] = "written"
      BY <1>2, <2>1
    <2>4. CommittedOK' /\ DecisionsKept
      BY <1>1, <2>1, <2>3 DEF CommittedOK, DecisionsKept, record
    <2>5. \/ UNCHANGED wire
          \/ \E event \in Event : Send(event) /\ Sourced(event, taken')
      <3>1. CASE OwnTells(c)
        <4>1. Tell(c, decision[c]) /\ decision[c] \in Decisions /\ answer[c] = "written"
          BY <1>2, <3>1 DEF OwnTells, Waiting
        <4>2. {decision[c]} \cap Decisions \subseteq taken[c]
          BY <1>1, <4>1 DEF CommittedOK
        <4>3. PICK event \in Event : Send(event) /\ Sourced(event, taken)
          BY <1>1, <4>1, <4>2, TellParts
        <4> QED BY <2>1, <4>3 DEF record
      <3>2. CASE OwnChecks(c) \/ OwnFails(c)
        BY <3>2 DEF OwnChecks, OwnFails
      <3> QED BY <1>4, <3>1, <3>2
    <2> QED BY <1>2, <2>1, <2>2, <2>4, <2>5, ServerInv DEF record
  <1> QED BY <1>3, <1>4 DEF Own

\* So does the answer, which refetches.
LEMMA FinishInv ==
    ASSUME DInv, NEW c \in Cases, Finish(c)
    PROVE  DInv'
  <1>1. TypeOK /\ EventsOK /\ CommittedOK
    BY DEF DInv
  <1>2. /\ \E result \in {"ok", "error"} : Waiting(c, result)
        /\ decision' = [decision EXCEPT ![c] = "none"]
        /\ answer' = [answer EXCEPT ![c] = "none"]
        /\ Refetch
        /\ UNCHANGED <<faulty, record, other, wire, lastEvent, loaded, data, rows, clicks>>
    BY DEF Finish
  <1>3. decision \in [Cases -> Decisions \cup {"none"}] /\ answer \in [Cases -> Answers]
    BY <1>1 DEF TypeOK
  <1>4. /\ decision' \in [Cases -> Decisions \cup {"none"}]
        /\ answer' \in [Cases -> Answers]
        /\ \A e \in Cases : answer'[e] = "written" =>
                           answer[e] = "written" /\ decision'[e] = decision[e]
    BY <1>2, <1>3 DEF Answers
  <1>5. TypeOK'
    BY <1>1, <1>2, <1>4, RefetchTypes DEF TypeOK, record
  <1>6. EventsOK'
    BY <1>1, <1>2, EventsIdle DEF record
  <1>7. CommittedOK' /\ DecisionsKept
    BY <1>1, <1>2, <1>4 DEF CommittedOK, DecisionsKept, record
  <1>8. ListedIsShown' /\ VerdictHasSource'
    BY <1>2, <1>7, RowsStay DEF DInv, ListedIsShown
  <1> QED BY <1>5, <1>6, <1>7, <1>8 DEF DInv

-----------------------------------------------------------------------------
(* The theorems *)

\* The invariant holds of the table before its first listing.
LEMMA DashboardInitInv == Init => DInv
  <1> SUFFICES ASSUME Init PROVE DInv
    OBVIOUS
  <1>1. TypeOK
    <2>1. <<>> \in Seq(Event) /\ Len(<<>>) = 0 /\ 0 <= MaxWire /\ \A c \in Cases : 0 <= MaxClicks[c]
      BY DashboardAssumption
    <2>2. clicks \in [Cases -> [Decisions -> Nat]] /\ \A c \in Cases, d \in Decisions : clicks[c][d] = 0
      BY DEF Init
    <2> QED BY <2>1, <2>2 DEF Init, TypeOK, CaseState, Answers
  <1>2. EventsOK /\ CommittedOK
    BY DEF Init, EventsOK, CommittedOK, Sourced, NoEvent, NoRequest
  <1>3. ListedIsShown /\ VerdictHasSource
    BY DEF Init, ListedIsShown, VerdictHasSource
  <1> QED BY <1>1, <1>2, <1>3 DEF DInv

\* Every step of the dashboard keeps the invariant.
LEMMA DashboardNextInv == DInv /\ [Next]_vars => DInv'
  <1> SUFFICES ASSUME DInv, [Next]_vars PROVE DInv'
    OBVIOUS
  <1>1. \A c \in Cases : Offered[c] \subseteq Decisions
    BY DashboardAssumption
  <1>2. CASE \E c \in Cases : Announce(c) \/ Conclude(c)
    BY <1>2, SubmissionInv
  <1>3. CASE \E x \in Auditors : Other(x)
    BY <1>3, OtherInv
  <1>4. CASE \E c \in Cases : \E d \in Offered[c] : Click(c, d)
    BY <1>1, <1>4, ClickInv
  <1>5. CASE \E c \in Cases : Own(c) \/ Finish(c)
    BY <1>5, OwnInv, FinishInv
  <1>6. CASE Serve \/ Arrive \/ FetchFails
    BY <1>6, ListingInv
  <1>7. CASE Receive \/ Close
    BY <1>7, SocketInv
  <1>8. CASE Effect
    BY <1>8, ApplyStatusInv, ApplyAlertInv DEF Effect
  <1>9. CASE UNCHANGED vars
    <2>1. TypeOK' /\ ListedIsShown'
      BY <1>9 DEF vars, record, query, acting, DInv, TypeOK, ListedIsShown
    <2>2. EventsOK' /\ CommittedOK' /\ DecisionsKept
      BY <1>9, EventsIdle, CommittedIdle DEF vars, record, DInv
    <2> QED BY <1>9, <2>1, <2>2, RowsStay DEF DInv, vars, acting
  <1> QED BY <1>2, <1>3, <1>4, <1>5, <1>6, <1>7, <1>8, <1>9 DEF Next

\* The invariant holds in every behaviour of the dashboard.
LEMMA DashboardInvariance == Spec => []DInv
  BY DashboardInitInv, DashboardNextInv, PTL DEF Spec

\* The table, the listing and the decisions of one dashboard keep their types
\* (App.tsx:391-470).
THEOREM DashboardIsTyped == Spec => []TypeOK
  <1>1. DInv => TypeOK
    BY DEF DInv
  <1> QED BY <1>1, DashboardInvariance, PTL

\* A case the backend has listed keeps its row, whatever alerts and statuses
\* arrive meanwhile, lost, late or taken for another's (App.tsx:415-454).
THEOREM ListedCasesAreShown == Spec => []ListedIsShown
  <1>1. DInv => ListedIsShown
    BY DEF DInv
  <1> QED BY <1>1, DashboardInvariance, PTL

\* A verdict on a row was committed as a decision on its case, by anyone, if only
\* to be replaced later; or it was decided here; or it is another case's, whose
\* transaction has the number of the row's flagged row (App.tsx:423).
THEOREM VerdictsHaveSources == Spec => []VerdictHasSource
  <1>1. DInv => VerdictHasSource
    BY DEF DInv
  <1> QED BY <1>1, DashboardInvariance, PTL
=============================================================================
