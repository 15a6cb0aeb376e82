-------------------------- MODULE NotificationHub --------------------------
(***************************************************************************)
(* NotificationHub (services/notifications.py) and the /ws endpoint that    *)
(* registers dashboards with it (main.py).                                  *)
(*                                                                         *)
(* One event loop runs everything, so what lies between two awaits is one   *)
(* step; the hub's lock is never held across an await other than its own    *)
(* acquisition, and a locked section is one step too.  A broadcast copies   *)
(* the connections and then awaits a send to each, in the order of the      *)
(* copy: connections come and go, and other broadcasts run, in between.     *)
(***************************************************************************)
EXTENDS SequencesExt

CONSTANTS Sockets,      \* clients of /ws
          Broadcasts    \* the events broadcast: submissions, resolutions, alerts

ASSUME HubAssumption == IsFiniteSet(Sockets)

VARIABLES
    link,       \* the connection under each socket
    handler,    \* where websocket_endpoint is for each socket
    hub,        \* NotificationHub._connections
    phase,      \* where each broadcast is
    snapshot,   \* the connections each broadcast copied
    queue,      \* those it has still to send to, the one in flight first
    stale,      \* those whose send raised
    inbox,      \* inbox[s]: the events that reached the client
    preceding   \* preceding[b]: the broadcasts answered before b began

endpoint == <<link, handler>>
broadcast == <<phase, snapshot, queue, stale, preceding>>
vars == <<endpoint, hub, broadcast, inbox>>

TypeOK ==
    /\ link \in [Sockets -> {"none", "up", "stalled", "down"}]
    /\ handler \in [Sockets -> {"none", "accepting", "listening", "ended"}]
    /\ hub \subseteq Sockets
    /\ phase \in [Broadcasts -> {"idle", "sending", "done"}]
    /\ snapshot \in [Broadcasts -> SUBSET Sockets]
    /\ queue \in [Broadcasts -> Seq(Sockets)]
    /\ stale \in [Broadcasts -> SUBSET Sockets]
    /\ inbox \in [Sockets -> Seq(Broadcasts)]
    /\ \A b \in Broadcasts :
         /\ IsInjective(queue[b])
         /\ ToSet(queue[b]) \subseteq snapshot[b] \ stale[b]
         /\ stale[b] \subseteq snapshot[b]
         /\ phase[b] = "done" => queue[b] = <<>>
    /\ \A s \in Sockets : IsInjective(inbox[s])
    /\ preceding \in [Broadcasts -> SUBSET Broadcasts]

Init ==
    /\ link = [s \in Sockets |-> "none"]
    /\ handler = [s \in Sockets |-> "none"]
    /\ hub = {}
    /\ phase = [b \in Broadcasts |-> "idle"]
    /\ snapshot = [b \in Broadcasts |-> {}]
    /\ queue = [b \in Broadcasts |-> <<>>]
    /\ stale = [b \in Broadcasts |-> {}]
    /\ inbox = [s \in Sockets |-> <<>>]
    /\ preceding = [b \in Broadcasts |-> {}]

-----------------------------------------------------------------------------
(* The client and its connection *)

\* The client connects with a token; the endpoint verifies it before anything
\* is awaited, and is then at websocket.accept().
Connect(s) ==
    /\ handler[s] = "none"
    /\ link' = [link EXCEPT ![s] = "up"]
    /\ handler' = [handler EXCEPT ![s] = "accepting"]
    /\ UNCHANGED <<hub, broadcast, inbox>>

\* No token, or one that does not verify: the socket is closed.
Refuse(s) ==
    /\ handler[s] = "none"
    /\ link' = [link EXCEPT ![s] = "down"]
    /\ handler' = [handler EXCEPT ![s] = "ended"]
    /\ UNCHANGED <<hub, broadcast, inbox>>

\* The client stops reading, and reads again.
Stall(s) ==
    /\ link[s] = "up"
    /\ link' = [link EXCEPT ![s] = "stalled"]
    /\ UNCHANGED <<handler, hub, broadcast, inbox>>

Resume(s) ==
    /\ link[s] = "stalled"
    /\ link' = [link EXCEPT ![s] = "up"]
    /\ UNCHANGED <<handler, hub, broadcast, inbox>>

\* The client leaves, or the server's keep-alive gives it up.
Drop(s) ==
    /\ link[s] \in {"up", "stalled"}
    /\ link' = [link EXCEPT ![s] = "down"]
    /\ UNCHANGED <<handler, hub, broadcast, inbox>>

-----------------------------------------------------------------------------
(* websocket_endpoint *)

\* accept() returned: NotificationHub.connect adds the socket.
Register(s) ==
    /\ handler[s] = "accepting"
    /\ handler' = [handler EXCEPT ![s] = "listening"]
    /\ hub' = hub \cup {s}
    /\ UNCHANGED <<link, broadcast, inbox>>

\* accept() raised: the client is gone.
AcceptFails(s) ==
    /\ handler[s] = "accepting"
    /\ link[s] = "down"
    /\ handler' = [handler EXCEPT ![s] = "ended"]
    /\ UNCHANGED <<link, hub, broadcast, inbox>>

\* receive_text() raises WebSocketDisconnect: NotificationHub.disconnect.
Disconnect(s) ==
    /\ handler[s] = "listening"
    /\ link[s] = "down"
    /\ handler' = [handler EXCEPT ![s] = "ended"]
    /\ hub' = hub \ {s}
    /\ UNCHANGED <<link, broadcast, inbox>>

\* It raises anything else (a frame that is not text): the endpoint ends, the
\* server closes the connection, and the socket stays in the hub.
Crash(s) ==
    /\ handler[s] = "listening"
    /\ link[s] = "up"
    /\ handler' = [handler EXCEPT ![s] = "ended"]
    /\ link' = [link EXCEPT ![s] = "down"]
    /\ UNCHANGED <<hub, broadcast, inbox>>

-----------------------------------------------------------------------------
(* NotificationHub.broadcast *)

\* Mutant: the request does not wait for its broadcast.
FireAndForget(b) == phase[b] # "idle"

\* The request that broadcasts is answered once broadcast has returned.
Answered(b) == phase[b] = "done"

Begin(b) ==
    /\ phase[b] = "idle"
    /\ phase' = [phase EXCEPT ![b] = "sending"]
    /\ snapshot' = [snapshot EXCEPT ![b] = hub]
    /\ \E order \in SetToSeqs(hub) : queue' = [queue EXCEPT ![b] = order]
    /\ preceding' = [preceding EXCEPT ![b] = {c \in Broadcasts : Answered(c)}]
    /\ UNCHANGED <<endpoint, hub, stale, inbox>>

Sending(b, s) ==
    /\ phase[b] = "sending"
    /\ queue[b] # <<>>
    /\ Head(queue[b]) = s

Delivered(b, s) ==
    /\ Sending(b, s)
    /\ link[s] = "up"
    /\ inbox' = [inbox EXCEPT ![s] = Append(@, b)]
    /\ queue' = [queue EXCEPT ![b] = Tail(@)]
    /\ UNCHANGED <<endpoint, hub, phase, snapshot, stale, preceding>>

\* The client is gone but the endpoint does not know yet: the send returns.
Lost(b, s) ==
    /\ Sending(b, s)
    /\ link[s] = "down"
    /\ handler[s] # "ended"
    /\ queue' = [queue EXCEPT ![b] = Tail(@)]
    /\ UNCHANGED <<endpoint, hub, phase, snapshot, stale, inbox, preceding>>

\* Mutants: the first failure ends the loop; the failed send is tried again.
StopAtFailure(rest) == <<>>
TryAgain(rest) == rest

\* The loop goes on after a send that raised.
AfterFailure(rest) == Tail(rest)

\* Mutant: the exception is only swallowed.
Swallowed(failed, s) == failed

Noted(failed, s) == failed \cup {s}

\* send_json raises.
SendFails(b, s) ==
    /\ Sending(b, s)
    /\ link[s] = "down"
    /\ queue' = [queue EXCEPT ![b] = AfterFailure(@)]
    /\ stale' = [stale EXCEPT ![b] = Noted(@, s)]
    /\ UNCHANGED <<endpoint, hub, phase, snapshot, inbox, preceding>>

\* Mutant: the broadcast returns while a send is in flight.
SentAllButOne(b) == Len(queue[b]) <= 1

SentAll(b) == queue[b] = <<>>

\* The stale sockets are discarded and the broadcast returns.
Finish(b) ==
    /\ phase[b] = "sending"
    /\ SentAll(b)
    /\ phase' = [phase EXCEPT ![b] = "done"]
    /\ hub' = hub \ stale[b]
    /\ UNCHANGED <<endpoint, snapshot, queue, stale, inbox, preceding>>

-----------------------------------------------------------------------------

Send(b, s) == Delivered(b, s) \/ Lost(b, s) \/ SendFails(b, s)

Client(s) == Connect(s) \/ Refuse(s) \/ Stall(s) \/ Resume(s) \/ Drop(s)

Endpoint(s) == Register(s) \/ AcceptFails(s) \/ Disconnect(s) \/ Crash(s)

Next ==
    \/ \E s \in Sockets : Client(s) \/ Endpoint(s)
    \/ \E b \in Broadcasts : Begin(b) \/ Finish(b)
    \/ \E b \in Broadcasts, s \in Sockets : Send(b, s)

Spec == Init /\ [][Next]_vars

\* The event loop runs what can run.  A send to a client that keeps pausing
\* completes between the pauses (SF), and one that pauses for good is given up
\* by the server's keep-alive (WF of Drop while it is stalled).
FairSpec ==
    /\ Spec
    /\ \A b \in Broadcasts :
         /\ WF_vars(Finish(b))
         /\ \A s \in Sockets : SF_vars(Send(b, s))
    /\ \A s \in Sockets : WF_vars(link[s] = "stalled" /\ Drop(s))

-----------------------------------------------------------------------------
(* Properties *)

\* A broadcast that returned reached every client that was registered when it
\* began and is still connected and none that was not, whatever connected, left
\* or failed meanwhile (notifications.py:23-31).
DeliveredToAll ==
    \A b \in Broadcasts, s \in Sockets :
        phase[b] = "done" =>
            /\ s \in snapshot[b] /\ link[s] # "down" => Contains(inbox[s], b)
            /\ Contains(inbox[s], b) => s \in snapshot[b]

\* Two broadcasts of which one was answered before the other began reach every
\* client in that order (routes.py:246).
AnsweredComesFirst ==
    \A s \in Sockets : \A i, j \in DOMAIN inbox[s] :
        inbox[s][i] \in preceding[inbox[s][j]] => i < j

\* A socket whose endpoint has ended and that a finished broadcast tried in vain
\* is in the hub no more, even if the endpoint never got to remove it
\* (notifications.py:33-36).
GhostsAreForgotten ==
    \A b \in Broadcasts : \A s \in snapshot[b] :
        phase[b] = "done" /\ handler[s] = "ended" /\ ~Contains(inbox[s], b) => s \notin hub

\* A broadcast ends, though it waits for one client after another: the request
\* that awaits it holds a database transaction open (transactions.py:103).
BroadcastsEnd ==
    \A b \in Broadcasts : phase[b] = "sending" ~> phase[b] = "done"
=============================================================================
