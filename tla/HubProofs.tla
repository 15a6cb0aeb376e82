----------------------------- MODULE HubProofs -----------------------------
(***************************************************************************)
(* Safety of the notification hub for every number of dashboards and        *)
(* broadcasts.  IInv is the inductive invariant: it follows each broadcast  *)
(* and each socket in its snapshot from the queue to where the socket ends. *)
(***************************************************************************)
EXTENDS NotificationHub, SequenceTheorems, FiniteSetTheorems, TLAPS

\* A client that has connected has an endpoint, and only an endpoint that has
\* accepted puts its socket in the hub.
SocketOK(s) ==
    /\ link[s] # "none" => handler[s] # "none"
    /\ s \in hub => handler[s] \in {"listening", "ended"}

\* A broadcast sends only while it runs, and has no business before.
BroadcastOK(b) ==
    /\ phase[b] # "sending" => queue[b] = <<>>
    /\ phase[b] = "idle" => snapshot[b] = {}
    /\ \A c \in preceding[b] : phase[c] = "done" /\ phase[b] # "idle"

\* A socket of the snapshot is waited for, reached or gone; and if its endpoint
\* has ended without being reached, it is stale or no longer in the hub.
PairOK(b, s) ==
    /\ s \in snapshot[b] =>
         /\ handler[s] \in {"listening", "ended"}
         /\ Contains(queue[b], s) \/ Contains(inbox[s], b) \/ link[s] = "down"
    /\ Contains(inbox[s], b) => s \in snapshot[b] /\ ~Contains(queue[b], s)
    /\ s \in stale[b] => link[s] = "down"
    /\ s \in snapshot[b] /\ handler[s] = "ended" /\ s \in hub
       /\ ~Contains(queue[b], s) /\ ~Contains(inbox[s], b)
         => s \in stale[b] /\ phase[b] # "done"

IInv ==
    /\ TypeOK
    /\ \A s \in Sockets : SocketOK(s)
    /\ \A b \in Broadcasts : BroadcastOK(b)
    /\ \A b \in Broadcasts, s \in Sockets : PairOK(b, s)
    /\ AnsweredComesFirst

-----------------------------------------------------------------------------
(* Sequences without repetition *)

\* What a sequence contains is what is in its set.
LEMMA SetOfSeq ==
    ASSUME NEW S, NEW q \in Seq(S)
    PROVE  \A e : e \in ToSet(q) <=> Contains(q, e)
  BY LenProperties DEF ToSet, Contains

\* The rest of a queue contains all but its head.
LEMMA TailContains ==
    ASSUME NEW S, NEW q \in Seq(S), q # <<>>, IsInjective(q)
    PROVE  /\ Tail(q) \in Seq(S)
           /\ IsInjective(Tail(q))
           /\ Contains(q, Head(q))
           /\ \A e : Contains(Tail(q), e) <=> Contains(q, e) /\ e # Head(q)
  <1>1. /\ Len(q) \in Nat /\ DOMAIN q = 1 .. Len(q) /\ Len(q) # 0
        /\ Tail(q) \in Seq(S) /\ Len(Tail(q)) = Len(q) - 1
        /\ DOMAIN Tail(q) = 1 .. Len(Tail(q))
        /\ \A i \in 1 .. Len(Tail(q)) : Tail(q)[i] = q[i + 1]
        /\ Head(q) = q[1]
    BY LenProperties, HeadTailProperties, EmptySeq
  <1>2. IsInjective(Tail(q))
    BY <1>1 DEF IsInjective
  <1>3. Contains(q, Head(q))
    BY <1>1 DEF Contains
  <1>4. ASSUME NEW e, Contains(Tail(q), e) PROVE Contains(q, e) /\ e # Head(q)
    BY <1>1, <1>4 DEF Contains, IsInjective
  <1>5. ASSUME NEW e, Contains(q, e), e # Head(q) PROVE Contains(Tail(q), e)
    <2>1. PICK i \in 1 .. Len(q) : q[i] = e
      BY <1>5 DEF Contains
    <2>2. i - 1 \in 1 .. Len(Tail(q)) /\ Tail(q)[i - 1] = e
      BY <1>1, <1>5, <2>1
    <2> QED BY <2>2 DEF Contains
  <1> QED BY <1>1, <1>2, <1>3, <1>4, <1>5

\* An inbox with one more event contains that one more.
LEMMA AppendContains ==
    ASSUME NEW S, NEW q \in Seq(S), NEW x \in S, IsInjective(q), ~Contains(q, x)
    PROVE  /\ Append(q, x) \in Seq(S)
           /\ IsInjective(Append(q, x))
           /\ \A e : Contains(Append(q, x), e) <=> Contains(q, e) \/ e = x
  <1>1. /\ Len(q) \in Nat /\ DOMAIN q = 1 .. Len(q)
        /\ Append(q, x) \in Seq(S) /\ Len(Append(q, x)) = Len(q) + 1
        /\ DOMAIN Append(q, x) = 1 .. Len(q) + 1
        /\ \A i \in 1 .. Len(q) : Append(q, x)[i] = q[i]
        /\ Append(q, x)[Len(q) + 1] = x
    BY LenProperties, AppendProperties
  <1>2. IsInjective(Append(q, x))
    BY <1>1 DEF IsInjective, Contains
  <1>3. ASSUME NEW e, Contains(Append(q, x), e) PROVE Contains(q, e) \/ e = x
    BY <1>1, <1>3 DEF Contains
  <1>4. ASSUME NEW e, Contains(q, e) \/ e = x PROVE Contains(Append(q, x), e)
    BY <1>1, <1>4 DEF Contains
  <1> QED BY <1>1, <1>2, <1>3, <1>4

\* Any order of a finite set contains all of it, once.
LEMMA OrderContains ==
    ASSUME NEW S, IsFiniteSet(S), NEW q \in SetToSeqs(S)
    PROVE  /\ q \in Seq(S)
           /\ IsInjective(q)
           /\ \A e : Contains(q, e) <=> e \in S
  <1> DEFINE n == Cardinality(S)
  <1>1. n \in Nat
    BY FS_CardinalityType
  <1>2. q \in [1 .. n -> S] /\ \A i, j \in 1 .. n : i # j => q[i] # q[j]
    BY DEF SetToSeqs
  <1>3. q \in Seq(S) /\ Len(q) = n
    BY <1>1, <1>2
  <1>4. IsInjective(q)
    BY <1>2 DEF IsInjective
  <1>5. q \in Surjection(1 .. n, S)
    <2>1. Cardinality(1 .. n) = n
      BY <1>1, FS_Interval
    <2>2. q \in Injection(1 .. n, S)
      BY <1>2, <1>4 DEF Injection
    <2> QED BY <2>1, <2>2, FS_Injection
  <1> QED BY <1>2, <1>3, <1>4, <1>5 DEF Surjection, Contains

-----------------------------------------------------------------------------
(* Connections and endpoints *)

\* Before the first connection there is nothing to reach.
LEMMA InitInv == Init => IInv
  BY EmptySeq DEF Init, IInv, TypeOK, SocketOK, BroadcastOK, PairOK, AnsweredComesFirst, ToSet,
                  IsInjective, Contains

\* What a step of a client or of its endpoint leaves alone.
LEMMA EndpointStep ==
    ASSUME IInv, UNCHANGED <<broadcast, inbox>>, NEW s \in Sockets,
           link' \in [Sockets -> {"none", "up", "stalled", "down"}],
           handler' \in [Sockets -> {"none", "accepting", "listening", "ended"}],
           hub' \subseteq Sockets,
           \A r \in Sockets \ {s} :
             link'[r] = link[r] /\ handler'[r] = handler[r] /\ (r \in hub' <=> r \in hub),
           SocketOK(s)', \A b \in Broadcasts : PairOK(b, s)'
    PROVE  IInv'
  <1> USE DEF IInv, broadcast
  <1>1. TypeOK'
    BY DEF TypeOK
  <1>2. ASSUME NEW r \in Sockets PROVE SocketOK(r)'
    <2>1. CASE r = s
      BY <2>1
    <2>2. CASE r # s
      BY <2>2 DEF SocketOK
    <2> QED BY <2>1, <2>2
  <1>3. ASSUME NEW b \in Broadcasts, NEW r \in Sockets PROVE PairOK(b, r)'
    <2>1. CASE r = s
      BY <2>1
    <2>2. CASE r # s
      BY <2>2 DEF PairOK
    <2> QED BY <2>1, <2>2
  <1>4. ASSUME NEW b \in Broadcasts PROVE BroadcastOK(b)'
    BY DEF BroadcastOK
  <1>5. AnsweredComesFirst'
    BY DEF AnsweredComesFirst
  <1> QED BY <1>1, <1>2, <1>3, <1>4, <1>5

\* Clients come, pause and leave.
LEMMA ClientInv ==
    ASSUME IInv, NEW s \in Sockets, Client(s)
    PROVE  IInv'
  <1> USE DEF Client, Connect, Refuse, Stall, Resume, Drop
  <1>1. UNCHANGED <<broadcast, inbox, hub>>
    OBVIOUS
  <1>0. /\ link \in [Sockets -> {"none", "up", "stalled", "down"}]
        /\ handler \in [Sockets -> {"none", "accepting", "listening", "ended"}]
    BY DEF IInv, TypeOK
  <1>2. /\ link' \in [Sockets -> {"none", "up", "stalled", "down"}]
        /\ handler' \in [Sockets -> {"none", "accepting", "listening", "ended"}]
        /\ \A r \in Sockets \ {s} : link'[r] = link[r] /\ handler'[r] = handler[r]
    BY <1>0
  <1>3. SocketOK(s)'
    BY DEF IInv, TypeOK, SocketOK
  <1>4. ASSUME NEW b \in Broadcasts PROVE PairOK(b, s)'
    BY <1>1 DEF IInv, TypeOK, SocketOK, PairOK, broadcast
  <1>5. hub \subseteq Sockets
    BY DEF IInv, TypeOK
  <1> QED BY <1>1, <1>2, <1>3, <1>4, <1>5, EndpointStep

\* Endpoints register, end, and crash.
LEMMA EndpointInv ==
    ASSUME IInv, NEW s \in Sockets, Endpoint(s)
    PROVE  IInv'
  <1> USE DEF Endpoint, Register, AcceptFails, Disconnect, Crash
  <1>1. UNCHANGED <<broadcast, inbox>>
    OBVIOUS
  <1>0. /\ link \in [Sockets -> {"none", "up", "stalled", "down"}]
        /\ handler \in [Sockets -> {"none", "accepting", "listening", "ended"}]
        /\ hub \subseteq Sockets
    BY DEF IInv, TypeOK
  <1>2. /\ link' \in [Sockets -> {"none", "up", "stalled", "down"}]
        /\ handler' \in [Sockets -> {"none", "accepting", "listening", "ended"}]
        /\ hub' \subseteq Sockets
        /\ \A r \in Sockets \ {s} :
             link'[r] = link[r] /\ handler'[r] = handler[r] /\ (r \in hub' <=> r \in hub)
    BY <1>0
  <1>3. SocketOK(s)'
    BY DEF IInv, TypeOK, SocketOK
  <1>4. ASSUME NEW b \in Broadcasts PROVE PairOK(b, s)'
    BY <1>1 DEF IInv, TypeOK, SocketOK, PairOK, broadcast
  <1> QED BY <1>1, <1>2, <1>3, <1>4, EndpointStep

-----------------------------------------------------------------------------
(* Broadcasts *)

\* A broadcast begins with all of the hub in its queue.
LEMMA BeginInv ==
    ASSUME IInv, NEW b \in Broadcasts, Begin(b)
    PROVE  IInv'
  <1> USE DEF IInv
  <1>1. PICK order \in SetToSeqs(hub) : queue' = [queue EXCEPT ![b] = order]
    BY DEF Begin
  <1>2. /\ phase[b] = "idle" /\ phase' = [phase EXCEPT ![b] = "sending"]
        /\ snapshot' = [snapshot EXCEPT ![b] = hub]
        /\ preceding' = [preceding EXCEPT ![b] = {c \in Broadcasts : phase[c] = "done"}]
        /\ UNCHANGED <<link, handler, hub, stale, inbox>>
    BY DEF Begin, Answered, endpoint
  <1>3. /\ order \in Seq(Sockets) /\ IsInjective(order)
        /\ \A e : Contains(order, e) <=> e \in hub
        /\ ToSet(order) = hub
    <2>1. hub \in SUBSET Sockets
      BY DEF TypeOK
    <2>2. IsFiniteSet(hub)
      BY <2>1, HubAssumption, FS_Subset
    <2>3. /\ order \in Seq(hub) /\ IsInjective(order)
          /\ \A e : Contains(order, e) <=> e \in hub
      BY <2>2, OrderContains
    <2> QED BY <2>1, <2>3, SetOfSeq, SeqMonotonic
  <1>4. /\ snapshot[b] = {} /\ stale[b] = {}
        /\ \A s \in Sockets : ~Contains(inbox[s], b)
    BY <1>2 DEF TypeOK, BroadcastOK, PairOK
  <1>5. TypeOK'
    BY <1>1, <1>2, <1>3, <1>4 DEF TypeOK
  <1>6. ASSUME NEW s \in Sockets PROVE SocketOK(s)'
    BY <1>2 DEF SocketOK
  <1>7. ASSUME NEW c \in Broadcasts PROVE BroadcastOK(c)'
    BY <1>1, <1>2 DEF TypeOK, BroadcastOK
  <1>8. ASSUME NEW c \in Broadcasts, NEW s \in Sockets PROVE PairOK(c, s)'
    <2>1. CASE c = b
      BY <1>1, <1>2, <1>3, <1>4, <2>1 DEF TypeOK, PairOK, SocketOK
    <2>2. CASE c # b
      BY <1>1, <1>2, <2>2 DEF TypeOK, PairOK
    <2> QED BY <2>1, <2>2
  <1>9. AnsweredComesFirst'
    <2> SUFFICES ASSUME NEW s \in Sockets, NEW i \in DOMAIN inbox[s], NEW j \in DOMAIN inbox[s],
                        inbox[s][i] \in preceding'[inbox[s][j]]
                 PROVE  i < j
      BY <1>2 DEF AnsweredComesFirst
    <2>1. inbox[s][j] # b /\ inbox[s][j] \in Broadcasts
      BY <1>4, LenProperties, ElementOfSeq DEF TypeOK, Contains
    <2>2. preceding'[inbox[s][j]] = preceding[inbox[s][j]]
      BY <1>2, <2>1 DEF TypeOK
    <2> QED BY <2>2 DEF AnsweredComesFirst
  <1> QED BY <1>5, <1>6, <1>7, <1>8, <1>9

\* A queue loses its head to a send that is over, whatever became of it.
LEMMA SendOver ==
    ASSUME IInv, NEW b \in Broadcasts, NEW s \in Sockets, Sending(b, s),
           queue' = [queue EXCEPT ![b] = Tail(@)]
    PROVE  /\ queue[b] \in Seq(Sockets) /\ IsInjective(queue[b])
           /\ s \in snapshot[b] /\ s \notin stale[b] /\ Contains(queue[b], s)
           /\ ~Contains(inbox[s], b)
           /\ queue' \in [Broadcasts -> Seq(Sockets)]
           /\ IsInjective(queue'[b])
           /\ \A c \in Broadcasts, r \in Sockets :
                Contains(queue'[c], r) <=> Contains(queue[c], r) /\ ~(c = b /\ r = s)
           /\ \A c \in Broadcasts \ {b} : queue'[c] = queue[c]
           /\ ToSet(queue'[b]) = ToSet(queue[b]) \ {s}
  <1>1. queue[b] \in Seq(Sockets) /\ IsInjective(queue[b]) /\ queue[b] # <<>>
        /\ Head(queue[b]) = s
    BY DEF IInv, TypeOK, Sending
  <1>2. /\ Tail(queue[b]) \in Seq(Sockets) /\ IsInjective(Tail(queue[b]))
        /\ Contains(queue[b], s)
        /\ \A e : Contains(Tail(queue[b]), e) <=> Contains(queue[b], e) /\ e # s
    BY <1>1, TailContains
  <1>3. queue'[b] = Tail(queue[b]) /\ \A c \in Broadcasts \ {b} : queue'[c] = queue[c]
    BY DEF IInv, TypeOK
  <1>4. queue' \in [Broadcasts -> Seq(Sockets)]
    BY <1>2 DEF IInv, TypeOK
  <1>5. /\ \A e : e \in ToSet(queue[b]) <=> Contains(queue[b], e)
        /\ \A e : e \in ToSet(Tail(queue[b])) <=> Contains(Tail(queue[b]), e)
    BY <1>1, <1>2, SetOfSeq
  <1>6. s \in snapshot[b] /\ s \notin stale[b]
    BY <1>2, <1>5 DEF IInv, TypeOK
  <1>7. ~Contains(inbox[s], b)
    BY <1>2 DEF IInv, PairOK
  <1>8. ToSet(queue'[b]) = ToSet(queue[b]) \ {s}
    BY <1>2, <1>3, <1>5
  <1> QED BY <1>1, <1>2, <1>3, <1>4, <1>6, <1>7, <1>8

\* A delivered event is the last of the inbox.
LEMMA DeliveredInv ==
    ASSUME IInv, NEW b \in Broadcasts, NEW s \in Sockets, Delivered(b, s)
    PROVE  IInv'
  <1> USE DEF IInv
  <1>1. /\ Sending(b, s) /\ phase[b] = "sending" /\ link[s] = "up"
        /\ queue' = [queue EXCEPT ![b] = Tail(@)]
        /\ inbox' = [inbox EXCEPT ![s] = Append(@, b)]
        /\ UNCHANGED <<link, handler, hub, phase, snapshot, stale, preceding>>
    BY DEF Delivered, Sending, endpoint
  <1>2. inbox[s] \in Seq(Broadcasts) /\ IsInjective(inbox[s]) /\ ~Contains(inbox[s], b)
    BY <1>1, SendOver DEF TypeOK
  <1>3. /\ Append(inbox[s], b) \in Seq(Broadcasts)
        /\ IsInjective(Append(inbox[s], b))
        /\ \A e : Contains(Append(inbox[s], b), e) <=> Contains(inbox[s], e) \/ e = b
    BY <1>2, AppendContains
  <1>4. inbox'[s] = Append(inbox[s], b) /\ \A r \in Sockets \ {s} : inbox'[r] = inbox[r]
    BY <1>1 DEF TypeOK
  <1>5. \A c \in Broadcasts, r \in Sockets :
          Contains(inbox'[r], c) <=> Contains(inbox[r], c) \/ (c = b /\ r = s)
    BY <1>3, <1>4
  <1>6. TypeOK'
    <2>1. /\ queue' \in [Broadcasts -> Seq(Sockets)]
          /\ IsInjective(queue'[b]) /\ ToSet(queue'[b]) = ToSet(queue[b]) \ {s}
          /\ \A c \in Broadcasts \ {b} : queue'[c] = queue[c]
      BY <1>1, SendOver
    <2>2. inbox' \in [Sockets -> Seq(Broadcasts)]
      BY <1>1, <1>3 DEF TypeOK
    <2>3. ASSUME NEW c \in Broadcasts
          PROVE  /\ IsInjective(queue'[c])
                 /\ ToSet(queue'[c]) \subseteq snapshot[c] \ stale[c]
                 /\ stale[c] \subseteq snapshot[c]
                 /\ phase[c] = "done" => queue'[c] = <<>>
      <3>1. CASE c = b
        BY <1>1, <2>1, <3>1 DEF TypeOK
      <3>2. CASE c # b
        BY <2>1, <3>2 DEF TypeOK
      <3> QED BY <3>1, <3>2
    <2>4. \A r \in Sockets : IsInjective(inbox'[r])
      BY <1>3, <1>4 DEF TypeOK
    <2> QED BY <1>1, <2>1, <2>2, <2>3, <2>4 DEF TypeOK
  <1>7. ASSUME NEW r \in Sockets PROVE SocketOK(r)'
    BY <1>1 DEF SocketOK
  <1>8. ASSUME NEW c \in Broadcasts PROVE BroadcastOK(c)'
    BY <1>1, SendOver DEF BroadcastOK
  <1>9. ASSUME NEW c \in Broadcasts, NEW r \in Sockets PROVE PairOK(c, r)'
    <2>1. /\ Contains(queue'[c], r) <=> Contains(queue[c], r) /\ ~(c = b /\ r = s)
          /\ s \in snapshot[b]
      BY <1>1, SendOver
    <2>2. Contains(inbox'[r], c) <=> Contains(inbox[r], c) \/ (c = b /\ r = s)
      BY <1>5
    <2> QED BY <1>1, <2>1, <2>2 DEF PairOK
  <1>10. AnsweredComesFirst'
    <2> SUFFICES ASSUME NEW r \in Sockets, NEW i \in DOMAIN inbox'[r], NEW j \in DOMAIN inbox'[r],
                        inbox'[r][i] \in preceding[inbox'[r][j]]
                 PROVE  i < j
      BY <1>1 DEF AnsweredComesFirst
    <2>1. CASE r # s
      BY <1>4, <2>1 DEF AnsweredComesFirst
    <2>2. CASE r = s
      <3>1. /\ Len(inbox[s]) \in Nat /\ DOMAIN inbox[s] = 1 .. Len(inbox[s])
            /\ DOMAIN inbox'[s] = 1 .. Len(inbox[s]) + 1
            /\ \A k \in 1 .. Len(inbox[s]) : inbox'[s][k] = inbox[s][k]
            /\ inbox'[s][Len(inbox[s]) + 1] = b
        BY <1>2, <1>3, <1>4, LenProperties, AppendProperties
      <3>2. \A k \in DOMAIN inbox'[s] : inbox'[s][k] \in Broadcasts
        BY <1>3, <1>4, <3>1, LenProperties, ElementOfSeq
      <3>3. \A c \in Broadcasts : b \notin preceding[c]
        BY <1>1 DEF BroadcastOK
      <3>4. i # Len(inbox[s]) + 1
        BY <2>2, <3>1, <3>2, <3>3
      <3>5. CASE j = Len(inbox[s]) + 1
        BY <2>2, <3>1, <3>4, <3>5
      <3>6. CASE j # Len(inbox[s]) + 1
        BY <2>2, <3>1, <3>4, <3>6 DEF AnsweredComesFirst
      <3> QED BY <3>5, <3>6
    <2> QED BY <2>1, <2>2
  <1> QED BY <1>6, <1>7, <1>8, <1>9, <1>10

\* A send to a client that is gone returns, or raises and is noted.
LEMMA UndeliveredInv ==
    ASSUME IInv, NEW b \in Broadcasts, NEW s \in Sockets, Lost(b, s) \/ SendFails(b, s)
    PROVE  IInv'
  <1> USE DEF IInv
  <1>0. stale \in [Broadcasts -> SUBSET Sockets]
    BY DEF TypeOK
  <1>1. /\ Sending(b, s) /\ phase[b] = "sending" /\ link[s] = "down"
        /\ queue' = [queue EXCEPT ![b] = Tail(@)]
        /\ UNCHANGED <<link, handler, hub, phase, snapshot, inbox, preceding>>
    BY DEF Lost, SendFails, Sending, endpoint, AfterFailure
  <1>2. \/ stale' = stale /\ handler[s] # "ended"
        \/ stale' = [stale EXCEPT ![b] = @ \cup {s}]
    BY DEF Lost, SendFails, Noted
  <1>3. TypeOK'
    <2>1. /\ queue' \in [Broadcasts -> Seq(Sockets)]
          /\ IsInjective(queue'[b]) /\ ToSet(queue'[b]) = ToSet(queue[b]) \ {s}
          /\ \A c \in Broadcasts \ {b} : queue'[c] = queue[c]
          /\ s \in snapshot[b]
      BY <1>1, SendOver
    <2>2. /\ stale' \in [Broadcasts -> SUBSET Sockets]
          /\ stale'[b] \subseteq stale[b] \cup {s}
          /\ \A c \in Broadcasts \ {b} : stale'[c] = stale[c]
      <3> HIDE DEF IInv
      <3>1. CASE stale' = stale
        BY <1>0, <3>1
      <3>2. CASE stale' = [stale EXCEPT ![b] = @ \cup {s}]
        BY <1>0, <3>2
      <3> QED BY <1>2, <3>1, <3>2
    <2>3. ASSUME NEW c \in Broadcasts
          PROVE  /\ IsInjective(queue'[c])
                 /\ ToSet(queue'[c]) \subseteq snapshot[c] \ stale'[c]
                 /\ stale'[c] \subseteq snapshot[c]
                 /\ phase[c] = "done" => queue'[c] = <<>>
      <3>1. CASE c = b
        BY <1>1, <2>1, <2>2, <3>1 DEF TypeOK
      <3>2. CASE c # b
        BY <2>1, <2>2, <3>2 DEF TypeOK
      <3> QED BY <3>1, <3>2
    <2> QED BY <1>1, <2>1, <2>2, <2>3 DEF TypeOK
  <1>4. ASSUME NEW r \in Sockets PROVE SocketOK(r)'
    BY <1>1 DEF SocketOK
  <1>5. ASSUME NEW c \in Broadcasts PROVE BroadcastOK(c)'
    BY <1>1, SendOver DEF BroadcastOK
  <1>6. ASSUME NEW c \in Broadcasts, NEW r \in Sockets PROVE PairOK(c, r)'
    <2>1. /\ Contains(queue'[c], r) <=> Contains(queue[c], r) /\ ~(c = b /\ r = s)
          /\ s \in snapshot[b]
      BY <1>1, SendOver
    <2>2. /\ r \in stale[c] => r \in stale'[c]
          /\ r \in stale'[c] => r \in stale[c] \/ (c = b /\ r = s)
          /\ s \in stale'[b] \/ handler[s] # "ended"
      <3> HIDE DEF IInv
      <3> QED BY <1>0, <1>2
    <2> QED BY <1>1, <2>1, <2>2 DEF PairOK
  <1>7. AnsweredComesFirst'
    BY <1>1 DEF AnsweredComesFirst
  <1> QED BY <1>3, <1>4, <1>5, <1>6, <1>7

\* A broadcast that is over has removed its stale sockets from the hub.
LEMMA FinishInv ==
    ASSUME IInv, NEW b \in Broadcasts, Finish(b)
    PROVE  IInv'
  <1> USE DEF IInv
  <1>1. /\ phase[b] = "sending" /\ queue[b] = <<>>
        /\ phase' = [phase EXCEPT ![b] = "done"] /\ hub' = hub \ stale[b]
        /\ UNCHANGED <<link, handler, snapshot, queue, stale, inbox, preceding>>
    BY DEF Finish, SentAll, endpoint
  <1>2. TypeOK'
    BY <1>1 DEF TypeOK
  <1>3. ASSUME NEW s \in Sockets PROVE SocketOK(s)'
    BY <1>1 DEF SocketOK
  <1>4. ASSUME NEW c \in Broadcasts PROVE BroadcastOK(c)'
    BY <1>1 DEF TypeOK, BroadcastOK
  <1>5. ASSUME NEW c \in Broadcasts, NEW s \in Sockets PROVE PairOK(c, s)'
    BY <1>1 DEF TypeOK, PairOK
  <1>6. AnsweredComesFirst'
    BY <1>1 DEF AnsweredComesFirst
  <1> QED BY <1>2, <1>3, <1>4, <1>5, <1>6

-----------------------------------------------------------------------------
(* Theorems *)

\* Every step keeps the invariant.
LEMMA NextInv == IInv /\ [Next]_vars => IInv'
  <1> SUFFICES ASSUME IInv, [Next]_vars PROVE IInv'
    OBVIOUS
  <1>1. CASE UNCHANGED vars
    BY <1>1 DEF vars, endpoint, broadcast, IInv, TypeOK, SocketOK, BroadcastOK, PairOK,
                AnsweredComesFirst
  <1>2. CASE Next
    BY <1>2, ClientInv, EndpointInv, BeginInv, FinishInv, DeliveredInv, UndeliveredInv
       DEF Next, Send
  <1> QED BY <1>1, <1>2

\* It holds throughout.
LEMMA Invariance == Spec => []IInv
  BY InitInv, NextInv, PTL DEF Spec

\* Every variable of the hub keeps its type; no event is delivered twice.
THEOREM TypeCorrect == Spec => []TypeOK
  <1>1. IInv => TypeOK
    BY DEF IInv
  <1> QED BY <1>1, Invariance, PTL

\* A broadcast that is over has reached every client it should and no other
\* (notifications.py:23-31), for any number of clients and overlapping broadcasts.
THEOREM EveryoneIsReached == Spec => []DeliveredToAll
  <1>1. IInv => DeliveredToAll
    BY DEF IInv, DeliveredToAll, BroadcastOK, PairOK, Contains
  <1> QED BY <1>1, Invariance, PTL

\* Broadcasts that follow one another reach every client in that order.
THEOREM OrderIsKept == Spec => []AnsweredComesFirst
  <1>1. IInv => AnsweredComesFirst
    BY DEF IInv
  <1> QED BY <1>1, Invariance, PTL

\* A socket whose endpoint has ended is out of the hub once a broadcast failed on it
\* (notifications.py:33-36).
THEOREM GhostsAreRemoved == Spec => []GhostsAreForgotten
  <1>1. ASSUME IInv PROVE GhostsAreForgotten
    <2> SUFFICES ASSUME NEW b \in Broadcasts, NEW s \in snapshot[b], phase[b] = "done",
                        handler[s] = "ended", ~Contains(inbox[s], b)
                 PROVE  s \notin hub
      BY DEF GhostsAreForgotten
    <2>1. s \in Sockets /\ queue[b] = <<>>
      BY <1>1 DEF IInv, TypeOK, BroadcastOK
    <2>2. ~Contains(queue[b], s)
      BY <2>1, EmptySeq DEF Contains
    <2> QED BY <1>1, <2>1, <2>2 DEF IInv, PairOK
  <1> QED BY <1>1, Invariance, PTL
=============================================================================
