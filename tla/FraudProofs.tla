----------------------------- MODULE FraudProofs -----------------------------
(***************************************************************************)
(* What the antifraud windows let through, and what of it is recorded, for  *)
(* every number of accounts, of IPs, of concurrent submissions and of       *)
(* requests, and every window.                                              *)
(***************************************************************************)
EXTENDS Screening, SumLemmas

Width(k) == IF k \in Accounts THEN AccountWindow ELSE IpWindow

Limit(k) == IF k \in Accounts THEN AccountMax ELSE IpMax

\* The most submissions that have run beside another.
Slack == IF peak = 0 THEN 0 ELSE peak - 1

\* The first stamp of the window of k that ends at t.
Opens(k, t) == t - Width(k) + 1

-----------------------------------------------------------------------------
(* Submissions on their way *)

\* The submission of a worker is one of those attempts[k] counts.
Concerns(w, k) == k = job[w].ip \/ (k = job[w].account /\ job[w].rule_amount)

\* It has still to be recorded in the window of k.
Due(w, k) ==
    \/ pc[w] = "ip" /\ Concerns(w, k)
    \/ pc[w] = "account" /\ k = job[w].account

\* It was recorded there, found no burst, and is not answered.
Cleared(w, k) == pc[w] = "account" /\ k = job[w].ip

Stamped(w, from, to) == from <= job[w].stamp /\ job[w].stamp <= to

DueIn(k, from, to) == {w \in Workers : Due(w, k) /\ Stamped(w, from, to)}

ClearedIn(k, from, to) == {w \in Workers : Cleared(w, k) /\ Stamped(w, from, to)}

FlyingAt(k, t) == {w \in Workers : pc[w] # "idle" /\ Concerns(w, k) /\ job[w].stamp = t}

\* What the window of k has let through, answered or not.
Through(k, from, to) == Within(passed[k], from, to) + Cardinality(ClearedIn(k, from, to))

-----------------------------------------------------------------------------
(* The invariant *)

JobsOK ==
    \A w \in Workers : pc[w] # "idle" =>
        /\ job[w] \in Job
        /\ job[w].stamp <= now /\ now <= job[w].stamp + Patience
        /\ pc[w] = "account" => job[w].rule_amount

\* Nothing is recorded or answered that was not submitted.
Counted ==
    /\ Submissions <= MaxRequests
    /\ \A k \in Keys, t \in Times :
         /\ window[k][t] + Cardinality(DueIn(k, t, t)) <= attempts[k][t]
         /\ passed[k][t] + Cardinality(FlyingAt(k, t)) <= attempts[k][t]
         /\ attempts[k][t] <= Submissions

\* What was let through in the current window is in the sorted set.
Kept(k) ==
    \A from \in (1 - Width(k)) .. MaxTime, to \in Times :
        from > now - Width(k) => Through(k, from, to) <= Within(window[k], from, to)

\* The key outlives the windows of its members.
Dated(k) ==
    \A t \in Times : window[k][t] # 0 => t <= now /\ t + 2 * Width(k) <= expires[k]

\* A window that has not ended: one that was let through saw every one before it,
\* but those that were on their way beside it; what is due still counts.
Fits(k, t) ==
    \A u \in Opens(k, t) .. t : Through(k, u, t) > 0 =>
        Through(k, Opens(k, t), t) + Cardinality(DueIn(k, Opens(k, t), u - 1)) <= Limit(k) + Slack

\* A window that has ended, with all that is due let through.
Settled(k, t) ==
    Through(k, Opens(k, t), t) + Cardinality(DueIn(k, Opens(k, t), t)) <= Limit(k) + 2 * Slack

\* Or one with a submission too many due, of which the first to be recorded will
\* see what was let through: everyone is due, and later than that.
Brink(k, t) ==
    /\ Cardinality(DueIn(k, Opens(k, t), t)) = Slack + 1
    /\ Through(k, Opens(k, t), t) + Cardinality(DueIn(k, Opens(k, t), t)) <= Limit(k) + 2 * Slack + 1
    /\ \A u \in Opens(k, t) .. t : Through(k, u, t) > 0 => DueIn(k, Opens(k, t), u - 1) = {}
    /\ \A to \in Times : to <= t =>
         Through(k, Opens(k, t), to) <= Within(window[k], Opens(k, t), to)

KeyOK(k) ==
    /\ Kept(k)
    /\ Dated(k)
    /\ \A t \in Times : t >= now => Fits(k, t)
    /\ Patience <= Width(k) => \A t \in Times : t < now => Settled(k, t) \/ Brink(k, t)

WInv ==
    /\ TypeOK
    /\ JobsOK
    /\ Counted
    /\ NoFalseAlarm
    /\ Cardinality(InFlight) <= peak
    /\ \A k \in Keys : KeyOK(k)

-----------------------------------------------------------------------------
(* Sums over a span of stamps *)

Span(from, to) == {t \in Times : from <= t /\ t <= to}

\* There are finitely many stamps in a span.
LEMMA SpanFinite == \A from, to : IsFiniteSet(Span(from, to))
  <1>1. IsFiniteSet(Times)
    BY RuleAssumption, FS_Interval DEF Times
  <1>2. \A from, to : Span(from, to) \in SUBSET Times
    BY DEF Span
  <1> QED BY <1>1, <1>2, FS_Subset

\* What a span holds is a number, and one stamp of it no more.
LEMMA WithinNat ==
    ASSUME NEW log \in [Times -> Nat], NEW from, NEW to
    PROVE  /\ Within(log, from, to) \in Nat
           /\ \A t \in Times : from <= t /\ t <= to => log[t] <= Within(log, from, to)
  <1>1. Within(log, from, to) = SumFunctionOnSet(log, Span(from, to))
    BY DEF Within, Span
  <1>2. IsFiniteSet(Span(from, to)) /\ \A t \in Span(from, to) : log[t] \in Nat
    BY SpanFinite DEF Span
  <1>3. SumFunctionOnSet(log, Span(from, to)) \in Nat
    BY <1>2, SumNat
  <1>4. \A t \in Span(from, to) : log[t] <= SumFunctionOnSet(log, Span(from, to))
    BY <1>2, SumMember
  <1> QED BY <1>1, <1>3, <1>4 DEF Span

\* It grows with what is held at each of its stamps.
LEMMA WithinMonotone ==
    ASSUME NEW log \in [Times -> Nat], NEW more \in [Times -> Nat], NEW from, NEW to,
           \A t \in Times : from <= t /\ t <= to => log[t] <= more[t]
    PROVE  Within(log, from, to) <= Within(more, from, to)
  <1>1. \A t \in Span(from, to) : log[t] \in Int /\ more[t] \in Int /\ log[t] <= more[t]
    BY DEF Span
  <1>2. SumFunctionOnSet(log, Span(from, to)) <= SumFunctionOnSet(more, Span(from, to))
    BY <1>1, SpanFinite, SumMonotone
  <1> QED BY <1>2 DEF Within, Span

\* Logs with the same at each of its stamps hold the same.
LEMMA WithinSame ==
    ASSUME NEW log \in [Times -> Nat], NEW other \in [Times -> Nat], NEW from, NEW to,
           \A t \in Times : from <= t /\ t <= to => log[t] = other[t]
    PROVE  Within(log, from, to) = Within(other, from, to)
  <1>1. \A t \in Span(from, to) : log[t] \in Int /\ log[t] = other[t]
    BY DEF Span
  <1>2. SumFunctionOnSet(log, Span(from, to)) = SumFunctionOnSet(other, Span(from, to))
    BY <1>1, SpanFinite, SumSame
  <1> QED BY <1>2 DEF Within, Span

\* A span where nothing is held.
LEMMA WithinNothing ==
    ASSUME NEW log, NEW from, NEW to, \A t \in Times : from <= t /\ t <= to => log[t] = 0
    PROVE  Within(log, from, to) = 0
  <1>1. \A t \in Span(from, to) : log[t] = 0
    BY DEF Span
  <1>2. SumFunctionOnSet(log, Span(from, to)) = 0
    BY <1>1, SpanFinite, SumZero
  <1> QED BY <1>2 DEF Within, Span

\* A span is the two it splits into.
LEMMA WithinSplit ==
    ASSUME NEW log \in [Times -> Nat], NEW from \in Int, NEW mid \in Int, NEW to \in Int,
           from <= mid + 1, mid <= to
    PROVE  Within(log, from, to) = Within(log, from, mid) + Within(log, mid + 1, to)
  <1> DEFINE S == Span(from, mid)
             T == Span(mid + 1, to)
  <1>1. Span(from, to) = S \cup T /\ S \cap T = {}
    BY RuleAssumption DEF Span, Times
  <1>2. \A t \in S \cup T : log[t] \in Int
    BY DEF Span
  <1>3. IsFiniteSet(S) /\ IsFiniteSet(T)
    BY SpanFinite
  <1> HIDE DEF S, T
  <1>4. SumFunctionOnSet(log, S \cup T) = SumFunctionOnSet(log, S) + SumFunctionOnSet(log, T)
    BY <1>1, <1>2, <1>3, SumUnion
  <1>5. SumFunctionOnSet(log, Span(from, to)) = SumFunctionOnSet(log, S) + SumFunctionOnSet(log, T)
    BY <1>1, <1>4
  <1> QED BY <1>5 DEF Within, Span, S, T

\* A wider span holds no less.
LEMMA WithinWider ==
    ASSUME NEW log \in [Times -> Nat], NEW from \in Int, NEW since \in Int, NEW to \in Int,
           since <= from
    PROVE  Within(log, from, to) <= Within(log, since, to)
  <1>1. CASE from <= to
    <2>1. Within(log, since, to) = Within(log, since, from - 1) + Within(log, (from - 1) + 1, to)
      BY <1>1, WithinSplit
    <2>2. Within(log, since, from - 1) \in Nat /\ Within(log, from, to) \in Nat
      BY WithinNat
    <2>3. (from - 1) + 1 = from
      OBVIOUS
    <2> QED BY <2>1, <2>2, <2>3
  <1>2. CASE ~(from <= to)
    <2>1. \A t \in Times : ~(from <= t /\ t <= to)
      BY <1>2, RuleAssumption DEF Times
    <2>2. Within(log, from, to) = 0 /\ Within(log, since, to) \in Nat
      BY <2>1, WithinNothing, WithinNat
    <2> QED BY <2>2
  <1> QED BY <1>1, <1>2

\* One more at a stamp is one more in every span with the stamp.
LEMMA WithinAdd ==
    ASSUME NEW log \in [Times -> Nat], NEW stamp \in Times, NEW from, NEW to
    PROVE  /\ Add(log, stamp) \in [Times -> Nat]
           /\ Within(Add(log, stamp), from, to)
                = Within(log, from, to) + (IF from <= stamp /\ stamp <= to THEN 1 ELSE 0)
  <1> DEFINE more == Add(log, stamp)
  <1>1. /\ more \in [Times -> Nat] /\ more[stamp] = log[stamp] + 1
        /\ \A t \in Times : t # stamp => more[t] = log[t]
    BY DEF Add
  <1> HIDE DEF more
  <1>2. Within(log, from, to) \in Nat
    BY WithinNat
  <1>3. CASE from <= stamp /\ stamp <= to
    <2> DEFINE S == Span(from, to)
    <2>1. IsFiniteSet(S) /\ stamp \in S /\ IsFiniteSet(S \ {stamp})
      <3>1. IsFiniteSet(S) /\ stamp \in S
        BY <1>3, SpanFinite DEF Span
      <3> QED BY <3>1, FS_RemoveElement
    <2>2. /\ \A t \in S : more[t] \in Int /\ log[t] \in Int
          /\ \A t \in S \ {stamp} : more[t] \in Int /\ more[t] = log[t]
      BY <1>1 DEF Span
    <2> HIDE DEF S
    <2>3. /\ SumFunctionOnSet(more, S) = more[stamp] + SumFunctionOnSet(more, S \ {stamp})
          /\ SumFunctionOnSet(log, S) = log[stamp] + SumFunctionOnSet(log, S \ {stamp})
      BY <2>1, <2>2, SumRemove
    <2>4. SumFunctionOnSet(more, S \ {stamp}) = SumFunctionOnSet(log, S \ {stamp})
      BY <2>1, <2>2, SumSame
    <2>5. SumFunctionOnSet(log, S \ {stamp}) \in Int /\ log[stamp] \in Int
      BY <2>1, <2>2, SumType
    <2>6. SumFunctionOnSet(more, S) = SumFunctionOnSet(log, S) + 1
      BY <1>1, <2>3, <2>4, <2>5
    <2>7. Within(more, from, to) = Within(log, from, to) + 1
      BY <2>6 DEF Within, S, Span
    <2> QED BY <1>1, <1>3, <2>7 DEF more
  <1>4. CASE ~(from <= stamp /\ stamp <= to)
    <2>1. Within(more, from, to) = Within(log, from, to)
      BY <1>1, <1>4, WithinSame
    <2> QED BY <1>1, <1>2, <1>4, <2>1 DEF more
  <1> QED BY <1>3, <1>4

-----------------------------------------------------------------------------
(* One pipeline *)

\* What a pipeline leaves in a window: the new member, and all that is not a
\* window older than it.
LEMMA RecordedParts ==
    ASSUME NEW log \in [Times -> Nat], NEW stamp \in Times, NEW width \in Nat \ {0}, NEW new,
           new = Prune(Add(log, stamp), stamp - width)
    PROVE  /\ new \in [Times -> Nat]
           /\ \A t \in Times : /\ new[t] <= log[t] + (IF t = stamp THEN 1 ELSE 0)
                               /\ new[t] # 0 => log[t] # 0 \/ t = stamp
           /\ \A from, to \in Int : from > stamp - width =>
                Within(new, from, to)
                  = Within(log, from, to) + (IF from <= stamp /\ stamp <= to THEN 1 ELSE 0)
  <1> DEFINE more == Add(log, stamp)
  <1>1. /\ more \in [Times -> Nat] /\ more[stamp] = log[stamp] + 1
        /\ \A t \in Times : t # stamp => more[t] = log[t]
    BY DEF Add
  <1>2. new = [t \in Times |-> IF t <= stamp - width THEN 0 ELSE more[t]]
    BY DEF Prune
  <1>3. \A from, to : Within(more, from, to)
           = Within(log, from, to) + (IF from <= stamp /\ stamp <= to THEN 1 ELSE 0)
    BY WithinAdd
  <1> HIDE DEF more
  <1>4. new \in [Times -> Nat] /\ \A t \in Times : new[t] = IF t <= stamp - width THEN 0 ELSE more[t]
    BY <1>1, <1>2
  <1>5. \A t \in Times : /\ new[t] <= log[t] + (IF t = stamp THEN 1 ELSE 0)
                         /\ new[t] # 0 => log[t] # 0 \/ t = stamp
    BY <1>1, <1>4
  <1>6. \A from, to \in Int : from > stamp - width => Within(new, from, to) = Within(more, from, to)
    <2> TAKE from, to \in Int
    <2>1. SUFFICES ASSUME from > stamp - width
                   PROVE  Within(new, from, to) = Within(more, from, to)
      OBVIOUS
    <2>2. \A t \in Times : from <= t /\ t <= to => new[t] = more[t]
      BY <1>4, <2>1, RuleAssumption DEF Times
    <2> QED BY <1>1, <1>4, <2>2, WithinSame
  <1> QED BY <1>3, <1>4, <1>5, <1>6

\* What it counts: the members stamped in the window, its own included, and none
\* exactly one window old, which it has just pruned.
LEMMA CountParts ==
    ASSUME TypeOK, NEW k \in Keys, NEW stamp \in Times, NEW width \in Nat \ {0}
    PROVE  CountAt(k, stamp, width) = Within(window[k], stamp - width + 1, stamp) + 1
  <1> DEFINE new == Recorded(k, stamp, width)
  <1>1. window[k] \in [Times -> Nat] /\ stamp \in Int /\ stamp - width \in Int
    BY RuleAssumption DEF TypeOK, Log, Times
  <1>2. new = Prune(Add(window[k], stamp), stamp - width)
    BY DEF Recorded
  <1>3. CountAt(k, stamp, width) = Within(new, stamp - width, stamp)
    BY DEF CountAt
  <1>4. \A t \in Times : t <= stamp - width => new[t] = 0
    BY <1>2 DEF Prune
  <1> HIDE DEF new
  <1>5. /\ new \in [Times -> Nat]
        /\ \A from, to \in Int : from > stamp - width =>
             Within(new, from, to)
               = Within(window[k], from, to) + (IF from <= stamp /\ stamp <= to THEN 1 ELSE 0)
    BY <1>1, <1>2, RecordedParts
  <1>6. Within(new, stamp - width, stamp)
          = Within(new, stamp - width, stamp - width) + Within(new, stamp - width + 1, stamp)
    BY <1>1, <1>5, WithinSplit
  <1>7. Within(new, stamp - width, stamp - width) = 0
    BY <1>4, WithinNothing
  <1>8. Within(new, stamp - width + 1, stamp) = Within(window[k], stamp - width + 1, stamp) + 1
    BY <1>1, <1>5
  <1>9. Within(window[k], stamp - width + 1, stamp) \in Nat
    BY <1>1, WithinNat
  <1> QED BY <1>3, <1>6, <1>7, <1>8, <1>9

-----------------------------------------------------------------------------
(* What a step does to one window *)

\* What the sorted set of k holds.
Held(k, from, to) == Within(window[k], from, to)

\* The pipeline of w ran on the window of k.
Noted(w, k) ==
    /\ Due(w, k) /\ ~Due(w, k)'
    /\ window'[k] = Recorded(k, job[w].stamp, Width(k))
    /\ expires'[k] = now + Life(Width(k))

Untouched(k) == window'[k] = window[k] /\ expires'[k] = expires[k]

\* A step of w that lets nothing more through.
Quiet(w, k) ==
    /\ Untouched(k) \/ Noted(w, k)
    /\ \A from, to \in Int : /\ DueIn(k, from, to)' \subseteq DueIn(k, from, to)
                             /\ Through(k, from, to)' <= Through(k, from, to)

\* A pipeline of w that finds no burst.
Passes(w, k) ==
    /\ Noted(w, k)
    /\ Held(k, Opens(k, job[w].stamp), job[w].stamp) + 1 <= Limit(k)
    /\ \A from, to \in Int :
         /\ DueIn(k, from, to)' = DueIn(k, from, to) \ {w}
         /\ Through(k, from, to)' = Through(k, from, to) + (IF Stamped(w, from, to) THEN 1 ELSE 0)

\* What the numbers here are.
LEMMA Numbers ==
    ASSUME TypeOK, NEW k \in Keys
    PROVE  /\ Width(k) \in Nat \ {0} /\ Limit(k) \in Nat \ {0}
           /\ peak \in Nat /\ Slack \in Nat /\ peak <= Slack + 1
           /\ now \in Nat /\ MaxTime \in Nat /\ Times = 0 .. MaxTime /\ now \in Times
           /\ \A t \in Times : t \in Nat /\ Opens(k, t) \in (1 - Width(k)) .. MaxTime
           /\ \A t \in Int : Opens(k, t) = t - Width(k) + 1
  <1>1. Width(k) \in Nat \ {0} /\ Limit(k) \in Nat \ {0}
    BY RuleAssumption DEF Width, Limit
  <1>2. peak \in Nat /\ Slack \in Nat /\ peak <= Slack + 1
    BY RuleAssumption, FS_CardinalityType DEF TypeOK, Slack
  <1>3. now \in Nat /\ MaxTime \in Nat /\ Times = 0 .. MaxTime /\ now \in Times
    BY RuleAssumption DEF TypeOK, Times
  <1>4. \A t \in Times : t \in Nat /\ Opens(k, t) \in (1 - Width(k)) .. MaxTime
    BY <1>1, <1>3 DEF Opens
  <1> QED BY <1>1, <1>2, <1>3, <1>4 DEF Opens

\* What is due in a span is in flight, and finite.
LEMMA DueFinite ==
    ASSUME NEW k, NEW from, NEW to
    PROVE  /\ IsFiniteSet(InFlight) /\ Cardinality(InFlight) \in Nat
           /\ IsFiniteSet(DueIn(k, from, to)) /\ Cardinality(DueIn(k, from, to)) \in Nat
           /\ DueIn(k, from, to) \subseteq InFlight
           /\ Cardinality(DueIn(k, from, to)) <= Cardinality(InFlight)
           /\ Cardinality(DueIn(k, from, to)) = Cardinality(InFlight) => DueIn(k, from, to) = InFlight
           /\ IsFiniteSet(ClearedIn(k, from, to)) /\ Cardinality(ClearedIn(k, from, to)) \in Nat
  <1>1. IsFiniteSet(Workers)
    BY RuleAssumption
  <1>2. InFlight \in SUBSET Workers /\ DueIn(k, from, to) \in SUBSET InFlight
        /\ ClearedIn(k, from, to) \in SUBSET Workers
    BY DEF InFlight, DueIn, Due, ClearedIn
  <1>3. IsFiniteSet(InFlight) /\ IsFiniteSet(ClearedIn(k, from, to))
    BY <1>1, <1>2, FS_Subset
  <1>4. /\ IsFiniteSet(DueIn(k, from, to))
        /\ Cardinality(DueIn(k, from, to)) <= Cardinality(InFlight)
        /\ Cardinality(DueIn(k, from, to)) = Cardinality(InFlight) => DueIn(k, from, to) = InFlight
    BY <1>2, <1>3, FS_Subset
  <1> QED BY <1>2, <1>3, <1>4, FS_CardinalityType

\* What was let through, and what is held, is a number.
LEMMA ThroughNat ==
    ASSUME TypeOK, NEW k \in Keys, NEW from, NEW to
    PROVE  Through(k, from, to) \in Nat /\ Held(k, from, to) \in Nat
  <1>1. passed[k] \in [Times -> Nat] /\ window[k] \in [Times -> Nat]
    BY RuleAssumption DEF TypeOK, Log
  <1> QED BY <1>1, WithinNat, DueFinite DEF Through, Held

\* What was let through in a span is that of the two it splits into.
LEMMA ThroughSplit ==
    ASSUME TypeOK, NEW k \in Keys, NEW from \in Int, NEW mid \in Int, NEW to \in Int,
           from <= mid + 1, mid <= to, Through(k, mid + 1, to) = 0
    PROVE  Through(k, from, to) = Through(k, from, mid)
  <1>1. passed[k] \in [Times -> Nat]
    BY RuleAssumption DEF TypeOK, Log
  <1>2. Within(passed[k], from, to) = Within(passed[k], from, mid) + Within(passed[k], mid + 1, to)
    BY <1>1, WithinSplit
  <1>3. /\ Within(passed[k], mid + 1, to) \in Nat /\ Within(passed[k], from, mid) \in Nat
        /\ Cardinality(ClearedIn(k, mid + 1, to)) \in Nat
        /\ IsFiniteSet(ClearedIn(k, mid + 1, to))
    BY <1>1, WithinNat, DueFinite
  <1>4. Within(passed[k], mid + 1, to) = 0 /\ Cardinality(ClearedIn(k, mid + 1, to)) = 0
    BY <1>3 DEF Through
  <1>5. ClearedIn(k, mid + 1, to) = {}
    BY <1>3, <1>4, FS_EmptySet
  <1>6. ClearedIn(k, from, to) = ClearedIn(k, from, mid)
    <2>1. \A w \in Workers : job[w].stamp \in Int
      <3> TAKE w \in Workers
      <3>1. job[w] \in Job \cup {Idle}
        BY DEF TypeOK
      <3> QED BY <3>1, RuleAssumption DEF Job, Idle, Times
    <2>2. \A w \in Workers : Cleared(w, k) => ~Stamped(w, mid + 1, to)
      BY <1>5 DEF ClearedIn
    <2>3. \A w \in Workers : Cleared(w, k) => (Stamped(w, from, to) <=> Stamped(w, from, mid))
      BY <2>1, <2>2 DEF Stamped
    <2> QED BY <2>3 DEF ClearedIn
  <1> QED BY <1>2, <1>3, <1>4, <1>6 DEF Through

\* Nothing is held with a stamp that has not come.
LEMMA NothingLater ==
    ASSUME TypeOK, NEW k \in Keys, KeyOK(k), NEW u \in Int, NEW t \in Times, u > now, u <= t
    PROVE  Through(k, u, t) = 0
  <1>1. Width(k) \in Nat \ {0} /\ now \in Nat /\ MaxTime \in Nat /\ Times = 0 .. MaxTime
    BY Numbers
  <1>2. \A x \in Times : u <= x /\ x <= t => window[k][x] = 0
    BY <1>1 DEF KeyOK, Dated
  <1>3. Within(window[k], u, t) = 0
    BY <1>2, WithinNothing
  <1>4. Through(k, u, t) <= Within(window[k], u, t)
    BY <1>1 DEF KeyOK, Kept
  <1> QED BY <1>3, <1>4, ThroughNat

\* After a pipeline the window holds no less, and outlives its members.
LEMMA NotedKeeps ==
    ASSUME TypeOK, JobsOK, NEW k \in Keys, KeyOK(k), UNCHANGED now,
           NEW w \in Workers, Noted(w, k)
    PROVE  /\ job[w].stamp \in Times /\ job[w].stamp <= now /\ w \in InFlight
           /\ \A t \in Times : window'[k][t] <= window[k][t] + (IF t = job[w].stamp THEN 1 ELSE 0)
           /\ \A from, to \in Int : from > job[w].stamp - Width(k) =>
                Held(k, from, to)' = Held(k, from, to) + (IF Stamped(w, from, to) THEN 1 ELSE 0)
           /\ Dated(k)'
  <1>1. pc[w] # "idle"
    BY DEF Noted, Due
  <1>2. job[w].stamp \in Times /\ job[w].stamp <= now /\ w \in InFlight
    BY <1>1 DEF JobsOK, Job, InFlight
  <1>3. Width(k) \in Nat \ {0} /\ now \in Nat /\ MaxTime \in Nat /\ Times = 0 .. MaxTime
    BY Numbers
  <1>4. PICK new, stamp, width : new = window'[k] /\ stamp = job[w].stamp /\ width = Width(k)
    OBVIOUS
  <1>5. window[k] \in [Times -> Nat]
    BY RuleAssumption DEF TypeOK, Log
  <1>6. new = Prune(Add(window[k], stamp), stamp - width)
    BY <1>4 DEF Noted, Recorded
  <1>7. /\ \A t \in Times : /\ new[t] <= window[k][t] + (IF t = stamp THEN 1 ELSE 0)
                            /\ new[t] # 0 => window[k][t] # 0 \/ t = stamp
        /\ \A from, to \in Int : from > stamp - width =>
             Within(new, from, to)
               = Within(window[k], from, to) + (IF from <= stamp /\ stamp <= to THEN 1 ELSE 0)
    <2>1. stamp \in Times /\ width \in Nat \ {0}
      BY <1>2, <1>3, <1>4
    <2> QED BY <1>5, <1>6, <2>1, RecordedParts
  <1>8. \A from, to \in Int : from > job[w].stamp - Width(k) =>
          Held(k, from, to)' = Held(k, from, to) + (IF Stamped(w, from, to) THEN 1 ELSE 0)
    BY <1>4, <1>7 DEF Held, Stamped
  <1>9. \A t \in Times : new[t] # 0 => t <= now
    BY <1>2, <1>4, <1>7 DEF KeyOK, Dated
  <1>10. expires'[k] = now + width * 2
    BY <1>4 DEF Noted, Life
  <1>11. Dated(k)'
    BY <1>3, <1>4, <1>9, <1>10 DEF Dated
  <1> QED BY <1>2, <1>4, <1>7, <1>8, <1>11

\* A step that lets nothing more through keeps what is known of a window.
LEMMA QuietKeeps ==
    ASSUME TypeOK, TypeOK', JobsOK, Cardinality(InFlight) <= peak, UNCHANGED <<now, peak>>,
           NEW k \in Keys, KeyOK(k), NEW w \in Workers, Quiet(w, k)
    PROVE  KeyOK(k)'
  <1>1. /\ Width(k) \in Nat \ {0} /\ Limit(k) \in Nat \ {0}
        /\ peak \in Nat /\ Slack \in Nat /\ peak <= Slack + 1
        /\ now \in Nat /\ MaxTime \in Nat /\ Times = 0 .. MaxTime
        /\ \A t \in Times : t \in Nat /\ Opens(k, t) \in (1 - Width(k)) .. MaxTime
        /\ \A t \in Int : Opens(k, t) = t - Width(k) + 1
    BY Numbers
  <1>0. /\ Limit(k) \in Nat /\ Slack \in Nat /\ peak \in Nat /\ peak <= Slack + 1
    BY <1>1
  <1>2. Slack' = Slack
    BY DEF Slack
  <1>3. \A from, to \in Int :
          /\ Through(k, from, to)' \in Nat /\ Through(k, from, to) \in Nat
          /\ Through(k, from, to)' <= Through(k, from, to)
          /\ Held(k, from, to) \in Nat
    <2> TAKE from, to \in Int
    <2>1. Through(k, from, to) \in Nat /\ Held(k, from, to) \in Nat
      BY ThroughNat
    <2>2. passed'[k] \in [Times -> Nat]
      BY RuleAssumption DEF TypeOK, Log
    <2>3. Within(passed'[k], from, to) \in Nat
      BY <2>2, WithinNat
    <2>4. Cardinality(ClearedIn(k, from, to)') \in Nat
      <3>1. ClearedIn(k, from, to)' \in SUBSET Workers
        BY DEF ClearedIn
      <3> QED BY <3>1, RuleAssumption, FS_Subset, FS_CardinalityType
    <2>5. Through(k, from, to)' \in Nat
      BY <2>3, <2>4 DEF Through
    <2> QED BY <2>1, <2>5 DEF Quiet
  <1>4. \A from, to \in Int :
          /\ DueIn(k, from, to)' \subseteq DueIn(k, from, to)
          /\ IsFiniteSet(DueIn(k, from, to)) /\ Cardinality(DueIn(k, from, to)) \in Nat
          /\ Cardinality(DueIn(k, from, to)') \in Nat
          /\ Cardinality(DueIn(k, from, to)') <= Cardinality(DueIn(k, from, to))
          /\ Cardinality(DueIn(k, from, to)') = Cardinality(DueIn(k, from, to))
               => DueIn(k, from, to)' = DueIn(k, from, to)
    <2> TAKE from, to \in Int
    <2>1. DueIn(k, from, to)' \in SUBSET DueIn(k, from, to)
      BY DEF Quiet
    <2>2. IsFiniteSet(DueIn(k, from, to)) /\ Cardinality(DueIn(k, from, to)) \in Nat
      BY DueFinite
    <2> QED BY <2>1, <2>2, FS_Subset, FS_CardinalityType
  <1>5. Noted(w, k) =>
          /\ job[w].stamp \in Times /\ job[w].stamp <= now /\ w \in InFlight /\ Dated(k)'
          /\ \A from, to \in Int : from > job[w].stamp - Width(k) =>
               Held(k, from, to)' = Held(k, from, to) + (IF Stamped(w, from, to) THEN 1 ELSE 0)
    BY NotedKeeps
  <1>6. Untouched(k) => /\ Dated(k)'
                        /\ \A from, to \in Int : Held(k, from, to)' = Held(k, from, to)
    BY DEF Untouched, Held, KeyOK, Dated
  <1>7. Kept(k)'
    <2> SUFFICES ASSUME NEW from \in (1 - Width(k)) .. MaxTime, NEW to \in Times, from > now - Width(k)
                 PROVE  Through(k, from, to)' <= Held(k, from, to)'
      BY DEF Kept, Held
    <2>1. from \in Int /\ to \in Int
      BY <1>1
    <2>2. Through(k, from, to) <= Held(k, from, to)
      BY DEF KeyOK, Kept, Held
    <2>3. Held(k, from, to) <= Held(k, from, to)' /\ Held(k, from, to)' \in Nat
      <3>1. CASE Untouched(k)
        BY <1>3, <1>6, <2>1, <3>1
      <3>2. CASE Noted(w, k)
        <4>1. job[w].stamp \in Nat /\ job[w].stamp <= now /\ Width(k) \in Nat /\ now \in Nat
          BY <1>1, <1>5, <3>2
        <4>4. from > job[w].stamp - Width(k)
          BY <2>1, <4>1
        <4>2. Held(k, from, to)' = Held(k, from, to) + (IF Stamped(w, from, to) THEN 1 ELSE 0)
          BY <1>5, <2>1, <3>2, <4>4
        <4>3. Held(k, from, to) \in Nat
          BY <1>3, <2>1
        <4> QED BY <4>2, <4>3
      <3> QED BY <3>1, <3>2 DEF Quiet
    <2> QED BY <1>3, <2>1, <2>2, <2>3
  <1>8. Dated(k)'
    BY <1>5, <1>6 DEF Quiet
  <1>9. ASSUME NEW t \in Times, t >= now PROVE Fits(k, t)'
    <2> SUFFICES ASSUME NEW u \in Opens(k, t) .. t, Through(k, u, t)' > 0
                 PROVE  Through(k, Opens(k, t), t)' + Cardinality(DueIn(k, Opens(k, t), u - 1)')
                          <= Limit(k) + Slack
      BY <1>2 DEF Fits
    <2>1. PICK from, before : from = Opens(k, t) /\ before = u - 1
      OBVIOUS
    <2>2. from \in Int /\ u \in Int /\ t \in Int /\ before \in Int
      BY <1>1, <2>1
    <2>3. Through(k, u, t) > 0
      BY <1>3, <2>2
    <2>4. Through(k, from, t) + Cardinality(DueIn(k, from, before)) <= Limit(k) + Slack
      BY <1>9, <2>1, <2>3 DEF KeyOK, Fits
    <2>5. /\ Through(k, from, t)' <= Through(k, from, t)
          /\ Through(k, from, t)' \in Nat /\ Through(k, from, t) \in Nat
      BY <1>3, <2>2
    <2>6. /\ Cardinality(DueIn(k, from, before)') <= Cardinality(DueIn(k, from, before))
          /\ Cardinality(DueIn(k, from, before)') \in Nat
          /\ Cardinality(DueIn(k, from, before)) \in Nat
      BY <1>4, <2>2
    <2>7. Through(k, from, t)' + Cardinality(DueIn(k, from, before)') <= Limit(k) + Slack
      BY <1>1, <2>4, <2>5, <2>6
    <2> QED BY <2>1, <2>7
  <1>10. ASSUME NEW t \in Times, Settled(k, t) \/ Brink(k, t) PROVE Settled(k, t)' \/ Brink(k, t)'
    <2>1. PICK from : from = Opens(k, t)
      OBVIOUS
    <2>2. from \in Int /\ t \in Int /\ t \in Times
      BY <1>1, <2>1
    <2>3. /\ Through(k, from, t)' <= Through(k, from, t)
          /\ Through(k, from, t)' \in Nat /\ Through(k, from, t) \in Nat
      BY <1>3, <2>2
    <2>4. /\ Cardinality(DueIn(k, from, t)') <= Cardinality(DueIn(k, from, t))
          /\ Cardinality(DueIn(k, from, t)') \in Nat
          /\ Cardinality(DueIn(k, from, t)) \in Nat
          /\ Cardinality(DueIn(k, from, t)') = Cardinality(DueIn(k, from, t))
               => DueIn(k, from, t)' = DueIn(k, from, t)
      BY <1>4, <2>2
    <2>5. Settled(k, t)' <=>
            Through(k, from, t)' + Cardinality(DueIn(k, from, t)') <= Limit(k) + 2 * Slack
      BY <1>2, <2>1 DEF Settled
    <2>6. CASE Settled(k, t)
      <3>1. Through(k, from, t) + Cardinality(DueIn(k, from, t)) <= Limit(k) + 2 * Slack
        BY <2>1, <2>6 DEF Settled
      <3>2. Through(k, from, t)' + Cardinality(DueIn(k, from, t)') <= Limit(k) + 2 * Slack
        BY <1>1, <2>3, <2>4, <3>1
      <3> QED BY <2>5, <3>2
    <2>7. CASE Brink(k, t)
      <3>1. /\ Cardinality(DueIn(k, from, t)) = Slack + 1
            /\ Through(k, from, t) + Cardinality(DueIn(k, from, t)) <= Limit(k) + 2 * Slack + 1
        BY <2>1, <2>7 DEF Brink
      <3>2. CASE DueIn(k, from, t)' # DueIn(k, from, t)
        <4>1. Cardinality(DueIn(k, from, t)') < Cardinality(DueIn(k, from, t))
          BY <2>4, <3>2
        <4>2. Through(k, from, t)' + Cardinality(DueIn(k, from, t)') <= Limit(k) + 2 * Slack
          BY <1>0, <2>3, <2>4, <3>1, <4>1
        <4> QED BY <2>5, <4>2
      <3>3. CASE DueIn(k, from, t)' = DueIn(k, from, t)
        <4>1. Untouched(k)
          <5>1. SUFFICES ASSUME Noted(w, k) PROVE FALSE
            BY DEF Quiet
          <5>2. DueIn(k, from, t) = InFlight
            <6>1. /\ Cardinality(DueIn(k, from, t)) <= Cardinality(InFlight)
                  /\ Cardinality(InFlight) \in Nat
                  /\ Cardinality(DueIn(k, from, t)) = Cardinality(InFlight) => DueIn(k, from, t) = InFlight
              BY DueFinite
            <6> QED BY <1>0, <3>1, <6>1
          <5>3. w \in DueIn(k, from, t)'
            BY <1>5, <3>3, <5>1, <5>2
          <5> QED BY <5>1, <5>3 DEF DueIn, Noted
        <4>2. Cardinality(DueIn(k, from, t)') = Slack + 1
          BY <3>1, <3>3
        <4>3. Through(k, from, t)' + Cardinality(DueIn(k, from, t)') <= Limit(k) + 2 * Slack + 1
          BY <1>0, <2>3, <2>4, <3>1
        <4>4. ASSUME NEW u \in from .. t, Through(k, u, t)' > 0 PROVE DueIn(k, from, u - 1)' = {}
          <5>1. PICK before : before = u - 1
            OBVIOUS
          <5>2. u \in Int /\ before \in Int
            BY <2>2, <5>1
          <5>3. Through(k, u, t) > 0
            BY <1>3, <2>2, <4>4, <5>2
          <5>4. DueIn(k, from, before) = {}
            BY <2>1, <2>7, <5>1, <5>3 DEF Brink
          <5>5. DueIn(k, from, before)' \subseteq DueIn(k, from, before)
            BY <1>4, <2>2, <5>2
          <5>6. DueIn(k, from, before)' = {}
            BY <5>4, <5>5
          <5> QED BY <5>1, <5>6
        <4>5. ASSUME NEW to \in Times, to <= t PROVE Through(k, from, to)' <= Held(k, from, to)'
          <5>1. Through(k, from, to) <= Held(k, from, to)
            BY <2>1, <2>7, <4>5 DEF Brink, Held
          <5>2. to \in Int
            BY <1>1
          <5>3. Held(k, from, to)' = Held(k, from, to)
            BY <1>6, <2>2, <4>1, <5>2
          <5>4. /\ Through(k, from, to)' <= Through(k, from, to) /\ Held(k, from, to) \in Nat
                /\ Through(k, from, to)' \in Nat /\ Through(k, from, to) \in Nat
            BY <1>3, <2>2, <5>2
          <5> QED BY <5>1, <5>3, <5>4
        <4>6. Brink(k, t)'
          BY <1>2, <2>1, <4>2, <4>3, <4>4, <4>5 DEF Brink, Held
        <4> QED BY <4>6
      <3> QED BY <3>2, <3>3
    <2> QED BY <1>10, <2>6, <2>7
  <1> QED BY <1>7, <1>8, <1>9, <1>10 DEF KeyOK

\* In a window that is in the sorted set, what is let through is all that was
\* before it: it leaves room for itself.
LEMMA RoomForOne ==
    ASSUME TypeOK, NEW k \in Keys, NEW from \in Int, NEW stamp \in Times, NEW t \in Int,
           from <= stamp, stamp <= t, from >= Opens(k, stamp),
           Through(k, from, stamp) <= Held(k, from, stamp),
           Held(k, Opens(k, stamp), stamp) + 1 <= Limit(k),
           Through(k, stamp + 1, t) = 0
    PROVE  Through(k, from, t) + 1 <= Limit(k)
  <1>1. stamp \in Int /\ Opens(k, stamp) \in Int /\ Limit(k) \in Nat
    BY Numbers
  <1>2. Through(k, from, t) = Through(k, from, stamp)
    BY <1>1, ThroughSplit
  <1>3. window[k] \in [Times -> Nat]
    BY RuleAssumption DEF TypeOK, Log
  <1>4. Held(k, from, stamp) <= Held(k, Opens(k, stamp), stamp)
    BY <1>1, <1>3, WithinWider DEF Held
  <1>5. /\ Held(k, from, stamp) \in Nat /\ Held(k, Opens(k, stamp), stamp) \in Nat
        /\ Through(k, from, stamp) \in Nat
    BY ThroughNat
  <1> QED BY <1>1, <1>2, <1>4, <1>5

\* A pipeline that finds no burst keeps what is known of a window.
LEMMA PassesKeeps ==
    ASSUME TypeOK, JobsOK, Cardinality(InFlight) <= peak, UNCHANGED <<now, peak>>,
           NEW k \in Keys, KeyOK(k), NEW w \in Workers, Passes(w, k)
    PROVE  KeyOK(k)'
  <1>1. /\ Width(k) \in Nat \ {0} /\ MaxTime \in Nat /\ Times = 0 .. MaxTime
        /\ \A t \in Times : t \in Nat /\ Opens(k, t) \in (1 - Width(k)) .. MaxTime
        /\ \A t \in Int : Opens(k, t) = t - Width(k) + 1
    BY Numbers
  <1>2. Limit(k) \in Nat /\ Slack \in Nat /\ peak \in Nat /\ peak <= Slack + 1 /\ now \in Nat
    BY Numbers
  <1>3. Slack' = Slack
    BY DEF Slack
  <1>4. PICK s : s = job[w].stamp
    OBVIOUS
  <1>5. /\ s \in Times /\ s \in Nat /\ s <= now /\ w \in InFlight /\ Dated(k)'
        /\ \A from, to \in Int : from > s - Width(k) =>
             Held(k, from, to)' = Held(k, from, to) + (IF Stamped(w, from, to) THEN 1 ELSE 0)
    BY <1>1, <1>4, NotedKeeps DEF Passes
  <1>6. Due(w, k) /\ Held(k, Opens(k, s), s) + 1 <= Limit(k)
    BY <1>4 DEF Passes, Noted
  <1>7. \A from, to \in Int : Through(k, from, to) \in Nat /\ Held(k, from, to) \in Nat
    BY ThroughNat
  <1>8. \A from, to \in Int :
          /\ from <= s /\ s <= to => Through(k, from, to)' = Through(k, from, to) + 1
          /\ ~(from <= s /\ s <= to) => Through(k, from, to)' = Through(k, from, to)
    <2> TAKE from, to \in Int
    <2>1. Through(k, from, to)' = Through(k, from, to) + (IF Stamped(w, from, to) THEN 1 ELSE 0)
      BY DEF Passes
    <2>2. Stamped(w, from, to) <=> from <= s /\ s <= to
      BY <1>4 DEF Stamped
    <2>3. Through(k, from, to) \in Nat
      BY <1>7
    <2> QED BY <2>1, <2>2, <2>3
  <1>9. \A from, to \in Int :
          /\ Cardinality(DueIn(k, from, to)) \in Nat
          /\ DueIn(k, from, to)' = DueIn(k, from, to) \ {w}
          /\ w \in DueIn(k, from, to) <=> (from <= s /\ s <= to)
          /\ Cardinality(DueIn(k, from, to)')
               = IF from <= s /\ s <= to THEN Cardinality(DueIn(k, from, to)) - 1
                                         ELSE Cardinality(DueIn(k, from, to))
    <2> TAKE from, to \in Int
    <2>1. IsFiniteSet(DueIn(k, from, to)) /\ Cardinality(DueIn(k, from, to)) \in Nat
      BY DueFinite
    <2>2. DueIn(k, from, to)' = DueIn(k, from, to) \ {w}
      BY DEF Passes
    <2>3. w \in DueIn(k, from, to) <=> (from <= s /\ s <= to)
      BY <1>4, <1>6 DEF DueIn, Stamped
    <2>4. Cardinality(DueIn(k, from, to) \ {w})
            = IF w \in DueIn(k, from, to) THEN Cardinality(DueIn(k, from, to)) - 1
                                          ELSE Cardinality(DueIn(k, from, to))
      BY <2>1, FS_RemoveElement
    <2> QED BY <2>1, <2>2, <2>3, <2>4
  <1>10. \A t \in Int : s <= t => Through(k, t + 1, t) = 0
    <2> TAKE t \in Int
    <2>1. \A x \in Times : ~(t + 1 <= x /\ x <= t)
      BY <1>1
    <2>2. Within(passed[k], t + 1, t) = 0
      BY <2>1, WithinNothing
    <2>3. ClearedIn(k, t + 1, t) = {}
      <3>1. \A v \in Workers : job[v].stamp \in Int
        <4> TAKE v \in Workers
        <4>1. job[v] \in Job \cup {Idle}
          BY DEF TypeOK
        <4> QED BY <4>1, RuleAssumption DEF Job, Idle, Times
      <3> QED BY <3>1 DEF ClearedIn, Stamped
    <2> QED BY <2>2, <2>3, FS_EmptySet DEF Through
  <1>11. Kept(k)'
    <2> SUFFICES ASSUME NEW from \in (1 - Width(k)) .. MaxTime, NEW to \in Times, from > now - Width(k)
                 PROVE  Through(k, from, to)' <= Held(k, from, to)'
      BY DEF Kept, Held
    <2>1. from \in Int /\ to \in Int /\ from > s - Width(k)
      BY <1>1, <1>2, <1>5
    <2>2. Through(k, from, to) <= Held(k, from, to)
      BY DEF KeyOK, Kept, Held
    <2>3. Held(k, from, to)' = Held(k, from, to) + (IF from <= s /\ s <= to THEN 1 ELSE 0)
      BY <1>4, <1>5, <2>1 DEF Stamped
    <2>4. /\ from <= s /\ s <= to => Through(k, from, to)' = Through(k, from, to) + 1
          /\ ~(from <= s /\ s <= to) => Through(k, from, to)' = Through(k, from, to)
      BY <1>8, <2>1
    <2>5. Through(k, from, to) \in Nat /\ Held(k, from, to) \in Nat
      BY <1>7, <2>1
    <2> QED BY <2>2, <2>3, <2>4, <2>5
  <1>12. ASSUME NEW t \in Times, t >= now PROVE Fits(k, t)'
    <2> SUFFICES ASSUME NEW u \in Opens(k, t) .. t, Through(k, u, t)' > 0
                 PROVE  Through(k, Opens(k, t), t)' + Cardinality(DueIn(k, Opens(k, t), u - 1)')
                          <= Limit(k) + Slack
      BY <1>3 DEF Fits
    <2>1. PICK from, before : from = Opens(k, t) /\ before = u - 1
      OBVIOUS
    <2>2. /\ from \in Int /\ u \in Int /\ t \in Int /\ before \in Int
          /\ from <= u /\ u <= t /\ s <= t
          /\ from = t - Width(k) + 1 /\ from \in (1 - Width(k)) .. MaxTime
      BY <1>1, <1>2, <1>5, <1>12, <2>1
    <2>3. /\ Through(k, from, t) \in Nat
          /\ from <= s => Through(k, from, t)' = Through(k, from, t) + 1
          /\ ~(from <= s) => Through(k, from, t)' = Through(k, from, t)
      BY <1>7, <1>8, <2>2
    <2>4. /\ Cardinality(DueIn(k, from, before)) \in Nat
          /\ Cardinality(DueIn(k, from, before)')
               = IF from <= s /\ s <= before THEN Cardinality(DueIn(k, from, before)) - 1
                                             ELSE Cardinality(DueIn(k, from, before))
      BY <1>9, <2>2
    <2>5. CASE s < u
      <3>1. Through(k, u, t) > 0
        <4>1. Through(k, u, t)' = Through(k, u, t)
          BY <1>5, <1>8, <2>2, <2>5
        <4> QED BY <4>1
      <3>2. Through(k, from, t) + Cardinality(DueIn(k, from, before)) <= Limit(k) + Slack
        BY <1>12, <2>1, <3>1 DEF KeyOK, Fits
      <3>3. s <= before
        BY <1>5, <2>1, <2>2, <2>5
      <3>4. Through(k, from, t)' + Cardinality(DueIn(k, from, before)') <= Limit(k) + Slack
        BY <1>2, <2>3, <2>4, <3>2, <3>3
      <3> QED BY <2>1, <3>4
    <2>6. CASE s >= u /\ Through(k, s + 1, t) > 0
      <3>1. s + 1 \in Opens(k, t) .. t
        <4>1. s # t
          <5>1. Through(k, t + 1, t) = 0
            BY <1>10, <2>2
          <5> QED BY <2>6, <5>1
        <4> QED BY <1>5, <2>1, <2>2, <2>6, <4>1
      <3>2. PICK next, last : next = s + 1 /\ last = next - 1
        OBVIOUS
      <3>3. Through(k, next, t) > 0 /\ next \in Opens(k, t) .. t
        BY <2>6, <3>1, <3>2
      <3>4. Through(k, from, t) + Cardinality(DueIn(k, from, last)) <= Limit(k) + Slack
        BY <1>12, <2>1, <3>2, <3>3 DEF KeyOK, Fits
      <3>5. last = s /\ last \in Int /\ from <= s /\ before <= s
        BY <1>5, <2>1, <2>2, <2>6, <3>2
      <3>6. /\ Cardinality(DueIn(k, from, last)) \in Nat
            /\ Cardinality(DueIn(k, from, last)') = Cardinality(DueIn(k, from, last)) - 1
        BY <1>5, <1>9, <2>2, <3>5
      <3>7. Cardinality(DueIn(k, from, before)') <= Cardinality(DueIn(k, from, last)')
        <4>1. DueIn(k, from, before) \ {w} \in SUBSET (DueIn(k, from, last) \ {w})
          <5>1. \A v \in Workers : Stamped(v, from, before) => Stamped(v, from, last)
            <6> TAKE v \in Workers
            <6>1. job[v] \in Job \cup {Idle}
              BY DEF TypeOK
            <6>2. job[v].stamp \in Times \/ job[v].stamp = 0
              BY <6>1 DEF Job, Idle
            <6>3. job[v].stamp \in Int
              BY <6>2, RuleAssumption DEF Times
            <6> QED BY <1>5, <2>2, <3>5, <6>3 DEF Stamped
          <5> QED BY <5>1 DEF DueIn
        <4>2. IsFiniteSet(DueIn(k, from, last) \ {w})
          BY DueFinite, FS_RemoveElement
        <4>3. Cardinality(DueIn(k, from, before) \ {w}) <= Cardinality(DueIn(k, from, last) \ {w})
          BY <4>1, <4>2, FS_Subset
        <4>4. /\ DueIn(k, from, before)' = DueIn(k, from, before) \ {w}
              /\ DueIn(k, from, last)' = DueIn(k, from, last) \ {w}
          BY <1>9, <2>2, <3>5
        <4> QED BY <4>3, <4>4
      <3>8. Through(k, from, t)' = Through(k, from, t) + 1
        BY <2>3, <3>5
      <3>9. Cardinality(DueIn(k, from, before)') \in Int
        BY <2>4
      <3>10. Through(k, from, t)' + Cardinality(DueIn(k, from, before)') <= Limit(k) + Slack
        BY <1>2, <2>3, <3>4, <3>6, <3>7, <3>8, <3>9
      <3> QED BY <2>1, <3>10
    <2>7. CASE s >= u /\ ~(Through(k, s + 1, t) > 0)
      <3>1. from <= s /\ from >= Opens(k, s)
        <4>1. Width(k) \in Nat /\ Opens(k, s) = s - Width(k) + 1
          BY <1>1, <1>5
        <4>2. s \in Int /\ s >= u
          BY <1>5, <2>7
        <4> QED BY <2>2, <4>1, <4>2
      <3>2. Through(k, s + 1, t) = 0
        <4>1. Through(k, s + 1, t) \in Nat
          BY ThroughNat
        <4> QED BY <2>7, <4>1
      <3>3. Through(k, from, s) <= Held(k, from, s)
        <4>1. from > now - Width(k)
          BY <1>1, <1>2, <1>12, <2>2
        <4> QED BY <1>5, <2>2, <4>1 DEF KeyOK, Kept, Held
      <3>4. Through(k, from, t) + 1 <= Limit(k)
        BY <1>5, <1>6, <2>2, <3>1, <3>2, <3>3, RoomForOne
      <3>5. Cardinality(DueIn(k, from, before)') <= Slack
        <4>1. DueIn(k, from, before)' \in SUBSET (InFlight \ {w})
          BY <1>9, <2>2, DueFinite
        <4>2. IsFiniteSet(InFlight) /\ Cardinality(InFlight) \in Nat
          BY DueFinite
        <4>3. /\ IsFiniteSet(InFlight \ {w})
              /\ Cardinality(InFlight \ {w}) = Cardinality(InFlight) - 1
          BY <1>5, <4>2, FS_RemoveElement
        <4>4. Cardinality(DueIn(k, from, before)') <= Cardinality(InFlight \ {w})
          BY <4>1, <4>3, FS_Subset
        <4>5. Cardinality(DueIn(k, from, before)') \in Int
          BY <2>4
        <4> QED BY <1>2, <4>2, <4>3, <4>4, <4>5
      <3>6. Through(k, from, t)' = Through(k, from, t) + 1
        BY <2>3, <3>1
      <3>7. Cardinality(DueIn(k, from, before)') \in Int
        BY <2>4
      <3>8. Through(k, from, t)' + Cardinality(DueIn(k, from, before)') <= Limit(k) + Slack
        BY <1>2, <2>3, <3>4, <3>5, <3>6, <3>7
      <3> QED BY <2>1, <3>8
    <2> QED BY <1>5, <2>2, <2>5, <2>6, <2>7
  <1>13. ASSUME NEW t \in Times, Settled(k, t) \/ Brink(k, t) PROVE Settled(k, t)' \/ Brink(k, t)'
    <2>1. PICK from : from = Opens(k, t)
      OBVIOUS
    <2>2. /\ from \in Int /\ t \in Int /\ from = t - Width(k) + 1
      BY <1>1, <2>1
    <2>3. /\ Through(k, from, t) \in Nat
          /\ from <= s /\ s <= t => Through(k, from, t)' = Through(k, from, t) + 1
          /\ ~(from <= s /\ s <= t) => Through(k, from, t)' = Through(k, from, t)
      BY <1>7, <1>8, <2>2
    <2>4. /\ Cardinality(DueIn(k, from, t)) \in Nat
          /\ Cardinality(DueIn(k, from, t)')
               = IF from <= s /\ s <= t THEN Cardinality(DueIn(k, from, t)) - 1
                                        ELSE Cardinality(DueIn(k, from, t))
      BY <1>9, <2>2
    <2>5. Settled(k, t)' <=>
            Through(k, from, t)' + Cardinality(DueIn(k, from, t)') <= Limit(k) + 2 * Slack
      BY <1>3, <2>1 DEF Settled
    <2>6. CASE Settled(k, t)
      <3>1. Through(k, from, t) + Cardinality(DueIn(k, from, t)) <= Limit(k) + 2 * Slack
        BY <2>1, <2>6 DEF Settled
      <3>2. Through(k, from, t)' + Cardinality(DueIn(k, from, t)') <= Limit(k) + 2 * Slack
        BY <1>2, <2>3, <2>4, <3>1
      <3> QED BY <2>5, <3>2
    <2>7. CASE Brink(k, t)
      <3>1. Cardinality(DueIn(k, from, t)) = Slack + 1
        BY <2>1, <2>7 DEF Brink
      <3>2. from <= s /\ s <= t
        <4>1. DueIn(k, from, t) = InFlight
          <5>1. /\ Cardinality(DueIn(k, from, t)) <= Cardinality(InFlight)
                /\ Cardinality(InFlight) \in Nat
                /\ Cardinality(DueIn(k, from, t)) = Cardinality(InFlight) => DueIn(k, from, t) = InFlight
            BY DueFinite
          <5> QED BY <1>2, <3>1, <5>1
        <4> QED BY <1>5, <1>9, <2>2, <4>1
      <3>3. Through(k, s + 1, t) = 0
        <4>1. Through(k, s + 1, t) \in Nat
          BY ThroughNat
        <4>2. CASE s = t
          BY <1>10, <2>2, <4>2
        <4>3. CASE s # t
          <5>1. PICK next, last : next = s + 1 /\ last = next - 1
            OBVIOUS
          <5>2. next \in from .. t /\ last = s /\ last \in Int
            BY <1>5, <2>2, <3>2, <4>3, <5>1
          <5>3. Through(k, next, t) > 0 => DueIn(k, from, last) = {}
            BY <2>1, <2>7, <5>1, <5>2 DEF Brink
          <5>4. w \in DueIn(k, from, last)
            BY <1>5, <1>9, <2>2, <3>2, <5>2
          <5> QED BY <4>1, <5>1, <5>3, <5>4
        <4> QED BY <4>2, <4>3
      <3>4. Through(k, from, s) <= Held(k, from, s)
        BY <1>5, <2>1, <2>7, <3>2 DEF Brink, Held
      <3>5. from >= Opens(k, s)
        BY <1>1, <1>5, <2>2, <3>2
      <3>6. Through(k, from, t) + 1 <= Limit(k)
        BY <1>5, <1>6, <2>2, <3>2, <3>3, <3>4, <3>5, RoomForOne
      <3>7. Through(k, from, t)' + Cardinality(DueIn(k, from, t)') <= Limit(k) + 2 * Slack
        BY <1>2, <2>3, <2>4, <3>1, <3>2, <3>6
      <3> QED BY <2>5, <3>7
    <2> QED BY <1>13, <2>6, <2>7
  <1> QED BY <1>5, <1>11, <1>12, <1>13 DEF KeyOK

\* A submission that starts keeps what is known of a window.
LEMMA StartKeeps ==
    ASSUME TypeOK, JobsOK, Cardinality(InFlight) <= peak, NEW k \in Keys, KeyOK(k),
           NEW w \in Workers, NEW a \in Accounts, NEW i \in Ips, NEW rule_amount \in BOOLEAN,
           Start(w, a, i, rule_amount)
    PROVE  KeyOK(k)'
  <1>1. /\ Width(k) \in Nat \ {0} /\ Limit(k) \in Nat \ {0} /\ Times = 0 .. MaxTime
        /\ \A t \in Times : t \in Nat /\ Opens(k, t) \in (1 - Width(k)) .. MaxTime
    BY Numbers
  <1>2. Limit(k) \in Nat /\ Slack \in Nat /\ peak \in Nat /\ peak <= Slack + 1 /\ now \in Nat
    BY Numbers
  <1>3. /\ pc[w] = "idle" /\ pc' = [pc EXCEPT ![w] = "ip"]
        /\ job'[w].stamp = now /\ \A v \in Workers \ {w} : job'[v] = job[v]
        /\ peak' = IF Cardinality(InFlight) < peak THEN peak ELSE Cardinality(InFlight) + 1
        /\ UNCHANGED <<now, window, expires, passed>>
    BY DEF Start, Stamp, redis, TypeOK
  <1>4. /\ pc[w] = "idle" /\ pc'[w] = "ip"
        /\ \A v \in Workers \ {w} : pc'[v] = pc[v] /\ job'[v] = job[v]
    BY <1>3 DEF TypeOK
  <1>5. Cardinality(InFlight) \in Nat
    BY DueFinite
  <1>6. /\ Slack' \in Nat /\ Slack' >= Slack
        /\ Cardinality(InFlight) = Slack + 1 => Slack' = Slack + 1
    BY <1>2, <1>3, <1>5 DEF Slack
  <1>7. \A from, to : Through(k, from, to)' = Through(k, from, to)
    <2> TAKE from, to
    <2>1. ClearedIn(k, from, to)' = ClearedIn(k, from, to)
      BY <1>4 DEF ClearedIn, Cleared, Stamped
    <2> QED BY <1>3, <2>1 DEF Through
  <1>8. \A from, to \in Int : to < now => DueIn(k, from, to)' = DueIn(k, from, to)
    <2> TAKE from, to \in Int
    <2>1. SUFFICES ASSUME to < now PROVE DueIn(k, from, to)' = DueIn(k, from, to)
      OBVIOUS
    <2>2. ~Due(w, k)
      BY <1>4 DEF Due
    <2>3. ~(Stamped(w, from, to)')
      BY <1>2, <1>3, <2>1 DEF Stamped
    <2> QED BY <1>4, <2>2, <2>3 DEF DueIn, Due, Concerns, Stamped
  <1>9. Kept(k)' /\ Dated(k)'
    <2>1. Kept(k)'
      BY <1>3, <1>7 DEF KeyOK, Kept
    <2> QED BY <1>3, <2>1 DEF KeyOK, Dated
  <1>10. ASSUME NEW t \in Times, t >= now PROVE Fits(k, t)'
    <2> SUFFICES ASSUME NEW u \in Opens(k, t) .. t, Through(k, u, t)' > 0
                 PROVE  Through(k, Opens(k, t), t)' + Cardinality(DueIn(k, Opens(k, t), u - 1)')
                          <= Limit(k) + Slack'
      BY DEF Fits
    <2>1. PICK from, before : from = Opens(k, t) /\ before = u - 1
      OBVIOUS
    <2>2. /\ from \in Int /\ u \in Int /\ t \in Int /\ before \in Int /\ u <= t
      BY <1>1, <2>1
    <2>3. Through(k, u, t) > 0
      BY <1>7
    <2>4. u <= now
      <3>1. u > now => Through(k, u, t) = 0
        BY <2>2, NothingLater
      <3> QED BY <1>2, <2>2, <2>3, <3>1
    <2>5. DueIn(k, from, before)' = DueIn(k, from, before)
      <3>1. before < now
        BY <1>2, <2>1, <2>2, <2>4
      <3> QED BY <1>8, <2>2, <3>1
    <2>6. Through(k, from, t) + Cardinality(DueIn(k, from, before)) <= Limit(k) + Slack
      BY <1>10, <2>1, <2>3 DEF KeyOK, Fits
    <2>7. Through(k, from, t)' = Through(k, from, t)
      BY <1>7
    <2>8. Through(k, from, t) \in Nat /\ Cardinality(DueIn(k, from, before)) \in Nat
      BY ThroughNat, DueFinite
    <2>9. Through(k, from, t)' + Cardinality(DueIn(k, from, before)') <= Limit(k) + Slack'
      BY <1>2, <1>6, <2>5, <2>6, <2>7, <2>8
    <2> QED BY <2>1, <2>9
  <1>11. ASSUME NEW t \in Times, t < now, Settled(k, t) \/ Brink(k, t) PROVE Settled(k, t)'
    <2>1. PICK from : from = Opens(k, t)
      OBVIOUS
    <2>2. from \in Int /\ t \in Int
      BY <1>1, <2>1
    <2>3. /\ DueIn(k, from, t)' = DueIn(k, from, t) /\ Through(k, from, t)' = Through(k, from, t)
          /\ Through(k, from, t) \in Nat /\ Cardinality(DueIn(k, from, t)) \in Nat
      BY <1>7, <1>8, <1>11, <2>2, ThroughNat, DueFinite
    <2>4. Settled(k, t)' <=>
            Through(k, from, t)' + Cardinality(DueIn(k, from, t)') <= Limit(k) + 2 * Slack'
      BY <2>1 DEF Settled
    <2>5. CASE Settled(k, t)
      <3>1. Through(k, from, t) + Cardinality(DueIn(k, from, t)) <= Limit(k) + 2 * Slack
        BY <2>1, <2>5 DEF Settled
      <3>2. Through(k, from, t)' + Cardinality(DueIn(k, from, t)') <= Limit(k) + 2 * Slack'
        BY <1>2, <1>6, <2>3, <3>1
      <3> QED BY <2>4, <3>2
    <2>6. CASE Brink(k, t)
      <3>1. /\ Cardinality(DueIn(k, from, t)) = Slack + 1
            /\ Through(k, from, t) + Cardinality(DueIn(k, from, t)) <= Limit(k) + 2 * Slack + 1
        BY <2>1, <2>6 DEF Brink
      <3>2. Cardinality(DueIn(k, from, t)) <= Cardinality(InFlight)
        BY DueFinite
      <3>3. Slack' = Slack + 1
        BY <1>2, <1>5, <1>6, <3>1, <3>2
      <3>4. Through(k, from, t)' + Cardinality(DueIn(k, from, t)') <= Limit(k) + 2 * Slack'
        BY <1>2, <2>3, <3>1, <3>3
      <3> QED BY <2>4, <3>4
    <2> QED BY <1>11, <2>5, <2>6
  <1> QED BY <1>3, <1>9, <1>10, <1>11 DEF KeyOK

\* Time that passes keeps what is known of a window, also when its key is dropped:
\* by then every member is two windows old.
LEMMA TickKeeps ==
    ASSUME TypeOK, JobsOK, Cardinality(InFlight) <= peak, NEW k \in Keys, KeyOK(k), Tick
    PROVE  KeyOK(k)'
  <1>1. /\ Width(k) \in Nat \ {0} /\ Times = 0 .. MaxTime /\ now \in Times
        /\ \A t \in Times : t \in Nat /\ Opens(k, t) \in (1 - Width(k)) .. MaxTime
        /\ \A t \in Int : Opens(k, t) = t - Width(k) + 1
    BY Numbers
  <1>2. /\ Limit(k) \in Nat \ {0} /\ Slack \in Nat /\ peak \in Nat /\ peak <= Slack + 1
        /\ now \in Nat /\ Width(k) \in Nat \ {0} /\ Cardinality(InFlight) \in Nat
        /\ Cardinality(InFlight) <= Slack + 1
    <2>1. /\ Limit(k) \in Nat \ {0} /\ Slack \in Nat /\ peak \in Nat /\ peak <= Slack + 1
          /\ now \in Nat /\ Width(k) \in Nat \ {0}
      BY Numbers
    <2>2. Cardinality(InFlight) \in Nat
      BY DueFinite
    <2> QED BY <2>1, <2>2
  <1>3. /\ now' = now + 1 /\ expires' = expires /\ pc' = pc /\ job' = job
        /\ passed' = passed /\ peak' = peak
        /\ window'[k] = IF expires[k] <= now + 1 THEN Empty ELSE window[k]
        /\ \A w \in Workers : pc[w] # "idle" => now < job[w].stamp + Patience
    BY DEF Tick, history
  <1>4. Slack' = Slack
    BY <1>3 DEF Slack
  <1>5. \A from, to : /\ Through(k, from, to)' = Through(k, from, to)
                      /\ DueIn(k, from, to)' = DueIn(k, from, to)
    BY <1>3 DEF Through, ClearedIn, DueIn, Due, Cleared, Concerns, Stamped
  <1>6. expires[k] \in Nat
    BY DEF TypeOK
  <1>7. \A from, to \in Int : from > now + 1 - 2 * Width(k) => Held(k, from, to)' = Held(k, from, to)
    <2> TAKE from, to \in Int
    <2>1. SUFFICES ASSUME from > now + 1 - 2 * Width(k), expires[k] <= now + 1
                   PROVE  Within(window'[k], from, to) = Within(window[k], from, to)
      BY <1>3 DEF Held
    <2>2. \A t \in Times : from <= t /\ t <= to => window[k][t] = 0
      <3> SUFFICES ASSUME NEW t \in Times, from <= t, window[k][t] # 0 PROVE FALSE
        OBVIOUS
      <3>1. t \in Int
        BY <1>1
      <3>2. t + 2 * Width(k) <= expires[k]
        BY DEF KeyOK, Dated
      <3> QED BY <1>2, <1>6, <2>1, <3>1, <3>2
    <2>3. \A t \in Times : window'[k][t] = 0
      BY <1>3, <2>1 DEF Empty
    <2>4. Within(window[k], from, to) = 0
      BY <2>2, WithinNothing
    <2>5. Within(window'[k], from, to) = 0
      BY <2>3, WithinNothing
    <2> QED BY <2>4, <2>5
  <1>8. Kept(k)'
    <2> SUFFICES ASSUME NEW from \in (1 - Width(k)) .. MaxTime, NEW to \in Times,
                        from > now' - Width(k)
                 PROVE  Through(k, from, to)' <= Held(k, from, to)'
      BY DEF Kept, Held
    <2>1. from \in Int /\ to \in Int
      BY <1>1
    <2>2. from > now - Width(k) /\ from > now + 1 - 2 * Width(k)
      BY <1>2, <1>3, <2>1
    <2>3. Through(k, from, to) <= Held(k, from, to)
      BY <2>2 DEF KeyOK, Kept, Held
    <2>4. Held(k, from, to)' = Held(k, from, to)
      BY <1>7, <2>1, <2>2
    <2>5. Through(k, from, to)' = Through(k, from, to)
      BY <1>5
    <2> QED BY <2>3, <2>4, <2>5
  <1>9. Dated(k)'
    <2> SUFFICES ASSUME NEW t \in Times, window'[k][t] # 0
                 PROVE  t <= now + 1 /\ t + 2 * Width(k) <= expires[k]
      BY <1>3 DEF Dated
    <2>1. window[k][t] # 0
      BY <1>3 DEF Empty
    <2>2. t <= now /\ t + 2 * Width(k) <= expires[k]
      BY <2>1 DEF KeyOK, Dated
    <2> QED BY <1>1, <1>2, <2>2
  <1>10. ASSUME NEW t \in Times, t >= now + 1 PROVE Fits(k, t)'
    <2>1. t >= now
      BY <1>1, <1>2, <1>10
    <2>2. Fits(k, t)
      BY <2>1 DEF KeyOK
    <2> QED BY <1>4, <1>5, <2>2 DEF Fits
  <1>11. ASSUME NEW t \in Times, t < now, Patience <= Width(k), Settled(k, t) \/ Brink(k, t)
         PROVE  Settled(k, t)' \/ Brink(k, t)'
    <2>1. CASE Settled(k, t)
      BY <1>4, <1>5, <2>1 DEF Settled
    <2>2. CASE Brink(k, t)
      <3>1. PICK from : from = Opens(k, t)
        OBVIOUS
      <3>2. /\ from \in Int /\ t \in Int /\ from = t - Width(k) + 1
        BY <1>1, <3>1
      <3>3. DueIn(k, from, t) # {}
        <4>1. Cardinality(DueIn(k, from, t)) = Slack + 1
          BY <2>2, <3>1 DEF Brink
        <4>2. Cardinality(DueIn(k, from, t)) # 0
          BY <1>2, <4>1
        <4> QED BY <4>2, FS_EmptySet
      <3>4. PICK w \in Workers : pc[w] # "idle" /\ job[w].stamp <= t
        BY <3>3 DEF DueIn, Due, Stamped
      <3>5. now < job[w].stamp + Patience /\ job[w].stamp \in Nat /\ Patience \in Nat
        BY <1>1, <1>3, <3>4, RuleAssumption DEF JobsOK, Job
      <3>6. from > now + 1 - 2 * Width(k)
        BY <1>2, <1>11, <3>2, <3>4, <3>5
      <3>7. \A to \in Times : Held(k, from, to)' = Held(k, from, to)
        BY <1>1, <1>7, <3>2, <3>6
      <3>8. \A to \in Times : to <= t => Through(k, from, to)' <= Held(k, from, to)'
        BY <1>5, <2>2, <3>1, <3>7 DEF Brink, Held
      <3>9. Brink(k, t)'
        BY <1>4, <1>5, <2>2, <3>1, <3>8 DEF Brink, Held
      <3> QED BY <3>9
    <2> QED BY <1>11, <2>1, <2>2
  <1>12. ASSUME NEW T \in Times, T = now PROVE Settled(k, T)' \/ Brink(k, T)'
    <2>1. PICK from : T = now /\ from = Opens(k, T)
      BY <1>12
    <2>2. /\ T \in Times /\ T \in Int /\ from \in Int /\ from = T - Width(k) + 1
          /\ from \in (1 - Width(k)) .. MaxTime
      BY <1>1, <2>1
    <2>3. /\ Through(k, from, T) \in Nat /\ Cardinality(DueIn(k, from, T)) \in Nat
          /\ Cardinality(DueIn(k, from, T)) <= Cardinality(InFlight)
      BY ThroughNat, DueFinite
    <2>4. \A u \in from .. T : Through(k, u, T) > 0 =>
            Through(k, from, T) + Cardinality(DueIn(k, from, u - 1)) <= Limit(k) + Slack
      <3>1. T >= now
        BY <1>2, <2>1
      <3> QED BY <2>1, <2>2, <3>1 DEF KeyOK, Fits
    <2>5. Through(k, from, T) <= Limit(k) + Slack
      <3>1. CASE Through(k, from, T) > 0
        <4>1. from \in from .. T
          BY <1>2, <2>2
        <4>2. PICK before : before = from - 1
          OBVIOUS
        <4>3. Through(k, from, T) + Cardinality(DueIn(k, from, before)) <= Limit(k) + Slack
          BY <2>4, <3>1, <4>1, <4>2
        <4>4. Cardinality(DueIn(k, from, before)) \in Nat
          BY DueFinite
        <4> QED BY <1>2, <2>3, <4>3, <4>4
      <3>2. CASE ~(Through(k, from, T) > 0)
        BY <1>2, <2>3, <3>2
      <3> QED BY <3>1, <3>2
    <2>6. Settled(k, T)' <=> Through(k, from, T) + Cardinality(DueIn(k, from, T)) <= Limit(k) + 2 * Slack
      BY <1>4, <1>5, <2>1 DEF Settled
    <2>7. SUFFICES ASSUME ~(Through(k, from, T) + Cardinality(DueIn(k, from, T)) <= Limit(k) + 2 * Slack)
                   PROVE  Brink(k, T)'
      BY <2>1, <2>6
    <2>8. /\ Through(k, from, T) = Limit(k) + Slack
          /\ Cardinality(DueIn(k, from, T)) = Slack + 1
          /\ Through(k, from, T) + Cardinality(DueIn(k, from, T)) <= Limit(k) + 2 * Slack + 1
      BY <1>2, <2>3, <2>5, <2>7
    <2>9. ASSUME NEW u \in from .. T, Through(k, u, T) > 0 PROVE DueIn(k, from, u - 1) = {}
      <3>1. Through(k, from, T) + Cardinality(DueIn(k, from, u - 1)) <= Limit(k) + Slack
        BY <2>4, <2>9
      <3>2. Cardinality(DueIn(k, from, u - 1)) \in Nat /\ IsFiniteSet(DueIn(k, from, u - 1))
        BY DueFinite
      <3>3. Cardinality(DueIn(k, from, u - 1)) = 0
        BY <1>2, <2>8, <3>1, <3>2
      <3> QED BY <3>2, <3>3, FS_EmptySet
    <2>10. ASSUME NEW to \in Times PROVE Through(k, from, to) <= Held(k, from, to)'
      <3>0. to \in Int
        BY <1>1
      <3>1. from > now - Width(k) /\ from > now + 1 - 2 * Width(k)
        BY <1>2, <2>1, <2>2
      <3>2. Through(k, from, to) <= Held(k, from, to)
        BY <2>2, <3>1 DEF KeyOK, Kept, Held
      <3>3. Held(k, from, to)' = Held(k, from, to)
        BY <1>7, <2>2, <3>0, <3>1
      <3> QED BY <3>2, <3>3
    <2>11. Brink(k, T)'
      BY <1>4, <1>5, <2>1, <2>8, <2>9, <2>10 DEF Brink, Held
    <2> QED BY <2>11
  <1>13. ASSUME NEW t \in Times, t < now + 1, Patience <= Width(k)
         PROVE  Settled(k, t)' \/ Brink(k, t)'
    <2>1. CASE t < now
      BY <1>11, <1>13, <2>1 DEF KeyOK
    <2>2. CASE t = now
      BY <1>12, <2>2
    <2> QED BY <1>1, <1>2, <1>13, <2>1, <2>2
  <1> QED BY <1>3, <1>8, <1>9, <1>10, <1>13 DEF KeyOK

\* What is known of the submission of a worker on its way.
LEMMA JobParts ==
    ASSUME TypeOK, JobsOK, NEW w \in Workers, pc[w] # "idle"
    PROVE  /\ job[w].account \in Accounts /\ job[w].ip \in Ips /\ job[w].stamp \in Times
           /\ job[w].stamp \in Int /\ job[w].account # job[w].ip
           /\ job[w].account \in Keys /\ job[w].ip \in Keys
           /\ Width(job[w].account) = AccountWindow /\ Limit(job[w].account) = AccountMax
           /\ Width(job[w].ip) = IpWindow /\ Limit(job[w].ip) = IpMax
           /\ pc[w] = "ip" \/ (pc[w] = "account" /\ job[w].rule_amount)
  <1>1. job[w] \in Job
    BY DEF JobsOK
  <1>2. pc[w] = "ip" \/ (pc[w] = "account" /\ job[w].rule_amount)
    BY DEF JobsOK, TypeOK
  <1>3. job[w].account \in Accounts /\ job[w].ip \in Ips /\ job[w].stamp \in Times
    BY <1>1 DEF Job
  <1> QED BY <1>2, <1>3, RuleAssumption DEF Keys, Width, Limit, Times

\* What an answer changes.
LEMMA Answered ==
    ASSUME TypeOK, NEW w \in Workers, NEW anomaly \in BOOLEAN, Answer(w, anomaly)
    PROVE  /\ pc'[w] = "idle" /\ job'[w] = Idle
           /\ \A v \in Workers \ {w} : pc'[v] = pc[v] /\ job'[v] = job[v]
           /\ \A k \in Keys : passed'[k] = IF ~anomaly /\ Concerns(w, k)
                                             THEN Add(passed[k], job[w].stamp) ELSE passed[k]
  BY DEF Answer, TypeOK, Concerns

\* What a pipeline changes.
LEMMA Pipelined ==
    ASSUME TypeOK, NEW p \in Keys, NEW stamp, Pipeline(p, stamp, Width(p))
    PROVE  /\ window'[p] = Recorded(p, stamp, Width(p)) /\ expires'[p] = now + Life(Width(p))
           /\ \A k \in Keys \ {p} : Untouched(k)
  BY DEF Pipeline, TypeOK, Untouched

\* An answer that lets nothing through.
LEMMA Dismissed ==
    ASSUME TypeOK, NEW k \in Keys, NEW w \in Workers, pc'[w] = "idle", passed'[k] = passed[k],
           \A v \in Workers \ {w} : pc'[v] = pc[v] /\ job'[v] = job[v]
    PROVE  \A from, to \in Int : /\ DueIn(k, from, to)' \subseteq DueIn(k, from, to)
                                 /\ Through(k, from, to)' <= Through(k, from, to)
  <1> TAKE from, to \in Int
  <1>1. DueIn(k, from, to)' \subseteq DueIn(k, from, to)
    BY DEF DueIn, Due, Concerns, Stamped
  <1>2. ClearedIn(k, from, to)' \in SUBSET ClearedIn(k, from, to)
    BY DEF ClearedIn, Cleared, Stamped
  <1>3. /\ Cardinality(ClearedIn(k, from, to)') <= Cardinality(ClearedIn(k, from, to))
        /\ Cardinality(ClearedIn(k, from, to)') \in Nat /\ Cardinality(ClearedIn(k, from, to)) \in Nat
    <2>1. IsFiniteSet(ClearedIn(k, from, to)) /\ Cardinality(ClearedIn(k, from, to)) \in Nat
      BY DueFinite
    <2> QED BY <1>2, <2>1, FS_Subset, FS_CardinalityType
  <1>4. passed[k] \in [Times -> Nat]
    BY RuleAssumption DEF TypeOK, Log
  <1>5. Within(passed[k], from, to) \in Nat
    BY <1>4, WithinNat
  <1>6. Through(k, from, to)' <= Through(k, from, to)
    BY <1>3, <1>5 DEF Through
  <1> QED BY <1>1, <1>6

\* An answer that lets through what was due.
LEMMA LetThrough ==
    ASSUME TypeOK, JobsOK, NEW k \in Keys, NEW w \in Workers, Due(w, k), ~Cleared(w, k),
           pc'[w] = "idle", passed'[k] = Add(passed[k], job[w].stamp),
           \A v \in Workers \ {w} : pc'[v] = pc[v] /\ job'[v] = job[v]
    PROVE  \A from, to \in Int :
             /\ DueIn(k, from, to)' = DueIn(k, from, to) \ {w}
             /\ Through(k, from, to)' = Through(k, from, to) + (IF Stamped(w, from, to) THEN 1 ELSE 0)
  <1> TAKE from, to \in Int
  <1>1. DueIn(k, from, to)' = DueIn(k, from, to) \ {w}
    BY DEF DueIn, Due, Concerns, Stamped
  <1>2. ClearedIn(k, from, to)' = ClearedIn(k, from, to)
    BY DEF ClearedIn, Cleared, Stamped
  <1>3. Cardinality(ClearedIn(k, from, to)) \in Nat
    BY DueFinite
  <1>4. passed[k] \in [Times -> Nat]
    BY RuleAssumption DEF TypeOK, Log
  <1>5. job[w].stamp \in Times
    BY JobParts DEF Due
  <1>6. PICK after, stamp : after = passed'[k] /\ stamp = job[w].stamp
    OBVIOUS
  <1>7. Within(after, from, to) = Within(passed[k], from, to) + (IF from <= stamp /\ stamp <= to THEN 1 ELSE 0)
    BY <1>4, <1>5, <1>6, WithinAdd
  <1>8. Within(passed[k], from, to) \in Nat
    BY <1>4, WithinNat
  <1>9. Through(k, from, to)' = Within(after, from, to) + Cardinality(ClearedIn(k, from, to))
    BY <1>2, <1>6 DEF Through
  <1>10. Through(k, from, to)' = Through(k, from, to) + (IF Stamped(w, from, to) THEN 1 ELSE 0)
    BY <1>3, <1>6, <1>7, <1>8, <1>9 DEF Through, Stamped
  <1> QED BY <1>1, <1>10

\* What is not over the limit leaves room for one.
LEMMA NotOver ==
    ASSUME TypeOK, NEW k \in Keys, NEW stamp \in Times, ~Over(CountAt(k, stamp, Width(k)), Limit(k))
    PROVE  Held(k, Opens(k, stamp), stamp) + 1 <= Limit(k)
  <1>1. Width(k) \in Nat \ {0} /\ Limit(k) \in Nat /\ stamp \in Nat
    BY Numbers
  <1>2. CountAt(k, stamp, Width(k)) = Held(k, Opens(k, stamp), stamp) + 1
    BY <1>1, CountParts DEF Held, Opens
  <1>3. Held(k, Opens(k, stamp), stamp) \in Nat
    BY ThroughNat
  <1> QED BY <1>1, <1>2, <1>3 DEF Over

-----------------------------------------------------------------------------
(* Every step of a worker is quiet for a window, or passes *)

\* The pipeline of the IP finds a burst.
LEMMA IpBurstParts ==
    ASSUME TypeOK, JobsOK, NEW w \in Workers, IpBurst(w), NEW k \in Keys
    PROVE  Quiet(w, k)
  <1>1. pc[w] = "ip" /\ Answer(w, TRUE) /\ Pipeline(job[w].ip, job[w].stamp, Width(job[w].ip))
    BY JobParts DEF IpBurst
  <1>2. PICK p : p = job[w].ip
    OBVIOUS
  <1>3. p \in Keys
    BY <1>1, <1>2, JobParts
  <1>4. /\ pc'[w] = "idle" /\ passed'[k] = passed[k]
        /\ \A v \in Workers \ {w} : pc'[v] = pc[v] /\ job'[v] = job[v]
    BY <1>1, Answered
  <1>5. /\ window'[p] = Recorded(p, job[w].stamp, Width(p)) /\ expires'[p] = now + Life(Width(p))
        /\ \A x \in Keys \ {p} : Untouched(x)
    BY <1>1, <1>2, <1>3, Pipelined
  <1>6. k = p => Noted(w, k)
    BY <1>1, <1>2, <1>4, <1>5 DEF Noted, Due, Concerns
  <1>7. \A from, to \in Int : /\ DueIn(k, from, to)' \subseteq DueIn(k, from, to)
                              /\ Through(k, from, to)' <= Through(k, from, to)
    BY <1>4, Dismissed
  <1> QED BY <1>5, <1>6, <1>7 DEF Quiet

\* It finds none, and nothing is left to do.
LEMMA IpClearParts ==
    ASSUME TypeOK, JobsOK, NEW w \in Workers, IpClear(w), NEW k \in Keys
    PROVE  Quiet(w, k) \/ Passes(w, k)
  <1>1. /\ pc[w] = "ip" /\ Answer(w, FALSE) /\ Pipeline(job[w].ip, job[w].stamp, Width(job[w].ip))
        /\ ~job[w].rule_amount /\ ~Over(CountAt(job[w].ip, job[w].stamp, Width(job[w].ip)), Limit(job[w].ip))
    BY JobParts DEF IpClear
  <1>2. PICK p : p = job[w].ip
    OBVIOUS
  <1>3. p \in Keys /\ job[w].stamp \in Times
    BY <1>1, <1>2, JobParts
  <1>4. /\ pc'[w] = "idle"
        /\ k = p => passed'[k] = Add(passed[k], job[w].stamp)
        /\ k # p => passed'[k] = passed[k]
        /\ \A v \in Workers \ {w} : pc'[v] = pc[v] /\ job'[v] = job[v]
    BY <1>1, <1>2, Answered DEF Concerns
  <1>5. /\ window'[p] = Recorded(p, job[w].stamp, Width(p)) /\ expires'[p] = now + Life(Width(p))
        /\ \A x \in Keys \ {p} : Untouched(x)
    BY <1>1, <1>2, <1>3, Pipelined
  <1>6. CASE k = p
    <2>1. Noted(w, k)
      BY <1>1, <1>2, <1>4, <1>5, <1>6 DEF Noted, Due, Concerns
    <2>2. Held(k, Opens(k, job[w].stamp), job[w].stamp) + 1 <= Limit(k)
      BY <1>1, <1>2, <1>3, <1>6, NotOver
    <2>3. Due(w, k) /\ ~Cleared(w, k)
      BY <1>1, <2>1 DEF Noted, Cleared
    <2>4. \A from, to \in Int :
            /\ DueIn(k, from, to)' = DueIn(k, from, to) \ {w}
            /\ Through(k, from, to)' = Through(k, from, to) + (IF Stamped(w, from, to) THEN 1 ELSE 0)
      BY <1>4, <1>6, <2>3, LetThrough
    <2> QED BY <2>1, <2>2, <2>4 DEF Passes
  <1>7. CASE k # p
    <2>1. \A from, to \in Int : /\ DueIn(k, from, to)' \subseteq DueIn(k, from, to)
                                /\ Through(k, from, to)' <= Through(k, from, to)
      BY <1>4, <1>7, Dismissed
    <2> QED BY <1>5, <1>7, <2>1 DEF Quiet
  <1> QED BY <1>6, <1>7

\* It finds none, and the account is next: the IP counts it as let through already.
LEMMA IpNextParts ==
    ASSUME TypeOK, JobsOK, NEW w \in Workers, IpNext(w), NEW k \in Keys
    PROVE  Quiet(w, k) \/ Passes(w, k)
  <1>1. /\ pc[w] = "ip" /\ Pipeline(job[w].ip, job[w].stamp, Width(job[w].ip))
        /\ job[w].rule_amount /\ ~Over(CountAt(job[w].ip, job[w].stamp, Width(job[w].ip)), Limit(job[w].ip))
        /\ pc' = [pc EXCEPT ![w] = "account"] /\ job' = job /\ passed' = passed
    BY JobParts DEF IpNext, history
  <1>2. PICK p : p = job[w].ip
    OBVIOUS
  <1>3. p \in Keys /\ job[w].stamp \in Times /\ job[w].account # p
    BY <1>1, <1>2, JobParts
  <1>4. pc'[w] = "account" /\ \A v \in Workers \ {w} : pc'[v] = pc[v]
    BY <1>1 DEF TypeOK
  <1>5. /\ window'[p] = Recorded(p, job[w].stamp, Width(p)) /\ expires'[p] = now + Life(Width(p))
        /\ \A x \in Keys \ {p} : Untouched(x)
    BY <1>1, <1>2, <1>3, Pipelined
  <1>6. CASE k = p
    <2>1. Noted(w, k)
      BY <1>1, <1>2, <1>3, <1>4, <1>5, <1>6 DEF Noted, Due, Concerns
    <2>2. Held(k, Opens(k, job[w].stamp), job[w].stamp) + 1 <= Limit(k)
      BY <1>1, <1>2, <1>3, <1>6, NotOver
    <2>3. ASSUME NEW from \in Int, NEW to \in Int
          PROVE  DueIn(k, from, to)' = DueIn(k, from, to) \ {w}
      BY <1>1, <1>4, <2>1 DEF DueIn, Noted, Due, Concerns, Stamped
    <2>4. ASSUME NEW from \in Int, NEW to \in Int
          PROVE  Through(k, from, to)' = Through(k, from, to) + (IF Stamped(w, from, to) THEN 1 ELSE 0)
      <3>1. w \notin ClearedIn(k, from, to)
        BY <1>1 DEF ClearedIn, Cleared
      <3>2. ClearedIn(k, from, to)' = IF Stamped(w, from, to) THEN ClearedIn(k, from, to) \cup {w}
                                                              ELSE ClearedIn(k, from, to)
        BY <1>1, <1>2, <1>4, <1>6 DEF ClearedIn, Cleared, Stamped
      <3>3. IsFiniteSet(ClearedIn(k, from, to)) /\ Cardinality(ClearedIn(k, from, to)) \in Nat
        BY DueFinite
      <3>4. Cardinality(ClearedIn(k, from, to)')
              = Cardinality(ClearedIn(k, from, to)) + (IF Stamped(w, from, to) THEN 1 ELSE 0)
        BY <3>1, <3>2, <3>3, FS_AddElement
      <3>5. passed[k] \in [Times -> Nat]
        BY RuleAssumption DEF TypeOK, Log
      <3>6. Within(passed[k], from, to) \in Nat
        BY <3>5, WithinNat
      <3> QED BY <1>1, <3>3, <3>4, <3>6 DEF Through
    <2> QED BY <2>1, <2>2, <2>3, <2>4 DEF Passes
  <1>7. CASE k # p
    <2>1. ASSUME NEW from \in Int, NEW to \in Int
          PROVE  /\ DueIn(k, from, to)' = DueIn(k, from, to)
                 /\ ClearedIn(k, from, to)' = ClearedIn(k, from, to)
      <3>1. DueIn(k, from, to)' = DueIn(k, from, to)
        BY <1>1, <1>2, <1>4, <1>7 DEF DueIn, Due, Concerns, Stamped
      <3>2. ClearedIn(k, from, to)' = ClearedIn(k, from, to)
        BY <1>1, <1>2, <1>4, <1>7 DEF ClearedIn, Cleared, Stamped
      <3> QED BY <3>1, <3>2
    <2>2. ASSUME NEW from \in Int, NEW to \in Int PROVE Through(k, from, to)' <= Through(k, from, to)
      <3>1. Through(k, from, to)' = Through(k, from, to)
        BY <1>1, <2>1 DEF Through
      <3>2. Through(k, from, to) \in Nat
        BY ThroughNat
      <3> QED BY <3>1, <3>2
    <2> QED BY <1>5, <1>7, <2>1, <2>2 DEF Quiet
  <1> QED BY <1>6, <1>7

\* The pipeline of the account finds the pattern.
LEMMA AccountPatternParts ==
    ASSUME TypeOK, JobsOK, NEW w \in Workers, AccountPattern(w), NEW k \in Keys
    PROVE  Quiet(w, k)
  <1>1. /\ pc[w] = "account" /\ Answer(w, TRUE)
        /\ Pipeline(job[w].account, job[w].stamp, Width(job[w].account))
    BY JobParts DEF AccountPattern
  <1>2. PICK p : p = job[w].account
    OBVIOUS
  <1>3. p \in Keys
    BY <1>1, <1>2, JobParts
  <1>4. /\ pc'[w] = "idle" /\ passed'[k] = passed[k]
        /\ \A v \in Workers \ {w} : pc'[v] = pc[v] /\ job'[v] = job[v]
    BY <1>1, Answered
  <1>5. /\ window'[p] = Recorded(p, job[w].stamp, Width(p)) /\ expires'[p] = now + Life(Width(p))
        /\ \A x \in Keys \ {p} : Untouched(x)
    BY <1>1, <1>2, <1>3, Pipelined
  <1>6. k = p => Noted(w, k)
    BY <1>1, <1>2, <1>4, <1>5 DEF Noted, Due
  <1>7. \A from, to \in Int : /\ DueIn(k, from, to)' \subseteq DueIn(k, from, to)
                              /\ Through(k, from, to)' <= Through(k, from, to)
    BY <1>4, Dismissed
  <1> QED BY <1>5, <1>6, <1>7 DEF Quiet

\* It does not: the IP answers what it had let through.
LEMMA AccountClearParts ==
    ASSUME TypeOK, JobsOK, NEW w \in Workers, AccountClear(w), NEW k \in Keys
    PROVE  Quiet(w, k) \/ Passes(w, k)
  <1>1. /\ pc[w] = "account" /\ Answer(w, FALSE)
        /\ Pipeline(job[w].account, job[w].stamp, Width(job[w].account))
        /\ ~Over(CountAt(job[w].account, job[w].stamp, Width(job[w].account)), Limit(job[w].account))
    BY JobParts DEF AccountClear
  <1>2. PICK p, q : p = job[w].account /\ q = job[w].ip
    OBVIOUS
  <1>3. p \in Keys /\ job[w].stamp \in Times /\ p # q /\ job[w].rule_amount
    BY <1>1, <1>2, JobParts
  <1>4. /\ pc'[w] = "idle"
        /\ k = p \/ k = q => passed'[k] = Add(passed[k], job[w].stamp)
        /\ k # p /\ k # q => passed'[k] = passed[k]
        /\ \A v \in Workers \ {w} : pc'[v] = pc[v] /\ job'[v] = job[v]
    <2>1. /\ pc'[w] = "idle"
          /\ \A v \in Workers \ {w} : pc'[v] = pc[v] /\ job'[v] = job[v]
          /\ passed'[k] = IF Concerns(w, k) THEN Add(passed[k], job[w].stamp) ELSE passed[k]
      BY <1>1, Answered
    <2>2. Concerns(w, k) <=> k = p \/ k = q
      BY <1>2, <1>3 DEF Concerns
    <2> QED BY <2>1, <2>2
  <1>5. /\ window'[p] = Recorded(p, job[w].stamp, Width(p)) /\ expires'[p] = now + Life(Width(p))
        /\ \A x \in Keys \ {p} : Untouched(x)
    BY <1>1, <1>2, <1>3, Pipelined
  <1>6. CASE k = p
    <2>1. Noted(w, k)
      BY <1>1, <1>2, <1>4, <1>5, <1>6 DEF Noted, Due
    <2>2. Held(k, Opens(k, job[w].stamp), job[w].stamp) + 1 <= Limit(k)
      BY <1>1, <1>2, <1>3, <1>6, NotOver
    <2>3. Due(w, k) /\ ~Cleared(w, k)
      BY <1>2, <1>3, <1>6, <2>1 DEF Noted, Cleared
    <2>4. \A from, to \in Int :
            /\ DueIn(k, from, to)' = DueIn(k, from, to) \ {w}
            /\ Through(k, from, to)' = Through(k, from, to) + (IF Stamped(w, from, to) THEN 1 ELSE 0)
      BY <1>4, <1>6, <2>3, LetThrough
    <2> QED BY <2>1, <2>2, <2>4 DEF Passes
  <1>7. CASE k = q
    <2>1. ASSUME NEW from \in Int, NEW to \in Int
          PROVE  DueIn(k, from, to)' \subseteq DueIn(k, from, to)
      BY <1>4 DEF DueIn, Due, Concerns, Stamped
    <2>2. ASSUME NEW from \in Int, NEW to \in Int PROVE Through(k, from, to)' <= Through(k, from, to)
      <3>1. ClearedIn(k, from, to)' = ClearedIn(k, from, to) \ {w}
        BY <1>4 DEF ClearedIn, Cleared, Stamped
      <3>2. w \in ClearedIn(k, from, to) <=> Stamped(w, from, to)
        BY <1>1, <1>2, <1>7 DEF ClearedIn, Cleared
      <3>3. IsFiniteSet(ClearedIn(k, from, to)) /\ Cardinality(ClearedIn(k, from, to)) \in Nat
        BY DueFinite
      <3>4. Cardinality(ClearedIn(k, from, to)')
              = Cardinality(ClearedIn(k, from, to)) - (IF Stamped(w, from, to) THEN 1 ELSE 0)
        <4>1. Cardinality(ClearedIn(k, from, to) \ {w})
                = IF w \in ClearedIn(k, from, to) THEN Cardinality(ClearedIn(k, from, to)) - 1
                                                  ELSE Cardinality(ClearedIn(k, from, to))
          BY <3>3, FS_RemoveElement
        <4> QED BY <3>1, <3>2, <3>3, <4>1
      <3>5. passed[k] \in [Times -> Nat]
        BY RuleAssumption DEF TypeOK, Log
      <3>6. PICK after, stamp : after = passed'[k] /\ stamp = job[w].stamp
        OBVIOUS
      <3>7. Within(after, from, to)
              = Within(passed[k], from, to) + (IF from <= stamp /\ stamp <= to THEN 1 ELSE 0)
        BY <1>3, <1>4, <1>7, <3>5, <3>6, WithinAdd
      <3>8. Within(passed[k], from, to) \in Nat
        BY <3>5, WithinNat
      <3>9. Through(k, from, to)' = Within(after, from, to) + Cardinality(ClearedIn(k, from, to)')
        BY <3>6 DEF Through
      <3> QED BY <3>3, <3>4, <3>6, <3>7, <3>8, <3>9 DEF Through, Stamped
    <2> QED BY <1>2, <1>3, <1>5, <1>7, <2>1, <2>2 DEF Quiet
  <1>8. CASE k # p /\ k # q
    <2>1. \A from, to \in Int : /\ DueIn(k, from, to)' \subseteq DueIn(k, from, to)
                                /\ Through(k, from, to)' <= Through(k, from, to)
      BY <1>4, <1>8, Dismissed
    <2> QED BY <1>5, <1>8, <2>1 DEF Quiet
  <1> QED BY <1>6, <1>7, <1>8

\* Redis fails, before or after it ran the pipeline.
LEMMA FailParts ==
    ASSUME TypeOK, JobsOK, NEW w \in Workers, Fail(w), NEW k \in Keys
    PROVE  Quiet(w, k)
  <1>1. pc[w] # "idle" /\ Answer(w, TRUE)
    BY DEF Fail
  <1>2. /\ pc'[w] = "idle" /\ passed'[k] = passed[k]
        /\ \A v \in Workers \ {w} : pc'[v] = pc[v] /\ job'[v] = job[v]
    BY <1>1, Answered
  <1>3. Untouched(k) \/ Noted(w, k)
    <2>1. CASE UNCHANGED redis
      BY <2>1 DEF redis, Untouched
    <2>2. ASSUME NEW p \in Keys, Due(w, p), Pipeline(p, job[w].stamp, Width(p))
          PROVE  Untouched(k) \/ Noted(w, k)
      <3>1. /\ window'[p] = Recorded(p, job[w].stamp, Width(p)) /\ expires'[p] = now + Life(Width(p))
            /\ \A x \in Keys \ {p} : Untouched(x)
        BY <2>2, Pipelined
      <3>2. k = p => Noted(w, k)
        BY <1>2, <2>2, <3>1 DEF Noted, Due
      <3> QED BY <3>1, <3>2
    <2>3. CASE pc[w] = "ip" /\ Pipeline(job[w].ip, job[w].stamp, IpWindow)
      <3>1. job[w].ip \in Keys /\ Width(job[w].ip) = IpWindow /\ Due(w, job[w].ip)
        BY <1>1, <2>3, JobParts DEF Due, Concerns
      <3> QED BY <2>2, <2>3, <3>1
    <2>4. CASE pc[w] = "account" /\ Pipeline(job[w].account, job[w].stamp, AccountWindow)
      <3>1. job[w].account \in Keys /\ Width(job[w].account) = AccountWindow /\ Due(w, job[w].account)
        BY <1>1, <2>4, JobParts DEF Due
      <3> QED BY <2>2, <2>4, <3>1
    <2> QED BY <2>1, <2>3, <2>4 DEF Fail
  <1>4. \A from, to \in Int : /\ DueIn(k, from, to)' \subseteq DueIn(k, from, to)
                              /\ Through(k, from, to)' <= Through(k, from, to)
    BY <1>2, Dismissed
  <1> QED BY <1>3, <1>4 DEF Quiet

\* What a step of a worker does to each window.
LEMMA StepParts ==
    ASSUME TypeOK, JobsOK, NEW w \in Workers, WorkerStep(w), NEW k \in Keys
    PROVE  Quiet(w, k) \/ Passes(w, k)
  BY IpBurstParts, IpClearParts, IpNextParts, AccountPatternParts, AccountClearParts, FailParts
     DEF WorkerStep

-----------------------------------------------------------------------------
(* What a step does to the counts *)

Counts == [Keys -> [Times -> Nat]]

\* A pipeline leaves windows and dates.
LEMMA PipelineType ==
    ASSUME TypeOK, NEW p \in Keys, NEW stamp \in Times, NEW width \in Nat, Pipeline(p, stamp, width)
    PROVE  window' \in Counts /\ expires' \in [Keys -> Nat]
  <1>1. now \in Nat /\ now + Life(width) \in Nat
    <2>1. now \in Nat
      BY Numbers
    <2> QED BY <2>1 DEF Life
  <1>2. window \in Counts
    BY RuleAssumption DEF TypeOK, Log, Counts
  <1>3. Recorded(p, stamp, width) \in [Times -> Nat]
    <2>1. window[p] \in [Times -> Nat]
      BY <1>2 DEF Counts
    <2>2. Add(window[p], stamp) \in [Times -> Nat]
      BY <2>1, WithinAdd
    <2> QED BY <2>2 DEF Recorded, Prune
  <1>4. window' \in Counts
    BY <1>2, <1>3 DEF Pipeline, Counts
  <1> QED BY <1>1, <1>4 DEF Pipeline, TypeOK

\* What every step of a worker leaves alone, and how it leaves the worker.
LEMMA StepLeaves ==
    ASSUME TypeOK, JobsOK, NEW w \in Workers, WorkerStep(w)
    PROVE  /\ pc[w] # "idle" /\ UNCHANGED <<now, attempts, peak>>
           /\ window' \in Counts /\ expires' \in [Keys -> Nat]
           /\ \/ \E anomaly \in BOOLEAN : Answer(w, anomaly)
              \/ /\ pc' = [pc EXCEPT ![w] = "account"] /\ UNCHANGED <<job, passed>>
                 /\ job[w].rule_amount
           /\ alarms' = alarms \/ AccountPattern(w)
  <1>1. pc[w] # "idle" /\ UNCHANGED <<now, attempts, peak>>
    BY DEF WorkerStep, IpBurst, IpClear, IpNext, AccountPattern, AccountClear, Fail, history
  <1>2. /\ job[w].account \in Keys /\ job[w].ip \in Keys /\ job[w].stamp \in Times
        /\ AccountWindow \in Nat /\ IpWindow \in Nat
    BY <1>1, JobParts, RuleAssumption
  <1>3. \/ UNCHANGED redis
        \/ Pipeline(job[w].ip, job[w].stamp, IpWindow)
        \/ Pipeline(job[w].account, job[w].stamp, AccountWindow)
    BY DEF WorkerStep, IpBurst, IpClear, IpNext, AccountPattern, AccountClear, Fail
  <1>4. window' \in Counts /\ expires' \in [Keys -> Nat]
    <2>1. CASE UNCHANGED redis
      BY <2>1, RuleAssumption DEF redis, TypeOK, Log, Counts
    <2>2. CASE Pipeline(job[w].ip, job[w].stamp, IpWindow)
      BY <1>2, <2>2, PipelineType
    <2>3. CASE Pipeline(job[w].account, job[w].stamp, AccountWindow)
      BY <1>2, <2>3, PipelineType
    <2> QED BY <1>3, <2>1, <2>2, <2>3
  <1>5. \/ \E anomaly \in BOOLEAN : Answer(w, anomaly)
        \/ /\ pc' = [pc EXCEPT ![w] = "account"] /\ UNCHANGED <<job, passed>>
           /\ job[w].rule_amount
    BY DEF WorkerStep, IpBurst, IpClear, IpNext, AccountPattern, AccountClear, Fail, history
  <1>6. alarms' = alarms \/ AccountPattern(w)
    BY DEF WorkerStep, IpBurst, IpClear, IpNext, AccountClear, Fail, history
  <1> QED BY <1>1, <1>4, <1>5, <1>6

\* What a step of a worker records was due.
LEMMA StepRecords ==
    ASSUME TypeOK, JobsOK, NEW w \in Workers, WorkerStep(w), NEW k \in Keys, NEW t \in Times
    PROVE  window'[k][t] + Cardinality(DueIn(k, t, t)') <= window[k][t] + Cardinality(DueIn(k, t, t))
  <1>1. t \in Int /\ window[k] \in [Times -> Nat] /\ window'[k] \in [Times -> Nat]
    <2>1. t \in Int /\ window[k] \in [Times -> Nat]
      BY RuleAssumption DEF Times, TypeOK, Log
    <2>2. window' \in Counts
      BY StepLeaves
    <2> QED BY <2>1, <2>2 DEF Counts
  <1>2. IsFiniteSet(DueIn(k, t, t)) /\ Cardinality(DueIn(k, t, t)) \in Nat
    BY DueFinite
  <1>3. Quiet(w, k) \/ Passes(w, k)
    BY StepParts
  <1>4. DueIn(k, t, t)' \in SUBSET DueIn(k, t, t)
    BY <1>1, <1>3 DEF Quiet, Passes
  <1>5. /\ Cardinality(DueIn(k, t, t)') \in Nat
        /\ Cardinality(DueIn(k, t, t)') <= Cardinality(DueIn(k, t, t))
    BY <1>2, <1>4, FS_Subset, FS_CardinalityType
  <1>6. CASE Untouched(k)
    BY <1>1, <1>2, <1>5, <1>6 DEF Untouched
  <1>7. CASE Noted(w, k)
    <2>1. pc[w] # "idle"
      BY <1>7 DEF Noted, Due
    <2>2. PICK new, stamp, width : new = window'[k] /\ stamp = job[w].stamp /\ width = Width(k)
      OBVIOUS
    <2>3. stamp \in Times /\ width \in Nat \ {0}
      BY <2>1, <2>2, JobParts, Numbers
    <2>4. new = Prune(Add(window[k], stamp), stamp - width)
      BY <1>7, <2>2 DEF Noted, Recorded
    <2>5. new[t] <= window[k][t] + (IF t = stamp THEN 1 ELSE 0)
      <3>1. window[k] \in [Times -> Nat]
        BY <1>1
      <3>2. \A x \in Times : /\ new[x] <= window[k][x] + (IF x = stamp THEN 1 ELSE 0)
                             /\ new[x] # 0 => window[k][x] # 0 \/ x = stamp
        BY <2>3, <2>4, <3>1, RecordedParts
      <3> QED BY <3>2
    <2>6. CASE t = stamp
      <3>1. w \in DueIn(k, t, t)
        BY <1>1, <1>7, <2>2, <2>6 DEF DueIn, Noted, Stamped
      <3>2. DueIn(k, t, t)' \in SUBSET (DueIn(k, t, t) \ {w})
        BY <1>4, <1>7 DEF DueIn, Noted
      <3>3. /\ IsFiniteSet(DueIn(k, t, t) \ {w})
            /\ Cardinality(DueIn(k, t, t) \ {w}) = Cardinality(DueIn(k, t, t)) - 1
        BY <1>2, <3>1, FS_RemoveElement
      <3>4. Cardinality(DueIn(k, t, t)') <= Cardinality(DueIn(k, t, t) \ {w})
        BY <3>2, <3>3, FS_Subset
      <3> QED BY <1>1, <1>2, <1>5, <2>2, <2>5, <2>6, <3>3, <3>4
    <2>7. CASE t # stamp
      BY <1>1, <1>2, <1>5, <2>2, <2>5, <2>7
    <2> QED BY <2>6, <2>7
  <1> QED BY <1>3, <1>6, <1>7 DEF Quiet, Passes

\* What a step of a worker answers was on its way.
LEMMA StepAnswers ==
    ASSUME TypeOK, JobsOK, NEW w \in Workers, WorkerStep(w), NEW k \in Keys, NEW t \in Times
    PROVE  /\ passed'[k] \in [Times -> Nat]
           /\ passed'[k][t] + Cardinality(FlyingAt(k, t)') <= passed[k][t] + Cardinality(FlyingAt(k, t))
  <1>1. passed[k] \in [Times -> Nat] /\ pc[w] # "idle"
    BY RuleAssumption, StepLeaves DEF TypeOK, Log
  <1>2. IsFiniteSet(FlyingAt(k, t)) /\ Cardinality(FlyingAt(k, t)) \in Nat
    <2>1. FlyingAt(k, t) \in SUBSET Workers
      BY DEF FlyingAt
    <2> QED BY <2>1, RuleAssumption, FS_Subset, FS_CardinalityType
  <1>3. ASSUME NEW anomaly \in BOOLEAN, Answer(w, anomaly)
        PROVE  /\ passed'[k] \in [Times -> Nat]
               /\ passed'[k][t] + Cardinality(FlyingAt(k, t)')
                    <= passed[k][t] + Cardinality(FlyingAt(k, t))
    <2>1. /\ pc'[w] = "idle"
          /\ \A v \in Workers \ {w} : pc'[v] = pc[v] /\ job'[v] = job[v]
          /\ passed'[k] = IF ~anomaly /\ Concerns(w, k) THEN Add(passed[k], job[w].stamp) ELSE passed[k]
      BY <1>3, Answered
    <2>2. FlyingAt(k, t)' = FlyingAt(k, t) \ {w}
      BY <2>1 DEF FlyingAt, Concerns
    <2>3. Cardinality(FlyingAt(k, t) \ {w})
            = IF w \in FlyingAt(k, t) THEN Cardinality(FlyingAt(k, t)) - 1
                                      ELSE Cardinality(FlyingAt(k, t))
      BY <1>2, FS_RemoveElement
    <2>4. w \in FlyingAt(k, t) <=> Concerns(w, k) /\ job[w].stamp = t
      BY <1>1 DEF FlyingAt
    <2>5. CASE ~anomaly /\ Concerns(w, k)
      <3>1. passed'[k] = Add(passed[k], job[w].stamp) /\ job[w].stamp \in Times
        BY <1>1, <2>1, <2>5, JobParts
      <3>2. /\ passed'[k] \in [Times -> Nat]
            /\ passed'[k][t] = IF job[w].stamp = t THEN passed[k][t] + 1 ELSE passed[k][t]
        BY <1>1, <3>1 DEF Add
      <3>3. passed[k][t] \in Nat
        BY <1>1
      <3> QED BY <1>2, <2>2, <2>3, <2>4, <2>5, <3>2, <3>3
    <2>6. CASE ~(~anomaly /\ Concerns(w, k))
      <3>1. passed'[k] = passed[k] /\ passed[k][t] \in Nat
        BY <1>1, <2>1, <2>6
      <3> QED BY <1>1, <1>2, <2>2, <2>3, <3>1
    <2> QED BY <2>5, <2>6
  <1>4. CASE pc' = [pc EXCEPT ![w] = "account"] /\ UNCHANGED <<job, passed>>
    <2>1. FlyingAt(k, t)' = FlyingAt(k, t)
      BY <1>1, <1>4 DEF FlyingAt, Concerns, TypeOK
    <2> QED BY <1>1, <1>2, <1>4, <2>1
  <1> QED BY <1>3, <1>4, StepLeaves

-----------------------------------------------------------------------------
(* Every step keeps the invariant *)

\* A step of a worker keeps the invariant.
LEMMA StepInvariant ==
    ASSUME WInv, NEW w \in Workers, WorkerStep(w)
    PROVE  WInv'
  <1>1. /\ TypeOK /\ JobsOK /\ Counted /\ NoFalseAlarm /\ Cardinality(InFlight) <= peak
        /\ \A k \in Keys : KeyOK(k)
    BY DEF WInv
  <1>2. /\ pc[w] # "idle" /\ UNCHANGED <<now, attempts, peak>>
        /\ window' \in Counts /\ expires' \in [Keys -> Nat]
        /\ \/ \E anomaly \in BOOLEAN : Answer(w, anomaly)
           \/ /\ pc' = [pc EXCEPT ![w] = "account"] /\ UNCHANGED <<job, passed>>
              /\ job[w].rule_amount
        /\ alarms' = alarms \/ AccountPattern(w)
    BY <1>1, StepLeaves
  <1>3. /\ pc' \in [Workers -> {"idle", "ip", "account"}] /\ job' \in [Workers -> Job \cup {Idle}]
        /\ \A v \in Workers \ {w} : pc'[v] = pc[v] /\ job'[v] = job[v]
        /\ \/ pc'[w] = "idle"
           \/ pc'[w] = "account" /\ job'[w] = job[w] /\ job[w].rule_amount
        /\ passed' \in [Keys -> [Times -> Nat]]
    <2>1. passed \in [Keys -> [Times -> Nat]]
      BY <1>1, RuleAssumption DEF TypeOK, Log
    <2>2. ASSUME NEW anomaly \in BOOLEAN, Answer(w, anomaly)
          PROVE  passed' \in [Keys -> [Times -> Nat]]
      <3>1. \A k \in Keys : passed'[k] \in [Times -> Nat]
        BY <1>1, StepAnswers, 0 \in 0 .. 0, RuleAssumption DEF Times
      <3> QED BY <2>2, <3>1 DEF Answer
    <2>3. CASE \E anomaly \in BOOLEAN : Answer(w, anomaly)
      BY <1>1, <2>2, <2>3 DEF Answer, TypeOK
    <2>4. CASE /\ pc' = [pc EXCEPT ![w] = "account"] /\ UNCHANGED <<job, passed>>
               /\ job[w].rule_amount
      BY <1>1, <2>1, <2>4 DEF TypeOK
    <2> QED BY <1>2, <2>3, <2>4
  <1>4. Submissions' = Submissions
    BY <1>2 DEF Submissions
  <1>5. Counted'
    <2>1. ASSUME NEW k \in Keys, NEW t \in Times
          PROVE  /\ window'[k][t] + Cardinality(DueIn(k, t, t)') <= attempts[k][t]
                 /\ passed'[k][t] + Cardinality(FlyingAt(k, t)') <= attempts[k][t]
      <3>1. /\ window[k][t] + Cardinality(DueIn(k, t, t)) <= attempts[k][t]
            /\ passed[k][t] + Cardinality(FlyingAt(k, t)) <= attempts[k][t]
        BY <1>1 DEF Counted
      <3>2. window'[k][t] + Cardinality(DueIn(k, t, t)') <= window[k][t] + Cardinality(DueIn(k, t, t))
        BY <1>1, StepRecords
      <3>3. passed'[k][t] + Cardinality(FlyingAt(k, t)') <= passed[k][t] + Cardinality(FlyingAt(k, t))
        BY <1>1, StepAnswers
      <3>4. /\ window[k][t] \in Int /\ passed[k][t] \in Int /\ attempts[k][t] \in Int
            /\ window'[k][t] \in Int /\ passed'[k][t] \in Int
        BY <1>1, <1>2, <1>3, RuleAssumption DEF TypeOK, Log, Counts
      <3>5. /\ FlyingAt(k, t) \in SUBSET Workers /\ FlyingAt(k, t)' \in SUBSET Workers
            /\ DueIn(k, t, t) \in SUBSET Workers /\ DueIn(k, t, t)' \in SUBSET Workers
        BY DEF FlyingAt, DueIn
      <3>6. /\ Cardinality(DueIn(k, t, t)) \in Int /\ Cardinality(DueIn(k, t, t)') \in Int
            /\ Cardinality(FlyingAt(k, t)) \in Int /\ Cardinality(FlyingAt(k, t)') \in Int
        BY <3>5, RuleAssumption, FS_Subset, FS_CardinalityType
      <3> QED BY <3>1, <3>2, <3>3, <3>4, <3>6
    <2> QED BY <1>1, <1>2, <1>4, <2>1 DEF Counted
  <1>6. TypeOK'
    <2>1. ASSUME NEW k \in Keys, NEW t \in Times
          PROVE  window'[k][t] \in 0 .. MaxRequests /\ passed'[k][t] \in 0 .. MaxRequests
      <3>1. window'[k][t] \in Nat /\ passed'[k][t] \in Nat
        BY <1>2, <1>3 DEF Counts
      <3>2. /\ window'[k][t] + Cardinality(DueIn(k, t, t)') <= attempts[k][t]
            /\ passed'[k][t] + Cardinality(FlyingAt(k, t)') <= attempts[k][t]
        BY <1>2, <1>5 DEF Counted
      <3>3. FlyingAt(k, t)' \in SUBSET Workers /\ DueIn(k, t, t)' \in SUBSET Workers
        BY DEF FlyingAt, DueIn
      <3>4. Cardinality(DueIn(k, t, t)') \in Nat /\ Cardinality(FlyingAt(k, t)') \in Nat
        BY <3>3, RuleAssumption, FS_Subset, FS_CardinalityType
      <3>5. attempts[k][t] \in 0 .. MaxRequests /\ MaxRequests \in Nat
        BY <1>1, RuleAssumption DEF TypeOK, Log
      <3> QED BY <3>1, <3>2, <3>4, <3>5
    <2>2. window' \in [Keys -> Log] /\ passed' \in [Keys -> Log]
      BY <1>2, <1>3, <2>1 DEF Counts, Log
    <2>3. alarms' \subseteq Accounts \X Times
      <3>1. alarms \subseteq Accounts \X Times
        BY <1>1 DEF TypeOK
      <3>2. job[w].account \in Accounts /\ job[w].stamp \in Times
        BY <1>1, <1>2, JobParts
      <3>3. alarms' = alarms \/ alarms' = alarms \cup {<<job[w].account, job[w].stamp>>}
        BY <1>2 DEF AccountPattern
      <3> QED BY <3>1, <3>2, <3>3
    <2> QED BY <1>1, <1>2, <1>3, <2>2, <2>3 DEF TypeOK
  <1>7. JobsOK'
    BY <1>1, <1>2, <1>3 DEF JobsOK
  <1>8. Cardinality(InFlight)' <= peak'
    <2>1. InFlight' \in SUBSET InFlight
      BY <1>2, <1>3 DEF InFlight
    <2>2. IsFiniteSet(InFlight) /\ Cardinality(InFlight) \in Nat
      BY DueFinite
    <2>3. Cardinality(InFlight') <= Cardinality(InFlight) /\ Cardinality(InFlight') \in Nat
      BY <2>1, <2>2, FS_Subset, FS_CardinalityType
    <2>4. peak \in Nat
      BY <1>1, RuleAssumption, FS_CardinalityType DEF TypeOK
    <2> QED BY <1>1, <1>2, <2>2, <2>3, <2>4
  <1>9. NoFalseAlarm'
    <2>1. CASE alarms' = alarms
      BY <1>1, <1>2, <2>1 DEF NoFalseAlarm
    <2>2. CASE AccountPattern(w)
      <3>1. PICK a, s : a = job[w].account /\ s = job[w].stamp
        OBVIOUS
      <3>2. /\ a \in Accounts /\ a \in Keys /\ s \in Times /\ s \in Int
            /\ AccountWindow \in Nat \ {0} /\ AccountMax \in Nat
        BY <1>1, <1>2, <3>1, JobParts, RuleAssumption
      <3>3. Within(window[a], s - AccountWindow + 1, s) + 1 > AccountMax
        <4>1. CountAt(a, s, AccountWindow) > AccountMax
          BY <2>2, <3>1 DEF AccountPattern, Over
        <4> QED BY <1>1, <3>2, <4>1, CountParts
      <3>4. Within(window[a], s - AccountWindow + 1, s) + 1 <= Within(attempts[a], s - AccountWindow + 1, s)
        <4>1. window[a] \in [Times -> Nat] /\ attempts[a] \in [Times -> Nat]
          BY <1>1, <3>2, RuleAssumption DEF TypeOK, Log
        <4>2. PICK more : more = Add(window[a], s)
          OBVIOUS
        <4>3. /\ more \in [Times -> Nat]
              /\ Within(more, s - AccountWindow + 1, s) = Within(window[a], s - AccountWindow + 1, s) + 1
          BY <3>2, <4>1, <4>2, WithinAdd
        <4>4. ASSUME NEW t \in Times PROVE more[t] <= attempts[a][t]
          <5>1. window[a][t] + Cardinality(DueIn(a, t, t)) <= attempts[a][t]
            BY <1>1, <3>2 DEF Counted
          <5>2. Cardinality(DueIn(a, t, t)) \in Nat /\ IsFiniteSet(DueIn(a, t, t))
            BY DueFinite
          <5>3. t = s => Cardinality(DueIn(a, t, t)) # 0
            <6>1. t = s => w \in DueIn(a, t, t)
              BY <2>2, <3>1, <3>2 DEF DueIn, Due, Stamped, AccountPattern
            <6> QED BY <5>2, <6>1, FS_EmptySet
          <5>4. more[t] = IF t = s THEN window[a][t] + 1 ELSE window[a][t]
            BY <4>1, <4>2 DEF Add
          <5>5. window[a][t] \in Nat /\ attempts[a][t] \in Nat
            BY <4>1
          <5> QED BY <5>1, <5>2, <5>3, <5>4, <5>5
        <4>5. Within(more, s - AccountWindow + 1, s) <= Within(attempts[a], s - AccountWindow + 1, s)
          BY <4>1, <4>3, <4>4, WithinMonotone
        <4> QED BY <4>3, <4>5
      <3>5. Within(attempts[a], s - AccountWindow + 1, s) > AccountMax
        <4>1. window[a] \in [Times -> Nat] /\ attempts[a] \in [Times -> Nat]
          BY <1>1, <3>2, RuleAssumption DEF TypeOK, Log
        <4>2. /\ Within(window[a], s - AccountWindow + 1, s) \in Nat
              /\ Within(attempts[a], s - AccountWindow + 1, s) \in Nat
          BY <4>1, WithinNat
        <4> QED BY <3>2, <3>3, <3>4, <4>2
      <3>6. alarms' = alarms \cup {<<a, s>>}
        BY <2>2, <3>1 DEF AccountPattern
      <3>7. ASSUME NEW alarm \in alarms'
            PROVE  Within(attempts[alarm[1]], alarm[2] - AccountWindow + 1, alarm[2]) > AccountMax
        BY <1>1, <3>5, <3>6 DEF NoFalseAlarm
      <3> QED BY <1>2, <3>7 DEF NoFalseAlarm
    <2> QED BY <1>2, <2>1, <2>2
  <1>10. ASSUME NEW k \in Keys PROVE KeyOK(k)'
    <2>1. Quiet(w, k) \/ Passes(w, k)
      BY <1>1, StepParts
    <2>2. KeyOK(k) /\ UNCHANGED <<now, peak>>
      BY <1>1, <1>2
    <2>3. CASE Quiet(w, k)
      BY <1>1, <1>6, <2>2, <2>3, QuietKeeps
    <2>4. CASE Passes(w, k)
      BY <1>1, <2>2, <2>4, PassesKeeps
    <2> QED BY <2>1, <2>3, <2>4
  <1>11. Keys' = Keys
    BY DEF Keys
  <1> QED BY <1>5, <1>6, <1>7, <1>8, <1>9, <1>10, <1>11 DEF WInv

\* A submission that starts keeps the invariant.
LEMMA StartInvariant ==
    ASSUME WInv, NEW w \in Workers, NEW a \in Accounts, NEW i \in Ips, NEW rule_amount \in BOOLEAN,
           Start(w, a, i, rule_amount)
    PROVE  WInv'
  <1>1. /\ TypeOK /\ JobsOK /\ Counted /\ NoFalseAlarm /\ Cardinality(InFlight) <= peak
        /\ \A k \in Keys : KeyOK(k)
    BY DEF WInv
  <1>2. /\ pc[w] = "idle" /\ pc'[w] = "ip" /\ Submissions < MaxRequests
        /\ job'[w] = [account |-> a, ip |-> i, stamp |-> now, rule_amount |-> rule_amount]
        /\ \A v \in Workers \ {w} : pc'[v] = pc[v] /\ job'[v] = job[v]
        /\ attempts' = [k \in Keys |-> IF k = i \/ (k = a /\ rule_amount)
                                         THEN Add(attempts[k], now) ELSE attempts[k]]
        /\ peak' = IF Cardinality(InFlight) < peak THEN peak ELSE Cardinality(InFlight) + 1
        /\ UNCHANGED <<now, window, expires, passed, alarms>>
    BY <1>1 DEF Start, Stamp, redis, TypeOK
  <1>3. /\ pc' \in [Workers -> {"idle", "ip", "account"}] /\ job' \in [Workers -> Job \cup {Idle}]
        /\ job'[w] \in Job
    <2>1. [account |-> a, ip |-> i, stamp |-> now, rule_amount |-> rule_amount] \in Job
      BY <1>1 DEF Job, TypeOK
    <2> QED BY <1>1, <1>2, <2>1 DEF Start, Stamp, TypeOK
  <1>4. i \notin Accounts /\ a \notin Ips /\ now \in Times /\ now \in Nat /\ MaxRequests \in Nat
    BY <1>1, RuleAssumption DEF TypeOK, Times
  <1>5. \A k \in Keys : attempts[k] \in [Times -> Nat]
    BY <1>1, RuleAssumption DEF TypeOK, Log
  <1>6. \A k \in Keys :
          /\ attempts'[k] \in [Times -> Nat]
          /\ \A t \in Times :
               attempts'[k][t] = attempts[k][t]
                 + (IF (k = i \/ (k = a /\ rule_amount)) /\ t = now THEN 1 ELSE 0)
    <2> TAKE k \in Keys
    <2>1. attempts[k] \in [Times -> Nat]
      BY <1>5
    <2>2. CASE k = i \/ (k = a /\ rule_amount)
      <3>1. attempts'[k] = Add(attempts[k], now)
        BY <1>2, <2>2
      <3>2. /\ attempts'[k] \in [Times -> Nat]
            /\ \A t \in Times : attempts'[k][t] = IF t = now THEN attempts[k][t] + 1 ELSE attempts[k][t]
        BY <1>4, <2>1, <3>1 DEF Add
      <3>3. \A t \in Times : attempts[k][t] \in Nat
        BY <2>1
      <3> QED BY <2>2, <3>2, <3>3
    <2>3. CASE ~(k = i \/ (k = a /\ rule_amount))
      <3>1. attempts'[k] = attempts[k]
        BY <1>2, <2>3
      <3> QED BY <2>1, <2>3, <3>1
    <2> QED BY <2>2, <2>3
  <1>7. Submissions' = Submissions + 1 /\ Submissions \in Nat
    <2> DEFINE PerIp == [x \in Ips |-> Within(attempts[x], 0, MaxTime)]
               PerIp1 == [x \in Ips |-> Within(attempts'[x], 0, MaxTime)]
    <2>1. /\ IsFiniteSet(Ips) /\ i \in Ips /\ IsFiniteSet(Ips \ {i})
      BY RuleAssumption, FS_RemoveElement
    <2>2. \A x \in Ips : attempts[x] \in [Times -> Nat]
      BY <1>5 DEF Keys
    <2>3. \A x \in Ips : PerIp[x] \in Nat
      <3> TAKE x \in Ips
      <3>1. Within(attempts[x], 0, MaxTime) \in Nat
        BY <2>2, WithinNat
      <3> QED BY <3>1
    <2>4. PerIp1[i] = PerIp[i] + 1
      <3>1. attempts'[i] = Add(attempts[i], now)
        BY <1>2 DEF Keys
      <3>2. Within(Add(attempts[i], now), 0, MaxTime)
              = Within(attempts[i], 0, MaxTime) + (IF 0 <= now /\ now <= MaxTime THEN 1 ELSE 0)
        BY <1>4, <2>2, WithinAdd
      <3>3. 0 <= now /\ now <= MaxTime
        BY <1>4, RuleAssumption DEF Times
      <3> QED BY <3>1, <3>2, <3>3
    <2>5. \A x \in Ips \ {i} : PerIp1[x] = PerIp[x]
      <3> TAKE x \in Ips \ {i}
      <3>1. attempts'[x] = attempts[x]
        BY <1>2, <1>4 DEF Keys
      <3> QED BY <3>1
    <2>6. Submissions = SumFunctionOnSet(PerIp, Ips) /\ Submissions' = SumFunctionOnSet(PerIp1, Ips)
      BY DEF Submissions
    <2> HIDE DEF PerIp, PerIp1
    <2>7. \A x \in Ips : PerIp[x] \in Int /\ PerIp1[x] \in Int
      BY <2>3, <2>4, <2>5
    <2>8. /\ SumFunctionOnSet(PerIp, Ips) = PerIp[i] + SumFunctionOnSet(PerIp, Ips \ {i})
          /\ SumFunctionOnSet(PerIp1, Ips) = PerIp1[i] + SumFunctionOnSet(PerIp1, Ips \ {i})
      BY <2>1, <2>7, SumRemove
    <2>9. SumFunctionOnSet(PerIp, Ips \ {i}) \in Int
      BY <2>1, <2>7, SumType
    <2>10. SumFunctionOnSet(PerIp1, Ips \ {i}) = SumFunctionOnSet(PerIp, Ips \ {i})
      BY <2>1, <2>5, <2>7, SumSame
    <2>11. SumFunctionOnSet(PerIp, Ips) \in Nat
      BY <2>1, <2>3, SumNat
    <2> QED BY <2>1, <2>4, <2>6, <2>7, <2>8, <2>9, <2>10, <2>11
  <1>8. ASSUME NEW k \in Keys, NEW t \in Times
        PROVE  /\ Cardinality(DueIn(k, t, t)') <= Cardinality(DueIn(k, t, t)) + (attempts'[k][t] - attempts[k][t])
               /\ Cardinality(FlyingAt(k, t)') <= Cardinality(FlyingAt(k, t)) + (attempts'[k][t] - attempts[k][t])
               /\ Cardinality(DueIn(k, t, t)) \in Nat /\ Cardinality(DueIn(k, t, t)') \in Nat
               /\ Cardinality(FlyingAt(k, t)) \in Nat /\ Cardinality(FlyingAt(k, t)') \in Nat
    <2>1. /\ FlyingAt(k, t) \in SUBSET Workers /\ DueIn(k, t, t) \in SUBSET Workers
          /\ FlyingAt(k, t)' \in SUBSET Workers /\ DueIn(k, t, t)' \in SUBSET Workers
      BY DEF FlyingAt, DueIn
    <2>2. /\ IsFiniteSet(DueIn(k, t, t)) /\ IsFiniteSet(FlyingAt(k, t))
          /\ Cardinality(DueIn(k, t, t)) \in Nat /\ Cardinality(DueIn(k, t, t)') \in Nat
          /\ Cardinality(FlyingAt(k, t)) \in Nat /\ Cardinality(FlyingAt(k, t)') \in Nat
      BY <2>1, RuleAssumption, FS_Subset, FS_CardinalityType
    <2>3. attempts[k][t] \in Nat /\ attempts'[k][t] \in Nat
      BY <1>5, <1>6
    <2>4. CASE (k = i \/ (k = a /\ rule_amount)) /\ t = now
      <3>1. attempts'[k][t] = attempts[k][t] + 1
        BY <1>6, <2>4
      <3>2. DueIn(k, t, t)' \in SUBSET (DueIn(k, t, t) \cup {w})
        BY <1>2 DEF DueIn, Due, Concerns, Stamped
      <3>3. FlyingAt(k, t)' \in SUBSET (FlyingAt(k, t) \cup {w})
        BY <1>2 DEF FlyingAt, Concerns
      <3>4. /\ IsFiniteSet(DueIn(k, t, t) \cup {w})
            /\ Cardinality(DueIn(k, t, t) \cup {w}) <= Cardinality(DueIn(k, t, t)) + 1
        <4>1. /\ IsFiniteSet(DueIn(k, t, t) \cup {w})
              /\ Cardinality(DueIn(k, t, t) \cup {w})
                   = IF w \in DueIn(k, t, t) THEN Cardinality(DueIn(k, t, t)) ELSE Cardinality(DueIn(k, t, t)) + 1
          BY <2>2, FS_AddElement
        <4> QED BY <2>2, <4>1
      <3>5. /\ IsFiniteSet(FlyingAt(k, t) \cup {w})
            /\ Cardinality(FlyingAt(k, t) \cup {w}) <= Cardinality(FlyingAt(k, t)) + 1
        <4>1. /\ IsFiniteSet(FlyingAt(k, t) \cup {w})
              /\ Cardinality(FlyingAt(k, t) \cup {w})
                   = IF w \in FlyingAt(k, t) THEN Cardinality(FlyingAt(k, t)) ELSE Cardinality(FlyingAt(k, t)) + 1
          BY <2>2, FS_AddElement
        <4> QED BY <2>2, <4>1
      <3>6. /\ Cardinality(DueIn(k, t, t)') <= Cardinality(DueIn(k, t, t) \cup {w})
            /\ Cardinality(DueIn(k, t, t) \cup {w}) \in Nat
        BY <3>2, <3>4, FS_Subset, FS_CardinalityType
      <3>7. /\ Cardinality(FlyingAt(k, t)') <= Cardinality(FlyingAt(k, t) \cup {w})
            /\ Cardinality(FlyingAt(k, t) \cup {w}) \in Nat
        BY <3>3, <3>5, FS_Subset, FS_CardinalityType
      <3> QED BY <2>2, <2>3, <3>1, <3>4, <3>5, <3>6, <3>7
    <2>5. CASE ~((k = i \/ (k = a /\ rule_amount)) /\ t = now)
      <3>1. attempts'[k][t] = attempts[k][t]
        BY <1>6, <2>3, <2>5
      <3>2. Concerns(w, k)' => job'[w].stamp # t
        BY <1>2, <2>5 DEF Concerns
      <3>3. DueIn(k, t, t)' = DueIn(k, t, t)
        <4>1. w \notin DueIn(k, t, t) /\ w \notin DueIn(k, t, t)'
          <5>1. t \in Int /\ now \in Int /\ job'[w].stamp = now
            BY <1>2, <1>4, RuleAssumption DEF Times
          <5> QED BY <1>2, <3>2, <5>1 DEF DueIn, Due, Stamped
        <4> QED BY <1>2, <4>1 DEF DueIn, Due, Concerns, Stamped
      <3>4. FlyingAt(k, t)' = FlyingAt(k, t)
        BY <1>2, <3>2 DEF FlyingAt, Concerns
      <3> QED BY <2>2, <2>3, <3>1, <3>3, <3>4
    <2> QED BY <2>4, <2>5
  <1>9. Counted'
    <2>1. ASSUME NEW k \in Keys, NEW t \in Times
          PROVE  /\ window[k][t] + Cardinality(DueIn(k, t, t)') <= attempts'[k][t]
                 /\ passed[k][t] + Cardinality(FlyingAt(k, t)') <= attempts'[k][t]
                 /\ attempts'[k][t] <= Submissions'
      <3>1. /\ window[k][t] + Cardinality(DueIn(k, t, t)) <= attempts[k][t]
            /\ passed[k][t] + Cardinality(FlyingAt(k, t)) <= attempts[k][t]
            /\ attempts[k][t] <= Submissions
        BY <1>1 DEF Counted
      <3>2. /\ attempts[k][t] \in Nat /\ attempts'[k][t] \in Nat
            /\ attempts'[k][t] <= attempts[k][t] + 1
        BY <1>5, <1>6
      <3>3. window[k][t] \in Int /\ passed[k][t] \in Int
        BY <1>1, RuleAssumption DEF TypeOK, Log
      <3> QED BY <1>7, <1>8, <3>1, <3>2, <3>3
    <2>2. Submissions' <= MaxRequests
      BY <1>2, <1>4, <1>7
    <2> QED BY <1>2, <2>1, <2>2 DEF Counted
  <1>10. /\ peak' \in 0 .. Cardinality(Workers) /\ Cardinality(InFlight)' <= peak'
    <2>1. InFlight' = InFlight \cup {w} /\ w \notin InFlight /\ InFlight \cup {w} \in SUBSET Workers
      BY <1>2 DEF InFlight
    <2>2. IsFiniteSet(InFlight) /\ Cardinality(InFlight) \in Nat
      BY DueFinite
    <2>3. Cardinality(InFlight \cup {w}) = Cardinality(InFlight) + 1
      BY <2>1, <2>2, FS_AddElement
    <2>4. Cardinality(InFlight \cup {w}) <= Cardinality(Workers) /\ Cardinality(Workers) \in Nat
      BY <2>1, RuleAssumption, FS_Subset, FS_CardinalityType
    <2>5. peak \in 0 .. Cardinality(Workers)
      BY <1>1 DEF TypeOK
    <2> QED BY <1>1, <1>2, <2>1, <2>2, <2>3, <2>4, <2>5
  <1>11. TypeOK'
    <2>1. ASSUME NEW k \in Keys, NEW t \in Times PROVE attempts'[k][t] \in 0 .. MaxRequests
      <3>1. attempts'[k][t] <= Submissions' /\ Submissions' <= MaxRequests
        BY <1>9 DEF Counted
      <3>2. attempts'[k][t] \in Nat
        BY <1>6
      <3> QED BY <1>4, <1>7, <3>1, <3>2
    <2>2. attempts' \in [Keys -> Log]
      <3>1. \A k \in Keys : attempts'[k] \in Log
        BY <1>6, <2>1 DEF Log
      <3> QED BY <1>2, <3>1
    <2> QED BY <1>1, <1>2, <1>3, <1>10, <2>2 DEF TypeOK
  <1>12. JobsOK'
    <2>1. /\ job'[w].stamp <= now' /\ now' <= job'[w].stamp + Patience /\ pc'[w] # "account"
      BY <1>2, <1>4, RuleAssumption
    <2> QED BY <1>1, <1>2, <1>3, <2>1 DEF JobsOK
  <1>13. NoFalseAlarm'
    <2> SUFFICES ASSUME NEW alarm \in alarms
                 PROVE  Within(attempts'[alarm[1]], alarm[2] - AccountWindow + 1, alarm[2]) > AccountMax
      BY <1>2 DEF NoFalseAlarm
    <2>1. PICK x, from, to : x = alarm[1] /\ to = alarm[2] /\ from = to - AccountWindow + 1
      OBVIOUS
    <2>2. x \in Keys /\ AccountMax \in Nat
      BY <1>1, <2>1, RuleAssumption DEF TypeOK, Keys
    <2>3. Within(attempts[x], from, to) > AccountMax
      BY <1>1, <2>1 DEF NoFalseAlarm
    <2>4. attempts[x] \in [Times -> Nat] /\ attempts'[x] \in [Times -> Nat]
      BY <1>5, <1>6, <2>2
    <2>5. \A t \in Times : attempts[x][t] <= attempts'[x][t]
      BY <1>6, <2>2, <2>4
    <2>6. PICK after : after = attempts'[x]
      OBVIOUS
    <2>7. Within(attempts[x], from, to) <= Within(after, from, to)
      BY <2>4, <2>5, <2>6, WithinMonotone
    <2>8. Within(attempts[x], from, to) \in Nat /\ Within(after, from, to) \in Nat
      BY <2>4, <2>6, WithinNat
    <2> QED BY <2>1, <2>2, <2>3, <2>6, <2>7, <2>8
  <1>14. \A k \in Keys : KeyOK(k)'
    BY <1>1, StartKeeps
  <1>15. Keys' = Keys
    BY DEF Keys
  <1> QED BY <1>9, <1>10, <1>11, <1>12, <1>13, <1>14, <1>15 DEF WInv

\* Time that passes keeps the invariant.
LEMMA TickInvariant ==
    ASSUME WInv, Tick
    PROVE  WInv'
  <1>1. /\ TypeOK /\ JobsOK /\ Counted /\ NoFalseAlarm /\ Cardinality(InFlight) <= peak
        /\ \A k \in Keys : KeyOK(k)
    BY DEF WInv
  <1>2. /\ now < MaxTime /\ now' = now + 1
        /\ \A w \in Workers : pc[w] # "idle" => now < job[w].stamp + Patience
        /\ window' = [k \in Keys |-> IF expires[k] <= now + 1 THEN Empty ELSE window[k]]
        /\ UNCHANGED <<expires, pc, job, attempts, passed, alarms, peak>>
    BY DEF Tick, history
  <1>3. now \in Nat /\ MaxTime \in Nat /\ MaxRequests \in Nat /\ Patience \in Nat /\ Times = 0 .. MaxTime
    BY <1>1, RuleAssumption DEF TypeOK, Times
  <1>4. TypeOK'
    <2>1. Empty \in Log
      BY <1>3 DEF Empty, Log
    <2>2. window' \in [Keys -> Log]
      BY <1>1, <1>2, <2>1 DEF TypeOK
    <2>3. now' \in Times
      BY <1>2, <1>3
    <2> QED BY <1>1, <1>2, <2>2, <2>3 DEF TypeOK
  <1>5. JobsOK'
    <2> SUFFICES ASSUME NEW w \in Workers, pc[w] # "idle"
                 PROVE  /\ job[w] \in Job /\ job[w].stamp <= now + 1 /\ now + 1 <= job[w].stamp + Patience
                        /\ pc[w] = "account" => job[w].rule_amount
      BY <1>2 DEF JobsOK
    <2>1. /\ job[w] \in Job /\ job[w].stamp <= now
          /\ pc[w] = "account" => job[w].rule_amount
      BY <1>1 DEF JobsOK
    <2>2. now < job[w].stamp + Patience /\ job[w].stamp \in Nat
      BY <1>2, <1>3, <2>1 DEF Job
    <2> QED BY <1>3, <2>1, <2>2
  <1>6. Counted'
    <2>1. Submissions' = Submissions
      BY <1>2 DEF Submissions
    <2>2. \A k, t : DueIn(k, t, t)' = DueIn(k, t, t) /\ FlyingAt(k, t)' = FlyingAt(k, t)
      BY <1>2 DEF DueIn, Due, Concerns, Stamped, FlyingAt
    <2>3. ASSUME NEW k \in Keys, NEW t \in Times
          PROVE  window'[k][t] + Cardinality(DueIn(k, t, t)) <= attempts[k][t]
      <3>1. window[k][t] + Cardinality(DueIn(k, t, t)) <= attempts[k][t]
        BY <1>1 DEF Counted
      <3>2. window'[k][t] = 0 \/ window'[k][t] = window[k][t]
        BY <1>2 DEF Empty
      <3>3. window[k][t] \in Nat /\ attempts[k][t] \in Nat
        BY <1>1, <1>3 DEF TypeOK, Log
      <3>4. Cardinality(DueIn(k, t, t)) \in Nat
        BY DueFinite
      <3> QED BY <3>1, <3>2, <3>3, <3>4
    <2> QED BY <1>1, <1>2, <2>1, <2>2, <2>3 DEF Counted
  <1>7. NoFalseAlarm'
    BY <1>1, <1>2 DEF NoFalseAlarm
  <1>8. Cardinality(InFlight)' <= peak'
    BY <1>1, <1>2 DEF InFlight
  <1>9. \A k \in Keys : KeyOK(k)'
    BY <1>1, TickKeeps
  <1>10. Keys' = Keys
    BY DEF Keys
  <1> QED BY <1>4, <1>5, <1>6, <1>7, <1>8, <1>9, <1>10 DEF WInv

\* It holds at first.
LEMMA FirstInvariant ==
    ASSUME Init PROVE WInv
  <1>1. MaxTime \in Nat /\ MaxRequests \in Nat /\ Times = 0 .. MaxTime /\ Empty \in [Times -> Nat]
    BY RuleAssumption DEF Times, Empty
  <1>2. TypeOK
    <2>1. Empty \in Log /\ 0 \in Times /\ Cardinality(Workers) \in Nat
      BY <1>1, RuleAssumption, FS_CardinalityType DEF Empty, Log
    <2> QED BY <2>1 DEF Init, TypeOK
  <1>3. \A w \in Workers : pc[w] = "idle"
    BY DEF Init
  <1>4. /\ InFlight = {} /\ \A k, from, to : DueIn(k, from, to) = {} /\ ClearedIn(k, from, to) = {}
        /\ \A k, t : FlyingAt(k, t) = {}
    BY <1>3 DEF InFlight, DueIn, Due, ClearedIn, Cleared, FlyingAt
  <1>5. Cardinality({}) = 0
    BY FS_EmptySet
  <1>6. \A from, to : Within(Empty, from, to) = 0
    <2> TAKE from, to
    <2>1. \A t \in Times : from <= t /\ t <= to => Empty[t] = 0
      BY DEF Empty
    <2> QED BY <2>1, WithinNothing
  <1>7. \A k \in Keys : window[k] = Empty /\ passed[k] = Empty /\ attempts[k] = Empty
    BY DEF Init
  <1>8. \A k \in Keys : \A from, to : Through(k, from, to) = 0 /\ Within(window[k], from, to) = 0
    BY <1>4, <1>5, <1>6, <1>7 DEF Through
  <1>9. Submissions = 0
    <2>1. \A i \in Ips : [x \in Ips |-> Within(attempts[x], 0, MaxTime)][i] = 0
      BY <1>6, <1>7 DEF Keys
    <2> QED BY <2>1, RuleAssumption, SumZero DEF Submissions
  <1>10. Counted
    <2>1. \A k \in Keys, t \in Times : window[k][t] = 0 /\ passed[k][t] = 0 /\ attempts[k][t] = 0
      BY <1>7 DEF Empty
    <2>2. \A k, t : Cardinality(DueIn(k, t, t)) = 0 /\ Cardinality(FlyingAt(k, t)) = 0
      BY <1>4, <1>5
    <2> QED BY <1>1, <1>9, <2>1, <2>2 DEF Counted
  <1>11. ASSUME NEW k \in Keys PROVE KeyOK(k)
    <2>1. Kept(k) /\ Dated(k)
      BY <1>7, <1>8 DEF Kept, Dated, Empty
    <2>2. \A t \in Times : Fits(k, t)
      BY <1>8 DEF Fits
    <2>3. \A t \in Times : ~(t < now)
      BY <1>1 DEF Init
    <2> QED BY <2>1, <2>2, <2>3 DEF KeyOK
  <1>12. JobsOK /\ NoFalseAlarm
    BY <1>3 DEF JobsOK, NoFalseAlarm, Init
  <1>13. Cardinality(InFlight) <= peak
    BY <1>4, <1>5 DEF Init
  <1> QED BY <1>2, <1>10, <1>11, <1>12, <1>13 DEF WInv

\* Every step keeps the invariant.
LEMMA WindowsKept ==
    ASSUME WInv, [Next]_vars PROVE WInv'
  <1>1. ASSUME NEW w \in Workers, NEW a \in Accounts, NEW i \in Ips, NEW rule_amount \in BOOLEAN,
               Start(w, a, i, rule_amount)
        PROVE  WInv'
    BY <1>1, StartInvariant
  <1>2. ASSUME NEW w \in Workers, WorkerStep(w) PROVE WInv'
    BY <1>2, StepInvariant
  <1>3. CASE Tick
    BY <1>3, TickInvariant
  <1>4. CASE UNCHANGED vars
    <2>1. /\ now' = now /\ window' = window /\ expires' = expires /\ pc' = pc /\ job' = job
          /\ attempts' = attempts /\ passed' = passed /\ alarms' = alarms /\ peak' = peak
      BY <1>4 DEF vars, redis, history
    <2>2. (TypeOK /\ JobsOK /\ NoFalseAlarm)' <=> (TypeOK /\ JobsOK /\ NoFalseAlarm)
      BY <2>1 DEF TypeOK, JobsOK, NoFalseAlarm
    <2>3. Submissions' = Submissions /\ InFlight' = InFlight /\ Slack' = Slack
      BY <2>1 DEF Submissions, InFlight, Slack
    <2>4. \A k, from, to : DueIn(k, from, to)' = DueIn(k, from, to)
      BY <2>1 DEF DueIn, Due, Concerns, Stamped
    <2>5. \A k, from, to : Through(k, from, to)' = Through(k, from, to)
      BY <2>1 DEF Through, ClearedIn, Cleared, Stamped
    <2>6. \A k, t : FlyingAt(k, t)' = FlyingAt(k, t)
      BY <2>1 DEF FlyingAt, Concerns
    <2>7. Counted'
      BY <2>1, <2>3, <2>4, <2>6 DEF WInv, Counted
    <2>8. ASSUME NEW k \in Keys PROVE KeyOK(k)'
      <3>1. Kept(k)' /\ Dated(k)'
        BY <2>1, <2>5 DEF WInv, KeyOK, Kept, Dated
      <3>2. \A t \in Times : Fits(k, t)' = Fits(k, t)
        BY <2>1, <2>3, <2>4, <2>5 DEF Fits
      <3>3. \A t \in Times : Settled(k, t)' = Settled(k, t)
        BY <2>3, <2>4, <2>5 DEF Settled
      <3>4. \A t \in Times : Brink(k, t)' = Brink(k, t)
        BY <2>1, <2>3, <2>4, <2>5 DEF Brink
      <3> QED BY <2>1, <3>1, <3>2, <3>3, <3>4 DEF WInv, KeyOK
    <2>9. Keys' = Keys
      BY DEF Keys
    <2> QED BY <2>1, <2>2, <2>3, <2>7, <2>8, <2>9 DEF WInv
  <1> QED BY <1>1, <1>2, <1>3, <1>4 DEF Next

\* It always holds.
LEMMA FraudInvariant == Spec => []WInv
  <1>1. Init => WInv
    BY FirstInvariant
  <1>2. WInv /\ [Next]_vars => WInv'
    BY WindowsKept
  <1> QED BY <1>1, <1>2, PTL DEF Spec

-----------------------------------------------------------------------------
(* What the invariant says *)

\* A window lets through no more than its limit, and two more for each submission
\* that has run beside another.
LEMMA LimitKept ==
    ASSUME WInv, NEW k \in Keys, Patience <= Width(k), NEW t \in Times
    PROVE  Within(passed[k], t - Width(k) + 1, t) <= Limit(k) + Overlap
  <1>1. TypeOK /\ KeyOK(k)
    BY DEF WInv
  <1>2. PICK from : from = Opens(k, t)
    OBVIOUS
  <1>3. /\ Limit(k) \in Nat \ {0} /\ Slack \in Nat /\ now \in Nat /\ Width(k) \in Nat \ {0}
        /\ t \in Nat
    BY <1>1, Numbers
  <1>4. from = t - Width(k) + 1 /\ from \in Int /\ from \in from .. t
    <2>1. from = t - Width(k) + 1
      BY <1>2 DEF Opens
    <2> QED BY <1>3, <2>1
  <1>5. Overlap = 2 * Slack
    BY <1>1, RuleAssumption, FS_CardinalityType DEF Overlap, Slack, TypeOK
  <1>6. Through(k, from, t) \in Nat /\ Cardinality(DueIn(k, from, t)) \in Nat
    BY <1>1, ThroughNat, DueFinite
  <1>7. Within(passed[k], from, t) <= Through(k, from, t)
    <2>1. passed[k] \in [Times -> Nat]
      BY <1>1, RuleAssumption DEF TypeOK, Log
    <2>2. Within(passed[k], from, t) \in Nat /\ Cardinality(ClearedIn(k, from, t)) \in Nat
      BY <2>1, WithinNat, DueFinite
    <2> QED BY <2>2 DEF Through
  <1>8. Through(k, from, t) <= Limit(k) + 2 * Slack
    <2>1. CASE t >= now
      <3>1. CASE Through(k, from, t) > 0
        <4>1. PICK before : before = from - 1
          OBVIOUS
        <4>2. Through(k, from, t) + Cardinality(DueIn(k, from, before)) <= Limit(k) + Slack
          BY <1>1, <1>2, <1>4, <2>1, <3>1, <4>1 DEF KeyOK, Fits
        <4>3. Cardinality(DueIn(k, from, before)) \in Nat
          BY DueFinite
        <4> QED BY <1>3, <1>6, <4>2, <4>3
      <3>2. CASE ~(Through(k, from, t) > 0)
        BY <1>3, <1>6, <3>2
      <3> QED BY <3>1, <3>2
    <2>2. CASE t < now
      <3>1. Settled(k, t) \/ Brink(k, t)
        BY <1>1, <2>2 DEF KeyOK
      <3>2. \/ Through(k, from, t) + Cardinality(DueIn(k, from, t)) <= Limit(k) + 2 * Slack
            \/ /\ Cardinality(DueIn(k, from, t)) = Slack + 1
               /\ Through(k, from, t) + Cardinality(DueIn(k, from, t)) <= Limit(k) + 2 * Slack + 1
        BY <1>2, <3>1 DEF Settled, Brink
      <3> QED BY <1>3, <1>6, <3>2
    <2> QED BY <1>3, <2>1, <2>2
  <1>9. Within(passed[k], from, t) \in Nat
    BY <1>1, RuleAssumption, WithinNat DEF TypeOK, Log
  <1> QED BY <1>3, <1>4, <1>5, <1>6, <1>7, <1>8, <1>9

\* The windows, the submissions and what was answered are what they are declared
\* to be, and no count passes the number of submissions (antifraud.py:40-72).
THEOREM FraudIsTyped == Spec => []TypeOK
  <1>1. WInv => TypeOK
    BY DEF WInv
  <1> QED BY <1>1, FraudInvariant, PTL

\* The pattern is answered only if more than three submissions of 9000 of the
\* account were stamped within the window (antifraud.py:65-71).
THEOREM AlarmsAreTrue == Spec => []NoFalseAlarm
  <1>1. WInv => NoFalseAlarm
    BY DEF WInv
  <1> QED BY <1>1, FraudInvariant, PTL

\* In any window of an account at most max_allowed transactions of 9000 are let
\* through, and two more for each submission that has run beside another, if none
\* waits for longer than the window (antifraud.py:65-71).
THEOREM PatternBounded ==
    ASSUME Patience <= AccountWindow PROVE Spec => []PatternIsBounded
  <1>1. WInv => PatternIsBounded
    <2> SUFFICES ASSUME WInv, NEW a \in Accounts, NEW t \in Times
                 PROVE  Within(passed[a], t - AccountWindow + 1, t) <= AccountMax + Overlap
      BY DEF PatternIsBounded
    <2>1. a \in Keys /\ Width(a) = AccountWindow /\ Limit(a) = AccountMax
      BY DEF Keys, Width, Limit
    <2> QED BY <2>1, LimitKept
  <1> QED BY <1>1, FraudInvariant, PTL

\* The same of the submissions of an IP (antifraud.py:54-60).
THEOREM BurstBounded ==
    ASSUME Patience <= IpWindow PROVE Spec => []BurstIsBounded
  <1>1. WInv => BurstIsBounded
    <2> SUFFICES ASSUME WInv, NEW i \in Ips, NEW t \in Times
                 PROVE  Within(passed[i], t - IpWindow + 1, t) <= IpMax + Overlap
      BY DEF BurstIsBounded
    <2>1. i \in Keys /\ Width(i) = IpWindow /\ Limit(i) = IpMax
      BY RuleAssumption DEF Keys, Width, Limit
    <2> QED BY <2>1, LimitKept
  <1> QED BY <1>1, FraudInvariant, PTL

-----------------------------------------------------------------------------
(* What is on record *)

\* The request of w holds a stamp.
Has(w) == pc[w] # "idle" \/ answer[w] # NoAnswer

StampOf(w) == IF pc[w] # "idle" THEN job[w].stamp ELSE answer[w].stamp

OfRule(w) == IF pc[w] # "idle" THEN job[w].rule_amount ELSE answer[w].rule_amount

\* It was answered with no anomaly.
Granted(w) == answer[w] # NoAnswer /\ answer[w].anomaly = "none" /\ answer[w].rule_amount

\* It can still be recorded.
Rival(w, a) == w \in fresh /\ row[w] = a /\ Has(w)

\* What was let through at s is not all recorded, and if it counts now there is
\* room for it.
RoomFor(a, s) ==
    /\ recorded[a]["none"][s] < passed[a][s]
    /\ s > now - AccountWindow => Approved(a, now) < AccountMax

\* Nothing was approved with a later stamp, and its window was not over the limit.
RivalOK(w, a) ==
    /\ OfRule(w) => \A x \in Anomalies : recorded[a][x][StampOf(w)] < attempts[a][StampOf(w)]
    /\ \A t \in Times : recorded[a]["none"][t] # 0 => t <= StampOf(w)
    /\ Approved(a, StampOf(w)) <= AccountMax
    /\ Granted(w) => RoomFor(a, StampOf(w))

AccountOK(a) ==
    /\ \A x \in Anomalies, t \in Times : recorded[a][x][t] <= attempts[a][t]
    /\ \A t \in Times : /\ recorded[a]["none"][t] <= passed[a][t]
                        /\ recorded[a]["none"][t] # 0 => t <= now
    /\ Approved(a, now) <= AccountMax
    /\ \A t \in Times : Approved(a, t) <= AccountMax + 1
    /\ \A w \in Workers : Rival(w, a) => RivalOK(w, a)

Records == [Accounts -> [Anomalies -> [Times -> Nat]]]

SessionsOK ==
    /\ row \in [Workers -> Accounts \cup {NoAccount}]
    /\ fresh \subseteq Workers
    /\ answer \in [Workers -> Answers \cup {NoAnswer}]
    /\ recorded \in Records
    /\ \A w \in Workers :
         /\ pc[w] # "idle" => row[w] = job[w].account /\ answer[w] = NoAnswer
         /\ answer[w] # NoAnswer => row[w] \in Accounts /\ answer[w].stamp <= now
         /\ w \in fresh => row[w] \in Accounts

SInv == WInv /\ SessionsOK /\ \A a \in Accounts : AccountOK(a)

-----------------------------------------------------------------------------
(* A step that records nothing *)

\* Numbers of an account.
LEMMA RecordParts ==
    ASSUME SInv, NEW a \in Accounts
    PROVE  /\ TypeOK /\ JobsOK
           /\ a \in Keys /\ Width(a) = AccountWindow /\ Limit(a) = AccountMax
           /\ recorded[a]["none"] \in [Times -> Nat]
           /\ passed[a] \in [Times -> Nat] /\ attempts[a] \in [Times -> Nat]
           /\ AccountWindow \in Nat \ {0} /\ AccountMax \in Nat \ {0}
           /\ now \in Times /\ now \in Nat /\ Times \subseteq Nat
           /\ \A from, to : Within(recorded[a]["none"], from, to) \in Nat
  <1>1. TypeOK /\ JobsOK /\ SessionsOK
    BY DEF SInv, WInv
  <1>2. a \in Keys /\ Width(a) = AccountWindow /\ Limit(a) = AccountMax
    BY DEF Keys, Width, Limit
  <1>3. recorded[a]["none"] \in [Times -> Nat]
    BY <1>1 DEF SessionsOK, Records, Anomalies
  <1>4. passed[a] \in [Times -> Nat] /\ attempts[a] \in [Times -> Nat]
    BY <1>1, <1>2, RuleAssumption DEF TypeOK, Log
  <1>5. now \in Times /\ now \in Nat /\ Times \subseteq Nat
    BY <1>1, RuleAssumption DEF TypeOK, Times
  <1>6. \A from, to : Within(recorded[a]["none"], from, to) \in Nat
    BY <1>3, WithinNat
  <1> QED BY <1>1, <1>2, <1>3, <1>4, <1>5, <1>6, RuleAssumption

\* The stamp of a rival has come.
LEMMA RivalParts ==
    ASSUME SInv, NEW a \in Accounts, NEW w \in Workers, Rival(w, a)
    PROVE  /\ StampOf(w) \in Times /\ StampOf(w) \in Nat /\ StampOf(w) <= now
           /\ RivalOK(w, a) /\ AccountOK(a)
  <1>1. TypeOK /\ JobsOK /\ SessionsOK
    BY DEF SInv, WInv
  <1>2. StampOf(w) \in Times /\ StampOf(w) <= now
    <2>1. CASE pc[w] # "idle"
      BY <1>1, <2>1, JobParts DEF StampOf, JobsOK
    <2>2. CASE pc[w] = "idle"
      <3>1. answer[w] # NoAnswer /\ answer[w] \in Answers
        BY <1>1, <2>2 DEF Rival, Has, SessionsOK
      <3> QED BY <1>1, <2>2, <3>1 DEF StampOf, SessionsOK, Answers
    <2> QED BY <2>1, <2>2
  <1>3. RivalOK(w, a) /\ AccountOK(a)
    BY DEF SInv, AccountOK
  <1> QED BY <1>2, <1>3, RuleAssumption DEF Times

\* If nothing is recorded of an account and the clock stands still, it is as it was
\* for the rivals that are left, if each with a new answer has room.
LEMMA CalmKeeps ==
    ASSUME SInv, NEW a \in Accounts, now' = now, recorded'[a] = recorded[a],
           attempts'[a] \in [Times -> Nat], passed'[a] \in [Times -> Nat],
           \A t \in Times : attempts[a][t] <= attempts'[a][t] /\ passed[a][t] <= passed'[a][t],
           \A w \in Workers : Rival(w, a)' =>
             \/ RivalOK(w, a)'
             \/ /\ Rival(w, a) /\ StampOf(w)' = StampOf(w) /\ OfRule(w)' = OfRule(w)
                /\ Granted(w)' => Granted(w) \/ RoomFor(a, StampOf(w))'
    PROVE  AccountOK(a)'
  <1>1. AccountOK(a)
    BY DEF SInv
  <1>2. \A t : Approved(a, t)' = Approved(a, t)
    BY DEF Approved
  <1>3. /\ recorded'[a] = recorded[a] /\ now' = now
        /\ recorded[a] \in [Anomalies -> [Times -> Nat]]
        /\ attempts[a] \in [Times -> Nat] /\ passed[a] \in [Times -> Nat]
        /\ "none" \in Anomalies
    BY RecordParts DEF SInv, SessionsOK, Records, Anomalies
  <1>4. \A s \in Times : RoomFor(a, s) => RoomFor(a, s)'
    <2> SUFFICES ASSUME NEW s \in Times, RoomFor(a, s) PROVE RoomFor(a, s)'
      OBVIOUS
    <2>1. recorded[a]["none"][s] \in Nat /\ passed[a][s] \in Nat /\ passed'[a][s] \in Nat
      BY <1>3
    <2>2. recorded[a]["none"][s] < passed'[a][s]
      BY <2>1 DEF RoomFor
    <2> QED BY <1>2, <1>3, <2>2 DEF RoomFor
  <1>5. ASSUME NEW w \in Workers, Rival(w, a)', ~RivalOK(w, a)' PROVE FALSE
    <2>1. /\ Rival(w, a) /\ StampOf(w)' = StampOf(w) /\ OfRule(w)' = OfRule(w)
          /\ Granted(w)' => Granted(w) \/ RoomFor(a, StampOf(w))'
      BY <1>5
    <2>2. RivalOK(w, a) /\ StampOf(w) \in Times
      BY <2>1, RivalParts
    <2>3. PICK s \in Times : s = StampOf(w) /\ s = StampOf(w)'
      BY <2>1, <2>2
    <2>4. ASSUME OfRule(w), NEW x \in Anomalies PROVE recorded[a][x][s] < attempts'[a][s]
      <3>1. recorded[a][x][s] < attempts[a][s]
        BY <2>2, <2>3, <2>4 DEF RivalOK
      <3>2. recorded[a][x][s] \in Nat /\ attempts[a][s] \in Nat /\ attempts'[a][s] \in Nat
        BY <1>3
      <3> QED BY <3>1, <3>2
    <2>5. OfRule(w)' => \A x \in Anomalies : recorded'[a][x][StampOf(w)'] < attempts'[a][StampOf(w)']
      BY <1>3, <2>1, <2>3, <2>4
    <2>6. \A t \in Times : recorded'[a]["none"][t] # 0 => t <= StampOf(w)'
      BY <1>3, <2>2, <2>3 DEF RivalOK
    <2>7. Approved(a, StampOf(w))' <= AccountMax
      BY <1>3, <2>1, <2>2 DEF RivalOK, Approved
    <2>8. Granted(w)' => RoomFor(a, StampOf(w))'
      <3>1. Granted(w) => RoomFor(a, s)'
        BY <1>4, <2>2, <2>3 DEF RivalOK
      <3>2. RoomFor(a, s)' => RoomFor(a, StampOf(w))'
        BY <2>3 DEF RoomFor
      <3> QED BY <2>1, <3>1, <3>2
    <2> QED BY <1>5, <2>5, <2>6, <2>7, <2>8 DEF RivalOK
  <1>6. \A x \in Anomalies, t \in Times : recorded'[a][x][t] <= attempts'[a][t]
    <2> TAKE x \in Anomalies, t \in Times
    <2>1. recorded[a][x][t] \in Nat /\ attempts[a][t] \in Nat /\ attempts'[a][t] \in Nat
      BY <1>3
    <2> QED BY <1>1, <1>3, <2>1 DEF AccountOK
  <1>7. \A t \in Times : /\ recorded'[a]["none"][t] <= passed'[a][t]
                         /\ recorded'[a]["none"][t] # 0 => t <= now'
    <2> TAKE t \in Times
    <2>1. recorded[a]["none"][t] \in Nat /\ passed[a][t] \in Nat /\ passed'[a][t] \in Nat
      BY <1>3
    <2> QED BY <1>1, <1>3, <2>1 DEF AccountOK
  <1>8. Approved(a, now)' <= AccountMax /\ \A t \in Times : Approved(a, t)' <= AccountMax + 1
    BY <1>1, <1>2, <1>3 DEF AccountOK, Approved
  <1> QED BY <1>5, <1>6, <1>7, <1>8 DEF AccountOK

\* Where a worker is that has read no account, and what it holds.
LEMMA Unread ==
    ASSUME SInv, NEW w \in Workers, row[w] = NoAccount
    PROVE  pc[w] = "idle" /\ answer[w] = NoAnswer /\ w \notin fresh
  <1>1. TypeOK /\ JobsOK /\ SessionsOK
    BY DEF SInv, WInv
  <1>2. pc[w] # "idle" => row[w] \in Accounts
    BY <1>1, JobParts DEF SessionsOK
  <1> QED BY <1>1, <1>2, NoAccountAssumption DEF SessionsOK

\* A step of record_and_check is one of the windows, and every other changes none.
LEMMA StepOfWindows ==
    ASSUME SInv, ScreeningNext PROVE [Next]_vars
  <1>1. ASSUME NEW w \in Workers, Request(w) PROVE [Next]_vars
    <2>1. ASSUME NEW i \in Ips, NEW rule_amount \in BOOLEAN, Screen(w, i, rule_amount) PROVE Next
      <3>1. row[w] \in Accounts /\ Start(w, row[w], i, rule_amount)
        BY <2>1 DEF Screen, SInv, SessionsOK
      <3> QED BY <3>1 DEF Next
    <2>2. Check(w) => Next
      BY DEF Check, Next, WorkerStep
    <2>3. Break(w) => Next
      BY DEF Break, Next, WorkerStep
    <2>4. (\E a \in Accounts : ReadAccount(w, a)) \/ Commit(w) \/ GiveUp(w) => UNCHANGED vars
      BY DEF ReadAccount, Commit, GiveUp
    <2> QED BY <1>1, <2>1, <2>2, <2>3, <2>4 DEF Request
  <1>2. (\E a \in Accounts : Resolve(a)) => UNCHANGED vars
    BY DEF Resolve
  <1>3. Wait => Next
    BY DEF Wait, Next
  <1> QED BY <1>1, <1>2, <1>3 DEF ScreeningNext

\* A step that leaves the windows, the counts and the records of an account alone,
\* and after which no request of it can be recorded that could not before.
LEMMA IdleKeeps ==
    ASSUME SInv, UNCHANGED vars, NEW a \in Accounts, recorded'[a] = recorded[a],
           \A w \in Workers : Rival(w, a)' => Rival(w, a) /\ answer'[w] = answer[w]
    PROVE  AccountOK(a)'
  <1>1. UNCHANGED <<now, pc, job, attempts, passed>>
    BY DEF vars, history
  <1>2. attempts'[a] \in [Times -> Nat] /\ passed'[a] \in [Times -> Nat]
    BY <1>1, RecordParts
  <1>3. \A t \in Times : attempts[a][t] <= attempts'[a][t] /\ passed[a][t] <= passed'[a][t]
    <2> TAKE t \in Times
    <2>1. attempts'[a][t] = attempts[a][t] /\ passed'[a][t] = passed[a][t]
      BY <1>1
    <2>2. attempts'[a][t] \in Nat /\ passed'[a][t] \in Nat
      BY <1>2
    <2> QED BY <2>1, <2>2
  <1>4. ASSUME NEW w \in Workers, Rival(w, a)'
        PROVE  /\ Rival(w, a) /\ StampOf(w)' = StampOf(w) /\ OfRule(w)' = OfRule(w)
               /\ Granted(w)' => Granted(w)
    <2>1. Rival(w, a) /\ answer'[w] = answer[w] /\ pc'[w] = pc[w] /\ job'[w] = job[w]
      BY <1>1, <1>4
    <2> QED BY <2>1 DEF StampOf, OfRule, Granted
  <1> QED BY <1>1, <1>2, <1>3, <1>4, CalmKeeps

\* Reading an account keeps them.
LEMMA ReadKeeps ==
    ASSUME SInv, NEW w \in Workers, NEW b \in Accounts, ReadAccount(w, b)
    PROVE  SessionsOK' /\ \A a \in Accounts : AccountOK(a)'
  <1>1. /\ row[w] = NoAccount /\ row' = [row EXCEPT ![w] = b] /\ fresh' = fresh \cup {w}
        /\ UNCHANGED <<vars, answer, recorded>> /\ UNCHANGED <<now, pc, job>>
    BY DEF ReadAccount, vars
  <1>2. pc[w] = "idle" /\ answer[w] = NoAnswer /\ SessionsOK
    BY <1>1, Unread DEF SInv
  <1>3. SessionsOK'
    BY <1>1, <1>2 DEF SessionsOK
  <1>4. ASSUME NEW a \in Accounts PROVE AccountOK(a)'
    <2>1. ASSUME NEW v \in Workers, Rival(v, a)' PROVE Rival(v, a) /\ answer'[v] = answer[v]
      <3>1. v # w
        BY <1>1, <1>2, <2>1 DEF Rival, Has
      <3> QED BY <1>1, <1>2, <2>1, <3>1 DEF Rival, Has, SessionsOK
    <2> QED BY <1>1, <2>1, IdleKeeps
  <1> QED BY <1>3, <1>4

\* Giving up keeps them.
LEMMA GiveUpKeeps ==
    ASSUME SInv, NEW w \in Workers, GiveUp(w)
    PROVE  SessionsOK' /\ \A a \in Accounts : AccountOK(a)'
  <1>1. /\ pc[w] = "idle" /\ row' = [row EXCEPT ![w] = NoAccount] /\ fresh' = fresh \ {w}
        /\ answer' = [answer EXCEPT ![w] = NoAnswer]
        /\ UNCHANGED <<vars, recorded>> /\ UNCHANGED <<now, pc, job>>
    BY DEF GiveUp, Leave, vars
  <1>2. SessionsOK
    BY DEF SInv
  <1>3. SessionsOK'
    BY <1>1, <1>2 DEF SessionsOK
  <1>4. ASSUME NEW a \in Accounts PROVE AccountOK(a)'
    <2>1. ASSUME NEW v \in Workers, Rival(v, a)' PROVE Rival(v, a) /\ answer'[v] = answer[v]
      <3>1. v # w
        BY <1>1, <2>1 DEF Rival
      <3> QED BY <1>1, <1>2, <2>1, <3>1 DEF Rival, Has, SessionsOK
    <2> QED BY <1>1, <2>1, IdleKeeps
  <1> QED BY <1>3, <1>4

\* A resolution keeps them.
LEMMA ResolveKeeps ==
    ASSUME SInv, NEW b \in Accounts, Resolve(b)
    PROVE  SessionsOK' /\ \A a \in Accounts : AccountOK(a)'
  <1>1. /\ fresh' \subseteq fresh /\ UNCHANGED <<vars, row, answer, recorded>>
        /\ UNCHANGED <<now, pc, job>>
    BY DEF Resolve, vars
  <1>2. SessionsOK'
    BY <1>1 DEF SInv, SessionsOK
  <1>3. ASSUME NEW a \in Accounts PROVE AccountOK(a)'
    <2>1. ASSUME NEW v \in Workers, Rival(v, a)' PROVE Rival(v, a) /\ answer'[v] = answer[v]
      BY <1>1, <2>1 DEF Rival, Has
    <2> QED BY <1>1, <2>1, IdleKeeps
  <1> QED BY <1>2, <1>3

\* Calling record_and_check keeps them: its stamp is the latest there is.
LEMMA ScreenKeeps ==
    ASSUME SInv, NEW w \in Workers, NEW i \in Ips, NEW rule_amount \in BOOLEAN,
           Screen(w, i, rule_amount)
    PROVE  SessionsOK' /\ \A a \in Accounts : AccountOK(a)'
  <1>1. TypeOK /\ JobsOK /\ SessionsOK
    BY DEF SInv, WInv
  <1>2. row[w] \in Accounts /\ answer[w] = NoAnswer /\ pc[w] = "idle"
    BY <1>1 DEF Screen, SessionsOK, Start
  <1>3. /\ UNCHANGED <<row, fresh, answer, recorded, now, passed>>
        /\ pc'[w] = "ip" /\ job'[w].stamp = now /\ job'[w].rule_amount = rule_amount
        /\ job'[w].account = row[w]
        /\ \A v \in Workers \ {w} : pc'[v] = pc[v] /\ job'[v] = job[v]
        /\ \A a \in Accounts : attempts'[a] = IF a = row[w] /\ rule_amount
                                                THEN Add(attempts[a], now) ELSE attempts[a]
    BY <1>1, RuleAssumption DEF Screen, session, Start, Stamp, TypeOK, Keys
  <1>4. SessionsOK'
    BY <1>1, <1>2, <1>3 DEF SessionsOK
  <1>5. ASSUME NEW a \in Accounts PROVE AccountOK(a)'
    <2>1. /\ now \in Times /\ attempts[a] \in [Times -> Nat] /\ passed[a] \in [Times -> Nat]
          /\ AccountOK(a)
      BY RecordParts DEF SInv
    <2>2. /\ attempts'[a] \in [Times -> Nat]
          /\ \A t \in Times : attempts'[a][t] = IF a = row[w] /\ rule_amount /\ t = now
                                                    THEN attempts[a][t] + 1 ELSE attempts[a][t]
      <3>1. Add(attempts[a], now) \in [Times -> Nat]
            /\ \A t \in Times : Add(attempts[a], now)[t] = IF t = now THEN attempts[a][t] + 1
                                                                        ELSE attempts[a][t]
        BY <2>1 DEF Add
      <3> QED BY <1>3, <2>1, <3>1
    <2>3. \A t \in Times : attempts[a][t] <= attempts'[a][t] /\ passed[a][t] <= passed'[a][t]
      <3> TAKE t \in Times
      <3>1. attempts[a][t] \in Nat /\ passed[a][t] \in Nat /\ passed'[a][t] = passed[a][t]
        BY <1>3, <2>1
      <3> QED BY <2>2, <3>1
    <2>4. Rival(w, a)' => RivalOK(w, a)'
      <3> SUFFICES ASSUME Rival(w, a)' PROVE RivalOK(w, a)'
        OBVIOUS
      <3>1. a = row[w] /\ StampOf(w)' = now /\ OfRule(w)' = rule_amount /\ ~Granted(w)'
        BY <1>2, <1>3 DEF Rival, StampOf, OfRule, Granted
      <3>2. ASSUME rule_amount, NEW x \in Anomalies PROVE recorded[a][x][now] < attempts'[a][now]
        <4>1. recorded[a][x][now] <= attempts[a][now]
          BY <2>1 DEF AccountOK
        <4>2. recorded[a][x][now] \in Nat /\ attempts[a][now] \in Nat
          BY <1>1, <2>1 DEF SessionsOK, Records
        <4>3. attempts'[a][now] = attempts[a][now] + 1
          BY <2>1, <2>2, <3>1, <3>2
        <4> QED BY <4>1, <4>2, <4>3
      <3>3. OfRule(w)' => \A x \in Anomalies : recorded'[a][x][StampOf(w)'] < attempts'[a][StampOf(w)']
        BY <1>3, <3>1, <3>2
      <3>4. \A t \in Times : recorded'[a]["none"][t] # 0 => t <= StampOf(w)'
        BY <1>3, <2>1, <3>1 DEF AccountOK
      <3>5. Approved(a, StampOf(w))' <= AccountMax
        BY <1>3, <2>1, <3>1 DEF AccountOK, Approved
      <3> QED BY <3>1, <3>3, <3>4, <3>5 DEF RivalOK
    <2>5. ASSUME NEW v \in Workers, Rival(v, a)', v # w
          PROVE  /\ Rival(v, a) /\ StampOf(v)' = StampOf(v) /\ OfRule(v)' = OfRule(v)
                 /\ Granted(v)' => Granted(v)
      BY <1>3, <2>5 DEF Rival, Has, StampOf, OfRule, Granted
    <2> QED BY <1>3, <2>1, <2>2, <2>3, <2>4, <2>5, CalmKeeps
  <1> QED BY <1>4, <1>5

\* A pipeline that finds no pattern leaves room for one: what is approved and
\* still counts was let through, and is in the window with no later stamp.
LEMMA RoomLeft ==
    ASSUME SInv, NEW w \in Workers, NEW a \in Accounts, Rival(w, a), AccountClear(w)
    PROVE  job[w].stamp > now - AccountWindow => Approved(a, now) < AccountMax
  <1>1. TypeOK /\ JobsOK /\ SessionsOK /\ WInv /\ pc[w] = "account"
    BY DEF SInv, WInv, AccountClear
  <1>2. PICK s : s = job[w].stamp /\ s = StampOf(w)
    BY <1>1 DEF StampOf
  <1> SUFFICES ASSUME s > now - AccountWindow PROVE Approved(a, now) < AccountMax
    BY <1>2
  <1>3. a = job[w].account
    BY <1>1 DEF Rival, SessionsOK
  <1>4. s \in Times /\ s \in Nat /\ s <= now /\ RivalOK(w, a) /\ AccountOK(a)
    BY <1>2, RivalParts
  <1>5. PICK log, kept, since, first :
          /\ log = recorded[a]["none"] /\ kept = window[a]
          /\ since = now - AccountWindow + 1 /\ first = s - AccountWindow + 1
    OBVIOUS
  <1>6. /\ a \in Keys /\ Width(a) = AccountWindow /\ Limit(a) = AccountMax
        /\ log \in [Times -> Nat] /\ passed[a] \in [Times -> Nat] /\ kept \in [Times -> Nat]
        /\ AccountWindow \in Nat \ {0} /\ AccountMax \in Nat /\ now \in Times /\ now \in Nat
        /\ Times = 0 .. MaxTime /\ MaxTime \in Nat
    BY <1>1, <1>5, RecordParts, RuleAssumption DEF TypeOK, Log, Times
  <1>7. /\ since \in Int /\ first \in Int /\ s \in Int /\ now \in Int
        /\ first <= since /\ since <= s /\ since <= s + 1 /\ s <= now
    BY <1>4, <1>5, <1>6
  <1>8. Within(kept, first, s) + 1 <= AccountMax
    <2>1. ~Over(CountAt(a, s, Width(a)), Limit(a))
      BY <1>2, <1>3, <1>6 DEF AccountClear
    <2>2. Held(a, Opens(a, s), s) + 1 <= Limit(a)
      BY <1>1, <1>4, <1>6, <2>1, NotOver
    <2> QED BY <1>5, <1>6, <2>2 DEF Held, Opens
  <1>9. Within(log, since, now) = Within(log, since, s)
    <2>1. Within(log, since, now) = Within(log, since, s) + Within(log, s + 1, now)
      <3>1. log \in [Times -> Nat]
        BY <1>6
      <3> QED BY <1>7, <3>1, WithinSplit
    <2>2. \A t \in Times : s + 1 <= t /\ t <= now => log[t] = 0
      <3> TAKE t \in Times
      <3>1. log[t] # 0 => t <= s
        BY <1>2, <1>4, <1>5 DEF RivalOK
      <3> QED BY <1>4, <1>6, <3>1
    <2>3. Within(log, s + 1, now) = 0 /\ Within(log, since, s) \in Nat
      BY <1>6, <2>2, WithinNothing, WithinNat
    <2> QED BY <2>1, <2>3
  <1>10. Within(log, since, s) <= Within(passed[a], since, s)
    <2>1. \A t \in Times : since <= t /\ t <= s => log[t] <= passed[a][t]
      BY <1>4, <1>5 DEF AccountOK
    <2> QED BY <1>6, <2>1, WithinMonotone
  <1>11. Within(passed[a], since, s) <= Within(kept, since, s)
    <2>1. Through(a, since, s) <= Within(kept, since, s)
      <3>1. since \in (1 - Width(a)) .. MaxTime /\ since > now - Width(a)
        BY <1>5, <1>6, <1>7
      <3>2. Kept(a)
        BY <1>1, <1>6 DEF WInv, KeyOK
      <3> QED BY <1>4, <1>5, <3>1, <3>2 DEF Kept
    <2>2. /\ Within(passed[a], since, s) \in Nat /\ Within(kept, since, s) \in Nat
          /\ Cardinality(ClearedIn(a, since, s)) \in Nat
      BY <1>6, WithinNat, DueFinite
    <2> QED BY <2>1, <2>2 DEF Through
  <1>12. Within(kept, since, s) <= Within(kept, first, s)
    <2>1. kept \in [Times -> Nat]
      BY <1>6
    <2> QED BY <1>7, <2>1, WithinWider
  <1>13. Approved(a, now) = Within(log, since, now)
    BY <1>5 DEF Approved
  <1>14. /\ Within(log, since, s) \in Nat /\ Within(passed[a], since, s) \in Nat
         /\ Within(kept, since, s) \in Nat /\ Within(kept, first, s) \in Nat
    BY <1>6, WithinNat
  <1> QED BY <1>6, <1>8, <1>9, <1>10, <1>11, <1>12, <1>13, <1>14

\* What a step of record_and_check does to the stamps.
LEMMA CheckParts ==
    ASSUME SInv, NEW w \in Workers, Check(w)
    PROVE  /\ pc[w] # "idle" /\ answer[w] = NoAnswer /\ row[w] = job[w].account
           /\ UNCHANGED <<row, fresh, recorded, now, attempts>>
           /\ \A v \in Workers \ {w} : pc'[v] = pc[v] /\ job'[v] = job[v] /\ answer'[v] = answer[v]
           /\ \/ /\ pc'[w] # "idle" /\ answer'[w] = NoAnswer
                 /\ UNCHANGED <<job, passed>>
              \/ /\ pc'[w] = "idle" /\ answer'[w] \in Answers /\ answer'[w] # NoAnswer
                 /\ answer'[w].stamp = job[w].stamp /\ answer'[w].rule_amount = job[w].rule_amount
                 /\ \/ AccountClear(w)
                    \/ ~answer'[w].rule_amount
                    \/ answer'[w].anomaly # "none"
                 /\ \E anomaly \in BOOLEAN : Answer(w, anomaly)
  <1>1. TypeOK /\ JobsOK /\ SessionsOK
    BY DEF SInv, WInv
  <1>2. pc[w] # "idle" /\ UNCHANGED <<row, fresh, recorded, now, attempts>>
    BY DEF Check, IpNext, IpClear, AccountClear, IpBurst, AccountPattern, history
  <1>3. answer[w] = NoAnswer /\ row[w] = job[w].account /\ job[w] \in Job
    BY <1>1, <1>2 DEF SessionsOK, JobsOK
  <1>4. CASE IpNext(w) /\ UNCHANGED answer
    <2>1. /\ pc' = [pc EXCEPT ![w] = "account"] /\ UNCHANGED <<job, passed, answer>>
      BY <1>4 DEF IpNext, history
    <2> QED BY <1>1, <1>2, <1>3, <2>1 DEF TypeOK
  <1>5. ASSUME NEW anomaly \in Anomalies, NEW flagged \in BOOLEAN,
               Reply(w, anomaly), Answer(w, flagged),
               AccountClear(w) \/ ~job[w].rule_amount \/ anomaly # "none"
        PROVE  /\ \A v \in Workers \ {w} : pc'[v] = pc[v] /\ job'[v] = job[v] /\ answer'[v] = answer[v]
               /\ pc'[w] = "idle" /\ answer'[w] \in Answers /\ answer'[w] # NoAnswer
               /\ answer'[w].stamp = job[w].stamp /\ answer'[w].rule_amount = job[w].rule_amount
               /\ \/ AccountClear(w)
                  \/ ~answer'[w].rule_amount
                  \/ answer'[w].anomaly # "none"
    <2>1. pc'[w] = "idle" /\ \A v \in Workers \ {w} : pc'[v] = pc[v] /\ job'[v] = job[v]
      BY <1>1, <1>5, Answered
    <2>2. /\ answer'[w] = [anomaly |-> anomaly, stamp |-> job[w].stamp,
                           rule_amount |-> job[w].rule_amount]
          /\ \A v \in Workers \ {w} : answer'[v] = answer[v]
      BY <1>1, <1>5 DEF Reply, SessionsOK
    <2>3. answer'[w] \in Answers
      BY <1>3, <2>2 DEF Answers, Job
    <2>4. answer'[w] # NoAnswer
      <3>1. answer'[w].anomaly # NoAnswer.anomaly
        BY <2>2 DEF Anomalies, NoAnswer
      <3> QED BY <3>1
    <2> QED BY <1>5, <2>1, <2>2, <2>3, <2>4
  <1>6. CASE IpClear(w) /\ Reply(w, "none")
    <2>1. Answer(w, FALSE) /\ ~job[w].rule_amount
      BY <1>6 DEF IpClear
    <2> QED BY <1>2, <1>3, <1>5, <1>6, <2>1 DEF Anomalies
  <1>7. CASE AccountClear(w) /\ Reply(w, "none")
    <2>1. Answer(w, FALSE)
      BY <1>7 DEF AccountClear
    <2> QED BY <1>2, <1>3, <1>5, <1>7, <2>1 DEF Anomalies
  <1>8. CASE IpBurst(w) /\ Reply(w, "burst")
    <2>1. Answer(w, TRUE)
      BY <1>8 DEF IpBurst
    <2> QED BY <1>2, <1>3, <1>5, <1>8, <2>1 DEF Anomalies
  <1>9. CASE AccountPattern(w) /\ Reply(w, "pattern")
    <2>1. Answer(w, TRUE)
      BY <1>9 DEF AccountPattern
    <2> QED BY <1>2, <1>3, <1>5, <1>9, <2>1 DEF Anomalies
  <1> QED BY <1>4, <1>6, <1>7, <1>8, <1>9 DEF Check

\* A step of record_and_check keeps the accounts.
LEMMA CheckKeeps ==
    ASSUME SInv, NEW w \in Workers, Check(w)
    PROVE  SessionsOK' /\ \A a \in Accounts : AccountOK(a)'
  <1>1. /\ pc[w] # "idle" /\ answer[w] = NoAnswer /\ row[w] = job[w].account
        /\ UNCHANGED <<row, fresh, recorded, now, attempts>>
        /\ \A v \in Workers \ {w} : pc'[v] = pc[v] /\ job'[v] = job[v] /\ answer'[v] = answer[v]
        /\ \/ /\ pc'[w] # "idle" /\ answer'[w] = NoAnswer
              /\ UNCHANGED <<job, passed>>
           \/ /\ pc'[w] = "idle" /\ answer'[w] \in Answers /\ answer'[w] # NoAnswer
              /\ answer'[w].stamp = job[w].stamp /\ answer'[w].rule_amount = job[w].rule_amount
              /\ \/ AccountClear(w)
                 \/ ~answer'[w].rule_amount
                 \/ answer'[w].anomaly # "none"
              /\ \E anomaly \in BOOLEAN : Answer(w, anomaly)
    BY CheckParts
  <1>2. TypeOK /\ JobsOK /\ SessionsOK
    BY DEF SInv, WInv
  <1>3. job[w].stamp <= now /\ job[w].stamp \in Times /\ job[w].account \in Accounts
    BY <1>1, <1>2, JobParts DEF JobsOK
  <1>4. SessionsOK'
    <2>1. answer' \in [Workers -> Answers \cup {NoAnswer}]
      <3>1. DOMAIN answer' = Workers /\ answer' = [v \in Workers |-> answer'[v]]
        BY <1>2 DEF Check, Reply, SessionsOK
      <3> QED BY <1>1, <1>2, <3>1 DEF SessionsOK
    <2>2. ASSUME NEW v \in Workers
          PROVE  /\ pc'[v] # "idle" => row'[v] = job'[v].account /\ answer'[v] = NoAnswer
                 /\ answer'[v] # NoAnswer => row'[v] \in Accounts /\ answer'[v].stamp <= now'
                 /\ v \in fresh' => row'[v] \in Accounts
      <3>1. CASE v = w
        BY <1>1, <1>3, <3>1
      <3>2. CASE v # w
        BY <1>1, <1>2, <3>2 DEF SessionsOK
      <3> QED BY <3>1, <3>2
    <2> QED BY <1>1, <1>2, <2>1, <2>2 DEF SessionsOK
  <1>5. ASSUME NEW a \in Accounts PROVE AccountOK(a)'
    <2>1. /\ attempts[a] \in [Times -> Nat] /\ passed[a] \in [Times -> Nat]
          /\ recorded[a]["none"] \in [Times -> Nat] /\ AccountOK(a) /\ a \in Keys
      BY RecordParts DEF SInv
    <2>2. /\ passed'[a] \in [Times -> Nat]
          /\ \A t \in Times : passed[a][t] <= passed'[a][t]
      <3>1. passed'[a] = passed[a] \/ passed'[a] = Add(passed[a], job[w].stamp)
        BY <1>1, <1>2, <2>1, Answered
      <3>2. \A t \in Times : passed[a][t] \in Nat
        BY <2>1
      <3>3. /\ Add(passed[a], job[w].stamp) \in [Times -> Nat]
            /\ \A t \in Times : passed[a][t] <= Add(passed[a], job[w].stamp)[t]
        BY <1>3, <2>1 DEF Add
      <3>4. CASE passed'[a] = passed[a]
        BY <2>1, <3>2, <3>4
      <3>5. CASE passed'[a] = Add(passed[a], job[w].stamp)
        BY <3>3, <3>5
      <3> QED BY <3>1, <3>4, <3>5
    <2>3. \A t \in Times : attempts[a][t] <= attempts'[a][t]
      <3> TAKE t \in Times
      <3>1. attempts[a][t] \in Nat /\ attempts'[a][t] = attempts[a][t]
        BY <1>1, <2>1
      <3> QED BY <3>1
    <2>4. ASSUME NEW v \in Workers, Rival(v, a)', v # w
          PROVE  /\ Rival(v, a) /\ StampOf(v)' = StampOf(v) /\ OfRule(v)' = OfRule(v)
                 /\ Granted(v)' => Granted(v)
      BY <1>1, <2>4 DEF Rival, Has, StampOf, OfRule, Granted
    <2>5. ASSUME Rival(w, a)'
          PROVE  /\ Rival(w, a) /\ StampOf(w)' = StampOf(w) /\ OfRule(w)' = OfRule(w)
                 /\ Granted(w)' => RoomFor(a, StampOf(w))'
      <3>1. Rival(w, a)
        BY <1>1, <2>5 DEF Rival, Has
      <3>2. StampOf(w)' = StampOf(w) /\ StampOf(w) = job[w].stamp /\ OfRule(w)' = OfRule(w)
        BY <1>1 DEF StampOf, OfRule
      <3>3. ASSUME Granted(w)' PROVE RoomFor(a, StampOf(w))'
        <4>1. AccountClear(w) /\ job[w].rule_amount
          BY <1>1, <3>3 DEF Granted
        <4>2. passed'[a] = Add(passed[a], job[w].stamp)
          <5>1. Answer(w, FALSE) /\ Concerns(w, a)
            BY <1>1, <3>1, <4>1 DEF AccountClear, Concerns, Rival
          <5> QED BY <1>2, <2>1, <5>1, Answered
        <4>3. recorded[a]["none"][job[w].stamp] < passed'[a][job[w].stamp]
          <5>1. recorded[a]["none"][job[w].stamp] <= passed[a][job[w].stamp]
            BY <1>3, <2>1 DEF AccountOK
          <5>2. passed'[a][job[w].stamp] = passed[a][job[w].stamp] + 1
            BY <1>3, <2>1, <4>2 DEF Add
          <5>3. passed[a][job[w].stamp] \in Nat /\ recorded[a]["none"][job[w].stamp] \in Nat
            BY <1>3, <2>1
          <5> QED BY <5>1, <5>2, <5>3
        <4>4. job[w].stamp > now - AccountWindow => Approved(a, now) < AccountMax
          BY <3>1, <4>1, RoomLeft
        <4>5. Approved(a, now)' = Approved(a, now)
          BY <1>1 DEF Approved
        <4> QED BY <1>1, <3>2, <4>3, <4>4, <4>5 DEF RoomFor
      <3> QED BY <3>1, <3>2, <3>3
    <2> QED BY <1>1, <2>1, <2>2, <2>3, <2>4, <2>5, CalmKeeps
  <1> QED BY <1>4, <1>5

\* record_and_check that raises keeps them.
LEMMA BreakKeeps ==
    ASSUME SInv, NEW w \in Workers, Break(w)
    PROVE  SessionsOK' /\ \A a \in Accounts : AccountOK(a)'
  <1>1. TypeOK /\ JobsOK /\ SessionsOK
    BY DEF SInv, WInv
  <1>2. /\ row' = [row EXCEPT ![w] = NoAccount] /\ fresh' = fresh \ {w}
        /\ answer' = [answer EXCEPT ![w] = NoAnswer]
        /\ UNCHANGED <<now, attempts, recorded>> /\ Answer(w, TRUE)
    BY DEF Break, Leave, Fail
  <1>3. /\ pc'[w] = "idle" /\ \A v \in Workers \ {w} : pc'[v] = pc[v] /\ job'[v] = job[v]
        /\ \A k \in Keys : passed'[k] = passed[k]
    BY <1>1, <1>2, Answered
  <1>4. SessionsOK'
    BY <1>1, <1>2, <1>3 DEF SessionsOK
  <1>5. ASSUME NEW a \in Accounts PROVE AccountOK(a)'
    <2>1. /\ attempts'[a] = attempts[a] /\ passed'[a] = passed[a]
          /\ attempts[a] \in [Times -> Nat] /\ passed[a] \in [Times -> Nat]
      BY <1>2, <1>3, RecordParts
    <2>2. \A t \in Times : attempts[a][t] <= attempts'[a][t] /\ passed[a][t] <= passed'[a][t]
      <3> TAKE t \in Times
      <3>1. attempts[a][t] \in Nat /\ passed[a][t] \in Nat
        BY <2>1
      <3> QED BY <2>1, <3>1
    <2>3. ASSUME NEW v \in Workers, Rival(v, a)'
          PROVE  /\ Rival(v, a) /\ StampOf(v)' = StampOf(v) /\ OfRule(v)' = OfRule(v)
                 /\ Granted(v)' => Granted(v)
      <3>1. v # w
        BY <1>2, <2>3 DEF Rival
      <3>2. row'[v] = row[v] /\ answer'[v] = answer[v] /\ pc'[v] = pc[v] /\ job'[v] = job[v]
        BY <1>1, <1>2, <1>3, <3>1 DEF SessionsOK
      <3> QED BY <1>2, <2>3, <3>2 DEF Rival, Has, StampOf, OfRule, Granted
    <2> QED BY <1>2, <2>1, <2>2, <2>3, CalmKeeps
  <1> QED BY <1>4, <1>5

\* Of one account, what a COMMIT records had room: the version says that nothing
\* was recorded since the row was read.
LEMMA CommitRecords ==
    ASSUME SInv, NEW w \in Workers, Commit(w), NEW a \in Accounts, row[w] = a
    PROVE  AccountOK(a)'
  <1>1. TypeOK /\ JobsOK /\ SessionsOK
    BY DEF SInv, WInv
  <1>2. PICK x, s : x = answer[w].anomaly /\ s = answer[w].stamp
    OBVIOUS
  <1>3. /\ answer[w] # NoAnswer /\ w \in fresh /\ fresh' = fresh \ Readers(a)
        /\ row' = [row EXCEPT ![w] = NoAccount]
        /\ UNCHANGED <<now, attempts, passed>>
        /\ recorded' = IF answer[w].rule_amount
                         THEN [recorded EXCEPT ![a][x] = Add(@, s)] ELSE recorded
    BY <1>2 DEF Commit, SameVersion, Leave, vars, history
  <1>4. pc[w] = "idle" /\ x \in Anomalies /\ "none" \in Anomalies
    BY <1>1, <1>2, <1>3 DEF SessionsOK, Answers, Anomalies
  <1>5. StampOf(w) = s /\ OfRule(w) = answer[w].rule_amount /\ Rival(w, a)
    BY <1>2, <1>3, <1>4 DEF StampOf, OfRule, Rival, Has
  <1>6. s \in Times /\ s \in Nat /\ s <= now /\ RivalOK(w, a) /\ AccountOK(a)
    BY <1>5, RivalParts
  <1>7. ~\E v \in Workers : Rival(v, a)'
    BY <1>1, <1>3, NoAccountAssumption DEF Rival, Readers, SessionsOK
  <1>8. CASE ~answer[w].rule_amount
    <2>1. UNCHANGED <<recorded, now, attempts, passed>>
      BY <1>3, <1>8
    <2> QED BY <1>6, <1>7, <2>1 DEF AccountOK, Approved
  <1>9. CASE answer[w].rule_amount
    <2>1. PICK log, new : log = recorded[a]["none"] /\ new = recorded'[a]["none"]
      OBVIOUS
    <2>2. /\ recorded[a] \in [Anomalies -> [Times -> Nat]] /\ log \in [Times -> Nat]
          /\ attempts[a] \in [Times -> Nat] /\ passed[a] \in [Times -> Nat]
          /\ AccountWindow \in Nat \ {0} /\ AccountMax \in Nat \ {0}
          /\ now \in Times /\ now \in Nat /\ Times \subseteq Nat
      BY <1>1, <1>4, <2>1, RecordParts DEF SessionsOK, Records
    <2>3. \A y \in Anomalies : recorded'[a][y] = IF y = x THEN Add(recorded[a][y], s)
                                                        ELSE recorded[a][y]
      BY <1>1, <1>3, <1>4, <1>9 DEF SessionsOK, Records
    <2>4. \A y \in Anomalies, t \in Times :
             recorded'[a][y][t] = IF y = x /\ t = s THEN recorded[a][y][t] + 1 ELSE recorded[a][y][t]
      <3> TAKE y \in Anomalies, t \in Times
      <3>1. recorded[a][y] \in [Times -> Nat]
        BY <2>2
      <3>2. Add(recorded[a][y], s)[t] = IF t = s THEN recorded[a][y][t] + 1 ELSE recorded[a][y][t]
        BY <1>6, <3>1 DEF Add
      <3> QED BY <2>3, <3>2
    <2>5. \A y \in Anomalies, t \in Times : recorded'[a][y][t] <= attempts'[a][t]
      <3> TAKE y \in Anomalies, t \in Times
      <3>1. recorded[a][y][t] \in Nat /\ attempts[a][t] \in Nat /\ recorded[a][y][t] <= attempts[a][t]
        BY <1>6, <2>2 DEF AccountOK
      <3>2. y = x /\ t = s => recorded[a][y][t] < attempts[a][t]
        BY <1>5, <1>6, <1>9 DEF RivalOK
      <3> QED BY <1>3, <2>4, <3>1, <3>2
    <2>6. CASE x # "none"
      <3>1. recorded'[a]["none"] = recorded[a]["none"]
        BY <1>4, <2>3, <2>6
      <3> QED BY <1>3, <1>6, <1>7, <2>5, <3>1 DEF AccountOK, Approved
    <2>7. CASE x = "none"
      <3>1. new = Add(log, s) /\ RoomFor(a, s)
        BY <1>2, <1>3, <1>4, <1>5, <1>6, <1>9, <2>1, <2>3, <2>7 DEF RivalOK, Granted
      <3>2. \A t \in Times : recorded'[a]["none"][t] <= passed'[a][t]
                             /\ (recorded'[a]["none"][t] # 0 => t <= now')
        <4> TAKE t \in Times
        <4>1. /\ recorded[a]["none"][t] <= passed[a][t]
              /\ recorded[a]["none"][t] # 0 => t <= now
              /\ recorded[a]["none"][t] \in Nat /\ passed[a][t] \in Nat
          BY <1>6, <2>1, <2>2 DEF AccountOK
        <4>2. recorded[a]["none"][s] < passed[a][s]
          BY <3>1 DEF RoomFor
        <4>3. recorded'[a]["none"][t] = IF t = s THEN recorded[a]["none"][t] + 1
                                                ELSE recorded[a]["none"][t]
          BY <1>4, <2>4, <2>7
        <4> QED BY <1>3, <1>6, <4>1, <4>2, <4>3
      <3>3. \A from, to : /\ Within(new, from, to) = Within(log, from, to)
                                + (IF from <= s /\ s <= to THEN 1 ELSE 0)
                          /\ Within(log, from, to) \in Nat
        BY <1>6, <2>2, <3>1, WithinAdd, WithinNat
      <3>4. Approved(a, now)' <= AccountMax
        <4>1. PICK first : first = now - AccountWindow + 1
          OBVIOUS
        <4>2. /\ Approved(a, now) = Within(log, first, now) /\ Approved(a, now) <= AccountMax
              /\ Approved(a, now)' = Within(new, first, now)
          BY <1>3, <1>6, <2>1, <4>1 DEF Approved, AccountOK
        <4>3. first <= s => Within(log, first, now) < AccountMax
          BY <1>6, <2>2, <3>1, <4>1, <4>2 DEF RoomFor
        <4>4. Within(log, first, now) \in Nat
          BY <3>3
        <4>5. Within(new, first, now) = Within(log, first, now)
                                          + (IF first <= s /\ s <= now THEN 1 ELSE 0)
          BY <3>3
        <4> QED BY <2>2, <4>2, <4>3, <4>4, <4>5
      <3>5. ASSUME NEW t \in Times PROVE Approved(a, t)' <= AccountMax + 1
        <4>1. PICK first, since : first = t - AccountWindow + 1 /\ since = s - AccountWindow + 1
          OBVIOUS
        <4>2. /\ Approved(a, t) = Within(log, first, t) /\ Approved(a, t)' = Within(new, first, t)
              /\ Approved(a, s) = Within(log, since, s)
              /\ Approved(a, t) <= AccountMax + 1 /\ Approved(a, s) <= AccountMax
          BY <1>3, <1>5, <1>6, <2>1, <4>1 DEF Approved, AccountOK, RivalOK
        <4>3. /\ first \in Int /\ since \in Int /\ t \in Int /\ s \in Int
              /\ Within(log, first, t) \in Nat /\ Within(log, first, s) \in Nat
              /\ Within(log, since, s) \in Nat
          BY <1>6, <2>2, <3>3, <4>1
        <4>4. Within(new, first, t) = Within(log, first, t) + (IF first <= s /\ s <= t THEN 1 ELSE 0)
          BY <3>3
        <4>5. CASE first <= s /\ s <= t
          <5>1. Within(log, first, t) = Within(log, first, s) + Within(log, s + 1, t)
            <6>1. first <= s + 1
              BY <4>3, <4>5
            <6> QED BY <2>2, <4>3, <4>5, <6>1, WithinSplit
          <5>2. Within(log, s + 1, t) = 0
            <6>1. \A u \in Times : s + 1 <= u /\ u <= t => log[u] = 0
              <7> TAKE u \in Times
              <7>1. log[u] # 0 => u <= s
                BY <1>5, <1>6, <2>1 DEF RivalOK
              <7> QED BY <1>6, <2>2, <7>1
            <6> QED BY <6>1, WithinNothing
          <5>3. Within(log, first, s) <= Within(log, since, s)
            <6>1. since <= first
              BY <1>6, <2>2, <4>1, <4>5
            <6> QED BY <2>2, <4>3, <6>1, WithinWider
          <5> QED BY <2>2, <4>2, <4>3, <4>4, <4>5, <5>1, <5>2, <5>3
        <4>6. CASE ~(first <= s /\ s <= t)
          BY <2>2, <4>2, <4>3, <4>4, <4>6
        <4> QED BY <4>5, <4>6
      <3> QED BY <1>7, <2>5, <3>2, <3>4, <3>5 DEF AccountOK
    <2> QED BY <2>6, <2>7
  <1> QED BY <1>8, <1>9

\* A COMMIT keeps the accounts.
LEMMA CommitKeeps ==
    ASSUME SInv, NEW w \in Workers, Commit(w)
    PROVE  SessionsOK' /\ \A a \in Accounts : AccountOK(a)'
  <1>1. TypeOK /\ JobsOK /\ SessionsOK
    BY DEF SInv, WInv
  <1>2. PICK b, x, s : b = row[w] /\ x = answer[w].anomaly /\ s = answer[w].stamp
    OBVIOUS
  <1>3. /\ answer[w] # NoAnswer /\ fresh' = fresh \ Readers(b)
        /\ row' = [row EXCEPT ![w] = NoAccount] /\ answer' = [answer EXCEPT ![w] = NoAnswer]
        /\ UNCHANGED vars /\ UNCHANGED <<now, pc, job>>
        /\ recorded' = IF answer[w].rule_amount
                         THEN [recorded EXCEPT ![b][x] = Add(@, s)] ELSE recorded
    BY <1>2 DEF Commit, Leave, vars
  <1>4. b \in Accounts /\ x \in Anomalies /\ s \in Times
    BY <1>1, <1>2, <1>3 DEF SessionsOK, Answers
  <1>5. SessionsOK'
    <2>1. recorded' \in Records
      <3>1. recorded[b][x] \in [Times -> Nat]
        BY <1>1, <1>4 DEF SessionsOK, Records
      <3>2. Add(recorded[b][x], s) \in [Times -> Nat]
        BY <1>4, <3>1, WithinAdd
      <3> QED BY <1>1, <1>3, <1>4, <3>2 DEF SessionsOK, Records
    <2>2. \A v \in Workers : v \in fresh' => row'[v] \in Accounts
      BY <1>1, <1>2, <1>3, <1>4 DEF SessionsOK, Readers
    <2> QED BY <1>1, <1>3, <2>1, <2>2 DEF SessionsOK
  <1>6. ASSUME NEW a \in Accounts PROVE AccountOK(a)'
    <2>1. CASE a = b
      BY <1>2, <2>1, CommitRecords
    <2>2. CASE a # b
      <3>1. recorded'[a] = recorded[a]
        BY <1>1, <1>3, <1>4, <2>2 DEF SessionsOK, Records
      <3>2. ASSUME NEW v \in Workers, Rival(v, a)' PROVE Rival(v, a) /\ answer'[v] = answer[v]
        <4>1. v # w
          BY <1>1, <1>3, <3>2, NoAccountAssumption DEF Rival, SessionsOK
        <4> QED BY <1>1, <1>3, <3>2, <4>1 DEF Rival, Has, SessionsOK
      <3> QED BY <1>3, <3>1, <3>2, IdleKeeps
    <2> QED BY <2>1, <2>2
  <1> QED BY <1>5, <1>6

\* Time that passes keeps the accounts: the window that ends now only loses.
LEMMA WaitKeeps ==
    ASSUME SInv, Wait
    PROVE  SessionsOK' /\ \A a \in Accounts : AccountOK(a)'
  <1>1. UNCHANGED <<pc, job, attempts, passed, row, fresh, answer, recorded>> /\ now' = now + 1
    BY DEF Wait, Tick, session, history
  <1>2. TypeOK /\ SessionsOK /\ now \in Nat
    BY RuleAssumption DEF SInv, WInv, TypeOK, Times
  <1>3. SessionsOK'
    <2>1. ASSUME NEW w \in Workers, answer[w] # NoAnswer PROVE answer[w].stamp <= now + 1
      <3>1. answer[w].stamp \in Times /\ answer[w].stamp <= now
        BY <1>2, <2>1 DEF SessionsOK, Answers
      <3> QED BY <1>2, <3>1, RuleAssumption DEF Times
    <2> QED BY <1>1, <1>2, <2>1 DEF SessionsOK
  <1>4. ASSUME NEW a \in Accounts PROVE AccountOK(a)'
    <2>1. PICK log, first : log = recorded[a]["none"] /\ first = now - AccountWindow + 1
      OBVIOUS
    <2>2. /\ log \in [Times -> Nat] /\ AccountOK(a) /\ first \in Int /\ now \in Int
          /\ AccountWindow \in Nat \ {0} /\ AccountMax \in Nat \ {0} /\ Times \subseteq Nat
          /\ first <= now
      BY <1>2, <2>1, RecordParts DEF SInv
    <2>3. \A t \in Times : log[t] # 0 => t <= now
      BY <2>1, <2>2 DEF AccountOK
    <2>4. Within(log, first + 1, now + 1) <= Within(log, first, now)
      <3>1. Within(log, first + 1, now + 1)
              = Within(log, first + 1, now) + Within(log, now + 1, now + 1)
        <4>1. first + 1 \in Int /\ now + 1 \in Int /\ first + 1 <= now + 1 /\ now <= now + 1
          BY <2>2
        <4> QED BY <2>2, <4>1, WithinSplit
      <3>2. Within(log, now + 1, now + 1) = 0
        <4>1. \A t \in Times : now + 1 <= t /\ t <= now + 1 => log[t] = 0
          BY <2>2, <2>3
        <4> QED BY <4>1, WithinNothing
      <3>3. Within(log, first + 1, now) <= Within(log, first, now)
        <4>1. first + 1 \in Int /\ first <= first + 1
          BY <2>2
        <4> QED BY <2>2, <4>1, WithinWider
      <3>4. Within(log, first + 1, now) \in Nat /\ Within(log, first, now) \in Nat
        BY <2>2, WithinNat
      <3> QED BY <3>1, <3>2, <3>3, <3>4
    <2>5. Approved(a, now)' <= Approved(a, now) /\ Approved(a, now)' \in Nat /\ Approved(a, now) \in Nat
      <3>1. now' - AccountWindow + 1 = first + 1
        BY <1>1, <2>1, <2>2
      <3>2. Approved(a, now)' = Within(log, first + 1, now + 1)
        BY <1>1, <2>1, <3>1 DEF Approved
      <3>3. Approved(a, now) = Within(log, first, now)
        BY <2>1 DEF Approved
      <3>4. Within(log, first + 1, now + 1) \in Nat /\ Within(log, first, now) \in Nat
        BY <2>2, WithinNat
      <3> QED BY <2>4, <3>2, <3>3, <3>4
    <2>6. \A t \in Times : Approved(a, t)' = Approved(a, t)
      BY <1>1 DEF Approved
    <2>7. ASSUME NEW w \in Workers, Rival(w, a)' PROVE RivalOK(w, a)'
      <3>1. /\ Rival(w, a) /\ StampOf(w)' = StampOf(w) /\ OfRule(w)' = OfRule(w)
            /\ (Granted(w)' <=> Granted(w))
        BY <1>1, <2>7 DEF Rival, Has, StampOf, OfRule, Granted
      <3>2. RivalOK(w, a) /\ StampOf(w) \in Nat
        BY <3>1, RivalParts
      <3>3. RoomFor(a, StampOf(w)) => RoomFor(a, StampOf(w))'
        <4>1. PICK s : s = StampOf(w) /\ s = StampOf(w)' /\ s \in Nat
          BY <3>1, <3>2
        <4>2. RoomFor(a, s) => RoomFor(a, s)'
          <5>1. s > now + 1 - AccountWindow => s > now - AccountWindow
            BY <2>2, <4>1
          <5> QED BY <1>1, <2>2, <2>5, <5>1 DEF RoomFor
        <4> QED BY <4>1, <4>2 DEF RoomFor
      <3>4. Approved(a, StampOf(w))' = Approved(a, StampOf(w))
        BY <1>1, <3>1 DEF Approved
      <3>5. OfRule(w)' => \A x \in Anomalies : recorded'[a][x][StampOf(w)'] < attempts'[a][StampOf(w)']
        BY <1>1, <3>1, <3>2 DEF RivalOK
      <3>6. \A t \in Times : recorded'[a]["none"][t] # 0 => t <= StampOf(w)'
        BY <1>1, <3>1, <3>2 DEF RivalOK
      <3> QED BY <3>1, <3>2, <3>3, <3>4, <3>5, <3>6 DEF RivalOK
    <2>8. \A t \in Times : recorded'[a]["none"][t] # 0 => t <= now'
      <3> TAKE t \in Times
      <3>1. recorded[a]["none"][t] # 0 => t <= now
        BY <2>2 DEF AccountOK
      <3> QED BY <1>1, <2>2, <3>1
    <2>9. Approved(a, now)' <= AccountMax /\ \A t \in Times : Approved(a, t)' <= AccountMax + 1
      <3>1. Approved(a, now) <= AccountMax
        BY <2>2 DEF AccountOK
      <3>2. Approved(a, now)' <= AccountMax
        BY <2>2, <2>5, <3>1
      <3>3. \A t \in Times : Approved(a, t)' <= AccountMax + 1
        BY <2>2, <2>6 DEF AccountOK
      <3> QED BY <3>2, <3>3
    <2> QED BY <1>1, <2>2, <2>7, <2>8, <2>9 DEF AccountOK
  <1> QED BY <1>3, <1>4

\* It holds at first: nothing is on record.
LEMMA FirstSession ==
    ASSUME ScreeningInit PROVE SInv
  <1>1. WInv
    BY FirstInvariant DEF ScreeningInit
  <1>2. /\ row = [w \in Workers |-> NoAccount] /\ fresh = {}
        /\ answer = [w \in Workers |-> NoAnswer]
        /\ recorded = [a \in Accounts |-> [x \in Anomalies |-> Empty]]
        /\ \A w \in Workers : pc[w] = "idle"
        /\ \A k \in Keys : attempts[k] = Empty /\ passed[k] = Empty
    BY DEF ScreeningInit, Init
  <1>3. SessionsOK
    BY <1>2 DEF SessionsOK, Records, Empty
  <1>4. ASSUME NEW a \in Accounts PROVE AccountOK(a)
    <2>1. \A from, to : Within(Empty, from, to) = 0
      <3> TAKE from, to
      <3>1. \A t \in Times : from <= t /\ t <= to => Empty[t] = 0
        BY DEF Empty
      <3> QED BY <3>1, WithinNothing
    <2>2. \A t : Approved(a, t) = 0
      BY <1>2, <2>1 DEF Approved, Anomalies
    <2>3. \A x \in Anomalies, t \in Times :
            recorded[a][x][t] = 0 /\ attempts[a][t] = 0 /\ passed[a][t] = 0
      BY <1>2 DEF Empty, Keys
    <2>4. ~\E w \in Workers : Rival(w, a)
      BY <1>2 DEF Rival
    <2> QED BY <2>2, <2>3, <2>4, RuleAssumption DEF AccountOK, Anomalies
  <1> QED BY <1>1, <1>3, <1>4 DEF SInv

\* It always holds.
LEMMA ScreeningInvariant == ScreeningSpec => []SInv
  <1>1. ScreeningInit => SInv
    BY FirstSession
  <1>2. SInv /\ [ScreeningNext]_allvars => SInv'
    <2> SUFFICES ASSUME SInv, [ScreeningNext]_allvars PROVE SInv'
      OBVIOUS
    <2>1. [Next]_vars
      BY StepOfWindows DEF allvars
    <2>2. WInv'
      BY <2>1, WindowsKept DEF SInv
    <2>3. SessionsOK' /\ \A a \in Accounts : AccountOK(a)'
      <3>1. ASSUME NEW w \in Workers, Request(w)
            PROVE  SessionsOK' /\ \A a \in Accounts : AccountOK(a)'
        BY <3>1, ReadKeeps, ScreenKeeps, CheckKeeps, BreakKeeps, CommitKeeps, GiveUpKeeps DEF Request
      <3>2. ASSUME NEW a \in Accounts, Resolve(a)
            PROVE  SessionsOK' /\ \A b \in Accounts : AccountOK(b)'
        BY <3>2, ResolveKeeps
      <3>3. CASE Wait
        BY <3>3, WaitKeeps
      <3>4. CASE UNCHANGED allvars
        <4>1. UNCHANGED vars /\ UNCHANGED <<now, pc, job, row, fresh, answer, recorded>>
          BY <3>4 DEF allvars, vars, session
        <4>2. SessionsOK'
          BY <4>1 DEF SInv, SessionsOK
        <4>3. ASSUME NEW a \in Accounts PROVE AccountOK(a)'
          <5>1. \A w \in Workers : Rival(w, a)' => Rival(w, a) /\ answer'[w] = answer[w]
            BY <4>1 DEF Rival, Has
          <5> QED BY <4>1, <5>1, IdleKeeps
        <4> QED BY <4>2, <4>3
      <3> QED BY <3>1, <3>2, <3>3, <3>4 DEF ScreeningNext
    <2> QED BY <2>2, <2>3 DEF SInv
  <1> QED BY <1>1, <1>2, PTL DEF ScreeningSpec

\* submit_transaction uses record_and_check as FraudWindow has it, so what holds
\* of the windows holds here (transactions.py:77).
THEOREM ScreeningUsesWindows == ScreeningSpec => Spec
  <1>1. ScreeningInit => Init
    BY DEF ScreeningInit
  <1>2. SInv /\ [ScreeningNext]_allvars => [Next]_vars
    BY StepOfWindows DEF allvars
  <1> QED BY <1>1, <1>2, ScreeningInvariant, PTL DEF ScreeningSpec, Spec

\* The sessions and what is on record are what they are declared to be, and no
\* more is recorded than was submitted (transactions.py:60-135).
THEOREM ScreeningIsTyped == ScreeningSpec => []ScreeningTypeOK
  <1>1. SInv => ScreeningTypeOK
    <2> SUFFICES ASSUME SInv PROVE ScreeningTypeOK
      OBVIOUS
    <2>1. WInv /\ SessionsOK /\ Counted
      BY DEF SInv, WInv
    <2>2. ASSUME NEW a \in Accounts, NEW x \in Anomalies, NEW t \in Times
          PROVE  recorded[a][x][t] \in 0 .. MaxRequests
      <3>1. recorded[a][x][t] <= attempts[a][t]
        BY DEF SInv, AccountOK
      <3>2. attempts[a][t] <= Submissions /\ Submissions <= MaxRequests /\ a \in Keys
        BY <2>1 DEF Counted, Keys
      <3>3. recorded[a][x][t] \in Nat /\ attempts[a][t] \in Nat
        BY <2>1, RecordParts DEF SessionsOK, Records
      <3>4. Submissions \in Int
        <4>1. \A i \in Ips : Within(attempts[i], 0, MaxTime) \in Nat
          <5> TAKE i \in Ips
          <5>1. attempts[i] \in [Times -> Nat]
            BY <2>1, RuleAssumption DEF WInv, TypeOK, Log, Keys
          <5> QED BY <5>1, WithinNat
        <4> QED BY <4>1, RuleAssumption, SumNat DEF Submissions
      <3> QED BY <3>1, <3>2, <3>3, <3>4, RuleAssumption
    <2>3. recorded \in [Accounts -> [Anomalies -> Log]]
      BY <2>1, <2>2 DEF SessionsOK, Records, Log
    <2> QED BY <2>1, <2>3 DEF ScreeningTypeOK, SessionsOK, WInv
  <1> QED BY <1>1, ScreeningInvariant, PTL

\* However many submissions race, and however late they are against their stamps,
\* no window of an account has more than one approved transaction of 9000 over the
\* limit (antifraud.py:65-71, transactions.py:60, 118-125).
THEOREM OneMoreIsAll == ScreeningSpec => []OneMoreAtMost
  <1>1. SInv => OneMoreAtMost
    BY DEF SInv, AccountOK, OneMoreAtMost
  <1> QED BY <1>1, ScreeningInvariant, PTL

\* Submissions that come one at a time, none for longer than the window: with
\* max_allowed approved transactions of 9000 in the window the next one is never
\* approved (antifraud.py:65-71).
THEOREM OneAtATimeIsExact ==
    ASSUME Patience <= AccountWindow PROVE ScreeningSpec => [](peak <= 1 => NextIsFlagged)
  <1>1. SInv => (peak <= 1 => NextIsFlagged)
    <2> SUFFICES ASSUME SInv, peak <= 1, NEW a \in Accounts, NEW t \in Times
                 PROVE  Approved(a, t) <= AccountMax
      BY DEF NextIsFlagged
    <2>1. PICK first : first = t - AccountWindow + 1
      OBVIOUS
    <2>2. /\ a \in Keys /\ Width(a) = AccountWindow /\ Limit(a) = AccountMax
          /\ recorded[a]["none"] \in [Times -> Nat] /\ passed[a] \in [Times -> Nat]
          /\ AccountMax \in Nat
      BY RecordParts
    <2>3. Overlap = 0
      BY RuleAssumption, FS_CardinalityType DEF SInv, WInv, TypeOK, Overlap
    <2>4. Within(passed[a], first, t) <= AccountMax + Overlap
      BY <2>1, <2>2, LimitKept DEF SInv
    <2>5. Approved(a, t) <= Within(passed[a], first, t)
      <3>1. \A u \in Times : first <= u /\ u <= t => recorded[a]["none"][u] <= passed[a][u]
        BY DEF SInv, AccountOK
      <3>2. Within(recorded[a]["none"], first, t) <= Within(passed[a], first, t)
        BY <2>2, <3>1, WithinMonotone
      <3> QED BY <2>1, <3>2 DEF Approved
    <2>6. Approved(a, t) \in Nat /\ Within(passed[a], first, t) \in Nat
      BY <2>2, WithinNat DEF Approved
    <2> QED BY <2>2, <2>3, <2>4, <2>5, <2>6
  <1> QED BY <1>1, ScreeningInvariant, PTL
=============================================================================
