--------------------------- MODULE SimClientProofs ---------------------------
(***************************************************************************)
(* What a simulation reports, for every number of tasks, of transactions in *)
(* a task and of attempts at one.                                           *)
(***************************************************************************)
EXTENDS SimClient, SumLemmas, TLAPS

\* Where a task is: it has results only once launched, a transaction to send
\* until it is done, and then all its results.
PlaceOK(s) ==
    /\ Len(results[s]) <= plan[s]
    /\ sim = "none" => pc[s] = "idle"
    /\ pc[s] = "idle" => sim = "none" /\ results[s] = <<>>
    /\ pc[s] \in {"login", "send", "wait"} => Len(results[s]) < plan[s]
    /\ pc[s] = "raised" => faulty
    /\ pc[s] = "done" => Len(results[s]) = plan[s]
    /\ pc[s] \in {"idle", "done"} => attempt[s] = 1
    /\ sim = "STORED" => pc[s] = "done"

\* What has not been sent is not at the backend.
Unsent(s) ==
    \A r \in Rounds, n \in Attempts :
        \/ r > Round(s)
        \/ r = Round(s) /\ (n > attempt[s] \/ (n = attempt[s] /\ pc[s] # "wait"))
        => server[s][r][n] = "none"

\* What is waited for is at the backend; on a network that answers, the attempts
\* before met a conflict.
Current(s) ==
    /\ pc[s] = "wait" => server[s][Round(s)][attempt[s]] # "none"
    /\ ~faulty => \A n \in Attempts : \A r \in Rounds :
         r = Round(s) /\ n < attempt[s] => server[s][r][n] = "conflict"

\* On such a network, what happened to a transaction that was returned.
Outcome(s, r) ==
    ~faulty => /\ \A n \in Attempts : server[s][r][n] # "running"
               /\ IF results[s][r] = "SUCCESS" THEN \E n \in Attempts : Records(s, r) = {n}
                                               ELSE Records(s, r) = {}

\* What is counted as a success was recorded, by the attempt sent last.
Succeeded(s, r) ==
    results[s][r] = "SUCCESS" =>
        \E n \in Records(s, r) : \A m \in Attempts : m > n => server[s][r][m] = "none"

SInv ==
    /\ TypeOK
    /\ results \in [Senders -> Seq(Status)]
    /\ \A s \in Senders : PlaceOK(s) /\ Unsent(s) /\ Current(s)
    /\ \A s \in Senders : \A r \in 1 .. Len(results[s]) : Outcome(s, r) /\ Succeeded(s, r)
    /\ ReportIsTrue

-----------------------------------------------------------------------------
(* Counting *)

\* The numbers planned add up to the number of transactions.
LEMMA CountPlanned ==
    ASSUME NEW planned \in [Senders -> 0 .. Burst]
    PROVE  Cardinality({t \in Senders \X Rounds : t[2] <= planned[t[1]]}) = SumFunction(planned)
  <1> DEFINE Of(S) == {t \in S \X Rounds : t[2] <= planned[t[1]]}
             C == {S \in SUBSET Senders : Cardinality(Of(S)) # SumFunctionOnSet(planned, S)}
  <1>1. IsFiniteSet(Senders) /\ Burst \in Nat
    BY SimulationAssumption
  <1>2. \A S \in SUBSET Senders : IsFiniteSet(S) /\ IsFiniteSet(Of(S))
    <2> TAKE S \in SUBSET Senders
    <2>1. IsFiniteSet(S) /\ IsFiniteSet(Rounds)
      BY <1>1, FS_Subset, FS_Interval DEF Rounds
    <2>2. IsFiniteSet(S \X Rounds) /\ Of(S) \in SUBSET (S \X Rounds)
      BY <2>1, FS_Product
    <2>3. IsFiniteSet(Of(S))
      BY <2>2, FS_Subset
    <2> QED BY <2>1, <2>3
  <1>3. C = {}
    <2> SUFFICES ASSUME C # {} PROVE FALSE
      OBVIOUS
    <2>1. PICK S \in C : \A T \in C : T \subseteq S => T = S
      <3>1. C \subseteq SUBSET Senders
        OBVIOUS
      <3> HIDE DEF C
      <3> QED BY <1>1, <3>1, SmallestSubset
    <2>2. S \in SUBSET Senders /\ Cardinality(Of(S)) # SumFunctionOnSet(planned, S)
      BY <2>1
    <2>3. S # {}
      <3>1. Of({}) = {}
        OBVIOUS
      <3>2. Cardinality(Of({})) = SumFunctionOnSet(planned, {})
        BY <3>1, SumEmpty, FS_EmptySet
      <3> QED BY <2>2, <3>2
    <2>4. PICK x : x \in S
      BY <2>3
    <2>5. x \in Senders /\ planned[x] \in 0 .. Burst /\ S \ {x} \in SUBSET Senders
      BY <2>2, <2>4
    <2>6. Cardinality(Of(S \ {x})) = SumFunctionOnSet(planned, S \ {x})
      <3>1. S \ {x} \notin C
        BY <2>1, <2>4
      <3> QED BY <2>5, <3>1
    <2>7. SumFunctionOnSet(planned, S) = planned[x] + SumFunctionOnSet(planned, S \ {x})
      <3>1. IsFiniteSet(S) /\ \A y \in S : planned[y] \in Int
        BY <1>2, <2>2, <1>1
      <3> QED BY <2>4, <3>1, SumRemove
    <2> DEFINE Mine == {x} \X (1 .. planned[x])
    <2>8. Of(S) = Of(S \ {x}) \cup Mine /\ Of(S \ {x}) \cap Mine = {}
      BY <1>1, <2>2, <2>4, <2>5 DEF Rounds
    <2>9. IsFiniteSet(Mine) /\ Cardinality(Mine) = planned[x]
      <3>1. IsFiniteSet({x}) /\ Cardinality({x}) = 1
        BY FS_Singleton
      <3>2. planned[x] \in Nat
        BY <1>1, <2>5
      <3>3. IsFiniteSet(1 .. planned[x]) /\ Cardinality(1 .. planned[x]) = planned[x]
        BY <3>2, FS_Interval
      <3>4. IsFiniteSet(Mine) /\ Cardinality(Mine) = Cardinality({x}) * Cardinality(1 .. planned[x])
        BY <3>1, <3>3, FS_Product
      <3> QED BY <3>1, <3>2, <3>3, <3>4
    <2>10. Cardinality(Of(S)) = Cardinality(Of(S \ {x})) + Cardinality(Mine)
      <3>1. IsFiniteSet(Of(S \ {x})) /\ Cardinality(Of(S \ {x})) \in Nat
        BY <1>2, <2>5, FS_CardinalityType
      <3> DEFINE Others == Of(S \ {x})
      <3> HIDE DEF Of, Mine, Others
      <3>2. Cardinality(Others \cup Mine)
              = Cardinality(Others) + Cardinality(Mine) - Cardinality(Others \cap Mine)
        BY <2>9, <3>1, FS_Union DEF Others
      <3>3. Cardinality(Others \cap Mine) = 0
        BY <2>8, FS_EmptySet DEF Others
      <3>4. Cardinality(Mine) \in Nat
        BY <2>9, FS_CardinalityType
      <3>5. Cardinality(Others) \in Nat /\ Of(S) = Others \cup Mine
        BY <2>8, <3>1 DEF Others
      <3>6. Cardinality(Of(S)) = Cardinality(Others) + Cardinality(Mine)
        BY <3>2, <3>3, <3>4, <3>5
      <3> QED BY <3>6 DEF Others
    <2>11. Cardinality(Of(S \ {x})) \in Nat
      BY <1>2, <2>5, FS_CardinalityType
    <2> HIDE DEF Of, Mine, C
    <2>12. planned[x] \in Int
      BY <1>1, <2>5
    <2> QED BY <2>2, <2>6, <2>7, <2>9, <2>10, <2>11, <2>12
  <1>4. Senders \in SUBSET Senders /\ Senders \notin C
    BY <1>3
  <1>5. Cardinality(Of(Senders)) = SumFunctionOnSet(planned, Senders)
    BY <1>4
  <1>6. DOMAIN planned = Senders
    OBVIOUS
  <1> QED BY <1>5, <1>6 DEF SumFunction

-----------------------------------------------------------------------------
(* Steps of one task *)

\* A short sequence of statuses is one the type allows.
LEMMA ShortResults ==
    ASSUME NEW q \in Seq(Status), Len(q) <= Burst
    PROVE  q \in UNION {[1 .. n -> Status] : n \in 0 .. Burst}
  <1>1. q \in [1 .. Len(q) -> Status] /\ Len(q) \in 0 .. Burst
    BY SimulationAssumption
  <1> QED BY <1>1

\* What a step that changes one task has to show: the others stay as they are.
LEMMA SenderStep ==
    ASSUME SInv, NEW s \in Senders, pc[s] # "done",
           UNCHANGED <<faulty, plan, sim, summary>>,
           \A t \in Senders : t # s => /\ pc'[t] = pc[t] /\ attempt'[t] = attempt[t]
                                       /\ server'[t] = server[t] /\ results'[t] = results[t],
           pc' \in [Senders -> {"idle", "login", "send", "wait", "raised", "done"}],
           attempt' \in [Senders -> Attempts],
           server' \in [Senders -> [Rounds -> [Attempts -> {"none", "running"} \cup Verdicts]]],
           results' \in [Senders -> Seq(Status)],
           PlaceOK(s)', Unsent(s)', Current(s)',
           \A r \in 1 .. Len(results'[s]) : Outcome(s, r)' /\ Succeeded(s, r)'
    PROVE  SInv'
  <1>1. \A t \in Senders : t # s =>
          /\ PlaceOK(t)' /\ Unsent(t)' /\ Current(t)'
          /\ \A r \in 1 .. Len(results'[t]) : Outcome(t, r)' /\ Succeeded(t, r)'
    <2> SUFFICES ASSUME NEW t \in Senders, t # s
                 PROVE  /\ PlaceOK(t)' /\ Unsent(t)' /\ Current(t)'
                        /\ \A r \in 1 .. Len(results'[t]) : Outcome(t, r)' /\ Succeeded(t, r)'
      OBVIOUS
    <2>1. /\ PlaceOK(t) /\ Unsent(t) /\ Current(t)
          /\ \A r \in 1 .. Len(results[t]) : Outcome(t, r) /\ Succeeded(t, r)
      BY DEF SInv
    <2>2. /\ pc'[t] = pc[t] /\ attempt'[t] = attempt[t]
          /\ server'[t] = server[t] /\ results'[t] = results[t]
      OBVIOUS
    <2>3. PlaceOK(t)'
      BY <2>1, <2>2 DEF PlaceOK
    <2>4. Unsent(t)' /\ Current(t)'
      BY <2>1, <2>2 DEF Unsent, Current, Round
    <2>5. \A r \in 1 .. Len(results'[t]) : Outcome(t, r)' /\ Succeeded(t, r)'
      BY <2>1, <2>2 DEF Outcome, Succeeded, Records
    <2> QED BY <2>3, <2>4, <2>5
  <1>2. \A t \in Senders : PlaceOK(t)' /\ Unsent(t)' /\ Current(t)'
    BY <1>1
  <1>3. \A t \in Senders : \A r \in 1 .. Len(results'[t]) : Outcome(t, r)' /\ Succeeded(t, r)'
    BY <1>1
  <1>4. sim # "STORED"
    BY DEF SInv, PlaceOK
  <1>5. ReportIsTrue'
    BY <1>4 DEF ReportIsTrue
  <1>6. TypeOK'
    <2>1. \A t \in Senders : Len(results'[t]) <= Burst
      <3> TAKE t \in Senders
      <3>1. Len(results'[t]) <= plan[t] /\ plan[t] \in 0 .. Burst /\ Len(results'[t]) \in Nat
        BY <1>2 DEF PlaceOK, SInv, TypeOK
      <3> QED BY <3>1, SimulationAssumption
    <2>2. \A t \in Senders : results'[t] \in UNION {[1 .. n -> Status] : n \in 0 .. Burst}
      BY <2>1, ShortResults
    <2> QED BY <2>2 DEF SInv, TypeOK
  <1> QED BY <1>2, <1>3, <1>5, <1>6 DEF SInv

\* The round of a task that is not done is one it may send.
LEMMA RoundTyped ==
    ASSUME SInv, NEW s \in Senders, pc[s] \in {"login", "send", "wait"}
    PROVE  /\ Round(s) \in Rounds /\ Round(s) = Len(results[s]) + 1
           /\ Len(results[s]) \in Nat /\ plan[s] \in Nat /\ Len(results[s]) < plan[s]
           /\ attempt[s] \in Attempts
  <1>1. /\ Len(results[s]) \in Nat /\ plan[s] \in 0 .. Burst /\ Burst \in Nat
        /\ Len(results[s]) < plan[s]
    BY SimulationAssumption DEF SInv, TypeOK, PlaceOK
  <1>2. attempt[s] \in Attempts
    BY DEF SInv, TypeOK
  <1> QED BY <1>1, <1>2 DEF Round, Rounds

\* A login, or one that fails, keeps the invariant.
LEMMA LoginInv ==
    ASSUME SInv, NEW s \in Senders, Login(s) \/ LoginFails(s)
    PROVE  SInv'
  <1>1. /\ pc[s] = "login" /\ UNCHANGED <<faulty, plan, sim, summary, attempt, server, results>>
        /\ \/ pc' = [pc EXCEPT ![s] = "send"]
           \/ faulty /\ pc' = [pc EXCEPT ![s] = "raised"]
    BY DEF Login, LoginFails
  <1>2. pc \in [Senders -> {"idle", "login", "send", "wait", "raised", "done"}]
    BY DEF SInv, TypeOK
  <1>3. /\ pc' \in [Senders -> {"idle", "login", "send", "wait", "raised", "done"}]
        /\ pc'[s] = "send" \/ (faulty /\ pc'[s] = "raised")
        /\ \A t \in Senders : t # s => pc'[t] = pc[t]
    BY <1>1, <1>2
  <1>4. PlaceOK(s) /\ Unsent(s) /\ Current(s)
    BY DEF SInv
  <1>5. PlaceOK(s)'
    BY <1>1, <1>3, <1>4, SimulationAssumption DEF PlaceOK, SInv
  <1>6. Unsent(s)' /\ Current(s)'
    BY <1>1, <1>3, <1>4 DEF Unsent, Current, Round
  <1>7. \A r \in 1 .. Len(results'[s]) : Outcome(s, r)' /\ Succeeded(s, r)'
    BY <1>1 DEF SInv, Outcome, Succeeded, Records
  <1>8. /\ attempt' \in [Senders -> Attempts]
        /\ server' \in [Senders -> [Rounds -> [Attempts -> {"none", "running"} \cup Verdicts]]]
        /\ results' \in [Senders -> Seq(Status)]
    BY <1>1 DEF SInv, TypeOK
  <1> QED BY <1>1, <1>3, <1>5, <1>6, <1>7, <1>8, SenderStep

\* What the backend's record becomes when one attempt changes in it.
LEMMA ServerStep ==
    ASSUME SInv, NEW s \in Senders, NEW r \in Rounds, NEW n \in Attempts,
           NEW now \in {"running"} \cup Verdicts,
           server' = [server EXCEPT ![s][r][n] = now]
    PROVE  /\ server' \in [Senders -> [Rounds -> [Attempts -> {"none", "running"} \cup Verdicts]]]
           /\ server'[s][r][n] = now
           /\ \A q \in Rounds, m \in Attempts :
                q # r \/ m # n => server'[s][q][m] = server[s][q][m]
           /\ \A t \in Senders : t # s => server'[t] = server[t]
  <1>1. server \in [Senders -> [Rounds -> [Attempts -> {"none", "running"} \cup Verdicts]]]
    BY DEF SInv, TypeOK
  <1> QED BY <1>1

\* A request that is sent keeps the invariant.
LEMMA PostInv ==
    ASSUME SInv, NEW s \in Senders, Post(s)
    PROVE  SInv'
  <1>1. /\ pc[s] = "send" /\ pc' = [pc EXCEPT ![s] = "wait"]
        /\ server' = [server EXCEPT ![s][Round(s)][attempt[s]] = "running"]
        /\ UNCHANGED <<faulty, plan, sim, summary, attempt, results>>
    BY DEF Post
  <1>2. /\ Round(s) \in Rounds /\ Round(s) = Len(results[s]) + 1
        /\ Len(results[s]) \in Nat /\ Len(results[s]) < plan[s]
        /\ attempt[s] \in Attempts
    BY <1>1, RoundTyped
  <1>3. /\ server' \in [Senders -> [Rounds -> [Attempts -> {"none", "running"} \cup Verdicts]]]
        /\ server'[s][Round(s)][attempt[s]] = "running"
        /\ \A q \in Rounds, m \in Attempts :
             q # Round(s) \/ m # attempt[s] => server'[s][q][m] = server[s][q][m]
        /\ \A t \in Senders : t # s => server'[t] = server[t]
    BY <1>1, <1>2, ServerStep
  <1>4. pc \in [Senders -> {"idle", "login", "send", "wait", "raised", "done"}]
    BY DEF SInv, TypeOK
  <1>5. /\ pc' \in [Senders -> {"idle", "login", "send", "wait", "raised", "done"}]
        /\ pc'[s] = "wait" /\ \A t \in Senders : t # s => pc'[t] = pc[t]
    BY <1>1, <1>4
  <1>6. PlaceOK(s) /\ Unsent(s) /\ Current(s)
    BY DEF SInv
  <1>7. PlaceOK(s)'
    BY <1>1, <1>2, <1>5, <1>6 DEF PlaceOK
  <1>8. Round(s)' = Round(s) /\ attempt'[s] = attempt[s]
    BY <1>1 DEF Round
  <1>9. Unsent(s)'
    <2> SUFFICES ASSUME NEW q \in Rounds, NEW m \in Attempts,
                        q > Round(s) \/ (q = Round(s) /\ m > attempt[s])
                 PROVE  server'[s][q][m] = "none"
      BY <1>5, <1>8 DEF Unsent
    <2>1. server[s][q][m] = "none"
      BY <1>6 DEF Unsent
    <2>2. q # Round(s) \/ m # attempt[s]
      BY <1>2 DEF Attempts, Rounds
    <2> QED BY <1>3, <2>1, <2>2
  <1>10. Current(s)'
    <2>1. server'[s][Round(s)'][attempt'[s]] # "none"
      BY <1>3, <1>8
    <2>2. \A m \in Attempts, q \in Rounds : ~faulty /\ q = Round(s) /\ m < attempt[s]
            => server'[s][q][m] = "conflict"
      BY <1>2, <1>3, <1>6 DEF Current, Attempts
    <2> QED BY <1>1, <1>8, <2>1, <2>2 DEF Current
  <1>11. \A r \in 1 .. Len(results[s]) : r \in Rounds /\ \A m \in Attempts : server'[s][r][m] = server[s][r][m]
    <2> TAKE r \in 1 .. Len(results[s])
    <2>1. r \in Rounds /\ r # Round(s)
      BY <1>2, SimulationAssumption DEF Rounds
    <2> QED BY <1>3, <2>1
  <1>12. \A r \in 1 .. Len(results'[s]) : Outcome(s, r)' /\ Succeeded(s, r)'
    <2> TAKE r \in 1 .. Len(results'[s])
    <2>1. Outcome(s, r) /\ Succeeded(s, r)
      BY <1>1 DEF SInv
    <2>2. \A m \in Attempts : server'[s][r][m] = server[s][r][m]
      BY <1>1, <1>11
    <2>3. Records(s, r)' = Records(s, r)
      BY <2>2 DEF Records
    <2> QED BY <1>1, <2>1, <2>2, <2>3 DEF Outcome, Succeeded
  <1>13. attempt' \in [Senders -> Attempts] /\ results' \in [Senders -> Seq(Status)]
    BY <1>1 DEF SInv, TypeOK
  <1> QED BY <1>1, <1>3, <1>5, <1>7, <1>9, <1>10, <1>12, <1>13, SenderStep
\* A transaction that is returned keeps the invariant, if its status is what
\* happened to it.
LEMMA ReturnInv ==
    ASSUME SInv, NEW s \in Senders, NEW status \in Status, Return(s, status),
           pc[s] \in {"send", "wait"}, UNCHANGED <<faulty, plan, sim, summary, server>>,
           ~faulty => /\ \A n \in Attempts : server[s][Round(s)][n] # "running"
                      /\ IF status = "SUCCESS" THEN \E n \in Attempts : Records(s, Round(s)) = {n}
                                               ELSE Records(s, Round(s)) = {},
           status = "SUCCESS" =>
             \E n \in Records(s, Round(s)) :
               \A m \in Attempts : m > n => server[s][Round(s)][m] = "none"
    PROVE  SInv'
  <1>1. /\ results' = [results EXCEPT ![s] = Append(results[s], status)]
        /\ attempt' = [attempt EXCEPT ![s] = 1]
        /\ pc' = [pc EXCEPT ![s] = IF Round(s) < plan[s] THEN "login" ELSE "done"]
    BY DEF Return
  <1>2. /\ Round(s) \in Rounds /\ Round(s) = Len(results[s]) + 1
        /\ Len(results[s]) \in Nat /\ plan[s] \in Nat /\ Len(results[s]) < plan[s]
        /\ attempt[s] \in Attempts
    BY RoundTyped
  <1>3. /\ pc \in [Senders -> {"idle", "login", "send", "wait", "raised", "done"}]
        /\ attempt \in [Senders -> Attempts] /\ results \in [Senders -> Seq(Status)]
    BY DEF SInv, TypeOK
  <1>4. /\ pc' \in [Senders -> {"idle", "login", "send", "wait", "raised", "done"}]
        /\ pc'[s] = IF Round(s) < plan[s] THEN "login" ELSE "done"
        /\ \A t \in Senders : t # s => pc'[t] = pc[t]
    BY <1>1, <1>3
  <1>5. /\ attempt' \in [Senders -> Attempts] /\ attempt'[s] = 1
        /\ \A t \in Senders : t # s => attempt'[t] = attempt[t]
    BY <1>1, <1>3, SimulationAssumption DEF Attempts
  <1>6. /\ results' \in [Senders -> Seq(Status)] /\ results'[s] = Append(results[s], status)
        /\ \A t \in Senders : t # s => results'[t] = results[t]
    <2>1. Append(results[s], status) \in Seq(Status)
      BY <1>3
    <2> QED BY <1>1, <1>3, <2>1
  <1>7. /\ Len(results'[s]) = Len(results[s]) + 1
        /\ results'[s][Round(s)] = status
        /\ \A r \in 1 .. Len(results[s]) : results'[s][r] = results[s][r]
    BY <1>2, <1>3, <1>6
  <1>8. Round(s)' = Round(s) + 1
    BY <1>2, <1>7 DEF Round
  <1>9. PlaceOK(s) /\ Unsent(s)
    BY DEF SInv
  <1>10. PlaceOK(s)'
    BY <1>2, <1>4, <1>5, <1>7, <1>9 DEF PlaceOK
  <1>11. Unsent(s)'
    <2> SUFFICES ASSUME NEW r \in Rounds, NEW n \in Attempts, r > Round(s)
                 PROVE  server'[s][r][n] = "none"
      BY <1>2, <1>8, SimulationAssumption DEF Unsent, Rounds
    <2> QED BY <1>9 DEF Unsent
  <1>12. Current(s)'
    <2>1. pc'[s] # "wait" /\ \A n \in Attempts : ~(n < attempt'[s])
      BY <1>4, <1>5, SimulationAssumption DEF Attempts
    <2> QED BY <2>1 DEF Current
  <1>13. \A r \in 1 .. Len(results'[s]) : Outcome(s, r)' /\ Succeeded(s, r)'
    <2> TAKE r \in 1 .. Len(results'[s])
    <2>1. Records(s, r)' = Records(s, r)
      BY DEF Records
    <2>2. CASE r = Round(s)
      BY <1>7, <2>1, <2>2 DEF Outcome, Succeeded
    <2>3. CASE r # Round(s)
      <3>1. r \in 1 .. Len(results[s])
        BY <1>2, <1>7, <2>3
      <3>2. Outcome(s, r) /\ Succeeded(s, r) /\ results'[s][r] = results[s][r]
        BY <1>7, <3>1 DEF SInv
      <3> QED BY <2>1, <3>2 DEF Outcome, Succeeded
    <2> QED BY <2>2, <2>3
  <1>14. server' \in [Senders -> [Rounds -> [Attempts -> {"none", "running"} \cup Verdicts]]]
    BY DEF SInv, TypeOK
  <1>15. \A t \in Senders : t # s => server'[t] = server[t]
    OBVIOUS
  <1>16. pc[s] # "done"
    OBVIOUS
  <1> QED BY <1>4, <1>5, <1>6, <1>10, <1>11, <1>12, <1>13, <1>14, <1>15, <1>16, SenderStep

\* Another attempt, or the last given up, keeps the invariant: on a network that
\* answers only a conflict leads to it.
LEMMA TryAgainInv ==
    ASSUME SInv, NEW s \in Senders, TryAgain(s),
           pc[s] \in {"send", "wait"}, UNCHANGED <<faulty, plan, sim, summary, server>>,
           ~faulty => pc[s] = "wait" /\ Verdict(s) = "conflict"
    PROVE  SInv'
  <1>1. /\ Round(s) \in Rounds /\ Round(s) = Len(results[s]) + 1
        /\ Len(results[s]) \in Nat /\ plan[s] \in Nat /\ Len(results[s]) < plan[s]
        /\ attempt[s] \in Attempts
    BY RoundTyped
  <1>2. PlaceOK(s) /\ Unsent(s) /\ Current(s)
    BY DEF SInv
  <1>3. /\ pc \in [Senders -> {"idle", "login", "send", "wait", "raised", "done"}]
        /\ attempt \in [Senders -> Attempts] /\ results \in [Senders -> Seq(Status)]
    BY DEF SInv, TypeOK
  <1>4. ~faulty => \A n \in Attempts : n <= attempt[s] => server[s][Round(s)][n] = "conflict"
    <2>1. ~faulty => server[s][Round(s)][attempt[s]] = "conflict"
      BY DEF Verdict
    <2>2. ~faulty => \A n \in Attempts : n < attempt[s] => server[s][Round(s)][n] = "conflict"
      BY <1>1, <1>2 DEF Current
    <2> QED BY <1>1, <2>1, <2>2 DEF Attempts
  <1>5. CASE Exhausted(attempt[s]) /\ Return(s, "FAILED")
    <2>1. \A n \in Attempts : n <= attempt[s]
      BY <1>1, <1>5, SimulationAssumption DEF Exhausted, Attempts
    <2>2. ~faulty => /\ \A n \in Attempts : server[s][Round(s)][n] # "running"
                     /\ Records(s, Round(s)) = {}
      BY <1>4, <2>1 DEF Records, Recording
    <2>3. "FAILED" \in Status /\ "FAILED" # "SUCCESS"
      BY DEF Status
    <2> QED BY <1>5, <2>2, <2>3, ReturnInv
  <1>6. CASE /\ ~Exhausted(attempt[s]) /\ attempt' = [attempt EXCEPT ![s] = NextAttempt(@)]
             /\ pc' = [pc EXCEPT ![s] = "send"] /\ UNCHANGED results
    <2>1. attempt[s] + 1 \in Attempts
      BY <1>1, <1>6, SimulationAssumption DEF Exhausted, Attempts
    <2>2. /\ attempt' \in [Senders -> Attempts] /\ attempt'[s] = attempt[s] + 1
          /\ \A t \in Senders : t # s => attempt'[t] = attempt[t]
      BY <1>3, <1>6, <2>1 DEF NextAttempt
    <2>3. /\ pc' \in [Senders -> {"idle", "login", "send", "wait", "raised", "done"}]
          /\ pc'[s] = "send" /\ \A t \in Senders : t # s => pc'[t] = pc[t]
      BY <1>3, <1>6
    <2>4. Round(s)' = Round(s)
      BY <1>6 DEF Round
    <2>5. PlaceOK(s)'
      BY <1>1, <1>2, <1>6, <2>3 DEF PlaceOK
    <2>6. Unsent(s)'
      <3> SUFFICES ASSUME NEW r \in Rounds, NEW n \in Attempts,
                          r > Round(s) \/ (r = Round(s) /\ n >= attempt[s] + 1)
                   PROVE  server[s][r][n] = "none"
        BY <2>1, <2>2, <2>4 DEF Unsent, Attempts
      <3>1. r > Round(s) \/ (r = Round(s) /\ n > attempt[s])
        BY <1>1 DEF Attempts
      <3> QED BY <1>2, <3>1 DEF Unsent
    <2>7. Current(s)'
      <3>1. \A n \in Attempts : n < attempt'[s] => n <= attempt[s]
        BY <1>1, <2>2 DEF Attempts
      <3> QED BY <1>4, <2>3, <2>4, <3>1 DEF Current
    <2>8. \A r \in 1 .. Len(results'[s]) : Outcome(s, r)' /\ Succeeded(s, r)'
      BY <1>6 DEF SInv, Outcome, Succeeded, Records
    <2>9. server' \in [Senders -> [Rounds -> [Attempts -> {"none", "running"} \cup Verdicts]]]
      BY DEF SInv, TypeOK
    <2>10. \A t \in Senders : t # s => server'[t] = server[t] /\ results'[t] = results[t]
      BY <1>6
    <2>11. results' \in [Senders -> Seq(Status)] /\ pc[s] # "done"
      BY <1>3, <1>6
    <2> QED BY <2>2, <2>3, <2>5, <2>6, <2>7, <2>8, <2>9, <2>10, <2>11, SenderStep
  <1> QED BY <1>5, <1>6 DEF TryAgain

\* An answer keeps the invariant: the attempts before met a conflict.
LEMMA ReceiveInv ==
    ASSUME SInv, NEW s \in Senders, Receive(s)
    PROVE  SInv'
  <1>1. /\ pc[s] = "wait" /\ Verdict(s) # "running"
        /\ UNCHANGED <<faulty, plan, sim, summary, server>>
    BY DEF Receive
  <1>2. /\ Round(s) \in Rounds /\ attempt[s] \in Attempts
    BY <1>1, RoundTyped
  <1>3. Unsent(s) /\ Current(s)
    BY DEF SInv
  <1>4. Verdict(s) \in Verdicts
    <2>1. server[s][Round(s)][attempt[s]] \in {"none", "running"} \cup Verdicts
      BY <1>2 DEF SInv, TypeOK
    <2> QED BY <1>1, <1>3, <2>1 DEF Current, Verdict
  <1>5. \A m \in Attempts : m > attempt[s] => server[s][Round(s)][m] = "none"
    BY <1>2, <1>3 DEF Unsent
  <1>6. ~faulty => \A n \in Attempts : n # attempt[s] =>
                     server[s][Round(s)][n] \in {"none", "conflict"}
    <2>1. ~faulty => \A n \in Attempts : n < attempt[s] => server[s][Round(s)][n] = "conflict"
      BY <1>2, <1>3 DEF Current
    <2> QED BY <1>2, <1>5, <2>1 DEF Attempts
  <1>7. ~faulty => \A n \in Attempts : server[s][Round(s)][n] # "running"
    BY <1>1, <1>6 DEF Verdict
  <1>8. CASE Success(Verdict(s)) /\ Return(s, "SUCCESS")
    <2>1. attempt[s] \in Records(s, Round(s))
      BY <1>2, <1>8 DEF Success, Records, Verdict
    <2>2. ~faulty => Records(s, Round(s)) = {attempt[s]}
      BY <1>6, <2>1 DEF Records, Recording
    <2>3. "SUCCESS" \in Status
      BY DEF Status
    <2> QED BY <1>1, <1>2, <1>5, <1>7, <1>8, <2>1, <2>2, <2>3, ReturnInv
  <1>9. CASE Retried(Verdict(s)) /\ TryAgain(s)
    BY <1>1, <1>9, TryAgainInv DEF Retried
  <1>10. CASE ~Success(Verdict(s)) /\ (Return(s, "BLOCKED") \/ Return(s, "REJECTED"))
    <2>1. ~faulty => Records(s, Round(s)) = {}
      <3>1. server[s][Round(s)][attempt[s]] \notin Recording
        BY <1>10 DEF Success, Verdict
      <3> QED BY <1>6, <3>1 DEF Records, Recording
    <2>2. {"BLOCKED", "REJECTED"} \subseteq Status /\ "BLOCKED" # "SUCCESS" /\ "REJECTED" # "SUCCESS"
      BY DEF Status
    <2> QED BY <1>1, <1>7, <1>10, <2>1, <2>2, ReturnInv
  <1>11. Blocked(Verdict(s)) => ~Success(Verdict(s))
    BY DEF Blocked, Success, Recording
  <1> QED BY <1>8, <1>9, <1>10, <1>11 DEF Receive

\* A request that is not answered, or not sent, keeps the invariant.
LEMMA SilenceInv ==
    ASSUME SInv, NEW s \in Senders, NoAnswer(s) \/ NeverSent(s)
    PROVE  SInv'
  <1>1. /\ faulty /\ pc[s] \in {"send", "wait"} /\ TryAgain(s)
        /\ UNCHANGED <<faulty, plan, sim, summary, server>>
    BY DEF NoAnswer, NeverSent
  <1> QED BY <1>1, TryAgainInv

-----------------------------------------------------------------------------
(* The backend, and the report *)

\* What a simulation on a network that answers leaves at the backend when all its
\* tasks are done: nothing is running, and a record is a success.
LEMMA AllAnswered ==
    ASSUME SInv, ~faulty, \A s \in Senders : pc[s] = "done",
           NEW s \in Senders, NEW r \in Rounds
    PROVE  /\ \A n \in Attempts : server[s][r][n] # "running"
           /\ Records(s, r) # {} <=> (r <= Len(results[s]) /\ results[s][r] = "SUCCESS")
  <1>1. Len(results[s]) \in Nat
    BY DEF SInv
  <1>2. CASE r <= Len(results[s])
    <2>1. r \in 1 .. Len(results[s])
      BY <1>1, <1>2, SimulationAssumption DEF Rounds
    <2>2. Outcome(s, r)
      BY <2>1 DEF SInv
    <2> QED BY <1>2, <2>2 DEF Outcome
  <1>3. CASE r > Len(results[s])
    <2>1. r >= Round(s) /\ Round(s) \in Nat /\ r \in Nat
      BY <1>1, <1>3, SimulationAssumption DEF Round, Rounds
    <2>2. Unsent(s) /\ attempt[s] \in Attempts
      BY DEF SInv, TypeOK
    <2>3. \A n \in Attempts : server[s][r][n] = "none"
      <3> TAKE n \in Attempts
      <3>1. CASE r > Round(s)
        BY <2>2, <3>1 DEF Unsent
      <3>2. CASE r = Round(s)
        <4>1. attempt[s] = 1
          BY DEF SInv, PlaceOK
        <4> QED BY <2>2, <3>2, <4>1 DEF Unsent, Attempts
      <3> QED BY <2>1, <3>1, <3>2
    <2> QED BY <1>1, <1>3, <2>1, <2>3 DEF Records, Recording
  <1>4. r <= Len(results[s]) \/ r > Len(results[s])
    BY <1>1, SimulationAssumption DEF Rounds
  <1> QED BY <1>2, <1>3, <1>4
\* A decision of the backend keeps the invariant, however late it is taken.
LEMMA DecideInv ==
    ASSUME SInv, NEW s \in Senders, NEW r \in Rounds, NEW n \in Attempts,
           NEW verdict \in Verdicts, Decide(s, r, n, verdict)
    PROVE  SInv'
  <1>1. /\ server[s][r][n] = "running"
        /\ server' = [server EXCEPT ![s][r][n] = verdict]
        /\ UNCHANGED <<faulty, plan, sim, summary, pc, attempt, results>>
    BY DEF Decide
  <1>2. /\ server' \in [Senders -> [Rounds -> [Attempts -> {"none", "running"} \cup Verdicts]]]
        /\ server'[s][r][n] = verdict
        /\ \A q \in Rounds, m \in Attempts : q # r \/ m # n => server'[s][q][m] = server[s][q][m]
        /\ \A t \in Senders : t # s => server'[t] = server[t]
    BY <1>1, ServerStep
  <1>3. \A t \in Senders, q \in Rounds, m \in Attempts :
          server[t][q][m] # "running" => server'[t][q][m] = server[t][q][m]
    BY <1>1, <1>2
  <1>4. verdict # "none" /\ verdict # "running"
    BY DEF Verdicts, Recording
  <1>5. \A t \in Senders, q \in Rounds, m \in Attempts :
          server[t][q][m] # "none" => server'[t][q][m] # "none"
    <2> SUFFICES ASSUME NEW t \in Senders, NEW q \in Rounds, NEW m \in Attempts,
                        server[t][q][m] # "none"
                 PROVE  server'[t][q][m] # "none"
      OBVIOUS
    <2>1. CASE t = s /\ q = r /\ m = n
      BY <1>2, <1>4, <2>1
    <2>2. CASE t # s \/ q # r \/ m # n
      BY <1>2, <2>2
    <2> QED BY <2>1, <2>2
  <1>6. \A t \in Senders : PlaceOK(t)'
    BY <1>1 DEF SInv, PlaceOK
  <1>7. \A t \in Senders : Unsent(t)'
    BY <1>1, <1>3 DEF SInv, Unsent, Round
  <1>8. \A t \in Senders : Current(t)'
    <2> TAKE t \in Senders
    <2>1. Current(t) /\ Round(t)' = Round(t)
      BY <1>1 DEF SInv, Round
    <2>2. pc[t] = "wait" => Round(t) \in Rounds /\ attempt[t] \in Attempts
      BY RoundTyped
    <2>3. pc'[t] = "wait" => server'[t][Round(t)'][attempt'[t]] # "none"
      BY <1>1, <1>5, <2>1, <2>2 DEF Current
    <2>4. ~faulty => \A m \in Attempts : \A q \in Rounds :
            q = Round(t) /\ m < attempt[t] => server'[t][q][m] = "conflict"
      BY <1>3, <2>1 DEF Current
    <2> QED BY <1>1, <2>1, <2>3, <2>4 DEF Current
  <1>9. \A t \in Senders : \A q \in 1 .. Len(results'[t]) : Outcome(t, q)' /\ Succeeded(t, q)'
    <2> TAKE t \in Senders
    <2> TAKE q \in 1 .. Len(results'[t])
    <2>1. Outcome(t, q) /\ Succeeded(t, q) /\ results' = results
      BY <1>1 DEF SInv
    <2>2. q \in Rounds
      <3>1. Len(results[t]) <= plan[t] /\ plan[t] \in 0 .. Burst /\ Len(results[t]) \in Nat
        BY DEF SInv, TypeOK, PlaceOK
      <3> QED BY <1>1, <3>1, SimulationAssumption DEF Rounds
    <2>3. Outcome(t, q)'
      <3>1. CASE faulty
        BY <1>1, <3>1 DEF Outcome
      <3>2. CASE ~faulty
        <4>1. \A m \in Attempts : server[t][q][m] # "running"
          BY <2>1, <3>2 DEF Outcome
        <4>2. \A m \in Attempts : server'[t][q][m] = server[t][q][m]
          BY <1>3, <2>2, <4>1
        <4>3. Records(t, q)' = Records(t, q)
          BY <4>2 DEF Records
        <4> QED BY <2>1, <4>2, <4>3, <1>1 DEF Outcome
      <3> QED BY <3>1, <3>2
    <2>4. Succeeded(t, q)'
      <3> SUFFICES ASSUME results[t][q] = "SUCCESS"
                   PROVE  \E k \in Records(t, q)' : \A m \in Attempts : m > k => server'[t][q][m] = "none"
        BY <2>1 DEF Succeeded
      <3>1. PICK k \in Records(t, q) : \A m \in Attempts : m > k => server[t][q][m] = "none"
        BY <2>1 DEF Succeeded
      <3>2. k \in Attempts /\ server[t][q][k] \in Recording
        BY <3>1 DEF Records
      <3>3. server'[t][q][k] = server[t][q][k]
        BY <1>3, <2>2, <3>2 DEF Recording
      <3>4. k \in Records(t, q)'
        BY <3>2, <3>3 DEF Records
      <3> QED BY <1>3, <2>2, <3>1, <3>4
    <2> QED BY <2>3, <2>4
  <1>10. ReportIsTrue'
    <2>1. CASE sim = "STORED" /\ ~faulty
      <3>1. \A t \in Senders : pc[t] = "done"
        BY <2>1 DEF SInv, PlaceOK
      <3> QED BY <1>1, <2>1, <3>1, AllAnswered
    <2>2. CASE sim # "STORED" \/ faulty
      BY <1>1, <2>2 DEF SInv, ReportIsTrue
    <2> QED BY <2>1, <2>2
  <1>11. TypeOK' /\ results' \in [Senders -> Seq(Status)]
    BY <1>1, <1>2 DEF SInv, TypeOK
  <1> QED BY <1>6, <1>7, <1>8, <1>9, <1>10, <1>11 DEF SInv

\* The start of a simulation keeps the invariant.
LEMMA LaunchInv == SInv /\ Launch => SInv'
  <1> SUFFICES ASSUME SInv, Launch PROVE SInv'
    OBVIOUS
  <1>1. /\ sim = "none" /\ sim' = "PROCESSING"
        /\ pc' = [s \in Senders |-> IF plan[s] > 0 THEN "login" ELSE "done"]
        /\ UNCHANGED <<faulty, plan, summary, attempt, server, results>>
    BY DEF Launch
  <1>2. TypeOK' /\ results' \in [Senders -> Seq(Status)]
    BY <1>1 DEF SInv, TypeOK
  <1>3. \A s \in Senders : PlaceOK(s)'
    <2> TAKE s \in Senders
    <2>1. PlaceOK(s) /\ plan[s] \in 0 .. Burst
      BY DEF SInv, TypeOK
    <2>2. pc[s] = "idle" /\ results[s] = <<>> /\ attempt[s] = 1 /\ Len(results[s]) = 0
      BY <1>1, <2>1 DEF PlaceOK
    <2>3. pc'[s] = IF plan[s] > 0 THEN "login" ELSE "done"
      BY <1>1
    <2> QED BY <1>1, <2>1, <2>2, <2>3, SimulationAssumption DEF PlaceOK
  <1>4. \A s \in Senders : pc[s] = "idle" /\ pc'[s] # "wait"
    BY <1>1 DEF SInv, PlaceOK
  <1>5. \A s \in Senders : Unsent(s)' /\ Current(s)'
    BY <1>1, <1>4 DEF SInv, Unsent, Current, Round
  <1>6. \A s \in Senders : \A r \in 1 .. Len(results'[s]) : Outcome(s, r)' /\ Succeeded(s, r)'
    BY <1>1 DEF SInv, Outcome, Succeeded, Records
  <1>7. ReportIsTrue'
    BY <1>1 DEF ReportIsTrue
  <1> QED BY <1>2, <1>3, <1>5, <1>6, <1>7 DEF SInv

\* The transactions counted are finitely many, and those with one status are not
\* those with another.
LEMMA CountsAdd ==
    ASSUME SInv
    PROVE  /\ Count({"SUCCESS"}) \in Nat /\ Count({"BLOCKED"}) \in Nat /\ Count(Status) \in Nat
           /\ Count({"SUCCESS"}) + Count({"BLOCKED"}) <= Count(Status)
  <1> DEFINE Of(statuses) == {t \in Senders \X Rounds :
                 t[2] <= Len(results[t[1]]) /\ results[t[1]][t[2]] \in statuses}
  <1>1. IsFiniteSet(Senders \X Rounds)
    <2>1. IsFiniteSet(Senders) /\ IsFiniteSet(Rounds)
      BY SimulationAssumption, FS_Interval DEF Rounds
    <2> QED BY <2>1, FS_Product
  <1>2. \A statuses : IsFiniteSet(Of(statuses)) /\ Cardinality(Of(statuses)) \in Nat
    <2> TAKE statuses
    <2>1. Of(statuses) \in SUBSET (Senders \X Rounds)
      OBVIOUS
    <2>2. IsFiniteSet(Of(statuses))
      BY <1>1, <2>1, FS_Subset
    <2> QED BY <2>2, FS_CardinalityType
  <1>3. \A statuses : Count(statuses) = Cardinality(Of(statuses))
    BY DEF Count
  <1> DEFINE A == Of({"SUCCESS"})
             B == Of({"BLOCKED"})
             T == Of(Status)
  <1>4. A \cup B \in SUBSET T /\ A \cap B = {}
    BY DEF Status
  <1>5. /\ IsFiniteSet(A) /\ IsFiniteSet(B) /\ IsFiniteSet(T)
        /\ Cardinality(A) \in Nat /\ Cardinality(B) \in Nat /\ Cardinality(T) \in Nat
    BY <1>2
  <1>6. Count({"SUCCESS"}) = Cardinality(A) /\ Count({"BLOCKED"}) = Cardinality(B)
        /\ Count(Status) = Cardinality(T)
    BY <1>3
  <1> HIDE DEF A, B, T
  <1>7. Cardinality(A \cup B) = Cardinality(A) + Cardinality(B) - Cardinality(A \cap B)
    BY <1>5, FS_Union
  <1>8. Cardinality(A \cap B) = 0
    BY <1>4, FS_EmptySet
  <1>9. Cardinality(A \cup B) <= Cardinality(T)
    BY <1>4, <1>5, FS_Subset
  <1> QED BY <1>5, <1>6, <1>7, <1>8, <1>9

\* The report keeps the invariant: it is true of all that was sent.
LEMMA ConsolidateInv == SInv /\ Consolidate => SInv'
  <1> SUFFICES ASSUME SInv, Consolidate PROVE SInv'
    OBVIOUS
  <1>1. /\ \A s \in Senders : pc[s] = "done"
        /\ sim' = "STORED"
        /\ UNCHANGED <<faulty, plan, pc, attempt, server, results>>
    BY DEF Consolidate
  <1>2. PICK a, b, n : a = Count({"SUCCESS"}) /\ b = Count({"BLOCKED"}) /\ n = Count(Status)
    OBVIOUS
  <1>3. summary' = [exitosas |-> a, bloqueadas |-> b, fallidas |-> n - a - b]
    BY <1>2 DEF Consolidate
  <1>4. a \in Nat /\ b \in Nat /\ n \in Nat /\ a + b <= n
    BY <1>2, CountsAdd
  <1>5. summary' \in [exitosas : Nat, bloqueadas : Nat, fallidas : Nat]
    BY <1>3, <1>4
  <1>6. TypeOK' /\ results' \in [Senders -> Seq(Status)]
    BY <1>1, <1>5 DEF SInv, TypeOK
  <1>7. \A s \in Senders : PlaceOK(s)' /\ Unsent(s)' /\ Current(s)'
    BY <1>1 DEF SInv, PlaceOK, Unsent, Current, Round
  <1>8. \A s \in Senders : \A r \in 1 .. Len(results'[s]) : Outcome(s, r)' /\ Succeeded(s, r)'
    BY <1>1 DEF SInv, Outcome, Succeeded, Records
  <1>9. \A s \in Senders : Len(results[s]) = plan[s] /\ results[s] \in Seq(Status)
    BY <1>1 DEF SInv, PlaceOK
  <1>10. n = SumFunction(plan)
    <2>1. {t \in Senders \X Rounds : t[2] <= Len(results[t[1]]) /\ results[t[1]][t[2]] \in Status}
            = {t \in Senders \X Rounds : t[2] <= plan[t[1]]}
      <3>1. \A t \in Senders \X Rounds : t[2] <= plan[t[1]] => results[t[1]][t[2]] \in Status
        <4> SUFFICES ASSUME NEW s \in Senders, NEW r \in Rounds, r <= plan[s]
                     PROVE  results[s][r] \in Status
          OBVIOUS
        <4>1. r \in 1 .. Len(results[s])
          BY <1>9, SimulationAssumption DEF Rounds
        <4> QED BY <1>9, <4>1
      <3> QED BY <1>9, <3>1
    <2>2. plan \in [Senders -> 0 .. Burst]
      BY DEF SInv, TypeOK
    <2> QED BY <1>2, <2>1, <2>2, CountPlanned DEF Count
  <1>11. ~faulty => a = Cardinality({t \in Senders \X Rounds : Records(t[1], t[2]) # {}})
    <2> SUFFICES ASSUME ~faulty
                 PROVE  {t \in Senders \X Rounds :
                           t[2] <= Len(results[t[1]]) /\ results[t[1]][t[2]] \in {"SUCCESS"}}
                          = {t \in Senders \X Rounds : Records(t[1], t[2]) # {}}
      BY <1>2 DEF Count
    <2>1. \A s \in Senders, r \in Rounds :
            Records(s, r) # {} <=> (r <= Len(results[s]) /\ results[s][r] = "SUCCESS")
      BY <1>1, AllAnswered
    <2> QED BY <2>1
  <1>12. ReportIsTrue'
    <2>1. \A s \in Senders, r \in Rounds : Records(s, r)' = Records(s, r)
      BY <1>1 DEF Records
    <2>2. {t \in Senders \X Rounds : Records(t[1], t[2])' # {}}
            = {t \in Senders \X Rounds : Records(t[1], t[2]) # {}}
      BY <2>1
    <2>3. summary'.exitosas = a /\ summary'.exitosas + summary'.bloqueadas + summary'.fallidas = n
      BY <1>3, <1>4
    <2> QED BY <1>1, <1>10, <1>11, <2>2, <2>3 DEF ReportIsTrue
  <1> QED BY <1>6, <1>7, <1>8, <1>12 DEF SInv

-----------------------------------------------------------------------------
(* The theorems *)

\* The invariant holds before a simulation is launched.
LEMMA SimulationInitInv == Init => SInv
  <1> SUFFICES ASSUME Init PROVE SInv
    OBVIOUS
  <1>1. plan \in [Senders -> 0 .. Burst] /\ 1 \in Attempts /\ 0 \in 0 .. Burst
    BY SimulationAssumption DEF Init, Attempts
  <1>2. results = [s \in Senders |-> <<>>] /\ <<>> \in Seq(Status) /\ Len(<<>>) = 0
    BY DEF Init
  <1>3. results \in [Senders -> Seq(Status)] /\ \A s \in Senders : results[s] = <<>>
    BY <1>2
  <1>4. \A s \in Senders : results[s] \in UNION {[1 .. n -> Status] : n \in 0 .. Burst}
    BY <1>2, <1>3, SimulationAssumption, ShortResults
  <1>5. TypeOK
    BY <1>1, <1>4 DEF Init, TypeOK, NoSummary
  <1>6. \A s \in Senders : PlaceOK(s)
    BY <1>1, <1>2, <1>3, SimulationAssumption DEF Init, PlaceOK
  <1>7. \A s \in Senders : Unsent(s) /\ Current(s)
    BY SimulationAssumption DEF Init, Unsent, Current, Attempts
  <1>8. \A s \in Senders : \A r \in 1 .. Len(results[s]) : FALSE
    BY <1>2, <1>3
  <1>9. ReportIsTrue
    BY DEF Init, ReportIsTrue
  <1> QED BY <1>3, <1>5, <1>6, <1>7, <1>8, <1>9 DEF SInv

\* Every step of a simulation keeps the invariant.
LEMMA SimulationNextInv == SInv /\ [Next]_vars => SInv'
  <1> SUFFICES ASSUME SInv, [Next]_vars PROVE SInv'
    OBVIOUS
  <1>1. CASE Launch
    BY <1>1, LaunchInv
  <1>2. CASE \E s \in Senders : Step(s)
    <2>1. PICK s \in Senders : Step(s)
      BY <1>2
    <2> QED BY <2>1, LoginInv, PostInv, ReceiveInv, SilenceInv DEF Step
  <1>3. CASE \E s \in Senders, r \in Rounds, n \in Attempts : Deciding(s, r, n)
    BY <1>3, DecideInv DEF Deciding
  <1>4. CASE Consolidate
    BY <1>4, ConsolidateInv
  <1>5. CASE UNCHANGED vars
    <2>1. UNCHANGED <<faulty, plan, sim, summary, pc, attempt, server, results>>
      BY <1>5 DEF vars
    <2>2. TypeOK' /\ results' \in [Senders -> Seq(Status)]
      BY <2>1 DEF SInv, TypeOK
    <2>3. \A s \in Senders : PlaceOK(s)' /\ Unsent(s)' /\ Current(s)'
      BY <2>1 DEF SInv, PlaceOK, Unsent, Current, Round
    <2>4. \A s \in Senders : \A r \in 1 .. Len(results'[s]) : Outcome(s, r)' /\ Succeeded(s, r)'
      BY <2>1 DEF SInv, Outcome, Succeeded, Records
    <2>5. ReportIsTrue'
      BY <2>1 DEF SInv, ReportIsTrue, Records
    <2> QED BY <2>2, <2>3, <2>4, <2>5 DEF SInv
  <1> QED BY <1>1, <1>2, <1>3, <1>4, <1>5 DEF Next

\* The invariant holds in every behaviour of a simulation.
LEMMA SimulationInvariance == Spec => []SInv
  BY SimulationInitInv, SimulationNextInv, PTL DEF Spec

\* The tasks, their attempts and their results keep their types, and the report's
\* "fallidas" is never negative (scenarios.py:85-94, client.py:77-155).
THEOREM SimulationIsTyped == Spec => []TypeOK
  <1>1. SInv => TypeOK
    BY DEF SInv
  <1> QED BY <1>1, SimulationInvariance, PTL

\* On a network that answers, SUCCESS is a transaction the backend recorded once,
\* over all its attempts, and any other status is one it did not record and never
\* will (client.py:103-155).
THEOREM StatusesAreTrue == Spec => []ResultsAreTrue
  <1>1. SInv => ResultsAreTrue
    <2> SUFFICES ASSUME SInv, ~faulty, NEW s \in Senders, NEW r \in 1 .. Len(results[s])
                 PROVE  /\ \A n \in Attempts : server[s][r][n] # "running"
                        /\ Cardinality(Records(s, r)) = IF results[s][r] = "SUCCESS" THEN 1 ELSE 0
      BY DEF ResultsAreTrue
    <2>1. /\ \A n \in Attempts : server[s][r][n] # "running"
          /\ IF results[s][r] = "SUCCESS" THEN \E n \in Attempts : Records(s, r) = {n}
                                          ELSE Records(s, r) = {}
      BY DEF SInv, Outcome
    <2>2. \A n : Cardinality({n}) = 1
      BY FS_Singleton
    <2>3. Cardinality({}) = 0
      BY FS_EmptySet
    <2> QED BY <2>1, <2>2, <2>3
  <1> QED BY <1>1, SimulationInvariance, PTL

\* Even if requests time out, what is counted as a success was recorded by the
\* attempt that was answered last (client.py:103-111).
THEOREM SuccessesWereRecorded == Spec => []SuccessWasRecorded
  <1>1. SInv => SuccessWasRecorded
    BY DEF SInv, Succeeded, SuccessWasRecorded
  <1> QED BY <1>1, SimulationInvariance, PTL

\* The report accounts for every transaction the simulation was to send, and on a
\* network that answers its "exitosas" are those the backend recorded, however
\* many tasks, transactions and attempts (scenarios.py:80-94, 127-139).
THEOREM ReportsAreTrue == Spec => []ReportIsTrue
  <1>1. SInv => ReportIsTrue
    BY DEF SInv
  <1> QED BY <1>1, SimulationInvariance, PTL
=============================================================================
