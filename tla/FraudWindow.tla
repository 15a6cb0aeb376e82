---------------------------- MODULE FraudWindow ----------------------------
(***************************************************************************)
(* AntifraudService.record_and_check over the sliding windows of Redis.     *)
(*                                                                         *)
(* A worker is one submission inside record_and_check.  It stamps itself    *)
(* with the clock, then runs one MULTI pipeline on the window of its IP     *)
(* and, if its amount is the rule's, another on the window of its account.  *)
(* A pipeline is atomic in Redis, but pipelines of different workers reach  *)
(* Redis in any order, whatever their stamps.  A window is a sorted set     *)
(* whose members are unique, so it is modelled by how many members it has   *)
(* at each stamp.                                                           *)
(***************************************************************************)
EXTENDS Integers, FiniteSets, Functions

CONSTANTS
    Workers,        \* concurrent submissions
    Accounts, Ips,  \* the keys fraud:account:{id}:tx and fraud:ip:{ip}:tx
    AccountWindow, AccountMax,   \* FraudRuleConfig
    IpWindow, IpMax,             \* IpBurstRuleConfig
    Patience,       \* longest time from a stamp to its last pipeline: each is
                    \* cut off after redis_socket_timeout
    MaxTime,        \* bound of the clock
    MaxRequests     \* bound of the submissions

ASSUME RuleAssumption ==
    /\ Accounts \cap Ips = {}
    /\ AccountWindow \in Nat \ {0} /\ IpWindow \in Nat \ {0}
    /\ AccountMax \in Nat \ {0} /\ IpMax \in Nat \ {0}
    /\ Patience \in Nat
    /\ IsFiniteSet(Workers) /\ IsFiniteSet(Ips)
    /\ MaxTime \in Nat /\ MaxRequests \in Nat

Keys == Accounts \cup Ips
Times == 0 .. MaxTime

VARIABLES
    now,        \* the clock
    window,     \* window[k][t]: members of the sorted set of k with score t
    expires,    \* when Redis drops the key
    pc,         \* where each worker is
    job,        \* the submission of each worker
    attempts,   \* attempts[k][t]: submissions stamped t that concern k
    passed,     \* those of them that were answered with no anomaly
    alarms,     \* <<account, stamp>> of each answer "Pattern 3x 9000 < 10s"
    peak        \* the most submissions in record_and_check at once, so far

redis == <<window, expires>>
history == <<attempts, passed, alarms, peak>>
vars == <<now, redis, pc, job, history>>

Job == [account : Accounts, ip : Ips, stamp : Times, rule_amount : BOOLEAN]
Idle == [stamp |-> 0]

Log == [Times -> 0 .. MaxRequests]

TypeOK ==
    /\ now \in Times
    /\ window \in [Keys -> Log]
    /\ expires \in [Keys -> Nat]
    /\ pc \in [Workers -> {"idle", "ip", "account"}]
    /\ job \in [Workers -> Job \cup {Idle}]
    /\ attempts \in [Keys -> Log]
    /\ passed \in [Keys -> Log]
    /\ alarms \subseteq Accounts \X Times
    /\ peak \in 0 .. Cardinality(Workers)

Empty == [t \in Times |-> 0]

Init ==
    /\ now = 0
    /\ window = [k \in Keys |-> Empty]
    /\ expires = [k \in Keys |-> 0]
    /\ pc = [w \in Workers |-> "idle"]
    /\ job = [w \in Workers |-> Idle]
    /\ attempts = [k \in Keys |-> Empty]
    /\ passed = [k \in Keys |-> Empty]
    /\ alarms = {}
    /\ peak = 0

-----------------------------------------------------------------------------

Add(log, t) == [log EXCEPT ![t] = @ + 1]

Within(log, from, to) == SumFunctionOnSet(log, {t \in Times : from <= t /\ t <= to})

\* Mutant: the member exactly one window old is kept.
PruneBelow(log, min_score) == [t \in Times |-> IF t < min_score THEN 0 ELSE log[t]]

\* ZREMRANGEBYSCORE key 0 min_score.
Prune(log, min_score) == [t \in Times |-> IF t <= min_score THEN 0 ELSE log[t]]

\* Mutant: the key lives for less than its window.
HalfLife(width) == width \div 2

\* EXPIRE key, in the units of the clock.
Life(width) == width * 2

\* The window after ZADD and ZREMRANGEBYSCORE.
Recorded(k, stamp, width) == Prune(Add(window[k], stamp), stamp - width)

\* Mutant: everything the window holds is counted, later stamps included.
CountAll(k, stamp, width) == Within(Recorded(k, stamp, width), stamp - width, MaxTime)

\* ZCOUNT key min_score timestamp_ms.
CountAt(k, stamp, width) == Within(Recorded(k, stamp, width), stamp - width, stamp)

\* The pipeline of record_and_count and record_and_count_ip.
Pipeline(k, stamp, width) ==
    /\ window' = [window EXCEPT ![k] = Recorded(k, stamp, width)]
    /\ expires' = [expires EXCEPT ![k] = now + Life(width)]

\* The answer of record_and_check: an anomaly, or none.
Answer(w, anomaly) ==
    LET j == job[w] IN
    /\ pc' = [pc EXCEPT ![w] = "idle"]
    /\ job' = [job EXCEPT ![w] = Idle]
    /\ passed' = [k \in Keys |->
         IF ~anomaly /\ (k = j.ip \/ (k = j.account /\ j.rule_amount))
           THEN Add(passed[k], j.stamp) ELSE passed[k]]

InFlight == {w \in Workers : pc[w] # "idle"}

Submissions == SumFunctionOnSet([i \in Ips |-> Within(attempts[i], 0, MaxTime)], Ips)

\* The stamp is taken before anything is awaited.
Stamp == now

Start(w, a, i, rule_amount) ==
    /\ pc[w] = "idle"
    /\ Submissions < MaxRequests
    /\ pc' = [pc EXCEPT ![w] = "ip"]
    /\ job' = [job EXCEPT ![w] = [account |-> a, ip |-> i, stamp |-> Stamp,
                                  rule_amount |-> rule_amount]]
    /\ attempts' = [k \in Keys |->
         IF k = i \/ (k = a /\ rule_amount) THEN Add(attempts[k], Stamp) ELSE attempts[k]]
    /\ peak' = IF Cardinality(InFlight) < peak THEN peak ELSE Cardinality(InFlight) + 1
    /\ UNCHANGED <<now, redis, passed, alarms>>

\* Mutant: the burst is noticed one submission late.
OverByOne(count, max_allowed) == count > max_allowed + 1

Over(count, max_allowed) == count > max_allowed

\* The pipeline of the IP finds a burst: the account window is not touched.
IpBurst(w) ==
    LET j == job[w] IN
    /\ pc[w] = "ip"
    /\ Over(CountAt(j.ip, j.stamp, IpWindow), IpMax)
    /\ Pipeline(j.ip, j.stamp, IpWindow)
    /\ Answer(w, TRUE)
    /\ UNCHANGED <<now, attempts, alarms, peak>>

\* It finds none, and the amount is not the rule's.
IpClear(w) ==
    LET j == job[w] IN
    /\ pc[w] = "ip"
    /\ ~Over(CountAt(j.ip, j.stamp, IpWindow), IpMax)
    /\ ~j.rule_amount
    /\ Pipeline(j.ip, j.stamp, IpWindow)
    /\ Answer(w, FALSE)
    /\ UNCHANGED <<now, attempts, alarms, peak>>

\* It finds none, and the amount is the rule's: on to the account.
IpNext(w) ==
    LET j == job[w] IN
    /\ pc[w] = "ip"
    /\ ~Over(CountAt(j.ip, j.stamp, IpWindow), IpMax)
    /\ j.rule_amount
    /\ Pipeline(j.ip, j.stamp, IpWindow)
    /\ pc' = [pc EXCEPT ![w] = "account"]
    /\ UNCHANGED <<now, job, history>>

\* The pipeline of the account finds the pattern, or does not.
AccountPattern(w) ==
    LET j == job[w] IN
    /\ pc[w] = "account"
    /\ Over(CountAt(j.account, j.stamp, AccountWindow), AccountMax)
    /\ Pipeline(j.account, j.stamp, AccountWindow)
    /\ Answer(w, TRUE)
    /\ alarms' = alarms \cup {<<j.account, j.stamp>>}
    /\ UNCHANGED <<now, attempts, peak>>

AccountClear(w) ==
    LET j == job[w] IN
    /\ pc[w] = "account"
    /\ ~Over(CountAt(j.account, j.stamp, AccountWindow), AccountMax)
    /\ Pipeline(j.account, j.stamp, AccountWindow)
    /\ Answer(w, FALSE)
    /\ UNCHANGED <<now, attempts, alarms, peak>>

\* Redis fails, answers too late, or the request is cancelled: what earlier
\* pipelines recorded stays, and the one in flight may have been executed.
Fail(w) ==
    LET j == job[w] IN
    /\ pc[w] # "idle"
    /\ \/ UNCHANGED redis
       \/ pc[w] = "ip" /\ Pipeline(j.ip, j.stamp, IpWindow)
       \/ pc[w] = "account" /\ Pipeline(j.account, j.stamp, AccountWindow)
    /\ Answer(w, TRUE)
    /\ UNCHANGED <<now, attempts, alarms, peak>>

\* Time passes, and Redis drops the keys whose time has come.
Tick ==
    /\ now < MaxTime
    /\ \A w \in Workers : pc[w] # "idle" => now < job[w].stamp + Patience
    /\ now' = now + 1
    /\ window' = [k \in Keys |-> IF expires[k] <= now + 1 THEN Empty ELSE window[k]]
    /\ UNCHANGED <<expires, pc, job, history>>

WorkerStep(w) ==
    \/ IpBurst(w)
    \/ IpClear(w)
    \/ IpNext(w)
    \/ AccountPattern(w)
    \/ AccountClear(w)
    \/ Fail(w)

Next ==
    \/ \E w \in Workers :
         \/ \E a \in Accounts, i \in Ips, rule_amount \in BOOLEAN :
              Start(w, a, i, rule_amount)
         \/ WorkerStep(w)
    \/ Tick

Spec == Init /\ [][Next]_vars

-----------------------------------------------------------------------------
(* Properties *)

\* Each submission that runs beside another may miss it twice: its own pipeline
\* may come after one with a later stamp, which it does not count, and that one
\* may have pruned what it should count.
Overlap == IF peak = 0 THEN 0 ELSE 2 * (peak - 1)

\* In any window at most max_allowed transactions of 9000 of an account are let
\* through, and two more for each submission that has run beside another
\* (antifraud.py:65-71): being late against the stamps costs no more than that,
\* and submissions that came one at a time are bounded exactly.
PatternIsBounded ==
    \A a \in Accounts, t \in Times :
        Within(passed[a], t - AccountWindow + 1, t) <= AccountMax + Overlap

\* The same of the submissions of an IP (antifraud.py:54-60).
BurstIsBounded ==
    \A i \in Ips, t \in Times :
        Within(passed[i], t - IpWindow + 1, t) <= IpMax + Overlap

\* The pattern is answered only if more than three submissions of 9000 of the
\* account are stamped within strictly less than the window: those that expired,
\* were pruned or belong to another account are never counted.
NoFalseAlarm ==
    \A alarm \in alarms :
        Within(attempts[alarm[1]], alarm[2] - AccountWindow + 1, alarm[2]) > AccountMax
=============================================================================
