---------------------------- MODULE SimClient ----------------------------
(***************************************************************************)
(* A background simulation of the simulator: the fraud burst (a few         *)
(* transactions per account, one after the other, the accounts in parallel) *)
(* and the stress burst (one transaction per task), both of them through    *)
(* enviar_transaccion and its retries.                                      *)
(*                                                                         *)
(* The backend is seen as a sender sees it: a request that reaches it is    *)
(* recorded or refused, once, and goes on when the sender no longer waits.  *)
(* Time is abstract: a sender may stop waiting whenever it waits.           *)
(***************************************************************************)
EXTENDS FiniteSets, Sequences, Integers, Functions

CONSTANTS
    Senders,        \* the tasks of a simulation
    Burst,          \* the most transactions a task sends, one after the other
    Plans,          \* how many each task sends in a simulation: the bursts of the
                    \* accounts under attack, or one in each task
    MaxRetries      \* max_retries

ASSUME SimulationAssumption ==
    /\ IsFiniteSet(Senders)
    /\ Burst \in Nat \ {0} /\ MaxRetries \in Nat \ {0}
    /\ Plans \subseteq [Senders -> 0 .. Burst]

VARIABLES
    faulty,     \* whether logins and requests may time out or break, this time
    plan,       \* what each sender is to send
    sim,        \* the status stored under sim:{simulation_id}
    summary,    \* its "resumen"
    pc,         \* where each sender is
    attempt,    \* intento
    server,     \* server[s][r][n]: attempt n of transaction r of s at the backend
    results     \* the statuses enviar_transaccion returned, in order

vars == <<faulty, plan, sim, summary, pc, attempt, server, results>>

Rounds == 1 .. Burst
Attempts == 1 .. MaxRetries

\* What the backend makes of a request: recorded as approved or as flagged (both
\* 201), a version conflict (409), a blocked account or one without funds (both
\* 403), an expired token or an invalid request (401, 400, 404, 422, 500).
Recording == {"recorded", "flagged"}
Verdicts == Recording \cup {"conflict", "forbidden", "invalid"}

Status == {"SUCCESS", "BLOCKED", "REJECTED", "FAILED"}

TypeOK ==
    /\ faulty \in BOOLEAN
    /\ plan \in [Senders -> 0 .. Burst]
    /\ sim \in {"none", "PROCESSING", "STORED"}
    /\ summary \in [exitosas : Nat, bloqueadas : Nat, fallidas : Nat]
    /\ pc \in [Senders -> {"idle", "login", "send", "wait", "raised", "done"}]
    /\ attempt \in [Senders -> Attempts]
    /\ server \in [Senders -> [Rounds -> [Attempts -> {"none", "running"} \cup Verdicts]]]
    /\ \A s \in Senders : results[s] \in UNION {[1 .. n -> Status] : n \in 0 .. Burst}

NoSummary == [exitosas |-> 0, bloqueadas |-> 0, fallidas |-> 0]

Init ==
    /\ faulty \in BOOLEAN
    /\ plan \in Plans
    /\ sim = "none"
    /\ summary = NoSummary
    /\ pc = [s \in Senders |-> "idle"]
    /\ attempt = [s \in Senders |-> 1]
    /\ server = [s \in Senders |-> [r \in Rounds |-> [n \in Attempts |-> "none"]]]
    /\ results = [s \in Senders |-> <<>>]

Round(s) == Len(results[s]) + 1
Verdict(s) == server[s][Round(s)][attempt[s]]

-----------------------------------------------------------------------------

\* The endpoint stores the initial status and starts the task.
Launch ==
    /\ sim = "none"
    /\ sim' = "PROCESSING"
    /\ pc' = [s \in Senders |-> IF plan[s] > 0 THEN "login" ELSE "done"]
    /\ UNCHANGED <<faulty, plan, summary, attempt, server, results>>

\* get_access_token: from the cache, or by a login.
Login(s) ==
    /\ pc[s] = "login"
    /\ pc' = [pc EXCEPT ![s] = "send"]
    /\ UNCHANGED <<faulty, plan, sim, summary, attempt, server, results>>

\* It raises, outside the loop's try.
LoginFails(s) ==
    /\ faulty
    /\ pc[s] = "login"
    /\ pc' = [pc EXCEPT ![s] = "raised"]
    /\ UNCHANGED <<faulty, plan, sim, summary, attempt, server, results>>

Post(s) ==
    /\ pc[s] = "send"
    /\ pc' = [pc EXCEPT ![s] = "wait"]
    /\ server' = [server EXCEPT ![s][Round(s)][attempt[s]] = "running"]
    /\ UNCHANGED <<faulty, plan, sim, summary, attempt, results>>

\* The backend decides a request, whether or not its sender still waits.
Decide(s, r, n, verdict) ==
    /\ server[s][r][n] = "running"
    /\ server' = [server EXCEPT ![s][r][n] = verdict]
    /\ UNCHANGED <<faulty, plan, sim, summary, pc, attempt, results>>

\* The sender goes on to its next transaction, or is done.
Return(s, status) ==
    /\ results' = [results EXCEPT ![s] = Append(@, status)]
    /\ attempt' = [attempt EXCEPT ![s] = 1]
    /\ pc' = [pc EXCEPT ![s] = IF Round(s) < plan[s] THEN "login" ELSE "done"]

\* Mutant: the attempts are not counted.
SameAttempt(n) == n

NextAttempt(n) == n + 1

\* Mutant: one attempt too many.
ExhaustedLate(n) == n > MaxRetries

Exhausted(n) == n >= MaxRetries

\* The sender sleeps and tries again, or gives up.
TryAgain(s) ==
    \/ /\ ~Exhausted(attempt[s])
       /\ attempt' = [attempt EXCEPT ![s] = NextAttempt(@)]
       /\ pc' = [pc EXCEPT ![s] = "send"]
       /\ UNCHANGED results
    \/ /\ Exhausted(attempt[s])
       /\ Return(s, "FAILED")

\* Mutants: 201 is not taken for a success; whatever is not a conflict is.
SuccessIf200(verdict) == verdict = "recorded"
SuccessIfSettled(verdict) == verdict # "conflict"

Success(verdict) == verdict \in Recording
Retried(verdict) == verdict = "conflict"
Blocked(verdict) == verdict = "forbidden"

\* An answer arrives.
Receive(s) ==
    /\ pc[s] = "wait"
    /\ Verdict(s) # "running"
    /\ \/ Success(Verdict(s)) /\ Return(s, "SUCCESS")
       \/ Retried(Verdict(s)) /\ TryAgain(s)
       \/ Blocked(Verdict(s)) /\ Return(s, "BLOCKED")
       \/ /\ ~Success(Verdict(s)) /\ ~Retried(Verdict(s)) /\ ~Blocked(Verdict(s))
          /\ Return(s, "REJECTED")
    /\ UNCHANGED <<faulty, plan, sim, summary, server>>

\* httpx.TimeoutException, or a connection that breaks, after the request has
\* reached the backend; then before it has.
NoAnswer(s) ==
    /\ faulty
    /\ pc[s] = "wait"
    /\ TryAgain(s)
    /\ UNCHANGED <<faulty, plan, sim, summary, server>>

NeverSent(s) ==
    /\ faulty
    /\ pc[s] = "send"
    /\ TryAgain(s)
    /\ UNCHANGED <<faulty, plan, sim, summary, server>>

\* Results with one of these statuses, over all senders.
Count(statuses) ==
    Cardinality({t \in Senders \X Rounds :
                   t[2] <= Len(results[t[1]]) /\ results[t[1]][t[2]] \in statuses})

\* asyncio.gather returned: the report replaces the initial status.  It never
\* does if a sender raised.
Consolidate ==
    /\ sim = "PROCESSING"
    /\ \A s \in Senders : pc[s] = "done"
    /\ sim' = "STORED"
    /\ summary' = [exitosas |-> Count({"SUCCESS"}), bloqueadas |-> Count({"BLOCKED"}),
                   fallidas |-> Count(Status) - Count({"SUCCESS"}) - Count({"BLOCKED"})]
    /\ UNCHANGED <<faulty, plan, pc, attempt, server, results>>

Step(s) ==
    \/ Login(s)
    \/ LoginFails(s)
    \/ Post(s)
    \/ Receive(s)
    \/ NoAnswer(s)
    \/ NeverSent(s)

Deciding(s, r, n) == \E verdict \in Verdicts : Decide(s, r, n, verdict)

Next ==
    \/ Launch
    \/ \E s \in Senders : Step(s)
    \/ \E s \in Senders, r \in Rounds, n \in Attempts : Deciding(s, r, n)
    \/ Consolidate

Spec == Init /\ [][Next]_vars

\* The simulator's event loop runs what can run, every request has a timeout of
\* its own, and the backend ends what it has accepted (Ledger!RequestsEnd).
FairSpec ==
    /\ Spec
    /\ WF_vars(Consolidate)
    /\ \A s \in Senders :
         /\ WF_vars(Step(s))
         /\ \A r \in Rounds, n \in Attempts : WF_vars(Deciding(s, r, n))

-----------------------------------------------------------------------------
(* Properties *)

Records(s, r) == {n \in Attempts : server[s][r][n] \in Recording}

\* On a network that answers, what enviar_transaccion returns is what happened at
\* the backend, counted over all its attempts: SUCCESS for a transaction recorded
\* once, any other status for one that was not recorded and never will be.
ResultsAreTrue ==
    ~faulty => \A s \in Senders : \A r \in 1 .. Len(results[s]) :
        /\ \A n \in Attempts : server[s][r][n] # "running"
        /\ Cardinality(Records(s, r)) = IF results[s][r] = "SUCCESS" THEN 1 ELSE 0

\* On such a network the report of a simulation counts as "exitosas" the
\* transactions the backend recorded; on any, it accounts for every transaction
\* (scenarios.py:80-94, 127-139).
ReportIsTrue ==
    sim = "STORED" =>
        /\ ~faulty => summary.exitosas =
             Cardinality({t \in Senders \X Rounds : Records(t[1], t[2]) # {}})
        /\ summary.exitosas + summary.bloqueadas + summary.fallidas =
             SumFunction(plan)

\* Even if requests time out, what is counted as a success was recorded, by the
\* attempt that was answered last (client.py:103-111).
SuccessWasRecorded ==
    \A s \in Senders : \A r \in 1 .. Len(results[s]) :
        results[s][r] = "SUCCESS" =>
            \E n \in Records(s, r) : \A m \in Attempts : m > n => server[s][r][m] = "none"

\* A transaction said to be fended off, refused or given up "definitively" was not
\* recorded by any of its attempts (client.py:125-137, 155).
FailedIsFinal ==
    \A s \in Senders : \A r \in 1 .. Len(results[s]) :
        results[s][r] # "SUCCESS" => Records(s, r) = {}

\* A simulation whose tasks do not raise ends with its report, whatever the
\* backend answers and however often it does not.
SimulationEnds ==
    sim = "PROCESSING" ~> (sim = "STORED" \/ \E s \in Senders : pc[s] = "raised")
=============================================================================
