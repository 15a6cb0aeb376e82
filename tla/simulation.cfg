SPECIFICATION FairSpec
CONSTANTS
    s1 = s1
    s2 = s2
    Senders = {s1, s2}
    Burst = 2
    Plans <- FraudOrStress
    MaxRetries = 2
INVARIANTS TypeOK ResultsAreTrue ReportIsTrue SuccessWasRecorded
PROPERTIES SimulationEnds
CHECK_DEADLOCK FALSE
