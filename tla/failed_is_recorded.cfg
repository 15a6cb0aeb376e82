SPECIFICATION Spec
CONSTANTS
    s1 = s1
    s2 = s2
    Senders = {s1}
    Burst = 1
    Plans <- FraudOrStress
    MaxRetries = 2
INVARIANTS FailedIsFinal
CHECK_DEADLOCK FALSE
