SPECIFICATION ScreeningSpec
CONSTANTS
    w1 = w1
    w2 = w2
    a1 = a1
    i1 = i1
    NoAccount = NoAccount
    Workers = {w1, w2}
    Accounts = {a1}
    Ips = {i1}
    AccountWindow = 2
    AccountMax = 1
    IpWindow = 2
    IpMax = 1
    Patience = 2
    MaxTime = 3
    MaxRequests = 4
SYMMETRY WorkerSymmetry
INVARIANTS ScreeningTypeOK PatternIsBounded BurstIsBounded NoFalseAlarm OneMoreAtMost
CHECK_DEADLOCK FALSE
