SPECIFICATION FairSpec
CONSTANTS
    a1 = a1
    a2 = a2
    t1 = t1
    t2 = t2
    u1 = u1
    u2 = u2
    None = None
    Accounts = {a1}
    Active = {a1}
    Opening <- SmallOpening
    Tellers = {t1}
    Auditors = {u1, u2}
    Amounts = {10, 15}
    MaxAmount = 1
    MaxTx = 2
    MaxVersion = 4
PROPERTIES RequestsEnd
CHECK_DEADLOCK FALSE
INVARIANTS ReviewNeverConflicts
