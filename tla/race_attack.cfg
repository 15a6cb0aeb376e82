SPECIFICATION AttackSpec
CONSTANTS
    a1 = a1
    t1 = t1
    t2 = t2
    u1 = u1
    None = None
    Accounts = {a1}
    Active = {a1}
    Opening <- SmallOpening
    Tellers = {t1, t2}
    Auditors = {u1}
    Amounts = {10}
    MaxAmount = 2
    MaxTx = 2
    MaxVersion = 4
SYMMETRY TellerSymmetry
INVARIANTS AttackTypeOK SpentOnce VerdictIsTrue
CHECK_DEADLOCK FALSE
