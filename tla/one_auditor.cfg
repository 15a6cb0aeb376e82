SPECIFICATION Spec
CONSTANTS
    a1 = a1
    a2 = a2
    t1 = t1
    t2 = t2
    u1 = u1
    u2 = u2
    None = None
    Accounts = {a1, a2}
    Active = {a1, a2}
    Opening <- SmallOpening
    Tellers = {t1, t2}
    Auditors = {u1}
    Amounts = {10, 15}
    MaxAmount = 2
    MaxTx = 2
    MaxVersion = 4
SYMMETRY LedgerSymmetry
INVARIANTS TypeOK Solvent ConstraintsNeverFire FlaggedWasAnnounced Reconciled VerdictOnRecord
PROPERTIES NoLostUpdate ResolutionIsFinal KeepsFunds
CHECK_DEADLOCK FALSE
