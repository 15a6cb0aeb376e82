SPECIFICATION FairSpec
CONSTANTS
    Cases = {1, 2}
    TxId <- LateTxId
    FlaggedId <- OwnFlaggedId
    Auditors = {x1}
    Offered <- OneEach
    MaxWire = 1
    MaxClicks <- SecondCaseOnly
INVARIANTS TypeOK ListedIsShown VerdictHasSource
PROPERTIES DecidedLeaves
CHECK_DEADLOCK FALSE
