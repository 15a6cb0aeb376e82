SPECIFICATION FairSpec
CONSTANTS
    Cases = {1}
    TxId <- LateTxId
    FlaggedId <- OwnFlaggedId
    Auditors = {}
    Offered <- Both
    MaxWire = 1
    MaxClicks <- NoClicks
PROPERTIES OpenIsShown
CHECK_DEADLOCK FALSE
