SPECIFICATION FairSpec
CONSTANTS
    s1 = s1
    s2 = s2
    b1 = b1
    b2 = b2
    Sockets = {s1, s2}
    Broadcasts = {b1, b2}
INVARIANTS TypeOK DeliveredToAll AnsweredComesFirst GhostsAreForgotten
PROPERTIES BroadcastsEnd
CHECK_DEADLOCK FALSE
