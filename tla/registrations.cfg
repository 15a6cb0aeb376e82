SPECIFICATION FairSpec
CONSTANTS
    admin = admin
    guest = guest
    p1 = p1
    p2 = p2
    w1 = w1
    w2 = w2
    None = None
    Workers = {w1, w2}
    Names = {admin, guest}
    Passwords = {p1, p2}
    Seeds <- AdminSeeded
    AdminName = admin
    AdminPassword = p2
    States = {"Inactivo"}
    Openings = {1}
    MaxRefusals = 1
INVARIANTS TypeOK CreatedIsOnRecord RefusedWasTaken TokensAreEarned RefusalsAreLogged
PROPERTIES KeepsNames RequestsEnd
CHECK_DEADLOCK FALSE
