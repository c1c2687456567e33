SPECIFICATION FairSpec
CONSTANTS
    c1 = c1
    c2 = c2
    r1 = r1
    k1 = k1
    k2 = k2
    k3 = k3
    None = None
    Checks = {k1, k2}
    Rooms = {r1}
    Communities = {c1, c2}
    Home <- InFirst
    MaxChanges = 2
    Reconnects = TRUE
    ReadReplica = TRUE
INVARIANTS TypeOK StaleMeansRaced LostMeansOverlapped
 
CHECK_DEADLOCK FALSE
