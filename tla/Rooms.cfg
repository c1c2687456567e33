CONSTANTS
    q1 = q1
    q2 = q2
    q3 = q3
    r1 = r1
    r2 = r2
    Rooms = {r1, r2}
    Communities = {c0, c1}
    Default = c0
    Requests = {q1, q2, q3}
    Tasks = {t1, t2}
    None = None
    ReadReplica = TRUE
    MaxEvents = 2
    MaxWork = 3
    Duties <- MCDuties
    StartRooms <- MCStartRooms
    MaxJoinErrors = 0
    StateAt <- MCStateAt
    Garbled = Garbled
    Blank = Blank
    Privileged = {r1}
    Procs = {p1}
    MaxFaults = 1
SPECIFICATION FairSpec
INVARIANTS TypeOK  
  
CHECK_DEADLOCK FALSE
