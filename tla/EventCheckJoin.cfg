SPECIFICATION Spec
CONSTANTS
    r1 = r1
    r2 = r2
    r3 = r3
    p1 = p1
    e1 = e1
    Requests = {r1, r2, r3}
    Events = {e1}
    Procs = {p1}
    EventOf <- OneEvent
    ProcOf <- OneProc
    Kinds = {"sign"}
    Harms = {"spam"}
    MaxWorkers = 2
    ReadReplica = FALSE
SYMMETRY Symmetry
INVARIANTS TypeOK ActsOnPersistedVerdict PersistedOncePerProcess 
CHECK_DEADLOCK FALSE
