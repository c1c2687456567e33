SPECIFICATION Spec
CONSTANTS
    r1 = r1
    r2 = r2
    r3 = r3
    p1 = p1
    e1 = e1
    Requests = {r1}
    Events = {e1}
    Procs = {p1}
    EventOf <- OneEvent
    ProcOf <- OneProc
    Kinds = {"check"}
    Harms = {"spam"}
    MaxWorkers = 1
    ReadReplica = FALSE
INVARIANT VerdictIsRemembered
CHECK_DEADLOCK FALSE
