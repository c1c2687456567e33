SPECIFICATION FairSpec
CONSTANTS
    d1 = d1
    d2 = d2
    p1 = p1
    p2 = p2
    wait1 = wait1
    catchup1 = catchup1
    catchup2 = catchup2
    None = None
    Edus = {1, 2, 3}
    Dests = {d1, d2}
    DestOf <- LastElsewhere
    Procs = {p1, p2}
    Callers = {wait1, catchup1, catchup2}
    ProcOf <- CallerProc
    Listeners = {wait1}
    MaxBatch = 2
    MaxFaults = 1
INVARIANTS TypeOK OneTransactionPerDestination NothingLost RepeatsAreFaults
PROPERTIES ImplementsOutbox
CHECK_DEADLOCK FALSE
