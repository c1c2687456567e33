SPECIFICATION Spec
CONSTANTS
    p1 = p1
    p2 = p2
    c1 = c1
    c2 = c2
    u1 = u1
    e1 = e1
    e2 = e2
    e3 = e3
    None = None
    Users = {u1}
    Checks = {e1, e2, e3}
    Procs = {p1, p2}
    Communities = {c1}
    Minutes = 1
INVARIANT TimeoutsAreEarned
CHECK_DEADLOCK FALSE
