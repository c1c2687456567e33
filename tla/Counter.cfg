CONSTANTS
    s1 = s1
    s2 = s2
    h1 = h1
    h2 = h2
    c1 = c1
    mgr = mgr
    None = None
    Topics = {"hellban", "counter", "config"}
    Listeners = {h1, h2, c1, mgr}
    TopicOf <- MCTopicOf
    Permanent = {mgr}
    Reconnects = TRUE
    MaxMessages = 2
    Sets = {s1, s2}
    Hellban <- MCHellban
    Count <- MCCount
    Manager = mgr
    Checks = {k1, k2}
    Mentions = {k2}
    Window = 1
    MaxTime = 1
    MaxWork = 3
SPECIFICATION FairSpec
INVARIANTS TypeOK OnceEach  
 
CHECK_DEADLOCK FALSE
