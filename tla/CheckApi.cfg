SPECIFICATION ApiSpec
CONSTANTS
    alice = alice
    mallory = mallory
    local = local
    stranger = stranger
    room = room
    hall = hall
    evil = evil
    spam = spam
    scam = scam
    good = good
    bad = bad
    pic = pic
    gore = gore
    none = none
    s1 = s1
    s2 = s2
    s3 = s3
    Servers = {s1, s2, s3}
    Users <- MCUsers
    Local = local
    World <- MCWorld
    None = none
    Communities <- MCCommunities
    Inputs <- MCInputs
SYMMETRY Symmetry
INVARIANTS TypeOK VerdictIsMostSevere AnswerIsMostSevere ExemptFromFilters SpamIsSilenced  
CHECK_DEADLOCK FALSE
