\* Two instances, a stream on the first and a socket on the second; two calls in all.
SPECIFICATION Spec
CONSTANTS
    i1 = i1
    i2 = i2
    s1 = s1
    w2 = w2
    user = user
    room = room
    Instances = {i1, i2}
    Lone = i2
    Conns = {s1, w2}
    Home <- Homes
    Transport <- Transports
    Mode = "both"
    Targets = {user, room}
    Audience <- Audiences
    UserTargets = {user}
    HasQueue = TRUE
    Attached = {i2}
    MaxCalls = 2
INVARIANTS
    OutcomesTruthful
    RevocationsAccounted
PROPERTIES
    ImplementsDelivery
\* Every call is made once and the connections end: the system may stop.
CHECK_DEADLOCK FALSE
