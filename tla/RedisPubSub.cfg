\* Two callers, two clients one after the other, two breaks and one refusal.
SPECIFICATION FairSpec
CONSTANTS
    k1 = k1
    k2 = k2
    Callers = {k1, k2}
    MaxClients = 2
    MaxBreaks = 2
    MaxRefusals = 1
INVARIANTS
    ClientsAccounted
    ReadyMeansHearing
PROPERTIES
    SubscribeSettles
    ReadyInTheEnd
\* Clients are bounded: once the last has ended nothing need happen.
CHECK_DEADLOCK FALSE
