\* Two instances, binary numbers, counters of two digits: counters reach the end of their width and milliseconds repeat.
SPECIFICATION Spec
CONSTANTS
    i1 = i1
    i2 = i2
    Instances = {i1, i2}
    MaxPerUser = 2
    RetrieveLimit = 1
    MaxEvents = 5
    FirstMs = 2
    MaxMs = 3
    Base = 2
    CounterWidth = 2
    MsWidth = 3
INVARIANTS
    IdsSound
    RangesExact
PROPERTIES
    RemovalsJustified
\* The events run out: the system stops.
CHECK_DEADLOCK FALSE
