\* A connection of each transport; cycles that may take longer than the interval, and a
\* cache that outlives it, so that cycles overlap and entries are hit.
SPECIFICATION FairSpec
CONSTANTS
    s1 = s1
    w1 = w1
    Sse = {s1}
    WebSocket = {w1}
    Interval = 2
    CacheTtl = 3
    MaxDuration = 2
    None = None
INVARIANTS
    RefusalsTakeEffect
PROPERTIES
    RevokedEnds
