\* One user with three connections at a cap of one, under a wall clock that may repeat a
\* reading or step back: evictions chain, and race with revocations, the clients' leaving,
\* throwing hooks and both teardowns.
SPECIFICATION Spec
CONSTANTS
    c1 = c1
    c2 = c2
    c3 = c3
    u1 = u1
    u2 = u2
    t1 = t1
    r1 = r1
    Conns = {c1, c2, c3}
    Users = {u1}
    Tenants = {}
    NoTenant = NoTenant
    UserOf <- OneUser
    TenantOf <- NoTenants
    AppRooms = {}
    None = None
    MaxPerUser = 1
    Stamps = {0, 1}
    ClockMayStepBack = TRUE
    MayThrow = {"onConnect", "onError"}
SYMMETRY Alike
INVARIANTS
    TimersAccounted
    OpenStreamsAccounted
    DisconnectHookOnce
    TeardownLeavesNone
    WithinLimit
PROPERTIES
    ConnectBeforeDisconnect
    EvictsOldestDownToLimit
\* All connections end once and the teardown stops: the system may stop.
CHECK_DEADLOCK FALSE
