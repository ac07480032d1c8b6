\* Two connections of one user at a cap of one, one with a tenant, an application room,
\* and hooks that settle and may throw.
SPECIFICATION FairSpec
CONSTANTS
    c1 = c1
    c2 = c2
    c3 = c3
    u1 = u1
    u2 = u2
    t1 = t1
    r1 = r1
    Conns = {c1, c2}
    Users = {u1}
    Tenants = {t1}
    NoTenant = NoTenant
    UserOf <- Pair
    TenantOf <- PairTenants
    AppRooms = {r1}
    None = None
    MaxPerUser = 1
    Stamps = {0}
    ClockMayStepBack = FALSE
    MayThrow = {"onConnect", "onError"}
INVARIANTS
    RoomMembersHeld
PROPERTIES
    DisconnectedStreamsEnd
    EndedStreamsAreDropped
    ShutdownEndsAll
\* All connections end once and the teardown stops: the system may stop.
CHECK_DEADLOCK FALSE
