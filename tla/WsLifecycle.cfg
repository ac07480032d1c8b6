\* Two sockets of one user at a cap of one, one of which the middleware does not see and
\* the application moves between rooms, under a wall clock that may step back.
SPECIFICATION FairSpec
CONSTANTS
    c2 = c2
    c3 = c3
    u1 = u1
    t1 = t1
    r1 = r1
    Conns = {c2, c3}
    Users = {u1}
    Tenants = {t1}
    NoTenant = NoTenant
    UserOf <- Pair
    TenantOf <- PairTenants
    AppRooms = {r1}
    None = None
    MaxPerUser = 1
    Stamps = {0, 1}
    SkipsMiddleware = {c3}
    HooksMayReject = TRUE
    AdapterMayThrow = TRUE
    RoomCallers = {c3}
    MaxPending = 2
INVARIANTS
    SocketsAccounted
    CapHolds
    RoomsAccounted
PROPERTIES
    EvictsOldestBeyondLimit
    RegistrationsEnd
    ShutdownClosesAll
\* All sockets end once and the server closes: the system may stop.
CHECK_DEADLOCK FALSE
