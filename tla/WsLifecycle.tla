----------------------------- MODULE WsLifecycle -----------------------------
(***************************************************************************)
(* The life of the WebSocket connections of one node: RealtimeGateway (the *)
(* handshake middleware, handleConnection, handleDisconnect) and           *)
(* WebSocketTransport (registration, the per-user cap, rooms, disconnect,  *)
(* the shutdown flag), over the registries SSE uses too.                   *)
(*                                                                         *)
(* Socket.IO is external.  What the code relies on: disconnect(true) is    *)
(* synchronous, it empties the socket's rooms, turns a later join into a   *)
(* no-op and runs the gateway's handleDisconnect before it returns; the    *)
(* map of local sockets holds exactly the connected ones.  Its adapter may *)
(* throw from the fan-out of disconnect(), and from the joins of a         *)
(* registration; a joinRoom or leaveRoom it refuses has changed nothing.   *)
(*                                                                         *)
(* An action is the code from one await to the next.                       *)
(***************************************************************************)
EXTENDS Integers, Sequences, Registries

CONSTANTS
    None,             \* no connection
    MaxPerUser,       \* options.websocket.maxConnectionsPerUser; 0 disables the cap
    Stamps,           \* the readings `new Date()` can give
    SkipsMiddleware,  \* sockets Socket.IO connects without running the middleware
    HooksMayReject,   \* whether onConnect and onDisconnect may reject
    AdapterMayThrow,  \* whether the adapter may refuse a join or the fan-out of disconnect()
    RoomCallers,      \* bound: the sockets the application moves between rooms
    MaxPending        \* bound: joinRoom and leaveRoom calls in flight per socket

\* The room that addresses one socket on every node.
OwnRoom(c) == <<"connection", c>>
UserRoom(c) == composeRoomId("USER", UserOf[c])

\* The rooms a socket joins at its registration.
OwnRooms(c) ==
    {UserRoom(c), OwnRoom(c)} \cup
    (IF TenantOf[c] = NoTenant THEN {} ELSE {composeRoomId("TENANT", TenantOf[c])})

ASSUME WsAssumption ==
    /\ None \notin Conns
    /\ IsFiniteSet(Conns)
    /\ MaxPerUser \in Nat
    /\ Stamps \subseteq Nat
    /\ SkipsMiddleware \subseteq Conns
    /\ HooksMayReject \in BOOLEAN
    /\ AdapterMayThrow \in BOOLEAN
    /\ RoomCallers \subseteq Conns
    /\ MaxPending \in Nat
    \* the application joins and leaves none of the rooms the library joins on its own
    /\ \A c \in Conns : AppRooms \cap OwnRooms(c) = {}

VARIABLES
    link,         \* link[c]: the Socket.IO connection
    registration, \* registration[c]: the await its handleConnection is at
    registry,     \* ConnectionRegistry
    roomIndex,    \* RoomRegistry
    ioRooms,      \* ioRooms[c]: the rooms of the Socket.IO adapter c is in
    connectedAt,  \* connectedAt[c]: the record's timestamp
    order,        \* order[c]: position of c in insertion order
    victim,       \* victim[c]: whose eviction the registration of c awaits
    pending,      \* pending[c]: joinRoom / leaveRoom calls awaiting the adapter, FIFO
    shutdown,     \* "up", "shutting" (the flag is set) or "closed" (the server closes)
    reported,     \* history: the reasons onDisconnect was called with for c
    evicted,      \* history: the connections evictBeyondLimit chose
    leftMidway    \* history: the sockets that left while a call about them awaited

recordVars  == <<registry, connectedAt, order>>
callVars    == <<registration, victim, evicted>>
closeVars   == <<link, registry, roomIndex, ioRooms, reported, leftMidway>>
vars == <<closeVars, connectedAt, order, callVars, pending, shutdown>>

-----------------------------------------------------------------------------
\* "joining": the awaited joins of registerSocket; "evicting": evictBeyondLimit
\* awaits a disconnect; "evictHook": it awaits the hook of unregisterSocket.
InProgress == {"authenticating", "joining", "evicting", "evictHook", "hooking"}
Reasons    == {"CLIENT_DISCONNECT", "REALTIME_TOO_MANY_CONNECTIONS"}
Calls      == {"join", "leave"} \X AppRooms

IoRooms    == AllRooms \cup {OwnRoom(c) : c \in Conns}

TypeOK ==
    /\ link \in [Conns -> {"off", "handshaking", "open", "gone"}]
    /\ registration \in [Conns -> {"none", "done", "failed"} \cup InProgress]
    /\ registry \in ConnectionIndex
    /\ roomIndex \in RoomIndex
    /\ ioRooms \in [Conns -> SUBSET IoRooms]
    /\ connectedAt \in [Conns -> Nat]
    /\ order \in [Conns -> Nat]
    /\ victim \in [Conns -> Conns \cup {None}]
    /\ pending \in [Conns -> Seq(Calls)]
    /\ shutdown \in {"up", "shutting", "closed"}
    /\ reported \in [Conns -> Seq(Reasons)]
    /\ evicted \subseteq Conns
    /\ leftMidway \subseteq Conns

Init ==
    /\ link = [c \in Conns |-> "off"]
    /\ registration = [c \in Conns |-> "none"]
    /\ registry = NoConnections
    /\ roomIndex = NoRooms
    /\ ioRooms = [c \in Conns |-> {}]
    /\ connectedAt = [c \in Conns |-> 0]
    /\ order = [c \in Conns |-> 0]
    /\ victim = [c \in Conns |-> None]
    /\ pending = [c \in Conns |-> <<>>]
    /\ shutdown = "up"
    /\ reported = [c \in Conns |-> <<>>]
    /\ evicted = {}
    /\ leftMidway = {}

Held == registry.byId
shuttingDown == shutdown # "up"

Goto(c, state) == link' = [link EXCEPT ![c] = state]
At(c, await)   == registration' = [registration EXCEPT ![c] = await]

-----------------------------------------------------------------------------
(* Removing a record, and closing a socket. *)

\* A slip: a socket whose registration is under way is left to it.
unregisterSocketOnceDone(c, rm, reason) ==
    IF c \in Held /\ registration[c] \in {"hooking", "done"}
    THEN /\ registry' = unregister(registry, c)
         /\ roomIndex' = leaveAll(rm, c)
         /\ reported' = [reported EXCEPT ![c] = Append(@, reason)]
    ELSE roomIndex' = rm /\ UNCHANGED <<registry, reported>>

\* unregisterSocket up to the hook: nothing at all without a record, not even
\* the rooms.  rm is the room registry at that point of the handler.
unregisterSocket(c, rm, reason) ==
    IF c \in Held
    THEN /\ registry' = unregister(registry, c)
         /\ roomIndex' = leaveAll(rm, c)
         /\ reported' = [reported EXCEPT ![c] = Append(@, reason)]
    ELSE roomIndex' = rm /\ UNCHANGED <<registry, reported>>

\* A connected socket closes, for whatever cause: Socket.IO leaves its rooms,
\* and handleDisconnect runs up to the hook, which nobody awaits.
socketCloses(c, rm) ==
    /\ Goto(c, "gone")
    /\ ioRooms' = [ioRooms EXCEPT ![c] = {}]
    /\ unregisterSocket(c, rm, "CLIENT_DISCONNECT")
    /\ leftMidway' = IF registration[c] \in {"authenticating", "joining"} \/ pending[c] # <<>>
                     THEN leftMidway \cup {c}
                     ELSE leftMidway

\* socket.disconnect(true): nothing on a socket that has closed already.
socketDisconnect(c, rm) ==
    IF link[c] = "open"
    THEN socketCloses(c, rm)
    ELSE roomIndex' = rm /\ UNCHANGED <<link, registry, ioRooms, reported, leftMidway>>

\* The client or its network goes away.
ClientLeaves(c) ==
    /\ \/ link[c] = "open" /\ socketCloses(c, roomIndex)
       \/ /\ link[c] = "handshaking"
          /\ Goto(c, "gone")
          /\ UNCHANGED <<registry, roomIndex, ioRooms, reported, leftMidway>>
    /\ UNCHANGED <<connectedAt, order, callVars, pending, shutdown>>

\* disconnect() of the application or of the re-authentication: the socket of
\* this node directly, then the broadcast to its own room, which it has left,
\* whether that throws or not.
disconnect(c) ==
    /\ link[c] = "open"
    /\ socketCloses(c, roomIndex)
    /\ UNCHANGED <<connectedAt, order, callVars, pending, shutdown>>

-----------------------------------------------------------------------------
(* The handshake, and registration. *)

\* registerSocket up to its joins.  They are one await here: the room of the
\* user, of the tenant and its own are joined in turn, a join on a socket that
\* has closed is a no-op, and nothing is looked at in between.
beginRegistration(c) ==
    \E t \in Stamps :
        /\ registry' = register(registry, c)
        /\ connectedAt' = [connectedAt EXCEPT ![c] = t]
        /\ order' = [order EXCEPT ![c] = 1 + Cardinality({d \in Conns : order[d] > 0})]
        /\ ioRooms' = IF link'[c] = "open"
                      THEN [ioRooms EXCEPT ![c] = @ \cup OwnRooms(c)]
                      ELSE ioRooms
        /\ At(c, "joining")

\* A client connects: the middleware runs up to the authenticator or refuses
\* during shutdown.  A socket that skips it goes straight to handleConnection,
\* which does the same once the socket is connected.
Connects(c) ==
    /\ link[c] = "off"
    /\ \/ /\ c \notin SkipsMiddleware
          /\ Goto(c, IF shuttingDown THEN "gone" ELSE "handshaking")
          /\ UNCHANGED registration
       \/ /\ c \in SkipsMiddleware
          /\ Goto(c, IF shuttingDown THEN "gone" ELSE "open")
          /\ At(c, IF shuttingDown THEN "failed" ELSE "authenticating")
    /\ UNCHANGED <<recordVars, roomIndex, ioRooms, victim, evicted, pending, shutdown,
                   reported, leftMidway>>

\* The authenticator answers the middleware: an identity that resolves and is
\* not blank, or null, a blank identity or an exception.  Shutdown is checked
\* again.  Socket.IO connects an accepted socket on the next tick, before any
\* other callback, and handleConnection registers the middleware's identity.
authenticateHandshake(c, ok) ==
    /\ link[c] = "handshaking"
    /\ Goto(c, IF ok /\ ~shuttingDown THEN "open" ELSE "gone")
    /\ IF ok /\ ~shuttingDown
       THEN beginRegistration(c)
       ELSE UNCHANGED <<recordVars, ioRooms, registration>>
    /\ UNCHANGED <<roomIndex, victim, evicted, pending, shutdown, reported, leftMidway>>

\* A slip: a refused socket is not registered, and not closed either.
handleConnectionReturns(c) ==
    /\ registration[c] = "authenticating"
    /\ \/ /\ UNCHANGED <<link, roomIndex, reported, leftMidway>>
          /\ beginRegistration(c)
       \/ /\ At(c, "failed")
          /\ UNCHANGED <<closeVars, connectedAt, order>>
    /\ UNCHANGED <<victim, evicted, pending, shutdown>>

\* The authenticator answers handleConnection.  Neither shutdown nor the socket
\* is looked at: a socket that left meanwhile is registered all the same.
handleConnection(c) ==
    /\ registration[c] = "authenticating"
    /\ \/ /\ UNCHANGED <<link, roomIndex, reported, leftMidway>>
          /\ beginRegistration(c)
       \/ /\ socketDisconnect(c, roomIndex)
          /\ At(c, "failed")
          /\ UNCHANGED <<connectedAt, order>>
    /\ UNCHANGED <<victim, evicted, pending, shutdown>>

\* reduce((a, b) => a.connectedAt <= b.connectedAt ? a : b) in insertion order.
IsOldest(v, S) ==
    \A w \in S \ {v} : \/ connectedAt[v] < connectedAt[w]
                       \/ connectedAt[v] = connectedAt[w] /\ order[v] < order[w]

\* A slip: >= for >.
OverLimitAtLimit(u) == MaxPerUser > 0 /\ Cardinality(byUser(registry, u)) >= MaxPerUser

\* A slip: one above the limit is let be.
OverLimitByOne(u) == MaxPerUser > 0 /\ Cardinality(byUser(registry, u)) > MaxPerUser + 1

OverLimit(u) == MaxPerUser > 0 /\ Cardinality(byUser(registry, u)) > MaxPerUser

\* One turn of the loop of evictBeyondLimit: disconnect(oldest) up to its await,
\* or leave the loop, which calls onConnect whatever became of the socket.
evictBeyondLimit(c, rm) ==
    LET mine == byUser(registry, UserOf[c]) IN
    IF OverLimit(UserOf[c])
    THEN \E v \in mine :
            /\ IsOldest(v, mine)
            /\ socketDisconnect(v, rm)
            /\ victim' = [victim EXCEPT ![c] = v]
            /\ evicted' = evicted \cup {v}
            /\ At(c, "evicting")
    ELSE /\ roomIndex' = rm
         /\ victim' = [victim EXCEPT ![c] = None]
         /\ At(c, "hooking")
         /\ UNCHANGED <<link, registry, ioRooms, reported, leftMidway, evicted>>

\* RoomRegistry mirrors the user's and the tenant's room.
mirrorOwnRooms(rm, c) ==
    LET withUser == join(rm, c, UserRoom(c))
    IN  IF TenantOf[c] = NoTenant
        THEN withUser
        ELSE join(withUser, c, composeRoomId("TENANT", TenantOf[c]))

\* After the last join: the mirror, without a look at whether the socket is
\* still there, and the cap.
JoinsDone(c) ==
    /\ registration[c] = "joining"
    /\ evictBeyondLimit(c, mirrorOwnRooms(roomIndex, c))
    /\ UNCHANGED <<connectedAt, order, pending, shutdown>>

\* A slip: disconnect() is trusted to have dropped the record.
EvictionOnlyDisconnects(c) ==
    /\ registration[c] = "evicting"
    /\ evictBeyondLimit(c, roomIndex)
    /\ UNCHANGED <<connectedAt, order, pending, shutdown>>

\* disconnect() resolved: unregisterSocket awaits the hook of a record that is
\* still there (one without a socket), otherwise the loop goes on.
EvictionContinues(c) ==
    /\ registration[c] = "evicting"
    /\ \/ /\ victim[c] \in Held
          /\ unregisterSocket(victim[c], roomIndex, "REALTIME_TOO_MANY_CONNECTIONS")
          /\ At(c, "evictHook")
          /\ UNCHANGED <<link, ioRooms, leftMidway, victim, evicted>>
       \/ victim[c] \notin Held /\ evictBeyondLimit(c, roomIndex)
    /\ UNCHANGED <<connectedAt, order, pending, shutdown>>

\* The adapter refuses a join, which a closed socket no longer asks it for.
JoinThrows(c) ==
    AdapterMayThrow /\ registration[c] = "joining" /\ (c \in Held => link[c] = "open")

\* The fan-out of disconnect(victim) threw: disconnect rethrows, and the loop
\* ends with the victim's record where it was.
EvictionThrows(c) == AdapterMayThrow /\ registration[c] = "evicting"

HookRejects(c) == HooksMayReject /\ registration[c] \in {"evictHook", "hooking"}

\* The catch of handleConnection: the socket is closed.  The record of one that
\* had closed already stays.
RegistrationFails(c) ==
    /\ JoinThrows(c) \/ EvictionThrows(c) \/ HookRejects(c)
    /\ socketDisconnect(c, roomIndex)
    /\ At(c, "failed")
    /\ UNCHANGED <<connectedAt, order, victim, evicted, pending, shutdown>>

\* The hook awaited in the loop resolves.
EvictHookSettles(c) ==
    /\ registration[c] = "evictHook"
    /\ evictBeyondLimit(c, roomIndex)
    /\ UNCHANGED <<connectedAt, order, pending, shutdown>>

\* onConnect resolves: connection:established, which changes nothing here.
ConnectHookSettles(c) ==
    /\ registration[c] = "hooking"
    /\ At(c, "done")
    /\ UNCHANGED <<closeVars, connectedAt, order, victim, evicted, pending, shutdown>>

-----------------------------------------------------------------------------
(* Rooms of the application. *)

\* joinRoom and leaveRoom up to the adapter's await, for a socket of this node.
RoomCall(c, op, r) ==
    /\ c \in RoomCallers
    /\ link[c] = "open"
    /\ Len(pending[c]) < MaxPending
    /\ ioRooms' = [ioRooms EXCEPT ![c] = IF op = "join" THEN @ \cup {r} ELSE @ \ {r}]
    /\ pending' = [pending EXCEPT ![c] = Append(@, <<op, r>>)]
    /\ UNCHANGED <<link, recordVars, roomIndex, callVars, shutdown, reported, leftMidway>>

\* A slip: leaveRoom leaves the mirror as it is.
RoomCallSettlesOnJoin(c) ==
    /\ pending[c] # <<>>
    /\ roomIndex' = IF Head(pending[c])[1] = "join"
                    THEN join(roomIndex, c, Head(pending[c])[2])
                    ELSE roomIndex
    /\ pending' = [pending EXCEPT ![c] = Tail(@)]
    /\ UNCHANGED <<link, recordVars, ioRooms, callVars, shutdown, reported, leftMidway>>

\* The adapter is done: RoomRegistry follows, unguarded.
RoomCallSettles(c) ==
    /\ pending[c] # <<>>
    /\ roomIndex' = LET call == Head(pending[c])
                    IN  IF call[1] = "join" THEN join(roomIndex, c, call[2])
                                            ELSE leave(roomIndex, c, call[2])
    /\ pending' = [pending EXCEPT ![c] = Tail(@)]
    /\ UNCHANGED <<link, recordVars, ioRooms, callVars, shutdown, reported, leftMidway>>

-----------------------------------------------------------------------------
(* Shutdown. *)

beforeApplicationShutdown ==
    /\ shutdown = "up"
    /\ shutdown' = "shutting"
    /\ UNCHANGED <<closeVars, connectedAt, order, callVars, pending>>

\* Nest closes the Socket.IO server, which closes every connected socket.
ServerCloses ==
    /\ shutdown = "shutting"
    /\ shutdown' = "closed"
    /\ UNCHANGED <<closeVars, connectedAt, order, callVars, pending>>

ServerClosesSocket(c) ==
    /\ shutdown = "closed"
    /\ link[c] = "open"
    /\ socketCloses(c, roomIndex)
    /\ UNCHANGED <<connectedAt, order, callVars, pending, shutdown>>

-----------------------------------------------------------------------------
RegistrationGoesOn(c) ==
    \/ handleConnection(c)
    \/ JoinsDone(c)
    \/ EvictionContinues(c)
    \/ EvictHookSettles(c)
    \/ ConnectHookSettles(c)

Registration(c) == RegistrationGoesOn(c) \/ RegistrationFails(c)

Next ==
    \/ \E c \in Conns :
        \/ Connects(c)
        \/ \E ok \in BOOLEAN : authenticateHandshake(c, ok)
        \/ Registration(c)
        \/ RoomCallSettles(c)
        \/ ClientLeaves(c)
        \/ disconnect(c)
        \/ ServerClosesSocket(c)
        \/ \E op \in {"join", "leave"}, r \in AppRooms : RoomCall(c, op, r)
    \/ beforeApplicationShutdown
    \/ ServerCloses

\* The event loop runs every settled await; the hooks and the authenticator of
\* handleConnection answer, and Socket.IO closes what it holds.  Nothing is obliged to
\* throw or to reject.
Fairness ==
    \A c \in Conns : /\ WF_vars(RegistrationGoesOn(c))
                     /\ WF_vars(RoomCallSettles(c))
                     /\ WF_vars(ServerClosesSocket(c))

Spec == Init /\ [][Next]_vars

FairSpec == Spec /\ Fairness

-----------------------------------------------------------------------------
(* Safety. *)

\* maxConnectionsPerUser is exceeded only by the records of registrations that have
\* not left their eviction loop, however many run at once and whoever leaves meanwhile,
\* and of those that failed: their catch closes the socket, which drops the record
\* unless the socket had closed before (registerSocket, evictBeyondLimit, and the throw
\* of disconnect that ends the loop early).
CapHolds ==
    MaxPerUser > 0 =>
        \A u \in Users :
            LET mine == byUser(registry, u)
            IN  Cardinality(mine) <=
                    MaxPerUser + Cardinality({c \in mine :
                        registration[c] \in {"joining", "evicting", "evictHook", "failed"}})

\* No open socket lingers unregistered, where broadcasts would reach it: every
\* failure of handleConnection, every eviction and revocation closes the socket
\* no later than it drops the record ("fail-closed", RealtimeGateway).
OpenSocketsAccounted ==
    \A c \in Conns : link[c] = "open" => c \in Held \/ registration[c] = "authenticating"

\* The record of a socket goes with it, except where handleConnection authenticates
\* itself and the socket left midway: it registers one that left during that await.
RecordsHaveSockets ==
    \A c \in Held : link[c] = "open" \/ (c \in SkipsMiddleware /\ c \in leftMidway)

\* onDisconnect is called once for each record that goes, and for no other:
\* eviction calls unregisterSocket after the socket's own handler did.
DisconnectHookOnce ==
    \A c \in Conns : Len(reported[c]) = (IF order[c] > 0 /\ c \notin Held THEN 1 ELSE 0)

\* Sockets, records and hook calls match.
SocketsAccounted == TypeOK /\ OpenSocketsAccounted /\ RecordsHaveSockets /\ DisconnectHookOnce

\* For a settled socket RoomRegistry and the adapter agree on its rooms, however
\* joins, leaves and the registration interleave (joinRoom, leaveRoom).
RoomsMirrored ==
    \A c \in Conns :
        link[c] = "open" /\ pending[c] = <<>> /\ registration[c] \notin {"authenticating", "joining"}
            => roomIndex.connectionRooms[c] = ioRooms[c] \ {OwnRoom(c)}

\* RoomRegistry keeps a member that is gone only when it left while a call about
\* it awaited the adapter or the authenticator: those calls join unguarded.
RoomLeaksExplained ==
    \A c \in Conns : link[c] = "gone" /\ roomIndex.connectionRooms[c] # {} => c \in leftMidway

\* The two indexes of a socket's rooms agree, and what they keep of a socket that is
\* gone is explained.
RoomsAccounted == RoomsMirrored /\ RoomLeaksExplained

-----------------------------------------------------------------------------
(* What a step may never do. *)

\* An eviction takes the user's first connection by timestamp and insertion, and
\* leaves the user at least the limit: concurrent registrations never evict one
\* connection too many (evictBeyondLimit).
EvictsOldestBeyondLimit ==
    [][\A v \in evicted' \ evicted :
          LET left == byUser(registry', UserOf[v]) \ {v}
          IN  Cardinality(left) >= MaxPerUser /\ IsOldest(v, left)]_vars

-----------------------------------------------------------------------------
(* Liveness. *)

\* Every handleConnection ends, evictions included: the loop waits for nothing that
\* another registration waiting for it would have to do (evictBeyondLimit).
RegistrationsEnd ==
    \A c \in Conns : registration[c] \in InProgress ~> registration[c] \in {"done", "failed"}

\* Once the server closes, every socket the middleware let in is closed for good
\* and its record dropped.
ShutdownClosesAll ==
    shutdown = "closed" ~> [](\A c \in Conns \ SkipsMiddleware : link[c] # "open" /\ c \notin Held)

=============================================================================
