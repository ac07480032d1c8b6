---------------------------- MODULE SseLifecycle ----------------------------
(***************************************************************************)
(* The life of the SSE connections of one instance: SseSubscriptionHandler *)
(* (guard, handshake, stream, activation), SseTransport (registration, the *)
(* per-user cap, disconnects, shutdown), the two registries and the        *)
(* keepalive timers of HeartbeatService.                                   *)
(*                                                                         *)
(* Node runs one handler at a time, and a handler only yields at an await. *)
(* An action is therefore the code from one await (or callback entry) to   *)
(* the next; everything the code does in between is in that one action.    *)
(* The awaits are: the authenticator, the offline queue, Nest subscribing  *)
(* to the returned Observable, and the onDisconnect hook, which is awaited *)
(* by whoever removed the record BEFORE the stream is closed.              *)
(***************************************************************************)
EXTENDS Integers, Registries

CONSTANTS
    None,             \* no connection
    MaxPerUser,       \* options.sse.maxConnectionsPerUser; 0 disables the cap
    Stamps,           \* the readings `new Date()` can give
    ClockMayStepBack, \* whether the wall clock can be set back
    MayThrow          \* the hooks that may throw synchronously

ASSUME LifecycleAssumption ==
    /\ None \notin Conns
    /\ IsFiniteSet(Conns)
    /\ MaxPerUser \in Nat
    /\ Stamps \subseteq Nat
    /\ ClockMayStepBack \in BOOLEAN
    /\ MayThrow \subseteq {"onConnect", "onError"}

VARIABLES
    phase,        \* phase[c]: where the request and then the stream of c is
    registration, \* registration[c]: how far registerConnection(c) and its .then got
    registry,     \* ConnectionRegistry
    roomIndex,    \* RoomRegistry
    connectedAt,  \* connectedAt[c]: the record's timestamp
    order,        \* order[c]: position of c in Map / Set insertion order
    now,          \* the last clock reading
    timers,       \* HeartbeatService.timers: who has a keepalive interval
    victim,       \* victim[c]: whose eviction the registration of c awaits
    hook,         \* hook[c]: the onDisconnect call of c, and what follows it
    shutdown,     \* "up", "tearing" (in the teardown loop) or "torn"
    remaining,    \* connections of the teardown's snapshot not reached yet
    awaited,      \* the connection whose teardown the loop awaits
    passes,       \* teardowns started: beforeApplicationShutdown, onApplicationShutdown
    connected,    \* history: the connections onConnect was called for
    disconnects   \* history: disconnects[c], number of onDisconnect calls

requestRest  == <<registration, connectedAt, order, now, victim>>
requestVars  == <<phase, requestRest>>
heldVars     == <<registry, roomIndex, timers, hook, disconnects>>
shutdownVars == <<shutdown, remaining, awaited, passes>>
vars == <<requestVars, heldVars, shutdownVars, connected>>

-----------------------------------------------------------------------------
Handshaking == {"idle", "guard", "guarded", "authenticating", "opening", "returned"}
Ended       == {"closed", "errored", "refused"}
Phases      == Handshaking \cup {"open"} \cup Ended

\* "closing": awaited by disconnectLocal, which then fires close$;
\* "detached": started by the stream's own finalize, nobody waits.
HookStates  == {"none", "closing", "detached", "settled"}

\* "pending": registerConnection resolved, its .then has not run;
\* "failed": the rejection of onConnect met a throwing onError.
RegistrationStates == {"none", "evicting", "pending", "done", "failed"}

TypeOK ==
    /\ phase \in [Conns -> Phases]
    /\ registration \in [Conns -> RegistrationStates]
    /\ registry \in ConnectionIndex
    /\ roomIndex \in RoomIndex
    /\ connectedAt \in [Conns -> Nat]
    /\ order \in [Conns -> Nat]
    /\ now \in Nat
    /\ timers \subseteq Conns
    /\ victim \in [Conns -> Conns \cup {None}]
    /\ hook \in [Conns -> HookStates]
    /\ shutdown \in {"up", "tearing", "torn"}
    /\ remaining \subseteq Conns
    /\ awaited \in Conns \cup {None}
    /\ passes \in 0..2  \* 0..Teardowns
    /\ connected \subseteq Conns
    /\ disconnects \in [Conns -> 0..1]

Init ==
    /\ phase = [c \in Conns |-> "idle"]
    /\ registration = [c \in Conns |-> "none"]
    /\ registry = NoConnections
    /\ roomIndex = NoRooms
    /\ connectedAt = [c \in Conns |-> 0]
    /\ order = [c \in Conns |-> 0]
    /\ now = 0
    /\ timers = {}
    /\ victim = [c \in Conns |-> None]
    /\ hook = [c \in Conns |-> "none"]
    /\ shutdown = "up"
    /\ remaining = {}
    /\ awaited = None
    /\ passes = 0
    /\ connected = {}
    /\ disconnects = [c \in Conns |-> 0]

Held == registry.byId

\* The #shuttingDown flag: set when the teardown starts, never cleared.
shuttingDown == shutdown # "up"

-----------------------------------------------------------------------------
(* The handshake, up to the Observable that `handle` returns. *)

Goto(c, p) == phase' = [phase EXCEPT ![c] = p]

\* A request reaches the route guard, which calls the authenticator.
Arrive(c) ==
    /\ phase[c] = "idle"
    /\ Goto(c, "guard")
    /\ UNCHANGED <<requestRest, heldVars, shutdownVars, connected>>

\* The authenticator answers, for the guard or for `handle` when no guard ran.
\* A null result, an error or a blank identity refuses the request.
AuthSettles(c, ok) ==
    /\ phase[c] \in {"guard", "authenticating"}
    /\ Goto(c, CASE ~ok -> "refused"
                 [] ok /\ phase[c] = "guard" -> "guarded"
                 [] OTHER -> "opening")
    /\ UNCHANGED <<requestRest, heldVars, shutdownVars, connected>>

\* `handle`, up to its first await.
handle(c) ==
    /\ phase[c] \in {"idle", "guarded"}
    /\ Goto(c, CASE shuttingDown -> "refused"
                 [] ~shuttingDown /\ phase[c] = "guarded" -> "opening"
                 [] OTHER -> "authenticating")
    /\ UNCHANGED <<requestRest, heldVars, shutdownVars, connected>>

\* openStream answers (the offline queue was read, or failed): shutdown is
\* checked again, since it may have begun during the awaits.
OpenStreamSettles(c, ok) ==
    /\ phase[c] = "opening"
    /\ Goto(c, IF ok /\ ~shuttingDown THEN "returned" ELSE "refused")
    /\ UNCHANGED <<requestRest, heldVars, shutdownVars, connected>>

\* Nest drops the Observable unsubscribed: the client left during the handshake.
Abandon(c) ==
    /\ phase[c] = "returned"
    /\ Goto(c, "closed")
    /\ UNCHANGED <<requestRest, heldVars, shutdownVars, connected>>

-----------------------------------------------------------------------------
(* Removing a record, and what is awaited afterwards. *)

\* unregisterConnection up to its await, for a connection that has a record;
\* reg and rm are the registries at that point of the handler.
unregisterConnection(c, reg, rm, next) ==
    /\ registry' = unregister(reg, c)
    /\ roomIndex' = leaveAll(rm, c)
    /\ timers' = timers \ {c}
    /\ hook' = [hook EXCEPT ![c] = next]
    /\ disconnects' = [disconnects EXCEPT ![c] = @ + 1]

\* A slip: unregisterConnection calls the hook without having found a record.
finalizeNotIdempotent(c) == unregisterConnection(c, registry, roomIndex, "detached")

\* The finalize callback of the pipeline, and the undo of a late registration:
\* heartbeat.stop, then an idempotent unregisterConnection nobody awaits.
finalize(c) ==
    IF c \in Held
    THEN unregisterConnection(c, registry, roomIndex, "detached")
    ELSE /\ timers' = timers \ {c}
         /\ UNCHANGED <<registry, roomIndex, hook, disconnects>>

\* disconnectLocal up to the hook's await: `disconnect` of the application or of
\* the re-authentication, and a revocation received from the bus, end up here.
\* Without a record `disconnect` only publishes, which changes nothing here.
disconnectLocal(c) ==
    /\ c \in Held
    /\ unregisterConnection(c, registry, roomIndex, "closing")
    /\ UNCHANGED <<requestVars, shutdownVars, connected>>

\* A slip: close$ is not fired once the hook has settled.
HookSettlesWithoutClose(c) ==
    /\ hook[c] \in {"closing", "detached"}
    /\ hook' = [hook EXCEPT ![c] = "settled"]
    /\ UNCHANGED <<requestVars, registry, roomIndex, timers, disconnects,
                   shutdownVars, connected>>

\* onDisconnect returns or rejects (a failure is caught).  disconnectLocal then
\* fires close$: the stream completes and its finalize finds no record.
HookSettles(c) ==
    /\ hook[c] \in {"closing", "detached"}
    /\ hook' = [hook EXCEPT ![c] = "settled"]
    /\ IF hook[c] = "closing" /\ phase[c] = "open"
       THEN Goto(c, "closed") /\ timers' = timers \ {c}
       ELSE UNCHANGED <<phase, timers>>
    /\ UNCHANGED <<requestRest, registry, roomIndex, disconnects,
                   shutdownVars, connected>>

-----------------------------------------------------------------------------
(* Registration, and the cap on a user's connections. *)

\* reduce((a, b) => a.connectedAt <= b.connectedAt ? a : b) over the user's
\* connections in insertion order: the first of those with the least timestamp.
IsOldest(v, S, at, pos) ==
    \A w \in S \ {v} : \/ at[v] < at[w]
                       \/ at[v] = at[w] /\ pos[v] < pos[w]

\* A slip: the cap counts from one too many.
OverLimitByOne(reg, u) == MaxPerUser > 0 /\ Cardinality(byUser(reg, u)) > MaxPerUser + 1

\* A slip: evicting at the limit instead of beyond it.
OverLimitAtLimit(reg, u) == MaxPerUser > 0 /\ Cardinality(byUser(reg, u)) >= MaxPerUser

OverLimit(reg, u) == MaxPerUser > 0 /\ Cardinality(byUser(reg, u)) > MaxPerUser

\* One turn of the loop of evictBeyondLimit, in the registration of c: evict and
\* await, or leave the loop, which resolves registerConnection.
evictBeyondLimit(c, reg, rm) ==
    LET mine == byUser(reg, UserOf[c]) IN
    IF OverLimit(reg, UserOf[c])
    THEN \E v \in mine :
            /\ IsOldest(v, mine, connectedAt', order')
            /\ unregisterConnection(v, reg, rm, "closing")
            /\ victim' = [victim EXCEPT ![c] = v]
            /\ registration' = [registration EXCEPT ![c] = "evicting"]
    ELSE /\ registry' = reg
         /\ roomIndex' = rm
         /\ victim' = [victim EXCEPT ![c] = None]
         /\ registration' = [registration EXCEPT ![c] = "pending"]
         /\ UNCHANGED <<timers, hook, disconnects>>

\* registerConnection's auto-joins: the user's room, and the tenant's if any.
joinOwnRooms(rm, c) ==
    LET withUser == join(rm, c, composeRoomId("USER", UserOf[c]))
    IN  IF TenantOf[c] = NoTenant
        THEN withUser
        ELSE join(withUser, c, composeRoomId("TENANT", TenantOf[c]))

\* The record's timestamp: the wall clock, monotonic or not.
Timestamp(c) ==
    \E t \in Stamps :
        /\ ClockMayStepBack \/ t >= now
        /\ now' = t
        /\ connectedAt' = [connectedAt EXCEPT ![c] = t]
        /\ order' = [order EXCEPT ![c] = 1 + Cardinality({d \in Conns : order[d] > 0})]

\* Nest subscribes to the Observable after shutdown began: it completes at once.
SubscribeLate(c) ==
    /\ phase[c] = "returned"
    /\ shuttingDown
    /\ Goto(c, "closed")
    /\ UNCHANGED <<requestRest, heldVars, shutdownVars, connected>>

\* A slip: a stream that is still open is shown to the client and not registered.
SubscribeForgetsRecord(c, stillOpen) ==
    /\ phase[c] = "returned"
    /\ ~shuttingDown
    /\ Goto(c, IF stillOpen THEN "open" ELSE "closed")
    /\ Timestamp(c)
    /\ registration' = [registration EXCEPT ![c] = "pending"]
    /\ UNCHANGED <<victim, heldVars, shutdownVars, connected>>

\* A slip: the stream does not look at the shutdown flag.
SubscribeUnchecked(c, stillOpen) ==
    /\ phase[c] = "returned"
    /\ Goto(c, IF stillOpen THEN "open" ELSE "closed")
    /\ Timestamp(c)
    /\ evictBeyondLimit(c, register(registry, c), joinOwnRooms(roomIndex, c))
    /\ UNCHANGED <<shutdownVars, connected>>

\* Nest subscribes: the pipeline is subscribed first, and its synchronous events
\* may already end the stream; the connection is registered either way.
Subscribe(c, stillOpen) ==
    /\ phase[c] = "returned"
    /\ ~shuttingDown
    /\ Goto(c, IF stillOpen THEN "open" ELSE "closed")
    /\ Timestamp(c)
    /\ evictBeyondLimit(c, register(registry, c), joinOwnRooms(roomIndex, c))
    /\ UNCHANGED <<shutdownVars, connected>>

\* The evicted connection is closed: the loop looks at the limit again.
EvictionSettles(c) ==
    /\ registration[c] = "evicting"
    /\ hook[victim[c]] = "settled"
    /\ UNCHANGED <<connectedAt, order, now>>
    /\ evictBeyondLimit(c, registry, roomIndex)
    /\ UNCHANGED <<phase, shutdownVars, connected>>

-----------------------------------------------------------------------------
(* onRegistered, the .then of registerConnection. *)

Activated(c, outcome) == registration' = [registration EXCEPT ![c] = outcome]

\* A slip: the closed stream is noticed and left registered.
UndoKeepsRecord(c) ==
    /\ registration[c] = "pending"
    /\ phase[c] # "open"
    /\ Activated(c, "done")
    /\ timers' = timers \ {c}
    /\ UNCHANGED <<phase, connectedAt, order, now, victim, registry, roomIndex,
                   hook, disconnects, shutdownVars, connected>>

\* The subscriber closed in the meantime: undo the registration.
UndoRegistration(c) ==
    /\ registration[c] = "pending"
    /\ phase[c] # "open"
    /\ Activated(c, "done")
    /\ finalize(c)
    /\ UNCHANGED <<phase, connectedAt, order, now, victim, shutdownVars, connected>>

\* A slip: neither the subscriber nor the record is looked at again.
ActivateUnchecked(c) ==
    /\ registration[c] = "pending"
    /\ Activated(c, "done")
    /\ connected' = connected \cup {c}
    /\ timers' = timers \cup {c}
    /\ UNCHANGED <<phase, connectedAt, order, now, victim, registry, roomIndex,
                   hook, disconnects, shutdownVars>>

\* onConnect, unless the record is gone, then the keepalive.
Activate(c) ==
    /\ registration[c] = "pending"
    /\ phase[c] = "open"
    /\ Activated(c, "done")
    /\ connected' = IF c \in Held THEN connected \cup {c} ELSE connected
    /\ timers' = timers \cup {c}
    /\ UNCHANGED <<phase, connectedAt, order, now, victim, registry, roomIndex,
                   hook, disconnects, shutdownVars>>

\* onConnect throws synchronously, out of fireHook and into the .catch of
\* activateConnection: onError, then subscriber.error, whose teardown finalizes.
ActivationThrows(c) ==
    /\ registration[c] = "pending"
    /\ phase[c] = "open"
    /\ c \in Held
    /\ "onConnect" \in MayThrow
    /\ connected' = connected \cup {c}
    /\ Activated(c, "done")
    /\ Goto(c, "errored")
    /\ finalize(c)
    /\ UNCHANGED <<connectedAt, order, now, victim, shutdownVars>>

\* The same with an onError that throws as well: subscriber.error is not reached
\* and the rejection is unhandled.
ActivationThrowsTwice(c) ==
    /\ registration[c] = "pending"
    /\ phase[c] = "open"
    /\ c \in Held
    /\ {"onConnect", "onError"} \subseteq MayThrow
    /\ connected' = connected \cup {c}
    /\ Activated(c, "failed")
    /\ UNCHANGED <<phase, connectedAt, order, now, victim, heldVars, shutdownVars>>

-----------------------------------------------------------------------------
(* While the stream is open. *)

\* The client goes away: Nest unsubscribes, finalize runs.
ClientCloses(c) ==
    /\ phase[c] = "open"
    /\ Goto(c, "closed")
    /\ finalize(c)
    /\ UNCHANGED <<requestRest, shutdownVars, connected>>

\* A write of the interval throws: the timer stops itself.
KeepaliveFails(c) ==
    /\ c \in timers
    /\ timers' = timers \ {c}
    /\ UNCHANGED <<requestVars, registry, roomIndex, hook, disconnects,
                   shutdownVars, connected>>

RoomsOnly == UNCHANGED <<requestVars, registry, timers, hook, disconnects,
                         shutdownVars, connected>>

\* A slip: a late join, as an onConnect hook may issue, is not checked.
joinRoomUnguarded(c, r) ==
    /\ phase[c] \in {"open", "closed"}
    /\ roomIndex' = join(roomIndex, c, r)
    /\ RoomsOnly

joinRoom(c, r) ==
    /\ c \in Held
    /\ roomIndex' = join(roomIndex, c, r)
    /\ RoomsOnly

leaveRoom(c, r) ==
    /\ c \in Held
    /\ roomIndex' = leave(roomIndex, c, r)
    /\ RoomsOnly

-----------------------------------------------------------------------------
(* Shutdown. *)

\* Nest closes the HTTP server between the two hooks, which waits for every
\* open response.
HttpServerClosed == \A c \in Conns : phase[c] # "open"

\* The application calls the two shutdown hooks once each.
Teardowns == 2

\* The flag, stopAll and the snapshot: beforeApplicationShutdown, and again
\* onApplicationShutdown once the HTTP server is closed.
BeginTeardown ==
    /\ \/ shutdown = "up"
       \/ shutdown = "torn" /\ passes < Teardowns /\ HttpServerClosed
    /\ shutdown' = "tearing"
    /\ passes' = passes + 1
    /\ timers' = {}
    /\ remaining' = Held
    /\ UNCHANGED <<requestVars, registry, roomIndex, hook, disconnects, awaited, connected>>

\* What the loop awaited has resolved.
LoopFree == awaited # None => hook[awaited] = "settled"

\* One turn of the loop, in the Map's insertion order: disconnectLocal, which
\* returns at once when the record is gone.
TeardownNext(c) ==
    /\ shutdown = "tearing"
    /\ LoopFree
    /\ c \in remaining
    /\ \A d \in remaining : order[c] <= order[d]
    /\ remaining' = remaining \ {c}
    /\ IF c \in Held
       THEN awaited' = c /\ unregisterConnection(c, registry, roomIndex, "closing")
       ELSE awaited' = None /\ UNCHANGED heldVars
    /\ UNCHANGED <<requestVars, shutdown, passes, connected>>

TeardownDone ==
    /\ shutdown = "tearing"
    /\ LoopFree
    /\ remaining = {}
    /\ shutdown' = "torn"
    /\ awaited' = None
    /\ UNCHANGED <<requestVars, heldVars, remaining, passes, connected>>

-----------------------------------------------------------------------------
Handshake(c) ==
    \/ Arrive(c)
    \/ handle(c)
    \/ Abandon(c)
    \/ SubscribeLate(c)
    \/ \E ok \in BOOLEAN : AuthSettles(c, ok) \/ OpenStreamSettles(c, ok) \/ Subscribe(c, ok)

OnRegistered(c) ==
    UndoRegistration(c) \/ Activate(c) \/ ActivationThrows(c) \/ ActivationThrowsTwice(c)

Next ==
    \/ \E c \in Conns :
        \/ Handshake(c)
        \/ OnRegistered(c)
        \/ EvictionSettles(c)
        \/ HookSettles(c)
        \/ disconnectLocal(c)
        \/ ClientCloses(c)
        \/ KeepaliveFails(c)
        \/ TeardownNext(c)
        \/ \E r \in AppRooms : joinRoom(c, r) \/ leaveRoom(c, r)
    \/ BeginTeardown
    \/ TeardownDone

Spec == Init /\ [][Next]_vars

-----------------------------------------------------------------------------
(* Safety. *)

\* The registries' indexes never disagree, whichever handlers interleave: a user
\* or tenant emit reaches exactly the held connections, and leaveAll finds every
\* membership (ConnectionRegistry, RoomRegistry).
IndexesAgree == ConnectionIndexesAgree(registry) /\ RoomIndexesAgree(roomIndex)

\* A room never holds a connection the instance no longer holds, although joins
\* come from hooks and from the application at any time (joinRoom, leaveAll).
RoomMembersHeld == MembersWithin(roomIndex, Held)

\* A keepalive interval only ever writes to an open response: activation, the
\* end of the stream, eviction and shutdown may come in any order
\* (onRegistered, finalize, stopAll).
TimersOnOpenStreams == \A c \in timers : phase[c] = "open"

\* The same with the type invariant, which bounds the calls of onDisconnect by one:
\* whoever ends a connection first, no timer and no second hook call is left behind
\* (finalize, disconnect).
TimersAccounted == TypeOK /\ TimersOnOpenStreams

\* The registry never holds more than maxConnectionsPerUser connections of one
\* user, not even while evictions await their hooks (evictBeyondLimit).
WithinLimit ==
    MaxPerUser > 0 => \A u \in Users : Cardinality(byUser(registry, u)) <= MaxPerUser

\* onDisconnect is called exactly once for each registered connection, when its
\* record goes: eviction, revocation, the client's leave, the undo of a late
\* registration and shutdown may race (unregisterConnection is idempotent).
DisconnectHookOnce ==
    \A c \in Conns :
        disconnects[c] = IF registration[c] # "none" /\ c \notin Held THEN 1 ELSE 0

\* Every open stream is known to somebody who will end it: it is registered, or
\* a disconnectLocal awaits its hook and closes it next (buildStream, disconnectLocal).
OpenStreamsAccounted ==
    \A c \in Conns : phase[c] = "open" => c \in Held \/ hook[c] = "closing"

\* A record outlives its stream only while its registration is still under way,
\* which then undoes it (onRegistered's guard on subscriber.closed).
HeldStreamsOpen ==
    \A c \in Held : phase[c] = "open" \/ registration[c] \in {"evicting", "pending"}

\* The teardown leaves no record behind, and the second one finds nothing:
\* a handshake that shutdown overtakes never registers (beforeApplicationShutdown,
\* refuseDuringShutdown, buildStream).
TeardownLeavesNone ==
    /\ shutdown = "torn" => Held = {}
    /\ shutdown = "tearing" => Held \subseteq remaining
    /\ passes = 2 => Held = {}

\* The strengthening that makes the invariants above inductive: which request
\* phases go with which registration state, hook state and teardown state.
PhasesConsistent ==
    /\ \A c \in Conns :
        /\ phase[c] \in Handshaking \cup {"refused"} => registration[c] = "none"
        /\ registration[c] = "none" => /\ c \notin Held
                                       /\ hook[c] = "none"
                                       /\ phase[c] \notin {"open", "errored"}
        /\ c \in Held => hook[c] = "none"
        /\ registration[c] \in {"none", "evicting", "pending"} => c \notin connected
    /\ shutdown = "up" => passes = 0

IInv ==
    /\ TypeOK
    /\ IndexesAgree
    /\ RoomMembersHeld
    /\ TimersOnOpenStreams
    /\ WithinLimit
    /\ DisconnectHookOnce
    /\ OpenStreamsAccounted
    /\ HeldStreamsOpen
    /\ TeardownLeavesNone
    /\ PhasesConsistent

-----------------------------------------------------------------------------
(* What a step may never do. *)

Evicts(c) == registration[c] # "evicting" /\ registration'[c] = "evicting"

\* An eviction takes the user's first connection by timestamp and insertion, and
\* leaves the user exactly at the limit: no step evicts more than the cap asks
\* for (evictBeyondLimit).
EvictsOldestDownToLimit ==
    [][\A c \in Conns : Evicts(c) =>
          LET left == byUser(registry', UserOf[c])
          IN  /\ Cardinality(left) = MaxPerUser
              /\ IsOldest(victim'[c], left, connectedAt', order')]_vars

\* onConnect is called at most once, for a stream that is open and held, and so
\* never after the connection's onDisconnect (onRegistered).
ConnectBeforeDisconnect ==
    [][\A c \in Conns : (registration[c] = "pending" /\ connected' # connected
                            /\ c \in connected') =>
          /\ c \notin connected
          /\ phase[c] = "open"
          /\ disconnects[c] = 0]_vars

-----------------------------------------------------------------------------
(* Liveness.  The event loop runs every microtask and every settled await, so    *)
(* the continuations are weakly fair; the hooks are the application's, and their *)
(* settling is an assumption of its own.                                         *)

ContinuationsRun ==
    /\ \A c \in Conns : /\ WF_vars(OnRegistered(c))
                        /\ WF_vars(EvictionSettles(c))
                        /\ WF_vars(TeardownNext(c))
    /\ WF_vars(TeardownDone)

HooksSettle == \A c \in Conns : WF_vars(HookSettles(c))

FairSpec == Spec /\ ContinuationsRun /\ HooksSettle

\* A disconnect, an eviction or a revocation ends the stream.
DisconnectedStreamsEnd ==
    \A c \in Conns : hook[c] = "closing" ~> phase[c] # "open"

\* A connection whose stream has ended does not stay registered.
EndedStreamsAreDropped ==
    \A c \in Conns : phase[c] \in Ended ~> c \notin Held

\* Once shutdown begins, every stream ends and none opens again.
ShutdownEndsAll == shuttingDown ~> [](\A c \in Conns : phase[c] # "open")

=============================================================================
