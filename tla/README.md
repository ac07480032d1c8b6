# A TLA+ model of nest-realtime

This directory models the server and client library in `src/src/` (`server/`, `websocket/`,
`react/`, `shared/`): TLA+ modules translated from the TypeScript source, TLC configurations that
model-check them on small instances, and theorems checked by TLAPS for every value of the
constants. `PROJECT.json` maps each definition to the lines it models.

## 1. The system

nest-realtime delivers server-to-client events over Server-Sent Events (SSE) and, optionally,
WebSocket. An application process ("instance") holds the open connections in memory; instances
share nothing but a pub/sub bus and, for offline users, a queue in Redis.

| Component | State | Operations | Talks to | What makes it correct |
|---|---|---|---|---|
| SSE subscription handler (`sse-subscription.handler.ts`) | one `Observable` per request, the `authenticated` WeakMap | guard, `handle`, `openStream`, `buildStream`, `onRegistered`, `finalize` | authenticator, offline queue, SSE transport, heartbeat, hooks | an open stream is registered or about to end; a late registration is undone; no event of the handshake gap is lost |
| SSE transport (`sse.transport.ts`) | `closeSignals`, `#shuttingDown`, the event subject | `registerConnection`, `unregisterConnection`, `disconnect`, emits, `joinRoom`, `beforeApplicationShutdown` | registries, bus, hooks, heartbeat | the cap holds; `onDisconnect` once; shutdown ends everything |
| Connection registry, room registry | a Map by id, two index Maps; rooms and their reverse index | `register`, `unregister`, `byUser`; `join`, `leave`, `leaveAll` | called by both transports | the indexes agree; no member without a record |
| Heartbeat service | a timer per connection | `start`, `stop`, `stopAll` | subscriber of each stream | writes only to open streams |
| Replay ring buffer | the last N events of each user | `append`, `since` | SSE transport, handler | a reconnecting client gets what it missed, in order |
| Offline queue and its delivery | per-user keys in Redis | append, retrieve, acknowledge | handler, transport | nothing undelivered is pruned |
| Event id generator | last timestamp, counter | `next` | transports | ids sort as they were issued |
| Bus subscriber, in-memory bus | origin id | publish, receive | transports | at most once, no echo, revocations reach the holder |
| Redis pub/sub | connection, readiness, subscriptions | connect, negotiate, subscribe, dispatch, mark up / down | Redis | never ready while deaf; every subscription settles |
| Re-authentication | timers, positive cache | cycle, revalidate, failure | transport, application | a revoked connection ends |
| WebSocket transport and gateway | sockets, records, rooms of the adapter | `registerSocket`, `unregisterSocket`, eviction | Socket.IO, registries | the same promises as SSE |
| Realtime service, composite transport | none | fan out, settle both | both transports | the outcome of a call says what became of it |
| Module composition | the options, as announced and as resolved | `forRoot`, `forRootAsync`, validation, defaults | Nest | what is wired, served and limited is what the options name |
| React SSE / WS clients, `usePresence` | socket or source, reconnect timer, attempts | connect, retry, give up, unmount | server | nothing leaks; the stream recovers or gives up |

Every process is one Node event loop. There is no parallelism inside an instance, but a handler
that awaits yields to every other handler, so a fact read before an `await` may be false after it.
The awaits that matter are the application's own code (authenticator, `onDisconnect`,
`revalidate`), Redis, and the framework between the return of a handler and the subscription to its
stream. The hard behaviours are therefore: registrations, evictions, revocations, client
departures and shutdown in any order; hooks that are slow, reject, or throw; a wall clock that is
used to order connections and to make ids; events emitted while a handshake is between two awaits;
a bus that loses messages. `PROJECT.json` lists each of them under `hazards`, at its line.

## 2. The modules

| Module | Models | Uses |
|---|---|---|
| `Registries` | `ConnectionRegistry`, `RoomRegistry`, `composeRoomId`, as pure operators | |
| `SseLifecycle` | the life of the SSE connections of one instance | `Registries` |
| `WsLifecycle` | the life of the WebSocket connections of one node: gateway and transport | `Registries` |
| `SseReplay` | the events of one user: ring, offline queue, handshake, stream | |
| `EventIds` | ids, keys and ranges as text | |
| `OfflineKeys` | the sorted set of one user under ids of several instances | `EventIds` |
| `EventDelivery` | the promise of an emit, whatever carries it (abstract) | |
| `PubSubFanout` | emits and revocations of several instances, both transports, bus and adapter | implements `EventDelivery` |
| `RedisPubSub` | the shared subscriber connection and its readiness | |
| `Reauthentication` | the cycles, their cache and what a refusal does | |
| `Composition` | registration of the two Nest modules | |
| `ReactClient` | `useRealtime` with its SSE and its WebSocket branch | |
| `SseLifecycleProofs` | what each registry operator preserves, its inductive invariant and theorems | `SseLifecycle`, TLAPS |
| `SseReplayProofs` | order, uniqueness and losses of what a client receives, what acknowledgements prune | `SseReplay`, TLAPS |
| `WsLifecycleProofs` | its inductive invariant and theorems | `WsLifecycle`, TLAPS |
| `PubSubFanoutProofs` | its inductive invariant, and the refinement of `EventDelivery` step by step | `PubSubFanout`, TLAPS |
| `RedisPubSubProofs` | its inductive invariant and theorems | `RedisPubSub`, TLAPS |
| `ReactClientProofs` | its inductive invariant, in one part for each branch, and theorems | `ReactClient`, TLAPS |
| `SequentialProofs` | the invariants of the registration, for any options; the texts of ids and keys and the sorted set, for any widths | `Composition`, `OfflineKeys`, TLAPS |
| `ReauthenticationProofs` | the bound on the time a refusal takes | `Reauthentication`, TLAPS |
| `MC...` | the constants of the instances TLC checks | the module of that name |

How they divide the system: `SseLifecycle` and `WsLifecycle` know connections and no events, and
drive the same registries. `SseReplay` knows the events of one user on one instance, and only as
much of a connection as decides what is captured, queued, written and received. `PubSubFanout`
composes the transports over several instances and knows of each emit whom it reached.
`OfflineKeys` goes below `SseReplay`: there a key is a number, here the string it is.
`RedisPubSub` is the connection under the bus of `PubSubFanout`, `Reauthentication` a caller of
`disconnect`.

In every module of the server an action is the code from one `await` (or callback entry) to the
next: Node runs it without interruption, whichever functions it calls.

### SseLifecycle and the code

| Code | Action |
|---|---|
| route guard -> `authenticateBeforeCommit` | `Arrive`, `AuthSettles` |
| `handle`: shutdown check, `authenticateRequest` unless the guard has done it | `handle`, `AuthSettles` |
| `openStream` (offline queue), second shutdown check | `OpenStreamSettles` |
| the framework drops, or subscribes to, the returned `Observable` | `Abandon`, `SubscribeLate`, `Subscribe` |
| `registerConnection`: record, rooms, `evictBeyondLimit` | `Subscribe`, then `EvictionSettles` for every turn of the loop |
| `onRegistered`: undo, or `onConnect` and keepalive; its `catch` | `UndoRegistration`, `Activate`, `ActivationThrows`, `ActivationThrowsTwice` |
| `finalize` of the pipeline | in `ClientCloses`, `HookSettles`, `UndoRegistration`, `ActivationThrows` |
| `disconnect` / a revocation from the bus -> `disconnectLocal` up to its await; after it | `disconnectLocal`; `HookSettles` |
| `joinRoom`, `leaveRoom` | `joinRoom`, `leaveRoom` |
| `beforeApplicationShutdown`, `onApplicationShutdown` | `BeginTeardown`, `TeardownNext`, `TeardownDone` |
| a heartbeat write that throws | `KeepaliveFails` |

The state is the code's: `registry` and `roomIndex` are the two services, `timers` the heartbeat's
Map, `shutdown` the `#shuttingDown` flag together with the position of the teardown's loop.
`phase`, `registration`, `hook`, `victim`, `remaining` and `awaited` are the program counters of
the asynchronous functions in flight; a `closeSignals` entry exists exactly while a record does and
is captured by the function that awaits, so `hook[c] = "closing"` stands for the captured signal.
`connected` and `disconnects` are history variables for the two hooks.

Abstractions, and why they are sound for the properties stated:

- A connection id is a model value, since `randomUUID` ids are never reused. Its user and tenant
  are constants, since the authenticator decides them before the connection has an id.
- Microtask order is over-approximated: a continuation that is ready may run at any later time, so
  every order the event loop can produce is among those checked.
- Events are in `SseReplay`, not in this module. `Subscribe` takes whether the synchronous part of the pipeline
  (replayed events, a subscriber that unsubscribes) already ended the stream.
- An absent Map key and an empty set are the same value.
- A socket that closes while the handshake awaits is only seen at `Abandon`: nothing in the handler
  looks at it earlier.
- External code is marked so in the map: the framework (`Abandon`, `ClientCloses`,
  `HttpServerClosed`, `Teardowns`). Between the two shutdown hooks it waits for the HTTP server to
  close, hence for the open responses.

### SseReplay and the code

| Code | Action |
|---|---|
| `emitToUser` up to its await: the id, ring and live streams, then the append when the user is offline here | `emitToUser` |
| `emitToTenant`, `emitToRoom`, `broadcast`: an id, the streams in reach, neither ring nor queue | `broadcast` |
| the same user's `emitToUser` on another instance, and the bus | `EmitElsewhere`, `RemoteAppendExecutes`, `BusDelivers`, `BusLoses` |
| `openStream` up to its await: the ring is captured, `retrieve` is called | `openStream` |
| `RedisOfflineQueue.append`, `retrieveSince`, `acknowledge` (two commands), the key's expiry, a failure of any | `AppendExecutes`, `RetrieveExecutes`, `AcknowledgeExecutes`, `RemoveExecutes`, `Expire`, `CommandFails` |
| `buildStream`: established, ring, queue, acknowledgement, registration; the same with a closed subscriber | `Subscribe`, `SubscribeClosed`, `Abandon` |
| `disconnectLocal` and `close$` after the hook | `disconnectLocal`, `StreamCloses` |
| the client's `EventSource`, the network, the process | `Receive`, `Drop`, `GhostEnds`, `Restart` |

`ring`, `captured`, `gap` are `buffers`, `replayEvents`, `queueEvents`. `commands` are the calls this
instance has made to Redis and not yet seen answered: ioredis keeps one connection and sends them
in order, so the next one to execute is the oldest, at any later time. `ghosts` are streams the
network has broken and the server still believes open: they keep the user "online" (line 242), so
nothing is queued for it. `wire` is what was written and not received; a broken stream loses it.

Abstractions:

- An event is its id. The ids of `EventIdGenerator` and the keys of `RedisOfflineQueue` are compared
  as numbers; when the two orders differ is the subject of `EventIds` and `OfflineKeys`.
- One user: the ring and the queue are per user, and users do not interact in them.
- A client is one tab, which reconnects with the id it received last, as `EventSource` does. A
  reloaded page is a new client. The framework numbers an event without an id from 1, below every
  event's id: `AutoId`.
- An eviction is a `disconnectLocal` at any moment; that the cap is kept is `SseLifecycle`'s.
- A broadcast of another instance delivers what a broadcast here does.
- Ids of several instances are drawn from one increasing counter. The generators are not
  coordinated; the specification disclaims any order between instances
  (`technical_specification.md` 18.6), and the order of a stream is stated for a lone instance only.
- `addressed`, `received`, `exposed`, `unqueued`, `pruned`, `written` are history variables.

### WsLifecycle and the code

The WebSocket side has the same registries and the same cap as SSE, and different awaits: the
sockets are closed first and synchronously, Socket.IO keeps rooms of its own, and it calls the
gateway back.

| Code | Action |
|---|---|
| the handshake middleware: shutdown check, authenticator, shutdown check | `Connects`, `authenticateHandshake` |
| `handleConnection` for a socket without the middleware's identity: it authenticates itself | `Connects`, `handleConnection` |
| `registerSocket`: record, three joins, mirrored rooms, `evictBeyondLimit`, `onConnect` | `beginRegistration` (in the two above), `JoinsDone`, then `EvictionContinues` and `EvictHookSettles` for each turn of the loop, `ConnectHookSettles` |
| the `catch` of `handleConnection`, for a join that rejects, a `disconnect` that throws in the eviction loop or a hook that rejects: the socket is closed | `RegistrationFails` (`JoinThrows`, `EvictionThrows`, `HookRejects`), the refusal in `handleConnection` |
| a closing socket: Socket.IO empties its rooms, `handleDisconnect`, `unregisterSocket` up to the hook | `socketCloses`, inside `ClientLeaves`, `disconnect`, `ServerClosesSocket` and the eviction |
| `joinRoom`, `leaveRoom` before and after the adapter's await | `RoomCall`, `RoomCallSettles` |
| `beforeApplicationShutdown`, the server's close | `beforeApplicationShutdown`, `ServerCloses`, `ServerClosesSocket` |

`link` is Socket.IO's view of a socket, `ioRooms` the rooms of its adapter, `roomIndex` the
library's `RoomRegistry`, which mirrors them. `registration` says at which await a
`handleConnection` is. `reported`, `evicted` and `leftMidway` are history variables. Abstractions:
the three awaited joins are one await, since nothing is looked at between them and a join on a closed
socket does nothing; hooks nobody awaits are their call; emits are in `PubSubFanout`. Where the
adapter throws (`AdapterMayThrow`), a `joinRoom` or `leaveRoom` it refuses has changed nothing, and a
`disconnect` it refuses has done no more than the local close, so neither has an action of its own;
in a registration the throw has consequences, and it is modelled there.

### EventIds, OfflineKeys and the code

| Code | Definition |
|---|---|
| `EventIdGenerator.next` | `next`, `IdText` |
| `lexKey`, `lexKeyNext`, `encodeMember` | the same names |
| the ranges of `retrieveSince` and `acknowledge` | `InRetrieveRange`, `InAcknowledgeRange` |
| `append`: ZADD and the trim by rank | `append`, `trim` |
| `retrieveSince` with its limit; `acknowledge` of the last id given | `retrieveSince`, `acknowledge` |

Everything here is an order of strings, so strings are sequences of characters, ordered as Redis
orders bytes. `Base`, `CounterWidth` and `MsWidth` are parameters (10, 6 and 16 in the code), so
that counters reach the end of their width in a small instance. Calls are atomic here, and the
instances read one clock; `SseReplay` has the calls that overlap or fail. That a generator keeps
increasing under a clock that steps back is not claimed by the code and not stated.

### EventDelivery, PubSubFanout and the code

`EventDelivery` is the promise: an event reaches connections of its audience, each at most once,
and none whose end has begun. `PubSubFanout` implements it.

| Code | Action |
|---|---|
| `RealtimeService.emit*`, `CompositeTransport.fanOut`, `SseTransport.emit*` with `tryAppend` and `tryPublish`, `WebSocketTransport.emit*`, up to the await | `Emit` |
| both answers, `reportDeliveryFailure`, rejection | `EmitSettles` |
| `disconnect` on the composite and both transports, up to the await; after it | `Revoke`, `HookSettles`, `RevokeSettles` |
| `RealtimePubSubSubscriber.handle` | `handle` in `BusDelivers` |
| Socket.IO's adapter on another node (external) | `AdapterDelivers` |
| a client or its network goes | `ClientLeaves` |

`onBus` and `onAdapter` are the copies under way: any one may be delivered next, or never, which is
its loss. A publish or an append that is refused may have been carried out nevertheless (the
answer was lost). `Init` chooses the Redis bus or the single-instance one.

Refinement mapping: `sent` is the target of each emit, `received` is `delivered`, `live` is `held`.
`Emit` maps to `Emit` (which writes to the local connections at once), `BusDelivers` and
`AdapterDelivers` to `Deliver` or a stutter (an echo, nobody left), `Revoke`, `handle` of a
revocation and `ClientLeaves` to `End`, the settlements to stutters. At-most-once is what makes it
hard: a connection of the sending instance must not get the copy that comes back, and with mode
"both" the two carriers must not reach the same connection.

Abstractions: an event is its number and its audience a constant set. `HasQueue` says only
whether an append is made; what the queue holds is `SseReplay`'s. The order in which instances see
events is free.

### RedisPubSub and the code

| Code | Action |
|---|---|
| `subscribe`: `ensureSubscriber`, `createSubscriber` | `subscribe` |
| the returned function: the last one out retires the client | `unsubscribe` |
| `negotiate` and `confirm` when the server answers | `Accepted`, `Refused` |
| the client's `ready` and `close` events | `Ready`, `Close` |
| the broken connection before anybody notices; the end of `QUIT` | `Breaks`, `QuitEnds` |
| `publisherSettled` and its deadline, `publish` on a lazy client | `PublisherConnects`, `PublisherCloses`, `Deadline`, `publish` |

`subInit`, `subscribed`, `retired` are the class's fields; `conn`, `pending` and `holds` are the
client and the server as far as the class can tell: a connection may be broken before it is
noticed, and what was asked on it is then resent or rejected. What a message does is in
`PubSubFanout`; parsing and the throttling of log lines are left out.

### Reauthentication and the code

| Code | Action |
|---|---|
| the interval, time passing | `Tick` |
| `runCycle`: both transports' connections, cache lookups | `runCycle`, `GoOn` in every step that ends a turn of the loop |
| `revalidate` resolves `true`; anything else or an exception | `Succeeds`; `handleFailure`, `HookThrows` |
| `revoke`: the disconnect resolves or rejects | `Disconnected`, `RevocationFails` |
| `onApplicationShutdown` | `onApplicationShutdown` |
| the application's sessions end, clients leave (external) | `CredentialsEnd`, `ClientLeaves` |

A timestamp is kept as its age, which is all the code compares; ages beyond every comparison are
one value, so the state space is finite without bounding time. The answer of a `revalidate` is
fixed when it is asked, which is what makes a late success stale. The notification of the
`'event'` policy is not awaited and has no effect on what is stated, and is left out.

### Composition and the code

| Code | Action |
|---|---|
| `forRoot` of either module: validation, defaults, wiring, routes | `composeForRoot` |
| `forRootAsync`: pattern checks, wiring and route before the options exist | `composeForRootAsync` |
| the factory's options: validated, transport and endpoint compared with what was declared | `resolve` |
| the factory gives nothing or rejects | `FactoryGivesNothing` |

An options block is a function on the fields it names, so that a field left out differs from one
set to `undefined`; numbers include `NaN`, with which every comparison is false. `build` and
`buildAsync` give the sets of providers of each mode, and `Injected` (which belongs to the
property, not to the model) what each constructor asks for.

### ReactClient and the code

| Code | Action |
|---|---|
| `useRealtime`'s choice; the effects and cleanups of a commit | `Commit`, `Unmount` |
| `reconnect` of either hook, also one kept past an unmount or a change of branch | `reconnect` |
| `useRealtimeSse`: `connect`, `onopen`, `onerror`, the retry timer | `connectSse` (in several), `StreamOpens`, `StreamFails`, `TimerFires` |
| `useRealtimeWs`: `connect` up to the import, the rest of it | `connectWs` (in several), `ImportSettles` |
| the socket's `connect` and `disconnect` events | `SocketConnects`, `SocketDrops` |
| the network (external) | `ServerFails`, `ServerReturns` |

Delays are left out: a timer is armed, held by `timerRef` or not, and fires at any later time.
`given` says of which branches a render has handed out a `reconnect`: it closes over that render's
options, and the application may call it at any later time. `strays`, `extra` and `late` are history
variables. The events a component shows are not modelled.

## 3. What is checked

| Run | Instance | Properties |
|---|---|---|
| `sse_cap` | 3 connections of one user, cap 1, hooks that may throw, a clock with two readings that may step back | `TimersAccounted`, `OpenStreamsAccounted`, `DisconnectHookOnce`, `TeardownLeavesNone`, `WithinLimit`, `ConnectBeforeDisconnect`, `EvictsOldestDownToLimit` |
| `sse_live` | 2 connections of one user, one with a tenant, an application room, cap 1, fair | `RoomMembersHeld`, `DisconnectedStreamsEnd`, `EndedStreamsAreDropped`, `ShutdownEndsAll` |
| `replay_lone` | 1 tab, 3 events, ring of 2, queue, a restart, broadcasts, `connection:established` | `DeliveredInOrder`, `IInv`, `LossesExplained`, `ReplayComplete` |
| `replay_elsewhere` | 1 tab, 3 events, another instance, ring of 2, queue of 2 giving 1 at a time, failures, expiry | `PrunedWereCovered` |
| `ws` | 2 sockets of one user, cap 1, one with a tenant, one that skips the middleware and is moved between rooms, two clock readings, hooks that reject, an adapter that throws, fair | `SocketsAccounted`, `CapHolds`, `RoomsAccounted`, `EvictsOldestBeyondLimit`, `RegistrationsEnd`, `ShutdownClosesAll` |
| `fanout` | 2 instances, a stream on one and a socket on the other, both of one user, 2 calls, either bus, Socket.IO attached on one instance | `OutcomesTruthful`, `RevocationsAccounted`, `ImplementsDelivery` |
| `keys` | 2 instances, base 2, counters of two digits, 5 events in 2 milliseconds, a set of 2, 1 retrieved at a time | `IdsSound`, `RangesExact`, `RemovalsJustified` |
| `redis` | 2 callers, 2 clients one after the other, 2 breaks, 1 refusal, fair | `ClientsAccounted`, `ReadyMeansHearing`, `SubscribeSettles`, `ReadyInTheEnd` |
| `reauth` | a stream and a socket, interval 2, cache 3, cycles of up to 2 ticks, fair | `RefusalsTakeEffect`, `RevokedEnds` |
| `composition` | both modules, both ways, every mode, options at and beyond the ends of their ranges | `ProvidersResolve`, `WiredAlike`, `OptionsInForce` |
| `react` | one component, without a budget or with one of 2, 2 imports under way, a `reconnect` that may come after the branch was left, fair | `ConnectionsAccounted`, `ConnectedExplained`, `StreamRecovers` |

Properties that end in "Accounted", "Sound", "Explained" or "Alike" are conjunctions of the
type invariant and named parts, each stated and commented on its own in the module.

What some of them show:

- `LossesExplained`: a client misses an event only if it was emitted while one of its handshakes
  was under way, was not queued because some stream counted as open or a restart cut its append
  off, or was pruned by an acknowledgement for another stream. Reconnecting as such loses nothing.
- `ReplayComplete`: a client whose last event is still in the ring is replayed all since then.
- `PrunedWereCovered`: whatever another instance emits below the last id given meanwhile, an
  acknowledgement never prunes beyond what was written to an open stream.
- `CapHolds` against `WithinLimit`: SSE never exceeds the cap, WebSocket exceeds it by the
  records of registrations that have not left their eviction loop, and of those that failed after
  their socket had closed: without the last part TLC finds the user above the cap with nobody in the
  loop.
- `StreamsAccounted`: the only stream or timer of a branch that was left is one that a kept
  `reconnect` opened; `SocketsAccounted` says the same of sockets, next to overtaken imports.
- `ReadyMeansHearing`: there are two ways to be ready while deaf: a break nobody has noticed, and
  a confirmation that comes on a client that was left meanwhile.
- `RefusalsTakeEffect`: the delay between the end of the credentials and the disconnect is at
  most the cache's time, an interval and the length of a cycle, and this bound is reached. Without
  a cache it is an interval and the length of a cycle: a cycle that begins in the tick of the
  refusal may have asked already (`Escapes`).

### Bounds

`SseLifecycle`: with three connections of one user at a cap of one, a registration that awaits an
eviction meets a second that awaits another, and the evicted connection may itself be registering;
a fourth adds another registration in the same positions. Two readings of the clock give equal,
increasing and decreasing timestamps. `Teardowns` is not a bound: the framework calls the two
shutdown hooks once each. Symmetry (`Alike`) is used where all connections have the same user and
tenant, and never with liveness.

`SseReplay`: three events are enough to have one received, one missed and one that moves
Last-Event-ID past it, and to overflow a ring of two and a queue of two. A ghost of the same tab
plays the part of a second tab that keeps the user online or has the queue pruned. One restart
empties the ring while the queue survives. The line of commands has no bound: every event and
every handshake adds a few.

`WsLifecycle`: two sockets meet in every pair of awaits. A third would add a second eviction in one
loop, which the first loop's turns (a victim with a record and no socket, then another) already
take. `MaxPending` of two lets a join and a leave of one room overlap with the socket's end.

`PubSubFanout`: two calls are an emit and an emit, an emit and a revocation, or two revocations, in
every order, which is all that interferes: emits do not read each other's state. Two instances
give a sender and a receiver; a third receives as the second does.

`OfflineKeys`: counters of two binary digits end at 3, so five events pass the width, reach the
carry of `lexKeyNext`, and overflow the set of two.

`RedisPubSub`: two clients are one that is left and one that replaces it; two breaks are one
in a negotiation and one after it, or two in a row.

`Reauthentication`: `MaxDuration` equal to the interval makes two cycles overlap; the cache
outlives the interval, or entries would never be hit. `MaxDuration` bounds the ticks a cycle
takes: it is the authenticator's and the hooks' time, which the code does not bound.

`ReactClient`: two sources are enough, since `StreamsAccounted` shows one at most alive. Two
sockets are one that is held and a stray one; an import that settles while both are alive opens no
third. `MaxCounted` is the largest number of attempts that is told apart.

### Deadlock

Deadlock is checked in `reauth` and `react`, whose systems never stop. In the others each
connection lives once, the events and calls are used up, or the application has started: the system
may stop, and the configurations say so.

### Fairness

- `sse_live`: a promise continuation that is ready runs, because the event loop drains its
  microtasks (`ContinuationsRun`), and the application's `onDisconnect` settles (`HooksSettle`).
  The code does not ensure the second; it is stated apart (`README.md:358` calls the hooks
  fire-and-forget, but `disconnectLocal` awaits `onDisconnect` before it closes the stream, so a
  hook that hangs keeps a revoked stream open).
- `ws`: every settled await runs, hooks and the authenticator of `handleConnection` answer, and
  Socket.IO closes what it holds when its server closes. A throw or a rejection is never obliged to
  come (`RegistrationGoesOn` leaves it out): the loop has to end without one.
- `redis`: the server answers a connected client, a client that keeps trying is let in, a broken
  connection is noticed, timers fire. Nothing is asked of the publishing client: `Deadline` is why
  a boot does not wait for it.
- `reauth`: time passes, timers fire, the authenticator answers within `MaxDuration`, and a
  disconnect that is tried again and again succeeds once (strong fairness: each single one may
  fail).
- `react`: timers fire, and the browser opens a stream to a server that answers.

Requests, client departures, disconnects, breaks, commits and shutdown are not fair: they need not
happen.

### Where the repository says otherwise

`replay_gap` checks a statement of the repository that TLC finds violated: the queue gives "no
event loss" guarantees (`technical_specification.md:2524`). An event emitted between the retrieval
and the registration reaches no stream, and the next live event moves Last-Event-ID past it.

The models contain more, which have no run of their own; a property above names or excludes each.

Server, SSE:

- A teardown resolves while a stream whose disconnect awaits its hook is open: it has no record
  any more, so the teardown neither sees nor awaits it (`sse.transport.ts:113`; line 99 says the
  streams are ended before the HTTP server closes).
- A synchronous throw of `onConnect` ends the stream (`sse-subscription.handler.ts:439`; line 433
  says it is logged and swallowed).
- The queue is acknowledged when its events are written, and what the network loses after that is
  gone (`offline-queue-delivery.service.ts:52`: never lost).
- `connection:established` has no id, the framework gives it one, and a client that drops after it
  is replayed nothing from the ring (`technical_specification.md:1158`); a broadcast, a tenant
  event or a room event received last has the same effect (`technical_specification.md:265`).
- After the wall clock was set back the connection being registered is the "oldest" and is evicted
  (`CHANGELOG.md:897`: always admitted).
- At the retrieval limit the newest events are left out, since `zrangebylex` lists the smallest
  first (`offline-queue-delivery.service.ts:85`: the older ones).

Server, elsewhere:

- WebSocket: the own handler of an evicted socket that is open unregisters it first, so `onDisconnect` is told
  CLIENT_DISCONNECT and never the eviction (`websocket.transport.ts:346`; `README.md:880`).
- WebSocket: a fan-out that throws during an eviction ends the loop (`websocket.transport.ts:320`
  to 331, awaited at 346). The `catch` of `handleConnection` then closes the socket, but a socket
  that had left while it authenticated itself is closed already and its record stays: the user
  remains above `maxConnectionsPerUser`, with nobody evicting, until its next registration.
- Ids repeat after the wall clock stepped back and caught up: only the last millisecond is
  remembered.
- Options: `NaN` passes every range check; `maxConnectionsPerUser: undefined` disables the cap,
  while the field left out means 5; an SSE endpoint that is explicitly `undefined` throws a
  TypeError in `forRoot` and takes the bound default in `forRootAsync`.
- Redis: a client that was left still dispatches until its QUIT ends, so a message may come twice
  to a handler that subscribed anew; a SUBSCRIBE answered on it marks the instance ready, or
  unready, for the other.
- Re-authentication: a cache time not above the interval never hits; a `revalidate` that resolves
  to `undefined` counts as a success (`?? true`), though the comment asks for `true`; a hook that
  throws at once skips the disconnect; cache entries of connections that left stay until shutdown.

Client:

- SSE: the first retry waits twice `reconnectInitialMs`; a change of options keeps attempts and
  delay, so an exhausted budget gives up at the first error; giving up leaves an armed timer, which
  tries once more (`OneTryAfterGivingUp`); `connected` stays true across `reconnect()`.
- WebSocket: an import that was overtaken opens a socket nobody holds, which keeps its listeners
  and sets `connected` (`strays`); an `emit` before the import resolves is dropped.
- Both: a `reconnect` that is called after the unmount, or after the other branch was enabled, looks
  at the options of its own render only, and opens an `EventSource` (`use-realtime-sse.ts:183`, 283
  to 288) or a socket (`use-realtime-ws.ts:135`, 189 to 191) that no cleanup closes (`late`,
  `strays`).
- `usePresence` applies only the last event of a render, and replays the other branch's last event
  when the transport is switched.

## 4. What is proved

`SseLifecycleProofs` proves, for all sets of connections, users, tenants and rooms, all caps, all
clocks and all choices of throwing hooks, that the safety properties of `sse_cap` and
`RoomMembersHeld` hold. The assumptions are `RegistriesAssumption` (each connection has a user and
perhaps a tenant) and `LifecycleAssumption` (finitely many connections; the cap and the clock
readings are natural numbers).

`Invariance` proves `IInv`, the conjunction of the properties with `PhasesConsistent`, that the
registries' indexes agree and that a held stream is open. The properties alone are not inductive:
that a teardown leaves no record needs that nobody registers after it (a connection registers only
from the phase "returned", which has no registration yet); that the hook is called once needs that
a held connection has no hook call pending. `PhasesConsistent` says which request phases,
registration states and hook states go together. The argument has one lemma per kind of step. A
step changes the registries through `unregisterConnection` or `evictBeyondLimit`, and two lemmas
(`RecordGoes`, `EvictFact`) say what these leave: the indexes agree, the members are held, the cap
holds. The cardinality argument is `RegisterThenEvict`: a registry within the cap exceeds it by one
at most after a registration, so one eviction restores it exactly. `EvictionExact` uses it to show
that an eviction never takes one connection more than needed, and `ConnectOrdered` proves the order
of the two hooks.

`SseReplayProofs` proves, for any number of clients, any ring size, any limits of the queue, with
or without the queue, broadcasts and `connection:established`, with failures and restarts, that
what is under way to a client is in id order, above its Last-Event-ID, and never twice on a stream
(`InOrderAlone`). The assumptions are `ReplayAssumption` and `~Elsewhere`: events of another
instance arrive in any order, so the theorem does not hold with them, and the repository does not
claim it.

The invariant (`Invariance` proves `IInv`) is needed because a handshake writes two lists that were
read at two moments from two stores. Nothing local says that the queue's list comes after the
ring's: the queue may well hold an event older than one in the ring. The reason is `RingIsRecent`:
the ring holds the user's latest events without a hole, so that when it holds Last-Event-ID, what
is captured is everything addressed to the user above it. So every event above Last-Event-ID is
captured, or newer than all that is captured (the last conjunct of `HandshakeInOrder`), and the
queue, which only holds events addressed to the user, adds nothing else (`MissingFact`). The
lemmas are about the operators first (`AppendFact`, `TailRecent`, `SinceFact`, `MissingFact`,
`ComingFirst`), then about the line of commands (`Issued`, `Executed`, `CommandsKept`) and one
client (`ClientKept`, `ClientEnds`, `StreamOnly`, `DeliverFact`), then one per kind of step.

`ReplayCompleteAlone` proves `ReplayComplete` from `RingIsRecent`: on a lone instance a handshake
whose Last-Event-ID is in the ring captures all the user's events since. With another instance the
ring may receive an older event after a newer one, and `since` then misses it.

`LossesExplainedAlone` proves `LossesExplained` under two hypotheses: `~Elsewhere`, and
`HoldsEverything` (Redis answers, the key does not expire, and neither the queue's cap nor the
limit of a retrieval is reached), which the property is about. The ring's size, the number of
clients, ghosts, broadcasts, restarts and whether there is a queue at all are free. The property
speaks of what clients received; its invariant, `LossInv`, must say why nothing else can get lost on
the way, and does so along the event's route. `StoredUnlessExcused`: an event that is not excused
is in the queue or in the line of commands. `AppendedBehind`: when a retrieval is ahead of an append
in the line, that append's event was emitted during the handshake, so when the retrieval is
executed everything else is in the queue already. `HandshakeComplete`: hence a handshake that has
its answer holds all that its client lacks. `NothingOvertaken`: an open stream has overtaken no
event; a stream that broke may have, but then the client's Last-Event-ID is below what was
overtaken, and its next handshake asks for it. The last part is where the property would fail if a
client's Last-Event-ID moved by anything but what it received: `AsksForReceived` says that it is an
event it received, nothing yet, or the framework's own id. TLC checked `LossInv` on the instance of
`replay_lone` and on one with two clients before it was proved.

`AcknowledgedWereWritten` proves `PrunedWereCovered` from `ReplayAssumption` alone, hence with other
instances emitting to the queue and the bus in any order. Its invariant `PruneInv` (checked by TLC on
the instances of both passing runs first) extends the property to the line of commands: what an
acknowledgement or a removal on its way to Redis will prune is covered already. It is inductive for
three reasons: `Subscribe` writes the queue's events before it issues the acknowledgement, a removal
names only ids up to the acknowledged one however late it is computed, and what was written stays
written, across restarts too, which only empty the line.

`WsLifecycleProofs` proves the four safety properties of the `ws` run for all sockets, users,
tenants, rooms, caps and clocks. `WsAssumption` says besides that the application does not join or
leave a socket's own rooms by hand (their names have prefixes the library joins itself): without it
a `leaveRoom` of such a room during the awaited joins leaves registry and adapter apart for good.
`IInv` is `SettledWithinCap`, that the registry's indexes agree, and `Consistent(c)` for each socket, in
three parts: which registration states go with which record and hook calls
(`RegistrationConsistent`, `RecordConsistent`), and that the adapter is in a room as the last room
call under way says or, without one, as `RoomRegistry` says (`RoomsConsistent`). The last is what
makes the room property inductive: the two are changed on two sides of an await, in the order of the
calls. `SettledWithinCap` says that the records whose registrations left the loop in good order are
within the cap. The step in which one leaves the loop finds all records of the user within it, and
no other step makes a record settled: one that goes, or whose registration fails, only lowers the
count. `CapHolds` follows by counting the other records; it says the same, but with two counts that
change together in most steps.

`PubSubFanoutProofs` proves for all instances, connections, modes and targets that `PubSubFanout`
implements `EventDelivery`, and the two invariants of the `fanout` run. The refinement has one lemma
per action, which says to which abstract action or stutter it maps. The invariant it needs is that
every copy under way belongs to a call that was made, that its sender's own connections have had
theirs, and that of the two carriers only one serves a connection (`FanoutAssumption` says so of
the constants: a connection's transport is wired, and `"none"` is no target). So a copy that
arrives finds a connection that has not received the event. The proof also showed that `Answers`
was written with guards that overlapped, which TLC resolves in their order and TLA+ does not; it is
an `IF` now.

`RedisPubSubProofs` proves `OneClientInUse` and `SubscribedIsHeard` for any callers and clients and
any breaks. The invariant says of each client which of its fields go together
(`ClientConsistent`), that the current one is the one created last, if it was not retired
(`CurrentConsistent`), and how readiness follows from what the server holds
(`SubscribedConsistent`): between the SUBSCRIBE and its confirmation the server holds the
subscription and the class does not say so yet, and never the other way round.

`ReactClientProofs` proves `NothingOutlives` and `ShownIsTrue` for any budget and any number of
sources, sockets and imports (`ReactAssumption`: one source at least). For the SSE branch the
invariant adds that `timerRef` holds whatever timer is armed, and that once an extra source was
opened there is no timer left and no budget to arm one. For the WebSocket branch it adds that an
import nothing has overtaken is the last one under way, and that while one is under way the ref
holds nothing or a stray socket: hence the socket it opens becomes the only one of its own. A
`reconnect` kept past its branch makes an import that is overtaken from the start, and a stream that
is `late` until the branch returns.

`ReauthenticationProofs` proves `RefusalTakesEffect` for any connections, interval, cache time and
length of a cycle, with cycles that overlap. Nothing in the state says that a refused connection
will be examined in time; the invariant does. What the cache, or an answer under way, says in favour
of a refused connection was asked before the refusal and is at least as old (`EntriesOld`,
`AnswersOld`). Hence a cycle that begins once the entries have expired does not pass it over, and
`Examined` says that when the timer has fired since, some cycle that began no later than the first
such moment has the connection ahead of it, without an answer that accepts it. It keeps it until it
has dealt with it, and no cycle is older than `MaxDuration`. The attempt with a cache time of zero
failed: the bound was one tick short there, and `Escapes` corrects it.

`SequentialProofs` holds the proofs of two components whose operations are calls that nothing
interleaves with. They share no state. `Composition` names its specification `AppSpec`, so that one
module can extend both.

Of `Composition` it proves the three invariants of `composition` for all paths and all options
blocks (`CompositionAssumption`: `Undefined` is no path and no number, `NaN` is no integer, and a
block's fields other than the endpoint hold integers, `NaN` or `Undefined`). TLC enumerates the
modes and ways completely but only some numbers and paths; the theorems hold for each. The
invariant's part that the properties lack is `WiringFollows`: an asynchronous registration is wired
by what it declares, before there are options, and `resolve` accepts only options that agree with
it. `LimitsFact` is the argument about the numbers: what `validateOptions` lets through, merged
with the defaults field by field (a field set to undefined stays so), is what the readers take.

Of `OfflineKeys` it proves `IdsSound`, `RangesExact` and `RemovalsJustified` for any base, widths,
cap, limit, clock and number of instances. `OfflineKeysAssumption` is what the code relies on and
does not check: the milliseconds in use have equally many digits, and the queue's padding is wide
enough for the one after the last. The lower half of the proof is about text. The value of a
recursive function at every number is an induction, done here by a least counterexample
(`LeastFact`, from the well-foundedness of `<`): `PowerFact` gives the powers of the base their
equations, `WidthFact` says that a number has a width, and `TextOrder` that two numbers written with equally many
digits compare as their texts do. `KeyOrder` and `MemberOrder` carry that to ids, keys and members,
and `NextKeyFact` says that no key lies between that of an id and its `lexKeyNext`, at the carry
too. That `LexLess` is a strict total order (`LexTransitive`, `LexTotal`) is what makes ranks count
what they should: `LowRanks` and `HighRanks` bound what a cut at a rank leaves below it and above it.
The upper half is the invariant: no id is ahead of the clock or of what its instance drew last
(`IdsBehind`), ids follow the order of the emits (`IdsOrdered`), and `BatchFirst`, without which an
acknowledgement could prune an event that was appended after the retrieval: an event that was not
given to the client is no newer than its `Last-Event-ID` or newer than all that were given. Ids that two instances drew in one
millisecond are not comparable, and nothing is proved of their order.

### What is only model-checked

Every liveness property: liveness rests on fairness and `ENABLED`, which the prover does not
handle.

None of the modules uses a RECURSIVE operator.

## 5. What is not modelled

- Text without state: header, cookie, handshake and address parsing, the SSE wire encoding,
  log lines and their throttling.
- Lengths of time: the heartbeat's interval, reconnection delays and their doubling.
- The Socket.IO adapter's set-up: options of a third-party server, installed once at boot.
- `joinRoom` and `leaveRoom` of the composite transport, which settle both sides as `disconnect`
  does, and of which one side has nothing to do.
- The events a React component shows, hence `usePresence`, which folds them.
- The notification of re-authentication's `'event'` policy, which nothing waits for.
- Release scripts and the benchmark: they run over files and are no part of the library.

## 6. What is left

A theorem about the order of a stream with several instances would need an order of their ids that
the repository disclaims.
