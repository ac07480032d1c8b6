----------------------------- MODULE Composition -----------------------------
(***************************************************************************)
(* How an application registers the library: BymaxRealtimeModule for SSE,  *)
(* BymaxRealtimeWebSocketModule for 'websocket' and 'both', each at once   *)
(* (forRoot) or with options that a factory gives later (forRootAsync),    *)
(* when the controllers and the providers are fixed already.               *)
(*                                                                         *)
(* A path is the sequence of its leading slashes and the rest.  An options *)
(* block is a function on the fields it names, so that a field left out    *)
(* and a field set to undefined are told apart.                            *)
(***************************************************************************)
EXTENDS Integers, Sequences

CONSTANTS
    Undefined, NaN,  \* the two values of JavaScript the numbers are told from
    Paths,           \* the endpoint paths an application may write
    SseBlocks        \* the options.sse blocks an application may write

Modes == {"sse", "websocket", "both"}
EntryPoints == {"BymaxRealtimeModule", "BymaxRealtimeWebSocketModule"}
Patterns == {"useFactory", "useClass", "useExisting"}

\* What an application's options can be; a transport or an authenticator may be wrong.
OptionSets ==
    [transport : Modes \cup {"other"}, authenticator : {"valid", "missing", "malformed"},
     sse : SseBlocks]

AsyncOptions ==
    [transport : Modes, sseEndpoint : Paths \cup {Undefined}, patterns : SUBSET Patterns]

VARIABLES
    phase,   \* of the application's start
    entry,   \* the module it imports
    way,     \* forRoot or forRootAsync
    declared,\* the registration of forRootAsync
    wired,   \* the providers and the SSE routes of the dynamic module
    options  \* the value of REALTIME_OPTIONS_TOKEN

appVars == <<phase, entry, way, declared, wired, options>>

-----------------------------------------------------------------------------
(* Options. *)

\* o?.[field]
Field(o, f) == IF f \in DOMAIN o THEN o[f] ELSE Undefined

\* x ?? y
OrElse(x, y) == IF x = Undefined THEN y ELSE x

\* x < y, of numbers: NaN compares with nothing.
Less(x, y) == x # NaN /\ y # NaN /\ x < y

normalizeEndpointPath(path) == IF Head(path) = "/" THEN Tail(path) ELSE path

DEFAULT_SSE ==
    [endpoint |-> <<"/", "realtime/sse">>, heartbeatMs |-> 30000, replayBufferSize |-> 100,
     maxConnectionsPerUser |-> 5]

DEFAULT_ASYNC_SSE_ENDPOINT == <<"/", "events">>

\* A number may be NaN, and any field may be set to undefined.
ASSUME CompositionAssumption ==
    /\ Undefined # NaN /\ Undefined \notin Int /\ NaN \notin Int
    /\ Undefined \notin Paths \cup {DEFAULT_ASYNC_SSE_ENDPOINT}
    /\ \A b \in SseBlocks :
          /\ DOMAIN b \subseteq DOMAIN DEFAULT_SSE
          /\ \A f \in DOMAIN b \ {"endpoint"} : b[f] \in Int \cup {NaN, Undefined}

HEARTBEAT_MIN_MS == 5000
HEARTBEAT_MAX_MS == 90000

\* A slip: NaN is below nothing and above nothing.
validHeartbeatUnlessOutside(ms) ==
    ms # Undefined => ~Less(ms, HEARTBEAT_MIN_MS) /\ ~Less(HEARTBEAT_MAX_MS, ms)

validHeartbeat(ms) ==
    ms # Undefined => ms # NaN /\ ms \in HEARTBEAT_MIN_MS..HEARTBEAT_MAX_MS

NotNegative(n) == n # Undefined => ~Less(n, 0)

validateOptions(o) ==
    /\ o.transport \in Modes
    /\ o.authenticator = "valid"
    /\ validHeartbeat(Field(o.sse, "heartbeatMs"))
    /\ NotNegative(Field(o.sse, "replayBufferSize"))
    /\ NotNegative(Field(o.sse, "maxConnectionsPerUser"))

\* Spreading the block over the defaults: a field set to undefined stays undefined.
applyDefaults(o) ==
    [o EXCEPT !.sse = [f \in DOMAIN DEFAULT_SSE |->
                          IF f \in DOMAIN o.sse THEN o.sse[f] ELSE DEFAULT_SSE[f]]]

-----------------------------------------------------------------------------
(* Wirings. *)

SHARED_SERVICES ==
    {"ConnectionRegistry", "RoomRegistry", "EventIdGenerator", "EventReplayBuffer",
     "HeartbeatService", "RealtimeService", "ReauthenticationService",
     "OfflineQueueDeliveryService"}

\* The tokens that both ways provide from the options.
CommonTokens ==
    {"OPTIONS", "INSTANCE_ID", "AUTHENTICATOR", "PUBSUB", "HOOKS", "OFFLINE_QUEUE", "PRESENCE"}

modes(module) == IF module = "BymaxRealtimeModule" THEN {"sse"} ELSE {"websocket", "both"}

\* sseWiring and webSocketWiring, build: providers and gateways of a mode, and the
\* class behind REALTIME_TRANSPORT_TOKEN.
build(mode) ==
    CASE mode = "sse" ->
           [providers |-> {"SseTransport", "SseSubscriptionHandler", "RealtimePubSubSubscriber"},
            transport |-> "SseTransport"]
      [] mode = "websocket" ->
           [providers |-> {"WebSocketTransport", "RealtimeGateway"},
            transport |-> "WebSocketTransport"]
      [] mode = "both" ->
           [providers |-> {"SseTransport", "WebSocketTransport", "CompositeTransport",
                           "SseSubscriptionHandler", "RealtimePubSubSubscriber",
                           "RealtimeGateway"},
            transport |-> "CompositeTransport"]

\* A slip: Socket.IO is taken for the whole of 'both'.
buildAsyncOneTransport(mode) ==
    IF mode = "both"
    THEN [providers |-> {"CompositeTransport", "WebSocketTransport", "RealtimeGateway",
                         "SseSubscriptionHandler", "RealtimePubSubSubscriber"},
          transport |-> "CompositeTransport"]
    ELSE build(mode)

\* The same two, buildAsync: told the mode only.
buildAsync(mode) ==
    CASE mode = "websocket" ->
           [providers |-> {"WebSocketTransport", "RealtimeGateway"},
            transport |-> "WebSocketTransport"]
      [] mode = "sse" ->
           [providers |-> {"SseTransport", "SseSubscriptionHandler", "RealtimePubSubSubscriber"},
            transport |-> "SseTransport"]
      [] mode = "both" ->
           [providers |-> {"SseTransport", "SseSubscriptionHandler", "WebSocketTransport",
                           "CompositeTransport", "RealtimeGateway", "RealtimePubSubSubscriber"},
            transport |-> "CompositeTransport"]

\* The dynamic module: createSseController binds each endpoint, normalized.
DynamicModule(wiring, endpoints) ==
    [providers |-> wiring.providers \cup SHARED_SERVICES \cup CommonTokens,
     transport |-> wiring.transport,
     routes    |-> {normalizeEndpointPath(e) : e \in endpoints}]

NoModule == [providers |-> {}, transport |-> "none", routes |-> {}]
NoOptions == [transport |-> "other", authenticator |-> "missing", sse |-> <<>>]
NotDeclared == [transport |-> "sse", sseEndpoint |-> Undefined, patterns |-> {}]

-----------------------------------------------------------------------------
AppInit ==
    /\ phase = "start"
    /\ entry \in EntryPoints
    /\ way = "none"
    /\ declared = NotDeclared
    /\ wired = NoModule
    /\ options = NoOptions

Fails == phase' = "failed" /\ UNCHANGED <<wired, options>>

\* composeForRoot.  An endpoint set to undefined has no text to normalize: a TypeError.
composeForRoot(o) ==
    LET resolved == applyDefaults(o)
        carriesSse == resolved.transport # "websocket"
    IN  /\ phase = "start"
        /\ way' = "forRoot"
        /\ IF /\ validateOptions(o)
              /\ o.transport \in modes(entry)
              /\ carriesSse => resolved.sse.endpoint # Undefined
           THEN /\ phase' = "booted"
                /\ wired' = DynamicModule(build(o.transport),
                                          IF carriesSse THEN {resolved.sse.endpoint} ELSE {})
                /\ options' = resolved
           ELSE Fails
        /\ UNCHANGED <<entry, declared>>

boundSseEndpoint(a) == OrElse(a.sseEndpoint, DEFAULT_ASYNC_SSE_ENDPOINT)

assertSseEndpointApplies(a) == a.sseEndpoint # Undefined => a.transport # "websocket"

\* composeForRootAsync, at decoration time: the controller is bound and the providers
\* are chosen by what the registration declares.
composeForRootAsync(a) ==
    /\ phase = "start"
    /\ way' = "forRootAsync"
    /\ declared' = a
    /\ IF /\ \E pattern \in Patterns : a.patterns = {pattern}
          /\ a.transport \in modes(entry)
          /\ assertSseEndpointApplies(a)
       THEN /\ phase' = "registered"
            /\ wired' = DynamicModule(buildAsync(a.transport),
                                      IF a.transport # "websocket" THEN {boundSseEndpoint(a)}
                                                                   ELSE {})
            /\ UNCHANGED options
       ELSE Fails
    /\ UNCHANGED entry

\* A slip: the factory's transport is not compared with the declared one.
resolveAsyncOptionsAny(o) == validateOptions(o)

\* resolveAsyncOptions accepts what the factory gave.
resolveAsyncOptions(o) == validateOptions(o) /\ o.transport = declared.transport

EndpointAgrees(o) ==
    LET endpoint == Field(o.sse, "endpoint")
    IN  endpoint # Undefined =>
            normalizeEndpointPath(endpoint) = normalizeEndpointPath(boundSseEndpoint(declared))

\* bindSseEndpoint: the options name the route the controller was bound to.
bindSseEndpoint(resolved) == [resolved EXCEPT !.sse.endpoint = boundSseEndpoint(declared)]

\* The options provider of an asynchronous registration, when the application boots.
resolve(o) ==
    /\ phase = "registered"
    /\ IF resolveAsyncOptions(o) /\ (declared.transport = "websocket" \/ EndpointAgrees(o))
       THEN /\ phase' = "booted"
            /\ options' = IF declared.transport = "websocket" THEN applyDefaults(o)
                          ELSE bindSseEndpoint(applyDefaults(o))
            /\ UNCHANGED wired
       ELSE Fails
    /\ UNCHANGED <<entry, way, declared>>

\* The factory gives nothing, or rejects.
FactoryGivesNothing ==
    /\ phase = "registered"
    /\ Fails
    /\ UNCHANGED <<entry, way, declared>>

AppNext ==
    \/ \E o \in OptionSets : composeForRoot(o) \/ resolve(o)
    \/ \E a \in AsyncOptions : composeForRootAsync(a)
    \/ FactoryGivesNothing

AppSpec == AppInit /\ [][AppNext]_appVars

-----------------------------------------------------------------------------
AppTypeOK ==
    /\ phase \in {"start", "registered", "booted", "failed"}
    /\ entry \in EntryPoints
    /\ way \in {"none", "forRoot", "forRootAsync"}
    /\ declared \in AsyncOptions
    /\ phase = "booted" => options.transport \in Modes /\ DOMAIN options.sse = DOMAIN DEFAULT_SSE

Booted == phase = "booted"

\* Which kinds of connection a transport reaches.
Reaches(transport) ==
    CASE transport = "SseTransport" -> {"sse"}
      [] transport = "WebSocketTransport" -> {"websocket"}
      [] transport = "CompositeTransport" -> {"sse", "websocket"}

\* What each class injects without @Optional (its constructor).
Injected ==
    [SseTransport |-> {"ConnectionRegistry", "RoomRegistry", "EventReplayBuffer",
                       "EventIdGenerator", "HeartbeatService", "AUTHENTICATOR", "PUBSUB",
                       "HOOKS", "OPTIONS", "INSTANCE_ID"},
     SseSubscriptionHandler |-> {"SseTransport", "HeartbeatService", "OPTIONS"},
     RealtimePubSubSubscriber |-> {"PUBSUB", "INSTANCE_ID", "SseTransport"},
     WebSocketTransport |-> {"ConnectionRegistry", "RoomRegistry", "AUTHENTICATOR", "HOOKS",
                             "OPTIONS"},
     RealtimeGateway |-> {"WebSocketTransport", "OPTIONS"},
     CompositeTransport |-> {"SseTransport", "WebSocketTransport"},
     ReauthenticationService |-> {"ConnectionRegistry", "RealtimeService", "AUTHENTICATOR",
                                  "OPTIONS"},
     EventReplayBuffer |-> {"OPTIONS"}]

\* Whatever the mode and the way, every class of the module finds what its constructor
\* injects, the service's transport included, and so does the controller of a route.
ProvidersResolve ==
    wired # NoModule =>
        /\ wired.transport \in wired.providers
        /\ \A class \in DOMAIN Injected \cap wired.providers : Injected[class] \subseteq wired.providers
        /\ wired.routes # {} => "SseSubscriptionHandler" \in wired.providers

\* An application that starts is wired for the transport its options name: what emits
\* reach, what clients can connect to and what listens to the bus agree with it, though
\* an asynchronous registration is wired before the options are known.
WiredAsConfigured ==
    Booted =>
        LET kinds == Reaches(wired.transport) IN
        /\ kinds = IF options.transport = "both" THEN {"sse", "websocket"} ELSE {options.transport}
        /\ wired.routes # {} <=> "sse" \in kinds
        /\ "RealtimePubSubSubscriber" \in wired.providers <=> "sse" \in kinds
        /\ "RealtimeGateway" \in wired.providers <=> "websocket" \in kinds

\* The two ways of registering wire the same mode alike.
BothWaysAgree ==
    Booted => wired.providers = build(options.transport).providers \cup SHARED_SERVICES \cup CommonTokens

\* However it was registered, an application that starts has the parts of its mode.
WiredAlike == AppTypeOK /\ WiredAsConfigured /\ BothWaysAgree

\* The endpoint the options announce is the route that is served.
RouteAsAnnounced ==
    Booted /\ options.transport # "websocket" =>
        /\ options.sse.endpoint # Undefined
        /\ wired.routes = {normalizeEndpointPath(options.sse.endpoint)}

\* The limits in force in an application that starts: no connection's keepalive is
\* refused for its interval, and the ring and the connections of a user are limited.
\* What the readers make of a value that validation lets through is part of it: NaN is
\* no limit, and a connection limit set to undefined is none, where one left out is 5.
LimitsInForce ==
    Booted =>
        LET heartbeat == OrElse(options.sse.heartbeatMs, 30000)
            ring      == OrElse(options.sse.replayBufferSize, 100)
            limit     == options.sse.maxConnectionsPerUser
        IN  /\ heartbeat # NaN /\ heartbeat \in HEARTBEAT_MIN_MS..HEARTBEAT_MAX_MS
            /\ ring = NaN \/ ring >= 0
            /\ limit \in {NaN, Undefined} \/ limit >= 0

\* What the options ask for is in force: the endpoint and the limits.
OptionsInForce == RouteAsAnnounced /\ LimitsInForce

=============================================================================
