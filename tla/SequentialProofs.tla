--------------------------- MODULE SequentialProofs ---------------------------
(***************************************************************************)
(* Two components whose operations are calls that nothing interleaves      *)
(* with: the registration of the module (Composition) and the sorted set   *)
(* of the offline queue (OfflineKeys).  They share no state; their proofs  *)
(* share this module.                                                      *)
(*                                                                         *)
(* Composition: whatever paths and options blocks an application writes,   *)
(* and by either module and either way of registering, the classes find    *)
(* what they inject, the wiring is that of the mode the options name, and  *)
(* the endpoint and the limits the options ask for are in force.           *)
(*                                                                         *)
(* OfflineKeys, for any number base and widths, any instances, cap, limit  *)
(* and clock: the text of the ids and of the queue's keys orders as the    *)
(* numbers do, so that the string ranges cover what they should.           *)
(***************************************************************************)
EXTENDS Composition, OfflineKeys, FiniteSetTheorems, WellFoundedInduction, TLAPS

-----------------------------------------------------------------------------
(* Composition: its inductive invariant. *)

\* The endpoints a mode serves, of one that was chosen.
Served(mode, endpoint) == IF mode # "websocket" THEN {endpoint} ELSE {}

\* A module of a mode, whatever it serves.
ModuleOf(w, mode) == \E endpoint : w = DynamicModule(build(mode), Served(mode, endpoint))

\* The wiring is a registered mode's before the options are known, and theirs after.
WiringFollows ==
    /\ wired = NoModule \/ \E mode \in Modes : ModuleOf(wired, mode)
    /\ phase = "registered" =>
          wired = DynamicModule(build(declared.transport),
                                Served(declared.transport, boundSseEndpoint(declared)))
    /\ Booted =>
          /\ wired = DynamicModule(build(options.transport),
                                   Served(options.transport, options.sse.endpoint))
          /\ options.transport # "websocket" => options.sse.endpoint # Undefined

\* The inductive invariant.
AppIInv == AppTypeOK /\ WiringFollows /\ LimitsInForce

-----------------------------------------------------------------------------
(* Composition: options. *)

\* The fields of the options in force are the block's, or the defaults.
LEMMA DefaultsFact ==
    ASSUME NEW o \in OptionSets
    PROVE  /\ applyDefaults(o).transport = o.transport
           /\ DOMAIN applyDefaults(o).sse = DOMAIN DEFAULT_SSE
           /\ \A f \in DOMAIN DEFAULT_SSE :
                 applyDefaults(o).sse[f] = IF f \in DOMAIN o.sse THEN o.sse[f] ELSE DEFAULT_SSE[f]
  BY DEF OptionSets, applyDefaults

\* The default block.
LEMMA DefaultFields ==
    /\ DOMAIN DEFAULT_SSE = {"endpoint", "heartbeatMs", "replayBufferSize",
                             "maxConnectionsPerUser"}
    /\ DEFAULT_SSE["heartbeatMs"] = 30000
    /\ DEFAULT_SSE["replayBufferSize"] = 100
    /\ DEFAULT_SSE["maxConnectionsPerUser"] = 5
  BY DEF DEFAULT_SSE

\* The limits of a block that was validated, with the defaults for what it leaves out.
Limits(block) ==
    LET heartbeat == OrElse(block.heartbeatMs, 30000)
        ring      == OrElse(block.replayBufferSize, 100)
        limit     == block.maxConnectionsPerUser
    IN  /\ heartbeat # NaN /\ heartbeat \in HEARTBEAT_MIN_MS..HEARTBEAT_MAX_MS
        /\ ring = NaN \/ ring >= 0
        /\ limit \in {NaN, Undefined} \/ limit >= 0

LEMMA LimitsFact ==
    ASSUME NEW o \in OptionSets, validateOptions(o)
    PROVE  Limits(applyDefaults(o).sse)
<1> DEFINE block == applyDefaults(o).sse
<1>1. /\ block.heartbeatMs = IF "heartbeatMs" \in DOMAIN o.sse THEN o.sse["heartbeatMs"]
                             ELSE 30000
      /\ block.replayBufferSize = IF "replayBufferSize" \in DOMAIN o.sse
                                  THEN o.sse["replayBufferSize"] ELSE 100
      /\ block.maxConnectionsPerUser = IF "maxConnectionsPerUser" \in DOMAIN o.sse
                                       THEN o.sse["maxConnectionsPerUser"] ELSE 5
  BY DefaultsFact, DefaultFields
<1> HIDE DEF block
<1>2. o.sse \in SseBlocks
  BY DEF OptionSets
<1>3. \A f \in DOMAIN o.sse : f # "endpoint" => o.sse[f] = Undefined \/ o.sse[f] \in Int \cup {NaN}
  BY <1>2, CompositionAssumption
<1>4. Undefined # NaN /\ Undefined \notin Int /\ NaN \notin Int
  BY CompositionAssumption
<1>5. LET h == OrElse(block.heartbeatMs, 30000)
      IN  h # NaN /\ h \in HEARTBEAT_MIN_MS..HEARTBEAT_MAX_MS
  <2> DEFINE default == 30000
  <2>1. validHeartbeat(Field(o.sse, "heartbeatMs"))
    BY DEF validateOptions
  <2>2. default # NaN /\ default \in HEARTBEAT_MIN_MS..HEARTBEAT_MAX_MS
    BY <1>4 DEF HEARTBEAT_MIN_MS, HEARTBEAT_MAX_MS
  <2>3. block.heartbeatMs = IF "heartbeatMs" \in DOMAIN o.sse THEN o.sse["heartbeatMs"]
                            ELSE default
    BY <1>1
  <2> HIDE DEF default
  <2>4. LET h == OrElse(block.heartbeatMs, default)
        IN  h # NaN /\ h \in HEARTBEAT_MIN_MS..HEARTBEAT_MAX_MS
    BY <2>1, <2>2, <2>3 DEF validHeartbeat, Field, OrElse
  <2> QED
    BY <2>4 DEF default
<1>6. LET r == OrElse(block.replayBufferSize, 100) IN r = NaN \/ r >= 0
  <2>1. NotNegative(Field(o.sse, "replayBufferSize"))
    BY DEF validateOptions
  <2> QED
    BY <1>1, <1>3, <1>4, <2>1 DEF NotNegative, Less, Field, OrElse
<1>7. block.maxConnectionsPerUser \in {NaN, Undefined} \/ block.maxConnectionsPerUser >= 0
  <2>1. NotNegative(Field(o.sse, "maxConnectionsPerUser"))
    BY DEF validateOptions
  <2> QED
    BY <1>1, <1>3, <1>4, <2>1 DEF NotNegative, Less, Field
<1> QED
  BY <1>5, <1>6, <1>7 DEF Limits, block

\* An endpoint that was chosen or left to the default has text.
LEMMA BoundEndpoint ==
    ASSUME NEW a \in AsyncOptions
    PROVE  boundSseEndpoint(a) # Undefined
  BY CompositionAssumption DEF AsyncOptions, boundSseEndpoint, OrElse

\* The two wirings of a mode agree.
LEMMA WiringsAgree == \A mode \in Modes : buildAsync(mode) = build(mode)
<1> SUFFICES ASSUME NEW mode \in Modes PROVE buildAsync(mode) = build(mode)
  OBVIOUS
<1>1. CASE mode = "sse"
  BY <1>1 DEF build, buildAsync
<1>2. CASE mode = "websocket"
  BY <1>2 DEF build, buildAsync
<1>3. CASE mode = "both"
  BY <1>3 DEF build, buildAsync
<1> QED
  BY <1>1, <1>2, <1>3 DEF Modes

-----------------------------------------------------------------------------
(* Composition: the inductive invariant, one action at a time. *)

\* An application that has not started is registered for nothing.
LEMMA AppInitInv == AppInit => AppIInv
<1> SUFFICES ASSUME AppInit PROVE AppIInv
  OBVIOUS
<1>1. NotDeclared \in AsyncOptions
  BY DEF NotDeclared, AsyncOptions, Modes, Patterns
<1>2. AppTypeOK
  BY <1>1 DEF AppInit, AppTypeOK
<1>3. WiringFollows /\ LimitsInForce
  BY DEF AppInit, WiringFollows, LimitsInForce, Booted
<1> QED
  BY <1>2, <1>3 DEF AppIInv

\* A step that fails keeps the wiring and gives no options.
LEMMA FailStep ==
    ASSUME AppIInv, Fails, entry' = entry, way' \in {"none", "forRoot", "forRootAsync"},
           declared' \in AsyncOptions
    PROVE  AppIInv'
<1>1. phase' = "failed" /\ wired' = wired /\ options' = options
  BY DEF Fails
<1>2. AppTypeOK'
  BY <1>1 DEF AppIInv, AppTypeOK
<1>3. WiringFollows'
  BY <1>1 DEF AppIInv, WiringFollows, Booted
<1>4. LimitsInForce'
  BY <1>1 DEF LimitsInForce, Booted
<1> QED
  BY <1>2, <1>3, <1>4 DEF AppIInv

\* An application that boots: the options it was given were validated.
LEMMA BootStep ==
    ASSUME AppIInv, NEW o \in OptionSets, validateOptions(o), phase' = "booted",
           entry' = entry, way' \in {"none", "forRoot", "forRootAsync"},
           declared' \in AsyncOptions,
           options'.transport = o.transport,
           DOMAIN options'.sse = DOMAIN DEFAULT_SSE,
           \A f \in DOMAIN DEFAULT_SSE \ {"endpoint"} : options'.sse[f] = applyDefaults(o).sse[f],
           wired' = DynamicModule(build(o.transport),
                                  Served(o.transport, options'.sse.endpoint)),
           o.transport # "websocket" => options'.sse.endpoint # Undefined
    PROVE  AppIInv'
<1>1. o.transport \in Modes
  BY DEF validateOptions
<1>2. AppTypeOK'
  BY <1>1 DEF AppIInv, AppTypeOK
<1>3. WiringFollows'
  <2>1. ModuleOf(wired', o.transport)
    BY DEF ModuleOf
  <2> QED
    BY <1>1, <2>1 DEF WiringFollows, Booted
<1>4. LimitsInForce'
  <2>1. Limits(applyDefaults(o).sse)
    BY LimitsFact
  <2>2. /\ options'.sse.heartbeatMs = applyDefaults(o).sse.heartbeatMs
        /\ options'.sse.replayBufferSize = applyDefaults(o).sse.replayBufferSize
        /\ options'.sse.maxConnectionsPerUser = applyDefaults(o).sse.maxConnectionsPerUser
    BY DefaultFields
  <2>3. Limits(options'.sse)
    BY <2>1, <2>2 DEF Limits
  <2> QED
    BY <2>3 DEF LimitsInForce, Limits
<1> QED
  BY <1>2, <1>3, <1>4 DEF AppIInv

\* forRoot.
LEMMA ForRootStep == ASSUME AppIInv, NEW o \in OptionSets, composeForRoot(o) PROVE AppIInv'
<1> DEFINE resolved == applyDefaults(o)
           boots == /\ validateOptions(o)
                    /\ o.transport \in modes(entry)
                    /\ resolved.transport # "websocket" => resolved.sse.endpoint # Undefined
<1>1. /\ way' = "forRoot" /\ entry' = entry /\ declared' = declared
      /\ IF boots
         THEN /\ phase' = "booted"
              /\ wired' = DynamicModule(build(o.transport),
                                        IF resolved.transport # "websocket"
                                        THEN {resolved.sse.endpoint} ELSE {})
              /\ options' = resolved
         ELSE Fails
  BY DEF composeForRoot
<1>2. declared' \in AsyncOptions
  BY <1>1 DEF AppIInv, AppTypeOK
<1>3. CASE ~boots
  BY <1>1, <1>2, <1>3, FailStep
<1>4. CASE boots
  <2>1. resolved.transport = o.transport /\ DOMAIN resolved.sse = DOMAIN DEFAULT_SSE
    BY DefaultsFact
  <2>2. wired' = DynamicModule(build(o.transport), Served(o.transport, resolved.sse.endpoint))
    BY <1>1, <1>4, <2>1 DEF Served
  <2> QED
    BY <1>1, <1>2, <1>4, <2>1, <2>2, BootStep
<1> QED
  BY <1>3, <1>4

\* forRootAsync: the wiring is fixed by what the registration declares.
LEMMA ForRootAsyncStep ==
    ASSUME AppIInv, NEW a \in AsyncOptions, composeForRootAsync(a) PROVE AppIInv'
<1> DEFINE registers == /\ \E pattern \in Patterns : a.patterns = {pattern}
                        /\ a.transport \in modes(entry)
                        /\ assertSseEndpointApplies(a)
<1>1. /\ way' = "forRootAsync" /\ entry' = entry /\ declared' = a
      /\ IF registers
         THEN /\ phase' = "registered"
              /\ wired' = DynamicModule(buildAsync(a.transport),
                                        IF a.transport # "websocket" THEN {boundSseEndpoint(a)}
                                                                     ELSE {})
              /\ options' = options
         ELSE Fails
  BY DEF composeForRootAsync
<1>2. CASE ~registers
  BY <1>1, <1>2, FailStep
<1>3. CASE registers
  <2>1. a.transport \in Modes
    BY DEF AsyncOptions
  <2>2. wired' = DynamicModule(build(a.transport), Served(a.transport, boundSseEndpoint(a)))
    BY <1>1, <1>3, <2>1, WiringsAgree DEF Served
  <2>3. AppTypeOK'
    BY <1>1, <1>3 DEF AppIInv, AppTypeOK
  <2>4. WiringFollows'
    <3>1. ModuleOf(wired', a.transport)
      BY <2>2 DEF ModuleOf
    <3>2. boundSseEndpoint(declared)' = boundSseEndpoint(a)
      BY <1>1 DEF boundSseEndpoint
    <3> QED
      BY <1>1, <1>3, <2>1, <2>2, <3>1, <3>2 DEF WiringFollows, Booted
  <2>5. LimitsInForce'
    BY <1>1, <1>3 DEF LimitsInForce, Booted
  <2> QED
    BY <2>3, <2>4, <2>5 DEF AppIInv
<1> QED
  BY <1>2, <1>3

\* The factory's options arrive: accepted only where they agree with what was declared.
LEMMA ResolveStep == ASSUME AppIInv, NEW o \in OptionSets, resolve(o) PROVE AppIInv'
<1> DEFINE accepts == /\ resolveAsyncOptions(o)
                      /\ declared.transport = "websocket" \/ EndpointAgrees(o)
<1>1. /\ phase = "registered" /\ UNCHANGED <<entry, way, declared>>
      /\ IF accepts
         THEN /\ phase' = "booted"
              /\ options' = IF declared.transport = "websocket" THEN applyDefaults(o)
                            ELSE bindSseEndpoint(applyDefaults(o))
              /\ wired' = wired
         ELSE Fails
  BY DEF resolve
<1>2. /\ declared \in AsyncOptions /\ declared' \in AsyncOptions
      /\ way' \in {"none", "forRoot", "forRootAsync"}
  BY <1>1 DEF AppIInv, AppTypeOK
<1>3. CASE ~accepts
  BY <1>1, <1>2, <1>3, FailStep
<1>4. CASE accepts
  <2>1. validateOptions(o) /\ o.transport = declared.transport
    BY <1>4 DEF resolveAsyncOptions
  <2>2. wired' = DynamicModule(build(o.transport),
                               Served(o.transport, boundSseEndpoint(declared)))
    BY <1>1, <1>4, <2>1 DEF AppIInv, WiringFollows
  <2>3. /\ applyDefaults(o).transport = o.transport
        /\ DOMAIN applyDefaults(o).sse = DOMAIN DEFAULT_SSE
    BY DefaultsFact
  <2>4. CASE declared.transport = "websocket"
    <3>1. options' = applyDefaults(o)
      BY <1>1, <1>4, <2>4
    <3>2. wired' = DynamicModule(build(o.transport), Served(o.transport, options'.sse.endpoint))
      BY <2>1, <2>2, <2>4 DEF Served
    <3> QED
      BY <1>1, <1>2, <1>4, <2>1, <2>3, <2>4, <3>1, <3>2, BootStep
  <2>5. CASE declared.transport # "websocket"
    <3>1. options' = bindSseEndpoint(applyDefaults(o))
      BY <1>1, <1>4, <2>5
    <3>2. /\ options'.transport = o.transport
          /\ DOMAIN options'.sse = DOMAIN DEFAULT_SSE
          /\ options'.sse.endpoint = boundSseEndpoint(declared)
          /\ \A f \in DOMAIN DEFAULT_SSE \ {"endpoint"} :
                options'.sse[f] = applyDefaults(o).sse[f]
      BY <2>3, <3>1, DefaultFields DEF bindSseEndpoint, applyDefaults, OptionSets
    <3> QED
      BY <1>1, <1>2, <1>4, <2>1, <2>2, <3>2, BoundEndpoint, BootStep
  <2> QED
    BY <2>4, <2>5
<1> QED
  BY <1>3, <1>4

\* Every step keeps the invariant.
LEMMA AppNextInv == ASSUME AppIInv, [AppNext]_appVars PROVE AppIInv'
<1>1. CASE UNCHANGED appVars
  BY <1>1 DEF appVars, AppIInv, AppTypeOK, WiringFollows, LimitsInForce, Booted
<1>2. CASE FactoryGivesNothing
  <2>1. Fails /\ UNCHANGED <<entry, way, declared>>
    BY <1>2 DEF FactoryGivesNothing
  <2> QED
    BY <2>1, FailStep DEF AppIInv, AppTypeOK
<1>3. CASE \E o \in OptionSets : composeForRoot(o) \/ resolve(o)
  BY <1>3, ForRootStep, ResolveStep
<1>4. CASE \E a \in AsyncOptions : composeForRootAsync(a)
  BY <1>4, ForRootAsyncStep
<1> QED
  BY <1>1, <1>2, <1>3, <1>4 DEF AppNext

-----------------------------------------------------------------------------
(* Composition: the theorems. *)

\* What a module of a mode provides, binds to the transport token and serves.
LEMMA ModuleFact ==
    ASSUME NEW mode \in Modes, NEW endpoint
    PROVE  LET w == DynamicModule(build(mode), Served(mode, endpoint)) IN
           /\ w.providers = build(mode).providers \cup SHARED_SERVICES \cup CommonTokens
           /\ w.transport = build(mode).transport
           /\ mode = "websocket" => w.routes = {}
           /\ mode # "websocket" => w.routes = {normalizeEndpointPath(endpoint)}
  BY DEF DynamicModule, Served

\* What a class of the module of a mode injects is provided.
LEMMA InjectedFact ==
    ASSUME NEW mode \in Modes, NEW class \in DOMAIN Injected,
           NEW all, all = build(mode).providers \cup SHARED_SERVICES \cup CommonTokens,
           class \in all
    PROVE  Injected[class] \subseteq all
<1>1. CASE mode = "sse"
  BY <1>1 DEF build, SHARED_SERVICES, CommonTokens, Injected
<1>2. CASE mode = "websocket"
  BY <1>2 DEF build, SHARED_SERVICES, CommonTokens, Injected
<1>3. CASE mode = "both"
  BY <1>3 DEF build, SHARED_SERVICES, CommonTokens, Injected
<1> QED
  BY <1>1, <1>2, <1>3 DEF Modes

\* The wiring of a mode: what its transport reaches and which parts it has.
LEMMA BuildFact ==
    ASSUME NEW mode \in Modes,
           NEW all, all = build(mode).providers \cup SHARED_SERVICES \cup CommonTokens
    PROVE  /\ build(mode).transport \in all
           /\ Reaches(build(mode).transport)
                = IF mode = "both" THEN {"sse", "websocket"} ELSE {mode}
           /\ "SseSubscriptionHandler" \in all <=> mode # "websocket"
           /\ "RealtimePubSubSubscriber" \in all <=> mode # "websocket"
           /\ "RealtimeGateway" \in all <=> mode # "sse"
<1>1. CASE mode = "sse"
  BY <1>1 DEF build, SHARED_SERVICES, CommonTokens, Reaches
<1>2. CASE mode = "websocket"
  BY <1>2 DEF build, SHARED_SERVICES, CommonTokens, Reaches
<1>3. CASE mode = "both"
  BY <1>3 DEF build, SHARED_SERVICES, CommonTokens, Reaches
<1> QED
  BY <1>1, <1>2, <1>3 DEF Modes

\* Whatever the paths and the options blocks, and whether or not the options that come
\* late are accepted: every class of a registered module finds what it injects.
THEOREM EveryClassResolves == AppSpec => []ProvidersResolve
<1>1. AppIInv => ProvidersResolve
  <2> SUFFICES ASSUME AppIInv, wired # NoModule
               PROVE  /\ wired.transport \in wired.providers
                      /\ \A class \in DOMAIN Injected \cap wired.providers :
                            Injected[class] \subseteq wired.providers
                      /\ wired.routes # {} => "SseSubscriptionHandler" \in wired.providers
    BY DEF ProvidersResolve
  <2>1. PICK mode \in Modes : ModuleOf(wired, mode)
    BY DEF AppIInv, WiringFollows
  <2>2. PICK endpoint : wired = DynamicModule(build(mode), Served(mode, endpoint))
    BY <2>1 DEF ModuleOf
  <2>3. /\ wired.providers = build(mode).providers \cup SHARED_SERVICES \cup CommonTokens
        /\ wired.transport = build(mode).transport
        /\ mode = "websocket" => wired.routes = {}
    BY <2>2, ModuleFact
  <2>4. /\ wired.transport \in wired.providers
        /\ wired.routes # {} => "SseSubscriptionHandler" \in wired.providers
    BY <2>3, BuildFact
  <2>5. \A class \in DOMAIN Injected \cap wired.providers :
          Injected[class] \subseteq wired.providers
    BY <2>3, InjectedFact
  <2> QED
    BY <2>4, <2>5
<1> QED
  BY <1>1, AppInitInv, AppNextInv, PTL DEF AppSpec

\* An application that starts is wired for the transport its options name, by either way
\* of registering and whatever its options block.
THEOREM WiredForItsMode == AppSpec => []WiredAlike
<1>1. AppIInv => WiredAlike
  <2> SUFFICES ASSUME AppIInv PROVE WiredAlike
    OBVIOUS
  <2>1. AppTypeOK
    BY DEF AppIInv
  <2>2. CASE ~Booted
    BY <2>1, <2>2 DEF WiredAlike, WiredAsConfigured, BothWaysAgree
  <2>3. CASE Booted
    <3> DEFINE mode == options.transport
    <3>1. /\ mode \in Modes
          /\ wired = DynamicModule(build(mode), Served(mode, options.sse.endpoint))
      BY <2>1, <2>3 DEF AppTypeOK, AppIInv, WiringFollows, Booted
    <3> HIDE DEF mode
    <3>2. /\ wired.providers = build(mode).providers \cup SHARED_SERVICES \cup CommonTokens
          /\ wired.transport = build(mode).transport
          /\ wired.routes # {} <=> mode # "websocket"
      BY <3>1, ModuleFact
    <3>3. /\ Reaches(wired.transport) = IF mode = "both" THEN {"sse", "websocket"} ELSE {mode}
          /\ "RealtimePubSubSubscriber" \in wired.providers <=> mode # "websocket"
          /\ "RealtimeGateway" \in wired.providers <=> mode # "sse"
      BY <3>1, <3>2, BuildFact
    <3>4. ("sse" \in Reaches(wired.transport) <=> mode # "websocket")
          /\ ("websocket" \in Reaches(wired.transport) <=> mode # "sse")
      BY <3>1, <3>3 DEF Modes
    <3>5. WiredAsConfigured
      BY <3>2, <3>3, <3>4 DEF WiredAsConfigured, mode
    <3>6. BothWaysAgree
      BY <3>2 DEF BothWaysAgree, mode
    <3> QED
      BY <2>1, <3>5, <3>6 DEF WiredAlike
  <2> QED
    BY <2>2, <2>3
<1> QED
  BY <1>1, AppInitInv, AppNextInv, PTL DEF AppSpec

\* The endpoint the options announce is the route that is served, and the limits are
\* those the options ask for or the defaults, for every number a block may hold.
THEOREM OptionsAreInForce == AppSpec => []OptionsInForce
<1>1. AppIInv => OptionsInForce
  <2> SUFFICES ASSUME AppIInv, Booted, options.transport # "websocket"
               PROVE  /\ options.sse.endpoint # Undefined
                      /\ wired.routes = {normalizeEndpointPath(options.sse.endpoint)}
    BY DEF OptionsInForce, RouteAsAnnounced, AppIInv
  <2>1. /\ options.transport \in Modes
        /\ wired = DynamicModule(build(options.transport),
                                 Served(options.transport, options.sse.endpoint))
        /\ options.sse.endpoint # Undefined
    BY DEF AppIInv, AppTypeOK, WiringFollows, Booted
  <2> QED
    BY <2>1, ModuleFact
<1> QED
  BY <1>1, AppInitInv, AppNextInv, PTL DEF AppSpec

-----------------------------------------------------------------------------
(* OfflineKeys: numbers.  Facts about digits are inductions; each is done by a *)
(* least counterexample, which LeastFact gives.                                *)

\* A set of natural numbers has a least element.
LEMMA LeastFact ==
    ASSUME NEW S \in SUBSET Nat, S # {}
    PROVE  \E k \in S : \A j \in S : k <= j
<1> DEFINE R == OpToRel(<, Nat)
<1>1. IsWellFoundedOn(R, Nat)
  BY NatLessThanWellFounded
<1>2. \A x, y \in Nat : x < y => <<x, y>> \in R
  BY DEF OpToRel
<1> HIDE DEF R
<1>3. PICK k \in S : \A j \in S : <<j, k>> \notin R
  BY <1>1, WFMin
<1>4. \A j \in S : ~(j < k)
  BY <1>2, <1>3
<1> QED
  BY <1>4

-----------------------------------------------------------------------------
(* The powers of the base. *)

\* f gives the powers up to the n-th.
PowersTo(f, n) ==
    /\ f \in [0..n -> Nat]
    /\ \A k \in 0..n : f[k] = IF k = 0 THEN 1 ELSE Base * f[k - 1]

LEMMA PowersExist == ASSUME NEW n \in Nat PROVE \E f : PowersTo(f, n)
<1> DEFINE T == {m \in Nat : ~\E f : PowersTo(f, m)}
<1>1. ASSUME T # {} PROVE FALSE
  <2>1. PICK m \in T : \A j \in T : m <= j
    BY <1>1, LeastFact
  <2>2. CASE m = 0
    <3>1. PowersTo([k \in 0..m |-> 1], m)
      BY <2>2 DEF PowersTo
    <3> QED
      BY <2>1, <3>1
  <2>3. CASE m # 0
    <3>1. m - 1 \in Nat /\ m - 1 \notin T
      BY <2>1, <2>3
    <3>2. PICK f : PowersTo(f, m - 1)
      BY <3>1
    <3> DEFINE g == [k \in 0..m |-> IF k = m THEN Base * f[m - 1] ELSE f[k]]
    <3>3. m - 1 \in 0..(m - 1) /\ f[m - 1] \in Nat /\ Base * f[m - 1] \in Nat
      BY <3>1, <3>2, EventIdsAssumption DEF PowersTo
    <3>4. g \in [0..m -> Nat]
      BY <3>1, <3>2, <3>3 DEF PowersTo
    <3>5. ASSUME NEW k \in 0..m PROVE g[k] = IF k = 0 THEN 1 ELSE Base * g[k - 1]
      <4>1. CASE k = m
        BY <2>3, <3>1, <4>1
      <4>2. CASE k # m
        <5>1. k \in 0..(m - 1) /\ (k # 0 => k - 1 \in 0..(m - 1))
          BY <3>5, <4>2, <3>1
        <5>2. g[k] = f[k] /\ (k # 0 => g[k - 1] = f[k - 1])
          BY <5>1, <4>2, <3>1
        <5> QED
          BY <3>2, <5>1, <5>2 DEF PowersTo
      <4> QED
        BY <4>1, <4>2
    <3>6. PowersTo(g, m)
      BY <3>4, <3>5 DEF PowersTo
    <3> QED
      BY <2>1, <3>6
  <2> QED
    BY <2>2, <2>3
<1> QED
  BY <1>1

LEMMA PowersUnique ==
    ASSUME NEW n \in Nat, NEW m \in Nat, NEW f, PowersTo(f, n), NEW g, PowersTo(g, m),
           NEW k \in 0..n, k \in 0..m
    PROVE  f[k] = g[k]
<1> DEFINE T == {j \in Nat : j \in 0..n /\ j \in 0..m /\ f[j] # g[j]}
<1>1. ASSUME T # {} PROVE FALSE
  <2>1. PICK l \in T : \A j \in T : l <= j
    BY <1>1, LeastFact
  <2>2. CASE l = 0
    BY <2>1, <2>2 DEF PowersTo
  <2>3. CASE l # 0
    <3>1. l - 1 \in 0..n /\ l - 1 \in 0..m /\ l - 1 \notin T
      BY <2>1, <2>3
    <3>2. f[l - 1] = g[l - 1]
      BY <3>1
    <3> QED
      BY <2>1, <2>3, <3>2 DEF PowersTo
  <2> QED
    BY <2>2, <2>3
<1> QED
  BY <1>1

\* The recursion equation of Power.
LEMMA PowerFact == Power[0] = 1 /\ \A k \in Nat : Power[k + 1] = Base * Power[k]
<1> DEFINE P(n) == CHOOSE f : PowersTo(f, n)
           F == [n \in Nat |-> P(n)[n]]
<1>1. \A n \in Nat : PowersTo(P(n), n)
  BY PowersExist
<1> HIDE DEF P
<1>2. \A n \in Nat, k \in Nat : k <= n => P(n)[k] = F[k]
  <2> SUFFICES ASSUME NEW n \in Nat, NEW k \in Nat, k <= n PROVE P(n)[k] = P(k)[k]
    OBVIOUS
  <2>1. PowersTo(P(n), n) /\ PowersTo(P(k), k)
    BY <1>1
  <2>2. k \in 0..n /\ k \in 0..k
    OBVIOUS
  <2> QED
    BY <2>1, <2>2, PowersUnique
<1>3. F = [k \in Nat |-> IF k = 0 THEN 1 ELSE Base * F[k - 1]]
  <2> SUFFICES ASSUME NEW k \in Nat PROVE F[k] = IF k = 0 THEN 1 ELSE Base * F[k - 1]
    OBVIOUS
  <2>1. PowersTo(P(k), k) /\ P(k)[k] = F[k] /\ (k # 0 => P(k)[k - 1] = F[k - 1])
    BY <1>1, <1>2
  <2> QED
    BY <2>1 DEF PowersTo
<1> HIDE DEF F
<1>4. Power = [k \in Nat |-> IF k = 0 THEN 1 ELSE Base * Power[k - 1]]
  BY <1>3, Zenon DEF Power
<1> QED
  BY <1>4

LEMMA BaseFact == ASSUME NEW n \in Nat PROVE Base * n \in Nat /\ Base * n >= n + n
  BY EventIdsAssumption

LEMMA PowerType == ASSUME NEW k \in Nat PROVE Power[k] \in Nat \ {0}
<1> DEFINE T == {j \in Nat : Power[j] \notin Nat \ {0}}
<1>1. ASSUME T # {} PROVE FALSE
  <2>1. PICK l \in T : \A j \in T : l <= j
    BY <1>1, LeastFact
  <2>2. l # 0
    BY <2>1, PowerFact
  <2>3. l - 1 \in Nat /\ l - 1 \notin T
    BY <2>1, <2>2
  <2>4. Power[l] = Base * Power[l - 1]
    BY <2>1, <2>3, PowerFact
  <2>5. Power[l - 1] \in Nat \ {0}
    BY <2>3
  <2> QED
    BY <2>1, <2>4, <2>5, BaseFact
<1> QED
  BY <1>1

\* The power before a positive one.
LEMMA PowerNext ==
    ASSUME NEW k \in Nat, k # 0
    PROVE  /\ k - 1 \in Nat /\ Power[k] \in Nat \ {0} /\ Power[k - 1] \in Nat \ {0}
           /\ Power[k] = Base * Power[k - 1]
<1>1. k - 1 \in Nat /\ k = (k - 1) + 1
  OBVIOUS
<1>2. Power[k] = Base * Power[k - 1]
  BY <1>1, PowerFact
<1> QED
  BY <1>1, <1>2, PowerType

\* Each power exceeds its exponent.
LEMMA PowerExceeds == ASSUME NEW k \in Nat PROVE k < Power[k]
<1> DEFINE T == {j \in Nat : ~(j < Power[j])}
<1>1. ASSUME T # {} PROVE FALSE
  <2>1. PICK l \in T : \A j \in T : l <= j
    BY <1>1, LeastFact
  <2>2. l # 0
    <3>1. Power[0] = 1
      BY PowerFact
    <3> QED
      BY <2>1, <3>1
  <2>3. l - 1 \in Nat /\ l - 1 \notin T
    BY <2>1, <2>2
  <2>4. /\ Power[l] = Base * Power[l - 1]
        /\ Power[l - 1] \in Nat \ {0} /\ Power[l] \in Nat \ {0}
    BY <2>1, <2>2, PowerNext
  <2>5. Base * Power[l - 1] >= Power[l - 1] + Power[l - 1]
    BY <2>4, BaseFact
  <2>6. l - 1 < Power[l - 1] /\ ~(l < Power[l]) /\ l \in Nat
    BY <2>1, <2>3
  <2> QED
    BY <2>4, <2>5, <2>6
<1> QED
  BY <1>1

LEMMA PowerGrows ==
    ASSUME NEW j \in Nat, NEW k \in Nat, j <= k
    PROVE  Power[j] <= Power[k]
<1> DEFINE U == {i \in Nat : j <= i /\ ~(Power[j] <= Power[i])}
<1>1. ASSUME U # {} PROVE FALSE
  <2>1. PICK l \in U : \A i \in U : l <= i
    BY <1>1, LeastFact
  <2>2. Power[j] \in Nat
    BY PowerType
  <2>3. l # j /\ l \in Nat /\ j <= l
    BY <2>1, <2>2
  <2>4. l # 0 /\ l - 1 \in Nat /\ j <= l - 1 /\ l - 1 \notin U
    BY <2>1, <2>3
  <2>5. /\ Power[l] = Base * Power[l - 1]
        /\ Power[l - 1] \in Nat \ {0} /\ Power[l] \in Nat \ {0}
    BY <2>3, <2>4, PowerNext
  <2>6. Base * Power[l - 1] >= Power[l - 1] + Power[l - 1]
    BY <2>5, BaseFact
  <2>7. Power[j] <= Power[l - 1] /\ ~(Power[j] <= Power[l])
    BY <2>1, <2>4
  <2> QED
    BY <2>2, <2>5, <2>6, <2>7
<1> QED
  BY <1>1

-----------------------------------------------------------------------------
(* Digits. *)

LEMMA DivideFact ==
    ASSUME NEW d \in Nat \ {0}, NEW n \in Nat
    PROVE  n = (n \div d) * d + (n % d) /\ n % d \in 0..(d - 1) /\ n \div d \in Nat
  OBVIOUS

LEMMA DivideTwice ==
    ASSUME NEW d \in Nat \ {0}, NEW b \in Nat \ {0}, NEW n \in Nat
    PROVE  n \div (b * d) = (n \div d) \div b
  OBVIOUS

LEMMA DivideGrows ==
    ASSUME NEW d \in Nat \ {0}, NEW m \in Nat, NEW n \in Nat, m <= n
    PROVE  m \div d <= n \div d
  OBVIOUS

LEMMA DivideSmall ==
    ASSUME NEW d \in Nat \ {0}, NEW n \in Nat, n < d
    PROVE  n \div d = 0 /\ n % d = n
  OBVIOUS

\* A number has a width, which its powers bound.
LEMMA WidthFact ==
    ASSUME NEW n \in Nat
    PROVE  /\ Width(n) \in 1..(n + 1)
           /\ n < Power[Width(n)]
           /\ Width(n) = 1 \/ Power[Width(n) - 1] <= n
<1> DEFINE T == {w \in Nat : 1 <= w /\ n < Power[w]}
<1>1. n + 1 \in T
  <2>1. n + 1 < Power[n + 1] /\ Power[n + 1] \in Nat
    BY PowerExceeds, PowerType
  <2> QED
    BY <2>1
<1>2. PICK w \in T : \A j \in T : w <= j
  BY <1>1, LeastFact
<1>3. w \in 1..(n + 1)
  BY <1>1, <1>2
<1>4. w = 1 \/ Power[w - 1] <= n
  <2> SUFFICES ASSUME w # 1 PROVE Power[w - 1] <= n
    OBVIOUS
  <2>1. w - 1 \in Nat /\ 1 <= w - 1 /\ w - 1 \notin T
    BY <1>2
  <2> QED
    BY <2>1, PowerType
<1> QED
  BY <1>2, <1>3, <1>4, Zenon DEF Width

LEMMA WidthLeast ==
    ASSUME NEW n \in Nat, NEW w \in Nat \ {0}, n < Power[w]
    PROVE  Width(n) <= w
<1> SUFFICES ASSUME w <= Width(n) - 1 PROVE FALSE
  BY WidthFact
<1> DEFINE v == Width(n) - 1
<1>1. v \in Nat /\ Power[v] <= n /\ w <= v
  BY WidthFact
<1> HIDE DEF v
<1>2. Power[w] <= Power[v]
  BY <1>1, PowerGrows
<1>3. Power[w] \in Nat /\ Power[v] \in Nat
  BY <1>1, PowerType
<1> QED
  BY <1>1, <1>2, <1>3

LEMMA WidthGrows ==
    ASSUME NEW m \in Nat, NEW n \in Nat, m <= n
    PROVE  Width(m) <= Width(n)
<1>1. Width(n) \in Nat \ {0} /\ n < Power[Width(n)] /\ Power[Width(n)] \in Nat
  BY WidthFact, PowerType
<1> QED
  BY <1>1, WidthLeast

\* The last w digits of n, with leading zeros.
Text(n, w) == [k \in 1..w |-> (n \div Power[w - k]) % Base]

LEMMA TextType ==
    ASSUME NEW n \in Nat, NEW w \in Nat
    PROVE  /\ Text(n, w) \in Seq(Int)
           /\ Len(Text(n, w)) = w
           /\ \A k \in 1..w : Text(n, w)[k] \in 0..(Base - 1)
<1>1. ASSUME NEW k \in 1..w PROVE Text(n, w)[k] \in 0..(Base - 1)
  <2>1. Power[w - k] \in Nat \ {0}
    BY <1>1, PowerType
  <2>2. n \div Power[w - k] \in Nat
    BY <2>1, DivideFact
  <2>3. (n \div Power[w - k]) % Base \in 0..(Base - 1)
    BY <2>2, DivideFact, EventIdsAssumption
  <2> QED
    BY <1>1, <2>3 DEF Text
<1> DEFINE t == Text(n, w)
<1>2. t = [k \in 1..w |-> t[k]]
  BY DEF Text
<1>3. \A k \in 1..w : t[k] \in Int
  BY <1>1, EventIdsAssumption
<1> HIDE DEF t
<1>4. t \in Seq(Int) /\ Len(t) = w
  BY <1>2, <1>3
<1> QED
  BY <1>1, <1>4 DEF t

LEMMA ConcatFact ==
    ASSUME NEW s \in Seq(Int), NEW t \in Seq(Int)
    PROVE  /\ s \o t \in Seq(Int)
           /\ Len(s \o t) = Len(s) + Len(t)
           /\ \A k \in 1..Len(s) : (s \o t)[k] = s[k]
           /\ \A k \in 1..Len(t) : (s \o t)[Len(s) + k] = t[k]
  OBVIOUS

\* padStart adds zeros to a text that fits in the width.
LEMMA PadFact ==
    ASSUME NEW t \in Seq(Int), NEW w \in Nat, Len(t) <= w
    PROVE  /\ padStart(t, w) \in Seq(Int)
           /\ Len(padStart(t, w)) = w
           /\ \A k \in 1..w : padStart(t, w)[k] = IF k <= w - Len(t) THEN 0
                                                  ELSE t[k - (w - Len(t))]
<1> DEFINE zeros == [k \in 1..(w - Len(t)) |-> 0]
<1>1. zeros \in Seq(Int) /\ Len(zeros) = w - Len(t) /\ \A k \in 1..(w - Len(t)) : zeros[k] = 0
  OBVIOUS
<1>2. padStart(t, w) = zeros \o t
  BY DEF padStart
<1> HIDE DEF zeros
<1>3. zeros \o t \in Seq(Int) /\ Len(zeros \o t) = w
  BY <1>1
<1>4. \A k \in 1..w : (zeros \o t)[k] = IF k <= w - Len(t) THEN 0 ELSE t[k - (w - Len(t))]
  BY <1>1
<1> QED
  BY <1>2, <1>3, <1>4

\* padStart writes a number that fits in the width with leading zeros.
LEMMA PaddedFact ==
    ASSUME NEW n \in Nat, NEW w \in Nat \ {0}, n < Power[w]
    PROVE  padStart(Digits(n), w) = Text(n, w)
<1>1. /\ Width(n) \in Nat \ {0} /\ Width(n) <= w /\ n < Power[Width(n)]
      /\ Digits(n) = Text(n, Width(n))
  BY WidthFact, WidthLeast, SMTT(30) DEF Digits, Text
<1> SUFFICES ASSUME NEW d \in Nat \ {0}, d <= w, n < Power[d]
             PROVE  padStart(Text(n, d), w) = Text(n, w)
  BY <1>1
<1> DEFINE t == Text(n, d)
           padded == padStart(t, w)
<1>2. t \in Seq(Int) /\ Len(t) = d
  BY TextType
<1> HIDE DEF t
<1>3. /\ padded \in Seq(Int) /\ Len(padded) = w
      /\ \A k \in 1..w : padded[k] = IF k <= w - d THEN 0 ELSE t[k - (w - d)]
  BY <1>2, PadFact
<1> HIDE DEF padded
<1>4. ASSUME NEW k \in 1..w, k <= w - d PROVE padded[k] = Text(n, w)[k]
  <2>1. w - k \in Nat /\ d <= w - k
    BY <1>4
  <2>2. Power[d] <= Power[w - k]
    BY <2>1, PowerGrows
  <2>3. Power[w - k] \in Nat \ {0} /\ Power[d] \in Nat
    BY <2>1, PowerType
  <2>4. n \div Power[w - k] = 0
    BY <2>2, <2>3, DivideSmall
  <2>5. 0 % Base = 0
    BY EventIdsAssumption, DivideSmall
  <2>6. Text(n, w)[k] = 0
    BY <1>4, <2>4, <2>5 DEF Text
  <2> QED
    BY <1>3, <1>4, <2>6
<1>5. ASSUME NEW k \in 1..w, ~(k <= w - d) PROVE padded[k] = Text(n, w)[k]
  <2>1. k - (w - d) \in 1..d /\ d - (k - (w - d)) = w - k
    BY <1>5
  <2>2. t[k - (w - d)] = Text(n, w)[k]
    BY <1>5, <2>1 DEF Text, t
  <2> QED
    BY <1>3, <1>5, <2>2
<1>6. Text(n, w) \in Seq(Int) /\ Len(Text(n, w)) = w
  BY TextType
<1>7. \A k \in 1..w : padded[k] = Text(n, w)[k]
  BY <1>4, <1>5
<1> DEFINE u == Text(n, w)
<1> HIDE DEF u
<1>8. padded = u
  BY <1>3, <1>6, <1>7 DEF u
<1> QED
  BY <1>8 DEF padded, t, u

\* A digit is what the number up to it has over the number before it.
LEMMA PrefixFact ==
    ASSUME NEW n \in Nat, NEW w \in Nat, NEW k \in 1..w
    PROVE  n \div Power[w - k] = Base * (n \div Power[w - (k - 1)]) + Text(n, w)[k]
<1>1. w - (k - 1) \in Nat /\ w - (k - 1) # 0 /\ w - k = (w - (k - 1)) - 1
  OBVIOUS
<1>2. Power[w - (k - 1)] = Base * Power[w - k] /\ Power[w - k] \in Nat \ {0}
  BY <1>1, PowerNext
<1> DEFINE q == n \div Power[w - k]
<1>3. q \in Nat
  BY <1>2, DivideFact
<1>4. n \div Power[w - (k - 1)] = q \div Base
  BY <1>2, DivideTwice, EventIdsAssumption
<1>5. Text(n, w)[k] = q % Base
  BY DEF Text
<1> HIDE DEF q
<1> DEFINE h == q \div Base
           l == q % Base
<1>6. q = h * Base + l /\ h \in Nat
  BY <1>3, DivideFact, EventIdsAssumption
<1> HIDE DEF h, l
<1>7. q = Base * h + l
  BY <1>6, EventIdsAssumption
<1> QED
  BY <1>4, <1>5, <1>7, Zenon DEF q, h, l

\* Of two numbers of the same width, the smaller has the smaller digit where their
\* texts differ first.
LEMMA TextOrder ==
    ASSUME NEW w \in Nat \ {0}, NEW m \in Nat, NEW n \in Nat, m < n, n < Power[w]
    PROVE  \E k \in 1..w : /\ \A j \in 1..(k - 1) : Text(m, w)[j] = Text(n, w)[j]
                           /\ Text(m, w)[k] < Text(n, w)[k]
<1> DEFINE upTo(x, k) == x \div Power[w - k]
           T == {k \in Nat : k <= w /\ upTo(m, k) # upTo(n, k)}
<1>1. upTo(m, w) = m /\ upTo(n, w) = n
  BY PowerFact
<1>2. upTo(m, 0) = 0 /\ upTo(n, 0) = 0
  <2>1. Power[w] \in Nat \ {0} /\ m < Power[w] /\ w - 0 = w
    BY PowerType
  <2> QED
    BY <2>1, DivideSmall
<1>3. ASSUME NEW k \in 0..w
      PROVE  upTo(m, k) \in Nat /\ upTo(n, k) \in Nat /\ upTo(m, k) <= upTo(n, k)
  <2>1. Power[w - k] \in Nat \ {0}
    BY PowerType
  <2>2. m \div Power[w - k] \in Nat /\ n \div Power[w - k] \in Nat
    BY <2>1, DivideFact
  <2>3. m \div Power[w - k] <= n \div Power[w - k]
    BY <2>1, DivideGrows
  <2> QED
    BY <2>2, <2>3
<1>4. \A k \in 1..w : /\ upTo(m, k) = Base * upTo(m, k - 1) + Text(m, w)[k]
                      /\ upTo(n, k) = Base * upTo(n, k - 1) + Text(n, w)[k]
  BY PrefixFact
<1> HIDE DEF upTo
<1>5. w \in T
  BY <1>1
<1>6. PICK k \in T : \A j \in T : k <= j
  BY <1>5, LeastFact
<1>7. k \in 1..w
  BY <1>2, <1>6
<1>8. ASSUME NEW j \in 0..(k - 1) PROVE upTo(m, j) = upTo(n, j)
  <2>1. j \in Nat /\ j <= w /\ ~(k <= j)
    BY <1>7, <1>8
  <2> QED
    BY <1>6, <2>1
<1>9. \A j \in 1..w : Text(m, w)[j] \in Int /\ Text(n, w)[j] \in Int
  <2>1. 0..(Base - 1) \subseteq Int
    BY EventIdsAssumption
  <2> QED
    BY <2>1, TextType
<1>10. ASSUME NEW j \in 1..(k - 1) PROVE Text(m, w)[j] = Text(n, w)[j]
  <2>1. upTo(m, j) = upTo(n, j) /\ upTo(m, j - 1) = upTo(n, j - 1) /\ j \in 1..w /\ j - 1 \in 0..w
    BY <1>7, <1>8
  <2>2. Base * upTo(m, j - 1) \in Int
    BY <1>3, <2>1, EventIdsAssumption
  <2> QED
    BY <1>3, <1>4, <1>9, <2>1, <2>2
<1>11. Text(m, w)[k] < Text(n, w)[k]
  <2>1. upTo(m, k) < upTo(n, k) /\ upTo(m, k - 1) = upTo(n, k - 1) /\ k - 1 \in 0..w
    BY <1>3, <1>6, <1>7, <1>8
  <2>2. Base * upTo(m, k - 1) \in Int
    BY <1>3, <2>1, EventIdsAssumption
  <2> QED
    BY <1>3, <1>4, <1>7, <1>9, <2>1, <2>2
<1> QED
  BY <1>7, <1>10, <1>11


-----------------------------------------------------------------------------
(* The order of strings is a strict and total order. *)

LEMMA LexTransitive ==
    ASSUME NEW a \in Seq(Int), NEW b \in Seq(Int), NEW c \in Seq(Int),
           LexLess(a, b), LexLess(b, c)
    PROVE  LexLess(a, c)
<1>1. PICK k \in 1..(Len(a) + 1) : /\ k <= Len(b)
                                   /\ \A j \in 1..(k - 1) : a[j] = b[j]
                                   /\ k = Len(a) + 1 \/ a[k] < b[k]
  BY DEF LexLess
<1>2. PICK l \in 1..(Len(b) + 1) : /\ l <= Len(c)
                                   /\ \A j \in 1..(l - 1) : b[j] = c[j]
                                   /\ l = Len(b) + 1 \/ b[l] < c[l]
  BY DEF LexLess
<1>3. /\ \A j \in 1..Len(a) : a[j] \in Int
      /\ \A j \in 1..Len(b) : b[j] \in Int
      /\ \A j \in 1..Len(c) : c[j] \in Int
  OBVIOUS
<1>4. Len(a) \in Nat /\ Len(b) \in Nat /\ Len(c) \in Nat
  OBVIOUS
<1>5. CASE k <= l
  <2>1. k <= Len(c) /\ \A j \in 1..(k - 1) : a[j] = c[j]
    BY <1>1, <1>2, <1>4, <1>5, SMTT(30)
  <2>2. k = Len(a) + 1 \/ a[k] < c[k]
    <3> SUFFICES ASSUME k # Len(a) + 1 PROVE a[k] < c[k]
      OBVIOUS
    <3>1. a[k] < b[k] /\ k \in 1..Len(a) /\ k \in 1..Len(b) /\ k \in 1..Len(c)
      BY <1>1, <1>4, <2>1
    <3>2. b[k] <= c[k]
      <4>1. CASE k < l
        <5>1. k \in 1..(l - 1)
          BY <1>5, <4>1
        <5>2. b[k] = c[k]
          BY <1>2, <5>1
        <5> QED
          BY <1>3, <3>1, <5>2
      <4>2. CASE k = l
        <5>1. l # Len(b) + 1
          BY <1>4, <3>1, <4>2
        <5>2. b[k] < c[k]
          BY <1>2, <4>2, <5>1
        <5> QED
          BY <1>3, <3>1, <5>2, SMTT(30)
      <4> QED
        BY <1>5, <4>1, <4>2
    <3> QED
      BY <1>3, <3>1, <3>2, SMTT(30)
  <2> QED
    BY <1>1, <2>1, <2>2 DEF LexLess
<1>6. CASE l < k
  <2>1. l \in 1..Len(a) /\ l \in 1..Len(b) /\ l \in 1..Len(c)
    BY <1>1, <1>2, <1>4, <1>6, SMTT(30)
  <2>2. \A j \in 1..(l - 1) : a[j] = c[j]
    BY <1>1, <1>2, <1>4, <1>6
  <2>3. a[l] < c[l]
    <3>1. a[l] = b[l] /\ l # Len(b) + 1
      BY <1>1, <1>4, <1>6, <2>1
    <3> QED
      BY <1>2, <3>1
  <2>4. l \in 1..(Len(a) + 1) /\ l <= Len(c)
    BY <1>2, <1>4, <2>1
  <2> QED
    BY <2>2, <2>3, <2>4 DEF LexLess
<1> QED
  BY <1>1, <1>2, <1>5, <1>6

LEMMA LexIrreflexive == ASSUME NEW a \in Seq(Int) PROVE ~LexLess(a, a)
<1>1. \A j \in 1..Len(a) : a[j] \in Int
  OBVIOUS
<1> QED
  BY <1>1 DEF LexLess

LEMMA LexTotal ==
    ASSUME NEW a \in Seq(Int), NEW b \in Seq(Int), a # b
    PROVE  LexLess(a, b) \/ LexLess(b, a)
<1> DEFINE T == {k \in Nat \ {0} : k = Len(a) + 1 \/ k = Len(b) + 1 \/ a[k] # b[k]}
<1>1. Len(a) \in Nat /\ Len(b) \in Nat
  OBVIOUS
<1>2. T \in SUBSET Nat /\ Len(a) + 1 \in T /\ Len(b) + 1 \in T
  BY <1>1
<1>3. PICK k \in T : \A j \in T : k <= j
  BY <1>2, LeastFact
<1>4. k \in 1..(Len(a) + 1) /\ k \in 1..(Len(b) + 1)
  BY <1>1, <1>2, <1>3
<1>5. ASSUME NEW j \in 1..(k - 1) PROVE a[j] = b[j]
  <2>1. j \in Nat \ {0} /\ ~(k <= j)
    BY <1>4, <1>5
  <2> QED
    BY <1>3, <2>1
<1>6. CASE k = Len(a) + 1
  <2>1. ASSUME k = Len(b) + 1 PROVE FALSE
    <3>1. Len(a) = Len(b) /\ \A j \in 1..Len(a) : a[j] = b[j]
      BY <1>1, <1>5, <1>6, <2>1
    <3> QED
      BY <3>1
  <2>2. k <= Len(b)
    BY <1>1, <1>4, <2>1
  <2> QED
    BY <1>4, <1>5, <1>6, <2>2 DEF LexLess
<1>7. CASE k = Len(b) + 1 /\ k # Len(a) + 1
  <2>1. k <= Len(a)
    BY <1>1, <1>4, <1>7, SMTT(30)
  <2> QED
    BY <1>4, <1>5, <1>7, <2>1 DEF LexLess
<1>8. CASE k # Len(a) + 1 /\ k # Len(b) + 1
  <2>1. k \in 1..Len(a) /\ k \in 1..Len(b) /\ a[k] # b[k]
    BY <1>1, <1>3, <1>4, <1>8, SMTT(30)
  <2>2. a[k] \in Int /\ b[k] \in Int
    BY <2>1
  <2>3. a[k] < b[k] \/ b[k] < a[k]
    BY <2>1, <2>2
  <2> QED
    BY <1>4, <1>5, <2>1, <2>3 DEF LexLess
<1> QED
  BY <1>6, <1>7, <1>8

-----------------------------------------------------------------------------
(* Ids and keys. *)

\* p was drawn before q, or q's millisecond is later.
Before(p, q) == p.ms < q.ms \/ (p.ms = q.ms /\ p.counter < q.counter)

\* The text of an id and of a key, for numbers that fit in their widths.
Key(m, c, w) == Text(m, w) \o <<Dash>> \o Text(c, CounterWidth)

LEMMA KeyFact ==
    ASSUME NEW w \in Nat, NEW m \in Nat, NEW c \in Nat
    PROVE  /\ Key(m, c, w) \in Seq(Int)
           /\ Len(Key(m, c, w)) = w + 1 + CounterWidth
           /\ \A k \in 1..w : Key(m, c, w)[k] = Text(m, w)[k]
           /\ Key(m, c, w)[w + 1] = Dash
           /\ \A k \in 1..CounterWidth : Key(m, c, w)[w + 1 + k] = Text(c, CounterWidth)[k]
<1> DEFINE s == Text(m, w)
           t == Text(c, CounterWidth)
           v == <<Dash>>
<1>1. CounterWidth \in Nat /\ Dash \in Int
  BY EventIdsAssumption DEF Dash
<1>2. s \in Seq(Int) /\ Len(s) = w /\ t \in Seq(Int) /\ Len(t) = CounterWidth
  BY <1>1, TextType
<1>3. v \in Seq(Int) /\ Len(v) = 1 /\ v[1] = Dash
  BY <1>1
<1>4. Key(m, c, w) = (s \o v) \o t
  BY DEF Key
<1> HIDE DEF s, t, v
<1> DEFINE u == s \o v
           r == u \o t
<1>5. /\ u \in Seq(Int) /\ Len(u) = Len(s) + Len(v)
      /\ \A k \in 1..Len(s) : u[k] = s[k]
      /\ \A k \in 1..Len(v) : u[Len(s) + k] = v[k]
  BY <1>2, <1>3, ConcatFact, Zenon
<1>6. /\ r \in Seq(Int) /\ Len(r) = Len(u) + Len(t)
      /\ \A k \in 1..Len(u) : r[k] = u[k]
      /\ \A k \in 1..Len(t) : r[Len(u) + k] = t[k]
  BY <1>2, <1>5, ConcatFact, Zenon
<1>7. Key(m, c, w) = r
  BY <1>4, Zenon
<1> HIDE DEF u, r
<1>8. /\ Len(u) = w + 1 /\ Len(r) = w + 1 + CounterWidth
      /\ \A k \in 1..CounterWidth : r[w + 1 + k] = t[k]
  BY <1>1, <1>2, <1>3, <1>5, <1>6
<1>9. \A k \in 1..w : r[k] = s[k]
  BY <1>2, <1>5, <1>6, <1>8
<1>10. r[w + 1] = Dash
  <2>1. u[w + 1] = Dash
    BY <1>2, <1>3, <1>5
  <2> QED
    BY <1>6, <1>8, <2>1
<1> QED
  BY <1>6, <1>7, <1>8, <1>9, <1>10, Zenon DEF s, t

LEMMA KeyLength ==
    ASSUME NEW w \in Nat \ {0}, NEW m \in Nat, NEW c \in Nat, NEW n \in Nat, NEW d \in Nat
    PROVE  /\ Key(m, c, w) \in Seq(Int) /\ Key(n, d, w) \in Seq(Int)
           /\ Len(Key(m, c, w)) = Len(Key(n, d, w))
<1>1. w \in Nat
  OBVIOUS
<1>2. Key(m, c, w) \in Seq(Int) /\ Len(Key(m, c, w)) = w + 1 + CounterWidth
  BY <1>1, KeyFact
<1>3. Key(n, d, w) \in Seq(Int) /\ Len(Key(n, d, w)) = w + 1 + CounterWidth
  BY <1>1, KeyFact
<1> QED
  BY <1>2, <1>3

\* Keys of one width sort as the pairs of numbers do.
LEMMA KeyOrder ==
    ASSUME NEW w \in Nat \ {0},
           NEW m \in Nat, NEW c \in Nat, NEW n \in Nat, NEW d \in Nat,
           m < Power[w], c < Power[CounterWidth], n < Power[w], d < Power[CounterWidth],
           m < n \/ (m = n /\ c < d)
    PROVE  LexLess(Key(m, c, w), Key(n, d, w))
<1> DEFINE a == Key(m, c, w)
           b == Key(n, d, w)
<1>1. CounterWidth \in Nat \ {0}
  BY EventIdsAssumption
<1>2. w \in Nat
  OBVIOUS
<1>3. /\ a \in Seq(Int)
      /\ Len(a) = w + 1 + CounterWidth
      /\ \A k \in 1..w : a[k] = Text(m, w)[k]
      /\ a[w + 1] = Dash
      /\ \A k \in 1..CounterWidth : a[w + 1 + k] = Text(c, CounterWidth)[k]
  BY <1>2, KeyFact, ZenonT(30)
<1>4. /\ b \in Seq(Int)
      /\ Len(b) = w + 1 + CounterWidth
      /\ \A k \in 1..w : b[k] = Text(n, w)[k]
      /\ b[w + 1] = Dash
      /\ \A k \in 1..CounterWidth : b[w + 1 + k] = Text(d, CounterWidth)[k]
  BY <1>2, KeyFact, ZenonT(30)
<1> HIDE DEF a, b
<1>5. /\ Len(a) = w + 1 + CounterWidth /\ Len(b) = w + 1 + CounterWidth
      /\ \A k \in 1..w : a[k] = Text(m, w)[k] /\ b[k] = Text(n, w)[k]
      /\ a[w + 1] = b[w + 1]
      /\ \A k \in 1..CounterWidth : /\ a[w + 1 + k] = Text(c, CounterWidth)[k]
                                    /\ b[w + 1 + k] = Text(d, CounterWidth)[k]
  BY <1>3, <1>4
<1>6. CASE m < n
  <2>1. PICK k \in 1..w : /\ \A j \in 1..(k - 1) : Text(m, w)[j] = Text(n, w)[j]
                          /\ Text(m, w)[k] < Text(n, w)[k]
    BY <1>6, TextOrder
  <2>2. k \in 1..(Len(a) + 1) /\ k <= Len(b)
    BY <1>1, <1>5
  <2>3. \A j \in 1..(k - 1) : a[j] = b[j]
    BY <1>5, <2>1
  <2>4. a[k] < b[k]
    BY <1>5, <2>1
  <2> QED
    BY <2>2, <2>3, <2>4 DEF LexLess, a, b
<1>7. CASE m = n /\ c < d
  <2>1. PICK k \in 1..CounterWidth :
           /\ \A j \in 1..(k - 1) : Text(c, CounterWidth)[j] = Text(d, CounterWidth)[j]
           /\ Text(c, CounterWidth)[k] < Text(d, CounterWidth)[k]
    BY <1>1, <1>7, TextOrder
  <2> DEFINE l == w + 1 + k
  <2>2. l \in 1..(Len(a) + 1) /\ l <= Len(b)
    BY <1>1, <1>5
  <2>3. ASSUME NEW j \in 1..(l - 1) PROVE a[j] = b[j]
    <3>1. CASE j \in 1..w
      BY <1>5, <1>7, <3>1
    <3>2. CASE j = w + 1
      BY <1>5, <3>2
    <3>3. CASE j > w + 1
      <4> DEFINE i == j - (w + 1)
      <4>1. i \in 1..(k - 1) /\ i \in 1..CounterWidth /\ j = w + 1 + i
        BY <1>1, <2>3, <3>3
      <4> HIDE DEF i
      <4> QED
        BY <1>5, <2>1, <4>1
    <3> QED
      BY <2>3, <3>1, <3>2, <3>3
  <2>4. a[l] < b[l]
    BY <1>5, <2>1
  <2> HIDE DEF l
  <2> QED
    BY <2>2, <2>3, <2>4 DEF LexLess, a, b
<1> QED
  BY <1>6, <1>7

\* ... and only so.
LEMMA KeyOrderExact ==
    ASSUME NEW w \in Nat \ {0},
           NEW m \in Nat, NEW c \in Nat, NEW n \in Nat, NEW d \in Nat,
           m < Power[w], c < Power[CounterWidth], n < Power[w], d < Power[CounterWidth]
    PROVE  LexLess(Key(m, c, w), Key(n, d, w)) <=> m < n \/ (m = n /\ c < d)
<1>1. Key(m, c, w) \in Seq(Int) /\ Key(n, d, w) \in Seq(Int)
  BY KeyFact
<1>2. CASE m < n \/ (m = n /\ c < d)
  BY <1>2, KeyOrder
<1>3. CASE m = n /\ c = d
  BY <1>1, <1>3, LexIrreflexive
<1>4. CASE n < m \/ (n = m /\ d < c)
  <2>1. LexLess(Key(n, d, w), Key(m, c, w))
    BY <1>4, KeyOrder
  <2>2. ~LexLess(Key(m, c, w), Key(n, d, w))
    BY <1>1, <2>1, LexTransitive, LexIrreflexive
  <2> QED
    BY <1>4, <2>2
<1> QED
  BY <1>2, <1>3, <1>4

\* The digits of any number are a string, and so are a key and a member.
LEMMA DigitsType == ASSUME NEW n \in Nat PROVE Digits(n) \in Seq(Int)
<1>1. Width(n) \in Nat /\ Digits(n) = Text(n, Width(n))
  BY WidthFact DEF Digits, Text
<1> QED
  BY <1>1, TextType

LEMMA PadType ==
    ASSUME NEW t \in Seq(Int), NEW w \in Nat
    PROVE  padStart(t, w) \in Seq(Int)
<1> DEFINE zeros == [k \in 1..(w - Len(t)) |-> 0]
<1>1. zeros \in Seq(Int)
  <2>1. CASE Len(t) <= w
    <3>1. w - Len(t) \in Nat
      BY <2>1
    <3> QED
      BY <3>1
  <2>2. CASE ~(Len(t) <= w)
    <3>1. zeros = << >>
      BY <2>2
    <3> QED
      BY <3>1
  <2> QED
    BY <2>1, <2>2
<1> HIDE DEF zeros
<1>2. zeros \o t \in Seq(Int)
  BY <1>1
<1> QED
  BY <1>2 DEF padStart, zeros

LEMMA MemberFact ==
    ASSUME NEW id \in IdPairs, NEW e \in Events
    PROVE  /\ encodeMember(id, e) \in Seq(Int)
           /\ encodeMember(id, e)[Len(encodeMember(id, e))] = Base + e
           /\ lexKey(id) \in Seq(Int)
<1>1. id.ms \in Nat /\ id.counter \in Nat
  BY DEF IdPairs
<1>2. MsWidth \in Nat /\ CounterWidth \in Nat /\ Dash \in Int /\ Bar \in Int /\ Base + e \in Int
  BY EventIdsAssumption, OfflineKeysAssumption DEF Dash, Bar, Events
<1>3. padStart(Digits(id.ms), MsWidth) \in Seq(Int)
  BY <1>1, <1>2, DigitsType, PadType
<1>4. padStart(Digits(id.counter), CounterWidth) \in Seq(Int)
  BY <1>1, <1>2, DigitsType, PadType
<1> DEFINE key == lexKey(id)
<1>5. key \in Seq(Int)
  BY <1>2, <1>3, <1>4 DEF lexKey
<1> HIDE DEF key
<1> DEFINE tail == <<Bar, Base + e>>
<1>6. tail \in Seq(Int) /\ Len(tail) = 2 /\ tail[2] = Base + e
  BY <1>2
<1> HIDE DEF tail
<1>7. key \o tail \in Seq(Int) /\ (key \o tail)[Len(key \o tail)] = Base + e
  <2> DEFINE r == key \o tail
  <2>1. /\ r \in Seq(Int) /\ Len(r) = Len(key) + Len(tail)
        /\ \A k \in 1..Len(tail) : r[Len(key) + k] = tail[k]
    BY <1>5, <1>6, ConcatFact, Zenon
  <2> HIDE DEF r
  <2>2. r[Len(r)] = Base + e
    BY <1>6, <2>1
  <2> QED
    BY <2>1, <2>2 DEF r
<1>8. encodeMember(id, e) = key \o tail
  BY DEF encodeMember, key, tail
<1> QED
  BY <1>5, <1>7, <1>8 DEF key

LEMMA MembersDiffer ==
    ASSUME NEW p \in IdPairs, NEW q \in IdPairs, NEW d \in Events, NEW e \in Events, d # e
    PROVE  encodeMember(p, d) # encodeMember(q, e)
<1>1. /\ encodeMember(p, d)[Len(encodeMember(p, d))] = Base + d
      /\ encodeMember(q, e)[Len(encodeMember(q, e))] = Base + e
  BY MemberFact
<1>2. Base + d # Base + e
  BY EventIdsAssumption, OfflineKeysAssumption DEF Events
<1> QED
  BY <1>1, <1>2

\* Every reading of the clock has as many digits as the last, and one more
\* millisecond fits in the padding.
LEMMA WindowFact ==
    ASSUME NEW n \in FirstMs..MaxMs
    PROVE  /\ n \in Nat /\ n + 1 \in Nat
           /\ Width(n) = Width(MaxMs)
           /\ n < Power[MsWidth] /\ n + 1 < Power[MsWidth]
<1>1. n \in Nat /\ FirstMs \in Nat /\ MaxMs \in Nat /\ FirstMs <= n /\ n <= MaxMs
  BY OfflineKeysAssumption
<1>2. \A m \in Nat : Len(Digits(m)) = Width(m)
  <2> SUFFICES ASSUME NEW m \in Nat PROVE Len(Digits(m)) = Width(m)
    OBVIOUS
  <2>1. Width(m) \in Nat /\ Digits(m) = Text(m, Width(m))
    BY WidthFact DEF Digits, Text
  <2> QED
    BY <2>1, TextType
<1>3. Width(FirstMs) = Width(MaxMs)
  BY <1>1, <1>2, OfflineKeysAssumption
<1>4. Width(FirstMs) <= Width(n) /\ Width(n) <= Width(MaxMs)
  BY <1>1, WidthGrows
<1>5. Width(n) \in Nat /\ Width(MaxMs) \in Nat
  BY <1>1, WidthFact
<1>6. Power[MsWidth] \in Nat /\ MaxMs + 1 < Power[MsWidth]
  BY PowerType, EventIdsAssumption, OfflineKeysAssumption
<1> QED
  BY <1>1, <1>3, <1>4, <1>5, <1>6

\* The ids of the model's clock whose counters keep their width.
Fitting == {id \in IdPairs : id.ms \in FirstMs..MaxMs /\ FitsWidth(id)}

LEMMA FittingFact ==
    ASSUME NEW id \in Fitting
    PROVE  /\ id \in IdPairs /\ id.ms \in Nat /\ id.counter \in Nat
           /\ id.ms \in FirstMs..MaxMs
           /\ id.counter < Power[CounterWidth]
           /\ padStart(Digits(id.counter), CounterWidth) = Text(id.counter, CounterWidth)
<1>1. id \in IdPairs /\ id.ms \in Nat /\ id.counter \in Nat
      /\ id.counter < Power[CounterWidth] /\ id.ms \in FirstMs..MaxMs
  BY DEF Fitting, IdPairs, FitsWidth
<1>2. CounterWidth \in Nat \ {0}
  BY EventIdsAssumption
<1> QED
  BY <1>1, <1>2, PaddedFact

LEMMA IdTextFact ==
    ASSUME NEW id \in Fitting
    PROVE  IdText(id) = Key(id.ms, id.counter, Width(MaxMs))
<1>1. Width(id.ms) = Width(MaxMs) /\ id.ms \in Nat
  BY FittingFact, WindowFact
<1>2. Digits(id.ms) = Text(id.ms, Width(MaxMs))
  BY <1>1 DEF Digits, Text
<1>3. padStart(Digits(id.counter), CounterWidth) = Text(id.counter, CounterWidth)
  BY FittingFact
<1> QED
  BY <1>2, <1>3 DEF IdText, Key

LEMMA LexKeyFact ==
    ASSUME NEW m \in Nat, NEW c \in Nat, m < Power[MsWidth], c < Power[CounterWidth]
    PROVE  lexKey([ms |-> m, counter |-> c]) = Key(m, c, MsWidth)
<1>1. CounterWidth \in Nat \ {0} /\ MsWidth \in Nat \ {0}
  BY EventIdsAssumption
<1>2. /\ padStart(Digits(m), MsWidth) = Text(m, MsWidth)
      /\ padStart(Digits(c), CounterWidth) = Text(c, CounterWidth)
  BY <1>1, PaddedFact
<1> QED
  BY <1>2 DEF lexKey, Key

\* The key of a fitting id, and the next key: what sorts before it is what the id does
\* not precede.
LEMMA KeyOfFact ==
    ASSUME NEW id \in Fitting
    PROVE  lexKey(id) = Key(id.ms, id.counter, MsWidth)
<1>1. /\ id.ms \in Nat /\ id.counter \in Nat
      /\ id.ms < Power[MsWidth] /\ id.counter < Power[CounterWidth]
  BY FittingFact, WindowFact
<1>2. id = [ms |-> id.ms, counter |-> id.counter]
  BY FittingFact DEF IdPairs
<1> QED
  BY <1>1, <1>2, LexKeyFact

LEMMA NextKeyFact ==
    ASSUME NEW q \in Fitting
    PROVE  \E n, d \in Nat :
              /\ n < Power[MsWidth] /\ d < Power[CounterWidth]
              /\ lexKeyNext(q) = Key(n, d, MsWidth)
              /\ \A p \in Fitting :
                    p.ms < n \/ (p.ms = n /\ p.counter < d) <=> ~Before(q, p)
<1>1. /\ q.ms \in Nat /\ q.counter \in Nat /\ q.ms + 1 \in Nat /\ q.counter + 1 \in Nat
      /\ q.ms < Power[MsWidth] /\ q.ms + 1 < Power[MsWidth]
      /\ q.counter < Power[CounterWidth]
  BY FittingFact, WindowFact
<1>2. \A p \in Fitting : p.ms \in Nat /\ p.counter \in Nat /\ p.counter < Power[CounterWidth]
  BY FittingFact
<1>3. Power[CounterWidth] \in Nat \ {0}
  BY PowerType, EventIdsAssumption
<1>4. CASE q.counter < Power[CounterWidth] - 1
  <2>1. lexKeyNext(q) = lexKey([ms |-> q.ms, counter |-> q.counter + 1])
    BY <1>4, FittingFact DEF lexKeyNext, IdPairs
  <2>2. q.counter + 1 < Power[CounterWidth]
    BY <1>1, <1>3, <1>4
  <2>3. lexKeyNext(q) = Key(q.ms, q.counter + 1, MsWidth)
    BY <1>1, <2>1, <2>2, LexKeyFact
  <2>4. \A p \in Fitting : p.ms < q.ms \/ (p.ms = q.ms /\ p.counter < q.counter + 1)
                               <=> ~Before(q, p)
    BY <1>1, <1>2 DEF Before
  <2> QED
    BY <1>1, <2>2, <2>3, <2>4
<1>5. CASE ~(q.counter < Power[CounterWidth] - 1)
  <2>1. lexKeyNext(q) = lexKey([ms |-> q.ms + 1, counter |-> 0])
    BY <1>5 DEF lexKeyNext
  <2>2. 0 \in Nat /\ 0 < Power[CounterWidth]
    BY <1>3
  <2>3. lexKeyNext(q) = Key(q.ms + 1, 0, MsWidth)
    BY <1>1, <2>1, <2>2, LexKeyFact
  <2>4. \A p \in Fitting : p.ms < q.ms + 1 \/ (p.ms = q.ms + 1 /\ p.counter < 0)
                               <=> ~Before(q, p)
    BY <1>1, <1>2, <1>3, <1>5 DEF Before
  <2> QED
    BY <1>1, <2>2, <2>3, <2>4
<1> QED
  BY <1>4, <1>5

\* What follows the key in a member does not count beside a key of the same length.
LEMMA MemberOrder ==
    ASSUME NEW a \in Seq(Int), NEW t \in Seq(Int), Len(t) > 0, NEW b \in Seq(Int), Len(a) = Len(b)
    PROVE  LexLess(a \o t, b) <=> LexLess(a, b)
<1> DEFINE m == a \o t
<1>1. /\ m \in Seq(Int) /\ Len(m) = Len(a) + Len(t)
      /\ \A k \in 1..Len(a) : m[k] = a[k]
  BY ConcatFact, Zenon
<1>2. Len(a) \in Nat /\ Len(t) \in Nat /\ Len(a) = Len(b) /\ Len(t) > 0
  OBVIOUS
<1> HIDE DEF m
<1>3. ASSUME LexLess(m, b) PROVE LexLess(a, b)
  <2>1. PICK k \in 1..(Len(m) + 1) : /\ k <= Len(b)
                                     /\ \A j \in 1..(k - 1) : m[j] = b[j]
                                     /\ k = Len(m) + 1 \/ m[k] < b[k]
    BY <1>3 DEF LexLess
  <2> DEFINE l == Len(a)
             n == Len(m)
             i == Len(t)
  <2>2. l \in Nat /\ i \in Nat /\ i > 0 /\ n = l + i /\ k \in 1..(n + 1) /\ k <= l
    BY <1>1, <1>2, <2>1
  <2> HIDE DEF l, n, i
  <2>3. k \in 1..l /\ k \in 1..(l + 1) /\ k # n + 1
    BY <2>2
  <2>4. k \in 1..Len(a) /\ k \in 1..(Len(a) + 1) /\ k # Len(m) + 1
    BY <2>3 DEF l, n
  <2>5. a[k] < b[k] /\ \A j \in 1..(k - 1) : a[j] = b[j]
    BY <1>1, <1>2, <2>1, <2>4
  <2> QED
    BY <2>1, <2>4, <2>5 DEF LexLess
<1>4. ASSUME LexLess(a, b) PROVE LexLess(m, b)
  <2>1. PICK k \in 1..(Len(a) + 1) : /\ k <= Len(b)
                                     /\ \A j \in 1..(k - 1) : a[j] = b[j]
                                     /\ k = Len(a) + 1 \/ a[k] < b[k]
    BY <1>4 DEF LexLess
  <2> DEFINE l == Len(a)
             n == Len(m)
             i == Len(t)
  <2>2. l \in Nat /\ i \in Nat /\ i > 0 /\ n = l + i /\ k \in 1..(l + 1) /\ k <= l
    BY <1>1, <1>2, <2>1
  <2> HIDE DEF l, n, i
  <2>3. k \in 1..l /\ k \in 1..(n + 1) /\ k # l + 1
    BY <2>2
  <2>4. k \in 1..Len(a) /\ k \in 1..(Len(m) + 1) /\ k # Len(a) + 1
    BY <2>3 DEF l, n
  <2>5. m[k] < b[k] /\ \A j \in 1..(k - 1) : m[j] = b[j]
    BY <1>1, <1>2, <2>1, <2>4
  <2> QED
    BY <2>1, <2>4, <2>5 DEF LexLess
<1> QED
  BY <1>3, <1>4, Zenon DEF m

\* The bound of a range falls right after the members of its id.
LEMMA RangeFact ==
    ASSUME NEW p \in Fitting, NEW q \in Fitting, NEW e \in Events
    PROVE  LexLess(encodeMember(p, e), lexKeyNext(q)) <=> ~Before(q, p)
<1>1. PICK n, d \in Nat :
              /\ n < Power[MsWidth] /\ d < Power[CounterWidth]
              /\ lexKeyNext(q) = Key(n, d, MsWidth)
              /\ p.ms < n \/ (p.ms = n /\ p.counter < d) <=> ~Before(q, p)
  BY NextKeyFact
<1>2. /\ p.ms \in Nat /\ p.counter \in Nat
      /\ p.ms < Power[MsWidth] /\ p.counter < Power[CounterWidth]
      /\ lexKey(p) = Key(p.ms, p.counter, MsWidth)
  BY FittingFact, WindowFact, KeyOfFact
<1>3. MsWidth \in Nat \ {0} /\ Bar \in Int /\ Base + e \in Int
  BY EventIdsAssumption, OfflineKeysAssumption DEF Bar, Events
<1> DEFINE a == Key(p.ms, p.counter, MsWidth)
           b == Key(n, d, MsWidth)
           t == <<Bar, Base + e>>
<1>4. t \in Seq(Int) /\ Len(t) > 0
  BY <1>3
<1>5. a \in Seq(Int) /\ b \in Seq(Int) /\ Len(a) = Len(b)
  BY <1>1, <1>2, <1>3, KeyLength, SMTT(30)
<1>6. encodeMember(p, e) = a \o t
  BY <1>2 DEF encodeMember
<1>7. LexLess(a, b) <=> p.ms < n \/ (p.ms = n /\ p.counter < d)
  BY <1>1, <1>2, <1>3, KeyOrderExact
<1>8. LexLess(a \o t, b) <=> LexLess(a, b)
  BY <1>4, <1>5, MemberOrder, Zenon
<1> HIDE DEF a, b, t
<1> QED
  BY <1>1, <1>6, <1>7, <1>8, Zenon DEF b

\* Members sort as their ids.
LEMMA MembersSorted ==
    ASSUME NEW p \in Fitting, NEW q \in Fitting, NEW d \in Events, NEW e \in Events, Before(p, q)
    PROVE  LexLess(encodeMember(p, d), encodeMember(q, e))
<1>1. /\ p.ms \in Nat /\ p.counter \in Nat
      /\ p.ms < Power[MsWidth] /\ p.counter < Power[CounterWidth]
      /\ lexKey(p) = Key(p.ms, p.counter, MsWidth)
  BY FittingFact, WindowFact, KeyOfFact
<1>2. /\ q.ms \in Nat /\ q.counter \in Nat
      /\ q.ms < Power[MsWidth] /\ q.counter < Power[CounterWidth]
      /\ lexKey(q) = Key(q.ms, q.counter, MsWidth)
  BY FittingFact, WindowFact, KeyOfFact
<1>3. MsWidth \in Nat \ {0} /\ Bar \in Int /\ Base + d \in Int /\ Base + e \in Int
  BY EventIdsAssumption, OfflineKeysAssumption DEF Bar, Events
<1> DEFINE a == Key(p.ms, p.counter, MsWidth)
           b == Key(q.ms, q.counter, MsWidth)
           s == <<Bar, Base + d>>
           t == <<Bar, Base + e>>
<1>4. s \in Seq(Int) /\ t \in Seq(Int) /\ Len(s) > 0
  BY <1>3
<1>5. a \in Seq(Int) /\ b \in Seq(Int) /\ Len(a) = Len(b)
  BY <1>1, <1>2, <1>3, KeyLength, SMTT(30)
<1>6. encodeMember(p, d) = a \o s /\ encodeMember(q, e) = b \o t
  BY <1>1, <1>2 DEF encodeMember
<1>7. LexLess(a, b)
  BY <1>1, <1>2, <1>3, KeyOrder DEF Before
<1>8. LexLess(a \o s, b)
  BY <1>4, <1>5, <1>7, MemberOrder, Zenon
<1>9. LexLess(b, b \o t)
  <2> DEFINE m == b \o t
  <2> HIDE DEF a, b, s, t
  <2>1. /\ m \in Seq(Int) /\ Len(m) = Len(b) + Len(t)
        /\ \A k \in 1..Len(b) : m[k] = b[k]
    BY <1>4, <1>5, ConcatFact, Zenon
  <2>2. Len(t) = 2
    BY DEF t
  <2> HIDE DEF m
  <2>3. Len(b) + 1 \in 1..(Len(b) + 1) /\ Len(b) + 1 <= Len(m)
    BY <1>5, <2>1, <2>2
  <2>4. \A j \in 1..((Len(b) + 1) - 1) : b[j] = m[j]
    BY <1>5, <2>1
  <2>5. LexLess(b, m)
    BY <2>3, <2>4 DEF LexLess
  <2> QED
    BY <2>5 DEF m
<1>10. a \o s \in Seq(Int) /\ b \o t \in Seq(Int)
  BY <1>4, <1>5, ConcatFact, Zenon
<1> HIDE DEF a, b, s, t
<1>11. LexLess(a \o s, b \o t)
  BY <1>5, <1>8, <1>9, <1>10, LexTransitive, Zenon
<1> QED
  BY <1>6, <1>11, Zenon

-----------------------------------------------------------------------------
(* Ranks in the sorted set. *)

LEMMA EventsFinite == ASSUME NEW S \in SUBSET Events PROVE IsFiniteSet(S) /\ Cardinality(S) \in Nat
<1>1. IsFiniteSet(Events)
  BY FS_Interval, OfflineKeysAssumption DEF Events
<1>2. IsFiniteSet(S)
  BY <1>1, FS_Subset
<1> QED
  BY <1>2, FS_CardinalityType

\* Ranks go from 0 to the number of members, and follow the order of the members.
LEMMA RankFact ==
    ASSUME NEW S \in SUBSET Events, NEW id \in [Events -> IdPairs]
    PROVE  /\ \A e \in S : Rank(e, S, id) \in 0..(Cardinality(S) - 1)
           /\ \A d, e \in S : LexLess(encodeMember(id[d], d), encodeMember(id[e], e))
                                 <=> Rank(d, S, id) < Rank(e, S, id)
           /\ \A d, e \in S : d # e => Rank(d, S, id) # Rank(e, S, id)
<1> DEFINE M(e) == encodeMember(id[e], e)
           Below(e) == {d \in S : LexLess(M(d), M(e))}
<1>1. \A e \in S : M(e) \in Seq(Int)
  BY MemberFact
<1>2. \A d, e \in S : d # e => M(d) # M(e)
  BY MembersDiffer
<1>3. \A e \in S : Rank(e, S, id) = Cardinality(Below(e))
  BY DEF Rank
<1> HIDE DEF M
<1>4. ASSUME NEW e \in S
      PROVE  /\ IsFiniteSet(Below(e)) /\ Cardinality(Below(e)) \in Nat
             /\ Cardinality(Below(e)) <= Cardinality(S) - 1
  <2>1. Below(e) \in SUBSET Events /\ Below(e) \in SUBSET (S \ {e})
    BY <1>1, LexIrreflexive
  <2>2. /\ IsFiniteSet(S) /\ Cardinality(S) \in Nat
        /\ IsFiniteSet(Below(e)) /\ Cardinality(Below(e)) \in Nat
    BY <2>1, EventsFinite
  <2>3. IsFiniteSet(S \ {e}) /\ Cardinality(S \ {e}) = Cardinality(S) - 1
    BY <2>2, FS_RemoveElement
  <2>4. Cardinality(Below(e)) <= Cardinality(S \ {e})
    BY <2>1, <2>3, FS_Subset
  <2> QED
    BY <2>2, <2>3, <2>4
<1>5. ASSUME NEW d \in S, NEW e \in S, LexLess(M(d), M(e))
      PROVE  Cardinality(Below(d)) < Cardinality(Below(e))
  <2>1. Below(d) \in SUBSET Below(e)
    BY <1>1, <1>5, LexTransitive
  <2>2. d \in Below(e) /\ d \notin Below(d)
    BY <1>1, <1>5, LexIrreflexive
  <2> HIDE DEF Below
  <2>3. Cardinality(Below(d)) <= Cardinality(Below(e))
    BY <1>4, <2>1, FS_Subset
  <2>4. Cardinality(Below(d)) # Cardinality(Below(e))
    BY <1>4, <2>1, <2>2, FS_Subset
  <2> QED
    BY <1>4, <2>3, <2>4
<1> HIDE DEF Below
<1>6. \A d, e \in S : d # e => LexLess(M(d), M(e)) \/ LexLess(M(e), M(d))
  BY <1>1, <1>2, LexTotal
<1>7. \A d, e \in S : LexLess(M(d), M(e)) <=> Cardinality(Below(d)) < Cardinality(Below(e))
  BY <1>4, <1>5, <1>6
<1>8. \A d, e \in S : d # e => Cardinality(Below(d)) # Cardinality(Below(e))
  BY <1>4, <1>5, <1>6
<1>9. Cardinality(S) \in Nat
  BY EventsFinite
<1> QED
  BY <1>3, <1>4, <1>7, <1>8, <1>9 DEF M

\* The members of the lower ranks, and those of the higher.
LEMMA LowRanks ==
    ASSUME NEW S \in SUBSET Events, NEW id \in [Events -> IdPairs], NEW m \in Nat
    PROVE  Cardinality({e \in S : Rank(e, S, id) < m}) <= m
<1> DEFINE T == {e \in S : Rank(e, S, id) < m}
           f == [e \in T |-> Rank(e, S, id)]
<1>1. \A e \in S : Rank(e, S, id) \in Nat
  BY RankFact, EventsFinite
<1>2. f \in Injection(T, 0..(m - 1))
  BY <1>1, RankFact DEF Injection, IsInjective
<1>3. IsFiniteSet(0..(m - 1)) /\ Cardinality(0..(m - 1)) = m
  BY FS_Interval
<1> HIDE DEF T, f
<1>4. Cardinality(T) <= m
  BY <1>2, <1>3, FS_Injection
<1> QED
  BY <1>4 DEF T

LEMMA HighRanks ==
    ASSUME NEW S \in SUBSET Events, NEW id \in [Events -> IdPairs],
           NEW m \in Nat, m <= Cardinality(S)
    PROVE  Cardinality({e \in S : Rank(e, S, id) >= m}) = Cardinality(S) - m
<1> DEFINE n == Cardinality(S)
           f == [e \in S |-> Rank(e, S, id)]
           T == {e \in S : f[e] >= m}
           g == [e \in T |-> f[e]]
<1>1. IsFiniteSet(S) /\ n \in Nat /\ m <= n
  BY EventsFinite
<1>2. f \in Injection(S, 0..(n - 1))
  BY RankFact DEF Injection, IsInjective
<1>3. T = {e \in S : Rank(e, S, id) >= m}
  OBVIOUS
<1> HIDE DEF n, f
<1>4. IsFiniteSet(0..(n - 1)) /\ Cardinality(0..(n - 1)) = n
  BY <1>1, FS_Interval
<1>5. f \in Surjection(S, 0..(n - 1))
  BY <1>1, <1>2, <1>4, FS_Injection DEF n
<1>6. f \in [S -> 0..(n - 1)] /\ \A d, e \in S : f[d] = f[e] => d = e
  BY <1>2 DEF Injection, IsInjective
<1>7. g \in [T -> m..(n - 1)]
  BY <1>1, <1>6
<1>8. g \in Injection(T, m..(n - 1))
  BY <1>6, <1>7 DEF Injection, IsInjective
<1>9. ASSUME NEW r \in m..(n - 1) PROVE \E e \in T : g[e] = r
  <2>1. r \in 0..(n - 1)
    BY <1>1, <1>9
  <2>2. PICK e \in S : f[e] = r
    BY <1>5, <2>1 DEF Surjection
  <2> QED
    BY <1>1, <1>9, <2>2
<1> HIDE DEF T, g
<1>10. g \in Surjection(T, m..(n - 1))
  BY <1>7, <1>9 DEF Surjection
<1>11. IsFiniteSet(m..(n - 1)) /\ Cardinality(m..(n - 1)) = n - m
  BY <1>1, FS_Interval
<1>12. Cardinality(T) = n - m
  BY <1>8, <1>10, <1>11, FS_Injection
<1> QED
  BY <1>3, <1>12 DEF n

-----------------------------------------------------------------------------
(* The inductive invariant. *)

\* No id is ahead of the clock, nor of what its instance drew last.
IdsBehind ==
    /\ \A i \in Instances : generator[i].ms <= clock
    /\ \A x \in Issued : /\ ids[x].ms \in FirstMs..clock
                         /\ ~Before(generator[issuer[x]], ids[x])

\* Events are numbered as they are emitted; milliseconds do not decrease, and one
\* instance's ids increase.
IdsOrdered ==
    /\ \A x \in Issued, d \in Events : d < x => d \in Issued
    /\ \A x, y \in Issued : x < y => /\ ids[x].ms <= ids[y].ms
                                     /\ issuer[x] = issuer[y] => Before(ids[x], ids[y])

\* An event that was not given to the client, and is comparable with those that were, is
\* no newer than its Last-Event-ID or newer than all of them.
BatchFirst ==
    batch # {} =>
        /\ since \in Issued
        /\ \A e \in zset \ batch :
              (\A x \in batch \cup {since} : Comparable(e, x)) =>
                  e <= since \/ \A b \in batch : b < e

IInv == TypeOK /\ IdsBehind /\ IdsOrdered /\ BatchFirst

LEMMA InitInv == Init => IInv
<1> SUFFICES ASSUME Init PROVE IInv
  OBVIOUS
<1>1. NewGenerator \in IdPairs /\ NewGenerator.ms = 0
  BY DEF NewGenerator, IdPairs
<1>2. Issued = {}
  BY DEF Init, Issued
<1>3. Cardinality({}) = 0
  BY FS_EmptySet
<1>4. (CHOOSE i \in Instances : TRUE) \in Instances
  BY OfflineKeysAssumption
<1>5. TypeOK
  BY <1>1, <1>2, <1>3, <1>4, OfflineKeysAssumption DEF Init, TypeOK
<1>6. IdsBehind
  BY <1>1, <1>2, OfflineKeysAssumption DEF Init, IdsBehind
<1>7. IdsOrdered
  BY <1>2 DEF IdsOrdered
<1>8. BatchFirst
  BY DEF Init, BatchFirst
<1> QED
  BY <1>5, <1>6, <1>7, <1>8 DEF IInv

\* Comparable events are in the order of their ids.
LEMMA CompareFact ==
    ASSUME IInv, NEW x \in Issued, NEW y \in Issued, Comparable(x, y)
    PROVE  /\ ids[x] \in Fitting /\ ids[y] \in Fitting
           /\ x < y <=> Before(ids[x], ids[y])
<1>1. /\ x \in Events /\ y \in Events /\ clock \in FirstMs..MaxMs
      /\ ids[x] \in IdPairs /\ ids[y] \in IdPairs
      /\ ids[x].ms \in FirstMs..clock /\ ids[y].ms \in FirstMs..clock
  BY DEF IInv, TypeOK, IdsBehind, Issued
<1>2. ids[x].ms \in FirstMs..MaxMs /\ ids[y].ms \in FirstMs..MaxMs
  BY <1>1, OfflineKeysAssumption
<1>3. /\ ids[x].ms \in Nat /\ ids[x].counter \in Nat
      /\ ids[y].ms \in Nat /\ ids[y].counter \in Nat
      /\ x \in Nat /\ y \in Nat
  BY <1>1 DEF IdPairs, Events
<1>4. ids[x] \in Fitting /\ ids[y] \in Fitting
  BY <1>1, <1>2 DEF Comparable, Fitting
<1>5. issuer[x] = issuer[y] \/ ids[x].ms # ids[y].ms
  BY DEF Comparable
<1>6. ASSUME x < y PROVE Before(ids[x], ids[y])
  <2>1. ids[x].ms <= ids[y].ms /\ (issuer[x] = issuer[y] => Before(ids[x], ids[y]))
    BY <1>6 DEF IInv, IdsOrdered
  <2> QED
    BY <1>3, <1>5, <2>1 DEF Before
<1>7. ASSUME y < x PROVE ~Before(ids[x], ids[y])
  <2>1. ids[y].ms <= ids[x].ms /\ (issuer[y] = issuer[x] => Before(ids[y], ids[x]))
    BY <1>7 DEF IInv, IdsOrdered
  <2> QED
    BY <1>3, <1>5, <2>1 DEF Before
<1>8. ASSUME x = y PROVE ~Before(ids[x], ids[y])
  BY <1>3, <1>8 DEF Before
<1> QED
  BY <1>3, <1>4, <1>6, <1>7, <1>8

LEMMA IncreaseFact == IInv => IdsIncrease
<1> SUFFICES ASSUME IInv, NEW x \in Issued, NEW y \in Issued, x < y, Comparable(x, y)
             PROVE  LexLess(IdText(ids[x]), IdText(ids[y]))
  BY DEF IdsIncrease
<1> DEFINE p == ids[x]
           q == ids[y]
           w == Width(MaxMs)
<1>1. p \in Fitting /\ q \in Fitting /\ Before(p, q)
  BY CompareFact
<1> HIDE DEF p, q
<1>2. w \in Nat \ {0}
  <2>1. MaxMs \in Nat
    BY OfflineKeysAssumption
  <2>2. Width(MaxMs) \in 1..(MaxMs + 1)
    BY <2>1, WidthFact
  <2> QED
    BY <2>1, <2>2
<1>3. p.ms < Power[w] /\ q.ms < Power[w]
  <2>1. Width(p.ms) = w /\ Width(q.ms) = w /\ p.ms \in Nat /\ q.ms \in Nat
    BY <1>1, FittingFact, WindowFact
  <2> QED
    BY <2>1, WidthFact
<1>4. /\ p.ms \in Nat /\ p.counter \in Nat /\ p.counter < Power[CounterWidth]
      /\ q.ms \in Nat /\ q.counter \in Nat /\ q.counter < Power[CounterWidth]
      /\ IdText(p) = Key(p.ms, p.counter, w) /\ IdText(q) = Key(q.ms, q.counter, w)
  BY <1>1, FittingFact, IdTextFact
<1> HIDE DEF w
<1>5. LexLess(Key(p.ms, p.counter, w), Key(q.ms, q.counter, w))
  BY <1>1, <1>2, <1>3, <1>4, KeyOrder DEF Before
<1> QED
  BY <1>4, <1>5 DEF p, q

LEMMA ExactFact == IInv => RangesExact
<1> SUFFICES ASSUME IInv, NEW x \in Issued, NEW y \in Issued, Comparable(x, y)
             PROVE  /\ InRetrieveRange(encodeMember(ids[y], y), ids[x]) <=> x < y
                    /\ InAcknowledgeRange(encodeMember(ids[y], y), ids[x]) <=> y <= x
  BY DEF RangesExact
<1>1. /\ ids[x] \in Fitting /\ ids[y] \in Fitting
      /\ x < y <=> Before(ids[x], ids[y])
  BY CompareFact
<1>2. x \in Events /\ y \in Events /\ x \in Nat /\ y \in Nat
  BY DEF Issued, Events
<1>3. LexLess(encodeMember(ids[y], y), lexKeyNext(ids[x])) <=> ~Before(ids[x], ids[y])
  BY <1>1, <1>2, RangeFact
<1> QED
  BY <1>1, <1>2, <1>3 DEF InRetrieveRange, InAcknowledgeRange

-----------------------------------------------------------------------------
(* The steps. *)

\* The trim leaves no more than the cap.
LEMMA TrimFact ==
    ASSUME NEW S \in SUBSET Events, NEW id \in [Events -> IdPairs]
    PROVE  /\ trim(S, id) \in SUBSET S
           /\ Cardinality(trim(S, id)) <= MaxPerUser
           /\ trim(S, id) # S => Cardinality(trim(S, id)) = MaxPerUser
<1> DEFINE n == Cardinality(S)
<1>1. n \in Nat /\ MaxPerUser \in Nat \ {0}
  BY EventsFinite, OfflineKeysAssumption
<1>2. trim(S, id) \in SUBSET S
  BY DEF trim
<1>3. trim(S, id) \in SUBSET Events
  BY <1>2
<1>4. CASE n <= MaxPerUser
  <2>1. \A e \in S : Rank(e, S, id) \in Nat
    BY <1>1, RankFact
  <2>2. trim(S, id) = S
    BY <1>1, <1>4, <2>1 DEF trim
  <2> QED
    BY <1>2, <1>4, <2>2
<1>5. CASE ~(n <= MaxPerUser)
  <2> DEFINE m == n - MaxPerUser
  <2>1. m \in Nat /\ m <= n /\ n - m = MaxPerUser
    BY <1>1, <1>5
  <2>2. trim(S, id) = {e \in S : Rank(e, S, id) >= m}
    BY DEF trim
  <2> HIDE DEF m
  <2>3. Cardinality(trim(S, id)) = n - m
    BY <2>1, <2>2, HighRanks
  <2> QED
    BY <1>1, <1>2, <2>1, <2>3
<1> QED
  BY <1>4, <1>5

\* What an id drawn at a reading of the clock is.
LEMMA NextIdFact ==
    ASSUME NEW gen \in IdPairs, NEW now \in FirstMs..MaxMs, gen.ms <= now
    PROVE  /\ next(gen, now) \in IdPairs
           /\ next(gen, now).ms = now
           /\ Before(gen, next(gen, now))
           /\ next(gen, now) # NewGenerator
<1>1. now \in Nat \ {0} /\ gen.ms \in Nat /\ gen.counter \in Nat
  BY OfflineKeysAssumption DEF IdPairs
<1>2. CASE now = gen.ms
  <2>1. next(gen, now) = [ms |-> gen.ms, counter |-> gen.counter + 1]
    BY <1>2 DEF next, IdPairs
  <2> QED
    BY <1>1, <1>2, <2>1 DEF Before, IdPairs, NewGenerator
<1>3. CASE now # gen.ms
  <2>1. next(gen, now) = [ms |-> now, counter |-> 1]
    BY <1>3 DEF next
  <2> QED
    BY <1>1, <1>3, <2>1 DEF Before, IdPairs, NewGenerator
<1> QED
  BY <1>2, <1>3

\* An append issues one event with a new id and leaves the others' ids.
LEMMA AppendFact ==
    ASSUME IInv, NEW e \in Events, NEW i \in Instances, append(e, i)
    PROVE  /\ e \notin Issued /\ Issued' = Issued \cup {e}
           /\ clock \in FirstMs..MaxMs /\ clock' \in FirstMs..MaxMs /\ clock <= clock'
           /\ generator' = [generator EXCEPT ![i] = ids'[e]]
           /\ issuer' = [issuer EXCEPT ![e] = i]
           /\ ids' \in [Events -> IdPairs]
           /\ ids'[e].ms = clock' /\ Before(generator[i], ids'[e])
           /\ \A x \in Events : x # e => ids'[x] = ids[x] /\ issuer'[x] = issuer[x]
           /\ \A x \in Issued : x < e
           /\ zset' = trim(zset \cup {e}, ids') /\ zset \cup {e} \in SUBSET Events
<1>1. TypeOK /\ IdsBehind /\ IdsOrdered
  BY DEF IInv
<1>2. /\ clock \in FirstMs..MaxMs /\ clock' \in FirstMs..MaxMs /\ clock <= clock'
      /\ FirstMs \in Nat /\ MaxMs \in Nat
  BY <1>1, OfflineKeysAssumption DEF TypeOK, append
<1> DEFINE n == next(generator[i], clock')
<1>3. generator[i] \in IdPairs /\ generator[i].ms <= clock' /\ generator[i].ms \in Nat
  BY <1>1, <1>2 DEF TypeOK, IdsBehind, IdPairs
<1>4. n \in IdPairs /\ n.ms = clock' /\ Before(generator[i], n) /\ n # NewGenerator
  BY <1>2, <1>3, NextIdFact
<1>5. ids' = [ids EXCEPT ![e] = n] /\ generator' = [generator EXCEPT ![i] = n]
  BY DEF append
<1> HIDE DEF n
<1>6. ids \in [Events -> IdPairs] /\ issuer \in [Events -> Instances]
  BY <1>1 DEF TypeOK
<1>7. ids'[e] = n /\ ids' \in [Events -> IdPairs] /\ \A x \in Events : x # e => ids'[x] = ids[x]
  BY <1>4, <1>5, <1>6
<1>8. issuer' = [issuer EXCEPT ![e] = i] /\ \A x \in Events : x # e => issuer'[x] = issuer[x]
  BY <1>6 DEF append
<1>9. e \notin Issued
  BY DEF append
<1>10. Issued' = Issued \cup {e}
  BY <1>4, <1>7 DEF Issued
<1>11. ASSUME NEW x \in Issued PROVE x < e
  <2>1. x \in Events /\ x # e /\ x \in Nat /\ e \in Nat
    BY <1>9 DEF Issued, Events
  <2>2. ~(e < x)
    BY <1>1, <1>9 DEF IdsOrdered
  <2> QED
    BY <2>1, <2>2
<1>12. zset' = trim(zset \cup {e}, ids') /\ zset \cup {e} \in SUBSET Events
  BY <1>1 DEF append, TypeOK, Issued
<1> QED
  BY <1>2, <1>4, <1>5, <1>7, <1>8, <1>9, <1>10, <1>11, <1>12

LEMMA AppendStep == ASSUME IInv, NEW e \in Events, NEW i \in Instances, append(e, i) PROVE IInv'
<1>1. TypeOK /\ IdsBehind /\ IdsOrdered /\ BatchFirst
  BY DEF IInv
<1>2. /\ e \notin Issued /\ Issued' = Issued \cup {e}
      /\ clock \in FirstMs..MaxMs /\ clock' \in FirstMs..MaxMs /\ clock <= clock'
      /\ generator' = [generator EXCEPT ![i] = ids'[e]]
      /\ issuer' = [issuer EXCEPT ![e] = i]
      /\ ids' \in [Events -> IdPairs]
      /\ ids'[e].ms = clock' /\ Before(generator[i], ids'[e])
      /\ \A x \in Events : x # e => ids'[x] = ids[x] /\ issuer'[x] = issuer[x]
      /\ \A x \in Issued : x < e
      /\ zset' = trim(zset \cup {e}, ids') /\ zset \cup {e} \in SUBSET Events
  BY AppendFact
<1>3. /\ zset' \in SUBSET (zset \cup {e}) /\ Cardinality(zset') <= MaxPerUser
  BY <1>2, TrimFact
<1>4. since' = since /\ batch' = batch /\ zset \subseteq Issued
  BY <1>1 DEF append, TypeOK
<1>5. /\ \A x \in Issued : x \in Events /\ x # e /\ x \in Nat /\ ids'[x] = ids[x] /\ issuer'[x] = issuer[x]
      /\ e \in Nat
  BY <1>2 DEF Issued, Events
<1>6. FirstMs \in Nat /\ MaxMs \in Nat /\ clock \in Nat /\ clock' \in Nat
  BY <1>2, OfflineKeysAssumption
<1>7. TypeOK'
  BY <1>1, <1>2, <1>3, <1>4 DEF TypeOK
<1>8. generator \in [Instances -> IdPairs] /\ issuer \in [Events -> Instances] /\ ids \in [Events -> IdPairs]
  BY <1>1 DEF TypeOK
<1>9. \A p \in IdPairs : p.ms \in Nat /\ p.counter \in Nat
  BY DEF IdPairs
<1>10. generator'[i] = ids'[e] /\ \A j \in Instances : j # i => generator'[j] = generator[j]
  BY <1>2, <1>8
<1>11. issuer'[e] = i
  BY <1>2, <1>8
<1>12. IdsBehind'
  <2>1. ASSUME NEW j \in Instances PROVE generator'[j].ms <= clock'
    <3>1. generator[j].ms <= clock /\ generator[j].ms \in Nat
      BY <1>1, <1>8, <1>9 DEF IdsBehind
    <3> QED
      BY <1>2, <1>6, <1>10, <3>1
  <2>2. ASSUME NEW x \in Issued
        PROVE  /\ ids'[x].ms \in FirstMs..clock'
               /\ ~Before(generator'[issuer'[x]], ids'[x])
    <3>1. /\ ids[x].ms \in FirstMs..clock /\ ~Before(generator[issuer[x]], ids[x])
          /\ ids'[x] = ids[x] /\ issuer'[x] = issuer[x] /\ x \in Events
      BY <1>1, <1>5 DEF IdsBehind
    <3>2. ids[x] \in IdPairs /\ generator[i] \in IdPairs /\ ids'[e] \in IdPairs /\ issuer[x] \in Instances
      BY <1>2, <1>8, <3>1
    <3>3. ids[x].ms \in FirstMs..clock'
      BY <1>2, <1>6, <3>1
    <3>4. CASE issuer[x] = i
      <4>1. Before(generator[i], ids'[e]) /\ ~Before(generator[i], ids[x])
        BY <1>2, <3>1, <3>4
      <4>2. ~Before(ids'[e], ids[x])
        BY <1>9, <3>2, <4>1 DEF Before
      <4> QED
        BY <1>10, <3>1, <3>3, <3>4, <4>2
    <3>5. CASE issuer[x] # i
      BY <1>10, <3>1, <3>2, <3>3, <3>5
    <3> QED
      BY <3>4, <3>5
  <2>3. ids'[e].ms \in FirstMs..clock' /\ ~Before(generator'[issuer'[e]], ids'[e])
    <3>1. ids'[e] \in IdPairs
      BY <1>2
    <3> QED
      BY <1>2, <1>6, <1>9, <1>10, <1>11, <3>1 DEF Before
  <2> QED
    BY <1>2, <2>1, <2>2, <2>3 DEF IdsBehind
<1>13. IdsOrdered'
  <2>1. ASSUME NEW x \in Issued', NEW d \in Events, d < x PROVE d \in Issued'
    <3>1. CASE x \in Issued
      BY <1>1, <1>2, <2>1, <3>1 DEF IdsOrdered
    <3>2. CASE x = e
      BY <1>2, <2>1, <3>2 DEF append
    <3> QED
      BY <1>2, <3>1, <3>2
  <2>2. ASSUME NEW x \in Issued', NEW y \in Issued', x < y
        PROVE  /\ ids'[x].ms <= ids'[y].ms
               /\ issuer'[x] = issuer'[y] => Before(ids'[x], ids'[y])
    <3>1. CASE x \in Issued /\ y \in Issued
      BY <1>1, <1>5, <2>2, <3>1 DEF IdsOrdered
    <3>2. CASE x \in Issued /\ y = e
      <4>1. /\ ids[x].ms \in FirstMs..clock /\ ~Before(generator[issuer[x]], ids[x])
            /\ ids'[x] = ids[x] /\ issuer'[x] = issuer[x] /\ x \in Events
        BY <1>1, <1>5, <3>2 DEF IdsBehind
      <4>2. ids[x] \in IdPairs /\ generator[i] \in IdPairs /\ ids'[e] \in IdPairs
        BY <1>2, <1>8, <4>1
      <4>3. ids'[x].ms <= ids'[y].ms
        BY <1>2, <1>6, <3>2, <4>1
      <4>4. ASSUME issuer[x] = i PROVE Before(ids[x], ids'[e])
        <5>1. Before(generator[i], ids'[e]) /\ ~Before(generator[i], ids[x])
          BY <1>2, <4>1, <4>4
        <5> QED
          BY <1>9, <4>2, <5>1 DEF Before
      <4> QED
        BY <1>11, <3>2, <4>1, <4>3, <4>4
    <3>3. CASE x = e
      <4>1. y \in Issued \/ y = e
        BY <1>2
      <4> QED
        BY <1>2, <1>5, <2>2, <3>3, <4>1
    <3> QED
      BY <1>2, <3>1, <3>2, <3>3
  <2> QED
    BY <2>1, <2>2 DEF IdsOrdered
<1>14. BatchFirst'
  <2> SUFFICES ASSUME batch # {}
               PROVE  /\ since \in Issued'
                      /\ \A d \in zset' \ batch :
                            (\A x \in batch \cup {since} : Comparable(d, x)') =>
                                d <= since \/ \A b \in batch : b < d
    BY <1>4 DEF BatchFirst
  <2>1. since \in Issued /\ batch \subseteq Issued
    BY <1>1 DEF BatchFirst, TypeOK
  <2>2. ASSUME NEW d \in zset' \ batch, \A x \in batch \cup {since} : Comparable(d, x)'
        PROVE  d <= since \/ \A b \in batch : b < d
    <3>1. CASE d = e
      BY <1>2, <2>1, <3>1
    <3>2. CASE d # e
      <4>1. d \in zset \ batch /\ d \in Issued
        BY <1>3, <1>4, <2>2, <3>2
      <4>2. ASSUME NEW x \in batch \cup {since} PROVE Comparable(d, x)
        <5>1. x \in Issued /\ Comparable(d, x)'
          BY <2>1, <2>2
        <5> QED
          BY <1>5, <4>1, <5>1 DEF Comparable, FitsWidth
      <4> QED
        BY <1>1, <4>1, <4>2 DEF BatchFirst
    <3> QED
      BY <3>1, <3>2
  <2> QED
    BY <1>2, <2>1, <2>2
<1> QED
  BY <1>7, <1>12, <1>13, <1>14 DEF IInv

LEMMA RetrieveStep == ASSUME IInv, NEW x \in Events, retrieveSince(x) PROVE IInv'
<1>1. TypeOK /\ IdsBehind /\ IdsOrdered /\ zset \subseteq Issued
  BY DEF IInv, TypeOK
<1> DEFINE after == {e \in zset : InRetrieveRange(encodeMember(ids[e], e), ids[x])}
<1>2. /\ x \in Issued /\ since' = x
      /\ batch' = {e \in after : Rank(e, after, ids) < RetrieveLimit}
      /\ clock' = clock /\ generator' = generator /\ ids' = ids /\ issuer' = issuer /\ zset' = zset
  BY DEF retrieveSince
<1>3. Issued' = Issued
  BY <1>2 DEF Issued
<1>4. after \in SUBSET Events /\ after \subseteq Issued /\ ids \in [Events -> IdPairs]
  BY <1>1 DEF TypeOK, Issued
<1>5. \A e \in zset : e \in after <=> InRetrieveRange(encodeMember(ids[e], e), ids[x])
  OBVIOUS
<1> HIDE DEF after
<1>6. RetrieveLimit \in Nat
  BY OfflineKeysAssumption
<1>7. batch' \subseteq after /\ Cardinality(batch') <= RetrieveLimit
  BY <1>2, <1>4, <1>6, LowRanks
<1>8. TypeOK'
  BY <1>1, <1>2, <1>3, <1>4, <1>7 DEF TypeOK
<1>9. IdsBehind' /\ IdsOrdered'
  BY <1>1, <1>2, <1>3 DEF IdsBehind, IdsOrdered
<1>10. ASSUME NEW e \in zset \ batch', \A y \in batch' \cup {x} : Comparable(e, y)
       PROVE  e <= x \/ \A b \in batch' : b < e
  <2>1. e \in Issued /\ Comparable(x, e) /\ e \in Nat /\ x \in Nat
    BY <1>1, <1>2, <1>10 DEF Comparable, Issued, Events
  <2>2. InRetrieveRange(encodeMember(ids[e], e), ids[x]) <=> x < e
    BY <1>2, <2>1, ExactFact DEF RangesExact
  <2>3. CASE e \notin after
    BY <1>5, <1>10, <2>1, <2>2, <2>3
  <2>4. CASE e \in after
    <3> SUFFICES ASSUME NEW b \in batch' PROVE b < e
      OBVIOUS
    <3>1. b \in after /\ b \in Issued /\ b \in Events /\ e \in Events /\ b \in Nat /\ b # e
      BY <1>4, <1>7, <1>10, <2>4 DEF Events
    <3>2. Rank(b, after, ids) < RetrieveLimit /\ ~(Rank(e, after, ids) < RetrieveLimit)
      BY <1>2, <1>10, <2>4
    <3>3. Rank(b, after, ids) \in Int /\ Rank(e, after, ids) \in Int
      BY <1>4, <2>4, <3>1, RankFact, EventsFinite
    <3>4. ~LexLess(encodeMember(ids[e], e), encodeMember(ids[b], b))
      BY <1>4, <1>6, <2>4, <3>1, <3>2, <3>3, RankFact
    <3>5. Comparable(e, b)
      BY <1>10
    <3>6. ids[e] \in Fitting /\ ids[b] \in Fitting /\ (e < b <=> Before(ids[e], ids[b]))
      BY <2>1, <3>1, <3>5, CompareFact
    <3>7. ~(e < b)
      BY <3>1, <3>4, <3>6, MembersSorted
    <3> QED
      BY <2>1, <3>1, <3>7
  <2> QED
    BY <2>3, <2>4
<1>11. \A d, y : Comparable(d, y)' <=> Comparable(d, y)
  BY <1>2 DEF Comparable, FitsWidth
<1>12. BatchFirst'
  BY <1>2, <1>3, <1>10, <1>11 DEF BatchFirst
<1> QED
  BY <1>8, <1>9, <1>12 DEF IInv

LEMMA AcknowledgeStep == ASSUME IInv, acknowledge PROVE IInv'
<1>1. TypeOK /\ IdsBehind /\ IdsOrdered
  BY DEF IInv
<1>2. /\ zset' \in SUBSET zset /\ batch' = {}
      /\ clock' = clock /\ generator' = generator /\ ids' = ids /\ issuer' = issuer /\ since' = since
  BY DEF acknowledge
<1>3. Issued' = Issued
  BY <1>2 DEF Issued
<1>4. Cardinality(zset') <= MaxPerUser
  <2>1. zset \in SUBSET Events /\ zset' \in SUBSET Events /\ Cardinality(zset) <= MaxPerUser
    BY <1>1, <1>2 DEF TypeOK, Issued
  <2>2. IsFiniteSet(zset) /\ Cardinality(zset) \in Nat /\ Cardinality(zset') \in Nat
    BY <2>1, EventsFinite
  <2>3. Cardinality(zset') <= Cardinality(zset)
    BY <1>2, <2>2, FS_Subset
  <2> QED
    BY <2>1, <2>2, <2>3, OfflineKeysAssumption
<1>5. Cardinality(batch') <= RetrieveLimit
  BY <1>2, FS_EmptySet, OfflineKeysAssumption
<1>6. TypeOK'
  BY <1>1, <1>2, <1>3, <1>4, <1>5 DEF TypeOK
<1>7. IdsBehind' /\ IdsOrdered' /\ BatchFirst'
  BY <1>1, <1>2, <1>3 DEF IdsBehind, IdsOrdered, BatchFirst
<1> QED
  BY <1>6, <1>7 DEF IInv

LEMMA NextInv == IInv /\ [Next]_vars => IInv'
<1> SUFFICES ASSUME IInv, [Next]_vars PROVE IInv'
  OBVIOUS
<1>1. ASSUME NEW e \in Events, NEW i \in Instances, append(e, i) PROVE IInv'
  BY <1>1, AppendStep
<1>2. ASSUME NEW x \in Events, retrieveSince(x) PROVE IInv'
  BY <1>2, RetrieveStep
<1>3. CASE acknowledge
  BY <1>3, AcknowledgeStep
<1>4. CASE UNCHANGED vars
  BY <1>4 DEF vars, IInv, TypeOK, IdsBehind, IdsOrdered, BatchFirst, Issued, Comparable, FitsWidth
<1> QED
  BY <1>1, <1>2, <1>3, <1>4 DEF Next

-----------------------------------------------------------------------------
(* The properties of the run, for every instance. *)

\* The bookkeeping of ids, milliseconds and batches holds in every state.
THEOREM Invariance == Spec => []IInv
<1> QED
  BY InitInv, NextInv, PTL DEF Spec

\* Ids sort as strings as they were issued, wherever they can be compared, and the set
\* and the batch keep their limits (EventIdGenerator.next, append, retrieveSince).
THEOREM IdsSortAsIssued == Spec => []IdsSound
<1>1. IInv => IdsSound
  BY IncreaseFact DEF IInv, IdsSound
<1> QED
  BY <1>1, Invariance, PTL

\* The lexicographic ranges of retrieveSince and acknowledge cover the events after a
\* given one, and up to it, and no other, whatever the widths (lexKey, lexKeyNext).
THEOREM RangesAreExact == Spec => []RangesExact
  BY ExactFact, Invariance, PTL

LEMMA TrimStep ==
    ASSUME IInv, IInv', Next,
           NEW gone \in (zset \cup (Issued' \ Issued)) \ zset',
           Issued' # Issued, \A d \in zset' : Comparable(gone, d)'
    PROVE  Cardinality(zset') = MaxPerUser /\ \A d \in zset' : gone < d
<1>1. PICK e \in Events, i \in Instances : append(e, i)
  BY DEF Next, retrieveSince, acknowledge, Issued
<1> DEFINE S == zset \cup {e}
<1>2. /\ Issued' = Issued \cup {e} /\ zset' = trim(S, ids')
      /\ S \in SUBSET Events /\ ids' \in [Events -> IdPairs]
  BY <1>1, AppendFact
<1>3. gone \in S /\ gone \notin zset' /\ S \subseteq Issued'
  BY <1>2 DEF IInv, TypeOK
<1> HIDE DEF S
<1>4. Cardinality(zset') = MaxPerUser
  BY <1>2, <1>3, TrimFact
<1>5. ASSUME NEW d \in zset' PROVE gone < d
  <2>1. d \in S /\ d \in Issued' /\ gone \in Issued' /\ d # gone
    BY <1>2, <1>3, <1>5 DEF trim
  <2>2. d \in Events /\ gone \in Events /\ d \in Nat /\ gone \in Nat
    BY <2>1 DEF Issued, Events
  <2>3. /\ Rank(d, S, ids') >= Cardinality(S) - MaxPerUser
        /\ ~(Rank(gone, S, ids') >= Cardinality(S) - MaxPerUser)
    BY <1>2, <1>3, <1>5 DEF trim
  <2>4. /\ Rank(d, S, ids') \in Int /\ Rank(gone, S, ids') \in Int
        /\ Cardinality(S) \in Nat /\ MaxPerUser \in Nat
    <3>1. \A c \in S : Rank(c, S, ids') \in 0..(Cardinality(S) - 1)
      BY <1>2, RankFact
    <3>2. Cardinality(S) \in Nat
      BY <1>2, EventsFinite
    <3> QED
      BY <1>3, <2>1, <3>1, <3>2, OfflineKeysAssumption
  <2>5. ~(Rank(d, S, ids') < Rank(gone, S, ids'))
    BY <2>3, <2>4
  <2>6. ~LexLess(encodeMember(ids'[d], d), encodeMember(ids'[gone], gone))
    BY <1>2, <1>3, <2>1, <2>5, RankFact
  <2>7. /\ issuer'[gone] = issuer'[d] \/ ids'[gone].ms # ids'[d].ms
        /\ FitsWidth(ids'[gone]) /\ FitsWidth(ids'[d])
    BY <1>5 DEF Comparable
  <2>8. /\ ids'[d] \in IdPairs /\ ids'[gone] \in IdPairs
        /\ ids'[d].ms \in FirstMs..clock' /\ ids'[gone].ms \in FirstMs..clock'
        /\ clock' \in FirstMs..MaxMs
    BY <1>2, <2>1, <2>2 DEF IInv, IdsBehind, TypeOK
  <2>9. ids'[d] \in Fitting /\ ids'[gone] \in Fitting
    BY <2>7, <2>8, OfflineKeysAssumption DEF Fitting
  <2>10. ASSUME d < gone PROVE FALSE
    <3>1. ids'[d].ms <= ids'[gone].ms /\ (issuer'[d] = issuer'[gone] => Before(ids'[d], ids'[gone]))
      BY <2>1, <2>10 DEF IInv, IdsOrdered
    <3>2. ids'[d].ms \in Nat /\ ids'[gone].ms \in Nat
      BY <2>8 DEF IdPairs
    <3>3. Before(ids'[d], ids'[gone])
      BY <2>7, <3>1, <3>2 DEF Before
    <3> QED
      BY <2>2, <2>6, <2>9, <3>3, MembersSorted
  <2> QED
    BY <2>1, <2>2, <2>10
<1> QED
  BY <1>4, <1>5

LEMMA PruneStep ==
    ASSUME IInv, Next, NEW gone \in zset \ zset',
           Issued' = Issued, \A x \in batch \cup {since} : Comparable(gone, x)
    PROVE  gone \in batch \/ gone <= since
<1>1. CASE acknowledge
  <2>1. PICK last \in batch : zset' = {e \in zset : ~InAcknowledgeRange(encodeMember(ids[e], e), ids[last])}
    BY <1>1 DEF acknowledge
  <2>2. batch # {} /\ InAcknowledgeRange(encodeMember(ids[gone], gone), ids[last])
    BY <2>1
  <2>3. gone \in Issued /\ last \in Issued /\ gone \in Nat /\ last \in Nat
    BY <2>1 DEF IInv, TypeOK, Issued, Events
  <2>4. Comparable(last, gone)
    BY <2>1 DEF Comparable
  <2>5. gone <= last
    BY <2>2, <2>3, <2>4, ExactFact DEF RangesExact
  <2> SUFFICES ASSUME gone \notin batch PROVE gone <= since
    OBVIOUS
  <2>6. gone <= since \/ last < gone
    BY <2>1, <2>2 DEF IInv, BatchFirst
  <2> QED
    BY <2>3, <2>5, <2>6
<1>2. CASE \E e \in Events, i \in Instances : append(e, i)
  BY <1>2, AppendFact
<1>3. CASE \E x \in Events : retrieveSince(x)
  BY <1>3 DEF retrieveSince
<1> QED
  BY <1>1, <1>2, <1>3 DEF Next

\* The trim of an append drops the oldest of a full set, and an acknowledgement prunes
\* what was given or came before it, wherever ids can be compared (append, acknowledge).
THEOREM RemovalsAreJustified == Spec => RemovalsJustified
<1>1. IInv /\ IInv' /\ [Next]_vars =>
        [\A gone \in (zset \cup (Issued' \ Issued)) \ zset' :
            Issued' # Issued /\ (\A e \in zset' : Comparable(gone, e)')
                => /\ Cardinality(zset') = MaxPerUser
                   /\ \A e \in zset' : gone < e]_vars
  BY TrimStep
<1>2. IInv /\ [Next]_vars =>
        [\A gone \in zset \ zset' :
            Issued' = Issued /\ (\A x \in batch \cup {since} : Comparable(gone, x))
                => gone \in batch \/ gone <= since]_vars
  BY PruneStep
<1>3. Spec => TrimDropsOldest
  BY <1>1, Invariance, PTL DEF Spec, TrimDropsOldest
<1>4. Spec => PrunedWereGiven
  BY <1>2, Invariance, PTL DEF Spec, PrunedWereGiven
<1> QED
  BY <1>3, <1>4 DEF RemovalsJustified

=============================================================================
