---------------------------- MODULE PubSubFanout ----------------------------
(***************************************************************************)
(* Emits and revocations between instances: RealtimeService and            *)
(* CompositeTransport, the publishing half of SseTransport, the bus with   *)
(* RealtimePubSubSubscriber on every instance, and the emits and           *)
(* disconnects of WebSocketTransport with Socket.IO's Redis adapter.       *)
(*                                                                         *)
(* The bus and the adapter are external: each copy of a message reaches    *)
(* its instance at most once, in any order; one that is never delivered is *)
(* a lost one.  A publish or a queue write that is refused may have been   *)
(* carried out all the same.  Connections are those of the registries: who *)
(* they stand for does not change while they last.                         *)
(***************************************************************************)
EXTENDS Integers, FiniteSets, Sequences

CONSTANTS
    Instances,
    Lone,           \* the only instance that runs when the bus is InMemoryPubSub
    Conns,
    Home,           \* Home[c]: the instance that holds c
    Transport,      \* Transport[c]: "sse" or "websocket"
    Mode,           \* options.transport: "sse", "websocket" or "both"
    Targets,
    Audience,       \* Audience[t]: the connections of a user, tenant or room, or all
    UserTargets,    \* the targets of emitToUser; the others are of the other emits
    HasQueue,       \* whether an offline queue is configured
    Attached,       \* the instances whose gateway has attached a Socket.IO server
    MaxCalls        \* bound: emits and disconnects of the application, together

ASSUME FanoutAssumption ==
    /\ Lone \in Instances
    /\ Home \in [Conns -> Instances]
    /\ Transport \in [Conns -> {"sse", "websocket"}]
    /\ Mode \in {"sse", "websocket", "both"}
    /\ \A c \in Conns : Mode \in {Transport[c], "both"}  \* no connection comes another way
    /\ Audience \in [Targets -> SUBSET Conns]
    /\ UserTargets \subseteq Targets
    /\ "none" \notin Targets \cup Conns
    /\ HasQueue \in BOOLEAN
    /\ Attached \subseteq Instances
    /\ MaxCalls \in Nat

\* An emit is named after its event, a disconnect is a call of its own.
Events      == 1..MaxCalls
Revocations == 1..MaxCalls

VARIABLES
    bus,         \* which IRealtimePubSub runs: "redis" or "memory"
    held,        \* connections with a record (SSE) or a connected socket (WebSocket)
    closing,     \* SSE connections whose disconnectLocal awaits its hook
    emit,        \* emit[e]: the emit call of e
    onBus,       \* <<message, instance>>: copies on the bus
    onAdapter,   \* <<message, instance>>: copies on Socket.IO's adapter
    queued,      \* events the offline queue keeps
    delivered,   \* delivered[c]: the events written to c, in order
    revocation   \* revocation[r]: the disconnect call r

callVars == <<emit, queued, revocation>>
netVars  == <<onBus, onAdapter>>
vars == <<bus, held, closing, callVars, netVars, delivered>>

-----------------------------------------------------------------------------
Outcomes == {"pending", "resolved", "rejected"}
Legs     == {"none", "pending", "ok", "failed"}  \* one transport, or one path, of a call
Failed   == {"publish", "offlineAppend"}

NoEmit == [target |-> "none", at |-> Lone, queue |-> "none",
           publish |-> "none", published |-> FALSE, ws |-> "none", outcome |-> "pending",
           reported |-> {}]

NoRevocation == [conn |-> "none", at |-> Lone, sse |-> "none", published |-> FALSE,
                 ws |-> "none", outcome |-> "pending"]

Messages ==
    ({"emit"} \X Events \X Instances) \cup ({"disconnect"} \X Conns \X Instances)

TypeOK ==
    /\ bus \in {"redis", "memory"}
    /\ held \subseteq Conns
    /\ closing \subseteq {c \in Conns : Transport[c] = "sse"} \ held
    /\ emit \in [Events -> [target : Targets \cup {"none"}, at : Instances, queue : Legs, publish : Legs, published : BOOLEAN, ws : Legs,
                            outcome : Outcomes, reported : SUBSET Failed]]
    /\ onBus \subseteq Messages \X Instances
    /\ onAdapter \subseteq Messages \X Instances
    /\ queued \subseteq Events
    /\ \A c \in Conns : delivered[c] \in Seq(Events)
    /\ revocation \in [Revocations -> [conn : Conns \cup {"none"}, at : Instances,
                                       sse : Legs \cup {"hook"}, published : BOOLEAN, ws : Legs,
                                       outcome : Outcomes]]

\* Calls are numbered in the order the application makes them.
NextCall(n) ==
    n = 1 + Cardinality({e \in Events : emit[e].target # "none"})
          + Cardinality({r \in Revocations : revocation[r].conn # "none"})

\* InMemoryPubSub is for a single instance.
Running == IF bus = "redis" THEN Instances ELSE {Lone}

Init ==
    /\ bus \in {"redis", "memory"}
    /\ held = {c \in Conns : Home[c] \in Running}
    /\ closing = {}
    /\ emit = [e \in Events |-> NoEmit]
    /\ onBus = {}
    /\ onAdapter = {}
    /\ queued = {}
    /\ delivered = [c \in Conns |-> <<>>]
    /\ revocation = [r \in Revocations |-> NoRevocation]

HasSse == Mode \in {"sse", "both"}
HasWs  == Mode \in {"websocket", "both"}
Local(i, kind) == {c \in held : Home[c] = i /\ Transport[c] = kind}

\* deliver, for every connection of S.
deliver(e, S) ==
    delivered' = [c \in Conns |-> IF c \in S THEN Append(delivered[c], e) ELSE delivered[c]]

\* What the bus makes of a publish: a copy for every subscriber, the publisher
\* among them.
PublishedBy(message) == {<<message, i>> : i \in Running}

\* The adapter leaves out the node that sends.
Adapted(message, i) == {<<message, j>> : j \in Running \ {i}}

-----------------------------------------------------------------------------
(* Emits. *)

\* The SSE connections of instance i that the emit*Local methods write to.
emitLocal(t, i) == Audience[t] \cap Local(i, "sse")

\* WebSocketTransport hands a call to Socket.IO if a server is attached; that may throw.
handsToSocketIo(i, throws) == HasWs /\ i \in Attached /\ ~throws

\* emitToUser queues the event of a user without an SSE connection here.
OfflineHere(t, i) ==
    HasQueue /\ t \in UserTargets /\ emitLocal(t, i) = {}

\* emitToUser, emitToTenant, emitToRoom or broadcast, up to the await.  SSE
\* draws an id, delivers here, and calls the queue and the bus together; kept and
\* published say whether they carry the call out, which they may do at any time
\* before the event is looked for.  WebSocket hands the event to Socket.IO, which
\* delivers here and on the other nodes, throws (throws), or drops it while no
\* server is attached.
Emit(e, t, i, throws, kept, published) ==
    LET queues == HasSse /\ OfflineHere(t, i)
        sends == handsToSocketIo(i, throws)
    IN  /\ i \in Running
        /\ NextCall(e)
        /\ throws => HasWs /\ i \in Attached
        /\ kept => queues
        /\ published => HasSse
        /\ emit' = [emit EXCEPT ![e] =
               [NoEmit EXCEPT !.target = t, !.at = i,
                              !.queue = IF queues THEN "pending" ELSE "none",
                              !.publish = IF HasSse THEN "pending" ELSE "none",
                              !.published = published,
                              !.ws = CASE throws -> "failed"
                                       [] ~throws /\ HasWs -> "ok"
                                       [] OTHER -> "none"]]
        /\ deliver(e, (IF HasSse THEN emitLocal(t, i) ELSE {}) \cup
                      (IF sends THEN Audience[t] \cap Local(i, "websocket") ELSE {}))
        /\ queued' = IF kept THEN queued \cup {e} ELSE queued
        /\ onBus' = IF published THEN onBus \cup PublishedBy(<<"emit", e, i>>) ELSE onBus
        /\ onAdapter' = IF sends THEN onAdapter \cup Adapted(<<"emit", e, i>>, i) ELSE onAdapter
        /\ UNCHANGED <<bus, held, closing, revocation>>

\* emitToUser rejects: offline here, the queue failed, and the bus failed or
\* cannot reach another instance.
NoPathLeft(queue, publish) == queue = "failed" /\ (publish = "failed" \/ bus = "memory")

\* reportDeliveryFailure, for each failure behind a resolved SSE emit.
FailuresReported(queue, publish) ==
    IF NoPathLeft(queue, publish)
    THEN {}
    ELSE (IF publish = "failed" THEN {"publish"} ELSE {}) \cup
         (IF queue = "failed" THEN {"offlineAppend"} ELSE {})

\* A slip: one failing transport fails the call.
fanOutStrict(sseRejects, wsRejects) == sseRejects \/ wsRejects

\* fanOut rejects when both transports do; the only transport decides alone.
fanOut(sseRejects, wsRejects) ==
    CASE Mode = "both" -> sseRejects /\ wsRejects
      [] Mode = "sse" -> sseRejects
      [] OTHER -> wsRejects

\* The answers of a call: ok only if it was carried out, and none if not made.
Answers(leg, done) ==
    IF leg = "none" THEN {"none"} ELSE {"failed"} \cup (IF done THEN {"ok"} ELSE {})

\* tryAppend and tryPublish have both answered, and the call settles.
EmitSettles(e, queue, publish) ==
    /\ emit[e].target # "none"
    /\ emit[e].outcome = "pending"
    /\ queue \in Answers(emit[e].queue, e \in queued)
    /\ publish \in Answers(emit[e].publish, emit[e].published)
    /\ emit' = [emit EXCEPT
           ![e].queue = queue,
           ![e].publish = publish,
           ![e].outcome = IF fanOut(NoPathLeft(queue, publish), emit[e].ws = "failed")
                          THEN "rejected" ELSE "resolved",
           ![e].reported = FailuresReported(queue, publish)]
    /\ UNCHANGED <<bus, held, closing, netVars, queued, delivered, revocation>>

-----------------------------------------------------------------------------
(* Revocations. *)

\* disconnectLocal: the record goes at once, the stream after the hook.
disconnectLocal(c) == held' = held \ {c} /\ closing' = closing \cup {c}

\* SseTransport.disconnect: it ends a stream it has the record of, leaves a WebSocket it
\* has the record of alone, and publishes anything else.
disconnectSse(c, mine) ==
    CASE ~HasSse -> "none"
      [] HasSse /\ ~mine -> "pending"
      [] OTHER -> IF Transport[c] = "sse" THEN "hook" ELSE "ok"

\* WebSocketTransport.disconnect: it closes a socket of this node and tells the other
\* nodes, or rejects without a server or when that throws.
disconnectWs(sends) == CASE ~HasWs -> "none" [] sends -> "ok" [] OTHER -> "failed"

\* disconnect(c) called on i, up to the awaits, on the transports of the mode.
Revoke(r, c, i, throws, published) ==
    /\ i \in Running
    /\ NextCall(r)
    /\ throws => HasWs /\ i \in Attached
    /\ LET mine == c \in held /\ Home[c] = i
           sends == handsToSocketIo(i, throws)
       IN  /\ published => HasSse /\ ~mine
           /\ revocation' = [revocation EXCEPT ![r] =
                  [conn |-> c, at |-> i, outcome |-> "pending", published |-> published,
                   sse |-> disconnectSse(c, mine), ws |-> disconnectWs(sends)]]
           /\ CASE mine /\ Transport[c] = "sse" -> disconnectLocal(c)
                [] mine /\ Transport[c] = "websocket" /\ i \in Attached ->
                       held' = held \ {c} /\ UNCHANGED closing
                [] OTHER -> UNCHANGED <<held, closing>>
           /\ onAdapter' = IF sends THEN onAdapter \cup Adapted(<<"disconnect", c, i>>, i)
                                    ELSE onAdapter
           /\ onBus' = IF published THEN onBus \cup PublishedBy(<<"disconnect", c, i>>) ELSE onBus
    /\ UNCHANGED <<bus, emit, queued, delivered>>

\* onDisconnect settles: the stream closes, and whoever awaited it goes on.
HookSettles(c) ==
    /\ c \in closing
    /\ closing' = closing \ {c}
    /\ revocation' = [r \in Revocations |->
           IF revocation[r].conn = c /\ revocation[r].sse = "hook"
           THEN [revocation[r] EXCEPT !.sse = "ok"] ELSE revocation[r]]
    /\ UNCHANGED <<bus, held, emit, netVars, queued, delivered>>

\* A slip: as for emits, one transport that took it is enough.
settleBothLeniently(legs) == legs \subseteq {"failed", "none"}

\* settleBoth rejects when either transport does.
settleBoth(legs) == "failed" \in legs

\* Both transports have answered, a publish in SSE's place included.
RevokeSettles(r, sse) ==
    /\ revocation[r].conn # "none"
    /\ revocation[r].outcome = "pending"
    /\ IF revocation[r].sse = "pending"
       THEN sse \in Answers("pending", revocation[r].published)
       ELSE sse = revocation[r].sse /\ sse # "hook"
    /\ revocation' = [revocation EXCEPT
           ![r].sse = sse,
           ![r].outcome = IF settleBoth({sse, revocation[r].ws}) THEN "rejected" ELSE "resolved"]
    /\ UNCHANGED <<bus, held, closing, emit, netVars, queued, delivered>>

-----------------------------------------------------------------------------
(* The other instances. *)

\* A slip: the origin is not looked at.
handleEcho(m, i) ==
    IF m[1] = "emit"
    THEN deliver(m[2], emitLocal(emit[m[2]].target, i)) /\ UNCHANGED <<held, closing>>
    ELSE /\ IF m[2] \in Local(i, "sse") THEN disconnectLocal(m[2]) ELSE UNCHANGED <<held, closing>>
         /\ UNCHANGED delivered

\* RealtimePubSubSubscriber.handle: an echo is dropped, an emit goes to the local
\* SSE connections, a revocation to disconnectLocal, which is not awaited.
handle(m, i) ==
    CASE m[3] = i -> UNCHANGED <<held, closing, delivered>>
      [] m[3] # i /\ m[1] = "emit" ->
             /\ deliver(m[2], emitLocal(emit[m[2]].target, i))
             /\ UNCHANGED <<held, closing>>
      [] OTHER ->
             /\ IF m[2] \in Local(i, "sse") THEN disconnectLocal(m[2]) ELSE UNCHANGED <<held, closing>>
             /\ UNCHANGED delivered

BusDelivers(m, i) ==
    /\ <<m, i>> \in onBus
    /\ onBus' = onBus \ {<<m, i>>}
    /\ handle(m, i)
    /\ UNCHANGED <<bus, callVars, onAdapter>>

\* Socket.IO on another node: to(room).emit, or disconnectSockets.
AdapterDelivers(m, i) ==
    /\ <<m, i>> \in onAdapter
    /\ onAdapter' = onAdapter \ {<<m, i>>}
    /\ IF m[1] = "emit"
       THEN deliver(m[2], Audience[emit[m[2]].target] \cap Local(i, "websocket")) /\ UNCHANGED held
       ELSE held' = held \ ({m[2]} \cap Local(i, "websocket")) /\ UNCHANGED delivered
    /\ UNCHANGED <<bus, closing, callVars, onBus>>

-----------------------------------------------------------------------------
\* The client closes its connection, or its network does.
ClientLeaves(c) ==
    /\ c \in held
    /\ held' = held \ {c}
    /\ UNCHANGED <<bus, closing, callVars, netVars, delivered>>

Next ==
    \/ \E e \in Events :
        \/ \E t \in Targets, i \in Instances, throws, kept, published \in BOOLEAN :
               Emit(e, t, i, throws, kept, published)
        \/ \E queue, publish \in Legs : EmitSettles(e, queue, publish)
    \/ \E r \in Revocations :
        \/ \E c \in Conns, i \in Instances, throws, published \in BOOLEAN :
               Revoke(r, c, i, throws, published)
        \/ \E sse \in Legs : RevokeSettles(r, sse)
    \/ \E copy \in onBus : BusDelivers(copy[1], copy[2])
    \/ \E copy \in onAdapter : AdapterDelivers(copy[1], copy[2])
    \/ \E c \in Conns : HookSettles(c) \/ ClientLeaves(c)

Spec == Init /\ [][Next]_vars

-----------------------------------------------------------------------------
(* It implements the promise. *)

Delivery == INSTANCE EventDelivery
    WITH sent <- [e \in Events |-> emit[e].target], received <- delivered, live <- held

\* Whatever the bus, the adapter, the echoes, the clients and the revocations do,
\* an event reaches connections of its audience only, each at most once, and none
\* whose record has gone (emitTo*, RealtimePubSubSubscriber.handle).
ImplementsDelivery == Delivery!Spec

-----------------------------------------------------------------------------
(* Safety. *)

\* A rejected emit was written to no connection of the instance that made the
\* call, and to nobody at all over the in-memory bus: rejecting means that no path
\* is known to have carried it (emitToUser, CompositeTransport.fanOut).
RejectedReachedNobodyHere ==
    \A e \in Events, c \in Conns :
        emit[e].outcome = "rejected" /\ (Home[c] = emit[e].at \/ bus = "memory")
            => \A k \in DOMAIN delivered[c] : delivered[c][k] # e

\* The converse: an emit with a failure resolves only if somebody may have had it
\* or will, and then the failure went to the hook; the exception is an SSE
\* rejection that fanOut only logs because WebSocket took the event.
FailuresSurface ==
    \A e \in Events :
        LET failed == (IF emit[e].publish = "failed" THEN {"publish"} ELSE {}) \cup
                      (IF emit[e].queue = "failed" THEN {"offlineAppend"} ELSE {})
        IN  /\ emit[e].outcome = "resolved" /\ failed # {} =>
                  \/ emit[e].reported = failed
                  \/ Mode = "both" /\ emit[e].ws = "ok"
            /\ emit[e].outcome = "rejected" => emit[e].reported = {}

\* The outcome of an emit says what became of it, both ways.
OutcomesTruthful == TypeOK /\ RejectedReachedNobodyHere /\ FailuresSurface

\* A resolved disconnect has closed the connection, or begun to, or its revocation
\* is on its way to the instance that holds it (or lost on that way): it never
\* resolves having done nothing ("Revocation is never best-effort").
RevocationsAccounted ==
    \A r \in Revocations :
        LET c == revocation[r].conn
            copy == <<<<"disconnect", c, revocation[r].at>>, Home[c]>>
        IN  revocation[r].outcome = "resolved" =>
                c \notin held \/ copy \in onBus \cup onAdapter

=============================================================================
