------------------------------ MODULE SseReplay ------------------------------
(***************************************************************************)
(* How the events of one user survive a dropped SSE stream: the replay     *)
(* ring of EventReplayBuffer, the durable queue of IOfflineQueueStorage    *)
(* (RedisOfflineQueue), and the handshake of SseSubscriptionHandler, which *)
(* reads both before the stream is registered.                             *)
(*                                                                         *)
(* An event is its id; EventIdGenerator hands them out in increasing       *)
(* order.  Events of a tenant, a room or a broadcast reach the user's      *)
(* streams with an id as well, but neither the ring nor the queue.  A      *)
(* client is one browser tab: it reconnects with the last id it received,  *)
(* the one included that the framework gives an event without an id.       *)
(*                                                                         *)
(* The instance talks to Redis over one connection, so its commands        *)
(* execute in the order it issued them, each at any later time.  Other     *)
(* instances hold no stream of this user; what they emit goes to the queue *)
(* on their own Redis connection and reaches this instance over the bus,   *)
(* late, in any order, or not at all.                                      *)
(***************************************************************************)
EXTENDS Integers, Sequences, FiniteSets, SequencesExt

CONSTANTS
    Clients,          \* the browser tabs of the user
    ReplayBufferSize, \* options.sse.replayBufferSize
    QueueConfigured,  \* whether options.offlineQueue is set
    MaxPerUser,       \* RedisOfflineQueue's cap on a user's events
    RetrieveLimit,    \* OfflineQueueDeliveryService's RETRIEVE_LIMIT
    StorageMayFail,   \* whether a command to Redis can fail, or the key expire
    Elsewhere,        \* whether another instance emits to the user
    Broadcasts,       \* whether events not addressed to the user reach its streams
    EmitConnectionEvent, \* options.sse.emitConnectionEvent
    MaxEvents,        \* bound: events emitted in a behaviour
    MaxRestarts       \* bound: restarts of the instance in a behaviour

ASSUME ReplayAssumption ==
    /\ IsFiniteSet(Clients)
    /\ ReplayBufferSize \in Nat \ {0}
    /\ MaxPerUser \in Nat \ {0}
    /\ RetrieveLimit \in Nat \ {0}
    /\ MaxEvents \in Nat
    /\ MaxRestarts \in Nat
    /\ QueueConfigured \in BOOLEAN
    /\ StorageMayFail \in BOOLEAN
    /\ Elsewhere \in BOOLEAN
    /\ Broadcasts \in BOOLEAN
    /\ EmitConnectionEvent \in BOOLEAN

VARIABLES
    issued,      \* the last id the generators handed out
    ring,        \* EventReplayBuffer.buffers of the user
    queue,       \* the user's sorted set in Redis
    commands,    \* issued by this instance to Redis, not executed yet
    remote,      \* appends of another instance, not executed yet
    bus,         \* events of another instance on their way here
    phase,       \* phase[c]: where the request or stream of c is
    captured,    \* captured[c]: replayEvents of the handshake
    gap,         \* gap[c]: queueEvents of the handshake
    wire,        \* wire[c]: written to the stream of c, not received yet
    lastEventId, \* lastEventId[c]: what c sends as Last-Event-ID
    ghosts,      \* clients with an earlier stream the server still believes open
    restarts,    \* restarts so far
    addressed,   \* history: the events emitted to the user
    received,    \* history: received[c]
    exposed,     \* history: exposed[c], emitted here during a handshake of c
    unqueued,    \* history: emitted while the user was online, or appends a restart cut off
    pruned,      \* history: removed from the queue by an acknowledgement
    written      \* history: the ids written to some open stream

storeVars   == <<queue, commands, remote>>
eventVars   == <<issued, addressed, ring, bus, unqueued>>
streamVars  == <<phase, captured, gap, wire, ghosts, written>>
clientVars  == <<lastEventId, received>>
historyVars == <<exposed, pruned, restarts>>
vars == <<storeVars, eventVars, streamVars, clientVars, historyVars>>

-----------------------------------------------------------------------------
Ids == 1..MaxEvents

\* What the framework numbers an event without an id, such as connection:established:
\* "1", which is below the id of every emitted event.
AutoId == 0

\* A client that has received nothing sends no Last-Event-ID.
NoHeader == -1

\* "closing": the record is gone, the hook is awaited, close$ has not fired.
Phases == {"off", "retrieving", "returned", "live", "closing"}

Commands == [op : {"append", "acknowledge"}, id : Ids]
            \cup [op : {"remove"}, ids : SUBSET Ids]
            \cup [op : {"retrieve"}, client : Clients]

TypeOK ==
    /\ issued \in 0..MaxEvents
    /\ addressed \subseteq Ids
    /\ ring \in Seq(Ids) /\ Len(ring) <= ReplayBufferSize
    /\ queue \subseteq Ids
    /\ commands \in Seq(Commands)
    /\ remote \subseteq Ids /\ bus \subseteq Ids
    /\ phase \in [Clients -> Phases]
    /\ captured \in [Clients -> Seq(Ids)]
    /\ gap \in [Clients -> Seq(Ids)]
    /\ wire \in [Clients -> Seq({AutoId} \cup Ids)]
    /\ lastEventId \in [Clients -> NoHeader..MaxEvents]
    /\ ghosts \subseteq Clients
    /\ restarts \in 0..MaxRestarts
    /\ received \in [Clients -> SUBSET Ids]
    /\ exposed \in [Clients -> SUBSET Ids]
    /\ unqueued \subseteq Ids /\ pruned \subseteq Ids
    /\ written \subseteq Ids

Init ==
    /\ issued = 0
    /\ addressed = {}
    /\ ring = <<>>
    /\ queue = {}
    /\ commands = <<>>
    /\ remote = {} /\ bus = {}
    /\ phase = [c \in Clients |-> "off"]
    /\ captured = [c \in Clients |-> <<>>]
    /\ gap = [c \in Clients |-> <<>>]
    /\ wire = [c \in Clients |-> <<>>]
    /\ lastEventId = [c \in Clients |-> NoHeader]
    /\ ghosts = {}
    /\ restarts = 0
    /\ received = [c \in Clients |-> {}]
    /\ exposed = [c \in Clients |-> {}]
    /\ unqueued = {} /\ pruned = {}
    /\ written = {}

-----------------------------------------------------------------------------
(* EventReplayBuffer. *)

\* A slip: pop instead of shift.
appendPops(buf, e) ==
    LET all == Append(buf, e)
    IN  IF Len(all) > ReplayBufferSize THEN Front(all) ELSE all

append(buf, e) ==
    LET all == Append(buf, e)
    IN  IF Len(all) > ReplayBufferSize THEN Tail(all) ELSE all

\* Where findIndex finds id: its first place, if it has one.
IndexOf(buf, id) == {i \in 1..Len(buf) : buf[i] = id /\ \A j \in 1..(i - 1) : buf[j] # id}

\* A slip: the slice starts one event too late.
sinceSkipsOne(buf, id) ==
    LET found == IndexOf(buf, id)
    IN  IF found = {} THEN <<>> ELSE SubSeq(buf, (CHOOSE i \in found : TRUE) + 2, Len(buf))

\* Nothing when the ring does not hold id, as when there is no header.
since(buf, id) ==
    LET found == IndexOf(buf, id)
    IN  IF found = {} THEN <<>> ELSE SubSeq(buf, (CHOOSE i \in found : TRUE) + 1, Len(buf))

-----------------------------------------------------------------------------
(* RedisOfflineQueue, by the ids in the user's sorted set. *)

\* zadd, then zremrangebyrank beyond the cap: the greatest MaxPerUser ids stay.
zadd(q, e) ==
    LET all == q \cup {e}
    IN  {d \in all : Cardinality({x \in all : x > d}) < MaxPerUser}

\* A slip: the lower bound skips one key too many.
retrieveSinceLate(q, id) ==
    {e \in q : e > id + 1 /\ Cardinality({d \in q : id + 1 < d /\ d < e}) < RetrieveLimit}

\* zrangebylex above id, LIMIT 0 RetrieveLimit: the first ones in id order.
retrieveSince(q, id) ==
    {e \in q : e > id /\ Cardinality({d \in q : id < d /\ d < e}) < RetrieveLimit}

InOrder(s) == \A i, j \in 1..Len(s) : i < j => s[i] < s[j]

\* The members of S in id order.
Listings(S) == {s \in SetToSeqs(S) : InOrder(s)}

-----------------------------------------------------------------------------
(* Emitting. *)

\* The record of the user that emits reach and that makes the user "online".
Live == {c \in Clients : phase[c] = "live"}

InHandshake == {c \in Clients : phase[c] \in {"retrieving", "returned"}}

deliver(e, streams) ==
    /\ wire' = [c \in Clients |-> IF c \in streams THEN Append(wire[c], e) ELSE wire[c]]
    /\ written' = IF streams = {} THEN written ELSE written \cup {e}

\* Into the ring, and to every registered stream of the user.
emitToUserLocal(e) ==
    /\ ring' = append(ring, e)
    /\ deliver(e, Live)
    /\ exposed' = [c \in Clients |-> IF c \in InHandshake THEN exposed[c] \cup {e}
                                                          ELSE exposed[c]]

Issue(cmd) == commands' = Append(commands, cmd)

\* emitToUser, up to its await.  A ghost still has its record.
emitToUser ==
    /\ issued < MaxEvents
    /\ LET e == issued + 1 IN
        /\ issued' = e
        /\ addressed' = addressed \cup {e}
        /\ emitToUserLocal(e)
        /\ IF QueueConfigured /\ Live \cup ghosts = {}
           THEN Issue([op |-> "append", id |-> e]) /\ unqueued' = unqueued
           ELSE commands' = commands /\ unqueued' = unqueued \cup {e}
    /\ UNCHANGED <<queue, remote, bus, phase, captured, gap, ghosts, clientVars,
                   pruned, restarts>>

\* emitToTenant, emitToRoom or broadcast, with those streams of the user in reach.
broadcast(reached) ==
    /\ Broadcasts
    /\ issued < MaxEvents
    /\ issued' = issued + 1
    /\ deliver(issued + 1, reached)
    /\ UNCHANGED <<storeVars, addressed, ring, bus, unqueued, phase, captured, gap, ghosts,
                   clientVars, historyVars>>

\* emitToUser of an instance without a stream of the user.
EmitElsewhere ==
    /\ Elsewhere
    /\ issued < MaxEvents
    /\ issued' = issued + 1
    /\ addressed' = addressed \cup {issued + 1}
    /\ bus' = bus \cup {issued + 1}
    /\ remote' = IF QueueConfigured THEN remote \cup {issued + 1} ELSE remote
    /\ UNCHANGED <<queue, commands, ring, unqueued, streamVars, clientVars, historyVars>>

\* The bus hands over, or loses, an event of another instance.
BusDelivers(e) ==
    /\ e \in bus
    /\ bus' = bus \ {e}
    /\ emitToUserLocal(e)
    /\ UNCHANGED <<storeVars, issued, addressed, unqueued, phase, captured, gap, ghosts,
                   clientVars, pruned, restarts>>

BusLoses(e) ==
    /\ e \in bus
    /\ bus' = bus \ {e}
    /\ UNCHANGED <<storeVars, issued, addressed, ring, unqueued, streamVars, clientVars,
                   historyVars>>

-----------------------------------------------------------------------------
(* Redis executes the instance's next command. *)

NextIs(op) == commands # <<>> /\ Head(commands).op = op

AppendExecutes ==
    /\ NextIs("append")
    /\ queue' = zadd(queue, Head(commands).id)
    /\ commands' = Tail(commands)
    /\ UNCHANGED <<remote, eventVars, streamVars, clientVars, historyVars>>

RemoteAppendExecutes(e) ==
    /\ e \in remote
    /\ remote' = remote \ {e}
    /\ queue' = zadd(queue, e)
    /\ UNCHANGED <<commands, eventVars, streamVars, clientVars, historyVars>>

\* acknowledge finds the members up to an id; the zrem is issued on its answer.
AcknowledgeExecutes ==
    /\ NextIs("acknowledge")
    /\ LET upTo == {e \in queue : e <= Head(commands).id} IN
        commands' = IF upTo = {} THEN Tail(commands)
                    ELSE Append(Tail(commands), [op |-> "remove", ids |-> upTo])
    /\ UNCHANGED <<queue, remote, eventVars, streamVars, clientVars, historyVars>>

RemoveExecutes ==
    /\ NextIs("remove")
    /\ queue' = queue \ Head(commands).ids
    /\ pruned' = pruned \cup (queue \cap Head(commands).ids)
    /\ commands' = Tail(commands)
    /\ UNCHANGED <<remote, eventVars, streamVars, clientVars, exposed, restarts>>

\* The handshake of c has its queue events: buildStream, and handle returns.
Retrieved(c, events) ==
    /\ gap' = [gap EXCEPT ![c] = events]
    /\ phase' = [phase EXCEPT ![c] = "returned"]
    /\ commands' = Tail(commands)

\* A slip: what the ring replays is not taken out of what the queue gives.
RetrieveKeepsDuplicates ==
    /\ NextIs("retrieve")
    /\ LET c == Head(commands).client IN
        \E events \in Listings(retrieveSince(queue, lastEventId[c])) : Retrieved(c, events)
    /\ UNCHANGED <<queue, remote, eventVars, captured, wire, ghosts, written, clientVars,
                   historyVars>>

\* A slip: what was retrieved is acknowledged before it is written.
RetrieveAcknowledges ==
    /\ NextIs("retrieve")
    /\ LET c == Head(commands).client
           missing == retrieveSince(queue, lastEventId[c]) \ ToSet(captured[c])
       IN  \E events \in Listings(missing) :
              /\ gap' = [gap EXCEPT ![c] = events]
              /\ phase' = [phase EXCEPT ![c] = "returned"]
              /\ commands' = IF events = <<>> THEN Tail(commands)
                             ELSE Append(Tail(commands),
                                         [op |-> "acknowledge", id |-> Last(events)])
    /\ UNCHANGED <<queue, remote, eventVars, captured, wire, ghosts, written, clientVars,
                   historyVars>>

\* retrieve: the queue's events above Last-Event-ID that the ring did not replay.
RetrieveExecutes ==
    /\ NextIs("retrieve")
    /\ LET c == Head(commands).client
           missing == retrieveSince(queue, lastEventId[c]) \ ToSet(captured[c])
       IN  \E events \in Listings(missing) : Retrieved(c, events)
    /\ UNCHANGED <<queue, remote, eventVars, captured, wire, ghosts, written, clientVars,
                   historyVars>>

\* A failed command: an append is reported, an acknowledgement is logged, and a
\* retrieval gives nothing.
CommandFails ==
    /\ StorageMayFail
    /\ commands # <<>>
    /\ IF NextIs("retrieve")
       THEN Retrieved(Head(commands).client, <<>>)
       ELSE commands' = Tail(commands) /\ UNCHANGED <<phase, gap>>
    /\ UNCHANGED <<queue, remote, eventVars, captured, wire, ghosts, written, clientVars,
                   historyVars>>

\* The key expires.
Expire ==
    /\ StorageMayFail
    /\ queue # {}
    /\ queue' = {}
    /\ UNCHANGED <<commands, remote, eventVars, streamVars, clientVars, historyVars>>

-----------------------------------------------------------------------------
(* The handshake and the stream. *)

\* openStream up to its await: the ring is captured, the queue is asked.
openStream(c) ==
    /\ phase[c] = "off"
    /\ captured' = [captured EXCEPT ![c] = since(ring, lastEventId[c])]
    /\ IF QueueConfigured /\ lastEventId[c] # NoHeader
       THEN /\ phase' = [phase EXCEPT ![c] = "retrieving"]
            /\ Issue([op |-> "retrieve", client |-> c])
       ELSE /\ phase' = [phase EXCEPT ![c] = "returned"]
            /\ commands' = commands
    /\ UNCHANGED <<queue, remote, eventVars, gap, wire, ghosts, written, clientVars, historyVars>>

\* The handshake's closure is done with.
Leave(c, next) ==
    /\ phase' = [phase EXCEPT ![c] = next]
    /\ captured' = [captured EXCEPT ![c] = <<>>]
    /\ gap' = [gap EXCEPT ![c] = <<>>]

\* The framework drops the Observable unsubscribed.
Abandon(c) ==
    /\ phase[c] = "returned"
    /\ Leave(c, "off")
    /\ UNCHANGED <<storeVars, eventVars, wire, ghosts, written, clientVars, historyVars>>

established == IF EmitConnectionEvent THEN <<AutoId>> ELSE <<>>

\* buildStream's subscriber callback: connection:established, the ring's events,
\* then the queue's, then the acknowledgement, and the registration.
Subscribe(c) ==
    /\ phase[c] = "returned"
    /\ Leave(c, "live")
    /\ wire' = [wire EXCEPT ![c] = established \o (captured[c] \o gap[c])]
    /\ written' = written \cup ToSet(captured[c]) \cup ToSet(gap[c])
    /\ IF gap[c] # <<>>
       THEN Issue([op |-> "acknowledge", id |-> Last(gap[c])])
       ELSE commands' = commands
    /\ UNCHANGED <<queue, remote, eventVars, ghosts, clientVars, historyVars>>

\* The same with a subscriber that the emission itself closed: nothing is
\* acknowledged, and the registration is undone.
SubscribeClosed(c) ==
    /\ phase[c] = "returned"
    /\ Leave(c, "off")
    /\ ghosts' = ghosts \cup {c}
    /\ UNCHANGED <<storeVars, eventVars, wire, written, clientVars, historyVars>>

\* The client receives the next event of its stream.
Receive(c) ==
    /\ wire[c] # <<>>
    /\ lastEventId' = [lastEventId EXCEPT ![c] = Head(wire[c])]
    /\ received' = [received EXCEPT ![c] = @ \cup ({Head(wire[c])} \ {AutoId})]
    /\ wire' = [wire EXCEPT ![c] = Tail(@)]
    /\ UNCHANGED <<storeVars, eventVars, phase, captured, gap, ghosts, written, historyVars>>

\* disconnectLocal or an eviction: the record goes, the stream is closed later.
disconnectLocal(c) ==
    /\ phase[c] = "live"
    /\ phase' = [phase EXCEPT ![c] = "closing"]
    /\ UNCHANGED <<storeVars, eventVars, captured, gap, wire, ghosts, written, clientVars,
                   historyVars>>

\* close$: the stream completes after what was written to it.
StreamCloses(c) ==
    /\ phase[c] = "closing"
    /\ wire[c] = <<>>
    /\ phase' = [phase EXCEPT ![c] = "off"]
    /\ UNCHANGED <<storeVars, eventVars, captured, gap, wire, ghosts, written, clientVars,
                   historyVars>>

\* The network breaks the stream: what is on the wire is lost, and the server
\* may not notice for a while.
Drop(c) ==
    /\ phase[c] \in {"live", "closing"}
    /\ phase' = [phase EXCEPT ![c] = "off"]
    /\ wire' = [wire EXCEPT ![c] = <<>>]
    /\ ghosts' = IF phase[c] = "live" THEN ghosts \cup {c} ELSE ghosts
    /\ UNCHANGED <<storeVars, eventVars, captured, gap, written, clientVars, historyVars>>

\* The server notices: finalize drops the record of the earlier stream.
GhostEnds(c) ==
    /\ c \in ghosts
    /\ ghosts' = ghosts \ {c}
    /\ UNCHANGED <<storeVars, eventVars, phase, captured, gap, wire, written, clientVars,
                   historyVars>>

\* The instance restarts: all but the queue is gone.
Restart ==
    /\ restarts < MaxRestarts
    /\ restarts' = restarts + 1
    /\ ring' = <<>>
    /\ commands' = <<>>
    /\ bus' = {}
    /\ phase' = [c \in Clients |-> "off"]
    /\ captured' = [c \in Clients |-> <<>>]
    /\ gap' = [c \in Clients |-> <<>>]
    /\ wire' = [c \in Clients |-> <<>>]
    /\ ghosts' = {}
    /\ unqueued' = unqueued \cup {e \in Ids : [op |-> "append", id |-> e] \in ToSet(commands)}
    /\ UNCHANGED <<queue, remote, issued, addressed, written, clientVars, exposed, pruned>>

-----------------------------------------------------------------------------
Redis ==
    \/ AppendExecutes \/ AcknowledgeExecutes \/ RemoveExecutes \/ RetrieveExecutes
    \/ CommandFails \/ Expire

Stream(c) ==
    \/ openStream(c) \/ Abandon(c) \/ Subscribe(c) \/ SubscribeClosed(c) \/ Receive(c)
    \/ disconnectLocal(c) \/ StreamCloses(c) \/ Drop(c) \/ GhostEnds(c)

Next ==
    \/ emitToUser \/ EmitElsewhere
    \/ \E reached \in SUBSET Live : broadcast(reached)
    \/ \E e \in Ids : BusDelivers(e) \/ BusLoses(e) \/ RemoteAppendExecutes(e)
    \/ Redis
    \/ \E c \in Clients : Stream(c)
    \/ Restart

Spec == Init /\ [][Next]_vars

-----------------------------------------------------------------------------
(* Safety. *)

WithoutEstablished(s) == IF s # <<>> /\ Head(s) = AutoId THEN Tail(s) ELSE s

\* The events on their way to c.
Coming(c) == WithoutEstablished(wire[c])

\* What is under way to c comes in id order and above its Last-Event-ID: no event
\* comes twice on a stream, and none comes again that the client has told of, though
\* the ring, the queue and the live stream overlap and events are emitted while c
\* reconnects ("Events for the same user are delivered in order"; buildStream's
\* established -> replay -> queue -> live).
DeliveredInOrder == \A c \in Clients : InOrder(<<lastEventId[c]>> \o Coming(c))

\* While the ring still holds what a client received last, its handshake captures every
\* event of the user since then: the ring forgets the oldest first and has no hole
\* ("Return the events emitted after `lastEventId`", since; a gap is a lastEventId that
\* is not present).
ReplayComplete ==
    [][\A c \in Clients : openStream(c) /\ lastEventId[c] \in ToSet(ring) =>
          \A e \in addressed : lastEventId[c] < e => e \in ToSet(captured'[c])]_vars

\* An acknowledgement never removes an event newer than everything written to an
\* open stream: a handshake that comes to nothing prunes nothing, and what is
\* appended while the acknowledgement is under way stays (acknowledge).
PrunedWereCovered == \A e \in pruned : \E w \in written : e <= w

\* The user's events a client has skipped: it received an older one, and it will
\* ask for those after a newer one.
Missed(c) ==
    {e \in addressed \ received[c] : e < lastEventId[c] /\ \E older \in received[c] : older < e}

\* With a queue that holds everything, whatever the ring lost or is asked for, an event
\* is missed only if it was emitted during a handshake, was not queued because the
\* user was online, or was acknowledged for another stream or a stream that broke.
LossesExplained == \A c \in Clients : Missed(c) \subseteq exposed[c] \cup unqueued \cup pruned

\* The strengthening that makes DeliveredInOrder inductive on a lone instance: the
\* ring holds the user's latest events without a hole, so a handshake that captures
\* anything of it captures all the client lacks, and what the queue adds can only
\* come after it.
Alone == bus = {} /\ remote = {}

RingIsRecent ==
    /\ InOrder(ring)
    /\ ToSet(ring) \subseteq addressed
    /\ \A e \in addressed : ring # <<>> /\ e >= Head(ring) => e \in ToSet(ring)

StoredWereIssued ==
    /\ addressed \subseteq 1..issued
    /\ queue \subseteq addressed
    /\ \A i \in 1..Len(commands) : commands[i].op = "append" => commands[i].id \in addressed

RetrievalsAwaited ==
    \A i \in 1..Len(commands) : commands[i].op = "retrieve" =>
        /\ phase[commands[i].client] = "retrieving"
        /\ \A j \in 1..Len(commands) :
              commands[j].op = "retrieve" /\ commands[j].client = commands[i].client => j = i

\* s is in order, above the client's Last-Event-ID, and issued.
Follows(s, c) ==
    /\ InOrder(s)
    /\ \A i \in 1..Len(s) : lastEventId[c] < s[i] /\ s[i] <= issued

HandshakeInOrder(c) ==
    /\ lastEventId[c] <= issued
    /\ Follows(captured[c], c) /\ Follows(gap[c], c)
    /\ \A i \in 1..Len(captured[c]), j \in 1..Len(gap[c]) : captured[c][i] < gap[c][j]
    /\ \A e \in addressed : lastEventId[c] < e =>
          e \in ToSet(captured[c]) \/ \A i \in 1..Len(captured[c]) : captured[c][i] < e

StreamInOrder(c) ==
    /\ Coming(c) \in Seq(Ids) /\ Follows(Coming(c), c)
    /\ phase[c] \notin {"live", "closing"} => wire[c] = <<>>
    /\ phase[c] \in {"off", "live", "closing"} => captured[c] = <<>> /\ gap[c] = <<>>

IInv ==
    /\ TypeOK
    /\ Alone
    /\ RingIsRecent
    /\ StoredWereIssued
    /\ RetrievalsAwaited
    /\ \A c \in Clients : HandshakeInOrder(c) /\ StreamInOrder(c)

-----------------------------------------------------------------------------
(* What the repository says and the code does not do: it is violated. *)

\* "For strong 'no event loss' guarantees, configure IOfflineQueueStorage"
\* (technical_specification.md): with the queue, no client misses an event.
NoEventLost == \A c \in Clients : Missed(c) = {}

=============================================================================
