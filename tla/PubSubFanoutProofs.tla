------------------------- MODULE PubSubFanoutProofs -------------------------
(***************************************************************************)
(* PubSubFanout for any number of instances, connections, targets and      *)
(* calls: it implements EventDelivery, the outcome of an emit says what    *)
(* became of it, and a resolved disconnect has done its part.              *)
(***************************************************************************)
EXTENDS PubSubFanout, FiniteSetTheorems, TLAPS

-----------------------------------------------------------------------------
(* The inductive invariant. *)

\* The events written to c.
Had(c) == {delivered[c][k] : k \in DOMAIN delivered[c]}

Emitted == {e \in Events : emit[e].target # "none"}
Revoked == {r \in Revocations : revocation[r].conn # "none"}

\* Calls are numbered without a hole, so a new call has a new number.
CallsNumbered ==
    /\ \A e \in Emitted : e <= Cardinality(Emitted) + Cardinality(Revoked)
    /\ \A r \in Revoked : r <= Cardinality(Emitted) + Cardinality(Revoked)

\* Only instances that run hold connections and make calls.
OnRunningInstances ==
    /\ \A c \in held : Home[c] \in Running
    /\ \A e \in Emitted : emit[e].at \in Running

\* A copy under way is of an event that its origin has emitted; the adapter carries none
\* to the node that sent it.
CopiesAccounted ==
    \A e \in Events, j, i \in Instances :
        /\ <<<<"emit", e, j>>, i>> \in onBus => e \in Emitted /\ emit[e].at = j
        /\ <<<<"emit", e, j>>, i>> \in onAdapter => e \in Emitted /\ emit[e].at = j /\ i # j

\* What carries an event to c on another instance.
CarrierOf(c) == IF Transport[c] = "sse" THEN onBus ELSE onAdapter

\* A connection was written an event by the instance of the call, which then queued
\* nothing and had Socket.IO take the event, or by the copy that came to its instance,
\* which is used up.
WritesAccounted ==
    \A c \in Conns : \A e \in Had(c) :
        /\ e \in Emitted
        /\ Home[c] \in Running
        /\ Home[c] = emit[e].at =>
               IF Transport[c] = "sse" THEN emit[e].queue = "none" ELSE emit[e].ws = "ok"
        /\ Home[c] # emit[e].at => <<<<"emit", e, emit[e].at>>, Home[c]>> \notin CarrierOf(c)

\* The legs of an emit are those of the mode, and its outcome follows from them.
LegsAccounted ==
    \A e \in Events :
        /\ emit[e].queue # "none" \/ emit[e].publish # "none" => HasSse
        /\ emit[e].ws # "none" => HasWs
        /\ e \in Emitted /\ HasWs => emit[e].ws \in {"ok", "failed"}
        /\ emit[e].outcome # "pending" =>
               /\ e \in Emitted
               /\ emit[e].outcome =
                      IF fanOut(NoPathLeft(emit[e].queue, emit[e].publish), emit[e].ws = "failed")
                      THEN "rejected" ELSE "resolved"
               /\ emit[e].reported = FailuresReported(emit[e].queue, emit[e].publish)

\* The leg of a disconnect that can reach its connection: once it is taken, the
\* connection has gone or the revocation is on its way there.
RevocationsUnderWay ==
    \A r \in Revoked :
        LET c == revocation[r].conn
            message == <<"disconnect", c, revocation[r].at>>
        IN  /\ Transport[c] = "sse" =>
                   /\ revocation[r].sse # "none"
                   /\ revocation[r].sse \in {"ok", "hook"} \/ revocation[r].published =>
                          c \notin held \/ (<<message, Home[c]>> \in onBus /\ Home[c] # revocation[r].at)
            /\ Transport[c] = "websocket" =>
                   /\ revocation[r].ws # "none"
                   /\ revocation[r].ws = "ok" =>
                          c \notin held \/ <<message, Home[c]>> \in onAdapter
            /\ revocation[r].ws # "pending"
            /\ revocation[r].outcome = "resolved" =>
                   revocation[r].sse \in {"none", "ok"} /\ revocation[r].ws \in {"none", "ok"}

IInv ==
    /\ TypeOK
    /\ CallsNumbered
    /\ OnRunningInstances
    /\ CopiesAccounted
    /\ WritesAccounted
    /\ LegsAccounted
    /\ RevocationsUnderWay

-----------------------------------------------------------------------------
(* What the helpers do. *)

\* Appending an event adds it to what a connection was written, and shows.
LEMMA AppendFact ==
    ASSUME NEW log \in Seq(Events), NEW e \in Events
    PROVE  /\ Append(log, e) \in Seq(Events)
           /\ Append(log, e) # log
           /\ {Append(log, e)[k] : k \in DOMAIN Append(log, e)}
                  = {log[k] : k \in DOMAIN log} \cup {e}
<1>1. /\ Append(log, e) \in Seq(Events)
      /\ Len(Append(log, e)) = Len(log) + 1
      /\ Append(log, e)[Len(log) + 1] = e
      /\ \A k \in 1..Len(log) : Append(log, e)[k] = log[k]
      /\ DOMAIN Append(log, e) = 1..(Len(log) + 1)
      /\ DOMAIN log = 1..Len(log)
      /\ Len(log) \in Nat
  OBVIOUS
<1>2. ASSUME Append(log, e) = log PROVE FALSE
  <2>1. Len(log) = Len(log) + 1
    BY <1>1, <1>2
  <2> QED
    BY <1>1, <2>1
<1>3. {Append(log, e)[k] : k \in DOMAIN Append(log, e)}
         = {log[k] : k \in DOMAIN log} \cup {e}
  <2>1. 1..(Len(log) + 1) = 1..Len(log) \cup {Len(log) + 1}
    BY <1>1
  <2> QED
    BY <1>1, <2>1
<1> QED
  BY <1>1, <1>2, <1>3

\* deliver writes e to the connections of S, and to no other.
LEMMA DeliverFact ==
    ASSUME TypeOK, NEW e \in Events, NEW S, deliver(e, S)
    PROVE  /\ \A c \in Conns : delivered'[c] \in Seq(Events)
           /\ \A c \in Conns : Had(c)' = Had(c) \cup (IF c \in S THEN {e} ELSE {})
           /\ \A c \in Conns : delivered'[c] # delivered[c] <=> c \in S
<1> SUFFICES ASSUME NEW c \in Conns
             PROVE  /\ delivered'[c] \in Seq(Events)
                    /\ Had(c)' = Had(c) \cup (IF c \in S THEN {e} ELSE {})
                    /\ delivered'[c] # delivered[c] <=> c \in S
  OBVIOUS
<1>1. delivered'[c] = IF c \in S THEN Append(delivered[c], e) ELSE delivered[c]
  BY DEF deliver
<1>2. delivered[c] \in Seq(Events)
  BY DEF TypeOK
<1>3. CASE c \in S
  <2>1. Append(delivered[c], e) \in Seq(Events) /\ Append(delivered[c], e) # delivered[c]
    BY <1>2, AppendFact
  <2>2. {Append(delivered[c], e)[k] : k \in DOMAIN Append(delivered[c], e)} = Had(c) \cup {e}
    BY <1>2, AppendFact, Zenon DEF Had
  <2>3. delivered'[c] = Append(delivered[c], e)
    BY <1>1, <1>3
  <2>4. Had(c)' = Had(c) \cup {e}
    BY <2>2, <2>3 DEF Had
  <2> QED
    BY <1>3, <2>1, <2>3, <2>4
<1>4. CASE c \notin S
  <2>1. delivered'[c] = delivered[c]
    BY <1>1, <1>4
  <2>2. Had(c)' = Had(c)
    BY <2>1 DEF Had
  <2> QED
    BY <1>2, <1>4, <2>1, <2>2
<1> QED
  BY <1>3, <1>4

\* What is unchanged leaves what was written as it was.
LEMMA NothingWritten ==
    ASSUME UNCHANGED delivered PROVE \A c \in Conns : Had(c)' = Had(c)
  BY DEF Had

\* Calls are finitely many.
LEMMA FiniteCalls ==
    /\ IsFiniteSet(Emitted) /\ Cardinality(Emitted) \in Nat
    /\ IsFiniteSet(Revoked) /\ Cardinality(Revoked) \in Nat
<1>1. IsFiniteSet(1..MaxCalls)
  BY FS_Interval, FanoutAssumption
<1> QED
  BY <1>1, FS_Subset, FS_CardinalityType DEF Emitted, Revoked, Events, Revocations

\* The number of a new call is the next, so it is nobody's yet.
LEMMA NewNumber ==
    ASSUME CallsNumbered, NEW n, NextCall(n)
    PROVE  /\ n = 1 + Cardinality(Emitted) + Cardinality(Revoked)
           /\ n \notin Emitted /\ n \notin Revoked
<1>1. n = 1 + Cardinality(Emitted) + Cardinality(Revoked)
  BY DEF NextCall, Emitted, Revoked
<1> QED
  BY <1>1, FiniteCalls DEF CallsNumbered

-----------------------------------------------------------------------------
(* An emit. *)

EmitRecord ==
    [target : Targets \cup {"none"}, at : Instances, queue : Legs, publish : Legs,
     published : BOOLEAN, ws : Legs, outcome : Outcomes, reported : SUBSET Failed]

\* What an emit not made yet looks like.
LEMMA NoEmitFact ==
    NoEmit \in EmitRecord /\ NoEmit.outcome = "pending" /\ NoEmit.reported = {}
  BY FanoutAssumption DEF NoEmit, EmitRecord, Legs, Outcomes

\* The connections an emit writes to at once, by the transport that carries it.
EmitReaches(t, i, throws) ==
    (IF HasSse THEN emitLocal(t, i) ELSE {}) \cup
    (IF handsToSocketIo(i, throws) THEN Audience[t] \cap Local(i, "websocket") ELSE {})

\* They are connections of its audience that its instance holds.
LEMMA ReachesFact ==
    ASSUME TypeOK, NEW t \in Targets, NEW i \in Instances, NEW throws \in BOOLEAN,
           NEW c \in EmitReaches(t, i, throws)
    PROVE  /\ c \in Conns /\ c \in held /\ c \in Audience[t] /\ Home[c] = i
           /\ Transport[c] = "sse" => ~OfflineHere(t, i)
           /\ Transport[c] # "sse" => HasWs /\ ~throws
<1>1. held \subseteq Conns
  BY DEF TypeOK
<1>2. CASE c \in emitLocal(t, i)
  <2>1. c \in held /\ c \in Audience[t] /\ Home[c] = i /\ Transport[c] = "sse"
    BY <1>2 DEF emitLocal, Local
  <2>2. ~OfflineHere(t, i)
    BY <1>2 DEF OfflineHere
  <2> QED
    BY <1>1, <2>1, <2>2
<1>3. CASE c \notin emitLocal(t, i)
  <2>1. handsToSocketIo(i, throws) /\ c \in Audience[t] \cap Local(i, "websocket")
    <3>1. c \in IF handsToSocketIo(i, throws) THEN Audience[t] \cap Local(i, "websocket") ELSE {}
      BY <1>3 DEF EmitReaches
    <3> QED
      BY <3>1
  <2>2. HasWs /\ ~throws
    BY <2>1, Zenon DEF handsToSocketIo
  <2>3. c \in held /\ c \in Audience[t] /\ Home[c] = i /\ Transport[c] = "websocket"
    BY <2>1 DEF Local
  <2> QED
    BY <1>1, <2>2, <2>3
<1> QED
  BY <1>2, <1>3

\* Only instances run.
LEMMA RunningFact == Running \subseteq Instances
  BY FanoutAssumption DEF Running

\* An emit preserves the invariant, and is an emit of EventDelivery.
LEMMA EmitStep ==
    ASSUME IInv, NEW e \in Events, NEW t \in Targets, NEW i \in Instances,
           NEW throws \in BOOLEAN, NEW kept \in BOOLEAN, NEW published \in BOOLEAN,
           Emit(e, t, i, throws, kept, published)
    PROVE  IInv' /\ Delivery!Emit(e, t)
<1> DEFINE S     == EmitReaches(t, i, throws)
           sends == handsToSocketIo(i, throws)
           m     == <<"emit", e, i>>
<1>1. /\ i \in Running
      /\ throws => HasWs
      /\ published => HasSse
      /\ emit' \in [Events -> EmitRecord]
      /\ \A d \in Events \ {e} : emit'[d] = emit[d]
      /\ emit'[e].target = t /\ emit'[e].at = i
      /\ emit'[e].queue = IF HasSse /\ OfflineHere(t, i) THEN "pending" ELSE "none"
      /\ emit'[e].publish = IF HasSse THEN "pending" ELSE "none"
      /\ emit'[e].ws = IF throws THEN "failed" ELSE IF HasWs THEN "ok" ELSE "none"
      /\ emit'[e].outcome = "pending"
      /\ deliver(e, S)
      /\ queued' \subseteq queued \cup {e}
      /\ onBus' = IF published THEN onBus \cup PublishedBy(m) ELSE onBus
      /\ onAdapter' = IF sends THEN onAdapter \cup Adapted(m, i) ELSE onAdapter
      /\ UNCHANGED <<bus, held, closing, revocation>>
  <2> DEFINE queue   == IF HasSse /\ OfflineHere(t, i) THEN "pending" ELSE "none"
             publish == IF HasSse THEN "pending" ELSE "none"
             leg     == CASE throws -> "failed" [] ~throws /\ HasWs -> "ok" [] OTHER -> "none"
             new     == [NoEmit EXCEPT !.target = t, !.at = i, !.queue = queue,
                                       !.publish = publish, !.published = published, !.ws = leg]
  <2>1. emit' = [emit EXCEPT ![e] = new]
    BY Zenon DEF Emit
  <2>2. leg = IF throws THEN "failed" ELSE IF HasWs THEN "ok" ELSE "none"
    <3>1. CASE throws
      BY <3>1
    <3>2. CASE ~throws /\ HasWs
      BY <3>2
    <3>3. CASE ~throws /\ ~HasWs
      BY <3>3
    <3> QED
      BY <3>1, <3>2, <3>3
  <2>3. /\ i \in Running
        /\ throws => HasWs
        /\ published => HasSse
        /\ deliver(e, S)
        /\ queued' \subseteq queued \cup {e}
        /\ onBus' = IF published THEN onBus \cup PublishedBy(m) ELSE onBus
        /\ onAdapter' = IF sends THEN onAdapter \cup Adapted(m, i) ELSE onAdapter
        /\ UNCHANGED <<bus, held, closing, revocation>>
    <3>1. queued' = IF kept THEN queued \cup {e} ELSE queued
      BY Zenon DEF Emit
    <3>2. queued' \subseteq queued \cup {e}
      BY <3>1
    <3>3. i \in Running /\ (throws => HasWs /\ i \in Attached) /\ (published => HasSse)
      BY Zenon DEF Emit
    <3>4. deliver(e, S)
      BY Zenon DEF Emit, EmitReaches
    <3>5. onBus' = IF published THEN onBus \cup PublishedBy(m) ELSE onBus
      BY Zenon DEF Emit
    <3>6. onAdapter' = IF sends THEN onAdapter \cup Adapted(m, i) ELSE onAdapter
      BY Zenon DEF Emit
    <3>7. UNCHANGED <<bus, held, closing, revocation>>
      BY Zenon DEF Emit
    <3> HIDE DEF sends, S, m
    <3> QED
      BY <3>2, <3>3, <3>4, <3>5, <3>6, <3>7
  <2>4. leg \in Legs
    BY <2>2 DEF Legs
  <2>5. queue \in Legs /\ publish \in Legs
    BY DEF Legs
  <2>6. queue = (IF HasSse /\ OfflineHere(t, i) THEN "pending" ELSE "none") /\ publish = (IF HasSse THEN "pending" ELSE "none")
    OBVIOUS
  <2> HIDE DEF leg, queue, publish
  <2>7. /\ new \in EmitRecord
        /\ new.target = t /\ new.at = i /\ new.queue = queue /\ new.publish = publish
        /\ new.published = published /\ new.ws = leg
        /\ new.outcome = "pending" /\ new.reported = {}
    BY <2>4, <2>5, NoEmitFact DEF EmitRecord
  <2> HIDE DEF new
  <2>8. emit \in [Events -> EmitRecord]
    BY DEF IInv, TypeOK, EmitRecord
  <2>9. emit' \in [Events -> EmitRecord] /\ emit'[e] = new /\ \A d \in Events \ {e} : emit'[d] = emit[d]
    BY <2>1, <2>7, <2>8
  <2> HIDE DEF sends, S, m
  <2>10. /\ emit'[e].target = t /\ emit'[e].at = i
         /\ emit'[e].queue = (IF HasSse /\ OfflineHere(t, i) THEN "pending" ELSE "none")
         /\ emit'[e].publish = (IF HasSse THEN "pending" ELSE "none")
         /\ emit'[e].published = published
         /\ emit'[e].ws = (IF throws THEN "failed" ELSE IF HasWs THEN "ok" ELSE "none")
         /\ emit'[e].outcome = "pending" /\ emit'[e].reported = {}
    BY <2>2, <2>6, <2>7, <2>9, Zenon
  <2> QED
    BY <2>3, <2>9, <2>10
<1>2. TypeOK /\ CallsNumbered /\ OnRunningInstances /\ CopiesAccounted /\ WritesAccounted
      /\ LegsAccounted /\ RevocationsUnderWay
  BY DEF IInv
<1>3. /\ e = 1 + Cardinality(Emitted) + Cardinality(Revoked)
      /\ e \notin Emitted /\ e \notin Revoked
  <2>1. NextCall(e)
    BY Zenon DEF Emit
  <2> QED
    BY <1>2, <2>1, NewNumber
<1>4. Emitted' = Emitted \cup {e} /\ Revoked' = Revoked
  <2>1. t # "none"
    BY FanoutAssumption
  <2>2. Revoked' = Revoked
    BY <1>1 DEF Revoked
  <2>3. \A d \in Events : d \in Emitted' <=> d \in Emitted \/ d = e
    BY <1>1, <2>1 DEF Emitted
  <2> QED
    BY <2>2, <2>3 DEF Emitted
<1>5. /\ \A c \in Conns : delivered'[c] \in Seq(Events)
      /\ \A c \in Conns : Had(c)' = Had(c) \cup (IF c \in S THEN {e} ELSE {})
      /\ \A c \in Conns : delivered'[c] # delivered[c] <=> c \in S
  BY <1>1, <1>2, DeliverFact, Zenon
<1>6. \A c \in S : /\ c \in Conns /\ c \in held /\ c \in Audience[t] /\ Home[c] = i
                   /\ Transport[c] = "sse" => ~OfflineHere(t, i)
                   /\ Transport[c] # "sse" => HasWs /\ ~throws
  BY <1>2, ReachesFact, Zenon
<1>7. /\ onBus \subseteq onBus'
      /\ \A copy \in onBus' \ onBus : \E j \in Running : copy = <<m, j>>
  BY <1>1 DEF PublishedBy
<1>8. /\ onAdapter \subseteq onAdapter'
      /\ \A copy \in onAdapter' \ onAdapter : \E j \in Running \ {i} : copy = <<m, j>>
  BY <1>1 DEF Adapted
<1> HIDE DEF S, sends
<1>9. TypeOK'
  <2>1. m \in Messages
    BY DEF Messages
  <2>2. onBus' \subseteq Messages \X Instances /\ onAdapter' \subseteq Messages \X Instances
    <3> HIDE DEF m
    <3> QED
      BY <1>2, <1>7, <1>8, <2>1, RunningFact DEF TypeOK
  <2> QED
    BY <1>1, <1>2, <1>5, <2>2 DEF TypeOK, EmitRecord
<1>10. CallsNumbered'
  <2>1. Cardinality(Emitted') = Cardinality(Emitted) + 1
    BY <1>3, <1>4, FiniteCalls, FS_AddElement
  <2>2. \A n \in Emitted \cup Revoked \cup {e} : n \in Nat
    BY FanoutAssumption DEF Emitted, Revoked, Events, Revocations
  <2> QED
    <3>1. \A n \in Emitted \cup Revoked \cup {e} :
              n <= Cardinality(Emitted) + 1 + Cardinality(Revoked)
      BY <1>2, <1>3, <2>2, FiniteCalls DEF CallsNumbered
    <3>2. \A n \in Emitted' \cup Revoked' : n <= Cardinality(Emitted') + Cardinality(Revoked')
      BY <1>4, <2>1, <3>1
    <3> QED
      BY <3>2 DEF CallsNumbered
<1>11. OnRunningInstances'
  <2>1. Running' = Running
    BY <1>1 DEF Running
  <2> QED
    BY <1>1, <1>2, <1>4, <2>1 DEF OnRunningInstances, Emitted
<1>12. CopiesAccounted'
  <2> SUFFICES ASSUME NEW d \in Events, NEW j \in Instances, NEW k \in Instances
               PROVE  /\ <<<<"emit", d, j>>, k>> \in onBus' => d \in Emitted' /\ emit'[d].at = j
                      /\ <<<<"emit", d, j>>, k>> \in onAdapter' =>
                             d \in Emitted' /\ emit'[d].at = j /\ k # j
    BY DEF CopiesAccounted
  <2>1. CASE d = e
    <3>1. <<<<"emit", d, j>>, k>> \notin onBus /\ <<<<"emit", d, j>>, k>> \notin onAdapter
      BY <1>2, <1>3, <2>1 DEF CopiesAccounted
    <3> QED
      BY <1>1, <1>4, <1>7, <1>8, <2>1, <3>1
  <2>2. CASE d # e
    <3>1. <<<<"emit", d, j>>, k>> \in onBus' => <<<<"emit", d, j>>, k>> \in onBus
      BY <1>7, <2>2
    <3>2. <<<<"emit", d, j>>, k>> \in onAdapter' => <<<<"emit", d, j>>, k>> \in onAdapter
      BY <1>8, <2>2
    <3> QED
      BY <1>1, <1>2, <1>4, <2>2, <3>1, <3>2 DEF CopiesAccounted
  <2> QED
    BY <2>1, <2>2
<1>13. WritesAccounted'
  <2> SUFFICES ASSUME NEW c \in Conns, NEW d \in Had(c)'
               PROVE  /\ d \in Emitted'
                      /\ Home[c] \in Running'
                      /\ Home[c] = emit'[d].at =>
                             IF Transport[c] = "sse" THEN emit'[d].queue = "none"
                                                     ELSE emit'[d].ws = "ok"
                      /\ Home[c] # emit'[d].at =>
                             <<<<"emit", d, emit'[d].at>>, Home[c]>> \notin CarrierOf(c)'
    BY DEF WritesAccounted
  <2>1. Running' = Running
    BY <1>1 DEF Running
  <2>2. CASE d \in Had(c)
    <3>1. d \in Emitted /\ d \in Events /\ d # e /\ emit'[d] = emit[d]
      BY <1>1, <1>2, <1>3, <2>2 DEF WritesAccounted, Emitted
    <3>2. <<<<"emit", d, emit[d].at>>, Home[c]>> \in CarrierOf(c)' =>
              <<<<"emit", d, emit[d].at>>, Home[c]>> \in CarrierOf(c)
      BY <1>7, <1>8, <3>1 DEF CarrierOf
    <3> QED
      BY <1>2, <1>4, <2>1, <2>2, <3>1, <3>2 DEF WritesAccounted
  <2>3. CASE d \notin Had(c)
    <3>1. d = e /\ c \in S
      BY <1>5, <2>3
    <3> QED
      BY <1>1, <1>4, <1>6, <2>1, <3>1
  <2> QED
    BY <2>2, <2>3
<1>14. LegsAccounted'
  <2>1. bus' = bus
    BY <1>1
  <2>2. ASSUME NEW d \in Events \ {e} PROVE emit'[d] = emit[d] /\ (d \in Emitted' <=> d \in Emitted)
    BY <1>1, <1>4
  <2>3. /\ emit'[e].queue # "none" \/ emit'[e].publish # "none" => HasSse
        /\ emit'[e].ws # "none" => HasWs
        /\ HasWs => emit'[e].ws \in {"ok", "failed"}
        /\ emit'[e].outcome = "pending"
    BY <1>1
  <2> QED
    BY <1>2, <2>1, <2>2, <2>3, Zenon DEF LegsAccounted, NoPathLeft, FailuresReported
<1>15. RevocationsUnderWay'
  BY <1>1, <1>2, <1>4, <1>7, <1>8 DEF RevocationsUnderWay
<1>16. Delivery!Emit(e, t)
  <2>1. Delivery!Reached(e) = S
    BY <1>5, <1>6 DEF Delivery!Reached
  <2>2. Delivery!Writes(e)
    BY <1>1, <2>1 DEF Delivery!Writes, deliver
  <2>3. emit[e].target = "none"
    BY <1>3 DEF Emitted
  <2>4. [d \in Events |-> emit'[d].target] = [[d \in Events |-> emit[d].target] EXCEPT ![e] = t]
    BY <1>1
  <2>5. S \subseteq Audience[t] \cap held
    BY <1>6
  <2> QED
    BY <1>1, <2>1, <2>2, <2>3, <2>4, <2>5 DEF Delivery!Emit
<1> QED
  BY <1>9, <1>10, <1>11, <1>12, <1>13, <1>14, <1>15, <1>16 DEF IInv

\* An answer is final; there is one if the call was made, and ok only if it was carried out.
LEMMA AnswersFact ==
    ASSUME NEW leg \in Legs, NEW done \in BOOLEAN, NEW answer \in Answers(leg, done)
    PROVE  /\ answer \in {"none", "ok", "failed"}
           /\ answer = "none" <=> leg = "none"
           /\ answer = "ok" => done
  BY DEF Answers, Legs

\* The answers of tryAppend and tryPublish settle an emit: nothing is written, and
\* EventDelivery sees no step.
LEMMA EmitSettlesStep ==
    ASSUME IInv, NEW e \in Events, NEW queue \in Legs, NEW publish \in Legs,
           EmitSettles(e, queue, publish)
    PROVE  IInv' /\ UNCHANGED Delivery!vars
<1> DEFINE outcome  == IF fanOut(NoPathLeft(queue, publish), emit[e].ws = "failed")
                       THEN "rejected" ELSE "resolved"
           reported == FailuresReported(queue, publish)
<1>1. /\ TypeOK /\ CallsNumbered /\ OnRunningInstances /\ CopiesAccounted /\ WritesAccounted
      /\ LegsAccounted /\ RevocationsUnderWay
  BY DEF IInv
<1>2. /\ emit[e].target # "none"
      /\ queue \in Answers(emit[e].queue, e \in queued)
      /\ publish \in Answers(emit[e].publish, emit[e].published)
      /\ emit' = [emit EXCEPT ![e].queue = queue, ![e].publish = publish,
                              ![e].outcome = outcome, ![e].reported = reported]
      /\ UNCHANGED <<bus, held, closing, onBus, onAdapter, queued, delivered, revocation>>
  BY Zenon DEF EmitSettles, netVars
<1>3. outcome \in Outcomes
  BY DEF Outcomes
<1>4. reported \subseteq Failed
  BY DEF FailuresReported, Failed
<1>5. /\ emit[e].queue = "none" <=> queue = "none"
      /\ emit[e].publish = "none" <=> publish = "none"
  <2>1. /\ emit[e].queue \in Legs /\ emit[e].publish \in Legs
        /\ (e \in queued) \in BOOLEAN /\ emit[e].published \in BOOLEAN
    BY <1>1 DEF TypeOK
  <2> QED
    BY <1>2, <2>1, AnswersFact
<1>6. outcome = (IF fanOut(NoPathLeft(queue, publish), emit[e].ws = "failed")
                 THEN "rejected" ELSE "resolved")
      /\ reported = FailuresReported(queue, publish)
  OBVIOUS
<1> HIDE DEF outcome, reported
<1>7. emit \in [Events -> EmitRecord]
  BY <1>1 DEF TypeOK, EmitRecord
<1>8. /\ emit' \in [Events -> EmitRecord]
      /\ \A d \in Events \ {e} : emit'[d] = emit[d]
      /\ emit'[e].target = emit[e].target /\ emit'[e].at = emit[e].at /\ emit'[e].ws = emit[e].ws
      /\ emit'[e].queue = queue /\ emit'[e].publish = publish
      /\ emit'[e].outcome = outcome /\ emit'[e].reported = reported
  <2> DEFINE f == [emit EXCEPT ![e].queue = queue, ![e].publish = publish]
  <2>1. /\ f \in [Events -> EmitRecord]
        /\ \A d \in Events \ {e} : f[d] = emit[d]
        /\ f[e].target = emit[e].target /\ f[e].at = emit[e].at /\ f[e].ws = emit[e].ws
        /\ f[e].queue = queue /\ f[e].publish = publish
    BY <1>7 DEF EmitRecord
  <2>2. emit' = [f EXCEPT ![e].outcome = outcome, ![e].reported = reported]
    BY <1>2, Zenon
  <2> HIDE DEF f
  <2> QED
    BY <1>3, <1>4, <2>1, <2>2 DEF EmitRecord
<1>9. Emitted' = Emitted /\ Revoked' = Revoked /\ Running' = Running /\ e \in Emitted
  <2>1. \A d \in Events : emit'[d].target = emit[d].target
    BY <1>8
  <2> QED
    BY <1>2, <2>1 DEF Emitted, Revoked, Running
<1>10. \A d \in Events : emit'[d].target = emit[d].target /\ emit'[d].at = emit[d].at
                         /\ emit'[d].ws = emit[d].ws
                         /\ (emit[d].queue = "none" => emit'[d].queue = "none")
  BY <1>5, <1>8
<1>11. TypeOK'
  BY <1>1, <1>2, <1>8 DEF TypeOK, EmitRecord
<1>12. CallsNumbered' /\ OnRunningInstances'
  <2>1. Emitted \subseteq Events
    BY DEF Emitted
  <2>2. CallsNumbered'
    BY <1>1, <1>9, Zenon DEF CallsNumbered
  <2>3. OnRunningInstances'
    <3>1. held' = held /\ \A d \in Emitted : emit'[d].at = emit[d].at
      BY <1>2, <1>10, <2>1
    <3> QED
      BY <1>1, <1>9, <3>1, Zenon DEF OnRunningInstances
  <2> QED
    BY <2>2, <2>3
<1>13. CopiesAccounted'
  BY <1>1, <1>2, <1>9, <1>10 DEF CopiesAccounted
<1>14. WritesAccounted'
  <2>1. \A c \in Conns : Had(c)' = Had(c) /\ CarrierOf(c)' = CarrierOf(c)
    BY <1>2, NothingWritten DEF CarrierOf
  <2> SUFFICES ASSUME NEW c \in Conns, NEW d \in Had(c)'
               PROVE  /\ d \in Emitted'
                      /\ Home[c] \in Running'
                      /\ Home[c] = emit'[d].at =>
                             IF Transport[c] = "sse" THEN emit'[d].queue = "none"
                                                     ELSE emit'[d].ws = "ok"
                      /\ Home[c] # emit'[d].at =>
                             <<<<"emit", d, emit'[d].at>>, Home[c]>> \notin CarrierOf(c)'
    BY DEF WritesAccounted
  <2>2. d \in Had(c) /\ d \in Emitted /\ d \in Events
    BY <1>1, <2>1 DEF WritesAccounted, Emitted
  <2> QED
    BY <1>1, <1>9, <1>10, <2>1, <2>2 DEF WritesAccounted
<1>15. LegsAccounted'
  <2> SUFFICES ASSUME NEW d \in Events
               PROVE  /\ emit'[d].queue # "none" \/ emit'[d].publish # "none" => HasSse
                      /\ emit'[d].ws # "none" => HasWs
                      /\ d \in Emitted' /\ HasWs => emit'[d].ws \in {"ok", "failed"}
                      /\ emit'[d].outcome # "pending" =>
                             /\ d \in Emitted'
                             /\ emit'[d].outcome =
                                    IF fanOut(NoPathLeft(emit[d].queue, emit[d].publish)', emit'[d].ws = "failed")
                                    THEN "rejected" ELSE "resolved"
                             /\ emit'[d].reported = FailuresReported(emit[d].queue, emit[d].publish)'
    BY Zenon DEF LegsAccounted
  <2>1. CASE d = e
    <3>1. bus' = bus
      BY <1>2
    <3>2. /\ outcome = (IF fanOut(NoPathLeft(emit[e].queue, emit[e].publish)', emit'[e].ws = "failed")
                        THEN "rejected" ELSE "resolved")
          /\ reported = FailuresReported(emit[e].queue, emit[e].publish)'
      BY <1>6, <1>8, <3>1, Zenon DEF NoPathLeft, FailuresReported
    <3>3. /\ queue # "none" \/ publish # "none" => HasSse
          /\ emit'[e].ws # "none" => HasWs
          /\ HasWs => emit'[e].ws \in {"ok", "failed"}
      BY <1>1, <1>5, <1>8, <1>9 DEF LegsAccounted
    <3> QED
      BY <1>8, <1>9, <2>1, <3>2, <3>3, Zenon
  <2>2. CASE d # e
    <3>1. emit'[d] = emit[d] /\ bus' = bus
      BY <1>2, <1>8, <2>2
    <3> QED
      BY <1>1, <1>9, <3>1, Zenon DEF LegsAccounted, NoPathLeft, FailuresReported
  <2> QED
    BY <2>1, <2>2
<1>16. RevocationsUnderWay'
  BY <1>1, <1>2, <1>9 DEF RevocationsUnderWay
<1>17. UNCHANGED Delivery!vars
  BY <1>2, <1>10 DEF Delivery!vars
<1> QED
  BY <1>11, <1>12, <1>13, <1>14, <1>15, <1>16, <1>17 DEF IInv

-----------------------------------------------------------------------------
(* A disconnect. *)

RevocationRecord ==
    [conn : Conns \cup {"none"}, at : Instances, sse : Legs \cup {"hook"}, published : BOOLEAN,
     ws : Legs, outcome : Outcomes]

\* What nothing but a disconnect changes: if what an emit has done stays as it is, fewer
\* connections are held, and the bus and the adapter carry no other emit, the parts of the
\* invariant about emits stay true.
LEMMA EmitsUntouched ==
    ASSUME IInv, UNCHANGED <<bus, emit, delivered>>, held' \subseteq held,
           \A e \in Events, j, i \in Instances :
               /\ <<<<"emit", e, j>>, i>> \in onBus' => <<<<"emit", e, j>>, i>> \in onBus
               /\ <<<<"emit", e, j>>, i>> \in onAdapter' => <<<<"emit", e, j>>, i>> \in onAdapter
    PROVE  OnRunningInstances' /\ CopiesAccounted' /\ WritesAccounted' /\ LegsAccounted'
<1>1. /\ TypeOK /\ OnRunningInstances /\ CopiesAccounted /\ WritesAccounted /\ LegsAccounted
  BY DEF IInv
<1>2. Emitted' = Emitted /\ Running' = Running
  BY DEF Emitted, Running
<1>3. \A c \in Conns : Had(c)' = Had(c)
  BY NothingWritten
<1>4. Emitted \subseteq Events
  BY DEF Emitted
<1>5. OnRunningInstances' /\ CopiesAccounted'
  BY <1>1, <1>2 DEF OnRunningInstances, CopiesAccounted
<1>6. WritesAccounted'
  <2> SUFFICES ASSUME NEW c \in Conns, NEW e \in Had(c)'
               PROVE  /\ e \in Emitted'
                      /\ Home[c] \in Running'
                      /\ Home[c] = emit[e].at =>
                             IF Transport[c] = "sse" THEN emit[e].queue = "none"
                                                     ELSE emit[e].ws = "ok"
                      /\ Home[c] # emit[e].at =>
                             <<<<"emit", e, emit[e].at>>, Home[c]>> \notin CarrierOf(c)'
    BY DEF WritesAccounted
  <2>1. e \in Had(c) /\ e \in Emitted /\ e \in Events
    BY <1>1, <1>3, <1>4 DEF WritesAccounted
  <2>2. emit[e].at \in Instances /\ Home[c] \in Instances
    BY <1>1, <2>1, FanoutAssumption DEF TypeOK
  <2>3. <<<<"emit", e, emit[e].at>>, Home[c]>> \in CarrierOf(c)' =>
            <<<<"emit", e, emit[e].at>>, Home[c]>> \in CarrierOf(c)
    BY <2>1, <2>2 DEF CarrierOf
  <2> QED
    BY <1>1, <1>2, <2>1, <2>3 DEF WritesAccounted
<1>7. LegsAccounted'
  BY <1>1, <1>2, Zenon DEF LegsAccounted, NoPathLeft, FailuresReported
<1> QED
  BY <1>5, <1>6, <1>7

\* What a disconnect leaves of the connections: it lets go of the one it ends.
LEMMA RevokeEnds ==
    ASSUME TypeOK, NEW c \in Conns, NEW i \in Instances, NEW mine \in BOOLEAN,
           mine => c \in held,
           CASE mine /\ Transport[c] = "sse" -> disconnectLocal(c)
             [] mine /\ Transport[c] = "websocket" /\ i \in Attached ->
                    held' = held \ {c} /\ UNCHANGED closing
             [] OTHER -> UNCHANGED <<held, closing>>
    PROVE  /\ held' \subseteq held
           /\ closing' \subseteq {d \in Conns : Transport[d] = "sse"} \ held'
           /\ mine /\ Transport[c] = "sse" => c \notin held'
           /\ mine /\ Transport[c] = "websocket" /\ i \in Attached => c \notin held'
<1>1. Transport[c] \in {"sse", "websocket"}
  BY FanoutAssumption
<1>2. held \subseteq Conns /\ closing \subseteq {d \in Conns : Transport[d] = "sse"} \ held
  BY DEF TypeOK
<1>3. CASE mine /\ Transport[c] = "sse"
  <2>1. disconnectLocal(c)
    BY <1>3
  <2> QED
    BY <1>2, <1>3, <2>1 DEF disconnectLocal
<1>4. CASE mine /\ Transport[c] = "websocket" /\ i \in Attached
  <2>1. held' = held \ {c} /\ closing' = closing
    BY <1>4
  <2> QED
    BY <1>2, <1>4, <2>1
<1>5. CASE ~(mine /\ Transport[c] = "sse") /\ ~(mine /\ Transport[c] = "websocket" /\ i \in Attached)
  <2>1. held' = held /\ closing' = closing
    BY <1>5
  <2> QED
    BY <1>2, <1>5, <2>1
<1> QED
  BY <1>1, <1>3, <1>4, <1>5

\* A disconnect preserves the invariant, and ends connections at most.
LEMMA RevokeStep ==
    ASSUME IInv, NEW r \in Revocations, NEW c \in Conns, NEW i \in Instances,
           NEW throws \in BOOLEAN, NEW published \in BOOLEAN,
           Revoke(r, c, i, throws, published)
    PROVE  IInv' /\ Delivery!End
<1> DEFINE mine  == c \in held /\ Home[c] = i
           sends == handsToSocketIo(i, throws)
           m     == <<"disconnect", c, i>>
           sse   == disconnectSse(c, mine)
           ws    == disconnectWs(sends)
           new   == [conn |-> c, at |-> i, outcome |-> "pending", published |-> published,
                     sse |-> sse, ws |-> ws]
<1>1. /\ TypeOK /\ CallsNumbered /\ OnRunningInstances /\ CopiesAccounted /\ WritesAccounted
      /\ LegsAccounted /\ RevocationsUnderWay
  BY DEF IInv
<1>2. /\ i \in Running
      /\ NextCall(r)
      /\ published => HasSse /\ ~mine
      /\ revocation' = [revocation EXCEPT ![r] = new]
      /\ CASE mine /\ Transport[c] = "sse" -> disconnectLocal(c)
           [] mine /\ Transport[c] = "websocket" /\ i \in Attached ->
                  held' = held \ {c} /\ UNCHANGED closing
           [] OTHER -> UNCHANGED <<held, closing>>
      /\ onAdapter' = IF sends THEN onAdapter \cup Adapted(m, i) ELSE onAdapter
      /\ onBus' = IF published THEN onBus \cup PublishedBy(m) ELSE onBus
      /\ UNCHANGED <<bus, emit, queued, delivered>>
  BY Zenon DEF Revoke
<1>3. /\ held' \subseteq held
      /\ closing' \subseteq {d \in Conns : Transport[d] = "sse"} \ held'
      /\ mine /\ Transport[c] = "sse" => c \notin held'
      /\ mine /\ Transport[c] = "websocket" /\ i \in Attached => c \notin held'
  <2>1. mine \in BOOLEAN /\ (mine => c \in held)
    OBVIOUS
  <2> HIDE DEF mine
  <2> QED
    BY <1>1, <1>2, <2>1, RevokeEnds
<1>4. Transport[c] \in {"sse", "websocket"} /\ Mode \in {Transport[c], "both"}
  BY FanoutAssumption
<1>5. /\ sse \in {"none", "pending", "hook", "ok"}
      /\ Transport[c] = "sse" => sse = (IF mine THEN "hook" ELSE "pending")
  <2>1. CASE ~HasSse
    BY <1>4, <2>1 DEF disconnectSse, HasSse
  <2>2. CASE HasSse /\ ~mine
    BY <2>2 DEF disconnectSse
  <2>3. CASE HasSse /\ mine
    BY <2>3 DEF disconnectSse
  <2> QED
    BY <2>1, <2>2, <2>3
<1>6. /\ ws \in {"none", "ok", "failed"}
      /\ Transport[c] = "websocket" => ws = (IF sends THEN "ok" ELSE "failed")
  <2>1. CASE ~HasWs
    BY <1>4, <2>1 DEF disconnectWs, HasWs
  <2>2. CASE HasWs /\ sends
    BY <2>2 DEF disconnectWs
  <2>3. CASE HasWs /\ ~sends
    BY <2>3 DEF disconnectWs
  <2> QED
    BY <2>1, <2>2, <2>3
<1>7. sends => i \in Attached
  BY DEF handsToSocketIo
<1> HIDE DEF sse, ws, sends
<1>8. new \in RevocationRecord /\ new.conn = c /\ new.at = i /\ new.outcome = "pending"
      /\ new.published = published /\ new.sse = sse /\ new.ws = ws
  BY <1>5, <1>6 DEF RevocationRecord, Legs, Outcomes
<1> HIDE DEF new
<1>9. /\ revocation' \in [Revocations -> RevocationRecord]
      /\ \A s \in Revocations \ {r} : revocation'[s] = revocation[s]
      /\ revocation'[r] = new
  <2>1. revocation \in [Revocations -> RevocationRecord]
    BY <1>1 DEF TypeOK, RevocationRecord
  <2> QED
    BY <1>2, <1>8, <2>1
<1>10. /\ r = 1 + Cardinality(Emitted) + Cardinality(Revoked)
       /\ r \notin Emitted /\ r \notin Revoked
  BY <1>1, <1>2, NewNumber
<1>11. Emitted' = Emitted /\ Revoked' = Revoked \cup {r}
  <2>1. \A s \in Revocations : s \in Revoked' <=> s \in Revoked \/ s = r
    <3>1. revocation'[r].conn # "none"
      BY <1>8, <1>9, FanoutAssumption
    <3> QED
      BY <1>9, <3>1 DEF Revoked
  <2>2. Emitted' = Emitted
    BY <1>2 DEF Emitted
  <2> QED
    BY <2>1, <2>2 DEF Revoked
<1>12. /\ onBus \subseteq onBus'
       /\ \A copy \in onBus' \ onBus : \E j \in Running : copy = <<m, j>>
       /\ published => \A j \in Running : <<m, j>> \in onBus'
  BY <1>2 DEF PublishedBy
<1>13. /\ onAdapter \subseteq onAdapter'
       /\ \A copy \in onAdapter' \ onAdapter : \E j \in Running \ {i} : copy = <<m, j>>
       /\ sends => \A j \in Running \ {i} : <<m, j>> \in onAdapter'
  BY <1>2 DEF Adapted
<1>14. TypeOK'
  <2>1. m \in Messages
    BY DEF Messages
  <2>2. onBus' \subseteq Messages \X Instances /\ onAdapter' \subseteq Messages \X Instances
    <3> HIDE DEF m
    <3> QED
      BY <1>1, <1>12, <1>13, <2>1, RunningFact DEF TypeOK
  <2> QED
    BY <1>1, <1>2, <1>3, <1>9, <2>2 DEF TypeOK, RevocationRecord
<1>15. CallsNumbered'
  <2>1. Cardinality(Revoked') = Cardinality(Revoked) + 1
    BY <1>10, <1>11, FiniteCalls, FS_AddElement
  <2>2. \A n \in Emitted \cup Revoked \cup {r} : n \in Nat
    BY FanoutAssumption DEF Emitted, Revoked, Events, Revocations
  <2>3. \A n \in Emitted \cup Revoked \cup {r} :
            n <= Cardinality(Emitted) + 1 + Cardinality(Revoked)
    BY <1>1, <1>10, <2>2, FiniteCalls DEF CallsNumbered
  <2>4. \A n \in Emitted' \cup Revoked' : n <= Cardinality(Emitted') + Cardinality(Revoked')
    BY <1>11, <2>1, <2>3, FiniteCalls
  <2> QED
    BY <2>4 DEF CallsNumbered
<1>16. OnRunningInstances' /\ CopiesAccounted' /\ WritesAccounted' /\ LegsAccounted'
  <2>1. \A e \in Events, j, k \in Instances :
            /\ <<<<"emit", e, j>>, k>> \in onBus' => <<<<"emit", e, j>>, k>> \in onBus
            /\ <<<<"emit", e, j>>, k>> \in onAdapter' => <<<<"emit", e, j>>, k>> \in onAdapter
    BY <1>12, <1>13
  <2> QED
    BY <1>2, <1>3, <2>1, EmitsUntouched
<1>17. RevocationsUnderWay'
  <2> SUFFICES ASSUME NEW s \in Revoked', NEW d, NEW message,
                      d = revocation'[s].conn,
                      message = <<"disconnect", d, revocation'[s].at>>
               PROVE  /\ Transport[d] = "sse" =>
                             /\ revocation'[s].sse # "none"
                             /\ revocation'[s].sse \in {"ok", "hook"} \/ revocation'[s].published =>
                                    d \notin held' \/ (<<message, Home[d]>> \in onBus'
                                                       /\ Home[d] # revocation'[s].at)
                      /\ Transport[d] = "websocket" =>
                             /\ revocation'[s].ws # "none"
                             /\ revocation'[s].ws = "ok" =>
                                    d \notin held' \/ <<message, Home[d]>> \in onAdapter'
                      /\ revocation'[s].ws # "pending"
                      /\ revocation'[s].outcome = "resolved" =>
                             revocation'[s].sse \in {"none", "ok"} /\ revocation'[s].ws \in {"none", "ok"}
    BY Zenon DEF RevocationsUnderWay
  <2>1. CASE s # r
    <3>1. s \in Revoked /\ revocation'[s] = revocation[s]
      BY <1>9, <1>11, <2>1 DEF Revoked
    <3> QED
      BY <1>1, <1>3, <1>12, <1>13, <3>1 DEF RevocationsUnderWay
  <2>2. CASE s = r
    <3>1. d = c /\ message = m
      BY <1>8, <1>9, <2>2
    <3>2. c \in held' => c \in held /\ Home[c] \in Running
      BY <1>1, <1>3 DEF OnRunningInstances
    <3>3. ASSUME Transport[c] = "sse"
          PROVE  /\ sse # "none"
                 /\ sse \in {"ok", "hook"} \/ published =>
                        c \notin held' \/ (<<m, Home[c]>> \in onBus' /\ Home[c] # i)
      BY <1>2, <1>3, <1>5, <1>12, <3>2, <3>3
    <3>4. ASSUME Transport[c] = "websocket"
          PROVE  /\ ws # "none"
                 /\ ws = "ok" => c \notin held' \/ <<m, Home[c]>> \in onAdapter'
      BY <1>3, <1>6, <1>7, <1>13, <3>2, <3>4
    <3> HIDE DEF m
    <3> QED
      BY <1>6, <1>8, <1>9, <2>2, <3>1, <3>3, <3>4
  <2> QED
    BY <2>1, <2>2
<1>18. Delivery!End
  <2>1. [d \in Events |-> emit[d].target]' = [d \in Events |-> emit[d].target]
    BY <1>2
  <2> QED
    BY <1>2, <1>3, <2>1 DEF Delivery!End
<1> QED
  BY <1>14, <1>15, <1>16, <1>17, <1>18 DEF IInv

\* The hook of a stream settles, and with it the disconnect that awaits it.
LEMMA HookSettlesStep ==
    ASSUME IInv, NEW c \in Conns, HookSettles(c)
    PROVE  IInv' /\ UNCHANGED Delivery!vars
<1>1. /\ TypeOK /\ CallsNumbered /\ OnRunningInstances /\ CopiesAccounted /\ WritesAccounted
      /\ LegsAccounted /\ RevocationsUnderWay
  BY DEF IInv
<1>2. /\ closing' = closing \ {c}
      /\ revocation' = [r \in Revocations |->
             IF revocation[r].conn = c /\ revocation[r].sse = "hook"
             THEN [revocation[r] EXCEPT !.sse = "ok"] ELSE revocation[r]]
      /\ UNCHANGED <<bus, held, emit, onBus, onAdapter, queued, delivered>>
  BY DEF HookSettles, netVars
<1>3. \A r \in Revocations :
          /\ revocation'[r] \in RevocationRecord
          /\ revocation'[r].conn = revocation[r].conn /\ revocation'[r].at = revocation[r].at
          /\ revocation'[r].published = revocation[r].published
          /\ revocation'[r].ws = revocation[r].ws /\ revocation'[r].outcome = revocation[r].outcome
          /\ \/ revocation'[r].sse = revocation[r].sse
             \/ revocation[r].sse = "hook" /\ revocation'[r].sse = "ok"
  <2> SUFFICES ASSUME NEW r \in Revocations
               PROVE  /\ revocation'[r] \in RevocationRecord
                      /\ revocation'[r].conn = revocation[r].conn /\ revocation'[r].at = revocation[r].at
                      /\ revocation'[r].published = revocation[r].published
                      /\ revocation'[r].ws = revocation[r].ws
                      /\ revocation'[r].outcome = revocation[r].outcome
                      /\ \/ revocation'[r].sse = revocation[r].sse
                         \/ revocation[r].sse = "hook" /\ revocation'[r].sse = "ok"
    OBVIOUS
  <2>1. revocation[r] \in RevocationRecord
    BY <1>1 DEF TypeOK, RevocationRecord
  <2>2. CASE revocation[r].conn = c /\ revocation[r].sse = "hook"
    <3>1. revocation'[r] = [revocation[r] EXCEPT !.sse = "ok"]
      BY <1>2, <2>2
    <3> QED
      BY <2>1, <2>2, <3>1 DEF RevocationRecord, Legs
  <2>3. CASE ~(revocation[r].conn = c /\ revocation[r].sse = "hook")
    <3>1. revocation'[r] = revocation[r]
      BY <1>2, <2>3
    <3> QED
      BY <2>1, <3>1
  <2> QED
    BY <2>2, <2>3
<1>4. Emitted' = Emitted /\ Revoked' = Revoked
  BY <1>2, <1>3 DEF Emitted, Revoked
<1>5. TypeOK'
  <2>1. revocation' \in [Revocations -> RevocationRecord]
    BY <1>2, <1>3
  <2> QED
    BY <1>1, <1>2, <2>1 DEF TypeOK, RevocationRecord
<1>6. CallsNumbered'
  BY <1>1, <1>4, Zenon DEF CallsNumbered
<1>7. OnRunningInstances' /\ CopiesAccounted' /\ WritesAccounted' /\ LegsAccounted'
  BY <1>2, EmitsUntouched
<1>8. RevocationsUnderWay'
  BY <1>1, <1>2, <1>3, <1>4 DEF RevocationsUnderWay, Revoked
<1>9. UNCHANGED Delivery!vars
  BY <1>2 DEF Delivery!vars
<1> QED
  BY <1>5, <1>6, <1>7, <1>8, <1>9 DEF IInv

\* A disconnect settles once its legs have.
LEMMA RevokeSettlesStep ==
    ASSUME IInv, NEW r \in Revocations, NEW sse \in Legs, RevokeSettles(r, sse)
    PROVE  IInv' /\ UNCHANGED Delivery!vars
<1> DEFINE outcome == IF settleBoth({sse, revocation[r].ws}) THEN "rejected" ELSE "resolved"
<1>1. /\ TypeOK /\ CallsNumbered /\ OnRunningInstances /\ CopiesAccounted /\ WritesAccounted
      /\ LegsAccounted /\ RevocationsUnderWay
  BY DEF IInv
<1>2. /\ revocation[r].conn # "none"
      /\ revocation[r].outcome = "pending"
      /\ IF revocation[r].sse = "pending"
         THEN sse \in Answers("pending", revocation[r].published)
         ELSE sse = revocation[r].sse /\ sse # "hook"
      /\ revocation' = [revocation EXCEPT ![r].sse = sse, ![r].outcome = outcome]
      /\ UNCHANGED <<bus, held, closing, emit, onBus, onAdapter, queued, delivered>>
  BY Zenon DEF RevokeSettles, netVars
<1>3. revocation \in [Revocations -> RevocationRecord]
  BY <1>1 DEF TypeOK, RevocationRecord
<1>4. /\ outcome \in Outcomes
      /\ outcome = "resolved" => sse # "failed" /\ revocation[r].ws # "failed"
  BY DEF Outcomes, settleBoth
<1> HIDE DEF outcome
<1>5. /\ revocation' \in [Revocations -> RevocationRecord]
      /\ \A s \in Revocations \ {r} : revocation'[s] = revocation[s]
      /\ revocation'[r].conn = revocation[r].conn /\ revocation'[r].at = revocation[r].at
      /\ revocation'[r].published = revocation[r].published
      /\ revocation'[r].ws = revocation[r].ws
      /\ revocation'[r].sse = sse /\ revocation'[r].outcome = outcome
  BY <1>2, <1>3, <1>4 DEF RevocationRecord
<1>6. /\ sse = "ok" => revocation[r].sse = "ok" \/ revocation[r].published
      /\ sse = "none" => revocation[r].sse = "none"
      /\ sse \notin {"hook", "pending"}
  <2>1. revocation[r].published \in BOOLEAN
    BY <1>3 DEF RevocationRecord
  <2>2. CASE revocation[r].sse = "pending"
    <3>1. "pending" \in Legs /\ sse \in Answers("pending", revocation[r].published)
      BY <1>2, <2>2 DEF Legs
    <3> QED
      BY <2>1, <3>1, AnswersFact
  <2>3. CASE revocation[r].sse # "pending"
    BY <1>2, <2>3
  <2> QED
    BY <2>2, <2>3
<1>7. Emitted' = Emitted /\ Revoked' = Revoked /\ r \in Revoked
  <2>1. \A s \in Revocations : revocation'[s].conn = revocation[s].conn
    BY <1>5
  <2> QED
    BY <1>2, <2>1 DEF Emitted, Revoked
<1>8. TypeOK'
  BY <1>1, <1>2, <1>5 DEF TypeOK, RevocationRecord
<1>9. CallsNumbered'
  BY <1>1, <1>7, Zenon DEF CallsNumbered
<1>10. OnRunningInstances' /\ CopiesAccounted' /\ WritesAccounted' /\ LegsAccounted'
  BY <1>2, EmitsUntouched
<1>11. RevocationsUnderWay'
  <2> SUFFICES ASSUME NEW s \in Revoked', NEW d, NEW message,
                      d = revocation'[s].conn,
                      message = <<"disconnect", d, revocation'[s].at>>
               PROVE  /\ Transport[d] = "sse" =>
                             /\ revocation'[s].sse # "none"
                             /\ revocation'[s].sse \in {"ok", "hook"} \/ revocation'[s].published =>
                                    d \notin held' \/ (<<message, Home[d]>> \in onBus'
                                                       /\ Home[d] # revocation'[s].at)
                      /\ Transport[d] = "websocket" =>
                             /\ revocation'[s].ws # "none"
                             /\ revocation'[s].ws = "ok" =>
                                    d \notin held' \/ <<message, Home[d]>> \in onAdapter'
                      /\ revocation'[s].ws # "pending"
                      /\ revocation'[s].outcome = "resolved" =>
                             revocation'[s].sse \in {"none", "ok"} /\ revocation'[s].ws \in {"none", "ok"}
    BY Zenon DEF RevocationsUnderWay
  <2>1. CASE s # r
    <3>1. s \in Revoked /\ revocation'[s] = revocation[s]
      BY <1>5, <1>7, <2>1 DEF Revoked
    <3>2. held' = held /\ onBus' = onBus /\ onAdapter' = onAdapter
      BY <1>2
    <3> QED
      BY <1>1, <3>1, <3>2 DEF RevocationsUnderWay
  <2>2. CASE s = r
    <3>1. d = revocation[r].conn /\ message = <<"disconnect", d, revocation[r].at>>
      BY <1>5, <2>2
    <3>2. /\ Transport[d] = "sse" =>
                /\ revocation[r].sse # "none"
                /\ revocation[r].sse \in {"ok", "hook"} \/ revocation[r].published =>
                       d \notin held \/ (<<message, Home[d]>> \in onBus /\ Home[d] # revocation[r].at)
          /\ Transport[d] = "websocket" =>
                /\ revocation[r].ws # "none"
                /\ revocation[r].ws = "ok" => d \notin held \/ <<message, Home[d]>> \in onAdapter
          /\ revocation[r].ws # "pending"
      BY <1>1, <1>7, <3>1 DEF RevocationsUnderWay
    <3>3. outcome = "resolved" => sse \in {"none", "ok"} /\ revocation[r].ws \in {"none", "ok"}
      <4>1. revocation[r].ws \in Legs
        BY <1>3 DEF RevocationRecord
      <4> QED
        BY <1>4, <1>6, <3>2, <4>1 DEF Legs
    <3> QED
      BY <1>2, <1>5, <1>6, <2>2, <3>2, <3>3
  <2> QED
    BY <2>1, <2>2
<1>12. UNCHANGED Delivery!vars
  BY <1>2 DEF Delivery!vars
<1> QED
  BY <1>8, <1>9, <1>10, <1>11, <1>12 DEF IInv

\* A client that leaves ends its connection.
LEMMA ClientLeavesStep ==
    ASSUME IInv, NEW c \in Conns, ClientLeaves(c)
    PROVE  IInv' /\ Delivery!End
<1>1. /\ TypeOK /\ CallsNumbered /\ RevocationsUnderWay
  BY DEF IInv
<1>2. /\ held' = held \ {c}
      /\ UNCHANGED <<bus, closing, emit, queued, revocation, onBus, onAdapter, delivered>>
  BY DEF ClientLeaves, callVars, netVars
<1>3. Emitted' = Emitted /\ Revoked' = Revoked
  BY <1>2 DEF Emitted, Revoked
<1>4. TypeOK'
  BY <1>1, <1>2 DEF TypeOK
<1>5. CallsNumbered'
  BY <1>1, <1>3, Zenon DEF CallsNumbered
<1>6. OnRunningInstances' /\ CopiesAccounted' /\ WritesAccounted' /\ LegsAccounted'
  BY <1>2, EmitsUntouched
<1>7. RevocationsUnderWay'
  BY <1>1, <1>2, <1>3 DEF RevocationsUnderWay
<1>8. Delivery!End
  BY <1>2 DEF Delivery!End
<1> QED
  BY <1>4, <1>5, <1>6, <1>7, <1>8 DEF IInv

-----------------------------------------------------------------------------
(* A message reaches another instance. *)

\* A message is of an emit or of a disconnect.
LEMMA MessageFact ==
    ASSUME NEW m \in Messages
    PROVE  /\ m[3] \in Instances
           /\ \/ m[1] = "emit" /\ m[2] \in Events /\ m = <<"emit", m[2], m[3]>>
              \/ m[1] = "disconnect" /\ m[2] \in Conns /\ m = <<"disconnect", m[2], m[3]>>
  BY DEF Messages

\* A copy of an event is written to connections of its audience that its instance holds and
\* that were not written the event before: this is a delivery of EventDelivery.
LEMMA CopyDelivered ==
    ASSUME IInv, NEW e \in Events, NEW j \in Instances, NEW i \in Instances, i # j,
           NEW kind \in {"sse", "websocket"},
           <<<<"emit", e, j>>, i>> \in IF kind = "sse" THEN onBus ELSE onAdapter,
           <<<<"emit", e, j>>, i>> \notin IF kind = "sse" THEN onBus' ELSE onAdapter',
           onBus' \subseteq onBus, onAdapter' \subseteq onAdapter,
           deliver(e, Audience[emit[e].target] \cap Local(i, kind)),
           UNCHANGED <<bus, held, emit>>
    PROVE  /\ \A c \in Conns : delivered'[c] \in Seq(Events)
           /\ WritesAccounted'
           /\ Delivery!Deliver(e)
<1> DEFINE S == Audience[emit[e].target] \cap Local(i, kind)
<1>1. TypeOK /\ OnRunningInstances /\ CopiesAccounted /\ WritesAccounted
  BY DEF IInv
<1>2. e \in Emitted /\ emit[e].at = j
  BY <1>1 DEF CopiesAccounted
<1>3. \A c \in S : /\ c \in Conns /\ c \in held /\ c \in Audience[emit[e].target]
                   /\ Home[c] = i /\ Transport[c] = kind /\ Home[c] \in Running
                   /\ e \notin Had(c)
  <2> SUFFICES ASSUME NEW c \in S
               PROVE  /\ c \in Conns /\ c \in held /\ c \in Audience[emit[e].target]
                      /\ Home[c] = i /\ Transport[c] = kind /\ Home[c] \in Running
                      /\ e \notin Had(c)
    OBVIOUS
  <2>1. /\ c \in Conns /\ c \in held /\ c \in Audience[emit[e].target]
        /\ Home[c] = i /\ Transport[c] = kind
    BY <1>1 DEF Local, TypeOK
  <2>2. <<<<"emit", e, j>>, i>> \in CarrierOf(c)
    BY <2>1 DEF CarrierOf
  <2>3. e \notin Had(c)
    BY <1>1, <1>2, <2>1, <2>2 DEF WritesAccounted
  <2> QED
    BY <1>1, <2>1, <2>3 DEF OnRunningInstances
<1>4. /\ \A c \in Conns : delivered'[c] \in Seq(Events)
      /\ \A c \in Conns : Had(c)' = Had(c) \cup (IF c \in S THEN {e} ELSE {})
      /\ \A c \in Conns : delivered'[c] # delivered[c] <=> c \in S
  <2>1. deliver(e, S)
    OBVIOUS
  <2> HIDE DEF S
  <2> QED
    BY <1>1, <2>1, DeliverFact
<1>5. Emitted' = Emitted /\ Running' = Running
  BY DEF Emitted, Running
<1>6. WritesAccounted'
  <2> SUFFICES ASSUME NEW c \in Conns, NEW d \in Had(c)'
               PROVE  /\ d \in Emitted'
                      /\ Home[c] \in Running'
                      /\ Home[c] = emit'[d].at =>
                             IF Transport[c] = "sse" THEN emit'[d].queue = "none"
                                                     ELSE emit'[d].ws = "ok"
                      /\ Home[c] # emit'[d].at =>
                             <<<<"emit", d, emit'[d].at>>, Home[c]>> \notin CarrierOf(c)'
    BY DEF WritesAccounted
  <2>1. CarrierOf(c)' \subseteq CarrierOf(c)
    BY DEF CarrierOf
  <2>2. CASE d \in Had(c)
    BY <1>1, <1>5, <2>1, <2>2 DEF WritesAccounted
  <2>3. CASE d \notin Had(c)
    <3>1. d = e /\ c \in S
      BY <1>4, <2>3
    <3>2. Home[c] = i /\ Transport[c] = kind /\ Home[c] \in Running
      BY <1>3, <3>1
    <3>3. <<<<"emit", e, j>>, i>> \notin CarrierOf(c)'
      BY <3>2 DEF CarrierOf
    <3> QED
      BY <1>2, <1>5, <3>1, <3>2, <3>3
  <2> QED
    BY <2>2, <2>3
<1>7. Delivery!Deliver(e)
  <2>1. Delivery!Reached(e) = S
    BY <1>3, <1>4 DEF Delivery!Reached
  <2>2. Delivery!Writes(e)
    BY <2>1 DEF Delivery!Writes, deliver
  <2>3. emit[e].target # "none"
    BY <1>2 DEF Emitted
  <2>4. S \subseteq Audience[emit[e].target] \cap held
    BY <1>3
  <2>5. \A c \in S : e \notin Delivery!Had(c)
    BY <1>3 DEF Had, Delivery!Had
  <2> HIDE DEF S
  <2> QED
    BY <2>1, <2>2, <2>3, <2>4, <2>5 DEF Delivery!Deliver
<1> QED
  BY <1>4, <1>6, <1>7

\* A copy comes off the bus: an echo is dropped, an event is written, a revocation ends its
\* connection.
LEMMA BusDeliversStep ==
    ASSUME IInv, NEW m, NEW i, <<m, i>> \in onBus, BusDelivers(m, i)
    PROVE  IInv' /\ (Delivery!Next \/ UNCHANGED Delivery!vars)
<1>1. /\ TypeOK /\ CallsNumbered /\ OnRunningInstances /\ CopiesAccounted /\ WritesAccounted
      /\ LegsAccounted /\ RevocationsUnderWay
  BY DEF IInv
<1>2. /\ onBus' = onBus \ {<<m, i>>}
      /\ handle(m, i)
      /\ UNCHANGED <<bus, emit, queued, revocation, onAdapter>>
  BY DEF BusDelivers, callVars
<1>3. m \in Messages /\ i \in Instances
  BY <1>1 DEF TypeOK
<1>4. Emitted' = Emitted /\ Revoked' = Revoked /\ Running' = Running
  BY <1>2 DEF Emitted, Revoked, Running
<1>5. CallsNumbered'
  BY <1>1, <1>4, Zenon DEF CallsNumbered
<1>6. CASE m[3] = i
  <2>1. UNCHANGED <<held, closing, delivered>>
    BY <1>2, <1>6 DEF handle
  <2>2. TypeOK'
    BY <1>1, <1>2, <2>1 DEF TypeOK
  <2>3. OnRunningInstances' /\ CopiesAccounted' /\ WritesAccounted' /\ LegsAccounted'
    BY <1>2, <2>1, EmitsUntouched
  <2>4. RevocationsUnderWay'
    <3>1. \A d \in Conns, at \in Instances :
              <<<<"disconnect", d, at>>, Home[d]>> \in onBus /\ Home[d] # at =>
                  <<<<"disconnect", d, at>>, Home[d]>> \in onBus'
      BY <1>2, <1>6
    <3>2. \A r \in Revoked : revocation[r].conn \in Conns /\ revocation[r].at \in Instances
      BY <1>1 DEF TypeOK, Revoked
    <3> QED
      BY <1>1, <1>2, <1>4, <2>1, <3>1, <3>2 DEF RevocationsUnderWay
  <2>5. UNCHANGED Delivery!vars
    BY <1>2, <2>1 DEF Delivery!vars
  <2> QED
    BY <1>5, <2>2, <2>3, <2>4, <2>5 DEF IInv
<1>7. CASE m[3] # i /\ m[1] = "emit"
  <2>1. deliver(m[2], emitLocal(emit[m[2]].target, i)) /\ UNCHANGED <<held, closing>>
    BY <1>2, <1>7 DEF handle
  <2>2. m[2] \in Events /\ m[3] \in Instances /\ m = <<"emit", m[2], m[3]>>
    BY <1>3, <1>7, MessageFact
  <2>3. /\ \A c \in Conns : delivered'[c] \in Seq(Events)
        /\ WritesAccounted'
        /\ Delivery!Deliver(m[2])
    <3>1. deliver(m[2], Audience[emit[m[2]].target] \cap Local(i, "sse"))
      BY <2>1 DEF emitLocal
    <3>2. /\ <<<<"emit", m[2], m[3]>>, i>> \in onBus
          /\ <<<<"emit", m[2], m[3]>>, i>> \notin onBus'
      BY <1>2, <2>2
    <3>3. onBus' \subseteq onBus /\ onAdapter' \subseteq onAdapter /\ UNCHANGED <<bus, held, emit>>
      BY <1>2, <2>1
    <3> DEFINE kind == "sse"
    <3>4. /\ kind \in {"sse", "websocket"}
          /\ deliver(m[2], Audience[emit[m[2]].target] \cap Local(i, kind))
          /\ <<<<"emit", m[2], m[3]>>, i>> \in IF kind = "sse" THEN onBus ELSE onAdapter
          /\ <<<<"emit", m[2], m[3]>>, i>> \notin IF kind = "sse" THEN onBus' ELSE onAdapter'
      BY <3>1, <3>2
    <3> HIDE DEF kind
    <3> QED
      BY <1>3, <1>7, <2>2, <3>3, <3>4, CopyDelivered
  <2>4. TypeOK'
    BY <1>1, <1>2, <2>1, <2>3 DEF TypeOK
  <2>5. OnRunningInstances' /\ CopiesAccounted'
    BY <1>1, <1>2, <1>4, <2>1 DEF OnRunningInstances, CopiesAccounted
  <2>6. LegsAccounted'
    BY <1>1, <1>2, <1>4, Zenon DEF LegsAccounted, NoPathLeft, FailuresReported
  <2>7. RevocationsUnderWay'
    <3>1. \A d, at, k : <<<<"disconnect", d, at>>, k>> \in onBus =>
                            <<<<"disconnect", d, at>>, k>> \in onBus'
      BY <1>2, <2>2
    <3> QED
      BY <1>1, <1>2, <1>4, <2>1, <3>1 DEF RevocationsUnderWay
  <2> QED
    BY <1>5, <2>2, <2>3, <2>4, <2>5, <2>6, <2>7 DEF IInv, Delivery!Next
<1>8. CASE m[3] # i /\ m[1] = "disconnect"
  <2> DEFINE c == m[2]
  <2>1. /\ IF c \in Local(i, "sse") THEN disconnectLocal(c) ELSE UNCHANGED <<held, closing>>
        /\ UNCHANGED delivered
    <3>1. ~(m[3] = i) /\ ~(m[3] # i /\ m[1] = "emit")
      BY <1>8
    <3> QED
      BY <1>2, <3>1 DEF handle
  <2>2. c \in Conns /\ m[3] \in Instances /\ m = <<"disconnect", c, m[3]>>
    BY <1>3, <1>8, MessageFact
  <2>3. /\ held' \subseteq held
        /\ closing' \subseteq {d \in Conns : Transport[d] = "sse"} \ held'
        /\ Transport[c] = "sse" /\ Home[c] = i => c \notin held'
    <3>1. closing \subseteq {d \in Conns : Transport[d] = "sse"} \ held
      BY <1>1 DEF TypeOK
    <3>2. CASE c \in Local(i, "sse")
      <4>1. held' = held \ {c} /\ closing' = closing \cup {c}
        BY <2>1, <3>2 DEF disconnectLocal
      <4>2. Transport[c] = "sse"
        BY <3>2 DEF Local
      <4> QED
        BY <2>2, <3>1, <4>1, <4>2
    <3>3. CASE c \notin Local(i, "sse")
      <4>1. held' = held /\ closing' = closing
        BY <2>1, <3>3
      <4> QED
        BY <3>1, <3>3, <4>1 DEF Local
    <3> QED
      BY <3>2, <3>3
  <2> HIDE DEF c
  <2>4. TypeOK'
    BY <1>1, <1>2, <2>1, <2>3 DEF TypeOK
  <2>5. OnRunningInstances' /\ CopiesAccounted' /\ WritesAccounted' /\ LegsAccounted'
    BY <1>2, <2>1, <2>3, EmitsUntouched
  <2>6. RevocationsUnderWay'
    <3>1. \A d \in Conns, at \in Instances :
              <<<<"disconnect", d, at>>, Home[d]>> \in onBus =>
                  \/ <<<<"disconnect", d, at>>, Home[d]>> \in onBus'
                  \/ d = c /\ Home[c] = i
      BY <1>2, <2>2
    <3>2. \A r \in Revoked : revocation[r].conn \in Conns /\ revocation[r].at \in Instances
      BY <1>1 DEF TypeOK, Revoked
    <3> QED
      BY <1>1, <1>2, <1>4, <2>3, <3>1, <3>2 DEF RevocationsUnderWay
  <2>7. Delivery!End
    BY <1>2, <2>1, <2>3 DEF Delivery!End
  <2> QED
    BY <1>5, <2>4, <2>5, <2>6, <2>7 DEF IInv, Delivery!Next
<1> QED
  BY <1>3, <1>6, <1>7, <1>8, MessageFact

\* A copy comes off Socket.IO's adapter, on another node than the one that sent it.
LEMMA AdapterDeliversStep ==
    ASSUME IInv, NEW m, NEW i, <<m, i>> \in onAdapter, AdapterDelivers(m, i)
    PROVE  IInv' /\ (Delivery!Next \/ UNCHANGED Delivery!vars)
<1>1. /\ TypeOK /\ CallsNumbered /\ OnRunningInstances /\ CopiesAccounted /\ WritesAccounted
      /\ LegsAccounted /\ RevocationsUnderWay
  BY DEF IInv
<1>2. /\ onAdapter' = onAdapter \ {<<m, i>>}
      /\ IF m[1] = "emit"
         THEN deliver(m[2], Audience[emit[m[2]].target] \cap Local(i, "websocket")) /\ UNCHANGED held
         ELSE held' = held \ ({m[2]} \cap Local(i, "websocket")) /\ UNCHANGED delivered
      /\ UNCHANGED <<bus, closing, emit, queued, revocation, onBus>>
  BY DEF AdapterDelivers, callVars
<1>3. m \in Messages /\ i \in Instances
  BY <1>1 DEF TypeOK
<1>4. Emitted' = Emitted /\ Revoked' = Revoked /\ Running' = Running
  BY <1>2 DEF Emitted, Revoked, Running
<1>5. CallsNumbered'
  BY <1>1, <1>4, Zenon DEF CallsNumbered
<1>6. CASE m[1] = "emit"
  <2>1. deliver(m[2], Audience[emit[m[2]].target] \cap Local(i, "websocket")) /\ held' = held
    BY <1>2, <1>6
  <2>2. m[2] \in Events /\ m[3] \in Instances /\ m = <<"emit", m[2], m[3]>>
    BY <1>3, <1>6, MessageFact
  <2>3. /\ \A c \in Conns : delivered'[c] \in Seq(Events)
        /\ WritesAccounted'
        /\ Delivery!Deliver(m[2])
    <3>1. /\ <<<<"emit", m[2], m[3]>>, i>> \in onAdapter
          /\ <<<<"emit", m[2], m[3]>>, i>> \notin onAdapter'
      BY <1>2, <2>2
    <3>2. m[3] # i
      BY <1>1, <1>3, <2>2, <3>1 DEF CopiesAccounted
    <3>3. onBus' \subseteq onBus /\ onAdapter' \subseteq onAdapter /\ UNCHANGED <<bus, held, emit>>
      BY <1>2, <2>1
    <3> DEFINE kind == "websocket"
    <3>4. /\ kind \in {"sse", "websocket"}
          /\ deliver(m[2], Audience[emit[m[2]].target] \cap Local(i, kind))
          /\ <<<<"emit", m[2], m[3]>>, i>> \in IF kind = "sse" THEN onBus ELSE onAdapter
          /\ <<<<"emit", m[2], m[3]>>, i>> \notin IF kind = "sse" THEN onBus' ELSE onAdapter'
      BY <2>1, <3>1
    <3> HIDE DEF kind
    <3> QED
      BY <1>3, <2>2, <3>2, <3>3, <3>4, CopyDelivered
  <2>4. TypeOK'
    BY <1>1, <1>2, <2>1, <2>3 DEF TypeOK
  <2>5. OnRunningInstances' /\ CopiesAccounted'
    BY <1>1, <1>2, <1>4, <2>1 DEF OnRunningInstances, CopiesAccounted
  <2>6. LegsAccounted'
    BY <1>1, <1>2, <1>4, Zenon DEF LegsAccounted, NoPathLeft, FailuresReported
  <2>7. RevocationsUnderWay'
    <3>1. \A d, at, k : <<<<"disconnect", d, at>>, k>> \in onAdapter =>
                            <<<<"disconnect", d, at>>, k>> \in onAdapter'
      BY <1>2, <2>2
    <3> QED
      BY <1>1, <1>2, <1>4, <2>1, <3>1 DEF RevocationsUnderWay
  <2> QED
    BY <1>5, <2>2, <2>3, <2>4, <2>5, <2>6, <2>7 DEF IInv, Delivery!Next
<1>7. CASE m[1] = "disconnect"
  <2> DEFINE c == m[2]
  <2>1. held' = held \ ({c} \cap Local(i, "websocket")) /\ UNCHANGED delivered
    BY <1>2, <1>7
  <2>2. c \in Conns /\ m[3] \in Instances /\ m = <<"disconnect", c, m[3]>>
    BY <1>3, <1>7, MessageFact
  <2>3. /\ held' \subseteq held
        /\ Transport[c] = "websocket" /\ Home[c] = i => c \notin held'
    BY <2>1 DEF Local
  <2> HIDE DEF c
  <2>4. TypeOK'
    BY <1>1, <1>2, <2>1, <2>3 DEF TypeOK
  <2>5. OnRunningInstances' /\ CopiesAccounted' /\ WritesAccounted' /\ LegsAccounted'
    <3>1. onAdapter' \subseteq onAdapter /\ UNCHANGED <<bus, emit, delivered, onBus>>
      BY <1>2, <2>1
    <3> QED
      BY <2>3, <3>1, EmitsUntouched
  <2>6. RevocationsUnderWay'
    <3>1. \A d \in Conns, at \in Instances :
              <<<<"disconnect", d, at>>, Home[d]>> \in onAdapter =>
                  \/ <<<<"disconnect", d, at>>, Home[d]>> \in onAdapter'
                  \/ d = c /\ Home[c] = i
      BY <1>2, <2>2
    <3>2. \A r \in Revoked : revocation[r].conn \in Conns /\ revocation[r].at \in Instances
      BY <1>1 DEF TypeOK, Revoked
    <3> QED
      BY <1>1, <1>2, <1>4, <2>3, <3>1, <3>2 DEF RevocationsUnderWay
  <2>7. Delivery!End
    BY <1>2, <2>1, <2>3 DEF Delivery!End
  <2> QED
    BY <1>5, <2>4, <2>5, <2>6, <2>7 DEF IInv, Delivery!Next
<1> QED
  BY <1>3, <1>6, <1>7, MessageFact

-----------------------------------------------------------------------------
(* The theorems. *)

LEMMA InitFact == Init => IInv /\ Delivery!Init
<1> SUFFICES ASSUME Init PROVE IInv /\ Delivery!Init
  OBVIOUS
<1>1. /\ bus \in {"redis", "memory"}
      /\ held = {c \in Conns : Home[c] \in Running}
      /\ closing = {} /\ onBus = {} /\ onAdapter = {} /\ queued = {}
      /\ emit = [e \in Events |-> NoEmit]
      /\ delivered = [c \in Conns |-> <<>>]
      /\ revocation = [r \in Revocations |-> NoRevocation]
  BY DEF Init
<1>2. NoRevocation \in RevocationRecord /\ NoRevocation.conn = "none"
  BY FanoutAssumption DEF NoRevocation, RevocationRecord, Legs, Outcomes
<1>3. NoEmit.target = "none" /\ NoEmit.queue = "none" /\ NoEmit.publish = "none" /\ NoEmit.ws = "none"
  BY DEF NoEmit
<1>4. Emitted = {} /\ Revoked = {}
  BY <1>1, <1>2, <1>3 DEF Emitted, Revoked
<1>5. \A c \in Conns : Had(c) = {}
  BY <1>1 DEF Had
<1>6. TypeOK
  <2>1. \A c \in Conns : delivered[c] \in Seq(Events)
    BY <1>1
  <2>2. emit \in [Events -> EmitRecord]
    BY <1>1, NoEmitFact
  <2>3. revocation \in [Revocations -> RevocationRecord]
    BY <1>1, <1>2
  <2> QED
    BY <1>1, <2>1, <2>2, <2>3 DEF TypeOK, EmitRecord, RevocationRecord
<1>7. LegsAccounted
  BY <1>1, <1>3, <1>4, NoEmitFact DEF LegsAccounted
<1>8. CallsNumbered /\ OnRunningInstances /\ CopiesAccounted /\ WritesAccounted /\ RevocationsUnderWay
  BY <1>1, <1>4, <1>5
     DEF CallsNumbered, OnRunningInstances, CopiesAccounted, WritesAccounted, RevocationsUnderWay
<1>9. Delivery!Init
  <2>1. [e \in Events |-> emit[e].target] = [e \in Events |-> "none"]
    BY <1>1, <1>3
  <2>2. held \subseteq Conns
    BY <1>6 DEF TypeOK
  <2> QED
    BY <1>1, <2>1, <2>2 DEF Delivery!Init
<1> QED
  BY <1>6, <1>7, <1>8, <1>9 DEF IInv

\* Every step preserves the invariant and is a step of EventDelivery, or none.
LEMMA NextFact ==
    IInv /\ [Next]_vars => IInv' /\ [Delivery!Next]_(Delivery!vars)
<1> SUFFICES ASSUME IInv, [Next]_vars
             PROVE  IInv' /\ (Delivery!Next \/ UNCHANGED Delivery!vars)
  OBVIOUS
<1>1. ASSUME NEW e \in Events, NEW t \in Targets, NEW i \in Instances, NEW throws \in BOOLEAN,
             NEW kept \in BOOLEAN, NEW published \in BOOLEAN,
             Emit(e, t, i, throws, kept, published)
      PROVE  IInv' /\ Delivery!Next
  <2>1. IInv' /\ Delivery!Emit(e, t)
    BY <1>1, EmitStep
  <2> QED
    BY <2>1 DEF Delivery!Next
<1>2. ASSUME NEW e \in Events, NEW queue \in Legs, NEW publish \in Legs,
             EmitSettles(e, queue, publish)
      PROVE  IInv' /\ UNCHANGED Delivery!vars
  BY <1>2, EmitSettlesStep
<1>3. ASSUME NEW r \in Revocations, NEW c \in Conns, NEW i \in Instances, NEW throws \in BOOLEAN,
             NEW published \in BOOLEAN, Revoke(r, c, i, throws, published)
      PROVE  IInv' /\ Delivery!Next
  <2>1. IInv' /\ Delivery!End
    BY <1>3, RevokeStep
  <2> QED
    BY <2>1 DEF Delivery!Next
<1>4. ASSUME NEW r \in Revocations, NEW sse \in Legs, RevokeSettles(r, sse)
      PROVE  IInv' /\ UNCHANGED Delivery!vars
  BY <1>4, RevokeSettlesStep
<1>5. ASSUME NEW copy \in onBus, BusDelivers(copy[1], copy[2])
      PROVE  IInv' /\ (Delivery!Next \/ UNCHANGED Delivery!vars)
  <2>1. <<copy[1], copy[2]>> \in onBus
    BY <1>5 DEF BusDelivers
  <2> QED
    BY <1>5, <2>1, BusDeliversStep
<1>6. ASSUME NEW copy \in onAdapter, AdapterDelivers(copy[1], copy[2])
      PROVE  IInv' /\ (Delivery!Next \/ UNCHANGED Delivery!vars)
  <2>1. <<copy[1], copy[2]>> \in onAdapter
    BY <1>6 DEF AdapterDelivers
  <2> QED
    BY <1>6, <2>1, AdapterDeliversStep
<1>7. ASSUME NEW c \in Conns, HookSettles(c)
      PROVE  IInv' /\ UNCHANGED Delivery!vars
  BY <1>7, HookSettlesStep
<1>8. ASSUME NEW c \in Conns, ClientLeaves(c)
      PROVE  IInv' /\ Delivery!Next
  <2>1. IInv' /\ Delivery!End
    BY <1>8, ClientLeavesStep
  <2> QED
    BY <2>1 DEF Delivery!Next
<1>9. ASSUME UNCHANGED vars
      PROVE  IInv' /\ UNCHANGED Delivery!vars
  <2>1. UNCHANGED <<bus, held, closing, emit, queued, revocation, onBus, onAdapter, delivered>>
    BY <1>9 DEF vars, callVars, netVars
  <2>2. /\ TypeOK /\ CallsNumbered /\ RevocationsUnderWay
    BY DEF IInv
  <2>3. Emitted' = Emitted /\ Revoked' = Revoked
    BY <2>1 DEF Emitted, Revoked
  <2>4. TypeOK'
    BY <2>1, <2>2 DEF TypeOK
  <2>5. CallsNumbered'
    BY <2>2, <2>3, Zenon DEF CallsNumbered
  <2>6. OnRunningInstances' /\ CopiesAccounted' /\ WritesAccounted' /\ LegsAccounted'
    BY <2>1, EmitsUntouched
  <2>7. RevocationsUnderWay'
    BY <2>1, <2>2, <2>3 DEF RevocationsUnderWay
  <2>8. UNCHANGED Delivery!vars
    BY <2>1 DEF Delivery!vars
  <2> QED
    BY <2>4, <2>5, <2>6, <2>7, <2>8 DEF IInv
<1>10. CASE Next
  <2>1. CASE \E e \in Events, t \in Targets, i \in Instances, throws, kept, published \in BOOLEAN :
                 Emit(e, t, i, throws, kept, published)
    BY <1>1, <2>1
  <2>2. CASE \E e \in Events : \E queue, publish \in Legs : EmitSettles(e, queue, publish)
    BY <1>2, <2>2
  <2>3. CASE \E r \in Revocations, c \in Conns, i \in Instances, throws, published \in BOOLEAN :
                 Revoke(r, c, i, throws, published)
    BY <1>3, <2>3
  <2>4. CASE \E r \in Revocations : \E sse \in Legs : RevokeSettles(r, sse)
    BY <1>4, <2>4
  <2>5. CASE \E copy \in onBus : BusDelivers(copy[1], copy[2])
    BY <1>5, <2>5
  <2>6. CASE \E copy \in onAdapter : AdapterDelivers(copy[1], copy[2])
    BY <1>6, <2>6
  <2>7. CASE \E c \in Conns : HookSettles(c) \/ ClientLeaves(c)
    BY <1>7, <1>8, <2>7
  <2> QED
    BY <1>10, <2>1, <2>2, <2>3, <2>4, <2>5, <2>6, <2>7 DEF Next
<1> QED
  BY <1>9, <1>10

\* The invariant holds of every reachable state.
THEOREM Invariance == Spec => []IInv
<1>1. Init => IInv
  BY InitFact
<1>2. IInv /\ [Next]_vars => IInv'
  BY NextFact
<1> QED
  BY <1>1, <1>2, PTL DEF Spec

\* Whatever the bus, the adapter, the echoes, the clients and the revocations do, an event
\* reaches connections of its audience only, each at most once, and none whose record has
\* gone (emitTo*, RealtimePubSubSubscriber.handle).
THEOREM DeliveryImplemented == Spec => ImplementsDelivery
<1>1. Init => Delivery!Init
  BY InitFact
<1>2. IInv /\ [Next]_vars => [Delivery!Next]_(Delivery!vars)
  BY NextFact
<1> QED
  BY <1>1, <1>2, Invariance, PTL DEF Spec, ImplementsDelivery, Delivery!Spec

\* The legs of an emit and its writes make its outcome truthful.
LEMMA OutcomesFact == ASSUME IInv PROVE OutcomesTruthful
<1>1. TypeOK /\ OnRunningInstances /\ WritesAccounted /\ LegsAccounted
  BY DEF IInv
<1>2. RejectedReachedNobodyHere
  <2> SUFFICES ASSUME NEW e \in Events, NEW c \in Conns, emit[e].outcome = "rejected",
                      Home[c] = emit[e].at \/ bus = "memory", e \in Had(c)
               PROVE  FALSE
    BY DEF RejectedReachedNobodyHere, Had
  <2>1. /\ e \in Emitted /\ emit[e].at \in Running /\ Home[c] \in Running
        /\ Home[c] = emit[e].at =>
               IF Transport[c] = "sse" THEN emit[e].queue = "none" ELSE emit[e].ws = "ok"
    BY <1>1 DEF WritesAccounted, OnRunningInstances
  <2>2. Home[c] = emit[e].at
    BY <2>1 DEF Running
  <2>3. fanOut(NoPathLeft(emit[e].queue, emit[e].publish), emit[e].ws = "failed")
    BY <1>1 DEF LegsAccounted
  <2>4. Transport[c] \in {"sse", "websocket"} /\ Mode \in {Transport[c], "both"}
    BY FanoutAssumption
  <2>5. CASE Transport[c] = "sse"
    <3>1. ~NoPathLeft(emit[e].queue, emit[e].publish) /\ Mode \in {"sse", "both"}
      BY <2>1, <2>2, <2>4, <2>5 DEF NoPathLeft
    <3> QED
      BY <2>3, <3>1 DEF fanOut
  <2>6. CASE Transport[c] = "websocket"
    <3>1. ~(emit[e].ws = "failed") /\ Mode \in {"websocket", "both"}
      BY <2>1, <2>2, <2>4, <2>6
    <3> QED
      BY <2>3, <3>1 DEF fanOut
  <2> QED
    BY <2>4, <2>5, <2>6
<1>3. FailuresSurface
  <2> SUFFICES ASSUME NEW e \in Events
               PROVE  LET failed == (IF emit[e].publish = "failed" THEN {"publish"} ELSE {}) \cup
                                    (IF emit[e].queue = "failed" THEN {"offlineAppend"} ELSE {})
                      IN  /\ emit[e].outcome = "resolved" /\ failed # {} =>
                                \/ emit[e].reported = failed
                                \/ Mode = "both" /\ emit[e].ws = "ok"
                          /\ emit[e].outcome = "rejected" => emit[e].reported = {}
    BY Zenon DEF FailuresSurface
  <2> DEFINE noPath == NoPathLeft(emit[e].queue, emit[e].publish)
             failed == (IF emit[e].publish = "failed" THEN {"publish"} ELSE {}) \cup
                       (IF emit[e].queue = "failed" THEN {"offlineAppend"} ELSE {})
  <2>1. emit[e].outcome # "pending" =>
            /\ emit[e].outcome = (IF fanOut(noPath, emit[e].ws = "failed") THEN "rejected" ELSE "resolved")
            /\ emit[e].reported = (IF noPath THEN {} ELSE failed)
    BY <1>1, Zenon DEF LegsAccounted, FailuresReported
  <2>2. CASE noPath /\ emit[e].ws = "failed"
    BY <2>1, <2>2 DEF fanOut
  <2>3. CASE noPath /\ emit[e].ws # "failed"
    BY <1>1, <2>1, <2>3, FanoutAssumption DEF LegsAccounted, fanOut, HasWs, NoPathLeft, HasSse
  <2>4. CASE ~noPath
    BY <1>1, <2>1, <2>4, FanoutAssumption DEF LegsAccounted, fanOut, HasWs, HasSse
  <2> QED
    BY <2>2, <2>3, <2>4
<1> QED
  BY <1>1, <1>2, <1>3 DEF OutcomesTruthful

\* A rejected emit was written to no connection of the instance that made the call, and
\* over the in-memory bus to nobody: rejecting means that no path is known to have
\* carried it; a resolved one with a failure reported it (emitToUser, fanOut).
THEOREM TruthfulOutcomes == Spec => []OutcomesTruthful
  BY Invariance, OutcomesFact, PTL

\* The leg of a resolved disconnect that can reach the connection was taken.
LEMMA RevocationsFact == ASSUME IInv PROVE RevocationsAccounted
<1> SUFFICES ASSUME NEW r \in Revocations, revocation[r].outcome = "resolved",
                    revocation[r].conn \in held
             PROVE  <<<<"disconnect", revocation[r].conn, revocation[r].at>>, Home[revocation[r].conn]>>
                        \in onBus \cup onAdapter
  BY Zenon DEF RevocationsAccounted
<1>1. TypeOK /\ RevocationsUnderWay
  BY DEF IInv
<1>2. revocation[r].conn \in Conns /\ revocation[r].conn # "none"
  BY <1>1, FanoutAssumption DEF TypeOK
<1>3. r \in Revoked /\ Transport[revocation[r].conn] \in {"sse", "websocket"}
  BY <1>2, FanoutAssumption DEF Revoked
<1> QED
  BY <1>1, <1>3 DEF RevocationsUnderWay

\* A resolved disconnect has closed the connection, or begun to, or its revocation is on
\* its way to the instance that holds it: it never resolves having done nothing.
THEOREM RevocationNeverBestEffort == Spec => []RevocationsAccounted
  BY Invariance, RevocationsFact, PTL

=============================================================================
