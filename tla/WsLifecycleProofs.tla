-------------------------- MODULE WsLifecycleProofs --------------------------
(***************************************************************************)
(* WsLifecycle for any sockets, users, rooms, cap and clock: the inductive *)
(* invariant behind its safety properties, one socket at a time.           *)
(***************************************************************************)
EXTENDS WsLifecycle, FiniteSetTheorems, TLAPS

-----------------------------------------------------------------------------
(* The connection registry, of which a socket's record is one. *)

\* register adds one record, to the indexes of its user and tenant only, and the
\* indexes still agree (ConnectionRegistry.register).
LEMMA RegisterFact ==
    ASSUME NEW reg \in ConnectionIndex, NEW c \in Conns, ConnectionIndexesAgree(reg)
    PROVE  /\ register(reg, c) \in ConnectionIndex
           /\ ConnectionIndexesAgree(register(reg, c))
           /\ register(reg, c).byId = reg.byId \cup {c}
  BY RegistriesAssumption DEF register, ConnectionIndex, ConnectionIndexesAgree

\* unregister removes one record from every index (ConnectionRegistry.unregister).
LEMMA UnregisterFact ==
    ASSUME NEW reg \in ConnectionIndex, NEW c \in Conns, ConnectionIndexesAgree(reg)
    PROVE  /\ unregister(reg, c) \in ConnectionIndex
           /\ ConnectionIndexesAgree(unregister(reg, c))
           /\ unregister(reg, c).byId = reg.byId \ {c}
  BY RegistriesAssumption DEF unregister, ConnectionIndex, ConnectionIndexesAgree

\* With indexes that agree, byUser returns the held connections of the user.
LEMMA ByUserFact ==
    ASSUME NEW reg \in ConnectionIndex, ConnectionIndexesAgree(reg), NEW u \in Users
    PROVE  byUser(reg, u) = {c \in reg.byId : UserOf[c] = u}
  BY DEF byUser, ConnectionIndexesAgree, ConnectionIndex

-----------------------------------------------------------------------------
(* The inductive invariant, for one socket. *)

\* How far the handshake and the registration of c are.
RegistrationConsistent(c) ==
    /\ link[c] \in {"off", "handshaking"} => registration[c] = "none"
    /\ registration[c] = "none" => link[c] # "open"
    /\ registration[c] \in {"none", "authenticating"} => order[c] = 0
    /\ order[c] = 0 => c \notin Held
    /\ registration[c] = "authenticating" => c \in SkipsMiddleware /\ link[c] \in {"open", "gone"}
    /\ registration[c] = "evicting" =>
           victim[c] \in Conns /\ UserOf[victim[c]] = UserOf[c] /\ link[victim[c]] = "gone"

\* The socket, the record and the hook calls of c match.
RecordConsistent(c) ==
    /\ link[c] = "open" => c \in Held \/ registration[c] = "authenticating"
    /\ c \in Held => link[c] = "open" \/ (c \in SkipsMiddleware /\ c \in leftMidway)
    /\ Len(reported[c]) = (IF order[c] > 0 /\ c \notin Held THEN 1 ELSE 0)
    /\ link[c] = "gone" /\ (registration[c] \in {"authenticating", "joining"} \/ pending[c] # <<>>)
           => c \in leftMidway
    /\ link[c] = "gone" /\ roomIndex.connectionRooms[c] # {} => c \in leftMidway

Rooms(c) == roomIndex.connectionRooms[c]

\* The last of the calls about r that await the adapter, if there is one, is the k-th.
IsLastCall(calls, k, r) ==
    calls[k][2] = r /\ \A j \in DOMAIN calls : j > k => calls[j][2] # r

\* The adapter is in r as the last call that awaits it says, or else as RoomRegistry does.
RoomUnderWay(c, r) ==
    /\ \A k \in DOMAIN pending[c] :
           IsLastCall(pending[c], k, r) => (r \in ioRooms[c] <=> pending[c][k][1] = "join")
    /\ (\A k \in DOMAIN pending[c] : pending[c][k][2] # r) => (r \in ioRooms[c] <=> r \in Rooms(c))

\* The two indexes of the rooms of c agree, but for the calls under way.
RoomsConsistent(c) ==
    /\ link[c] \in {"off", "handshaking"} => ioRooms[c] = {} /\ pending[c] = <<>> /\ Rooms(c) = {}
    /\ link[c] = "open" => \A r \in AppRooms : RoomUnderWay(c, r)
    /\ Rooms(c) \subseteq AppRooms \cup (OwnRooms(c) \ {OwnRoom(c)})
    /\ link[c] = "open" =>
           ioRooms[c] \ AppRooms = (IF registration[c] = "authenticating" THEN {} ELSE OwnRooms(c))
    /\ link[c] = "open" /\ registration[c] \notin {"authenticating", "joining"} =>
           OwnRooms(c) \ {OwnRoom(c)} \subseteq Rooms(c)

Consistent(c) == RegistrationConsistent(c) /\ RecordConsistent(c) /\ RoomsConsistent(c)

\* The records of u whose registration has left the eviction loop in good order.
Settled(u) == {c \in Held : UserOf[c] = u /\ registration[c] \in {"hooking", "done"}}

\* They were within the limit when the last of them left it.
SettledWithinCap ==
    MaxPerUser > 0 => \A u \in Users : Cardinality(Settled(u)) <= MaxPerUser

IInv ==
    /\ TypeOK
    /\ ConnectionIndexesAgree(registry)
    /\ SettledWithinCap
    /\ \A c \in Conns : Consistent(c)

-----------------------------------------------------------------------------
(* The cap. *)

\* A set of sockets is finite, and so are its parts.
LEMMA FiniteConns == ASSUME NEW S, S \subseteq Conns PROVE IsFiniteSet(S)
  BY FS_Subset, WsAssumption

\* What is counted, in numbers.
LEMMA CountsFact ==
    ASSUME TypeOK, ConnectionIndexesAgree(registry), NEW u \in Users
    PROVE  /\ byUser(registry, u) = {c \in Held : UserOf[c] = u}
           /\ IsFiniteSet(byUser(registry, u)) /\ IsFiniteSet(Settled(u))
           /\ Cardinality(byUser(registry, u)) \in Nat /\ Cardinality(Settled(u)) \in Nat
           /\ Cardinality(Settled(u)) <= Cardinality(byUser(registry, u))
<1>1. byUser(registry, u) = {c \in Held : UserOf[c] = u} /\ Held \subseteq Conns
  BY ByUserFact DEF TypeOK, Held, ConnectionIndex
<1>2. Settled(u) \subseteq byUser(registry, u)
  BY <1>1 DEF Settled
<1>3. IsFiniteSet(byUser(registry, u))
  BY <1>1, FiniteConns
<1> QED
  BY <1>1, <1>2, <1>3, FS_Subset, FS_CardinalityType

\* A step by which no record becomes a settled one keeps the settled ones within the cap:
\* registrations may begin, fail or go on in their loop, and records may go.
LEMMA CapKept ==
    ASSUME IInv, TypeOK,
           \A d \in Conns : d \in Held' /\ registration'[d] \in {"hooking", "done"} =>
                                d \in Held /\ registration[d] \in {"hooking", "done"},
           Held' \subseteq Conns
    PROVE  SettledWithinCap'
<1> SUFFICES ASSUME MaxPerUser > 0, NEW u \in Users PROVE Cardinality(Settled(u)') <= MaxPerUser
  BY DEF SettledWithinCap
<1>1. Settled(u)' \subseteq Settled(u)
  BY DEF Settled
<1>2. IsFiniteSet(Settled(u)) /\ Cardinality(Settled(u)) \in Nat
      /\ Cardinality(Settled(u)) <= MaxPerUser
  BY CountsFact DEF IInv, SettledWithinCap
<1>3. Cardinality(Settled(u)') <= Cardinality(Settled(u)) /\ Cardinality(Settled(u)') \in Nat
  BY <1>1, <1>2, FS_Subset, FS_CardinalityType
<1> QED
  BY <1>2, <1>3, WsAssumption

\* So does the step by which a registration leaves the loop: the user is not over the limit,
\* counting every record.
LEMMA CapLeaves ==
    ASSUME IInv, NEW c \in Conns, ~OverLimit(UserOf[c]), UNCHANGED registry,
           \A d \in Conns \ {c} : registration'[d] = registration[d]
    PROVE  SettledWithinCap'
<1> SUFFICES ASSUME MaxPerUser > 0, NEW u \in Users PROVE Cardinality(Settled(u)') <= MaxPerUser
  BY DEF SettledWithinCap
<1>1. /\ byUser(registry, u) = {d \in Held : UserOf[d] = u}
      /\ IsFiniteSet(byUser(registry, u)) /\ IsFiniteSet(Settled(u))
      /\ Cardinality(byUser(registry, u)) \in Nat /\ Cardinality(Settled(u)) \in Nat
      /\ Cardinality(Settled(u)) <= MaxPerUser
      /\ Held \subseteq Conns /\ Held' = Held
  BY CountsFact DEF IInv, SettledWithinCap, TypeOK, Held, ConnectionIndex
<1>2. CASE u = UserOf[c]
  <2>1. Settled(u)' \subseteq byUser(registry, u)
    BY <1>1 DEF Settled
  <2>2. /\ Cardinality(Settled(u)') <= Cardinality(byUser(registry, u))
        /\ Cardinality(Settled(u)') \in Nat
    BY <1>1, <2>1, FS_Subset, FS_CardinalityType
  <2>3. ~(Cardinality(byUser(registry, u)) > MaxPerUser)
    BY <1>2 DEF OverLimit
  <2> QED
    BY <1>1, <2>2, <2>3, WsAssumption
<1>3. CASE u # UserOf[c]
  <2>1. Settled(u)' = Settled(u)
    BY <1>1, <1>3 DEF Settled
  <2> QED
    BY <1>1, <2>1
<1> QED
  BY <1>2, <1>3

-----------------------------------------------------------------------------
(* One socket at a time. *)

\* A closed socket stays closed.
GoneStays == \A d \in Conns : link[d] = "gone" => link'[d] = "gone"

\* What RoomUnderWay depends on.
LEMMA RoomsUnderWayKept ==
    ASSUME NEW d \in Conns, pending'[d] = pending[d], ioRooms'[d] = ioRooms[d],
           NEW r, r \in Rooms(d)' <=> r \in Rooms(d), RoomUnderWay(d, r)
    PROVE  RoomUnderWay(d, r)'
  BY DEF RoomUnderWay, IsLastCall

\* Nothing about d changes.
Same(d) ==
    /\ link'[d] = link[d] /\ registration'[d] = registration[d] /\ victim'[d] = victim[d]
    /\ order'[d] = order[d] /\ reported'[d] = reported[d]
    /\ d \in Held' <=> d \in Held
    /\ ioRooms'[d] = ioRooms[d] /\ pending'[d] = pending[d] /\ Rooms(d)' = Rooms(d)
    /\ d \in leftMidway' <=> d \in leftMidway

LEMMA Untouched ==
    ASSUME NEW d \in Conns, Consistent(d), Same(d), GoneStays
    PROVE  Consistent(d)'
<1>1. RegistrationConsistent(d)'
  BY DEF Consistent, RegistrationConsistent, Same, GoneStays
<1>2. RecordConsistent(d)'
  BY DEF Consistent, RecordConsistent, Same, Rooms
<1>3. \A r \in AppRooms : RoomUnderWay(d, r) => RoomUnderWay(d, r)'
  BY RoomsUnderWayKept DEF Same
<1>4. RoomsConsistent(d)'
  BY <1>3 DEF Consistent, RoomsConsistent, Same
<1> QED
  BY <1>1, <1>2, <1>4 DEF Consistent

\* What socketDisconnect(v, rm) does: to v, and to the indexes as a whole.
Ended(v, rm) ==
    /\ v \notin Held'
    /\ link'[v] = "gone" /\ ioRooms'[v] = {}
    /\ v \in leftMidway => v \in leftMidway'
    /\ registration[v] \in {"authenticating", "joining"} \/ pending[v] # <<>> => v \in leftMidway'
    /\ v \in Held => Rooms(v)' = {} /\ Len(reported'[v]) = Len(reported[v]) + 1
    /\ v \notin Held => Rooms(v)' = rm.connectionRooms[v] /\ reported'[v] = reported[v]

LEMMA ClosesFact ==
    ASSUME TypeOK, ConnectionIndexesAgree(registry), NEW v \in Conns, NEW rm \in RoomIndex,
           socketDisconnect(v, rm)
    PROVE  /\ link' \in [Conns -> {"off", "handshaking", "open", "gone"}]
           /\ registry' \in ConnectionIndex /\ ConnectionIndexesAgree(registry')
           /\ roomIndex' \in RoomIndex
           /\ ioRooms' \in [Conns -> SUBSET IoRooms]
           /\ reported' \in [Conns -> Seq(Reasons)]
           /\ leftMidway' \subseteq Conns
           /\ Held' = IF link[v] = "open" THEN Held \ {v} ELSE Held
           /\ link[v] # "open" => registry' = registry
           /\ \A d \in Conns :
                  d # v \/ link[v] # "open" =>
                      /\ link'[d] = link[d] /\ reported'[d] = reported[d]
                      /\ d \in Held' <=> d \in Held
                      /\ ioRooms'[d] = ioRooms[d] /\ Rooms(d)' = rm.connectionRooms[d]
                      /\ d \in leftMidway' <=> d \in leftMidway
           /\ link[v] = "open" => Ended(v, rm)
           /\ GoneStays
<1> USE DEF Held
<1>1. /\ link \in [Conns -> {"off", "handshaking", "open", "gone"}]
      /\ registry \in ConnectionIndex /\ ioRooms \in [Conns -> SUBSET IoRooms]
      /\ reported \in [Conns -> Seq(Reasons)] /\ leftMidway \subseteq Conns
      /\ rm.connectionRooms \in [Conns -> SUBSET AllRooms]
  BY DEF TypeOK, RoomIndex
<1>2. CASE link[v] # "open"
  <2>1. roomIndex' = rm /\ UNCHANGED <<link, registry, ioRooms, reported, leftMidway>>
    BY <1>2 DEF socketDisconnect
  <2> QED
    BY <1>1, <1>2, <2>1 DEF GoneStays, Rooms
<1>3. CASE link[v] = "open"
  <2>1. /\ link' = [link EXCEPT ![v] = "gone"]
        /\ ioRooms' = [ioRooms EXCEPT ![v] = {}]
        /\ unregisterSocket(v, rm, "CLIENT_DISCONNECT")
        /\ leftMidway' = IF registration[v] \in {"authenticating", "joining"} \/ pending[v] # <<>>
                         THEN leftMidway \cup {v}
                         ELSE leftMidway
    BY <1>3 DEF socketDisconnect, socketCloses, Goto
  <2>2. /\ link' \in [Conns -> {"off", "handshaking", "open", "gone"}] /\ GoneStays
        /\ ioRooms' \in [Conns -> SUBSET IoRooms]
        /\ leftMidway' \subseteq Conns
        /\ \A d \in Conns \ {v} : link'[d] = link[d] /\ ioRooms'[d] = ioRooms[d]
                                  /\ (d \in leftMidway' <=> d \in leftMidway)
        /\ link'[v] = "gone" /\ ioRooms'[v] = {}
    BY <1>1, <2>1 DEF GoneStays
  <2>3. CASE v \in Held
    <3>1. /\ registry' = unregister(registry, v)
          /\ roomIndex' = leaveAll(rm, v)
          /\ reported' = [reported EXCEPT ![v] = Append(@, "CLIENT_DISCONNECT")]
      BY <2>1, <2>3 DEF unregisterSocket
    <3>2. /\ registry' \in ConnectionIndex /\ ConnectionIndexesAgree(registry')
          /\ Held' = Held \ {v}
      BY <1>1, <3>1, UnregisterFact
    <3>3. /\ roomIndex' \in RoomIndex
          /\ Rooms(v)' = {} /\ \A d \in Conns \ {v} : Rooms(d)' = rm.connectionRooms[d]
      BY <3>1 DEF leaveAll, RoomIndex, Rooms
    <3>4. /\ reported' \in [Conns -> Seq(Reasons)]
          /\ Len(reported'[v]) = Len(reported[v]) + 1
          /\ \A d \in Conns \ {v} : reported'[d] = reported[d]
      <4>1. "CLIENT_DISCONNECT" \in Reasons
        BY DEF Reasons
      <4> QED
        BY <1>1, <3>1, <4>1
    <3> QED
      BY <1>3, <2>1, <2>2, <2>3, <3>2, <3>3, <3>4 DEF Ended
  <2>4. CASE v \notin Held
    <3>1. roomIndex' = rm /\ registry' = registry /\ reported' = reported
      BY <2>1, <2>4 DEF unregisterSocket
    <3> QED
      BY <1>1, <1>3, <2>1, <2>2, <2>4, <3>1 DEF Ended, Rooms
  <2> QED
    BY <2>3, <2>4
<1> QED
  BY <1>2, <1>3

\* The rooms rm gives a socket may be those of RoomRegistry and of the socket's own.
Extends(rm, c) ==
    /\ Rooms(c) \subseteq rm.connectionRooms[c]
    /\ rm.connectionRooms[c] \subseteq Rooms(c) \cup (OwnRooms(c) \ {OwnRoom(c)})

\* A socket that socketDisconnect closed is consistent, whatever its own registration made
\* of it.
LEMMA EndedConsistent ==
    ASSUME TypeOK, NEW v \in Conns, NEW rm, Consistent(v), link[v] = "open", Ended(v, rm), Extends(rm, v),
           pending'[v] = pending[v], order'[v] = order[v], GoneStays,
           \/ registration'[v] = registration[v] /\ victim'[v] = victim[v]
           \/ registration'[v] = "failed"
           \/ registration'[v] = "evicting" /\ victim'[v] = v
    PROVE  Consistent(v)'
<1>1. RegistrationConsistent(v) /\ RecordConsistent(v) /\ RoomsConsistent(v)
  BY DEF Consistent
<1>2. RegistrationConsistent(v)'
  BY <1>1 DEF RegistrationConsistent, Ended, GoneStays
<1>3. RecordConsistent(v)'
  <2>1. order[v] \in Nat /\ Len(reported[v]) \in Nat
    BY DEF TypeOK
  <2>2. Len(reported'[v]) = (IF order'[v] > 0 /\ v \notin Held' THEN 1 ELSE 0)
    BY <1>1, <2>1 DEF RecordConsistent, RegistrationConsistent, Ended
  <2>3. v \notin Held => v \in leftMidway'
    BY <1>1 DEF RecordConsistent, Ended
  <2>4. registration'[v] \in {"authenticating", "joining"} \/ pending'[v] # <<>> => v \in leftMidway'
    BY <1>1 DEF RecordConsistent, Ended
  <2>5. Rooms(v)' # {} => v \in leftMidway'
    BY <2>3 DEF Ended
  <2> QED
    BY <2>2, <2>4, <2>5 DEF RecordConsistent, Rooms, Ended
<1>4. RoomsConsistent(v)'
  BY <1>1 DEF RoomsConsistent, Ended, Extends
<1> QED
  BY <1>2, <1>3, <1>4 DEF Consistent

\* A registration that goes on past its joins keeps its socket consistent; its rooms are
\* mirrored by then.
LEMMA AdvancesConsistent ==
    ASSUME TypeOK, NEW c \in Conns, Consistent(c), GoneStays,
           registration[c] \in {"joining", "evicting", "evictHook", "hooking"},
           registration'[c] \in {"evicting", "evictHook", "hooking", "done", "failed"},
           registration'[c] = "evicting" =>
               victim'[c] \in Conns /\ UserOf[victim'[c]] = UserOf[c] /\ link'[victim'[c]] = "gone",
           link'[c] = link[c], order'[c] = order[c], reported'[c] = reported[c],
           c \in Held' <=> c \in Held, ioRooms'[c] = ioRooms[c], pending'[c] = pending[c],
           c \in leftMidway' <=> c \in leftMidway,
           Rooms(c) \subseteq Rooms(c)',
           Rooms(c)' \subseteq Rooms(c) \cup (OwnRooms(c) \ {OwnRoom(c)}),
           registration[c] = "joining" => OwnRooms(c) \ {OwnRoom(c)} \subseteq Rooms(c)',
           registration[c] # "joining" => Rooms(c)' = Rooms(c)
    PROVE  Consistent(c)'
<1>1. RegistrationConsistent(c) /\ RecordConsistent(c) /\ RoomsConsistent(c)
  BY DEF Consistent
<1>2. RegistrationConsistent(c)'
  BY <1>1 DEF RegistrationConsistent
<1>3. RecordConsistent(c)'
  BY <1>1 DEF RecordConsistent, Rooms
<1>4. \A r \in AppRooms : RoomUnderWay(c, r) => RoomUnderWay(c, r)'
  <2>1. \A r \in AppRooms : r \in Rooms(c)' <=> r \in Rooms(c)
    BY WsAssumption
  <2> QED
    BY <2>1, RoomsUnderWayKept
<1>5. RoomsConsistent(c)'
  BY <1>1, <1>4 DEF RoomsConsistent, RegistrationConsistent
<1> QED
  BY <1>2, <1>3, <1>5 DEF Consistent

\* A socket whose registration begins, in the tick it connects or once its authenticator
\* has answered, is consistent.
LEMMA BeginsConsistent ==
    ASSUME TypeOK, NEW c \in Conns, Consistent(c), beginRegistration(c),
           \/ link[c] = "handshaking" /\ link'[c] = "open"
           \/ registration[c] = "authenticating" /\ link'[c] = link[c],
           UNCHANGED <<roomIndex, pending, reported, leftMidway, victim>>,
           Held' = Held \cup {c}
    PROVE  Consistent(c)'
<1>1. RegistrationConsistent(c) /\ RecordConsistent(c) /\ RoomsConsistent(c)
  BY DEF Consistent
<1>2. /\ registration'[c] = "joining"
      /\ order'[c] = 1 + Cardinality({d \in Conns : order[d] > 0})
      /\ ioRooms'[c] = IF link'[c] = "open" THEN ioRooms[c] \cup OwnRooms(c) ELSE ioRooms[c]
  BY DEF beginRegistration, At, TypeOK
<1>3. Cardinality({d \in Conns : order[d] > 0}) \in Nat
  <2>1. IsFiniteSet({d \in Conns : order[d] > 0})
    BY FiniteConns
  <2> QED
    BY <2>1, FS_CardinalityType
<1>4. order'[c] > 0 /\ order[c] = 0 /\ c \notin Held
  BY <1>1, <1>2, <1>3 DEF RegistrationConsistent
<1>5. RegistrationConsistent(c)'
  BY <1>1, <1>2, <1>4 DEF RegistrationConsistent
<1>6. RecordConsistent(c)'
  BY <1>1, <1>2, <1>4 DEF RegistrationConsistent, RecordConsistent
<1>7. RoomsConsistent(c)'
  <2>1. Rooms(c)' = Rooms(c) /\ pending'[c] = pending[c]
    BY DEF Rooms
  <2>2. AppRooms \cap OwnRooms(c) = {}
    BY WsAssumption
  <2>3. ASSUME link'[c] = "open", NEW r \in AppRooms
        PROVE  RoomUnderWay(c, r)'
    <3>1. r \in ioRooms'[c] <=> r \in ioRooms[c]
      BY <1>2, <2>2, <2>3
    <3>2. RoomUnderWay(c, r)
      BY <1>1, <2>3 DEF RoomsConsistent, RoomUnderWay
    <3> QED
      BY <2>1, <3>1, <3>2 DEF RoomUnderWay, IsLastCall
  <2>4. link'[c] = "open" => ioRooms'[c] \ AppRooms = OwnRooms(c)
    BY <1>1, <1>2, <2>2 DEF RoomsConsistent, RegistrationConsistent
  <2> QED
    BY <1>1, <1>2, <2>1, <2>3, <2>4 DEF RoomsConsistent, RegistrationConsistent
<1> QED
  BY <1>5, <1>6, <1>7 DEF Consistent

-----------------------------------------------------------------------------
(* One action at a time. *)

\* A socket closes while its registration stays as it is, or fails.
LEMMA CloseStep ==
    ASSUME IInv, NEW c \in Conns, socketDisconnect(c, roomIndex), link[c] = "open" \/ registration[c] # "none",
           \/ UNCHANGED registration
           \/ registration[c] \in InProgress /\ At(c, "failed"),
           UNCHANGED <<connectedAt, order, victim, evicted, pending>>,
           shutdown' = shutdown
    PROVE  IInv'
<1>1. /\ TypeOK /\ ConnectionIndexesAgree(registry)
      /\ \A d \in Conns : Consistent(d)
      /\ roomIndex \in RoomIndex
  BY DEF IInv, TypeOK
<1>2. /\ link' \in [Conns -> {"off", "handshaking", "open", "gone"}]
      /\ registry' \in ConnectionIndex /\ ConnectionIndexesAgree(registry')
      /\ roomIndex' \in RoomIndex
      /\ ioRooms' \in [Conns -> SUBSET IoRooms]
      /\ reported' \in [Conns -> Seq(Reasons)]
      /\ leftMidway' \subseteq Conns
      /\ Held' = IF link[c] = "open" THEN Held \ {c} ELSE Held
      /\ \A d \in Conns :
             d # c \/ link[c] # "open" =>
                 /\ link'[d] = link[d] /\ reported'[d] = reported[d]
                 /\ d \in Held' <=> d \in Held
                 /\ ioRooms'[d] = ioRooms[d] /\ Rooms(d)' = roomIndex.connectionRooms[d]
                 /\ d \in leftMidway' <=> d \in leftMidway
      /\ link[c] = "open" => Ended(c, roomIndex)
      /\ GoneStays
  BY <1>1, ClosesFact
<1>3. /\ registration' \in [Conns -> {"none", "done", "failed"} \cup InProgress]
      /\ \A d \in Conns : d # c => registration'[d] = registration[d]
      /\ \/ registration'[c] = registration[c]
         \/ registration[c] \in InProgress /\ registration'[c] = "failed"
  BY <1>1 DEF TypeOK, At
<1>4. TypeOK'
  BY <1>1, <1>2, <1>3 DEF TypeOK
<1>5. SettledWithinCap'
  <2>1. Held' \subseteq Held
    BY <1>2
  <2>2. \A d \in Conns : registration'[d] \in {"hooking", "done"} =>
                             registration[d] \in {"hooking", "done"}
    BY <1>3
  <2> QED
    BY <1>1, <1>4, <2>1, <2>2, CapKept DEF TypeOK, Held, ConnectionIndex
<1>6. ASSUME NEW d \in Conns PROVE Consistent(d)'
  <2>1. CASE d # c
    <3>1. Same(d)
      BY <1>2, <1>3, <2>1 DEF Same, Rooms
    <3> QED
      BY <1>1, <1>2, <3>1, Untouched
  <2>2. CASE d = c /\ link[c] = "open"
    <3>1. Extends(roomIndex, c)
      BY DEF Extends, Rooms
    <3> QED
      BY <1>1, <1>2, <1>3, <2>2, <3>1, EndedConsistent
  <2>3. CASE d = c /\ link[c] # "open" /\ registration'[c] = registration[c]
    <3>1. Same(d)
      BY <1>2, <2>3 DEF Same, Rooms
    <3> QED
      BY <1>1, <1>2, <3>1, Untouched
  <2>4. CASE d = c /\ link[c] # "open" /\ registration'[c] = "failed"
    <3>1. RegistrationConsistent(c) /\ RecordConsistent(c) /\ RoomsConsistent(c)
      BY <1>1 DEF Consistent
    <3>2. link[c] = "gone" /\ link'[c] = "gone"
      BY <1>1, <1>2, <1>3, <2>4, <3>1 DEF RegistrationConsistent, TypeOK, InProgress
    <3>3. /\ reported'[c] = reported[c] /\ (c \in Held' <=> c \in Held)
          /\ ioRooms'[c] = ioRooms[c] /\ Rooms(c)' = Rooms(c)
          /\ (c \in leftMidway' <=> c \in leftMidway)
      BY <1>2, <2>4 DEF Rooms
    <3>4. RegistrationConsistent(c)'
      BY <2>4, <3>1, <3>2, <3>3 DEF RegistrationConsistent
    <3>5. RecordConsistent(c)'
      BY <2>4, <3>1, <3>2, <3>3 DEF RecordConsistent, Rooms
    <3>6. RoomsConsistent(c)'
      BY <3>1, <3>2, <3>3 DEF RoomsConsistent
    <3> QED
      BY <2>4, <3>4, <3>5, <3>6 DEF Consistent
  <2> QED
    BY <1>3, <2>1, <2>2, <2>3, <2>4
<1> QED
  BY <1>2, <1>4, <1>5, <1>6 DEF IInv

\* A turn of the eviction loop: the oldest of the user's sockets closes, or the loop is
\* left under the limit.
LEMMA EvictStep ==
    ASSUME IInv, NEW c \in Conns, NEW rm \in RoomIndex, evictBeyondLimit(c, rm),
           registration[c] \in {"joining", "evicting", "evictHook"},
           \A d \in Conns \ {c} : rm.connectionRooms[d] = Rooms(d),
           Extends(rm, c),
           registration[c] = "joining" => OwnRooms(c) \ {OwnRoom(c)} \subseteq rm.connectionRooms[c],
           registration[c] # "joining" => rm.connectionRooms[c] = Rooms(c),
           UNCHANGED <<connectedAt, order, pending, shutdown>>
    PROVE  IInv'
<1>1. /\ TypeOK /\ ConnectionIndexesAgree(registry)
      /\ \A d \in Conns : Consistent(d)
      /\ UserOf[c] \in Users
  BY RegistriesAssumption DEF IInv
<1>2. CASE OverLimit(UserOf[c])
  <2>1. PICK v \in byUser(registry, UserOf[c]) :
            /\ socketDisconnect(v, rm)
            /\ victim' = [victim EXCEPT ![c] = v]
            /\ evicted' = evicted \cup {v}
            /\ At(c, "evicting")
    BY <1>2 DEF evictBeyondLimit
  <2>2. v \in Conns /\ v \in Held /\ UserOf[v] = UserOf[c]
    BY <1>1, CountsFact DEF TypeOK, ConnectionIndex, Held
  <2>3. /\ link' \in [Conns -> {"off", "handshaking", "open", "gone"}]
        /\ registry' \in ConnectionIndex /\ ConnectionIndexesAgree(registry')
        /\ roomIndex' \in RoomIndex
        /\ ioRooms' \in [Conns -> SUBSET IoRooms]
        /\ reported' \in [Conns -> Seq(Reasons)]
        /\ leftMidway' \subseteq Conns
        /\ Held' = IF link[v] = "open" THEN Held \ {v} ELSE Held
        /\ \A d \in Conns :
               d # v \/ link[v] # "open" =>
                   /\ link'[d] = link[d] /\ reported'[d] = reported[d]
                   /\ d \in Held' <=> d \in Held
                   /\ ioRooms'[d] = ioRooms[d] /\ Rooms(d)' = rm.connectionRooms[d]
                   /\ d \in leftMidway' <=> d \in leftMidway
        /\ link[v] = "open" => Ended(v, rm)
        /\ GoneStays
    BY <1>1, <2>1, <2>2, ClosesFact
  <2>4. /\ registration' \in [Conns -> {"none", "done", "failed"} \cup InProgress]
        /\ victim' \in [Conns -> Conns \cup {None}]
        /\ \A d \in Conns : d # c => registration'[d] = registration[d] /\ victim'[d] = victim[d]
        /\ registration'[c] = "evicting" /\ victim'[c] = v
    BY <1>1, <2>1, <2>2 DEF TypeOK, At, InProgress
  <2>5. TypeOK'
    BY <1>1, <2>1, <2>2, <2>3, <2>4 DEF TypeOK
  <2>6. SettledWithinCap'
    <3>1. Held' \subseteq Held
      BY <2>3
    <3>2. \A d \in Conns : registration'[d] \in {"hooking", "done"} =>
                               registration[d] \in {"hooking", "done"}
      BY <2>4
    <3> QED
      BY <1>1, <3>1, <3>2, CapKept DEF TypeOK, Held, ConnectionIndex
  <2>7. link'[v] = "gone"
    <3>1. link[v] \in {"open", "gone"}
      BY <1>1, <2>2 DEF Consistent, RecordConsistent, RegistrationConsistent, TypeOK
    <3>2. CASE link[v] = "open"
      BY <2>3, <3>2 DEF Ended
    <3>3. CASE link[v] = "gone"
      BY <2>2, <2>3, <3>3 DEF GoneStays
    <3> QED
      BY <3>1, <3>2, <3>3
  <2>8. ASSUME NEW d \in Conns PROVE Consistent(d)'
    <3>1. CASE d # c /\ (d # v \/ link[v] # "open")
      <4>1. Same(d)
        BY <2>3, <2>4, <3>1 DEF Same
      <4> QED
        BY <1>1, <2>3, <4>1, Untouched
    <3>2. CASE d = v /\ link[v] = "open"
      <4>1. Extends(rm, v)
        BY <2>2 DEF Extends
      <4> QED
        BY <1>1, <2>2, <2>3, <2>4, <3>2, <4>1, EndedConsistent
    <3>3. CASE d = c /\ (c # v \/ link[v] # "open")
      <4>1. /\ Consistent(c) /\ GoneStays
            /\ registration'[c] = "evicting" /\ victim'[c] = v /\ link'[v] = "gone"
            /\ link'[c] = link[c] /\ order'[c] = order[c] /\ reported'[c] = reported[c]
            /\ (c \in Held' <=> c \in Held) /\ ioRooms'[c] = ioRooms[c] /\ pending'[c] = pending[c]
            /\ (c \in leftMidway' <=> c \in leftMidway) /\ Rooms(c)' = rm.connectionRooms[c]
        BY <1>1, <2>3, <2>4, <2>7, <3>3
      <4>2. Consistent(c)'
        BY <1>1, <2>2, <4>1, AdvancesConsistent DEF Extends
      <4> QED
        BY <3>3, <4>2
    <3> QED
      BY <3>1, <3>2, <3>3
  <2> QED
    BY <2>3, <2>5, <2>6, <2>8 DEF IInv
<1>3. CASE ~OverLimit(UserOf[c])
  <2>1. /\ roomIndex' = rm
        /\ victim' = [victim EXCEPT ![c] = None]
        /\ At(c, "hooking")
        /\ UNCHANGED <<link, registry, ioRooms, reported, leftMidway, evicted>>
    BY <1>3 DEF evictBeyondLimit
  <2>2. /\ registration' \in [Conns -> {"none", "done", "failed"} \cup InProgress]
        /\ victim' \in [Conns -> Conns \cup {None}]
        /\ \A d \in Conns : d # c => registration'[d] = registration[d] /\ victim'[d] = victim[d]
        /\ registration'[c] = "hooking"
    BY <1>1, <2>1 DEF TypeOK, At, InProgress
  <2>3. TypeOK'
    BY <1>1, <2>1, <2>2 DEF TypeOK
  <2>4. ConnectionIndexesAgree(registry')
    BY <1>1, <2>1
  <2>5. SettledWithinCap'
    BY <1>3, <2>1, <2>2, CapLeaves
  <2>6. GoneStays
    BY <2>1 DEF GoneStays
  <2>7. ASSUME NEW d \in Conns PROVE Consistent(d)'
    <3>1. CASE d # c
      <4>1. Same(d)
        BY <2>1, <2>2, <3>1 DEF Same, Held, Rooms
      <4> QED
        BY <1>1, <2>6, <4>1, Untouched
    <3>2. CASE d = c
      <4>1. /\ Consistent(c)
            /\ link'[c] = link[c] /\ order'[c] = order[c] /\ reported'[c] = reported[c]
            /\ (c \in Held' <=> c \in Held) /\ ioRooms'[c] = ioRooms[c] /\ pending'[c] = pending[c]
            /\ (c \in leftMidway' <=> c \in leftMidway) /\ Rooms(c)' = rm.connectionRooms[c]
        BY <1>1, <2>1 DEF Held, Rooms
      <4>2. Consistent(c)'
        BY <1>1, <2>2, <2>6, <4>1, AdvancesConsistent DEF Extends
      <4> QED
        BY <3>2, <4>2
    <3> QED
      BY <3>1, <3>2
  <2> QED
    BY <2>3, <2>4, <2>5, <2>7 DEF IInv
<1> QED
  BY <1>2, <1>3

\* A step about one socket preserves the invariant if it keeps the indexes, the cap and that
\* socket as they should be.
LEMMA OneSocket ==
    ASSUME IInv, NEW c \in Conns, TypeOK', ConnectionIndexesAgree(registry)', SettledWithinCap',
           \A d \in Conns \ {c} : Same(d), GoneStays, Consistent(c)'
    PROVE  IInv'
<1>1. \A d \in Conns : Consistent(d)'
  <2> SUFFICES ASSUME NEW d \in Conns, d # c PROVE Consistent(d)'
    OBVIOUS
  <2>1. Same(d) /\ Consistent(d)
    BY DEF IInv
  <2> QED
    BY <2>1, Untouched
<1> QED
  BY <1>1 DEF IInv

\* The user's and the tenant's room are rooms, and RoomRegistry mirrors exactly them.
LEMMA MirrorFact ==
    ASSUME NEW rm \in RoomIndex, NEW c \in Conns
    PROVE  /\ mirrorOwnRooms(rm, c) \in RoomIndex
           /\ \A d \in Conns \ {c} :
                  mirrorOwnRooms(rm, c).connectionRooms[d] = rm.connectionRooms[d]
           /\ mirrorOwnRooms(rm, c).connectionRooms[c] =
                  rm.connectionRooms[c] \cup (OwnRooms(c) \ {OwnRoom(c)})
<1>1. UserRoom(c) \in AllRooms /\ UserRoom(c) # OwnRoom(c)
  BY RegistriesAssumption DEF UserRoom, OwnRoom, composeRoomId, AllRooms
<1>2. ASSUME NEW r \in AllRooms, NEW m \in RoomIndex
      PROVE  /\ join(m, c, r) \in RoomIndex
             /\ \A d \in Conns \ {c} : join(m, c, r).connectionRooms[d] = m.connectionRooms[d]
             /\ join(m, c, r).connectionRooms[c] = m.connectionRooms[c] \cup {r}
  BY DEF join, RoomIndex
<1>3. CASE TenantOf[c] = NoTenant
  <2>1. mirrorOwnRooms(rm, c) = join(rm, c, UserRoom(c))
    BY <1>3 DEF mirrorOwnRooms
  <2>2. OwnRooms(c) \ {OwnRoom(c)} = {UserRoom(c)}
    BY <1>1, <1>3 DEF OwnRooms
  <2> QED
    BY <1>1, <1>2, <2>1, <2>2
<1>4. CASE TenantOf[c] # NoTenant
  <2> DEFINE tenantRoom == composeRoomId("TENANT", TenantOf[c])
             withUser   == join(rm, c, UserRoom(c))
  <2>1. tenantRoom \in AllRooms /\ tenantRoom # OwnRoom(c)
    BY <1>4, RegistriesAssumption DEF OwnRoom, composeRoomId, AllRooms
  <2>2. mirrorOwnRooms(rm, c) = join(withUser, c, tenantRoom)
    BY <1>4 DEF mirrorOwnRooms
  <2>3. OwnRooms(c) \ {OwnRoom(c)} = {UserRoom(c), tenantRoom}
    BY <1>1, <1>4, <2>1 DEF OwnRooms
  <2> HIDE DEF tenantRoom
  <2>4. /\ withUser \in RoomIndex
        /\ \A d \in Conns \ {c} : withUser.connectionRooms[d] = rm.connectionRooms[d]
        /\ withUser.connectionRooms[c] = rm.connectionRooms[c] \cup {UserRoom(c)}
    BY <1>1, <1>2
  <2> HIDE DEF withUser
  <2> QED
    BY <1>2, <2>1, <2>2, <2>3, <2>4
<1> QED
  BY <1>3, <1>4

\* A registration begins.
LEMMA BeginStep ==
    ASSUME IInv, NEW c \in Conns, beginRegistration(c),
           \/ link[c] = "handshaking" /\ link' = [link EXCEPT ![c] = "open"]
           \/ registration[c] = "authenticating" /\ link' = link,
           UNCHANGED <<roomIndex, victim, evicted, pending, shutdown, reported, leftMidway>>
    PROVE  IInv'
<1>1. /\ TypeOK /\ ConnectionIndexesAgree(registry) /\ Consistent(c)
      /\ registry \in ConnectionIndex
  BY DEF IInv, TypeOK
<1>2. PICK t \in Stamps :
          /\ registry' = register(registry, c)
          /\ connectedAt' = [connectedAt EXCEPT ![c] = t]
          /\ order' = [order EXCEPT ![c] = 1 + Cardinality({d \in Conns : order[d] > 0})]
          /\ ioRooms' = IF link'[c] = "open"
                        THEN [ioRooms EXCEPT ![c] = @ \cup OwnRooms(c)]
                        ELSE ioRooms
          /\ At(c, "joining")
  BY DEF beginRegistration
<1>3. /\ registry' \in ConnectionIndex /\ ConnectionIndexesAgree(registry')
      /\ Held' = Held \cup {c}
  BY <1>1, <1>2, RegisterFact DEF Held
<1>4. /\ registration' \in [Conns -> {"none", "done", "failed"} \cup InProgress]
      /\ \A d \in Conns \ {c} : registration'[d] = registration[d]
      /\ registration'[c] = "joining"
  BY <1>1, <1>2 DEF TypeOK, At, InProgress
<1>5. /\ link' \in [Conns -> {"off", "handshaking", "open", "gone"}]
      /\ \A d \in Conns \ {c} : link'[d] = link[d]
      /\ GoneStays
  BY <1>1 DEF TypeOK, GoneStays
<1>6. OwnRooms(c) \subseteq IoRooms
  BY RegistriesAssumption DEF OwnRooms, IoRooms, AllRooms, UserRoom, composeRoomId
<1>7. ioRooms' \in [Conns -> SUBSET IoRooms] /\ \A d \in Conns \ {c} : ioRooms'[d] = ioRooms[d]
  BY <1>1, <1>2, <1>6 DEF TypeOK
<1>8. order' \in [Conns -> Nat] /\ \A d \in Conns \ {c} : order'[d] = order[d]
  <2>1. IsFiniteSet({d \in Conns : order[d] > 0})
    BY FiniteConns
  <2>2. 1 + Cardinality({d \in Conns : order[d] > 0}) \in Nat
    BY <2>1, FS_CardinalityType
  <2> QED
    BY <1>1, <1>2, <2>2 DEF TypeOK
<1>9. TypeOK'
  BY <1>1, <1>2, <1>3, <1>4, <1>5, <1>7, <1>8, WsAssumption DEF TypeOK
<1>10. SettledWithinCap'
  <2>1. \A d \in Conns : registration'[d] \in {"hooking", "done"} =>
                             d # c /\ registration[d] \in {"hooking", "done"}
    BY <1>4
  <2> QED
    BY <1>1, <1>3, <2>1, CapKept DEF Held, ConnectionIndex
<1>11. \A d \in Conns \ {c} : Same(d)
  BY <1>3, <1>4, <1>5, <1>7, <1>8 DEF Same, Rooms
<1>12. Consistent(c)'
  <2>1. \/ link[c] = "handshaking" /\ link'[c] = "open"
        \/ registration[c] = "authenticating" /\ link'[c] = link[c]
    BY <1>1 DEF TypeOK
  <2> QED
    BY <1>1, <1>3, <2>1, BeginsConsistent
<1> QED
  BY <1>3, <1>5, <1>9, <1>10, <1>11, <1>12, OneSocket

\* A client connects, or a handshake ends without a registration.
LEMMA HandshakeStep ==
    ASSUME IInv, NEW c \in Conns, NEW next \in {"handshaking", "open", "gone"},
           link' = [link EXCEPT ![c] = next],
           \/ /\ link[c] = "off"
              /\ \/ next # "open" /\ registration' = registration
                 \/ c \in SkipsMiddleware /\ next = "open" /\ At(c, "authenticating")
                 \/ next = "gone" /\ At(c, "failed")
           \/ link[c] = "handshaking" /\ next = "gone" /\ registration' = registration,
           UNCHANGED <<registry, connectedAt, order, roomIndex, ioRooms, victim, evicted, pending,
                       shutdown, reported, leftMidway>>
    PROVE  IInv'
<1>1. /\ TypeOK /\ ConnectionIndexesAgree(registry) /\ Consistent(c)
  BY DEF IInv
<1>2. /\ link' \in [Conns -> {"off", "handshaking", "open", "gone"}]
      /\ \A d \in Conns \ {c} : link'[d] = link[d]
      /\ link'[c] = next
      /\ GoneStays
  BY <1>1 DEF TypeOK, GoneStays
<1>3. registration[c] = "none"
  BY <1>1 DEF Consistent, RegistrationConsistent
<1>4. /\ registration' \in [Conns -> {"none", "done", "failed"} \cup InProgress]
      /\ \A d \in Conns \ {c} : registration'[d] = registration[d]
      /\ \/ next # "open" /\ registration'[c] = "none"
         \/ c \in SkipsMiddleware /\ next = "open" /\ registration'[c] = "authenticating"
         \/ next = "gone" /\ registration'[c] = "failed"
      /\ next = "handshaking" => registration'[c] = "none"
  BY <1>1, <1>3 DEF TypeOK, At, InProgress
<1>5. TypeOK'
  BY <1>1, <1>2, <1>4 DEF TypeOK
<1>6. Held' = Held /\ \A d \in Conns : Rooms(d)' = Rooms(d)
  BY DEF Held, Rooms
<1>7. SettledWithinCap'
  <2>1. \A d \in Conns : registration'[d] \in {"hooking", "done"} =>
                             registration[d] \in {"hooking", "done"}
    BY <1>3, <1>4
  <2> QED
    BY <1>1, <1>6, <2>1, CapKept DEF TypeOK, Held, ConnectionIndex
<1>8. \A d \in Conns \ {c} : Same(d)
  BY <1>2, <1>4, <1>6 DEF Same
<1>9. Consistent(c)'
  <2>1. /\ order'[c] = 0 /\ c \notin Held' /\ Len(reported'[c]) = 0
        /\ ioRooms'[c] = {} /\ pending'[c] = <<>> /\ Rooms(c)' = {}
    BY <1>1, <1>3, <1>6 DEF Consistent, RegistrationConsistent, RecordConsistent, RoomsConsistent
  <2>2. RegistrationConsistent(c)'
    BY <1>2, <1>4, <2>1 DEF RegistrationConsistent
  <2>3. RecordConsistent(c)'
    BY <1>2, <1>4, <2>1 DEF RecordConsistent, Rooms
  <2>4. \A r \in AppRooms : RoomUnderWay(c, r)'
    BY <2>1 DEF RoomUnderWay
  <2>5. RoomsConsistent(c)'
    BY <1>2, <1>4, <2>1, <2>4 DEF RoomsConsistent
  <2> QED
    BY <2>2, <2>3, <2>5 DEF Consistent
<1> QED
  BY <1>1, <1>2, <1>5, <1>7, <1>8, <1>9, OneSocket

\* Eviction drops a record that disconnect() left, and awaits its hook.
LEMMA DropStep ==
    ASSUME IInv, NEW c \in Conns, registration[c] = "evicting", victim[c] \in Held,
           unregisterSocket(victim[c], roomIndex, "REALTIME_TOO_MANY_CONNECTIONS"),
           At(c, "evictHook"),
           UNCHANGED <<link, ioRooms, leftMidway, victim, evicted, connectedAt, order, pending, shutdown>>
    PROVE  IInv'
<1>1. /\ TypeOK /\ ConnectionIndexesAgree(registry)
      /\ \A d \in Conns : Consistent(d)
      /\ registry \in ConnectionIndex /\ roomIndex \in RoomIndex
  BY DEF IInv, TypeOK
<1>2. PICK v \in Conns : v = victim[c] /\ UserOf[v] = UserOf[c] /\ link[v] = "gone" /\ v \in Held
  BY <1>1 DEF Consistent, RegistrationConsistent
<1>3. /\ registry' = unregister(registry, v)
      /\ roomIndex' = leaveAll(roomIndex, v)
      /\ reported' = [reported EXCEPT ![v] = Append(@, "REALTIME_TOO_MANY_CONNECTIONS")]
  BY <1>2 DEF unregisterSocket
<1>4. /\ registry' \in ConnectionIndex /\ ConnectionIndexesAgree(registry')
      /\ Held' = Held \ {v}
  BY <1>1, <1>2, <1>3, UnregisterFact DEF Held
<1>5. /\ roomIndex' \in RoomIndex
      /\ Rooms(v)' = {} /\ \A d \in Conns \ {v} : Rooms(d)' = Rooms(d)
  <2>1. /\ leaveAll(roomIndex, v) \in RoomIndex
        /\ leaveAll(roomIndex, v).connectionRooms[v] = {}
        /\ \A d \in Conns \ {v} :
               leaveAll(roomIndex, v).connectionRooms[d] = roomIndex.connectionRooms[d]
    BY <1>1 DEF leaveAll, RoomIndex
  <2> QED
    BY <1>3, <2>1 DEF Rooms
<1>6. /\ reported' \in [Conns -> Seq(Reasons)]
      /\ Len(reported'[v]) = Len(reported[v]) + 1
      /\ \A d \in Conns \ {v} : reported'[d] = reported[d]
  <2>1. "REALTIME_TOO_MANY_CONNECTIONS" \in Reasons
    BY DEF Reasons
  <2>2. reported \in [Conns -> Seq(Reasons)]
    BY <1>1 DEF TypeOK
  <2> QED
    BY <1>2, <1>3, <2>1, <2>2
<1>7. /\ registration' \in [Conns -> {"none", "done", "failed"} \cup InProgress]
      /\ \A d \in Conns \ {c} : registration'[d] = registration[d]
      /\ registration'[c] = "evictHook"
  BY <1>1 DEF TypeOK, At, InProgress
<1>8. TypeOK'
  BY <1>1, <1>4, <1>5, <1>6, <1>7 DEF TypeOK
<1>9. GoneStays
  BY DEF GoneStays
<1>10. SettledWithinCap'
  <2>1. \A d \in Conns : registration'[d] \in {"hooking", "done"} =>
                             registration[d] \in {"hooking", "done"}
    BY <1>7
  <2> QED
    BY <1>1, <1>4, <2>1, CapKept DEF Held, ConnectionIndex
<1>11. ASSUME NEW d \in Conns PROVE Consistent(d)'
  <2>1. CASE d # c /\ d # v
    <3>1. Same(d)
      BY <1>4, <1>5, <1>6, <1>7, <2>1 DEF Same
    <3> QED
      BY <1>1, <1>9, <3>1, Untouched
  <2>2. CASE d = v
    <3>1. RegistrationConsistent(v) /\ RecordConsistent(v) /\ RoomsConsistent(v)
      BY <1>1, <1>2 DEF Consistent
    <3>2. /\ link'[v] = "gone" /\ v \notin Held' /\ Rooms(v)' = {}
          /\ registration'[v] = registration[v] \/ registration'[v] = "evictHook"
      BY <1>2, <1>4, <1>5, <1>7
    <3>3. order[v] \in Nat /\ order[v] # 0 /\ Len(reported[v]) \in Nat
      BY <1>1, <1>2, <3>1 DEF TypeOK, RegistrationConsistent
    <3>4. RegistrationConsistent(v)'
      BY <3>1, <3>2, <3>3 DEF RegistrationConsistent
    <3>5. RecordConsistent(v)'
      BY <1>2, <1>6, <3>1, <3>2, <3>3 DEF RecordConsistent, Rooms
    <3>6. RoomsConsistent(v)'
      BY <3>2 DEF RoomsConsistent
    <3> QED
      BY <2>2, <3>4, <3>5, <3>6 DEF Consistent
  <2>3. CASE d = c /\ c # v
    <3>1. /\ Consistent(c) /\ reported'[c] = reported[c] /\ Rooms(c)' = Rooms(c)
          /\ (c \in Held' <=> c \in Held) /\ registration'[c] = "evictHook"
      BY <1>1, <1>4, <1>5, <1>6, <1>7, <2>3
    <3>2. Consistent(c)'
      BY <1>1, <1>9, <3>1, AdvancesConsistent
    <3> QED
      BY <2>3, <3>2
  <2> QED
    BY <2>1, <2>2, <2>3
<1> QED
  BY <1>4, <1>8, <1>10, <1>11 DEF IInv

\* The hook of a registration resolves.
LEMMA SettleStep ==
    ASSUME IInv, NEW c \in Conns, ConnectHookSettles(c)
    PROVE  IInv'
<1>1. /\ TypeOK /\ ConnectionIndexesAgree(registry) /\ Consistent(c)
  BY DEF IInv
<1>2. /\ registration[c] = "hooking" /\ At(c, "done")
      /\ UNCHANGED <<link, registry, roomIndex, ioRooms, reported, leftMidway, connectedAt, order,
                     victim, evicted, pending, shutdown>>
  BY DEF ConnectHookSettles, closeVars
<1>3. /\ registration' \in [Conns -> {"none", "done", "failed"} \cup InProgress]
      /\ \A d \in Conns \ {c} : registration'[d] = registration[d]
      /\ registration'[c] = "done"
  BY <1>1, <1>2 DEF TypeOK, At, InProgress
<1>4. TypeOK'
  BY <1>1, <1>2, <1>3 DEF TypeOK
<1>5. /\ Held' = Held /\ \A d \in Conns : Rooms(d)' = Rooms(d)
      /\ GoneStays
  BY <1>2 DEF Held, Rooms, GoneStays
<1>6. ConnectionIndexesAgree(registry)'
  BY <1>1, <1>2
<1>7. SettledWithinCap'
  <2>1. \A d \in Conns : registration'[d] \in {"hooking", "done"} =>
                             registration[d] \in {"hooking", "done"}
    BY <1>2, <1>3
  <2> QED
    BY <1>1, <1>5, <2>1, CapKept DEF TypeOK, Held, ConnectionIndex
<1>8. \A d \in Conns \ {c} : Same(d)
  BY <1>2, <1>3, <1>5 DEF Same
<1>9. Consistent(c)'
  BY <1>1, <1>2, <1>3, <1>5, AdvancesConsistent
<1> QED
  BY <1>4, <1>5, <1>6, <1>7, <1>8, <1>9, OneSocket

-----------------------------------------------------------------------------
(* Rooms of the application. *)

\* t is s after one more call, or after its first is done.
Appended(t, s, call) == t = Append(s, call)
FirstDone(t, s) == s # <<>> /\ t = Tail(s)

\* What t says of room q, s says already.
SaysNothingNew(t, s, q) ==
    /\ \A k \in DOMAIN t : IsLastCall(t, k, q) =>
           k \in DOMAIN s /\ IsLastCall(s, k, q) /\ t[k] = s[k]
    /\ (\A k \in DOMAIN t : t[k][2] # q) => \A k \in DOMAIN s : s[k][2] # q

\* The last call about a room, when one more is under way.
LEMMA AppendedCall ==
    ASSUME NEW s \in Seq(Calls), NEW op, NEW r, <<op, r>> \in Calls,
           NEW t, Appended(t, s, <<op, r>>)
    PROVE  /\ \A k \in DOMAIN t : IsLastCall(t, k, r) => t[k][1] = op
           /\ ~ \A k \in DOMAIN t : t[k][2] # r
           /\ \A q : q # r => SaysNothingNew(t, s, q)
<1>1. /\ DOMAIN s = 1..Len(s) /\ DOMAIN t = 1..(Len(s) + 1) /\ Len(s) \in Nat
      /\ \A k \in DOMAIN s : t[k] = s[k]
      /\ t[Len(s) + 1] = <<op, r>>
  BY DEF Appended
<1>2. t[Len(s) + 1][1] = op /\ t[Len(s) + 1][2] = r /\ Len(s) + 1 \in DOMAIN t
  BY <1>1
<1>3. \A k \in DOMAIN t : k = Len(s) + 1 \/ (k \in DOMAIN s /\ Len(s) + 1 > k)
  BY <1>1
<1>4. \A k \in DOMAIN t : IsLastCall(t, k, r) => t[k][1] = op
  BY <1>2, <1>3 DEF IsLastCall
<1>5. ASSUME NEW q, q # r, NEW k \in DOMAIN t, IsLastCall(t, k, q)
      PROVE  k \in DOMAIN s /\ IsLastCall(s, k, q) /\ t[k] = s[k]
  <2>1. k \in DOMAIN s
    BY <1>2, <1>3, <1>5 DEF IsLastCall
  <2>2. \A j \in DOMAIN s : j \in DOMAIN t
    BY <1>1
  <2> QED
    BY <1>1, <1>5, <2>1, <2>2 DEF IsLastCall
<1>6. \A k \in DOMAIN s : k \in DOMAIN t /\ t[k] = s[k]
  BY <1>1
<1>7. \A q : q # r => SaysNothingNew(t, s, q)
  BY <1>5, <1>6 DEF SaysNothingNew
<1>8. ~ \A k \in DOMAIN t : t[k][2] # r
  BY <1>2
<1> QED
  BY <1>4, <1>7, <1>8

\* The last call about a room, when the first of the calls under way is done.
LEMMA FirstCallDone ==
    ASSUME NEW s \in Seq(Calls), NEW t, FirstDone(t, s), NEW q
    PROVE  /\ \A k \in DOMAIN t : IsLastCall(t, k, q) =>
                  \E j \in DOMAIN s : IsLastCall(s, j, q) /\ t[k] = s[j]
           /\ (\A k \in DOMAIN t : t[k][2] # q) /\ Head(s)[2] = q => IsLastCall(s, 1, q)
           /\ (\A k \in DOMAIN t : t[k][2] # q) /\ Head(s)[2] # q => \A k \in DOMAIN s : s[k][2] # q
           /\ 1 \in DOMAIN s /\ s[1] = Head(s) /\ Head(s) \in Calls
<1>1. /\ DOMAIN s = 1..Len(s) /\ DOMAIN t = 1..(Len(s) - 1) /\ Len(s) \in Nat /\ Len(s) >= 1
      /\ \A k \in DOMAIN t : t[k] = s[k + 1]
      /\ s[1] = Head(s) /\ Head(s) \in Calls
  BY DEF FirstDone
<1>2. 1 \in DOMAIN s /\ s[1] = Head(s) /\ Head(s) \in Calls
  BY <1>1
<1>3. \A j \in DOMAIN s : j = 1 \/ (j - 1 \in DOMAIN t /\ t[j - 1] = s[j])
  <2> SUFFICES ASSUME NEW j \in DOMAIN s, j # 1 PROVE j - 1 \in DOMAIN t /\ t[j - 1] = s[j]
    OBVIOUS
  <2>1. j - 1 \in DOMAIN t /\ (j - 1) + 1 = j
    BY <1>1
  <2> QED
    BY <1>1, <2>1
<1>4. ASSUME NEW k \in DOMAIN t, IsLastCall(t, k, q)
      PROVE  k + 1 \in DOMAIN s /\ IsLastCall(s, k + 1, q) /\ t[k] = s[k + 1]
  <2>1. k + 1 \in DOMAIN s /\ t[k] = s[k + 1]
    BY <1>1
  <2>2. ASSUME NEW j \in DOMAIN s, j > k + 1 PROVE s[j][2] # q
    <3>1. j - 1 \in DOMAIN t /\ t[j - 1] = s[j] /\ j - 1 > k
      BY <1>1, <1>3, <2>2
    <3> QED
      BY <1>4, <3>1 DEF IsLastCall
  <2> QED
    BY <1>4, <2>1, <2>2 DEF IsLastCall
<1>5. ASSUME \A k \in DOMAIN t : t[k][2] # q
      PROVE  \A j \in DOMAIN s : j # 1 => s[j][2] # q
  BY <1>3, <1>5
<1>6. ASSUME \A k \in DOMAIN t : t[k][2] # q
      PROVE  /\ Head(s)[2] = q => IsLastCall(s, 1, q)
             /\ Head(s)[2] # q => \A k \in DOMAIN s : s[k][2] # q
  BY <1>2, <1>5, <1>6 DEF IsLastCall
<1> QED
  BY <1>2, <1>4, <1>6

\* A call of the application reaches the adapter, and awaits it.
LEMMA RoomCallStep ==
    ASSUME IInv, NEW c \in Conns, NEW op \in {"join", "leave"}, NEW r \in AppRooms, RoomCall(c, op, r)
    PROVE  IInv'
<1>1. /\ TypeOK /\ ConnectionIndexesAgree(registry) /\ Consistent(c)
  BY DEF IInv
<1>2. /\ link[c] = "open"
      /\ ioRooms' = [ioRooms EXCEPT ![c] = IF op = "join" THEN @ \cup {r} ELSE @ \ {r}]
      /\ pending' = [pending EXCEPT ![c] = Append(@, <<op, r>>)]
      /\ UNCHANGED <<link, registry, connectedAt, order, roomIndex, registration, victim, evicted,
                     shutdown, reported, leftMidway>>
  BY DEF RoomCall, recordVars, callVars
<1>3. <<op, r>> \in Calls /\ r \in IoRooms /\ r \notin OwnRooms(c)
  BY WsAssumption DEF Calls, IoRooms, AllRooms
<1>4. /\ pending \in [Conns -> Seq(Calls)] /\ pending' \in [Conns -> Seq(Calls)]
      /\ pending[c] \in Seq(Calls)
      /\ Appended(pending'[c], pending[c], <<op, r>>)
      /\ \A d \in Conns \ {c} : pending'[d] = pending[d]
  BY <1>1, <1>2, <1>3 DEF TypeOK, Appended
<1>5. /\ ioRooms' \in [Conns -> SUBSET IoRooms]
      /\ ioRooms'[c] = (IF op = "join" THEN ioRooms[c] \cup {r} ELSE ioRooms[c] \ {r})
      /\ \A d \in Conns \ {c} : ioRooms'[d] = ioRooms[d]
  BY <1>1, <1>2, <1>3 DEF TypeOK
<1>6. TypeOK'
  BY <1>1, <1>2, <1>4, <1>5 DEF TypeOK
<1>7. /\ Held' = Held /\ \A d \in Conns : Rooms(d)' = Rooms(d)
      /\ GoneStays
      /\ ConnectionIndexesAgree(registry)'
  BY <1>1, <1>2 DEF Held, Rooms, GoneStays
<1>8. SettledWithinCap'
  BY <1>1, <1>2, <1>7, CapKept DEF TypeOK, Held, ConnectionIndex
<1>9. \A d \in Conns \ {c} : Same(d)
  BY <1>2, <1>4, <1>5, <1>7 DEF Same
<1>10. Consistent(c)'
  <2>1. RegistrationConsistent(c) /\ RecordConsistent(c) /\ RoomsConsistent(c)
    BY <1>1 DEF Consistent
  <2>2. RegistrationConsistent(c)'
    BY <1>2, <1>7, <2>1 DEF RegistrationConsistent
  <2>3. RecordConsistent(c)'
    BY <1>2, <1>7, <2>1 DEF RecordConsistent, Rooms
  <2>4. ASSUME NEW q \in AppRooms PROVE RoomUnderWay(c, q)'
    <3>1. RoomUnderWay(c, q)
      BY <1>2, <2>1, <2>4 DEF RoomsConsistent
    <3>2. CASE q = r
      <4>1. /\ \A k \in DOMAIN pending'[c] : IsLastCall(pending'[c], k, r) => pending'[c][k][1] = op
            /\ ~ \A k \in DOMAIN pending'[c] : pending'[c][k][2] # r
        BY <1>3, <1>4, AppendedCall
      <4>2. r \in ioRooms'[c] <=> op = "join"
        BY <1>5
      <4> QED
        BY <3>2, <4>1, <4>2 DEF RoomUnderWay
    <3>3. CASE q # r
      <4> DEFINE s == pending[c]
                 t == pending'[c]
      <4>3. s \in Seq(Calls) /\ <<op, r>> \in Calls /\ Appended(t, s, <<op, r>>)
        BY <1>3, <1>4
      <4> HIDE DEF s, t
      <4>1. SaysNothingNew(t, s, q)
        BY <4>3, <3>3, AppendedCall
      <4>2. (q \in ioRooms'[c] <=> q \in ioRooms[c]) /\ (q \in Rooms(c)' <=> q \in Rooms(c))
        BY <1>5, <1>7, <3>3
      <4> QED
        BY <3>1, <4>1, <4>2 DEF RoomUnderWay, SaysNothingNew, s, t
    <3> QED
      BY <3>2, <3>3
  <2>5. ioRooms'[c] \ AppRooms = ioRooms[c] \ AppRooms
    BY <1>5
  <2>6. RoomsConsistent(c)'
    BY <1>2, <1>7, <2>1, <2>4, <2>5 DEF RoomsConsistent
  <2> QED
    BY <2>2, <2>3, <2>6 DEF Consistent
<1> QED
  BY <1>6, <1>7, <1>8, <1>9, <1>10, OneSocket

\* The adapter is done with the first call, and RoomRegistry follows.
LEMMA RoomSettleStep ==
    ASSUME IInv, NEW c \in Conns, RoomCallSettles(c)
    PROVE  IInv'
<1>1. /\ TypeOK /\ ConnectionIndexesAgree(registry) /\ Consistent(c)
      /\ roomIndex \in RoomIndex /\ pending \in [Conns -> Seq(Calls)]
  BY DEF IInv, TypeOK
<1>2. PICK op \in {"join", "leave"}, r \in AppRooms : Head(pending[c]) = <<op, r>>
  BY <1>1 DEF RoomCallSettles, Calls
<1>3. /\ pending[c] # <<>>
      /\ roomIndex' = IF op = "join" THEN join(roomIndex, c, r) ELSE leave(roomIndex, c, r)
      /\ pending' = [pending EXCEPT ![c] = Tail(@)]
      /\ UNCHANGED <<link, registry, connectedAt, order, ioRooms, registration, victim, evicted,
                     shutdown, reported, leftMidway>>
  BY <1>2 DEF RoomCallSettles, recordVars, callVars
<1>4. r \in AllRooms /\ r \notin OwnRooms(c)
  BY WsAssumption DEF AllRooms
<1>5. /\ roomIndex' \in RoomIndex
      /\ \A d \in Conns \ {c} : Rooms(d)' = Rooms(d)
      /\ Rooms(c)' = IF op = "join" THEN Rooms(c) \cup {r} ELSE Rooms(c) \ {r}
  <2>1. /\ join(roomIndex, c, r) \in RoomIndex /\ leave(roomIndex, c, r) \in RoomIndex
        /\ \A d \in Conns \ {c} :
               /\ join(roomIndex, c, r).connectionRooms[d] = roomIndex.connectionRooms[d]
               /\ leave(roomIndex, c, r).connectionRooms[d] = roomIndex.connectionRooms[d]
        /\ join(roomIndex, c, r).connectionRooms[c] = roomIndex.connectionRooms[c] \cup {r}
        /\ leave(roomIndex, c, r).connectionRooms[c] = roomIndex.connectionRooms[c] \ {r}
    BY <1>1, <1>4 DEF join, leave, RoomIndex
  <2> QED
    BY <1>3, <2>1 DEF Rooms
<1>6. /\ pending' \in [Conns -> Seq(Calls)] /\ pending[c] \in Seq(Calls)
      /\ FirstDone(pending'[c], pending[c])
      /\ \A d \in Conns \ {c} : pending'[d] = pending[d]
  BY <1>1, <1>3 DEF FirstDone
<1>7. TypeOK'
  BY <1>1, <1>3, <1>5, <1>6 DEF TypeOK
<1>8. Held' = Held /\ GoneStays /\ ConnectionIndexesAgree(registry)'
  BY <1>1, <1>3 DEF Held, GoneStays
<1>9. SettledWithinCap'
  BY <1>1, <1>3, <1>8, CapKept DEF TypeOK, Held, ConnectionIndex
<1>10. \A d \in Conns \ {c} : Same(d)
  BY <1>3, <1>5, <1>6, <1>8 DEF Same
<1>11. Consistent(c)'
  <2>1. RegistrationConsistent(c) /\ RecordConsistent(c) /\ RoomsConsistent(c)
    BY <1>1 DEF Consistent
  <2>2. RegistrationConsistent(c)'
    BY <1>3, <1>8, <2>1 DEF RegistrationConsistent
  <2>3. link[c] = "gone" => c \in leftMidway'
    BY <1>3, <2>1 DEF RecordConsistent
  <2>4. RecordConsistent(c)'
    BY <1>3, <1>8, <2>1, <2>3 DEF RecordConsistent
  <2>5. ASSUME link[c] = "open", NEW q \in AppRooms PROVE RoomUnderWay(c, q)'
    <3>1. RoomUnderWay(c, q)
      BY <2>1, <2>5 DEF RoomsConsistent
    <3> DEFINE s == pending[c]
               t == pending'[c]
    <3>6. FirstDone(t, s) /\ s \in Seq(Calls) /\ Head(s)[1] = op /\ Head(s)[2] = r
      BY <1>2, <1>6
    <3> HIDE DEF s, t
    <3>2. /\ \A k \in DOMAIN t : IsLastCall(t, k, q) =>
                 \E j \in DOMAIN s : IsLastCall(s, j, q) /\ t[k] = s[j]
          /\ (\A k \in DOMAIN t : t[k][2] # q) =>
                 IF r = q THEN IsLastCall(s, 1, q) ELSE \A k \in DOMAIN s : s[k][2] # q
          /\ 1 \in DOMAIN s /\ s[1][1] = op
      <4>1. (\A k \in DOMAIN t : t[k][2] # q) /\ Head(s)[2] = q => IsLastCall(s, 1, q)
        BY <3>6, FirstCallDone
      <4>4. ASSUME \A k \in DOMAIN t : t[k][2] # q, Head(s)[2] # q, NEW k \in DOMAIN s
            PROVE  s[k][2] # q
        BY <3>6, <4>4, FirstCallDone
      <4>2. \A k \in DOMAIN t : IsLastCall(t, k, q) =>
                \E j \in DOMAIN s : IsLastCall(s, j, q) /\ t[k] = s[j]
        BY <3>6, FirstCallDone
      <4>3. 1 \in DOMAIN s /\ s[1] = Head(s)
        BY <3>6, FirstCallDone
      <4> QED
        BY <3>6, <4>1, <4>2, <4>3, <4>4
    <3>3. ioRooms'[c] = ioRooms[c]
      BY <1>3
    <3>4. ASSUME NEW k \in DOMAIN pending'[c], IsLastCall(pending'[c], k, q)
          PROVE  q \in ioRooms'[c] <=> pending'[c][k][1] = "join"
      BY <3>1, <3>2, <3>3, <3>4 DEF RoomUnderWay, s, t
    <3>5. ASSUME \A k \in DOMAIN pending'[c] : pending'[c][k][2] # q
          PROVE  q \in ioRooms'[c] <=> q \in Rooms(c)'
      <4>1. CASE r = q
        <5>1. q \in ioRooms[c] <=> op = "join"
          BY <3>1, <3>2, <3>5, <4>1 DEF RoomUnderWay, s, t
        <5>2. q \in Rooms(c)' <=> op = "join"
          BY <1>5, <4>1
        <5> QED
          BY <3>3, <5>1, <5>2
      <4>2. CASE r # q
        <5>1. q \in ioRooms[c] <=> q \in Rooms(c)
          BY <3>1, <3>2, <3>5, <4>2 DEF RoomUnderWay, s, t
        <5>2. q \in Rooms(c)' <=> q \in Rooms(c)
          BY <1>5, <4>2
        <5> QED
          BY <3>3, <5>1, <5>2
      <4> QED
        BY <4>1, <4>2
    <3> QED
      BY <3>4, <3>5 DEF RoomUnderWay
  <2>6. link[c] \in {"open", "gone"}
    BY <1>1, <1>3, <2>1 DEF RoomsConsistent, TypeOK
  <2>7. /\ Rooms(c)' \subseteq Rooms(c) \cup AppRooms
        /\ \A q \in OwnRooms(c) : q \in Rooms(c) => q \in Rooms(c)'
    BY <1>4, <1>5
  <2>8. RoomsConsistent(c)'
    BY <1>3, <2>1, <2>5, <2>6, <2>7 DEF RoomsConsistent
  <2> QED
    BY <2>2, <2>4, <2>8 DEF Consistent
<1> QED
  BY <1>7, <1>8, <1>9, <1>10, <1>11, OneSocket

-----------------------------------------------------------------------------
(* The specification. *)

LEMMA ConnectsStep == ASSUME IInv, NEW c \in Conns, Connects(c) PROVE IInv'
<1> DEFINE entered == IF c \in SkipsMiddleware THEN "open" ELSE "handshaking"
           next    == IF shuttingDown THEN "gone" ELSE entered
<1>1. /\ link[c] = "off"
      /\ UNCHANGED <<registry, connectedAt, order, roomIndex, ioRooms, victim, evicted, pending,
                     shutdown, reported, leftMidway>>
  BY DEF Connects, recordVars
<1>2. next \in {"handshaking", "open", "gone"}
  OBVIOUS
<1>3. link' = [link EXCEPT ![c] = next]
  BY DEF Connects, Goto
<1>4. \/ next # "open" /\ registration' = registration
      \/ c \in SkipsMiddleware /\ next = "open" /\ At(c, "authenticating")
      \/ next = "gone" /\ At(c, "failed")
  <2>1. CASE c \notin SkipsMiddleware
    BY <2>1 DEF Connects
  <2>2. CASE c \in SkipsMiddleware /\ shuttingDown
    <3>1. At(c, "failed")
      BY <2>2 DEF Connects
    <3> QED
      BY <2>2, <3>1
  <2>3. CASE c \in SkipsMiddleware /\ ~shuttingDown
    <3>1. At(c, "authenticating")
      BY <2>3 DEF Connects
    <3> QED
      BY <2>3, <3>1
  <2> QED
    BY <2>1, <2>2, <2>3
<1> HIDE DEF next
<1> QED
  BY <1>1, <1>2, <1>3, <1>4, HandshakeStep

LEMMA AuthenticateStep ==
    ASSUME IInv, NEW c \in Conns, NEW ok \in BOOLEAN, authenticateHandshake(c, ok) PROVE IInv'
<1>1. /\ link[c] = "handshaking"
      /\ UNCHANGED <<roomIndex, victim, evicted, pending, shutdown, reported, leftMidway>>
  BY DEF authenticateHandshake
<1>2. CASE ok /\ ~shuttingDown
  <2>1. beginRegistration(c) /\ link' = [link EXCEPT ![c] = "open"]
    BY <1>2 DEF authenticateHandshake, Goto
  <2> QED
    BY <1>1, <2>1, BeginStep
<1>3. CASE ~(ok /\ ~shuttingDown)
  <2> DEFINE next == "gone"
  <2>1. /\ link' = [link EXCEPT ![c] = next] /\ next = "gone" /\ next \in {"handshaking", "open", "gone"}
        /\ UNCHANGED <<registry, connectedAt, order, ioRooms, registration>>
    BY <1>3 DEF authenticateHandshake, Goto, recordVars
  <2> HIDE DEF next
  <2> QED
    BY <1>1, <2>1, HandshakeStep
<1> QED
  BY <1>2, <1>3

LEMMA HandleConnectionStep == ASSUME IInv, NEW c \in Conns, handleConnection(c) PROVE IInv'
<1>1. registration[c] = "authenticating" /\ UNCHANGED <<victim, evicted, pending, shutdown>>
  BY DEF handleConnection
<1>2. CASE UNCHANGED <<link, roomIndex, reported, leftMidway>> /\ beginRegistration(c)
  BY <1>1, <1>2, BeginStep
<1>3. CASE socketDisconnect(c, roomIndex) /\ At(c, "failed") /\ UNCHANGED <<connectedAt, order>>
  <2>1. registration[c] \in InProgress /\ registration[c] # "none"
    BY <1>1 DEF InProgress
  <2> QED
    BY <1>1, <1>3, <2>1, CloseStep
<1> QED
  BY <1>2, <1>3 DEF handleConnection

\* A turn of the loop that finds RoomRegistry as it is.
LEMMA LoopStep ==
    ASSUME IInv, NEW c \in Conns, registration[c] \in {"evicting", "evictHook"},
           evictBeyondLimit(c, roomIndex), UNCHANGED <<connectedAt, order, pending, shutdown>>
    PROVE  IInv'
<1>1. roomIndex \in RoomIndex /\ \A d \in Conns : roomIndex.connectionRooms[d] = Rooms(d)
  BY DEF IInv, TypeOK, Rooms
<1>2. Extends(roomIndex, c)
  BY DEF Extends, Rooms
<1> QED
  BY <1>1, <1>2, EvictStep

LEMMA JoinsDoneStep == ASSUME IInv, NEW c \in Conns, JoinsDone(c) PROVE IInv'
<1> DEFINE rm == mirrorOwnRooms(roomIndex, c)
<1>1. /\ registration[c] = "joining" /\ evictBeyondLimit(c, rm)
      /\ UNCHANGED <<connectedAt, order, pending, shutdown>>
  BY DEF JoinsDone
<1>2. roomIndex \in RoomIndex
  BY DEF IInv, TypeOK
<1>3. /\ rm \in RoomIndex
      /\ \A d \in Conns \ {c} : rm.connectionRooms[d] = Rooms(d)
      /\ rm.connectionRooms[c] = Rooms(c) \cup (OwnRooms(c) \ {OwnRoom(c)})
  BY <1>2, MirrorFact DEF Rooms
<1> HIDE DEF rm
<1>4. Extends(rm, c) /\ OwnRooms(c) \ {OwnRoom(c)} \subseteq rm.connectionRooms[c]
  BY <1>3 DEF Extends
<1> QED
  BY <1>1, <1>3, <1>4, EvictStep

LEMMA RegistrationStep == ASSUME IInv, NEW c \in Conns, Registration(c) PROVE IInv'
<1>1. CASE handleConnection(c)
  BY <1>1, HandleConnectionStep
<1>2. CASE JoinsDone(c)
  BY <1>2, JoinsDoneStep
<1>3. CASE EvictionContinues(c)
  <2>1. registration[c] = "evicting" /\ UNCHANGED <<connectedAt, order, pending, shutdown>>
    BY <1>3 DEF EvictionContinues
  <2>2. CASE /\ victim[c] \in Held
             /\ unregisterSocket(victim[c], roomIndex, "REALTIME_TOO_MANY_CONNECTIONS")
             /\ At(c, "evictHook")
             /\ UNCHANGED <<link, ioRooms, leftMidway, victim, evicted>>
    BY <2>1, <2>2, DropStep
  <2>3. CASE evictBeyondLimit(c, roomIndex)
    BY <2>1, <2>3, LoopStep
  <2> QED
    BY <1>3, <2>2, <2>3 DEF EvictionContinues
<1>4. CASE EvictHookSettles(c)
  BY <1>4, LoopStep DEF EvictHookSettles
<1>5. CASE RegistrationFails(c)
  <2>1. registration[c] \in InProgress /\ registration[c] # "none"
    BY <1>5 DEF RegistrationFails, JoinThrows, EvictionThrows, HookRejects, InProgress
  <2> QED
    BY <1>5, <2>1, CloseStep DEF RegistrationFails
<1>6. CASE ConnectHookSettles(c)
  BY <1>6, SettleStep
<1> QED
  BY <1>1, <1>2, <1>3, <1>4, <1>5, <1>6 DEF Registration, RegistrationGoesOn

\* A connected socket closes, whoever closes it.
LEMMA SocketClosesStep ==
    ASSUME IInv, NEW c \in Conns, link[c] = "open", socketCloses(c, roomIndex),
           UNCHANGED <<connectedAt, order, callVars, pending, shutdown>>
    PROVE  IInv'
<1>1. socketDisconnect(c, roomIndex)
  BY DEF socketDisconnect
<1> QED
  BY <1>1, CloseStep DEF callVars

LEMMA ClientLeavesStep == ASSUME IInv, NEW c \in Conns, ClientLeaves(c) PROVE IInv'
<1>1. UNCHANGED <<connectedAt, order, callVars, pending, shutdown>>
  BY DEF ClientLeaves
<1>2. CASE link[c] = "open" /\ socketCloses(c, roomIndex)
  BY <1>1, <1>2, SocketClosesStep
<1>3. CASE /\ link[c] = "handshaking"
           /\ Goto(c, "gone")
           /\ UNCHANGED <<registry, roomIndex, ioRooms, reported, leftMidway>>
  <2> DEFINE next == "gone"
  <2>1. link' = [link EXCEPT ![c] = next] /\ next = "gone" /\ next \in {"handshaking", "open", "gone"}
    BY <1>3 DEF Goto
  <2> HIDE DEF next
  <2> QED
    BY <1>1, <1>3, <2>1, HandshakeStep DEF callVars
<1> QED
  BY <1>2, <1>3 DEF ClientLeaves

\* The flag of the shutdown is all that changes, or nothing.
LEMMA FlagStep ==
    ASSUME IInv, UNCHANGED <<closeVars, connectedAt, order, callVars, pending>>,
           shutdown' \in {"up", "shutting", "closed"}
    PROVE  IInv'
<1>1. UNCHANGED <<link, registry, roomIndex, ioRooms, reported, leftMidway, connectedAt, order,
                  registration, victim, evicted, pending>>
  BY DEF closeVars, callVars
<1>2. /\ TypeOK /\ ConnectionIndexesAgree(registry) /\ \A c \in Conns : Consistent(c)
  BY DEF IInv
<1>3. TypeOK'
  BY <1>1, <1>2 DEF TypeOK
<1>4. GoneStays /\ ConnectionIndexesAgree(registry)' /\ Held' = Held
  BY <1>1, <1>2 DEF GoneStays, Held
<1>5. SettledWithinCap'
  BY <1>1, <1>2, <1>4, CapKept DEF TypeOK, Held, ConnectionIndex
<1>6. ASSUME NEW c \in Conns PROVE Consistent(c)'
  <2>1. Same(c)
    BY <1>1, <1>4 DEF Same, Rooms
  <2> QED
    BY <1>2, <1>4, <2>1, Untouched
<1> QED
  BY <1>3, <1>4, <1>5, <1>6 DEF IInv

LEMMA InitInv == Init => IInv
<1> SUFFICES ASSUME Init PROVE IInv
  OBVIOUS
<1>1. TypeOK
  <2>1. registry \in ConnectionIndex /\ roomIndex \in RoomIndex
    BY DEF Init, NoConnections, ConnectionIndex, NoRooms, RoomIndex
  <2>2. /\ link \in [Conns -> {"off", "handshaking", "open", "gone"}]
        /\ registration \in [Conns -> {"none", "done", "failed"} \cup InProgress]
        /\ ioRooms \in [Conns -> SUBSET IoRooms]
        /\ connectedAt \in [Conns -> Nat] /\ order \in [Conns -> Nat]
        /\ victim \in [Conns -> Conns \cup {None}]
    BY DEF Init
  <2>3. pending \in [Conns -> Seq(Calls)] /\ reported \in [Conns -> Seq(Reasons)]
    BY DEF Init
  <2>4. shutdown \in {"up", "shutting", "closed"} /\ evicted \subseteq Conns /\ leftMidway \subseteq Conns
    BY DEF Init
  <2> QED
    BY <2>1, <2>2, <2>3, <2>4 DEF TypeOK
<1>2. ConnectionIndexesAgree(registry) /\ Held = {}
  BY DEF Init, NoConnections, ConnectionIndexesAgree, Held
<1>3. SettledWithinCap
  <2>1. \A u \in Users : Settled(u) = {}
    BY <1>2 DEF Settled
  <2> QED
    BY <2>1, FS_EmptySet, WsAssumption DEF SettledWithinCap
<1>4. ASSUME NEW c \in Conns PROVE Consistent(c)
  <2>1. /\ link[c] = "off" /\ registration[c] = "none" /\ ioRooms[c] = {} /\ order[c] = 0
        /\ pending[c] = <<>> /\ reported[c] = <<>> /\ Rooms(c) = {}
    BY DEF Init, NoRooms, Rooms
  <2>2. RegistrationConsistent(c)
    BY <1>2, <2>1 DEF RegistrationConsistent
  <2>3. RecordConsistent(c)
    BY <1>2, <2>1 DEF RecordConsistent
  <2>4. RoomsConsistent(c)
    BY <2>1 DEF RoomsConsistent
  <2> QED
    BY <2>2, <2>3, <2>4 DEF Consistent
<1> QED
  BY <1>1, <1>2, <1>3, <1>4 DEF IInv

LEMMA NextInv == IInv /\ [Next]_vars => IInv'
<1> SUFFICES ASSUME IInv, [Next]_vars PROVE IInv'
  OBVIOUS
<1>1. CASE beforeApplicationShutdown
  BY <1>1, FlagStep DEF beforeApplicationShutdown
<1>2. CASE ServerCloses
  BY <1>2, FlagStep DEF ServerCloses
<1>3. CASE UNCHANGED vars
  <2>1. UNCHANGED <<closeVars, connectedAt, order, callVars, pending>> /\ shutdown' = shutdown
    BY <1>3 DEF vars
  <2>2. shutdown \in {"up", "shutting", "closed"}
    BY DEF IInv, TypeOK
  <2> QED
    BY <2>1, <2>2, FlagStep
<1>4. ASSUME NEW c \in Conns, Connects(c) PROVE IInv'
  BY <1>4, ConnectsStep
<1>5. ASSUME NEW c \in Conns, NEW ok \in BOOLEAN, authenticateHandshake(c, ok) PROVE IInv'
  BY <1>5, AuthenticateStep
<1>6. ASSUME NEW c \in Conns, Registration(c) PROVE IInv'
  BY <1>6, RegistrationStep
<1>7. ASSUME NEW c \in Conns, RoomCallSettles(c) PROVE IInv'
  BY <1>7, RoomSettleStep
<1>8. ASSUME NEW c \in Conns, ClientLeaves(c) PROVE IInv'
  BY <1>8, ClientLeavesStep
<1>9. ASSUME NEW c \in Conns, disconnect(c) PROVE IInv'
  BY <1>9, SocketClosesStep DEF disconnect
<1>10. ASSUME NEW c \in Conns, ServerClosesSocket(c) PROVE IInv'
  BY <1>10, SocketClosesStep DEF ServerClosesSocket
<1>11. ASSUME NEW c \in Conns, NEW op \in {"join", "leave"}, NEW r \in AppRooms, RoomCall(c, op, r)
       PROVE  IInv'
  BY <1>11, RoomCallStep
<1> QED
  BY <1>1, <1>2, <1>3, <1>4, <1>5, <1>6, <1>7, <1>8, <1>9, <1>10, <1>11, SMT DEF Next

\* Every reachable state satisfies the invariant.
THEOREM Invariance == Spec => []IInv
<1>1. Init => IInv
  BY InitInv
<1>2. IInv /\ [Next]_vars => IInv'
  BY NextInv
<1> QED
  BY <1>1, <1>2, PTL DEF Spec

\* Open sockets, records and the calls of onDisconnect match (OpenSocketsAccounted,
\* RecordsHaveSockets, DisconnectHookOnce): no socket stays open without a record for
\* broadcasts to reach, and no record goes without its hook or with two.
THEOREM SocketsMatchRecords == Spec => []SocketsAccounted
<1>1. ASSUME IInv PROVE SocketsAccounted
  <2>1. TypeOK /\ Held \subseteq Conns
    BY <1>1 DEF IInv, TypeOK, Held, ConnectionIndex
  <2>2. ASSUME NEW c \in Conns PROVE RecordConsistent(c)
    BY <1>1 DEF IInv, Consistent
  <2>3. OpenSocketsAccounted
    BY <2>2 DEF RecordConsistent, OpenSocketsAccounted
  <2>4. RecordsHaveSockets
    BY <2>1, <2>2 DEF RecordConsistent, RecordsHaveSockets
  <2>5. DisconnectHookOnce
    BY <2>2 DEF RecordConsistent, DisconnectHookOnce
  <2> QED
    BY <2>1, <2>3, <2>4, <2>5 DEF SocketsAccounted
<1> QED
  BY <1>1, Invariance, PTL

\* However many registrations of one user run at once, the cap is exceeded only by the
\* records of those that have not left their eviction loop, and of those that failed after
\* their socket had closed (registerSocket, evictBeyondLimit, disconnect).
THEOREM CapNeverLost == Spec => []CapHolds
<1>1. ASSUME IInv, MaxPerUser > 0, NEW u \in Users
      PROVE  LET mine == byUser(registry, u)
             IN  Cardinality(mine) <=
                     MaxPerUser + Cardinality({c \in mine :
                         registration[c] \in {"joining", "evicting", "evictHook", "failed"}})
  <2> DEFINE mine == byUser(registry, u)
             others == {c \in mine : registration[c] \in {"joining", "evicting", "evictHook", "failed"}}
  <2>1. /\ mine = {c \in Held : UserOf[c] = u} /\ IsFiniteSet(mine) /\ IsFiniteSet(Settled(u))
        /\ Cardinality(Settled(u)) \in Nat /\ Cardinality(Settled(u)) <= MaxPerUser
        /\ Held \subseteq Conns
    BY <1>1, CountsFact DEF IInv, SettledWithinCap, TypeOK, Held, ConnectionIndex
  <2>2. mine = Settled(u) \cup others
    <3>1. \A c \in mine : c \in Conns /\ registration[c] \in {"joining", "evicting", "evictHook", "hooking", "done", "failed"}
      BY <1>1, <2>1 DEF IInv, TypeOK, InProgress, Consistent, RegistrationConsistent
    <3> QED
      BY <2>1, <3>1 DEF Settled
  <2>3. Settled(u) \cap others = {}
    BY DEF Settled
  <2>4. IsFiniteSet(others)
    BY <2>1, FS_Subset
  <2> HIDE DEF mine, others
  <2>5. /\ Cardinality(others) \in Nat
        /\ Cardinality(mine) = Cardinality(Settled(u)) + Cardinality(others)
    <3>1. Cardinality(Settled(u) \cup others) =
              Cardinality(Settled(u)) + Cardinality(others) - Cardinality(Settled(u) \cap others)
      BY <2>1, <2>4, FS_Union
    <3>2. Cardinality(others) \in Nat
      BY <2>4, FS_CardinalityType
    <3>3. Cardinality(Settled(u) \cap others) = 0
      BY <2>3, FS_EmptySet
    <3>4. Cardinality(mine) = Cardinality(Settled(u) \cup others)
      BY <2>2, Zenon
    <3> QED
      BY <2>1, <3>1, <3>2, <3>3, <3>4
  <2>6. Cardinality(mine) <= MaxPerUser + Cardinality(others)
    BY <2>1, <2>5, WsAssumption
  <2> QED
    BY <2>6 DEF mine, others
<1>2. IInv => CapHolds
  BY <1>1 DEF CapHolds
<1> QED
  BY <1>2, Invariance, PTL

\* Without a call under way the adapter and RoomRegistry agree about a socket, however joins,
\* leaves and the registration interleaved; a member that stays behind left midway.
THEOREM RoomIndexesMatch == Spec => []RoomsAccounted
<1>1. ASSUME IInv PROVE RoomsMirrored
  <2> SUFFICES ASSUME NEW c \in Conns, link[c] = "open", pending[c] = <<>>,
                      registration[c] \notin {"authenticating", "joining"}
               PROVE  Rooms(c) = ioRooms[c] \ {OwnRoom(c)}
    BY DEF RoomsMirrored, Rooms
  <2>1. RoomsConsistent(c)
    BY <1>1 DEF IInv, Consistent
  <2>2. /\ ioRooms[c] \ AppRooms = OwnRooms(c)
        /\ OwnRooms(c) \ {OwnRoom(c)} \subseteq Rooms(c)
        /\ Rooms(c) \subseteq AppRooms \cup (OwnRooms(c) \ {OwnRoom(c)})
    BY <2>1 DEF RoomsConsistent
  <2>3. \A r \in AppRooms : r \in ioRooms[c] <=> r \in Rooms(c)
    BY <2>1 DEF RoomsConsistent, RoomUnderWay
  <2>4. OwnRoom(c) \notin AppRooms /\ OwnRoom(c) \in OwnRooms(c)
    BY WsAssumption DEF OwnRooms
  <2>5. ASSUME NEW r PROVE r \in Rooms(c) <=> r \in ioRooms[c] \ {OwnRoom(c)}
    <3>1. CASE r \in AppRooms
      BY <2>3, <2>4, <3>1
    <3>2. CASE r \notin AppRooms
      BY <2>2, <3>2
    <3> QED
      BY <3>1, <3>2
  <2> QED
    BY <2>5
<1>2. ASSUME IInv PROVE RoomLeaksExplained
  BY <1>2 DEF IInv, Consistent, RecordConsistent, RoomLeaksExplained
<1>3. IInv => RoomsAccounted
  BY <1>1, <1>2 DEF RoomsAccounted
<1> QED
  BY <1>3, Invariance, PTL

\* The eviction loop takes the first of the user's connections, and never one too many.
LEMMA EvictsOldest ==
    ASSUME IInv, NEW c \in Conns, NEW rm \in RoomIndex, evictBeyondLimit(c, rm),
           NEW v \in evicted' \ evicted
    PROVE  LET left == byUser(registry', UserOf[v]) \ {v}
           IN  Cardinality(left) >= MaxPerUser /\ IsOldest(v, left)
<1> DEFINE mine == byUser(registry, UserOf[c])
           left == byUser(registry', UserOf[v]) \ {v}
<1>1. TypeOK /\ ConnectionIndexesAgree(registry) /\ UserOf[c] \in Users
  BY RegistriesAssumption DEF IInv
<1>2. /\ OverLimit(UserOf[c]) /\ v \in mine /\ IsOldest(v, mine)
      /\ socketDisconnect(v, rm)
  <2>1. CASE OverLimit(UserOf[c])
    BY <2>1 DEF evictBeyondLimit
  <2>2. CASE ~OverLimit(UserOf[c])
    <3>1. evicted' = evicted
      BY <2>2 DEF evictBeyondLimit
    <3> QED
      BY <3>1
  <2> QED
    BY <2>1, <2>2
<1>3. /\ mine = {d \in Held : UserOf[d] = UserOf[c]} /\ IsFiniteSet(mine)
      /\ v \in Conns /\ UserOf[v] = UserOf[c]
  BY <1>1, <1>2, CountsFact DEF TypeOK, ConnectionIndex, Held
<1>4. /\ registry' \in ConnectionIndex /\ ConnectionIndexesAgree(registry')
      /\ Held' = (IF link[v] = "open" THEN Held \ {v} ELSE Held)
  BY <1>1, <1>2, <1>3, ClosesFact
<1>5. left = mine \ {v}
  <2>1. byUser(registry', UserOf[v]) = {d \in Held' : UserOf[d] = UserOf[v]}
    BY <1>1, <1>3, <1>4, ByUserFact DEF Held
  <2> QED
    BY <1>3, <1>4, <2>1
<1>6. Cardinality(mine \ {v}) = Cardinality(mine) - 1 /\ Cardinality(mine) \in Nat
  BY <1>2, <1>3, FS_RemoveElement, FS_CardinalityType
<1>7. Cardinality(mine) > MaxPerUser
  BY <1>2 DEF OverLimit
<1>8. IsOldest(v, mine \ {v})
  BY <1>2 DEF IsOldest
<1> HIDE DEF mine
<1>9. Cardinality(mine \ {v}) >= MaxPerUser
  BY <1>6, <1>7, WsAssumption
<1> QED
  BY <1>5, <1>8, <1>9

\* Each eviction takes the user's first connection by timestamp and insertion, and leaves the
\* user at least the limit, whatever else is under way (evictBeyondLimit).
THEOREM EvictionsTakeTheOldest == Spec => EvictsOldestBeyondLimit
<1> DEFINE Takes == \A v \in evicted' \ evicted :
                        LET left == byUser(registry', UserOf[v]) \ {v}
                        IN  Cardinality(left) >= MaxPerUser /\ IsOldest(v, left)
<1>1. ASSUME IInv, [Next]_vars PROVE Takes \/ UNCHANGED vars
  <2> SUFFICES ASSUME evicted' # evicted PROVE Takes
    OBVIOUS
  <2>1. PICK c \in Conns : Registration(c)
    <3>1. ~UNCHANGED callVars
      BY DEF callVars
    <3>2. ~beforeApplicationShutdown /\ ~ServerCloses /\ ~UNCHANGED vars
      BY <3>1 DEF beforeApplicationShutdown, ServerCloses, vars
    <3>3. \A c \in Conns :
              /\ ~Connects(c) /\ \A ok \in BOOLEAN : ~authenticateHandshake(c, ok)
              /\ ~RoomCallSettles(c) /\ ~ClientLeaves(c) /\ ~disconnect(c) /\ ~ServerClosesSocket(c)
              /\ \A op \in {"join", "leave"}, r \in AppRooms : ~RoomCall(c, op, r)
      BY <3>1 DEF Connects, authenticateHandshake, RoomCallSettles, ClientLeaves, disconnect,
                  ServerClosesSocket, RoomCall
    <3> QED
      BY <1>1, <3>2, <3>3 DEF Next
  <2>2. PICK rm \in RoomIndex : evictBeyondLimit(c, rm)
    <3>1. roomIndex \in RoomIndex /\ mirrorOwnRooms(roomIndex, c) \in RoomIndex
      BY <1>1, MirrorFact DEF IInv, TypeOK
    <3>2. ~(UNCHANGED evicted)
      OBVIOUS
    <3>3. \/ evictBeyondLimit(c, roomIndex)
          \/ evictBeyondLimit(c, mirrorOwnRooms(roomIndex, c))
      BY <2>1, <3>2 DEF Registration, RegistrationGoesOn, handleConnection, JoinsDone,
                        EvictionContinues, EvictHookSettles, RegistrationFails, ConnectHookSettles
    <3> QED
      BY <3>1, <3>3
  <2> QED
    BY <1>1, <2>2, EvictsOldest
<1>2. IInv /\ [Next]_vars => [Takes]_vars
  BY <1>1
<1> QED
  BY <1>2, Invariance, PTL DEF Spec, EvictsOldestBeyondLimit

=============================================================================
