------------------------- MODULE SseLifecycleProofs -------------------------
(***************************************************************************)
(* IInv of SseLifecycle is inductive, for every set of connections, users, *)
(* tenants and rooms, every cap, every clock and every choice of hooks     *)
(* that throw; the safety properties the runs check follow from it.        *)
(*                                                                         *)
(* A step changes the registries through one of two operators: finalize /  *)
(* unregisterConnection (a record goes) and evictBeyondLimit (a record     *)
(* comes and another may go).  Each has a lemma that says what it leaves   *)
(* behind; the step lemmas below only add the phases.                      *)
(***************************************************************************)
EXTENDS SseLifecycle, FiniteSetTheorems, TLAPS

-----------------------------------------------------------------------------
(* What each operation of the two registries returns and preserves. *)

\* register adds one record, to the indexes of its user and tenant only, and the
\* indexes still agree (ConnectionRegistry.register).
LEMMA RegisterFact ==
    ASSUME NEW reg \in ConnectionIndex, NEW c \in Conns, ConnectionIndexesAgree(reg)
    PROVE  /\ register(reg, c) \in ConnectionIndex
           /\ ConnectionIndexesAgree(register(reg, c))
           /\ register(reg, c).byId = reg.byId \cup {c}
  BY RegistriesAssumption DEF register, ConnectionIndex, ConnectionIndexesAgree

\* unregister removes one record from every index (ConnectionRegistry.unregister).
LEMMA UnregisterFact ==
    ASSUME NEW reg \in ConnectionIndex, NEW c \in Conns, ConnectionIndexesAgree(reg)
    PROVE  /\ unregister(reg, c) \in ConnectionIndex
           /\ ConnectionIndexesAgree(unregister(reg, c))
           /\ unregister(reg, c).byId = reg.byId \ {c}
  BY RegistriesAssumption DEF unregister, ConnectionIndex, ConnectionIndexesAgree

\* With indexes that agree, byUser returns the held connections of the user.
LEMMA ByUserFact ==
    ASSUME NEW reg \in ConnectionIndex, ConnectionIndexesAgree(reg), NEW u \in Users
    PROVE  byUser(reg, u) = {c \in reg.byId : UserOf[c] = u}
  BY DEF byUser, ConnectionIndexesAgree, ConnectionIndex

\* join adds one membership to both indexes (RoomRegistry.join).
LEMMA JoinFact ==
    ASSUME NEW rm \in RoomIndex, NEW c \in Conns, NEW r \in AllRooms,
           RoomIndexesAgree(rm), NEW held, MembersWithin(rm, held)
    PROVE  /\ join(rm, c, r) \in RoomIndex
           /\ RoomIndexesAgree(join(rm, c, r))
           /\ MembersWithin(join(rm, c, r), held \cup {c})
  BY DEF join, RoomIndex, RoomIndexesAgree, MembersWithin

\* leave removes one membership from both indexes (RoomRegistry.leave).
LEMMA LeaveFact ==
    ASSUME NEW rm \in RoomIndex, NEW c \in Conns, NEW r \in AllRooms,
           RoomIndexesAgree(rm), NEW held, MembersWithin(rm, held)
    PROVE  /\ leave(rm, c, r) \in RoomIndex
           /\ RoomIndexesAgree(leave(rm, c, r))
           /\ MembersWithin(leave(rm, c, r), held)
  BY DEF leave, RoomIndex, RoomIndexesAgree, MembersWithin

\* leaveAll visits only the rooms the reverse index names, and yet leaves no
\* membership of the connection behind (RoomRegistry.leaveAll).
LEMMA LeaveAllFact ==
    ASSUME NEW rm \in RoomIndex, NEW c \in Conns, RoomIndexesAgree(rm),
           NEW held, MembersWithin(rm, held)
    PROVE  /\ leaveAll(rm, c) \in RoomIndex
           /\ RoomIndexesAgree(leaveAll(rm, c))
           /\ MembersWithin(leaveAll(rm, c), held \ {c})
  BY DEF leaveAll, RoomIndex, RoomIndexesAgree, MembersWithin

-----------------------------------------------------------------------------
(* The connections. *)

USE DEF shuttingDown, Held

\* The registries are well formed: the part of IInv the registry lemmas need.
Wellformed ==
    /\ registry \in ConnectionIndex
    /\ roomIndex \in RoomIndex
    /\ IndexesAgree
    /\ RoomMembersHeld

-----------------------------------------------------------------------------
(* The cap. *)

\* A set of connections is finite, and so are its parts.
LEMMA FiniteConns == ASSUME NEW S, S \subseteq Conns PROVE IsFiniteSet(S)
  BY FS_Subset, LifecycleAssumption

\* At most MaxPerUser records of one user, for a registry value.
Capped(reg) == MaxPerUser > 0 => \A u \in Users : Cardinality(byUser(reg, u)) <= MaxPerUser

\* A registry with fewer records is capped as well.
LEMMA CappedShrinks ==
    ASSUME NEW reg \in ConnectionIndex, ConnectionIndexesAgree(reg), Capped(reg),
           NEW less \in ConnectionIndex, ConnectionIndexesAgree(less),
           less.byId \subseteq reg.byId
    PROVE  Capped(less)
<1> SUFFICES ASSUME MaxPerUser > 0, NEW u \in Users
             PROVE  Cardinality(byUser(less, u)) <= MaxPerUser
  BY DEF Capped
<1>1. byUser(less, u) \subseteq byUser(reg, u)
  BY ByUserFact
<1>2. IsFiniteSet(byUser(reg, u)) /\ IsFiniteSet(byUser(less, u))
  BY ByUserFact, FiniteConns DEF ConnectionIndex
<1>3. Cardinality(byUser(less, u)) <= Cardinality(byUser(reg, u))
  BY <1>1, <1>2, FS_Subset
<1>4. Cardinality(byUser(reg, u)) <= MaxPerUser
  BY DEF Capped
<1>5. /\ Cardinality(byUser(less, u)) \in Nat
      /\ Cardinality(byUser(reg, u)) \in Nat
      /\ MaxPerUser \in Nat
  BY <1>2, FS_CardinalityType, LifecycleAssumption
<1> QED
  BY <1>3, <1>4, <1>5

\* Registering one connection and evicting one of its user's when that exceeds
\* the cap: the user is back at the cap, the others are untouched.
LEMMA RegisterThenEvict ==
    ASSUME NEW reg \in ConnectionIndex, ConnectionIndexesAgree(reg), Capped(reg),
           NEW c \in Conns, c \notin reg.byId
    PROVE  LET new == register(reg, c)
               u   == UserOf[c]
           IN  /\ ~OverLimit(new, u) => Capped(new)
               /\ OverLimit(new, u) => \A v \in byUser(new, u) :
                     /\ Capped(unregister(new, v))
                     /\ byUser(unregister(new, v), u) = byUser(new, u) \ {v}
                     /\ Cardinality(byUser(unregister(new, v), u)) = MaxPerUser
<1> DEFINE new == register(reg, c)
           u == UserOf[c]
<1>1. /\ new \in ConnectionIndex
      /\ ConnectionIndexesAgree(new)
      /\ new.byId = reg.byId \cup {c}
  BY RegisterFact
<1>2. u \in Users
  BY RegistriesAssumption
<1> HIDE DEF new
<1>3. byUser(new, u) = byUser(reg, u) \cup {c} /\ c \notin byUser(reg, u)
  BY <1>1, <1>2, ByUserFact
<1>4. ASSUME NEW w \in Users \ {u} PROVE byUser(new, w) = byUser(reg, w)
  <2>1. /\ byUser(new, w) = {d \in new.byId : UserOf[d] = w}
        /\ byUser(reg, w) = {d \in reg.byId : UserOf[d] = w}
    BY <1>1, ByUserFact
  <2> QED
    BY <1>1, <2>1
<1>5. IsFiniteSet(byUser(reg, u)) /\ IsFiniteSet(byUser(new, u))
  BY <1>1, <1>2, ByUserFact, FiniteConns DEF ConnectionIndex
<1>6. /\ Cardinality(byUser(reg, u)) \in Nat
      /\ Cardinality(byUser(new, u)) \in Nat
      /\ Cardinality(byUser(new, u)) = Cardinality(byUser(reg, u)) + 1
  BY <1>3, <1>5, FS_AddElement, FS_CardinalityType
<1>7. ASSUME ~OverLimit(new, u) PROVE Capped(new)
  BY <1>2, <1>4, <1>6, <1>7, LifecycleAssumption DEF OverLimit, Capped
<1>8. ASSUME OverLimit(new, u), NEW v \in byUser(new, u)
      PROVE  /\ Capped(unregister(new, v))
             /\ byUser(unregister(new, v), u) = byUser(new, u) \ {v}
             /\ Cardinality(byUser(unregister(new, v), u)) = MaxPerUser
  <2>1. v \in Conns /\ v \in new.byId /\ UserOf[v] = u
    BY <1>1, <1>2, ByUserFact DEF ConnectionIndex
  <2>2. /\ unregister(new, v) \in ConnectionIndex
        /\ ConnectionIndexesAgree(unregister(new, v))
        /\ unregister(new, v).byId = new.byId \ {v}
    BY <1>1, <2>1, UnregisterFact
  <2>3. byUser(unregister(new, v), u) = byUser(new, u) \ {v}
    BY <1>1, <1>2, <2>2, ByUserFact
  <2>4. ASSUME NEW w \in Users \ {u}
        PROVE  byUser(unregister(new, v), w) = byUser(reg, w)
    <3>1. /\ byUser(new, w) = {d \in new.byId : UserOf[d] = w}
          /\ byUser(unregister(new, v), w)
                = {d \in unregister(new, v).byId : UserOf[d] = w}
      BY <1>1, <2>2, ByUserFact
    <3> QED
      BY <1>4, <2>1, <2>2, <3>1
  <2>5. /\ Cardinality(byUser(new, u) \ {v}) = Cardinality(byUser(new, u)) - 1
        /\ Cardinality(byUser(new, u)) > MaxPerUser
        /\ MaxPerUser > 0
    BY <1>5, <1>8, FS_RemoveElement DEF OverLimit
  <2>6. Cardinality(byUser(reg, u)) <= MaxPerUser
    BY <1>2, <2>5 DEF Capped
  <2>7. Cardinality(byUser(unregister(new, v), u)) = MaxPerUser
    BY <1>6, <2>3, <2>5, <2>6, LifecycleAssumption
  <2>8. Capped(unregister(new, v))
    BY <1>2, <2>4, <2>7, LifecycleAssumption DEF Capped
  <2> QED
    BY <2>3, <2>7, <2>8
<1> QED
  BY <1>7, <1>8 DEF new

-----------------------------------------------------------------------------
(* What the shared operators leave behind. *)

\* What the registry lemmas need of IInv.
LEMMA InvWellformed == IInv => Wellformed /\ Capped(registry)
  BY DEF IInv, TypeOK, Wellformed, WithinLimit, Capped

\* The two registries are not touched.
LEMMA RegistriesKept ==
    ASSUME IInv, UNCHANGED registry, UNCHANGED roomIndex
    PROVE  Wellformed' /\ WithinLimit'
  BY DEF IInv, TypeOK, Wellformed, WithinLimit, IndexesAgree, RoomMembersHeld,
         ConnectionIndexesAgree, RoomIndexesAgree, MembersWithin

\* A record goes: of well-formed registries reg and rm, one connection is removed.
LEMMA Unregistered ==
    ASSUME NEW reg \in ConnectionIndex, ConnectionIndexesAgree(reg),
           NEW rm \in RoomIndex, RoomIndexesAgree(rm), MembersWithin(rm, reg.byId),
           NEW c \in Conns, NEW next, unregisterConnection(c, reg, rm, next)
    PROVE  Wellformed' /\ Held' = reg.byId \ {c}
<1>1. registry' = unregister(reg, c) /\ roomIndex' = leaveAll(rm, c)
  BY DEF unregisterConnection
<1>2. /\ registry' \in ConnectionIndex
      /\ ConnectionIndexesAgree(registry')
      /\ registry'.byId = reg.byId \ {c}
  BY <1>1, UnregisterFact
<1>3. /\ roomIndex' \in RoomIndex
      /\ RoomIndexesAgree(roomIndex')
      /\ MembersWithin(roomIndex', reg.byId \ {c})
  BY <1>1, LeaveAllFact
<1> QED
  BY <1>2, <1>3 DEF Wellformed, IndexesAgree, RoomMembersHeld

\* A record goes: the same, from a state that satisfies IInv.
LEMMA RecordGoes ==
    ASSUME IInv, NEW c \in Conns, NEW next,
           unregisterConnection(c, registry, roomIndex, next)
    PROVE  Wellformed' /\ WithinLimit' /\ Held' = Held \ {c}
<1>1. Wellformed /\ Capped(registry)
  BY InvWellformed
<1>2. Wellformed' /\ Held' = Held \ {c}
  BY <1>1, Unregistered DEF Wellformed, IndexesAgree, RoomMembersHeld
<1>3. Capped(registry')
  <2>1. /\ registry \in ConnectionIndex /\ ConnectionIndexesAgree(registry)
        /\ registry' \in ConnectionIndex /\ ConnectionIndexesAgree(registry')
        /\ registry'.byId \subseteq registry.byId
    BY <1>1, <1>2 DEF Wellformed, IndexesAgree
  <2> QED
    BY <1>1, <2>1, CappedShrinks
<1> QED
  BY <1>2, <1>3 DEF WithinLimit, Capped

\* The stream's end, or the undo of a late registration.
LEMMA Finalized ==
    ASSUME IInv, NEW c \in Conns, finalize(c)
    PROVE  /\ Wellformed' /\ WithinLimit' /\ Held' = Held \ {c}
           /\ timers' = timers \ {c}
           /\ c \in Held => /\ hook' = [hook EXCEPT ![c] = "detached"]
                            /\ disconnects' = [disconnects EXCEPT ![c] = @ + 1]
           /\ c \notin Held => hook' = hook /\ disconnects' = disconnects
<1>1. CASE c \in Held
  <2>1. unregisterConnection(c, registry, roomIndex, "detached")
    BY <1>1 DEF finalize
  <2>2. Wellformed' /\ WithinLimit' /\ Held' = Held \ {c}
    BY <2>1, RecordGoes
  <2> QED
    BY <1>1, <2>1, <2>2 DEF unregisterConnection
<1>2. CASE c \notin Held
  <2>1. timers' = timers \ {c} /\ UNCHANGED <<registry, roomIndex, hook, disconnects>>
    BY <1>2 DEF finalize
  <2>2. Wellformed' /\ WithinLimit'
    BY <2>1, RegistriesKept
  <2> QED
    BY <1>2, <2>1, <2>2
<1> QED
  BY <1>1, <1>2

-----------------------------------------------------------------------------
(* IInv, one action at a time. *)

\* The part of IInv that is about streams, hooks and the teardown.
Streams ==
    /\ TimersOnOpenStreams
    /\ DisconnectHookOnce
    /\ OpenStreamsAccounted
    /\ HeldStreamsOpen
    /\ TeardownLeavesNone
    /\ PhasesConsistent

\* The initial states satisfy the inductive invariant.
LEMMA InitInv == Init => IInv
<1> SUFFICES ASSUME Init PROVE IInv
  OBVIOUS
<1>1. Wellformed
  BY DEF Init, Wellformed, NoConnections, NoRooms, ConnectionIndex, RoomIndex,
         IndexesAgree, RoomMembersHeld, ConnectionIndexesAgree, RoomIndexesAgree,
         MembersWithin
<1>2. WithinLimit
  <2>1. \A u \in Users : byUser(registry, u) = {}
    BY DEF Init, NoConnections, byUser
  <2> QED
    BY <2>1, FS_EmptySet, LifecycleAssumption DEF WithinLimit
<1>3. TypeOK
  BY <1>1, LifecycleAssumption
     DEF Init, TypeOK, Wellformed, Phases, Handshaking, RegistrationStates, HookStates
<1>4. Streams
  BY DEF Init, Streams, NoConnections, TimersOnOpenStreams, DisconnectHookOnce,
         OpenStreamsAccounted, HeldStreamsOpen, TeardownLeavesNone, PhasesConsistent,
         Handshaking
<1> QED
  BY <1>1, <1>2, <1>3, <1>4 DEF IInv, Wellformed, Streams

\* Steps that only move a request along.
LEMMA HandshakeStep ==
    ASSUME IInv, NEW c \in Conns,
           \/ Arrive(c) \/ handle(c) \/ Abandon(c) \/ SubscribeLate(c)
           \/ \E ok \in BOOLEAN : AuthSettles(c, ok) \/ OpenStreamSettles(c, ok)
    PROVE  IInv'
<1>1. \E p \in Handshaking \cup {"closed", "refused"} :
        /\ phase[c] \in Handshaking
        /\ phase' = [phase EXCEPT ![c] = p]
        /\ UNCHANGED <<requestRest, heldVars, shutdownVars, connected>>
  BY DEF Arrive, handle, Abandon, SubscribeLate, AuthSettles, OpenStreamSettles,
         Goto, Handshaking
<1>2. Wellformed' /\ WithinLimit'
  BY <1>1, RegistriesKept DEF heldVars
<1>3. TypeOK'
  BY <1>1 DEF IInv, TypeOK, Phases, Handshaking, Ended, requestRest, heldVars, shutdownVars
<1>4. Streams'
  BY <1>1 DEF IInv, Streams, TypeOK, TimersOnOpenStreams, DisconnectHookOnce,
         OpenStreamsAccounted, HeldStreamsOpen, TeardownLeavesNone, PhasesConsistent,
         Handshaking, Phases, requestRest, heldVars, shutdownVars
<1> QED
  BY <1>2, <1>3, <1>4 DEF IInv, Wellformed, Streams

\* A record goes while the stream stays as it is: disconnectLocal.
LEMMA DisconnectStep ==
    ASSUME IInv, NEW c \in Conns, disconnectLocal(c)
    PROVE  IInv'
<1>1. /\ c \in Held
      /\ unregisterConnection(c, registry, roomIndex, "closing")
      /\ UNCHANGED <<requestVars, shutdownVars, connected>>
  BY DEF disconnectLocal
<1>2. Wellformed' /\ WithinLimit' /\ Held' = Held \ {c}
  BY <1>1, RecordGoes
<1>3. TypeOK'
  BY <1>1, <1>2 DEF IInv, TypeOK, Wellformed, DisconnectHookOnce, unregisterConnection,
         HookStates, requestVars, requestRest, shutdownVars
<1>4. Streams'
  BY <1>1, <1>2 DEF IInv, Streams, TypeOK, TimersOnOpenStreams, DisconnectHookOnce,
         OpenStreamsAccounted, HeldStreamsOpen, TeardownLeavesNone, PhasesConsistent,
         unregisterConnection, requestVars, requestRest, shutdownVars
<1> QED
  BY <1>2, <1>3, <1>4 DEF IInv, Wellformed, Streams

\* The teardown loop: the same, or a record that is gone already.
LEMMA TeardownStep ==
    ASSUME IInv, NEW c \in Conns, TeardownNext(c)
    PROVE  IInv'
<1>1. /\ shutdown = "tearing"
      /\ remaining' = remaining \ {c}
      /\ UNCHANGED <<requestVars, shutdown, passes, connected>>
  BY DEF TeardownNext
<1>2. CASE c \in Held
  <2>1. awaited' = c /\ unregisterConnection(c, registry, roomIndex, "closing")
    BY <1>2 DEF TeardownNext
  <2>2. Wellformed' /\ WithinLimit' /\ Held' = Held \ {c}
    BY <2>1, RecordGoes
  <2>3. TypeOK'
    BY <1>1, <1>2, <2>1, <2>2 DEF IInv, TypeOK, Wellformed, DisconnectHookOnce,
           unregisterConnection, HookStates, requestVars, requestRest
  <2>4. Streams'
    BY <1>1, <1>2, <2>1, <2>2 DEF IInv, Streams, TypeOK, TimersOnOpenStreams,
           DisconnectHookOnce, OpenStreamsAccounted, HeldStreamsOpen, TeardownLeavesNone,
           PhasesConsistent, unregisterConnection, requestVars, requestRest
  <2> QED
    BY <2>2, <2>3, <2>4 DEF IInv, Wellformed, Streams
<1>3. CASE c \notin Held
  <2>1. awaited' = None /\ UNCHANGED heldVars
    BY <1>3 DEF TeardownNext
  <2>2. Wellformed' /\ WithinLimit'
    BY <2>1, RegistriesKept DEF heldVars
  <2>3. TypeOK'
    BY <1>1, <2>1, <2>2 DEF IInv, TypeOK, heldVars, requestVars, requestRest
  <2>4. Streams'
    BY <1>1, <1>3, <2>1 DEF IInv, Streams, TypeOK, TimersOnOpenStreams,
           DisconnectHookOnce, OpenStreamsAccounted, HeldStreamsOpen, TeardownLeavesNone,
           PhasesConsistent, heldVars, requestVars, requestRest
  <2> QED
    BY <2>2, <2>3, <2>4 DEF IInv, Wellformed, Streams
<1> QED
  BY <1>2, <1>3

\* The stream's end: the client leaves, a late registration is undone, or a hook
\* that throws ends the stream.
LEMMA FinalizeStep ==
    ASSUME IInv, NEW c \in Conns,
           ClientCloses(c) \/ UndoRegistration(c) \/ ActivationThrows(c)
    PROVE  IInv'
<1>1. /\ finalize(c)
      /\ \/ ClientCloses(c)
         \/ UndoRegistration(c)
         \/ ActivationThrows(c)
  BY DEF ClientCloses, UndoRegistration, ActivationThrows
<1>2. /\ Wellformed' /\ WithinLimit' /\ Held' = Held \ {c}
      /\ timers' = timers \ {c}
      /\ c \in Held => /\ hook' = [hook EXCEPT ![c] = "detached"]
                       /\ disconnects' = [disconnects EXCEPT ![c] = @ + 1]
      /\ c \notin Held => hook' = hook /\ disconnects' = disconnects
  BY <1>1, Finalized
<1>3. /\ phase' = [phase EXCEPT ![c] = phase'[c]]
      /\ phase'[c] \in {"closed", "errored"}
      /\ registration' = [registration EXCEPT ![c] = registration'[c]]
      /\ registration[c] # "none"
      /\ registration'[c] = registration[c] \/ registration'[c] = "done"
      /\ registration[c] = "pending" => phase[c] = "open" \/ registration'[c] = "done"
      /\ connected' = connected
            \/ (connected' = connected \cup {c} /\ registration'[c] = "done")
      /\ UNCHANGED <<connectedAt, order, now, victim, shutdownVars>>
  BY <1>1 DEF ClientCloses, UndoRegistration, ActivationThrows, Activated, Goto,
         requestRest, IInv, TypeOK, PhasesConsistent, Phases, Ended, Handshaking
<1>4. TypeOK'
  BY <1>2, <1>3 DEF IInv, TypeOK, Wellformed, DisconnectHookOnce, HookStates,
         RegistrationStates, Phases, Ended, shutdownVars
<1>5. Streams'
  <2>1. TimersOnOpenStreams'
    BY <1>2, <1>3 DEF IInv, TypeOK, TimersOnOpenStreams,
           Handshaking, Ended, shutdownVars
  <2>2. DisconnectHookOnce'
    BY <1>2, <1>3 DEF IInv, TypeOK, DisconnectHookOnce,
           Handshaking, Ended, shutdownVars
  <2>3. OpenStreamsAccounted'
    BY <1>2, <1>3 DEF IInv, TypeOK, OpenStreamsAccounted, PhasesConsistent,
           Handshaking, Ended, shutdownVars
  <2>4. HeldStreamsOpen'
    BY <1>2, <1>3 DEF IInv, TypeOK, ConnectionIndex, HeldStreamsOpen, PhasesConsistent,
           Handshaking, Ended, shutdownVars
  <2>5. TeardownLeavesNone'
    BY <1>2, <1>3 DEF IInv, TypeOK, TeardownLeavesNone,
           Handshaking, Ended, shutdownVars
  <2>6. PhasesConsistent'
    <3>1. ASSUME NEW d \in Conns
          PROVE  /\ phase'[d] \in Handshaking \cup {"refused"} => registration'[d] = "none"
                 /\ registration'[d] = "none" => /\ d \notin Held'
                                                 /\ hook'[d] = "none"
                                                 /\ phase'[d] \notin {"open", "errored"}
                 /\ d \in Held' => hook'[d] = "none"
                 /\ registration'[d] \in {"none", "evicting", "pending"} => d \notin connected'
      <4>1. CASE d = c
        BY <1>2, <1>3, <4>1 DEF IInv, TypeOK, PhasesConsistent, Handshaking, Ended
      <4>2. CASE d # c
        BY <1>2, <1>3, <4>2 DEF IInv, TypeOK, PhasesConsistent
      <4> QED
        BY <4>1, <4>2
    <3> QED
      BY <1>3, <3>1 DEF IInv, PhasesConsistent, shutdownVars
  <2> QED
    BY <2>1, <2>2, <2>3, <2>4, <2>5, <2>6 DEF Streams
<1> QED
  BY <1>2, <1>4, <1>5 DEF IInv, Wellformed, Streams

\* onConnect and the keepalive; or onConnect and onError that both throw.
LEMMA ActivateStep ==
    ASSUME IInv, NEW c \in Conns, Activate(c) \/ ActivationThrowsTwice(c)
    PROVE  IInv'
<1>1. /\ registration[c] = "pending"
      /\ phase[c] = "open"
      /\ registration' = [registration EXCEPT ![c] = registration'[c]]
      /\ registration'[c] \in {"done", "failed"}
      /\ connected' \in {connected, connected \cup {c}}
      /\ timers' \in {timers, timers \cup {c}}
      /\ UNCHANGED <<phase, connectedAt, order, now, victim, registry, roomIndex,
                     hook, disconnects, shutdownVars>>
  BY DEF Activate, ActivationThrowsTwice, Activated, heldVars, IInv, TypeOK
<1>2. Wellformed' /\ WithinLimit'
  BY <1>1, RegistriesKept
<1>3. TypeOK'
  BY <1>1 DEF IInv, TypeOK, RegistrationStates, shutdownVars
<1>4. Streams'
  <2>1. TimersOnOpenStreams'
    BY <1>1 DEF IInv, TypeOK, TimersOnOpenStreams,
           Handshaking, Ended, shutdownVars
  <2>2. DisconnectHookOnce'
    BY <1>1 DEF IInv, TypeOK, DisconnectHookOnce,
           Handshaking, Ended, shutdownVars
  <2>3. OpenStreamsAccounted'
    BY <1>1 DEF IInv, TypeOK, OpenStreamsAccounted, PhasesConsistent,
           Handshaking, Ended, shutdownVars
  <2>4. HeldStreamsOpen'
    BY <1>1 DEF IInv, TypeOK, ConnectionIndex, HeldStreamsOpen, PhasesConsistent,
           Handshaking, Ended, shutdownVars
  <2>5. TeardownLeavesNone'
    BY <1>1 DEF IInv, TypeOK, TeardownLeavesNone,
           Handshaking, Ended, shutdownVars
  <2>6. PhasesConsistent'
    BY <1>1 DEF IInv, TypeOK, PhasesConsistent, OpenStreamsAccounted, DisconnectHookOnce,
           Handshaking, Ended, shutdownVars
  <2> QED
    BY <2>1, <2>2, <2>3, <2>4, <2>5, <2>6 DEF Streams
<1> QED
  BY <1>2, <1>3, <1>4 DEF IInv, Wellformed, Streams

\* A hook settles, and the disconnect that awaited it closes the stream.
LEMMA HookStep ==
    ASSUME IInv, NEW c \in Conns, HookSettles(c)
    PROVE  IInv'
<1>1. /\ hook[c] \in {"closing", "detached"}
      /\ hook' = [hook EXCEPT ![c] = "settled"]
      /\ IF hook[c] = "closing" /\ phase[c] = "open"
         THEN phase' = [phase EXCEPT ![c] = "closed"] /\ timers' = timers \ {c}
         ELSE UNCHANGED <<phase, timers>>
      /\ UNCHANGED <<requestRest, registry, roomIndex, disconnects, shutdownVars, connected>>
  BY DEF HookSettles, Goto
<1>2. Wellformed' /\ WithinLimit'
  BY <1>1, RegistriesKept
<1>3. TypeOK'
  BY <1>1 DEF IInv, TypeOK, HookStates, Phases, Ended, requestRest, shutdownVars
<1>4. Streams'
  <2>1. TimersOnOpenStreams'
    BY <1>1 DEF IInv, TypeOK, TimersOnOpenStreams,
           Handshaking, Ended, requestRest, shutdownVars
  <2>2. DisconnectHookOnce'
    BY <1>1 DEF IInv, TypeOK, DisconnectHookOnce,
           Handshaking, Ended, requestRest, shutdownVars
  <2>3. OpenStreamsAccounted'
    BY <1>1 DEF IInv, TypeOK, OpenStreamsAccounted, PhasesConsistent,
           Handshaking, Ended, requestRest, shutdownVars
  <2>4. HeldStreamsOpen'
    BY <1>1 DEF IInv, TypeOK, ConnectionIndex, HeldStreamsOpen, PhasesConsistent,
           Handshaking, Ended, requestRest, shutdownVars
  <2>5. TeardownLeavesNone'
    BY <1>1 DEF IInv, TypeOK, TeardownLeavesNone,
           Handshaking, Ended, requestRest, shutdownVars
  <2>6. PhasesConsistent'
    BY <1>1 DEF IInv, TypeOK, PhasesConsistent, OpenStreamsAccounted, DisconnectHookOnce,
           Handshaking, Ended, requestRest, shutdownVars
  <2> QED
    BY <2>1, <2>2, <2>3, <2>4, <2>5, <2>6 DEF Streams
<1> QED
  BY <1>2, <1>3, <1>4 DEF IInv, Wellformed, Streams

\* Steps that only touch timers or the teardown's bookkeeping.
LEMMA QuietStep ==
    ASSUME IInv,
           BeginTeardown \/ TeardownDone \/ \E c \in Conns : KeepaliveFails(c)
    PROVE  IInv'
<1>1. /\ timers' \subseteq timers
      /\ UNCHANGED <<requestVars, registry, roomIndex, hook, disconnects, connected>>
  BY DEF BeginTeardown, TeardownDone, KeepaliveFails, heldVars
<1>2. Wellformed' /\ WithinLimit'
  BY <1>1, RegistriesKept
<1>3. \/ /\ shutdown' = "tearing" /\ passes' = passes + 1 /\ remaining' = Held
         /\ awaited' = awaited
         /\ shutdown = "up" \/ (shutdown = "torn" /\ passes < 2)
      \/ /\ shutdown = "tearing" /\ remaining = {} /\ shutdown' = "torn"
         /\ awaited' = None /\ UNCHANGED <<remaining, passes>>
      \/ UNCHANGED shutdownVars
  BY DEF BeginTeardown, TeardownDone, KeepaliveFails, Teardowns
<1>4. TypeOK'
  BY <1>1, <1>2, <1>3 DEF IInv, TypeOK, Wellformed, ConnectionIndex, PhasesConsistent,
         requestVars, requestRest, shutdownVars
<1>5. Streams'
  BY <1>1, <1>3 DEF IInv, Streams, TypeOK, TimersOnOpenStreams, DisconnectHookOnce,
         OpenStreamsAccounted, HeldStreamsOpen, TeardownLeavesNone, PhasesConsistent,
         requestVars, requestRest, shutdownVars
<1> QED
  BY <1>2, <1>4, <1>5 DEF IInv, Wellformed, Streams

\* joinRoom and leaveRoom of a held connection.
LEMMA RoomStep ==
    ASSUME IInv, NEW c \in Conns, NEW r \in AppRooms, joinRoom(c, r) \/ leaveRoom(c, r)
    PROVE  IInv'
<1>1. /\ c \in Held
      /\ roomIndex' = join(roomIndex, c, r) \/ roomIndex' = leave(roomIndex, c, r)
      /\ UNCHANGED <<requestVars, registry, timers, hook, disconnects, shutdownVars, connected>>
  BY DEF joinRoom, leaveRoom, RoomsOnly
<1>2. Wellformed /\ r \in AllRooms
  BY InvWellformed DEF AllRooms
<1>3. /\ roomIndex' \in RoomIndex
      /\ RoomIndexesAgree(roomIndex')
      /\ MembersWithin(roomIndex', Held \cup {c}) \/ MembersWithin(roomIndex', Held)
  BY <1>1, <1>2, JoinFact, LeaveFact DEF Wellformed, IndexesAgree, RoomMembersHeld
<1>4. Held \cup {c} = Held
  BY <1>1
<1>5. Wellformed'
  BY <1>1, <1>2, <1>3, <1>4 DEF Wellformed, IndexesAgree, RoomMembersHeld
<1>6. WithinLimit'
  BY <1>1 DEF IInv, WithinLimit
<1>7. TypeOK'
  BY <1>1, <1>3 DEF IInv, TypeOK, requestVars, requestRest, shutdownVars
<1>8. Streams'
  BY <1>1 DEF IInv, Streams, TimersOnOpenStreams, DisconnectHookOnce,
         OpenStreamsAccounted, HeldStreamsOpen, TeardownLeavesNone, PhasesConsistent,
         requestVars, requestRest, shutdownVars
<1> QED
  BY <1>5, <1>6, <1>7, <1>8 DEF IInv, Wellformed, Streams

\* Registration: either the user is over the cap and one of its records is
\* evicted, or the registration goes on.  Here reg and rm are the registries the
\* loop looks at, with the facts the callers establish.
LEMMA EvictFact ==
    ASSUME NEW c \in Conns,
           NEW reg \in ConnectionIndex, ConnectionIndexesAgree(reg),
           NEW rm \in RoomIndex, RoomIndexesAgree(rm), MembersWithin(rm, reg.byId),
           ~OverLimit(reg, UserOf[c]) => Capped(reg),
           \A v \in byUser(reg, UserOf[c]) :
               OverLimit(reg, UserOf[c]) => Capped(unregister(reg, v)),
           evictBeyondLimit(c, reg, rm)
    PROVE  /\ Wellformed' /\ WithinLimit'
           /\ \/ /\ Held' = reg.byId
                 /\ victim' = [victim EXCEPT ![c] = None]
                 /\ registration' = [registration EXCEPT ![c] = "pending"]
                 /\ UNCHANGED <<timers, hook, disconnects>>
              \/ \E v \in reg.byId :
                 /\ Held' = reg.byId \ {v}
                 /\ victim' = [victim EXCEPT ![c] = v]
                 /\ registration' = [registration EXCEPT ![c] = "evicting"]
                 /\ timers' = timers \ {v}
                 /\ hook' = [hook EXCEPT ![v] = "closing"]
                 /\ disconnects' = [disconnects EXCEPT ![v] = @ + 1]
<1>1. CASE ~OverLimit(reg, UserOf[c])
  <2>1. /\ registry' = reg
        /\ roomIndex' = rm
        /\ victim' = [victim EXCEPT ![c] = None]
        /\ registration' = [registration EXCEPT ![c] = "pending"]
        /\ UNCHANGED <<timers, hook, disconnects>>
    BY <1>1 DEF evictBeyondLimit
  <2>2. Wellformed'
    BY <2>1 DEF Wellformed, IndexesAgree, RoomMembersHeld
  <2>3. WithinLimit'
    BY <1>1, <2>1 DEF WithinLimit, Capped
  <2> QED
    BY <2>1, <2>2, <2>3
<1>2. CASE OverLimit(reg, UserOf[c])
  <2>1. PICK v \in byUser(reg, UserOf[c]) :
           /\ unregisterConnection(v, reg, rm, "closing")
           /\ victim' = [victim EXCEPT ![c] = v]
           /\ registration' = [registration EXCEPT ![c] = "evicting"]
    BY <1>2 DEF evictBeyondLimit
  <2>2. v \in reg.byId /\ v \in Conns
    BY DEF byUser, ConnectionIndex
  <2>3. Wellformed' /\ Held' = reg.byId \ {v}
    BY <2>1, <2>2, Unregistered
  <2>4. /\ registry' = unregister(reg, v)
        /\ timers' = timers \ {v}
        /\ hook' = [hook EXCEPT ![v] = "closing"]
        /\ disconnects' = [disconnects EXCEPT ![v] = @ + 1]
    BY <2>1 DEF unregisterConnection
  <2>5. WithinLimit'
    BY <1>2, <2>4 DEF WithinLimit, Capped
  <2> QED
    BY <2>1, <2>2, <2>3, <2>4, <2>5
<1> QED
  BY <1>1, <1>2

\* A connection joins its own rooms, and only those (registerConnection).
LEMMA OwnRooms ==
    ASSUME NEW rm \in RoomIndex, NEW c \in Conns, RoomIndexesAgree(rm),
           NEW held, MembersWithin(rm, held)
    PROVE  /\ joinOwnRooms(rm, c) \in RoomIndex
           /\ RoomIndexesAgree(joinOwnRooms(rm, c))
           /\ MembersWithin(joinOwnRooms(rm, c), held \cup {c})
<1> DEFINE userRoom == composeRoomId("USER", UserOf[c])
           tenantRoom == composeRoomId("TENANT", TenantOf[c])
           withUser == join(rm, c, userRoom)
<1>1. /\ userRoom \in AllRooms
      /\ TenantOf[c] # NoTenant => tenantRoom \in AllRooms
  BY RegistriesAssumption DEF AllRooms, composeRoomId
<1>2. /\ withUser \in RoomIndex
      /\ RoomIndexesAgree(withUser)
      /\ MembersWithin(withUser, held \cup {c})
  BY <1>1, JoinFact
<1>3. CASE TenantOf[c] = NoTenant
  BY <1>2, <1>3 DEF joinOwnRooms
<1>4. CASE TenantOf[c] # NoTenant
  <2> HIDE DEF withUser, tenantRoom
  <2>1. /\ join(withUser, c, tenantRoom) \in RoomIndex
        /\ RoomIndexesAgree(join(withUser, c, tenantRoom))
        /\ MembersWithin(join(withUser, c, tenantRoom), (held \cup {c}) \cup {c})
    BY <1>1, <1>2, <1>4, JoinFact
  <2>2. (held \cup {c}) \cup {c} = held \cup {c}
    OBVIOUS
  <2> QED
    BY <1>4, <2>1, <2>2 DEF joinOwnRooms, withUser, tenantRoom
<1> QED
  BY <1>3, <1>4

\* The registries as a new registration leaves them, before the cap is looked at.
LEMMA Registering ==
    ASSUME IInv, NEW c \in Conns, phase[c] = "returned"
    PROVE  LET reg == register(registry, c)
               rm  == joinOwnRooms(roomIndex, c)
           IN  /\ c \notin Held
               /\ reg \in ConnectionIndex /\ ConnectionIndexesAgree(reg)
               /\ reg.byId = Held \cup {c}
               /\ rm \in RoomIndex /\ RoomIndexesAgree(rm) /\ MembersWithin(rm, reg.byId)
               /\ ~OverLimit(reg, UserOf[c]) => Capped(reg)
               /\ OverLimit(reg, UserOf[c]) => \A v \in byUser(reg, UserOf[c]) :
                     /\ Capped(unregister(reg, v))
                     /\ byUser(unregister(reg, v), UserOf[c]) = byUser(reg, UserOf[c]) \ {v}
                     /\ Cardinality(byUser(unregister(reg, v), UserOf[c])) = MaxPerUser
<1>1. Wellformed /\ Capped(registry)
  BY InvWellformed
<1>2. c \notin Held
  BY DEF IInv, PhasesConsistent, Handshaking
<1>3. /\ register(registry, c) \in ConnectionIndex
      /\ ConnectionIndexesAgree(register(registry, c))
      /\ register(registry, c).byId = Held \cup {c}
  BY <1>1, RegisterFact DEF Wellformed, IndexesAgree
<1>4. /\ joinOwnRooms(roomIndex, c) \in RoomIndex
      /\ RoomIndexesAgree(joinOwnRooms(roomIndex, c))
      /\ MembersWithin(joinOwnRooms(roomIndex, c), Held \cup {c})
  BY <1>1, OwnRooms DEF Wellformed, IndexesAgree, RoomMembersHeld
<1>5. ConnectionIndexesAgree(registry) /\ registry \in ConnectionIndex
  BY <1>1 DEF Wellformed, IndexesAgree
<1>6. /\ ~OverLimit(register(registry, c), UserOf[c]) => Capped(register(registry, c))
      /\ OverLimit(register(registry, c), UserOf[c]) =>
            \A v \in byUser(register(registry, c), UserOf[c]) :
               /\ Capped(unregister(register(registry, c), v))
               /\ byUser(unregister(register(registry, c), v), UserOf[c])
                    = byUser(register(registry, c), UserOf[c]) \ {v}
               /\ Cardinality(byUser(unregister(register(registry, c), v), UserOf[c]))
                    = MaxPerUser
  BY <1>1, <1>2, <1>5, RegisterThenEvict
<1> QED
  BY <1>2, <1>3, <1>4, <1>6

\* What both registration steps leave: a record less (or none), a stream more.
LEMMA SubscribeStep ==
    ASSUME IInv, NEW c \in Conns, NEW stillOpen \in BOOLEAN, Subscribe(c, stillOpen)
    PROVE  IInv'
<1> DEFINE reg == register(registry, c)
           rm == joinOwnRooms(roomIndex, c)
<1>1. /\ phase[c] = "returned"
      /\ shutdown = "up"
      /\ phase' = [phase EXCEPT ![c] = IF stillOpen THEN "open" ELSE "closed"]
      /\ Timestamp(c)
      /\ evictBeyondLimit(c, reg, rm)
      /\ UNCHANGED <<shutdownVars, connected>>
  BY DEF Subscribe, Goto
<1>2. /\ c \notin Held
      /\ reg \in ConnectionIndex /\ ConnectionIndexesAgree(reg)
      /\ reg.byId = Held \cup {c}
      /\ rm \in RoomIndex /\ RoomIndexesAgree(rm) /\ MembersWithin(rm, reg.byId)
      /\ ~OverLimit(reg, UserOf[c]) => Capped(reg)
      /\ \A v \in byUser(reg, UserOf[c]) :
            OverLimit(reg, UserOf[c]) => Capped(unregister(reg, v))
  BY <1>1, Registering
<1> HIDE DEF reg, rm
<1>3. Wellformed' /\ WithinLimit'
  BY <1>1, <1>2, EvictFact
<1>4. \/ /\ Held' = Held \cup {c}
         /\ victim' = [victim EXCEPT ![c] = None]
         /\ registration' = [registration EXCEPT ![c] = "pending"]
         /\ UNCHANGED <<timers, hook, disconnects>>
      \/ \E v \in Held \cup {c} :
         /\ Held' = (Held \cup {c}) \ {v}
         /\ victim' = [victim EXCEPT ![c] = v]
         /\ registration' = [registration EXCEPT ![c] = "evicting"]
         /\ timers' = timers \ {v}
         /\ hook' = [hook EXCEPT ![v] = "closing"]
         /\ disconnects' = [disconnects EXCEPT ![v] = @ + 1]
  <2>1. \/ /\ Held' = reg.byId
           /\ victim' = [victim EXCEPT ![c] = None]
           /\ registration' = [registration EXCEPT ![c] = "pending"]
           /\ UNCHANGED <<timers, hook, disconnects>>
        \/ \E v \in reg.byId :
           /\ Held' = reg.byId \ {v}
           /\ victim' = [victim EXCEPT ![c] = v]
           /\ registration' = [registration EXCEPT ![c] = "evicting"]
           /\ timers' = timers \ {v}
           /\ hook' = [hook EXCEPT ![v] = "closing"]
           /\ disconnects' = [disconnects EXCEPT ![v] = @ + 1]
    BY <1>1, <1>2, EvictFact
  <2> QED
    BY <1>2, <2>1
<1>5. \E t \in Nat, n \in Nat : /\ now' = t
                                /\ connectedAt' = [connectedAt EXCEPT ![c] = t]
                                /\ order' = [order EXCEPT ![c] = n]
  <2>1. PICK t \in Stamps :
           /\ now' = t
           /\ connectedAt' = [connectedAt EXCEPT ![c] = t]
           /\ order' = [order EXCEPT ![c] = 1 + Cardinality({d \in Conns : order[d] > 0})]
    BY <1>1 DEF Timestamp
  <2> DEFINE n == 1 + Cardinality({d \in Conns : order[d] > 0})
  <2>2. IsFiniteSet({d \in Conns : order[d] > 0})
    BY FiniteConns
  <2>3. Cardinality({d \in Conns : order[d] > 0}) \in Nat
    BY <2>2, FS_CardinalityType
  <2>4. n \in Nat
    BY <2>3
  <2>5. t \in Nat
    BY LifecycleAssumption
  <2> HIDE DEF n
  <2>6. order' = [order EXCEPT ![c] = n]
    BY <2>1 DEF n
  <2> QED
    BY <2>1, <2>4, <2>5, <2>6
<1>6. /\ Held \subseteq Conns
      /\ registration[c] = "none" /\ hook[c] = "none" /\ disconnects[c] = 0
      /\ c \notin connected /\ c \notin timers
      /\ passes = 0
  BY <1>1, <1>2 DEF IInv, TypeOK, ConnectionIndex, PhasesConsistent, DisconnectHookOnce,
         TimersOnOpenStreams, Handshaking
<1>7. TypeOK'
  BY <1>1, <1>3, <1>4, <1>5, <1>6 DEF IInv, TypeOK, Wellformed, DisconnectHookOnce,
         HookStates, RegistrationStates, Phases, Ended, shutdownVars
<1>8. Streams'
  <2>1. TimersOnOpenStreams'
    BY <1>1, <1>4, <1>6 DEF IInv, TypeOK, TimersOnOpenStreams
  <2>2. DisconnectHookOnce'
    BY <1>1, <1>2, <1>4, <1>6 DEF IInv, TypeOK, DisconnectHookOnce, PhasesConsistent
  <2>3. OpenStreamsAccounted'
    BY <1>1, <1>2, <1>4, <1>6 DEF IInv, TypeOK, OpenStreamsAccounted, PhasesConsistent
  <2>4. HeldStreamsOpen'
    BY <1>1, <1>2, <1>4, <1>6 DEF IInv, TypeOK, HeldStreamsOpen, PhasesConsistent
  <2>5. TeardownLeavesNone'
    BY <1>1, <1>6 DEF TeardownLeavesNone, shutdownVars
  <2>6. PhasesConsistent'
    BY <1>1, <1>2, <1>4, <1>6 DEF IInv, TypeOK, PhasesConsistent, Handshaking, shutdownVars
  <2> QED
    BY <2>1, <2>2, <2>3, <2>4, <2>5, <2>6 DEF Streams
<1> QED
  BY <1>3, <1>7, <1>8 DEF IInv, Wellformed, Streams

\* The eviction loop goes on after an await.
LEMMA EvictionStep ==
    ASSUME IInv, NEW c \in Conns, EvictionSettles(c)
    PROVE  IInv'
<1>1. /\ registration[c] = "evicting"
      /\ evictBeyondLimit(c, registry, roomIndex)
      /\ UNCHANGED <<connectedAt, order, now, phase, shutdownVars, connected>>
  BY DEF EvictionSettles
<1>2. Wellformed /\ Capped(registry)
  BY InvWellformed
<1>3. ASSUME NEW v \in byUser(registry, UserOf[c])
      PROVE  Capped(unregister(registry, v))
  <2>1. v \in Conns
    BY <1>2 DEF byUser, Wellformed, ConnectionIndex
  <2>2. /\ registry \in ConnectionIndex /\ ConnectionIndexesAgree(registry)
        /\ unregister(registry, v) \in ConnectionIndex
        /\ ConnectionIndexesAgree(unregister(registry, v))
        /\ unregister(registry, v).byId \subseteq registry.byId
    BY <1>2, <2>1, UnregisterFact DEF Wellformed, IndexesAgree
  <2> QED
    BY <1>2, <2>2, CappedShrinks
<1>4. /\ registry \in ConnectionIndex /\ ConnectionIndexesAgree(registry)
      /\ roomIndex \in RoomIndex /\ RoomIndexesAgree(roomIndex)
      /\ MembersWithin(roomIndex, registry.byId)
  BY <1>2 DEF Wellformed, IndexesAgree, RoomMembersHeld
<1>5. /\ Wellformed' /\ WithinLimit'
      /\ \/ /\ Held' = Held
            /\ victim' = [victim EXCEPT ![c] = None]
            /\ registration' = [registration EXCEPT ![c] = "pending"]
            /\ UNCHANGED <<timers, hook, disconnects>>
         \/ \E v \in Held :
            /\ Held' = Held \ {v}
            /\ victim' = [victim EXCEPT ![c] = v]
            /\ registration' = [registration EXCEPT ![c] = "evicting"]
            /\ timers' = timers \ {v}
            /\ hook' = [hook EXCEPT ![v] = "closing"]
            /\ disconnects' = [disconnects EXCEPT ![v] = @ + 1]
  BY <1>1, <1>2, <1>3, <1>4, EvictFact
<1>6. Held \subseteq Conns
  BY <1>2 DEF Wellformed, ConnectionIndex
<1>7. TypeOK'
  BY <1>1, <1>5, <1>6 DEF IInv, TypeOK, Wellformed, DisconnectHookOnce,
         HookStates, RegistrationStates, shutdownVars
<1>8. Streams'
  <2>1. TimersOnOpenStreams'
    BY <1>1, <1>5, <1>6 DEF IInv, TypeOK, TimersOnOpenStreams
  <2>2. DisconnectHookOnce'
    BY <1>1, <1>5, <1>6 DEF IInv, TypeOK, DisconnectHookOnce, PhasesConsistent
  <2>3. OpenStreamsAccounted'
    BY <1>1, <1>5, <1>6 DEF IInv, TypeOK, OpenStreamsAccounted, PhasesConsistent
  <2>4. HeldStreamsOpen'
    BY <1>1, <1>5, <1>6 DEF IInv, TypeOK, HeldStreamsOpen, PhasesConsistent
  <2>5. TeardownLeavesNone'
    BY <1>1, <1>5 DEF IInv, TeardownLeavesNone, shutdownVars
  <2>6. PhasesConsistent'
    BY <1>1, <1>5, <1>6 DEF IInv, TypeOK, PhasesConsistent, Handshaking, shutdownVars
  <2> QED
    BY <2>1, <2>2, <2>3, <2>4, <2>5, <2>6 DEF Streams
<1> QED
  BY <1>5, <1>7, <1>8 DEF IInv, Wellformed, Streams

\* A stuttering step.
LEMMA StutterStep == ASSUME IInv, UNCHANGED vars PROVE IInv'
<1>1. UNCHANGED <<phase, registration, connectedAt, order, now, victim, registry, roomIndex,
                  timers, hook, disconnects, shutdown, remaining, awaited, passes, connected>>
  BY DEF vars, requestVars, requestRest, heldVars, shutdownVars
<1>2. Wellformed' /\ WithinLimit'
  BY <1>1, RegistriesKept
<1>3. TypeOK'
  BY <1>1 DEF IInv, TypeOK
<1>4. Streams'
  BY <1>1 DEF IInv, Streams, TimersOnOpenStreams, DisconnectHookOnce,
         OpenStreamsAccounted, HeldStreamsOpen, TeardownLeavesNone, PhasesConsistent
<1> QED
  BY <1>2, <1>3, <1>4 DEF IInv, Wellformed, Streams

\* Every step preserves the inductive invariant.
LEMMA NextInv == IInv /\ [Next]_vars => IInv'
<1> SUFFICES ASSUME IInv, [Next]_vars PROVE IInv'
  OBVIOUS
<1>1. CASE UNCHANGED vars
  BY <1>1, StutterStep
<1>2. CASE BeginTeardown \/ TeardownDone
  BY <1>2, QuietStep
<1>3. ASSUME NEW c \in Conns, Handshake(c) PROVE IInv'
  <2>1. CASE \E stillOpen \in BOOLEAN : Subscribe(c, stillOpen)
    BY <2>1, SubscribeStep
  <2>2. CASE \/ Arrive(c) \/ handle(c) \/ Abandon(c) \/ SubscribeLate(c)
             \/ \E ok \in BOOLEAN : AuthSettles(c, ok) \/ OpenStreamSettles(c, ok)
    BY <2>2, HandshakeStep
  <2> QED
    BY <1>3, <2>1, <2>2 DEF Handshake
<1>4. ASSUME NEW c \in Conns, OnRegistered(c) PROVE IInv'
  BY <1>4, FinalizeStep, ActivateStep DEF OnRegistered
<1>5. ASSUME NEW c \in Conns, EvictionSettles(c) PROVE IInv'
  BY <1>5, EvictionStep
<1>6. ASSUME NEW c \in Conns, HookSettles(c) PROVE IInv'
  BY <1>6, HookStep
<1>7. ASSUME NEW c \in Conns, disconnectLocal(c) PROVE IInv'
  BY <1>7, DisconnectStep
<1>8. ASSUME NEW c \in Conns, ClientCloses(c) PROVE IInv'
  BY <1>8, FinalizeStep
<1>9. ASSUME NEW c \in Conns, KeepaliveFails(c) PROVE IInv'
  BY <1>9, QuietStep
<1>10. ASSUME NEW c \in Conns, TeardownNext(c) PROVE IInv'
  BY <1>10, TeardownStep
<1>11. ASSUME NEW c \in Conns, NEW r \in AppRooms, joinRoom(c, r) \/ leaveRoom(c, r)
       PROVE  IInv'
  BY <1>11, RoomStep
<1> QED
  BY <1>1, <1>2, <1>3, <1>4, <1>5, <1>6, <1>7, <1>8, <1>9, <1>10, <1>11 DEF Next

\* The inductive invariant: nothing the instance does, in any interleaving of its
\* handlers, breaks the agreement of registries, streams, timers and hooks.
THEOREM Invariance == Spec => []IInv
<1>1. Init => IInv
  BY InitInv
<1>2. IInv /\ [Next]_vars => IInv'
  BY NextInv
<1> QED
  BY <1>1, <1>2, PTL DEF Spec

-----------------------------------------------------------------------------
(* The safety properties of the runs, for every instance. *)

\* The cap holds at every moment, however many registrations are under way.
THEOREM CapHolds == Spec => []WithinLimit
<1>1. IInv => WithinLimit
  BY DEF IInv
<1> QED
  BY <1>1, Invariance, PTL

\* No open stream is lost, and no record outlives its stream for good.
THEOREM NoStreamForgotten == Spec => [](OpenStreamsAccounted /\ HeldStreamsOpen)
<1>1. IInv => OpenStreamsAccounted /\ HeldStreamsOpen
  BY DEF IInv
<1> QED
  BY <1>1, Invariance, PTL

\* onDisconnect is called exactly once for each registered connection.
THEOREM HookExactlyOnce == Spec => []DisconnectHookOnce
<1>1. IInv => DisconnectHookOnce
  BY DEF IInv
<1> QED
  BY <1>1, Invariance, PTL

\* Every variable keeps its type, onDisconnect is never called twice, and
\* keepalives are only written to open streams (finalize).
THEOREM TimersSafe == Spec => []TimersAccounted
<1>1. IInv => TimersAccounted
  BY DEF IInv, TimersAccounted
<1> QED
  BY <1>1, Invariance, PTL

\* Rooms only hold connections of the instance, and both registries' indexes agree.
THEOREM RoomsClean == Spec => [](IndexesAgree /\ RoomMembersHeld)
<1>1. IInv => IndexesAgree /\ RoomMembersHeld
  BY DEF IInv
<1> QED
  BY <1>1, Invariance, PTL

\* The teardown leaves no record, and the second one finds nothing to close.
THEOREM TeardownComplete == Spec => []TeardownLeavesNone
<1>1. IInv => TeardownLeavesNone
  BY DEF IInv
<1> QED
  BY <1>1, Invariance, PTL

-----------------------------------------------------------------------------
(* The action properties. *)

\* A registration starts evicting only in the step that subscribes its stream.
LEMMA EvictsMeansSubscribe ==
    ASSUME IInv, [Next]_vars, NEW c \in Conns, Evicts(c)
    PROVE  \E stillOpen \in BOOLEAN : Subscribe(c, stillOpen)
<1>1. registration[c] # "evicting" /\ registration'[c] = "evicting"
  BY DEF Evicts
<1>2. registration \in [Conns -> RegistrationStates]
  BY DEF IInv, TypeOK
<1>3. ASSUME NEW d \in Conns, OnRegistered(d) PROVE FALSE
  <2>1. registration' = [registration EXCEPT ![d] = "done"]
           \/ registration' = [registration EXCEPT ![d] = "failed"]
    BY <1>3 DEF OnRegistered, UndoRegistration, Activate, ActivationThrows,
           ActivationThrowsTwice, Activated
  <2> QED
    BY <1>1, <1>2, <2>1
<1>4. ASSUME NEW d \in Conns, EvictionSettles(d) PROVE FALSE
  <2>1. /\ registration[d] = "evicting"
        /\ \/ registration' = [registration EXCEPT ![d] = "evicting"]
           \/ registration' = [registration EXCEPT ![d] = "pending"]
    BY <1>4 DEF EvictionSettles, evictBeyondLimit
  <2> QED
    BY <1>1, <1>2, <2>1
<1>5. ASSUME NEW d \in Conns, NEW ok \in BOOLEAN, Subscribe(d, ok) PROVE d = c
  <2>1. \/ registration' = [registration EXCEPT ![d] = "evicting"]
        \/ registration' = [registration EXCEPT ![d] = "pending"]
    BY <1>5 DEF Subscribe, evictBeyondLimit
  <2> QED
    BY <1>1, <1>2, <2>1
<1>6. registration' # registration
  BY <1>1
<1>7. ASSUME NEW d \in Conns, Handshake(d)
      PROVE  \E ok \in BOOLEAN : Subscribe(d, ok)
  BY <1>6, <1>7 DEF Handshake, Arrive, handle, Abandon, SubscribeLate, AuthSettles,
         OpenStreamSettles, requestRest
<1>8. \E d \in Conns : Handshake(d) \/ OnRegistered(d) \/ EvictionSettles(d)
  BY <1>6 DEF Next, vars, requestVars, requestRest, HookSettles, disconnectLocal,
         ClientCloses, KeepaliveFails, TeardownNext, joinRoom, leaveRoom, RoomsOnly,
         BeginTeardown, TeardownDone
<1> QED
  BY <1>3, <1>4, <1>5, <1>7, <1>8

\* An eviction takes the oldest and leaves its user exactly at the cap.
THEOREM EvictionExact == Spec => EvictsOldestDownToLimit
<1> DEFINE Exact(c) ==
        LET left == byUser(registry', UserOf[c])
        IN  /\ Cardinality(left) = MaxPerUser
            /\ IsOldest(victim'[c], left, connectedAt', order')
<1>1. ASSUME IInv, [Next]_vars, NEW c \in Conns, Evicts(c) PROVE Exact(c)
  <2>1. PICK stillOpen \in BOOLEAN : Subscribe(c, stillOpen)
    BY <1>1, EvictsMeansSubscribe
  <2> DEFINE reg == register(registry, c)
             rm == joinOwnRooms(roomIndex, c)
  <2>2. phase[c] = "returned" /\ evictBeyondLimit(c, reg, rm)
    BY <2>1 DEF Subscribe
  <2>3. OverLimit(reg, UserOf[c]) =>
          \A v \in byUser(reg, UserOf[c]) :
            /\ byUser(unregister(reg, v), UserOf[c]) = byUser(reg, UserOf[c]) \ {v}
            /\ Cardinality(byUser(unregister(reg, v), UserOf[c])) = MaxPerUser
    BY <1>1, <2>2, Registering
  <2> HIDE DEF reg, rm
  <2>4. registration'[c] = "evicting" /\ registration \in [Conns -> RegistrationStates]
    BY <1>1 DEF Evicts, IInv, TypeOK
  <2>5. OverLimit(reg, UserOf[c])
    <3>1. CASE ~OverLimit(reg, UserOf[c])
      <4>1. registration' = [registration EXCEPT ![c] = "pending"]
        BY <2>2, <3>1 DEF evictBeyondLimit
      <4> QED
        BY <2>4, <4>1
    <3> QED
      BY <3>1
  <2>6. PICK v \in byUser(reg, UserOf[c]) :
          /\ IsOldest(v, byUser(reg, UserOf[c]), connectedAt', order')
          /\ registry' = unregister(reg, v)
          /\ victim' = [victim EXCEPT ![c] = v]
    BY <2>2, <2>5 DEF evictBeyondLimit, unregisterConnection
  <2>7. victim'[c] = v
    BY <1>1, <2>6 DEF IInv, TypeOK
  <2>8. /\ byUser(registry', UserOf[c]) = byUser(reg, UserOf[c]) \ {v}
        /\ Cardinality(byUser(registry', UserOf[c])) = MaxPerUser
    BY <2>3, <2>5, <2>6
  <2>9. IsOldest(v, byUser(reg, UserOf[c]) \ {v}, connectedAt', order')
    BY <2>6 DEF IsOldest
  <2> QED
    BY <2>7, <2>8, <2>9
<1>2. IInv /\ [Next]_vars => [\A c \in Conns : Evicts(c) => Exact(c)]_vars
  BY <1>1
<1>3. IInv /\ [Next]_vars =>
        [\A c \in Conns : Evicts(c) =>
           LET left == byUser(registry', UserOf[c])
           IN  /\ Cardinality(left) = MaxPerUser
               /\ IsOldest(victim'[c], left, connectedAt', order')]_vars
  BY <1>2
<1> QED
  BY <1>3, Invariance, PTL DEF Spec, EvictsOldestDownToLimit

\* onConnect comes at most once and never after onDisconnect.
THEOREM ConnectOrdered == Spec => ConnectBeforeDisconnect
<1>1. ASSUME IInv, [Next]_vars, NEW c \in Conns,
             registration[c] = "pending", connected' # connected, c \in connected'
      PROVE  c \notin connected /\ phase[c] = "open" /\ disconnects[c] = 0
  <2>1. c \notin connected
    BY <1>1 DEF IInv, PhasesConsistent
  <2>2. \E d \in Conns : OnRegistered(d)
    BY <1>1 DEF Next, vars, requestVars, requestRest, Handshake, Arrive, handle, Abandon,
           SubscribeLate, AuthSettles, OpenStreamSettles, Subscribe, EvictionSettles,
           HookSettles, disconnectLocal, ClientCloses, KeepaliveFails, TeardownNext,
           joinRoom, leaveRoom, RoomsOnly, BeginTeardown, TeardownDone
  <2>3. PICK d \in Conns : OnRegistered(d)
    BY <2>2
  <2>4. connected' = connected \cup {d} /\ phase[d] = "open" /\ d \in Held
    BY <1>1, <2>3 DEF OnRegistered, UndoRegistration, Activate, ActivationThrows,
           ActivationThrowsTwice
  <2>5. d = c
    BY <1>1, <2>1, <2>4
  <2>6. disconnects[c] = 0
    BY <1>1, <2>4, <2>5 DEF IInv, DisconnectHookOnce
  <2> QED
    BY <2>1, <2>4, <2>5, <2>6
<1>2. IInv /\ [Next]_vars =>
        [\A c \in Conns : (registration[c] = "pending" /\ connected' # connected
                               /\ c \in connected') =>
            /\ c \notin connected
            /\ phase[c] = "open"
            /\ disconnects[c] = 0]_vars
  BY <1>1
<1> QED
  BY <1>2, Invariance, PTL DEF Spec, ConnectBeforeDisconnect

=============================================================================
