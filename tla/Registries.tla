----------------------------- MODULE Registries -----------------------------
(***************************************************************************)
(* The two in-memory registries one instance keeps, as pure operators:     *)
(* ConnectionRegistry (a record per connection, indexed by user and by     *)
(* tenant) and RoomRegistry (rooms -> members and its reverse index).      *)
(*                                                                         *)
(* Both services are plain synchronous bookkeeping on one thread, so a     *)
(* call is a state transformer and the handlers that call several of them  *)
(* before their next await compose the transformers.  A JavaScript Map     *)
(* without a key and a Map whose key holds the empty set are the same      *)
(* value here: the code prunes empty sets, so both mean "nobody".          *)
(***************************************************************************)
EXTENDS FiniteSets

CONSTANTS
    Conns,      \* connection ids (each is a fresh randomUUID, so never reused)
    Users,
    Tenants,
    NoTenant,   \* the tenantId `undefined`
    UserOf,     \* the user the authenticator returned for a connection
    TenantOf,   \* the tenant, or NoTenant
    AppRooms    \* the room ids the application passes to joinRoom / leaveRoom

ASSUME RegistriesAssumption ==
    /\ NoTenant \notin Tenants
    /\ UserOf \in [Conns -> Users]
    /\ TenantOf \in [Conns -> Tenants \cup {NoTenant}]

-----------------------------------------------------------------------------
(* composeRoomId: the room ids a connection joins on its own. *)

composeRoomId(prefix, part) == <<prefix, part>>

AllRooms == ({"USER"} \X Users) \cup ({"TENANT"} \X Tenants) \cup AppRooms

-----------------------------------------------------------------------------
(* ConnectionRegistry. *)

ConnectionIndex == [byId : SUBSET Conns,
                    byUserId : [Users -> SUBSET Conns],
                    byTenantId : [Tenants -> SUBSET Conns]]

NoConnections == [byId |-> {},
                  byUserId |-> [u \in Users |-> {}],
                  byTenantId |-> [t \in Tenants |-> {}]]

register(reg, c) ==
    [byId |-> reg.byId \cup {c},
     byUserId |-> [reg.byUserId EXCEPT ![UserOf[c]] = @ \cup {c}],
     byTenantId |-> IF TenantOf[c] = NoTenant
                    THEN reg.byTenantId
                    ELSE [reg.byTenantId EXCEPT ![TenantOf[c]] = @ \cup {c}]]

unregister(reg, c) ==
    [byId |-> reg.byId \ {c},
     byUserId |-> [reg.byUserId EXCEPT ![UserOf[c]] = @ \ {c}],
     byTenantId |-> IF TenantOf[c] = NoTenant
                    THEN reg.byTenantId
                    ELSE [reg.byTenantId EXCEPT ![TenantOf[c]] = @ \ {c}]]

\* resolve(): an id of the index whose record is gone is skipped.
byUser(reg, u) == reg.byUserId[u] \cap reg.byId

-----------------------------------------------------------------------------
(* RoomRegistry. *)

RoomIndex == [rooms : [AllRooms -> SUBSET Conns],
              connectionRooms : [Conns -> SUBSET AllRooms]]

NoRooms == [rooms |-> [r \in AllRooms |-> {}],
            connectionRooms |-> [c \in Conns |-> {}]]

join(rm, c, r) ==
    [rooms |-> [rm.rooms EXCEPT ![r] = @ \cup {c}],
     connectionRooms |-> [rm.connectionRooms EXCEPT ![c] = @ \cup {r}]]

leave(rm, c, r) ==
    [rooms |-> [rm.rooms EXCEPT ![r] = @ \ {c}],
     connectionRooms |-> [rm.connectionRooms EXCEPT ![c] = @ \ {r}]]

\* Only the rooms the reverse index names are visited.
leaveAll(rm, c) ==
    [rooms |-> [r \in AllRooms |-> IF r \in rm.connectionRooms[c]
                                   THEN rm.rooms[r] \ {c}
                                   ELSE rm.rooms[r]],
     connectionRooms |-> [rm.connectionRooms EXCEPT ![c] = {}]]

-----------------------------------------------------------------------------
(* What keeps the indexes useful: each says the same as the other. *)

ConnectionIndexesAgree(reg) ==
    /\ \A u \in Users : reg.byUserId[u] = {c \in reg.byId : UserOf[c] = u}
    /\ \A t \in Tenants : reg.byTenantId[t] = {c \in reg.byId : TenantOf[c] = t}

RoomIndexesAgree(rm) ==
    \A c \in Conns, r \in AllRooms : c \in rm.rooms[r] <=> r \in rm.connectionRooms[c]

MembersWithin(rm, held) == \A r \in AllRooms : rm.rooms[r] \subseteq held

=============================================================================
