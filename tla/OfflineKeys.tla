----------------------------- MODULE OfflineKeys -----------------------------
(***************************************************************************)
(* The sorted set of one user in RedisOfflineQueue, with the ids that      *)
(* several instances draw for it: append with its trim, retrieveSince, and *)
(* the acknowledge of what was retrieved, as ranges of strings.            *)
(*                                                                         *)
(* The instances read the same wall clock, which does not step back.  Each *)
(* call is atomic here; calls that fail or overlap are in SseReplay.       *)
(***************************************************************************)
EXTENDS FiniteSets, EventIds

CONSTANTS
    Instances,
    MaxPerUser,     \* options.maxPerUser
    RetrieveLimit,  \* RETRIEVE_LIMIT: 200 in the code
    MaxEvents,      \* bound: events emitted to the user while offline
    FirstMs,        \* bound: the wall clock, in milliseconds, ...
    MaxMs           \* ... between these two

ASSUME OfflineKeysAssumption ==
    /\ Instances # {}
    /\ MaxPerUser \in Nat \ {0}
    /\ RetrieveLimit \in Nat \ {0}
    /\ MaxEvents \in Nat
    /\ FirstMs \in Nat \ {0} /\ MaxMs \in Nat /\ FirstMs <= MaxMs
    /\ Len(Digits(FirstMs)) = Len(Digits(MaxMs))  \* 13 digits until the year 2286
    /\ MaxMs + 1 < Power[MsWidth]                 \* 16 digits

Events == 1..MaxEvents

VARIABLES
    clock,      \* the last reading of Date.now()
    generator,  \* generator[i]: EventIdGenerator
    ids,        \* ids[e]: the id of the e-th event
    issuer,     \* issuer[e]: the instance that emitted it
    zset,       \* the events whose members the sorted set holds
    since,      \* the Last-Event-ID of the reconnecting client, as an event, or 0
    batch       \* what retrieveSince gave it, until that is acknowledged

vars == <<clock, generator, ids, issuer, zset, since, batch>>

Issued == {e \in Events : ids[e] # NewGenerator}

\* The position of e among S in the order of Redis, from 0; id gives the ids.
Rank(e, S, id) ==
    Cardinality({d \in S : LexLess(encodeMember(id[d], d), encodeMember(id[e], e))})

TypeOK ==
    /\ clock \in FirstMs..MaxMs
    /\ generator \in [Instances -> IdPairs]
    /\ ids \in [Events -> IdPairs]
    /\ issuer \in [Events -> Instances]
    /\ zset \subseteq Issued /\ Cardinality(zset) <= MaxPerUser
    /\ since \in {0} \cup Issued
    /\ batch \subseteq Issued /\ Cardinality(batch) <= RetrieveLimit

Init ==
    /\ clock = FirstMs
    /\ generator = [i \in Instances |-> NewGenerator]
    /\ ids = [e \in Events |-> NewGenerator]
    /\ issuer = [e \in Events |-> CHOOSE i \in Instances : TRUE]
    /\ zset = {}
    /\ since = 0
    /\ batch = {}

\* A slip: the rank counts from the wrong end.
trimNewest(S, id) == {e \in S : Rank(e, S, id) < MaxPerUser}

\* ZREMRANGEBYRANK 0 -(maxPerUser + 1): the first members beyond the cap go.
trim(S, id) == {e \in S : Rank(e, S, id) >= Cardinality(S) - MaxPerUser}

\* An emit on i to the offline user: the id, ZADD, the trim.
append(e, i) ==
    /\ e \notin Issued
    /\ \A d \in Events : d < e => d \in Issued
    /\ clock' \in clock..MaxMs
    /\ generator' = [generator EXCEPT ![i] = next(@, clock')]
    /\ ids' = [ids EXCEPT ![e] = next(generator[i], clock')]
    /\ issuer' = [issuer EXCEPT ![e] = i]
    /\ zset' = trim(zset \cup {e}, ids')
    /\ UNCHANGED <<since, batch>>

\* The client comes back with the id of x: the first members after it, at most
\* RetrieveLimit, are given to it.
retrieveSince(x) ==
    /\ x \in Issued
    /\ since' = x
    /\ batch' = LET after == {e \in zset : InRetrieveRange(encodeMember(ids[e], e), ids[x])}
                IN  {e \in after : Rank(e, after, ids) < RetrieveLimit}
    /\ UNCHANGED <<clock, generator, ids, issuer, zset>>

\* The batch was written: everything up to its last id is removed.
acknowledge ==
    /\ batch # {}
    /\ \E last \in batch :
          /\ Rank(last, batch, ids) = Cardinality(batch) - 1
          /\ zset' = {e \in zset : ~InAcknowledgeRange(encodeMember(ids[e], e), ids[last])}
    /\ batch' = {}
    /\ UNCHANGED <<clock, generator, ids, issuer, since>>

Next ==
    \/ \E e \in Events, i \in Instances : append(e, i)
    \/ \E x \in Events : retrieveSince(x)
    \/ acknowledge

Spec == Init /\ [][Next]_vars

-----------------------------------------------------------------------------
\* Two events that one instance counted, or that different milliseconds tell
\* apart, and whose counters keep their width.
Comparable(x, y) ==
    /\ issuer[x] = issuer[y] \/ ids[x].ms # ids[y].ms
    /\ FitsWidth(ids[x]) /\ FitsWidth(ids[y])

\* Ids sort as strings in the order of the emits, within a millisecond of one
\* instance and across milliseconds of all (EventIdGenerator.next).  Within one
\* millisecond two instances count alike: there the ids say nothing.
IdsIncrease ==
    \A x, y \in Issued : x < y /\ Comparable(x, y) => LexLess(IdText(ids[x]), IdText(ids[y]))

\* Ids sort as they were issued, and the set and the batch keep their limits.
IdsSound == TypeOK /\ IdsIncrease

\* The string ranges are exact: a retrieval covers the events after the given one
\* and no other, an acknowledgement those up to it and no other, at the last
\* counter of a millisecond too (lexKey, lexKeyNext, encodeMember).
RangesExact ==
    \A x, y \in Issued : Comparable(x, y) =>
        LET member == encodeMember(ids[y], y)
        IN  /\ InRetrieveRange(member, ids[x]) <=> x < y
            /\ InAcknowledgeRange(member, ids[x]) <=> y <= x

\* The trim keeps the newest: of the events the set held and the one appended, an
\* event that is comparable with all those that stay goes only while the set is full
\* of newer ones (append).
TrimDropsOldest ==
    [][\A gone \in (zset \cup (Issued' \ Issued)) \ zset' :
          Issued' # Issued /\ (\A e \in zset' : Comparable(gone, e)')
              => /\ Cardinality(zset') = MaxPerUser
                 /\ \A e \in zset' : gone < e]_vars

\* An acknowledgement prunes what was given to the client or lies up to its
\* Last-Event-ID, and otherwise only an event of the same millisecond as one it
\* was given: events appended since the retrieval, or beyond its limit, stay.
PrunedWereGiven ==
    [][\A gone \in zset \ zset' :
          Issued' = Issued /\ (\A x \in batch \cup {since} : Comparable(gone, x))
              => gone \in batch \/ gone <= since]_vars

\* Nothing leaves the set that should stay: the trim of an append and an
\* acknowledgement are all that removes (append, acknowledge).
RemovalsJustified == TrimDropsOldest /\ PrunedWereGiven

=============================================================================
