-------------------------- MODULE Reauthentication --------------------------
(***************************************************************************)
(* ReauthenticationService: a timer starts a cycle over the connections of *)
(* both transports; the cycle asks the application's authenticator about   *)
(* one after the other, and revokes those it refuses.  A slow cycle is     *)
(* overtaken by the next, and all share the cache of successes.            *)
(*                                                                         *)
(* Time passes in ticks.  Date.now() readings are kept as their age, which *)
(* is what the code compares.  Between two awaits a cycle runs in one step. *)
(***************************************************************************)
EXTENDS Integers, SequencesExt

CONSTANTS
    Sse, WebSocket,  \* the connections of each transport
    Interval,        \* reauthenticationPolicy.intervalSeconds
    CacheTtl,        \* reauthenticationPolicy.cacheTtlMs
    MaxDuration,     \* bound: the ticks a cycle takes, with all it awaits
    None

ASSUME ReauthenticationAssumption ==
    /\ IsFiniteSet(Sse) /\ IsFiniteSet(WebSocket) /\ Sse \cap WebSocket = {}
    /\ Interval \in Nat \ {0} /\ CacheTtl \in Nat /\ MaxDuration \in Nat
    /\ None \notin Nat

Conns == Sse \cup WebSocket

\* As many cycles as can overlap.
Cycles == 1..(MaxDuration \div Interval + 1)

VARIABLES
    timer,    \* ticks since the timer last fired, or None once it is cleared
    due,      \* the timer has fired; its callback has not run
    cycle,    \* cycle[i]: a running runCycle, or Idle
    cache,    \* positiveCache: the age of the entry of c, or None
    open,     \* the connections the registry holds
    refused,  \* the open connections whose credentials the authenticator no longer accepts
    since,    \* since[c]: ticks since that, while RevokedInTime is about c
    retry,    \* history: the authenticator refused them, and was not asked again
    failed,   \* history: a revocation of theirs was rejected or thrown out of
    threw,    \* history: the hook threw out of one
    stale     \* history: a success asked for before the refusal was cached after it

vars == <<timer, due, cycle, cache, open, refused, since, retry, failed, threw, stale>>
historyVars == <<failed, threw, stale>>

Idle == [age |-> 0, todo |-> <<>>, stage |-> "idle", accepted |-> FALSE]

\* The age from which an entry is old for every cycle.
OldEntry == CacheTtl + MaxDuration

\* A refusal escapes the cycles that begin while an entry older than it counts, and the
\* one that has begun in the same tick; the next cycle takes MaxDuration at most.
Escapes  == IF CacheTtl = 0 THEN 1 ELSE CacheTtl
Deadline == Escapes + Interval - 1 + MaxDuration

TypeOK ==
    /\ timer \in 0..(Interval - 1) \cup {None}
    /\ due \in BOOLEAN
    /\ cycle \in [Cycles -> [age : 0..MaxDuration, todo : Seq(Conns),
                             stage : {"idle", "asking", "revoking"}, accepted : BOOLEAN]]
    /\ \A i \in Cycles : cycle[i].todo = <<>> <=> cycle[i] = Idle
    /\ cache \in [Conns -> 0..OldEntry \cup {None}]
    /\ open \subseteq Conns /\ refused \subseteq open
    /\ since \in [Conns -> 0..(Deadline + 1)]
    /\ retry \cup failed \cup stale \subseteq open /\ threw \subseteq failed

Init ==
    /\ timer = 0 /\ due = FALSE
    /\ cycle = [i \in Cycles |-> Idle]
    /\ cache = [c \in Conns |-> None]
    /\ open = Conns
    /\ refused = {}
    /\ since = [c \in Conns |-> 0]
    /\ retry = {} /\ failed = {} /\ threw = {} /\ stale = {}

Least(x, y) == IF x <= y THEN x ELSE y

-----------------------------------------------------------------------------
(* Time, and the connections. *)

\* setInterval: the timer fires every Interval, whether the last cycle is over or not.
Tick ==
    /\ ~due
    /\ \A i \in Cycles : cycle[i] # Idle => cycle[i].age < MaxDuration
    /\ IF timer = None THEN UNCHANGED <<timer, due>>
       ELSE due' = (timer + 1 = Interval) /\ timer' = IF due' THEN 0 ELSE timer + 1
    /\ cycle' = [i \in Cycles |-> IF cycle[i] = Idle THEN Idle
                                  ELSE [cycle[i] EXCEPT !.age = @ + 1]]
    /\ cache' = [c \in Conns |-> IF cache[c] = None THEN None
                                 ELSE Least(cache[c] + 1, OldEntry)]
    /\ since' = [c \in Conns |-> IF c \in refused \ failed /\ timer # None
                                 THEN Least(since[c] + 1, Deadline + 1) ELSE 0]
    /\ UNCHANGED <<open, refused, retry, historyVars>>

\* A session ends, a user is blocked.
CredentialsEnd(c) ==
    /\ c \in open \ refused
    /\ refused' = refused \cup {c}
    /\ UNCHANGED <<timer, due, cycle, cache, open, since, retry, historyVars>>

\* The registry drops c; what is told of it ends with it, the cache's entry does not.
Closes(c) ==
    /\ open' = open \ {c}
    /\ refused' = refused \ {c}
    /\ since' = [since EXCEPT ![c] = 0]
    /\ failed' = failed \ {c} /\ threw' = threw \ {c} /\ stale' = stale \ {c}

ClientLeaves(c) ==
    /\ c \in open
    /\ Closes(c)
    /\ retry' = retry \ {c}
    /\ UNCHANGED <<timer, due, cycle, cache>>

-----------------------------------------------------------------------------
(* A cycle. *)

\* A slip: an entry counts for ever.
cacheHitForever(entries, c, age) == entries[c] # None

\* now - lastValid < cacheTtlMs, now being the time the cycle began.
cacheHit(entries, c, age) == entries[c] # None /\ entries[c] - age < CacheTtl

\* The loop goes on with rest: it passes over the cached ones and asks about the first
\* that is not, or ends.
GoOn(i, age, rest, entries) ==
    LET ask  == {k \in 1..Len(rest) : ~cacheHit(entries, rest[k], age)}
        todo == IF ask = {} THEN <<>> ELSE SubSeq(rest, Min(ask), Len(rest))
    IN  cycle' = [cycle EXCEPT ![i] =
            IF todo = <<>> THEN Idle
            ELSE [age |-> age, todo |-> todo, stage |-> "asking",
                  accepted |-> Head(todo) \notin refused]]

\* Whom cycle i has begun to ask in this step.
Asked(i) == IF cycle[i]'.stage = "asking" THEN {Head(cycle[i]'.todo)} ELSE {}

\* A slip: one transport only.
snapshotSse == SetToSeqs(open \cap Sse)

\* allByTransport('sse'), then allByTransport('websocket').
snapshot == {lists[1] \o lists[2] :
                 lists \in SetToSeqs(open \cap Sse) \X SetToSeqs(open \cap WebSocket)}

runCycle(i) ==
    /\ due
    /\ cycle[i] = Idle
    /\ due' = FALSE
    /\ \E all \in snapshot : GoOn(i, 0, all, cache)
    /\ retry' = retry \ Asked(i)
    /\ UNCHANGED <<timer, cache, open, refused, since, historyVars>>

\* positiveCache.set(connectionId, now)
entryOf(age) == age

\* revalidate() answers true: it did accept the credentials when it was asked.
Succeeds(i) ==
    LET c == Head(cycle[i].todo)
        entries == [cache EXCEPT ![c] = entryOf(cycle[i].age)]
    IN  /\ cycle[i].stage = "asking"
        /\ cycle[i].accepted
        /\ cache' = entries
        /\ GoOn(i, cycle[i].age, Tail(cycle[i].todo), entries)
        /\ stale' = IF c \in retry THEN stale \cup {c} ELSE stale
        /\ retry' = retry \ Asked(i)
        /\ UNCHANGED <<timer, due, open, refused, since, failed, threw>>

\* positiveCache.delete(connectionId)
evict(c) == [cache EXCEPT ![c] = None]

\* It answers anything else, or throws: handleFailure up to its await of the disconnect.
handleFailure(i) ==
    /\ cycle[i].stage = "asking"
    /\ cache' = evict(Head(cycle[i].todo))
    /\ cycle' = [cycle EXCEPT ![i].stage = "revoking", ![i].accepted = FALSE]
    /\ stale' = stale \ {Head(cycle[i].todo)}
    /\ retry' = retry \cup (open \cap {Head(cycle[i].todo)})
    /\ UNCHANGED <<timer, due, open, refused, since, failed, threw>>

\* The same, with a hook that throws at once: the disconnect is not reached.
HookThrows(i) ==
    LET c == Head(cycle[i].todo) IN
    /\ cycle[i].stage = "asking"
    /\ cache' = evict(c)
    /\ GoOn(i, cycle[i].age, Tail(cycle[i].todo), evict(c))
    /\ retry' = (retry \cup (open \cap {c})) \ Asked(i)
    /\ failed' = failed \cup (open \cap {c}) /\ threw' = threw \cup (open \cap {c})
    /\ stale' = stale \ {c}
    /\ UNCHANGED <<timer, due, open, refused, since>>

\* realtime.disconnect() resolves, the connection is closed.
Disconnected(i) ==
    /\ cycle[i].stage = "revoking"
    /\ Closes(Head(cycle[i].todo))
    /\ GoOn(i, cycle[i].age, Tail(cycle[i].todo), cache)
    /\ retry' = retry \ (Asked(i) \cup {Head(cycle[i].todo)})
    /\ UNCHANGED <<timer, due, cache>>

\* It rejects: revoke() logs it and the cycle goes on.
RevocationFails(i) ==
    LET c == Head(cycle[i].todo) IN
    /\ cycle[i].stage = "revoking"
    /\ GoOn(i, cycle[i].age, Tail(cycle[i].todo), cache)
    /\ retry' = retry \ Asked(i)
    /\ failed' = failed \cup (open \cap {c})
    /\ UNCHANGED <<timer, due, cache, open, refused, since, threw, stale>>

\* Running cycles go on.
onApplicationShutdown ==
    /\ timer # None
    /\ timer' = None /\ due' = FALSE
    /\ cache' = [c \in Conns |-> None]
    /\ UNCHANGED <<cycle, open, refused, since, retry, historyVars>>

Settles(i) == Succeeds(i) \/ handleFailure(i) \/ HookThrows(i)

Next ==
    \/ Tick
    \/ \E c \in Conns : CredentialsEnd(c) \/ ClientLeaves(c)
    \/ \E i \in Cycles : runCycle(i) \/ Settles(i) \/ Disconnected(i) \/ RevocationFails(i)
    \/ onApplicationShutdown

Spec == Init /\ [][Next]_vars

\* Time passes, timers fire, the authenticator answers, and a disconnect that is tried
\* again and again succeeds once.
FairSpec ==
    /\ Spec
    /\ WF_vars(Tick)
    /\ \A i \in Cycles :
          /\ WF_vars(runCycle(i))
          /\ WF_vars(Settles(i))
          /\ WF_vars(Disconnected(i) \/ RevocationFails(i))
    /\ \A c \in Conns :
          SF_vars(\E i \in Cycles : cycle[i].todo # <<>> /\ Head(cycle[i].todo) = c /\ Disconnected(i))

-----------------------------------------------------------------------------
\* A connection whose credentials ended is closed within the cache's time, an interval
\* and the length of a cycle, though cycles overlap and a late success of an older one
\* enters the cache; unless its revocation failed or the service was shut down.
RevokedInTime ==
    \A c \in open \cap refused : c \in failed \/ timer = None \/ since[c] <= Deadline

\* "The positive-cache entry is already gone, so the next cycle revalidates the
\* connection and tries again" (revoke): a connection that was refused and not asked
\* again is not in the cache, but for a success asked for before the refusal.
FailedAreRetried == \A c \in retry : cache[c] # None => c \in stale

\* A refusal takes effect in time, and one whose revocation failed is tried again.
RefusalsTakeEffect == TypeOK /\ RevokedInTime /\ FailedAreRetried

\* Whatever fails on the way, a connection whose credentials ended is closed in the end,
\* on either transport, unless the hook throws out of the revocation.
RevokedEnds ==
    \A c \in Conns :
        c \in open \cap refused ~> c \notin open \/ timer = None \/ c \in threw

=============================================================================
