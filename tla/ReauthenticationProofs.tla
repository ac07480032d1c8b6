----------------------- MODULE ReauthenticationProofs -----------------------
(***************************************************************************)
(* Reauthentication for any connections, interval, cache time and length   *)
(* of a cycle: the bound on the time a refusal takes to have an effect.    *)
(***************************************************************************)
EXTENDS Reauthentication, FiniteSetTheorems, SequenceTheorems,
        WellFoundedInduction, TLAPS

-----------------------------------------------------------------------------
(* The inductive invariant. *)

\* The refusals RevokedInTime counts the time of.
Counted(c) == c \in refused \ failed /\ timer # None

\* Ticks since the last cycle began.
SinceFired == IF due THEN Interval ELSE timer

\* What the cache holds of a refused connection was asked for before the refusal, as
\* was an answer that accepts it.
EntriesOld ==
    \A c \in Conns :
        Counted(c) /\ cache[c] # None => cache[c] >= since[c] \/ cache[c] = OldEntry

AnswersOld ==
    \A i \in Cycles :
        /\ cycle[i].stage = "asking" /\ cycle[i].accepted
        /\ Counted(Head(cycle[i].todo))
        => cycle[i].age >= since[Head(cycle[i].todo)]

Listed(s, c) == \E k \in DOMAIN s : s[k] = c

\* Cycle i, which began when no entry counted any more, has yet to deal with c.
Examines(i, c) ==
    /\ Listed(cycle[i].todo, c)
    /\ Head(cycle[i].todo) = c => ~cycle[i].accepted
    /\ Escapes <= since[c] - cycle[i].age
    /\ since[c] - cycle[i].age < Escapes + Interval

\* Once a timer has fired after the entries have expired, a cycle examines c.
Examined ==
    \A c \in Conns :
        Counted(c) /\ since[c] - SinceFired >= Escapes => \E i \in Cycles : Examines(i, c)

IInv ==
    /\ TypeOK
    /\ due => timer = 0
    /\ \A c \in Conns \ refused : since[c] = 0
    /\ EntriesOld
    /\ AnswersOld
    /\ Examined
    /\ RevokedInTime
    /\ FailedAreRetried

Run == [age : 0..MaxDuration, todo : Seq(Conns),
        stage : {"idle", "asking", "revoking"}, accepted : BOOLEAN]

LEMMA EscapesFact == Escapes \in Nat \ {0} /\ Escapes >= CacheTtl /\ Deadline = Escapes + Interval - 1 + MaxDuration
  BY ReauthenticationAssumption DEF Escapes, Deadline

-----------------------------------------------------------------------------
(* The lists of connections. *)

\* SetToSeqs(S) lists every element of S.
LEMMA ListsFact ==
    ASSUME NEW S, IsFiniteSet(S), NEW s \in SetToSeqs(S)
    PROVE  s \in Seq(S) /\ \A c \in S : Listed(s, c)
<1> DEFINE D == 1..Cardinality(S)
<1>1. Cardinality(S) \in Nat
  BY FS_CardinalityType
<1>2. s \in [D -> S] /\ \A i, j \in D : i # j => s[i] # s[j]
  BY DEF SetToSeqs
<1>3. s \in Injection(D, S)
  BY <1>2 DEF Injection, IsInjective
<1>4. IsFiniteSet(D) /\ Cardinality(D) = Cardinality(S)
  BY <1>1, FS_Interval
<1>5. s \in Surjection(D, S)
  BY <1>3, <1>4, FS_Injection
<1>6. \A c \in S : \E k \in D : s[k] = c
  BY <1>5 DEF Surjection
<1>7. s \in Seq(S)
  BY <1>1, <1>2
<1> QED
  BY <1>2, <1>6, <1>7 DEF Listed

\* A cycle begins with every connection of both transports.
LEMMA SnapshotFact ==
    ASSUME open \subseteq Conns, NEW all \in snapshot
    PROVE  all \in Seq(Conns) /\ \A c \in open : Listed(all, c)
<1> DEFINE A == SetToSeqs(open \cap Sse)
           B == SetToSeqs(open \cap WebSocket)
<1>1. PICK lists \in A \X B : all = lists[1] \o lists[2]
  BY Zenon DEF snapshot
<1> DEFINE s == lists[1]
           w == lists[2]
<1>2. IsFiniteSet(open \cap Sse) /\ IsFiniteSet(open \cap WebSocket)
  BY ReauthenticationAssumption, FS_Subset
<1> HIDE DEF A, B
<1>3. s \in A /\ w \in B /\ all = s \o w
  BY <1>1
<1> HIDE DEF s, w
<1>4. s \in Seq(open \cap Sse) /\ \A c \in open \cap Sse : Listed(s, c)
  BY <1>2, <1>3, ListsFact DEF A
<1>5. w \in Seq(open \cap WebSocket) /\ \A c \in open \cap WebSocket : Listed(w, c)
  BY <1>2, <1>3, ListsFact DEF B
<1>6. s \in Seq(Conns) /\ w \in Seq(Conns)
  BY <1>4, <1>5 DEF Conns
<1>7. ASSUME NEW c \in open \cap Sse PROVE Listed(all, c)
  <2>1. PICK k \in DOMAIN s : s[k] = c
    BY <1>4, <1>7 DEF Listed
  <2>2. k \in DOMAIN all /\ all[k] = c
    BY <1>3, <1>6, <2>1
  <2> QED
    BY <2>2 DEF Listed
<1>8. ASSUME NEW c \in open \cap WebSocket PROVE Listed(all, c)
  <2>1. PICK k \in DOMAIN w : w[k] = c
    BY <1>5, <1>8 DEF Listed
  <2>2. Len(s) + k \in DOMAIN all /\ all[Len(s) + k] = c
    BY <1>3, <1>6, <2>1
  <2> QED
    BY <2>2 DEF Listed
<1> QED
  BY <1>3, <1>6, <1>7, <1>8 DEF Conns

\* What remains of a list once its first connection is dealt with.
LEMMA TailFact ==
    ASSUME NEW s \in Seq(Conns), s # <<>>, NEW c, Listed(s, c), Head(s) # c
    PROVE  Tail(s) \in Seq(Conns) /\ Listed(Tail(s), c)
<1>1. PICK k \in DOMAIN s : s[k] = c
  BY DEF Listed
<1>2. k # 1 /\ k \in 2..Len(s)
  BY <1>1
<1>3. k - 1 \in DOMAIN Tail(s) /\ Tail(s)[k - 1] = c
  BY <1>1, <1>2
<1> QED
  BY <1>3 DEF Listed

-----------------------------------------------------------------------------
(* The loop of a cycle. *)

LEMMA LeastFact ==
    ASSUME NEW S \in SUBSET Nat, S # {}
    PROVE  \E k \in S : \A j \in S : k <= j
<1> DEFINE R == OpToRel(<, Nat)
<1>1. IsWellFoundedOn(R, Nat)
  BY NatLessThanWellFounded
<1>2. \A x, y \in Nat : x < y => <<x, y>> \in R
  BY DEF OpToRel
<1> HIDE DEF R
<1>3. PICK k \in S : \A j \in S : ~(<<j, k>> \in R)
  BY <1>1, WFMin
<1>4. \A j \in S : ~(j < k)
  BY <1>2, <1>3
<1> QED
  BY <1>4

\* GoOn leaves cycle i idle or asking, having passed over cached connections only.
LEMMA GoOnFact ==
    ASSUME TypeOK, NEW i \in Cycles, NEW age \in 0..MaxDuration, NEW rest \in Seq(Conns), NEW entries,
           GoOn(i, age, rest, entries)
    PROVE  /\ cycle' \in [Cycles -> Run]
           /\ \A j \in Cycles : j # i => cycle'[j] = cycle[j]
           /\ \/ cycle'[i] = Idle
              \/ /\ cycle'[i].todo # <<>> /\ cycle'[i].age = age /\ cycle'[i].stage = "asking"
                 /\ cycle'[i].accepted <=> Head(cycle'[i].todo) \notin refused
           /\ \A c \in Conns : Listed(rest, c) /\ ~cacheHit(entries, c, age)
                                  => cycle'[i] # Idle /\ Listed(cycle'[i].todo, c)
<1> DEFINE ask   == {k \in 1..Len(rest) : ~cacheHit(entries, rest[k], age)}
           first == Min(ask)
           left  == SubSeq(rest, first, Len(rest))
           todo  == IF ask = {} THEN <<>> ELSE left
           next  == [age |-> age, todo |-> todo, stage |-> "asking",
                     accepted |-> Head(todo) \notin refused]
<1>1. cycle' = [cycle EXCEPT ![i] = IF todo = <<>> THEN Idle ELSE next]
  BY DEF GoOn
<1>2. cycle \in [Cycles -> Run]
  BY DEF TypeOK, Run
<1>3. Idle \in Run
  BY ReauthenticationAssumption DEF Idle, Run
<1>4. ASSUME ask # {}
      PROVE  /\ first \in ask /\ \A k \in ask : first <= k
             /\ left \in Seq(Conns) /\ left # <<>>
             /\ \A k \in ask : k - first + 1 \in DOMAIN left /\ left[k - first + 1] = rest[k]
  <2>1. \E k \in ask : \A j \in ask : k <= j
    <3>1. ask \subseteq Nat
      OBVIOUS
    <3> HIDE DEF ask
    <3> QED
      BY <1>4, <3>1, LeastFact
  <2>2. first \in ask /\ \A k \in ask : first <= k
    BY <2>1 DEF Min
  <2> HIDE DEF first
  <2>3. first \in 1..Len(rest) /\ Len(rest) \in Nat
    BY <2>2
  <2>4. left \in Seq(Conns) /\ Len(left) = Len(rest) - first + 1
    BY <2>3
  <2>5. \A k \in ask : k - first + 1 \in 1..Len(left) /\ left[k - first + 1] = rest[k]
    <3> SUFFICES ASSUME NEW k \in ask
                 PROVE  k - first + 1 \in 1..Len(left) /\ left[k - first + 1] = rest[k]
      OBVIOUS
    <3>1. k \in 1..Len(rest) /\ first <= k
      BY <2>2
    <3> HIDE DEF ask
    <3> QED
      BY <2>3, <2>4, <3>1
  <2> HIDE DEF left, ask
  <2>6. DOMAIN left = 1..Len(left) /\ left # <<>>
    BY <2>3, <2>4
  <2> QED
    BY <2>2, <2>4, <2>5, <2>6
<1>5. todo \in Seq(Conns) /\ (ask # {} <=> todo # <<>>)
  BY <1>4
<1>6. \A k \in ask : Listed(todo, rest[k])
  BY <1>4 DEF Listed
<1> HIDE DEF todo
<1>7. next \in Run
  BY <1>5 DEF Run
<1>8. \A c \in Conns : Listed(rest, c) /\ ~cacheHit(entries, c, age) => todo # <<>> /\ Listed(todo, c)
  <2> SUFFICES ASSUME NEW c \in Conns, Listed(rest, c), ~cacheHit(entries, c, age)
               PROVE  todo # <<>> /\ Listed(todo, c)
    OBVIOUS
  <2>1. PICK k \in DOMAIN rest : rest[k] = c
    BY DEF Listed
  <2>2. k \in ask
    BY <2>1
  <2> QED
    BY <1>5, <1>6, <2>1, <2>2
<1> DEFINE new == IF todo = <<>> THEN Idle ELSE next
<1>9. /\ new \in Run
      /\ todo = <<>> => new = Idle
      /\ todo # <<>> => /\ new.todo = todo /\ new.age = age /\ new.stage = "asking"
                        /\ new.accepted <=> Head(new.todo) \notin refused
                        /\ new # Idle
  BY <1>3, <1>7 DEF Idle
<1> HIDE DEF new, next, ask
<1>10. cycle' = [cycle EXCEPT ![i] = new]
  BY <1>1 DEF new
<1>11. cycle' \in [Cycles -> Run] /\ cycle'[i] = new /\ \A j \in Cycles : j # i => cycle'[j] = cycle[j]
  BY <1>2, <1>9, <1>10
<1> QED
  BY <1>8, <1>9, <1>11


-----------------------------------------------------------------------------
(* What a step keeps of the invariant. *)

\* What the type says of a cycle that is under way.
LEMMA RunFact ==
    ASSUME TypeOK, NEW i \in Cycles
    PROVE  /\ cycle[i] \in Run /\ cycle[i].todo \in Seq(Conns) /\ cycle[i].age \in 0..MaxDuration
           /\ cycle[i] # Idle <=> cycle[i].todo # <<>>
           /\ cycle[i].stage # "idle" =>
                 /\ cycle[i] # Idle /\ Head(cycle[i].todo) \in Conns
                 /\ Tail(cycle[i].todo) \in Seq(Conns)
<1>1. cycle[i] \in Run /\ (cycle[i].todo = <<>> <=> cycle[i] = Idle)
  BY DEF TypeOK, Run
<1>2. cycle[i].todo \in Seq(Conns) /\ cycle[i].age \in 0..MaxDuration
  BY <1>1 DEF Run
<1>3. Idle.stage = "idle"
  BY DEF Idle
<1>4. cycle[i].stage # "idle" => cycle[i].todo # <<>>
  BY <1>1, <1>3
<1> QED
  BY <1>1, <1>2, <1>4

\* No refusal begins in the step, and no time passes.
CountsKept ==
    /\ refused' \subseteq refused
    /\ \A c \in Conns : Counted(c)' => Counted(c) /\ since'[c] = since[c]

LEMMA KeptInTime == ASSUME IInv, CountsKept, open' \subseteq Conns PROVE RevokedInTime'
<1>1. refused \subseteq open
  BY DEF IInv, TypeOK
<1>2. \A c \in Conns : Counted(c)' => since'[c] <= Deadline
  BY <1>1 DEF IInv, RevokedInTime, CountsKept, Counted
<1> QED
  BY <1>2 DEF RevokedInTime, Counted

LEMMA KeptEntries ==
    ASSUME IInv, CountsKept,
           \A c \in Conns : Counted(c)' => \/ cache'[c] = cache[c] \/ cache'[c] = None
                                           \/ cache'[c] >= since[c]
    PROVE  EntriesOld'
  BY DEF IInv, EntriesOld, CountsKept

\* The loop asks about a connection that is refused, or is told that it is not.
LEMMA KeptAnswers ==
    ASSUME IInv, CountsKept, NEW i \in Cycles, NEW age \in 0..MaxDuration,
           NEW rest \in Seq(Conns), NEW entries, GoOn(i, age, rest, entries)
    PROVE  AnswersOld'
<1>1. TypeOK /\ AnswersOld
  BY DEF IInv
<1>2. /\ cycle' \in [Cycles -> Run]
      /\ \A j \in Cycles : j # i => cycle'[j] = cycle[j]
      /\ \/ cycle'[i] = Idle
         \/ /\ cycle'[i].todo # <<>> /\ cycle'[i].age = age /\ cycle'[i].stage = "asking"
            /\ cycle'[i].accepted <=> Head(cycle'[i].todo) \notin refused
  BY <1>1, GoOnFact
<1>3. SUFFICES ASSUME NEW j \in Cycles, cycle'[j].stage = "asking", cycle'[j].accepted,
                      Counted(Head(cycle[j].todo))'
               PROVE  cycle'[j].age >= since'[Head(cycle'[j].todo)]
  BY DEF AnswersOld
<1>4. CASE j = i
  <2>1. Idle.stage = "idle"
    BY DEF Idle
  <2>2. Head(cycle'[j].todo) \notin refused
    BY <1>2, <1>3, <1>4, <2>1
  <2> QED
    BY <1>3, <2>2 DEF CountsKept, Counted
<1>5. CASE j # i
  <2>1. cycle'[j] = cycle[j] /\ Head(cycle[j].todo) \in Conns
    BY <1>1, <1>2, <1>3, <1>5, RunFact
  <2> QED
    BY <1>1, <1>3, <2>1 DEF AnswersOld, CountsKept
<1> QED
  BY <1>4, <1>5

\* A refused connection that is counted is not passed over by a cycle that examines it.
LEMMA NotPassedOver ==
    ASSUME IInv, NEW c \in Conns, Counted(c), NEW age \in 0..MaxDuration, since[c] - age >= Escapes,
           NEW entries, entries[c] = cache[c] \/ entries[c] = None
    PROVE  ~cacheHit(entries, c, age)
<1>1. since[c] \in Nat /\ cache[c] \in Nat \cup {None}
  BY ReauthenticationAssumption DEF IInv, TypeOK, OldEntry, Deadline, Escapes
<1>2. cache[c] # None => cache[c] >= since[c] \/ cache[c] = OldEntry
  BY DEF IInv, EntriesOld
<1>3. /\ CacheTtl \in Nat /\ MaxDuration \in Nat /\ age \in Nat /\ age <= MaxDuration
      /\ Escapes \in Nat /\ Escapes >= CacheTtl /\ OldEntry = CacheTtl + MaxDuration
  BY ReauthenticationAssumption, EscapesFact DEF OldEntry
<1>4. cache[c] # None => cache[c] - age >= CacheTtl
  BY <1>1, <1>2, <1>3
<1> QED
  BY <1>1, <1>3, <1>4 DEF cacheHit

\* A turn of the loop deals with the first connection, and no other.
LEMMA TurnExamines ==
    ASSUME IInv, CountsKept, NEW i \in Cycles, cycle[i].stage # "idle", NEW entries,
           GoOn(i, cycle[i].age, Tail(cycle[i].todo), entries),
           \A c \in Conns : c = Head(cycle[i].todo) /\ Counted(c)' => cycle[i].accepted,
           \A c \in Conns : c # Head(cycle[i].todo) => entries[c] = cache[c] \/ entries[c] = None,
           NEW j \in Cycles, NEW c \in Conns, Counted(c)', Examines(j, c)
    PROVE  Examines(j, c)'
<1>1. CASE j # i
  <2>1. TypeOK /\ cycle[i].age \in 0..MaxDuration /\ Tail(cycle[i].todo) \in Seq(Conns)
    BY RunFact DEF IInv
  <2>2. cycle'[j] = cycle[j] /\ since'[c] = since[c]
    BY <1>1, <2>1, GoOnFact DEF CountsKept
  <2> QED
    BY <2>2 DEF Examines
<1>2. CASE j = i
  <2> DEFINE age  == cycle[i].age
             todo == cycle[i].todo
  <2>1. /\ TypeOK /\ age \in 0..MaxDuration /\ todo \in Seq(Conns) /\ Tail(todo) \in Seq(Conns)
        /\ todo # <<>>
    BY RunFact DEF IInv
  <2>2. /\ Counted(c) /\ since'[c] = since[c] /\ Listed(todo, c)
        /\ Head(todo) = c => ~cycle[i].accepted
        /\ Escapes <= since[c] - age /\ since[c] - age < Escapes + Interval
    BY <1>2 DEF Examines, CountsKept
  <2>3. Head(todo) # c
    BY <2>2
  <2>4. GoOn(i, age, Tail(todo), entries) /\ (entries[c] = cache[c] \/ entries[c] = None)
    BY <2>3
  <2> HIDE DEF age, todo
  <2>5. Listed(Tail(todo), c)
    BY <2>1, <2>2, <2>3, TailFact
  <2>6. since[c] - age >= Escapes
    BY <2>1, <2>2, EscapesFact DEF IInv, TypeOK
  <2>7. ~cacheHit(entries, c, age)
    BY <2>1, <2>2, <2>4, <2>6, NotPassedOver
  <2>8. /\ cycle'[i] # Idle /\ Listed(cycle'[i].todo, c)
        /\ \/ cycle'[i] = Idle
           \/ cycle'[i].age = age /\ (cycle'[i].accepted <=> Head(cycle'[i].todo) \notin refused)
    BY <2>1, <2>4, <2>5, <2>7, GoOnFact
  <2>9. c \in refused
    BY <2>2 DEF Counted
  <2> QED
    BY <1>2, <2>2, <2>8, <2>9 DEF Examines
<1> QED
  BY <1>1, <1>2

LEMMA KeptExamined ==
    ASSUME IInv, CountsKept, UNCHANGED <<timer, due>>,
           \A j \in Cycles, c \in Conns : Counted(c)' /\ Examines(j, c) => Examines(j, c)'
    PROVE  Examined'
  BY DEF IInv, Examined, CountsKept, SinceFired


-----------------------------------------------------------------------------
(* Type correctness. *)

RunsTyped ==
    cycle \in [Cycles -> Run] /\ \A i \in Cycles : cycle[i].todo = <<>> <=> cycle[i] = Idle

RestTyped ==
    /\ timer \in 0..(Interval - 1) \cup {None}
    /\ due \in BOOLEAN
    /\ cache \in [Conns -> 0..OldEntry \cup {None}]
    /\ open \subseteq Conns /\ refused \subseteq open
    /\ since \in [Conns -> 0..(Deadline + 1)]
    /\ retry \cup failed \cup stale \subseteq open /\ threw \subseteq failed

LEMMA TypeParts == (TypeOK <=> RunsTyped /\ RestTyped) /\ (TypeOK' <=> RunsTyped' /\ RestTyped')
  BY DEF TypeOK, RunsTyped, RestTyped, Run

LEMMA GoOnTyped ==
    ASSUME TypeOK, NEW i \in Cycles, NEW age \in 0..MaxDuration, NEW rest \in Seq(Conns), NEW entries,
           GoOn(i, age, rest, entries)
    PROVE  RunsTyped'
<1>1. /\ cycle' \in [Cycles -> Run]
      /\ \A j \in Cycles : j # i => cycle'[j] = cycle[j]
      /\ cycle'[i] = Idle \/ cycle'[i].todo # <<>>
  BY GoOnFact
<1>2. Idle.todo = <<>>
  BY DEF Idle
<1>3. \A j \in Cycles : cycle[j].todo = <<>> <=> cycle[j] = Idle
  BY DEF TypeOK
<1>4. \A j \in Cycles : cycle'[j].todo = <<>> <=> cycle'[j] = Idle
  BY <1>1, <1>2, <1>3
<1> QED
  BY <1>1, <1>4 DEF RunsTyped

\* The turn of the loop that settles the first connection of cycle i.
LEMMA TurnTyped ==
    ASSUME IInv, NEW i \in Cycles, cycle[i].stage # "idle", NEW entries,
           GoOn(i, cycle[i].age, Tail(cycle[i].todo), entries)
    PROVE  RunsTyped'
<1>1. TypeOK /\ cycle[i].age \in 0..MaxDuration /\ Tail(cycle[i].todo) \in Seq(Conns)
  BY RunFact DEF IInv
<1> QED
  BY <1>1, GoOnTyped

LEMMA ClosesTyped ==
    ASSUME RestTyped, NEW c \in Conns, Closes(c), retry' \subseteq retry \ {c},
           UNCHANGED <<timer, due, cache>>
    PROVE  RestTyped'
<1>1. 0 \in 0..(Deadline + 1)
  BY ReauthenticationAssumption, EscapesFact
<1> QED
  BY <1>1 DEF RestTyped, Closes

LEMMA TickTyped == ASSUME IInv, Tick PROVE TypeOK'
<1>1. RunsTyped /\ RestTyped
  BY TypeParts DEF IInv
<1>2. RunsTyped'
  <2> DEFINE next(i) == IF cycle[i] = Idle THEN Idle ELSE [cycle[i] EXCEPT !.age = cycle[i].age + 1]
  <2>1. cycle' = [i \in Cycles |-> next(i)] /\ \A i \in Cycles : cycle[i] # Idle => cycle[i].age < MaxDuration
    BY DEF Tick
  <2>2. ASSUME NEW i \in Cycles PROVE next(i) \in Run /\ (next(i).todo = <<>> <=> next(i) = Idle)
    <3>1. cycle[i] \in Run /\ (cycle[i].todo = <<>> <=> cycle[i] = Idle) /\ Idle.todo = <<>>
      BY <1>1 DEF RunsTyped, Idle
    <3>2. CASE cycle[i] = Idle
      BY <3>1, <3>2
    <3>3. CASE cycle[i] # Idle
      <4>1. cycle[i].age + 1 \in 0..MaxDuration
        BY <2>1, <3>1, <3>3, ReauthenticationAssumption DEF Run
      <4>2. next(i) \in Run /\ next(i).todo = cycle[i].todo
        BY <3>1, <3>3, <4>1 DEF Run
      <4> QED
        BY <3>1, <3>3, <4>2
    <3> QED
      BY <3>2, <3>3
  <2> HIDE DEF next
  <2> QED
    BY <2>1, <2>2 DEF RunsTyped
<1>3. timer' \in 0..(Interval - 1) \cup {None} /\ due' \in BOOLEAN
  <2>1. CASE timer = None
    BY <1>1, <2>1 DEF Tick, RestTyped
  <2>2. CASE timer # None
    <3>1. timer \in 0..(Interval - 1) /\ Interval \in Nat \ {0}
      BY <1>1, <2>2, ReauthenticationAssumption DEF RestTyped
    <3>2. due' = (timer + 1 = Interval) /\ timer' = IF due' THEN 0 ELSE timer + 1
      BY <2>2 DEF Tick
    <3>3. CASE timer + 1 = Interval
      <4>1. due' = TRUE
        BY <3>2, <3>3
      <4>2. timer' = 0
        BY <3>2, <4>1
      <4> QED
        BY <3>1, <4>1, <4>2
    <3>4. CASE timer + 1 # Interval
      <4>1. due' = FALSE
        BY <3>2, <3>4
      <4>2. timer' = timer + 1
        BY <3>2, <4>1
      <4>3. timer + 1 \in 0..(Interval - 1)
        BY <3>1, <3>4
      <4> QED
        BY <4>1, <4>2, <4>3
    <3> QED
      BY <3>3, <3>4
  <2> QED
    BY <2>1, <2>2
<1>4. cache' \in [Conns -> 0..OldEntry \cup {None}]
  <2>1. OldEntry \in Nat
    BY ReauthenticationAssumption DEF OldEntry
  <2>2. \A c \in Conns : cache[c] # None => Least(cache[c] + 1, OldEntry) \in 0..OldEntry
    BY <1>1, <2>1 DEF RestTyped, Least
  <2> QED
    BY <2>2 DEF Tick
<1>5. since' \in [Conns -> 0..(Deadline + 1)]
  <2>1. Deadline + 1 \in Nat
    BY ReauthenticationAssumption, EscapesFact
  <2>2. \A c \in Conns : Least(since[c] + 1, Deadline + 1) \in 0..(Deadline + 1)
    BY <1>1, <2>1 DEF RestTyped, Least
  <2> QED
    BY <2>1, <2>2 DEF Tick
<1>6. RestTyped'
  BY <1>1, <1>3, <1>4, <1>5 DEF RestTyped, Tick, historyVars
<1> QED
  BY <1>2, <1>6, TypeParts


-----------------------------------------------------------------------------
(* The actions. *)

\* Everything but the time a refusal takes follows from the type and the counts.
LEMMA StepKept ==
    ASSUME IInv, TypeOK', CountsKept, EntriesOld', AnswersOld', Examined', FailedAreRetried',
           due' => timer' = 0,
           \A c \in Conns : c \notin refused' => c \notin refused \/ since'[c] = 0,
           \A c \in Conns : since'[c] = since[c] \/ since'[c] = 0
    PROVE  IInv'
<1>1. open' \subseteq Conns
  BY DEF TypeOK
<1>2. RevokedInTime'
  BY <1>1, KeptInTime
<1>3. \A c \in Conns \ refused' : since'[c] = 0
  BY DEF IInv
<1> QED
  BY <1>2, <1>3 DEF IInv

LEMMA SucceedsStep == ASSUME IInv, NEW i \in Cycles, Succeeds(i) PROVE IInv'
<1> DEFINE h       == Head(cycle[i].todo)
           age     == cycle[i].age
           entries == [cache EXCEPT ![h] = age]
<1>1. /\ cycle[i].stage = "asking" /\ cycle[i].accepted /\ cache' = entries
      /\ GoOn(i, age, Tail(cycle[i].todo), entries)
      /\ stale' = IF h \in retry THEN stale \cup {h} ELSE stale
      /\ retry' \subseteq retry
      /\ UNCHANGED <<timer, due, open, refused, since, failed, threw>>
  BY DEF Succeeds, entryOf
<1>2. TypeOK /\ RestTyped /\ FailedAreRetried /\ (due => timer = 0)
  BY TypeParts DEF IInv
<1>3. h \in Conns /\ age \in 0..MaxDuration /\ Tail(cycle[i].todo) \in Seq(Conns)
  BY <1>1, <1>2, RunFact
<1>4. cache' \in [Conns -> 0..OldEntry \cup {None}] /\ cache'[h] = age
      /\ \A c \in Conns : c # h => cache'[c] = cache[c]
  <2>1. age \in 0..OldEntry
    BY <1>3, ReauthenticationAssumption DEF OldEntry
  <2> HIDE DEF age, h
  <2> QED
    BY <1>1, <1>2, <1>3, <2>1 DEF RestTyped
<1>5. CountsKept
  BY <1>1 DEF CountsKept, Counted
<1>6. RunsTyped'
  BY <1>1, TurnTyped
<1>7. RestTyped'
  BY <1>1, <1>2, <1>4 DEF RestTyped
<1>8. EntriesOld'
  <2>1. Counted(h) => age >= since[h]
    BY <1>1 DEF IInv, AnswersOld
  <2> HIDE DEF h, age
  <2>2. \A c \in Conns : Counted(c)' => \/ cache'[c] = cache[c] \/ cache'[c] = None
                                        \/ cache'[c] >= since[c]
    BY <1>4, <1>5, <2>1 DEF CountsKept
  <2> QED
    BY <1>5, <2>2, KeptEntries
<1>9. AnswersOld'
  BY <1>1, <1>3, <1>5, KeptAnswers
<1>10. Examined'
  <2>1. \A c \in Conns : c # h => entries[c] = cache[c] \/ entries[c] = None
    BY <1>1, <1>4
  <2> HIDE DEF entries
  <2>2. \A j \in Cycles, c \in Conns : Counted(c)' /\ Examines(j, c) => Examines(j, c)'
    BY <1>1, <1>5, <2>1, TurnExamines
  <2> QED
    BY <1>1, <1>5, <2>2, KeptExamined
<1>11. FailedAreRetried'
  <2> HIDE DEF h, age, entries
  <2> QED
    BY <1>1, <1>2, <1>3, <1>4 DEF FailedAreRetried, RestTyped
<1> QED
  BY <1>1, <1>2, <1>5, <1>6, <1>7, <1>8, <1>9, <1>10, <1>11, TypeParts, StepKept

LEMMA HookThrowsStep == ASSUME IInv, NEW i \in Cycles, HookThrows(i) PROVE IInv'
<1> DEFINE h       == Head(cycle[i].todo)
           entries == evict(h)
<1>1. /\ cycle[i].stage = "asking" /\ cache' = entries
      /\ GoOn(i, cycle[i].age, Tail(cycle[i].todo), entries)
      /\ stale' = stale \ {h} /\ retry' \subseteq retry \cup (open \cap {h})
      /\ failed' = failed \cup (open \cap {h}) /\ threw' = threw \cup (open \cap {h})
      /\ UNCHANGED <<timer, due, open, refused, since>>
  BY DEF HookThrows
<1>2. TypeOK /\ RestTyped /\ FailedAreRetried /\ (due => timer = 0)
  BY TypeParts DEF IInv
<1>3. h \in Conns /\ cycle[i].age \in 0..MaxDuration /\ Tail(cycle[i].todo) \in Seq(Conns)
  BY <1>1, <1>2, RunFact
<1> HIDE DEF h
<1>4. cache' \in [Conns -> 0..OldEntry \cup {None}] /\ cache'[h] = None
      /\ \A c \in Conns : c # h => cache'[c] = cache[c]
  BY <1>1, <1>2, <1>3 DEF RestTyped, evict
<1>5. CountsKept
  BY <1>1 DEF CountsKept, Counted
<1>6. RunsTyped'
  BY <1>1, TurnTyped DEF h
<1>7. RestTyped'
  BY <1>1, <1>2, <1>4 DEF RestTyped
<1>8. EntriesOld'
  BY <1>4, <1>5, KeptEntries
<1>9. AnswersOld'
  BY <1>1, <1>3, <1>5, KeptAnswers
<1>10. Examined'
  <2>1. \A c \in Conns : c # h => entries[c] = cache[c] \/ entries[c] = None
    BY <1>1, <1>4
  <2>2. \A c \in Conns : c = h => ~Counted(c)'
    BY <1>1, <1>2 DEF Counted, RestTyped
  <2> HIDE DEF entries
  <2>3. \A j \in Cycles, c \in Conns : Counted(c)' /\ Examines(j, c) => Examines(j, c)'
    BY <1>1, <1>5, <2>1, <2>2, TurnExamines DEF h
  <2> QED
    BY <1>1, <1>5, <2>3, KeptExamined
<1>11. FailedAreRetried'
  BY <1>1, <1>2, <1>3, <1>4 DEF FailedAreRetried, RestTyped
<1> QED
  BY <1>1, <1>2, <1>5, <1>6, <1>7, <1>8, <1>9, <1>10, <1>11, TypeParts, StepKept

LEMMA DisconnectedStep == ASSUME IInv, NEW i \in Cycles, Disconnected(i) PROVE IInv'
<1>1. PICK h : h = Head(cycle[i].todo)
  OBVIOUS
<1>2. /\ cycle[i].stage # "idle" /\ Closes(h)
      /\ GoOn(i, cycle[i].age, Tail(cycle[i].todo), cache)
      /\ retry' \subseteq retry \ {h}
      /\ UNCHANGED <<timer, due, cache>>
  BY <1>1 DEF Disconnected
<1>3. TypeOK /\ RestTyped /\ FailedAreRetried /\ (due => timer = 0)
  BY TypeParts DEF IInv
<1>4. h \in Conns /\ cycle[i].age \in 0..MaxDuration /\ Tail(cycle[i].todo) \in Seq(Conns)
  BY <1>1, <1>2, <1>3, RunFact
<1>5. /\ refused' = refused \ {h} /\ failed' = failed \ {h} /\ stale' = stale \ {h}
      /\ since'[h] = 0 /\ \A c \in Conns : c # h => since'[c] = since[c]
  BY <1>2, <1>3, <1>4 DEF Closes, RestTyped
<1>6. CountsKept
  BY <1>2, <1>5 DEF CountsKept, Counted
<1>7. RunsTyped'
  BY <1>2, TurnTyped
<1>8. RestTyped'
  BY <1>2, <1>3, <1>4, ClosesTyped
<1>9. EntriesOld'
  BY <1>2, <1>6, KeptEntries
<1>10. AnswersOld'
  BY <1>2, <1>4, <1>6, KeptAnswers
<1>11. Examined'
  <2>1. \A c \in Conns : c = Head(cycle[i].todo) => ~Counted(c)'
    BY <1>1, <1>5 DEF Counted
  <2>2. \A j \in Cycles, c \in Conns : Counted(c)' /\ Examines(j, c) => Examines(j, c)'
    BY <1>2, <1>6, <2>1, TurnExamines
  <2> QED
    BY <1>2, <1>6, <2>2, KeptExamined
<1>12. FailedAreRetried'
  BY <1>2, <1>3, <1>5 DEF FailedAreRetried
<1> QED
  BY <1>2, <1>3, <1>5, <1>6, <1>7, <1>8, <1>9, <1>10, <1>11, <1>12, TypeParts, StepKept

LEMMA RevocationFailsStep == ASSUME IInv, NEW i \in Cycles, RevocationFails(i) PROVE IInv'
<1>1. PICK h : h = Head(cycle[i].todo)
  OBVIOUS
<1>2. /\ cycle[i].stage # "idle"
      /\ GoOn(i, cycle[i].age, Tail(cycle[i].todo), cache)
      /\ retry' \subseteq retry /\ failed' = failed \cup (open \cap {h})
      /\ UNCHANGED <<timer, due, cache, open, refused, since, threw, stale>>
  BY <1>1 DEF RevocationFails
<1>3. TypeOK /\ RestTyped /\ FailedAreRetried /\ (due => timer = 0)
  BY TypeParts DEF IInv
<1>4. cycle[i].age \in 0..MaxDuration /\ Tail(cycle[i].todo) \in Seq(Conns)
  BY <1>2, <1>3, RunFact
<1>5. CountsKept
  BY <1>2 DEF CountsKept, Counted
<1>6. RunsTyped'
  BY <1>2, TurnTyped
<1>7. RestTyped'
  BY <1>2, <1>3 DEF RestTyped
<1>8. EntriesOld'
  BY <1>2, <1>5, KeptEntries
<1>9. AnswersOld'
  BY <1>2, <1>4, <1>5, KeptAnswers
<1>10. Examined'
  <2>1. \A c \in Conns : c = Head(cycle[i].todo) => ~Counted(c)'
    BY <1>1, <1>2, <1>3 DEF Counted, RestTyped
  <2>2. \A j \in Cycles, c \in Conns : Counted(c)' /\ Examines(j, c) => Examines(j, c)'
    BY <1>2, <1>5, <2>1, TurnExamines
  <2> QED
    BY <1>2, <1>5, <2>2, KeptExamined
<1>11. FailedAreRetried'
  BY <1>2, <1>3 DEF FailedAreRetried
<1> QED
  BY <1>2, <1>3, <1>5, <1>6, <1>7, <1>8, <1>9, <1>10, <1>11, TypeParts, StepKept


LEMMA handleFailureStep == ASSUME IInv, NEW i \in Cycles, handleFailure(i) PROVE IInv'
<1>1. PICK h : h = Head(cycle[i].todo)
  OBVIOUS
<1>2. /\ cycle[i].stage = "asking" /\ cache' = evict(h)
      /\ cycle' = [cycle EXCEPT ![i].stage = "revoking", ![i].accepted = FALSE]
      /\ stale' = stale \ {h} /\ retry' = retry \cup (open \cap {h})
      /\ UNCHANGED <<timer, due, open, refused, since, failed, threw>>
  BY <1>1 DEF handleFailure
<1>3. TypeOK /\ RunsTyped /\ RestTyped /\ FailedAreRetried /\ (due => timer = 0)
  BY TypeParts DEF IInv
<1>4. h \in Conns /\ cycle[i] # Idle /\ cycle[i].todo # <<>> /\ cycle[i] \in Run
  BY <1>1, <1>2, <1>3, RunFact
<1>5. cache' \in [Conns -> 0..OldEntry \cup {None}] /\ cache'[h] = None
      /\ \A c \in Conns : c # h => cache'[c] = cache[c]
  BY <1>2, <1>3, <1>4 DEF RestTyped, evict
<1> DEFINE mid  == [cycle[i] EXCEPT !.stage = "revoking"]
           next == [mid EXCEPT !.accepted = FALSE]
<1>6. cycle' = [cycle EXCEPT ![i] = next]
  BY <1>2, <1>3 DEF RunsTyped
<1>7. mid \in Run /\ mid.todo = cycle[i].todo /\ mid.age = cycle[i].age /\ mid.stage = "revoking"
  BY <1>4 DEF Run
<1> HIDE DEF mid
<1>8. /\ next \in Run /\ next.todo = cycle[i].todo /\ next.age = cycle[i].age /\ next.stage = "revoking"
      /\ ~next.accepted
  BY <1>7 DEF Run
<1> HIDE DEF next
<1>9. cycle' \in [Cycles -> Run] /\ cycle'[i] = next /\ \A j \in Cycles : j # i => cycle'[j] = cycle[j]
  BY <1>3, <1>6, <1>8 DEF RunsTyped
<1>10. RunsTyped'
  <2>1. next # Idle
    BY <1>8 DEF Idle
  <2> QED
    BY <1>3, <1>4, <1>8, <1>9, <2>1 DEF RunsTyped
<1>11. RestTyped'
  BY <1>2, <1>3, <1>5 DEF RestTyped
<1>12. CountsKept
  BY <1>2 DEF CountsKept, Counted
<1>13. EntriesOld'
  BY <1>5, <1>12, KeptEntries
<1>14. AnswersOld'
  <2> SUFFICES ASSUME NEW j \in Cycles, cycle'[j].stage = "asking", cycle'[j].accepted,
                      Counted(Head(cycle[j].todo))'
               PROVE  cycle'[j].age >= since'[Head(cycle'[j].todo)]
    BY DEF AnswersOld
  <2>1. j # i
    BY <1>8, <1>9
  <2>2. cycle'[j] = cycle[j] /\ AnswersOld
    BY <1>9, <2>1 DEF IInv
  <2> QED
    BY <1>2, <2>2 DEF AnswersOld, Counted
<1>15. Examined'
  <2>1. ASSUME NEW j \in Cycles, NEW c \in Conns, Counted(c)', Examines(j, c) PROVE Examines(j, c)'
    <3>1. CASE j = i
      BY <1>2, <1>8, <1>9, <2>1, <3>1 DEF Examines
    <3>2. CASE j # i
      BY <1>2, <1>9, <2>1, <3>2 DEF Examines
    <3> QED
      BY <3>1, <3>2
  <2> QED
    BY <1>2, <1>12, <2>1, KeptExamined
<1>16. FailedAreRetried'
  BY <1>2, <1>3, <1>4, <1>5 DEF FailedAreRetried, RestTyped
<1> QED
  BY <1>2, <1>3, <1>10, <1>11, <1>12, <1>13, <1>14, <1>15, <1>16, TypeParts, StepKept

\* The cycle that begins has every refused connection ahead of it that no entry protects.
LEMMA runCycleStep == ASSUME IInv, NEW i \in Cycles, runCycle(i) PROVE IInv'
<1>1. /\ due /\ due' = FALSE /\ cycle[i] = Idle
      /\ retry' \subseteq retry
      /\ UNCHANGED <<timer, cache, open, refused, since, failed, threw, stale>>
  BY DEF runCycle, historyVars
<1>2. PICK all \in snapshot : GoOn(i, 0, all, cache)
  BY DEF runCycle
<1>3. TypeOK /\ RestTyped /\ FailedAreRetried /\ timer = 0 /\ 0 \in 0..MaxDuration
  BY <1>1, TypeParts, ReauthenticationAssumption DEF IInv
<1>4. all \in Seq(Conns) /\ \A c \in open : Listed(all, c)
  BY <1>3, SnapshotFact DEF RestTyped
<1>5. CountsKept
  BY <1>1 DEF CountsKept, Counted
<1>6. RunsTyped'
  BY <1>2, <1>3, <1>4, GoOnTyped
<1>7. RestTyped'
  BY <1>1, <1>3 DEF RestTyped
<1>8. EntriesOld'
  BY <1>1, <1>5, KeptEntries
<1>9. AnswersOld'
  BY <1>2, <1>3, <1>4, <1>5, KeptAnswers
<1>10. Examined'
  <2> SUFFICES ASSUME NEW c \in Conns, Counted(c)', since'[c] - SinceFired' >= Escapes
               PROVE  \E j \in Cycles : Examines(j, c)'
    BY DEF Examined
  <2>1. Counted(c) /\ since'[c] = since[c] /\ since[c] \in Nat /\ c \in open /\ c \in refused
    BY <1>3, <1>5, EscapesFact, ReauthenticationAssumption DEF CountsKept, RestTyped, Counted
  <2>2. /\ SinceFired = Interval /\ SinceFired' = 0 /\ since[c] - 0 >= Escapes
        /\ Interval \in Nat /\ Escapes \in Nat
    BY <1>1, <1>3, <2>1, EscapesFact, ReauthenticationAssumption DEF SinceFired
  <2>3. CASE since[c] - Interval >= Escapes
    <3>1. PICK j \in Cycles : Examines(j, c)
      BY <2>1, <2>2, <2>3 DEF IInv, Examined
    <3>2. j # i
      BY <1>1, <3>1 DEF Examines, Listed, Idle
    <3>3. cycle'[j] = cycle[j]
      BY <1>2, <1>3, <1>4, <3>2, GoOnFact
    <3> QED
      BY <2>1, <3>1, <3>3 DEF Examines
  <2>4. CASE ~(since[c] - Interval >= Escapes)
    <3>1. ~cacheHit(cache, c, 0)
      BY <1>3, <2>1, <2>2, NotPassedOver
    <3>2. /\ cycle'[i] # Idle /\ Listed(cycle'[i].todo, c)
          /\ \/ cycle'[i] = Idle
             \/ cycle'[i].age = 0 /\ (cycle'[i].accepted <=> Head(cycle'[i].todo) \notin refused)
      BY <1>2, <1>3, <1>4, <2>1, <3>1, GoOnFact
    <3>3. since[c] - 0 < Escapes + Interval
      BY <2>1, <2>2, <2>4
    <3> QED
      BY <2>1, <2>2, <3>2, <3>3 DEF Examines
  <2> QED
    BY <2>3, <2>4
<1>11. FailedAreRetried'
  BY <1>1, <1>3 DEF FailedAreRetried
<1> QED
  BY <1>1, <1>3, <1>5, <1>6, <1>7, <1>8, <1>9, <1>10, <1>11, TypeParts, StepKept

LEMMA ClientLeavesStep == ASSUME IInv, NEW h \in Conns, ClientLeaves(h) PROVE IInv'
<1>1. Closes(h) /\ retry' = retry \ {h} /\ UNCHANGED <<timer, due, cycle, cache>>
  BY DEF ClientLeaves
<1>2. TypeOK /\ RunsTyped /\ RestTyped /\ FailedAreRetried /\ (due => timer = 0)
  BY TypeParts DEF IInv
<1>3. /\ refused' = refused \ {h} /\ failed' = failed \ {h} /\ stale' = stale \ {h}
      /\ since'[h] = 0 /\ \A c \in Conns : c # h => since'[c] = since[c]
  BY <1>1, <1>2 DEF Closes, RestTyped
<1>4. CountsKept
  BY <1>1, <1>3 DEF CountsKept, Counted
<1>5. RunsTyped' /\ RestTyped'
  BY <1>1, <1>2, ClosesTyped DEF RunsTyped
<1>6. EntriesOld'
  BY <1>1, <1>4, KeptEntries
<1>7. AnswersOld'
  <2> SUFFICES ASSUME NEW j \in Cycles, cycle[j].stage = "asking", cycle[j].accepted,
                      Counted(Head(cycle[j].todo))'
               PROVE  cycle[j].age >= since'[Head(cycle[j].todo)]
    BY <1>1 DEF AnswersOld
  <2>1. PICK d : d = Head(cycle[j].todo)
    OBVIOUS
  <2>2. d \in Conns /\ Counted(d)'
    BY <1>1, <1>2, <2>1, RunFact DEF Counted
  <2> QED
    BY <1>4, <2>1, <2>2 DEF IInv, AnswersOld, CountsKept
<1>8. Examined'
  <2>1. \A j \in Cycles, c \in Conns : Counted(c)' /\ Examines(j, c) => Examines(j, c)'
    BY <1>1, <1>4 DEF Examines, CountsKept
  <2> QED
    BY <1>1, <1>4, <2>1, KeptExamined
<1>9. FailedAreRetried'
  BY <1>1, <1>2, <1>3 DEF FailedAreRetried
<1> QED
  BY <1>1, <1>2, <1>3, <1>4, <1>5, <1>6, <1>7, <1>8, <1>9, TypeParts, StepKept

\* After shutdown no refusal is counted.
LEMMA ShutdownStep == ASSUME IInv, onApplicationShutdown PROVE IInv'
<1>1. /\ timer' = None /\ due' = FALSE /\ cache' = [c \in Conns |-> None]
      /\ UNCHANGED <<cycle, open, refused, since, retry, failed, threw, stale>>
  BY DEF onApplicationShutdown, historyVars
<1>2. RunsTyped /\ RestTyped
  BY TypeParts DEF IInv
<1>3. RunsTyped' /\ RestTyped'
  BY <1>1, <1>2 DEF RunsTyped, RestTyped
<1>4. CountsKept /\ (\A c : ~Counted(c)')
  BY <1>1 DEF CountsKept, Counted
<1>5. EntriesOld' /\ AnswersOld' /\ Examined'
  BY <1>1 DEF EntriesOld, AnswersOld, Examined, Counted
<1>6. FailedAreRetried'
  BY <1>1, <1>2 DEF FailedAreRetried, RestTyped
<1> QED
  BY <1>1, <1>3, <1>4, <1>5, <1>6, TypeParts, StepKept

\* The time of a refusal begins at zero, and whatever was accepted came before it.
LEMMA CredentialsEndStep == ASSUME IInv, NEW h \in Conns, CredentialsEnd(h) PROVE IInv'
<1>1. /\ h \in open \ refused /\ refused' = refused \cup {h}
      /\ UNCHANGED <<timer, due, cycle, cache, open, since, retry, failed, threw, stale>>
  BY DEF CredentialsEnd, historyVars
<1>2. TypeOK /\ RunsTyped /\ RestTyped
  BY TypeParts DEF IInv
<1>3. since[h] = 0
  BY <1>1 DEF IInv
<1>4. \A c \in Conns : Counted(c)' => c = h \/ Counted(c)
  BY <1>1 DEF Counted
<1>5. TypeOK'
  <2>1. RunsTyped' /\ RestTyped'
    BY <1>1, <1>2 DEF RunsTyped, RestTyped
  <2> QED
    BY <2>1, TypeParts
<1>6. EntriesOld'
  <2>1. cache[h] # None => cache[h] >= 0
    BY <1>1, <1>2, ReauthenticationAssumption DEF RestTyped, OldEntry
  <2> QED
    BY <1>1, <1>3, <1>4, <2>1 DEF IInv, EntriesOld
<1>7. AnswersOld'
  <2> SUFFICES ASSUME NEW j \in Cycles, cycle[j].stage = "asking", cycle[j].accepted,
                      Counted(Head(cycle[j].todo))'
               PROVE  cycle[j].age >= since[Head(cycle[j].todo)]
    BY <1>1 DEF AnswersOld
  <2>1. PICK d : d = Head(cycle[j].todo)
    OBVIOUS
  <2>2. d \in Conns /\ cycle[j].age >= 0 /\ Counted(d)'
    BY <1>1, <1>2, <2>1, RunFact DEF Counted
  <2> QED
    BY <1>3, <1>4, <2>1, <2>2 DEF IInv, AnswersOld
<1>8. Examined'
  <2>1. SinceFired \in Nat \/ timer = None
    BY <1>2, ReauthenticationAssumption DEF RestTyped, SinceFired
  <2>2. Counted(h)' => ~(since[h] - SinceFired >= Escapes)
    BY <1>1, <1>3, <2>1, EscapesFact DEF Counted
  <2>3. SinceFired' = SinceFired
    BY <1>1 DEF SinceFired
  <2>4. \A j \in Cycles, c \in Conns : Examines(j, c) => Examines(j, c)'
    BY <1>1 DEF Examines
  <2> QED
    BY <1>1, <1>4, <2>2, <2>3, <2>4 DEF IInv, Examined
<1>9. RevokedInTime'
  <2>1. since[h] <= Deadline
    BY <1>3, EscapesFact, ReauthenticationAssumption
  <2> QED
    BY <1>1, <2>1 DEF IInv, RevokedInTime
<1>10. FailedAreRetried' /\ (due' => timer' = 0) /\ \A c \in Conns \ refused' : since'[c] = 0
  BY <1>1 DEF IInv, FailedAreRetried
<1> QED
  BY <1>5, <1>6, <1>7, <1>8, <1>9, <1>10 DEF IInv


\* A tick makes the refusal, the entry and the cycles older alike; the cycle that examines a
\* connection ends before the bound, since no cycle is older than MaxDuration.
LEMMA TickStep == ASSUME IInv, Tick PROVE IInv'
<1>1. /\ ~due /\ UNCHANGED <<open, refused, retry, failed, threw, stale>>
      /\ timer = None => UNCHANGED <<timer, due>>
      /\ timer # None => due' = (timer + 1 = Interval) /\ timer' = IF due' THEN 0 ELSE timer + 1
      /\ \A i \in Cycles : cycle'[i] = IF cycle[i] = Idle THEN Idle
                                       ELSE [cycle[i] EXCEPT !.age = cycle[i].age + 1]
      /\ \A c \in Conns : cache'[c] = IF cache[c] = None THEN None ELSE Least(cache[c] + 1, OldEntry)
      /\ \A c \in Conns : since'[c] = IF c \in refused \ failed /\ timer # None
                                      THEN Least(since[c] + 1, Deadline + 1) ELSE 0
  BY DEF Tick, historyVars
<1>2. TypeOK /\ RunsTyped /\ RestTyped /\ RevokedInTime /\ FailedAreRetried
  BY TypeParts DEF IInv
<1>3. TypeOK' /\ RunsTyped' /\ RestTyped'
  BY TickTyped, TypeParts
<1>4. /\ Deadline \in Nat /\ Interval \in Nat \ {0} /\ Escapes \in Nat \ {0} /\ MaxDuration \in Nat
      /\ Deadline = Escapes + Interval - 1 + MaxDuration /\ OldEntry \in Nat
  BY EscapesFact, ReauthenticationAssumption DEF OldEntry
<1>5. \A c \in Conns : Counted(c)' => /\ Counted(c) /\ since[c] \in Nat /\ since[c] <= Deadline
                                      /\ since'[c] = since[c] + 1
  <2> SUFFICES ASSUME NEW c \in Conns, Counted(c)'
               PROVE  /\ Counted(c) /\ since[c] \in Nat /\ since[c] <= Deadline
                      /\ since'[c] = since[c] + 1
    OBVIOUS
  <2>1. Counted(c) /\ c \in refused \ failed /\ timer # None
    BY <1>1 DEF Counted
  <2>2. since[c] \in Nat /\ since[c] <= Deadline
    BY <1>2, <1>4, <2>1 DEF RevokedInTime, RestTyped
  <2>3. since'[c] = Least(since[c] + 1, Deadline + 1)
    BY <1>1, <2>1
  <2> QED
    BY <1>4, <2>1, <2>2, <2>3 DEF Least
<1>6. \A i \in Cycles : /\ cycle'[i].todo = cycle[i].todo /\ cycle'[i].stage = cycle[i].stage
                        /\ cycle'[i].accepted = cycle[i].accepted
                        /\ cycle[i].todo # <<>> => cycle'[i].age = cycle[i].age + 1
  <2> SUFFICES ASSUME NEW i \in Cycles
               PROVE  /\ cycle'[i].todo = cycle[i].todo /\ cycle'[i].stage = cycle[i].stage
                      /\ cycle'[i].accepted = cycle[i].accepted
                      /\ cycle[i].todo # <<>> => cycle'[i].age = cycle[i].age + 1
    OBVIOUS
  <2>1. CASE cycle[i] = Idle
    <3>1. cycle'[i] = cycle[i]
      BY <1>1, <2>1
    <3>2. cycle[i].todo = <<>>
      BY <2>1 DEF Idle
    <3> QED
      BY <3>1, <3>2
  <2>2. CASE cycle[i] # Idle
    <3>1. cycle'[i] = [cycle[i] EXCEPT !.age = cycle[i].age + 1] /\ cycle[i] \in Run
      BY <1>1, <1>2, <2>2 DEF RunsTyped
    <3> QED
      BY <3>1 DEF Run
  <2> QED
    BY <2>1, <2>2
<1>7. due' => timer' = 0
  BY <1>1
<1>8. timer # None => SinceFired' = SinceFired + 1 /\ SinceFired' <= Interval /\ SinceFired' \in Nat
  <2> SUFFICES ASSUME timer # None
               PROVE  SinceFired' = SinceFired + 1 /\ SinceFired' <= Interval /\ SinceFired' \in Nat
    OBVIOUS
  <2>1. timer \in Nat /\ timer + 1 <= Interval /\ SinceFired = timer
    BY <1>1, <1>2, <1>4 DEF RestTyped, SinceFired
  <2>2. CASE timer + 1 = Interval
    <3>1. due' = TRUE
      BY <1>1, <2>2
    <3>2. SinceFired' = Interval
      BY <3>1 DEF SinceFired
    <3> QED
      BY <2>1, <2>2, <3>2
  <2>3. CASE timer + 1 # Interval
    <3>1. due' = FALSE
      BY <1>1, <2>3
    <3>2. SinceFired' = timer + 1
      BY <1>1, <3>1 DEF SinceFired
    <3> QED
      BY <2>1, <3>2
  <2> QED
    BY <2>2, <2>3
<1>9. \A c \in Conns \ refused' : since'[c] = 0
  BY <1>1
<1>10. EntriesOld'
  <2> SUFFICES ASSUME NEW c \in Conns, Counted(c)', cache'[c] # None
               PROVE  cache'[c] >= since'[c] \/ cache'[c] = OldEntry
    BY DEF EntriesOld
  <2>1. /\ cache[c] # None /\ cache'[c] = Least(cache[c] + 1, OldEntry) /\ cache[c] \in Nat
    BY <1>1, <1>2 DEF RestTyped
  <2>2. cache[c] >= since[c] \/ cache[c] = OldEntry
    BY <1>5, <2>1 DEF IInv, EntriesOld
  <2>3. since[c] \in Nat /\ since'[c] = since[c] + 1
    BY <1>5
  <2> QED
    BY <1>4, <2>1, <2>2, <2>3 DEF Least
<1>11. AnswersOld'
  <2> SUFFICES ASSUME NEW i \in Cycles, cycle'[i].stage = "asking", cycle'[i].accepted,
                      Counted(Head(cycle[i].todo))'
               PROVE  cycle'[i].age >= since'[Head(cycle'[i].todo)]
    BY DEF AnswersOld
  <2>1. PICK d : d = Head(cycle[i].todo)
    OBVIOUS
  <2>2. /\ d = Head(cycle'[i].todo) /\ cycle[i].stage = "asking" /\ cycle[i].accepted
        /\ d \in Conns /\ cycle[i].todo # <<>> /\ Counted(d)'
    BY <1>2, <1>6, <2>1, RunFact DEF Counted
  <2>3. /\ cycle'[i].age = cycle[i].age + 1 /\ cycle[i].age \in Nat
        /\ Counted(d) /\ since'[d] = since[d] + 1 /\ since[d] \in Nat
    BY <1>2, <1>5, <1>6, <2>2, RunFact
  <2>4. cycle[i].age >= since[d]
    BY <2>1, <2>2, <2>3 DEF IInv, AnswersOld
  <2> QED
    BY <2>2, <2>3, <2>4
<1>12. \A c \in Conns : Counted(c)' /\ since'[c] - SinceFired' >= Escapes => \E i \in Cycles : Examines(i, c)'
  <2> SUFFICES ASSUME NEW c \in Conns, Counted(c)', since'[c] - SinceFired' >= Escapes
               PROVE  \E i \in Cycles : Examines(i, c)'
    OBVIOUS
  <2>1. Counted(c) /\ since[c] \in Nat /\ since'[c] = since[c] + 1 /\ timer # None
    BY <1>5 DEF Counted
  <2>2. SinceFired \in Int
    BY <1>1, <1>2, <2>1 DEF SinceFired, RestTyped
  <2>3. since[c] - SinceFired >= Escapes
    BY <1>4, <1>8, <2>1, <2>2
  <2>4. PICK i \in Cycles : Examines(i, c)
    BY <2>1, <2>3 DEF IInv, Examined
  <2>5. cycle[i].age \in Nat /\ cycle[i].todo # <<>>
    BY <1>2, <2>4, RunFact DEF Examines, Listed
  <2>6. since'[c] - cycle'[i].age = since[c] - cycle[i].age
    BY <1>6, <2>1, <2>5
  <2> QED
    BY <1>6, <2>4, <2>6 DEF Examines
<1>13. RevokedInTime'
  <2> SUFFICES ASSUME NEW c \in Conns, Counted(c)' PROVE since'[c] <= Deadline
    BY <1>3 DEF RevokedInTime, Counted, RestTyped
  <2>1. /\ since[c] \in Nat /\ since[c] <= Deadline /\ since'[c] = since[c] + 1 /\ timer # None
    BY <1>5 DEF Counted
  <2>2. SUFFICES ASSUME since'[c] = Deadline + 1 PROVE FALSE
    BY <1>4, <2>1
  <2>3. since'[c] - SinceFired' >= Escapes
    BY <1>4, <1>8, <2>1, <2>2
  <2>4. PICK i \in Cycles : Examines(i, c)'
    BY <1>12, <2>3
  <2>5. cycle'[i].age \in 0..MaxDuration
    BY <1>3 DEF RunsTyped, Run
  <2>6. since'[c] - cycle'[i].age < Escapes + Interval
    BY <2>4 DEF Examines
  <2> QED
    BY <1>4, <2>2, <2>5, <2>6
<1>14. FailedAreRetried'
  BY <1>1, <1>2 DEF FailedAreRetried, RestTyped
<1> QED
  BY <1>3, <1>7, <1>9, <1>10, <1>11, <1>12, <1>13, <1>14 DEF IInv, Examined

-----------------------------------------------------------------------------
(* The invariant, and what follows from it. *)

LEMMA InitInv == Init => IInv
<1> SUFFICES ASSUME Init PROVE IInv
  OBVIOUS
<1>1. Idle \in Run /\ Idle.stage = "idle" /\ Idle.todo = <<>>
  BY ReauthenticationAssumption DEF Idle, Run
<1>2. /\ Deadline \in Nat /\ Interval \in Nat \ {0} /\ 0 \in 0..(Deadline + 1) /\ 0 \in 0..(Interval - 1)
  BY EscapesFact, ReauthenticationAssumption
<1>3. RunsTyped
  BY <1>1 DEF Init, RunsTyped
<1>4. RestTyped
  BY <1>2 DEF Init, RestTyped
<1>5. TypeOK
  BY <1>3, <1>4, TypeParts
<1>6. EntriesOld /\ AnswersOld /\ Examined /\ RevokedInTime /\ FailedAreRetried
  BY DEF Init, EntriesOld, AnswersOld, Examined, RevokedInTime, FailedAreRetried, Counted
<1>7. (due => timer = 0) /\ \A c \in Conns \ refused : since[c] = 0
  BY DEF Init
<1> QED
  BY <1>5, <1>6, <1>7 DEF IInv

LEMMA NextInv == ASSUME IInv, [Next]_vars PROVE IInv'
<1>1. CASE Tick
  BY <1>1, TickStep
<1>2. CASE \E c \in Conns : CredentialsEnd(c) \/ ClientLeaves(c)
  BY <1>2, CredentialsEndStep, ClientLeavesStep
<1>3. ASSUME NEW i \in Cycles, runCycle(i) \/ Settles(i) \/ Disconnected(i) \/ RevocationFails(i)
      PROVE  IInv'
  BY <1>3, runCycleStep, SucceedsStep, handleFailureStep, HookThrowsStep, DisconnectedStep,
     RevocationFailsStep DEF Settles
<1>4. CASE onApplicationShutdown
  BY <1>4, ShutdownStep
<1>5. CASE UNCHANGED vars
  <2>1. UNCHANGED <<timer, due, cycle, cache, open, refused, since, retry, failed, threw, stale>>
    BY <1>5 DEF vars
  <2> QED
    BY <2>1 DEF IInv, TypeOK, EntriesOld, AnswersOld, Examined, RevokedInTime, FailedAreRetried,
                Counted, Examines, SinceFired
<1> QED
  BY <1>1, <1>2, <1>3, <1>4, <1>5 DEF Next

\* However long the cycles take, overlap and share the cache, they stay within the invariant
\* (runCycle, revoke, handleFailure).
THEOREM Invariance == Spec => []IInv
  BY InitInv, NextInv, PTL DEF Spec

\* A connection whose credentials ended is disconnected within the cache's time, an interval and
\* the length of a cycle, unless its revocation failed; a refused connection is in the cache only
\* through a success asked for earlier (runCycle, handleFailure).
THEOREM RefusalTakesEffect == Spec => []RefusalsTakeEffect
<1>1. IInv => RefusalsTakeEffect
  BY DEF IInv, RefusalsTakeEffect
<1> QED
  BY <1>1, Invariance, PTL

=============================================================================
