-------------------------- MODULE ReactClientProofs --------------------------
(***************************************************************************)
(* ReactClient for any budget of attempts and any bounds: the inductive    *)
(* invariant behind its safety properties, in one part for each branch.    *)
(***************************************************************************)
EXTENDS ReactClient, TLAPS

-----------------------------------------------------------------------------
(* The inductive invariant. *)

\* One source at most, the one the ref holds; one timer at most, and timerRef holds it; once
\* an extra source was opened no timer is left, nor a budget to arm one.
SourcesConsistent(hook) ==
    /\ hook \in SseHook
    /\ Live(hook) \subseteq {hook.ref}
    /\ hook.timers <= 1
    /\ hook.kept <=> hook.timers = 1
    /\ hook.extra <= 1
    /\ hook.extra > 0 => hook.timers = 0 /\ Exhausted(hook.attempts)

Opened(hook) == \E s \in Sources : hook.stream[s] = "open"

\* What useRealtimeSse shows, and that it is silent while it is disabled and nobody calls
\* the reconnect it handed out.
SseConsistent ==
    /\ SourcesConsistent(sse)
    /\ active # "sse" => sse.late \/ (Live(sse) = {} /\ sse.timers = 0)
    /\ sse.timers > 0 => ~Opened(sse)
    /\ Opened(sse) => sse.connected
    /\ active = "sse" /\ sse.connected => sse.reopened \/ Opened(sse)

\* A call of connect that nothing has overtaken is the last one under way, and until it is
\* done the ref holds nothing, or a socket of a call that was overtaken.
ImportsConsistent ==
    /\ \A i \in DOMAIN ws.imports : ~ws.imports[i] => i = Len(ws.imports) /\ active = "websocket"
    /\ ws.imports # <<>> => ws.ref = None \/ ws.ref \in ws.strays

\* What useRealtimeWs shows, and that a socket of its own is the one of the ref.
WsConsistent ==
    /\ ws \in WsHook
    /\ ImportsConsistent
    /\ SocketsAccounted
    /\ active = "websocket" /\ ws.connected => \E k \in Sockets : ws.socket[k] = "up"
    /\ active = "websocket" /\ ws.strays = {} =>
           (ws.connected <=> ws.ref # None /\ ws.socket[ws.ref] = "up")

IInv ==
    /\ active \in Transports \cup {"none"}
    /\ given \subseteq Transports
    /\ maxAttempts \in Budgets
    /\ reachable \in BOOLEAN
    /\ SseConsistent
    /\ WsConsistent

-----------------------------------------------------------------------------
(* The operators of useRealtimeSse. *)

\* What closing the source, or a timer, leaves as it was.
Keeps(hook, next) ==
    /\ next.attempts = hook.attempts /\ next.connected = hook.connected
    /\ next.reopened = hook.reopened /\ next.extra = hook.extra /\ next.late = hook.late

\* closeSource closes the only source there is.
LEMMA CloseSourceFact ==
    ASSUME NEW hook \in SseHook, Live(hook) \subseteq {hook.ref}
    PROVE  /\ closeSource(hook) \in SseHook
           /\ Live(closeSource(hook)) = {}
           /\ closeSource(hook).ref = hook.ref
           /\ closeSource(hook).timers = hook.timers /\ closeSource(hook).kept = hook.kept
           /\ Keeps(hook, closeSource(hook))
<1>1. CASE hook.ref = None
  <2>1. closeSource(hook) = hook
    BY <1>1 DEF closeSource
  <2>2. Live(hook) = {}
    BY <1>1, ReactAssumption DEF Live
  <2> QED
    BY <2>1, <2>2 DEF Keeps
<1>2. CASE hook.ref # None
  <2> DEFINE next == closeSource(hook)
  <2>1. next = [hook EXCEPT !.stream[hook.ref] = "closed"]
    BY <1>2 DEF closeSource
  <2>2. hook.ref \in Sources
    BY <1>2 DEF SseHook
  <2>3. next \in SseHook
    BY <2>1, <2>2 DEF SseHook
  <2>4. /\ next.ref = hook.ref /\ next.timers = hook.timers /\ next.kept = hook.kept
        /\ Keeps(hook, next)
    BY <2>1 DEF SseHook, Keeps
  <2>5. \A s \in Sources : next.stream[s] = "closed"
    BY <2>1, <2>2 DEF SseHook, Live
  <2> HIDE DEF next
  <2>6. Live(next) = {}
    BY <2>5 DEF Live
  <2> QED
    BY <2>3, <2>4, <2>6 DEF next
<1> QED
  BY <1>1, <1>2

\* clearReconnectTimer leaves no timer when timerRef holds the one that is armed.
LEMMA ClearTimerFact ==
    ASSUME NEW hook \in SseHook, hook.timers <= 1, hook.kept <=> hook.timers = 1
    PROVE  /\ clearReconnectTimer(hook) \in SseHook
           /\ clearReconnectTimer(hook).timers = 0 /\ ~clearReconnectTimer(hook).kept
           /\ clearReconnectTimer(hook).stream = hook.stream /\ clearReconnectTimer(hook).ref = hook.ref
           /\ Keeps(hook, clearReconnectTimer(hook))
<1> DEFINE left == IF hook.kept THEN hook.timers - 1 ELSE hook.timers
           mid  == [hook EXCEPT !.timers = left]
           next == [mid EXCEPT !.kept = FALSE]
<1>1. hook.timers \in 0..2 /\ hook.kept \in BOOLEAN
  BY DEF SseHook
<1>2. left = 0
  BY <1>1
<1>3. clearReconnectTimer(hook) = next
  BY DEF clearReconnectTimer, SseHook
<1> HIDE DEF left
<1>4. mid \in SseHook /\ mid.timers = 0 /\ mid.stream = hook.stream /\ mid.ref = hook.ref
      /\ Keeps(hook, mid)
  BY <1>2 DEF SseHook, Keeps
<1> HIDE DEF mid
<1>5. /\ next \in SseHook /\ next.timers = 0 /\ ~next.kept
      /\ next.stream = hook.stream /\ next.ref = hook.ref /\ Keeps(hook, next)
  BY <1>4 DEF SseHook, Keeps
<1> HIDE DEF next
<1> QED
  BY <1>3, <1>5

\* connect leaves one source, the new one, and no timer.
LEMMA ConnectSseFact ==
    ASSUME NEW hook, SourcesConsistent(hook)
    PROVE  /\ connectSse(hook) \in SseHook
           /\ \E s \in Sources : /\ connectSse(hook).ref = s
                                 /\ connectSse(hook).stream[s] = "connecting"
                                 /\ Live(connectSse(hook)) = {s}
           /\ connectSse(hook).timers = 0 /\ ~connectSse(hook).kept
           /\ ~Opened(connectSse(hook))
           /\ Keeps(hook, connectSse(hook))
<1> DEFINE quiet  == clearReconnectTimer(closeSource(hook))
           source == CHOOSE s \in Sources : quiet.stream[s] = "closed"
           next   == [quiet EXCEPT !.stream[source] = "connecting", !.ref = source]
<1>1. /\ hook \in SseHook /\ Live(hook) \subseteq {hook.ref}
      /\ hook.timers <= 1 /\ (hook.kept <=> hook.timers = 1)
  BY DEF SourcesConsistent
<1>2. /\ closeSource(hook) \in SseHook /\ Live(closeSource(hook)) = {}
      /\ closeSource(hook).timers <= 1 /\ (closeSource(hook).kept <=> closeSource(hook).timers = 1)
      /\ Keeps(hook, closeSource(hook))
  BY <1>1, CloseSourceFact
<1>3. /\ quiet \in SseHook /\ quiet.timers = 0 /\ ~quiet.kept
      /\ quiet.stream = closeSource(hook).stream
      /\ Keeps(closeSource(hook), quiet)
  BY <1>2, ClearTimerFact
<1>4. \A s \in Sources : quiet.stream[s] = "closed"
  BY <1>2, <1>3 DEF Live
<1>5. connectSse(hook) = next
  BY DEF connectSse
<1>6. Keeps(hook, quiet)
  BY <1>2, <1>3 DEF Keeps
<1> HIDE DEF quiet
<1>7. source \in Sources
  BY <1>4, ReactAssumption
<1> HIDE DEF source
<1>8. next \in SseHook /\ next.timers = 0 /\ ~next.kept /\ Keeps(hook, next) /\ next.ref = source
  BY <1>3, <1>6, <1>7 DEF SseHook, Keeps
<1>9. /\ next.stream[source] = "connecting"
      /\ \A s \in Sources : s # source => next.stream[s] = "closed"
  BY <1>3, <1>4, <1>7 DEF SseHook
<1> HIDE DEF next
<1>10. Live(next) = {source} /\ ~Opened(next)
  BY <1>7, <1>9 DEF Live, Opened
<1> QED
  BY <1>5, <1>7, <1>8, <1>9, <1>10

\* The cleanup of the effect leaves neither.
LEMMA CleanupSseFact ==
    ASSUME NEW hook, SourcesConsistent(hook)
    PROVE  /\ SourcesConsistent(cleanupSse(hook))
           /\ Live(cleanupSse(hook)) = {} /\ cleanupSse(hook).timers = 0
<1> DEFINE quiet == clearReconnectTimer(hook)
           shut  == closeSource(quiet)
           next  == [shut EXCEPT !.ref = None]
<1>1. /\ hook \in SseHook /\ Live(hook) \subseteq {hook.ref}
      /\ hook.timers <= 1 /\ (hook.kept <=> hook.timers = 1)
      /\ hook.extra <= 1 /\ (hook.extra > 0 => Exhausted(hook.attempts))
  BY DEF SourcesConsistent
<1>2. /\ quiet \in SseHook /\ quiet.timers = 0 /\ ~quiet.kept
      /\ quiet.stream = hook.stream /\ quiet.ref = hook.ref /\ Keeps(hook, quiet)
  BY <1>1, ClearTimerFact
<1>3. Live(quiet) \subseteq {quiet.ref}
  BY <1>1, <1>2 DEF Live
<1>4. cleanupSse(hook) = next
  BY DEF cleanupSse
<1> HIDE DEF quiet
<1>5. /\ shut \in SseHook /\ Live(shut) = {}
      /\ shut.timers = 0 /\ ~shut.kept /\ Keeps(quiet, shut)
  BY <1>2, <1>3, CloseSourceFact
<1> HIDE DEF shut
<1>6. /\ next \in SseHook /\ next.stream = shut.stream /\ next.timers = 0 /\ ~next.kept
      /\ Keeps(shut, next)
  BY <1>5 DEF SseHook, Keeps
<1>7. Live(next) = {} /\ next.extra = hook.extra /\ next.attempts = hook.attempts
  BY <1>2, <1>5, <1>6 DEF Live, Keeps
<1> HIDE DEF next
<1> QED
  BY <1>1, <1>4, <1>6, <1>7 DEF SourcesConsistent

\* onopen: the source is open, and no timer is left to replace it.
LEMMA OnopenFact ==
    ASSUME NEW hook, SourcesConsistent(hook), NEW s \in Live(hook)
    PROVE  /\ SourcesConsistent(onopen(hook, s))
           /\ onopen(hook, s).timers = 0
           /\ onopen(hook, s).stream[s] = "open" /\ onopen(hook, s).connected
           /\ onopen(hook, s).extra = 0 /\ onopen(hook, s).late = hook.late
<1> DEFINE quiet == clearReconnectTimer(hook)
           a     == [quiet EXCEPT !.stream[s] = "open"]
           b     == [a EXCEPT !.connected = TRUE, !.attempts = 0]
           next  == [b EXCEPT !.reopened = FALSE, !.extra = 0]
<1>1. /\ hook \in SseHook /\ Live(hook) \subseteq {hook.ref}
      /\ hook.timers <= 1 /\ (hook.kept <=> hook.timers = 1)
  BY DEF SourcesConsistent
<1>2. s \in Sources /\ s = hook.ref
  BY <1>1 DEF Live
<1>3. /\ quiet \in SseHook /\ quiet.timers = 0 /\ ~quiet.kept
      /\ quiet.stream = hook.stream /\ quiet.ref = hook.ref /\ quiet.late = hook.late
  BY <1>1, ClearTimerFact DEF Keeps
<1>4. onopen(hook, s) = next
  BY DEF onopen
<1>5. 0 \in 0..MaxCounted
  BY ReactAssumption
<1> HIDE DEF quiet
<1>6. /\ a \in SseHook /\ a.timers = 0 /\ ~a.kept /\ a.ref = s /\ a.stream[s] = "open"
      /\ a.late = hook.late
      /\ \A t \in Sources : t # s => a.stream[t] = hook.stream[t]
  BY <1>2, <1>3 DEF SseHook
<1> HIDE DEF a
<1>7. /\ b \in SseHook /\ b.timers = 0 /\ ~b.kept /\ b.ref = s /\ b.stream = a.stream /\ b.connected
      /\ b.late = hook.late
  BY <1>5, <1>6 DEF SseHook
<1> HIDE DEF b
<1>8. /\ next \in SseHook /\ next.timers = 0 /\ ~next.kept /\ next.ref = s /\ next.stream = a.stream
      /\ next.connected /\ next.extra = 0 /\ next.late = hook.late
  BY <1>7 DEF SseHook
<1> HIDE DEF next
<1>9. Live(next) \subseteq {next.ref}
  BY <1>1, <1>2, <1>6, <1>8 DEF Live
<1> QED
  BY <1>4, <1>6, <1>8, <1>9 DEF SourcesConsistent

\* What a failure does first.
LEMMA FailedFact ==
    ASSUME NEW hook, SourcesConsistent(hook), NEW s \in Live(hook), NEW fatal \in BOOLEAN
    PROVE  LET next == Failed(hook, s, fatal)
           IN  /\ next \in SseHook /\ next.ref = s /\ s \in Sources
               /\ next.timers = hook.timers /\ next.kept = hook.kept /\ next.extra = hook.extra
               /\ ~next.connected /\ ~Opened(next) /\ Live(next) \subseteq {s}
               /\ next.attempts >= hook.attempts /\ next.late = hook.late
<1> DEFINE state == IF fatal THEN "closed" ELSE "connecting"
           count == IF hook.attempts < MaxCounted THEN hook.attempts + 1 ELSE hook.attempts
           a     == [hook EXCEPT !.stream[s] = state]
           b     == [a EXCEPT !.connected = FALSE, !.reopened = FALSE]
           next  == [b EXCEPT !.attempts = count]
<1>1. /\ hook \in SseHook /\ Live(hook) \subseteq {hook.ref}
  BY DEF SourcesConsistent
<1>2. s \in Sources /\ s = hook.ref
  BY <1>1 DEF Live
<1>3. state \in {"closed", "connecting"}
  OBVIOUS
<1>4. hook.attempts \in 0..MaxCounted /\ count \in 0..MaxCounted /\ count >= hook.attempts
  BY <1>1, ReactAssumption DEF SseHook
<1>5. Failed(hook, s, fatal) = next
  BY <1>1 DEF Failed, SseHook
<1> HIDE DEF state, count
<1>6. /\ a \in SseHook /\ a.ref = s /\ a.stream[s] = state
      /\ a.timers = hook.timers /\ a.kept = hook.kept /\ a.extra = hook.extra /\ a.late = hook.late
      /\ \A t \in Sources : t # s => a.stream[t] = "closed"
  BY <1>1, <1>2, <1>3 DEF SseHook, Live
<1> HIDE DEF a
<1>7. /\ b \in SseHook /\ b.ref = s /\ b.stream = a.stream /\ ~b.connected
      /\ b.timers = hook.timers /\ b.kept = hook.kept /\ b.extra = hook.extra /\ b.late = hook.late
  BY <1>6 DEF SseHook
<1> HIDE DEF b
<1>8. /\ next \in SseHook /\ next.ref = s /\ next.stream = a.stream /\ ~next.connected
      /\ next.timers = hook.timers /\ next.kept = hook.kept /\ next.extra = hook.extra
      /\ next.attempts = count /\ next.late = hook.late
  BY <1>4, <1>7 DEF SseHook
<1> HIDE DEF next
<1>9. ~Opened(next) /\ Live(next) \subseteq {s}
  BY <1>3, <1>6, <1>8 DEF Opened, Live
<1>10. /\ next \in SseHook /\ next.ref = s /\ s \in Sources
       /\ next.timers = hook.timers /\ next.kept = hook.kept /\ next.extra = hook.extra
       /\ ~next.connected /\ ~Opened(next) /\ Live(next) \subseteq {s}
       /\ next.attempts >= hook.attempts /\ next.late = hook.late
  BY <1>2, <1>4, <1>8, <1>9
<1> QED
  BY <1>5, <1>10

\* onerror: no source is open, and one timer at most is armed, none once the budget is spent
\* and an extra source has been tried.
LEMMA OnerrorFact ==
    ASSUME maxAttempts \in Budgets, NEW hook, SourcesConsistent(hook), NEW s \in Live(hook),
           NEW fatal \in BOOLEAN
    PROVE  LET next == onerror(hook, s, fatal)
           IN  SourcesConsistent(next) /\ ~next.connected /\ ~Opened(next) /\ next.late = hook.late
<1> DEFINE failed == Failed(hook, s, fatal)
           next   == onerror(hook, s, fatal)
<1>1. /\ failed \in SseHook /\ failed.ref = s /\ s \in Sources
      /\ failed.timers = hook.timers /\ failed.kept = hook.kept /\ failed.extra = hook.extra
      /\ ~failed.connected /\ ~Opened(failed) /\ Live(failed) \subseteq {s}
      /\ failed.attempts >= hook.attempts /\ failed.late = hook.late
  BY FailedFact
<1>2. /\ hook \in SseHook /\ hook.timers <= 1 /\ (hook.kept <=> hook.timers = 1) /\ hook.extra <= 1
      /\ hook.extra > 0 => hook.timers = 0 /\ Exhausted(hook.attempts)
  BY DEF SourcesConsistent
<1>3. next = IF Exhausted(failed.attempts)
             THEN [failed EXCEPT !.stream[s] = "closed"]
             ELSE arm(clearReconnectTimer(failed))
  BY DEF onerror
<1> HIDE DEF failed, next
<1>4. CASE Exhausted(failed.attempts)
  <2>1. next = [failed EXCEPT !.stream[s] = "closed"]
    BY <1>3, <1>4
  <2>2. /\ next \in SseHook /\ next.ref = s /\ next.timers = hook.timers /\ next.kept = hook.kept
        /\ next.extra = hook.extra /\ next.attempts = failed.attempts /\ ~next.connected
        /\ next.late = hook.late
        /\ next.stream[s] = "closed" /\ \A t \in Sources : t # s => next.stream[t] = failed.stream[t]
    BY <1>1, <2>1 DEF SseHook
  <2>3. Live(next) = {} /\ ~Opened(next)
    BY <1>1, <2>2 DEF Live, Opened
  <2>4. SourcesConsistent(next)
    BY <1>2, <1>4, <2>2, <2>3 DEF SourcesConsistent
  <2> QED
    BY <2>2, <2>3, <2>4 DEF next
<1>5. CASE ~Exhausted(failed.attempts)
  <2> DEFINE quiet == clearReconnectTimer(failed)
  <2>1. next = [quiet EXCEPT !.timers = quiet.timers + 1, !.kept = TRUE]
    BY <1>3, <1>5 DEF arm
  <2>2. failed.timers <= 1 /\ (failed.kept <=> failed.timers = 1)
    BY <1>1, <1>2
  <2>3. /\ quiet \in SseHook /\ quiet.timers = 0 /\ quiet.stream = failed.stream /\ quiet.ref = s
        /\ Keeps(failed, quiet)
    BY <1>1, <2>2, ClearTimerFact
  <2> HIDE DEF quiet
  <2>4. next = [quiet EXCEPT !.timers = 1, !.kept = TRUE]
    BY <2>1, <2>3
  <2> DEFINE mid == [quiet EXCEPT !.timers = 1]
  <2>5. next = [mid EXCEPT !.kept = TRUE]
    BY <2>4
  <2>6. /\ mid \in SseHook /\ mid.timers = 1 /\ mid.stream = failed.stream /\ mid.ref = s
        /\ Keeps(failed, mid)
    BY <2>3 DEF SseHook, Keeps
  <2> HIDE DEF mid
  <2>7. /\ next \in SseHook /\ next.timers = 1 /\ next.kept /\ next.stream = failed.stream /\ next.ref = s
        /\ Keeps(failed, next)
    BY <2>5, <2>6 DEF SseHook, Keeps
  <2>8. hook.extra = 0
    <3>1. hook.attempts \in Nat /\ failed.attempts \in Nat /\ hook.extra \in 0..2
      BY <1>1, <1>2, ReactAssumption DEF SseHook
    <3>2. maxAttempts # Unset => maxAttempts \in Int
      BY ReactAssumption
    <3> QED
      BY <1>1, <1>2, <1>5, <3>1, <3>2 DEF Exhausted
  <2>9. /\ Live(next) \subseteq {s} /\ ~Opened(next) /\ ~next.connected /\ next.extra = 0
        /\ next.late = hook.late
    BY <1>1, <2>7, <2>8 DEF Live, Opened, Keeps
  <2>10. SourcesConsistent(next)
    BY <2>7, <2>9 DEF SourcesConsistent
  <2> QED
    BY <2>9, <2>10 DEF next
<1> QED
  BY <1>4, <1>5

-----------------------------------------------------------------------------
(* useRealtimeSse, one action at a time. *)

LEMMA TimerStep == ASSUME IInv, TimerFires PROVE SseConsistent'
<1> DEFINE fired  == [sse EXCEPT !.timers = @ - 1, !.kept = @ /\ sse.timers > 1]
           opened == connectSse(fired)
           next   == [opened EXCEPT !.extra = 1]
<1>1. /\ SourcesConsistent(sse) /\ sse.timers > 0 /\ UNCHANGED <<active, maxAttempts>>
      /\ active = "sse" \/ sse.late
      /\ ~Opened(sse) /\ (active = "sse" /\ sse.connected => sse.reopened)
  BY DEF IInv, SseConsistent, TimerFires, SourcesConsistent, SseHook
<1>2. /\ sse \in SseHook /\ sse.timers = 1 /\ sse.extra = 0
      /\ Live(sse) \subseteq {sse.ref}
  BY <1>1 DEF SourcesConsistent, SseHook
<1>3. /\ fired \in SseHook /\ fired.timers = 0 /\ ~fired.kept /\ fired.stream = sse.stream
      /\ fired.ref = sse.ref /\ Keeps(sse, fired)
  <2> DEFINE left  == sse.timers - 1
             stays == sse.kept /\ sse.timers > 1
             mid   == [sse EXCEPT !.timers = left]
             done  == [mid EXCEPT !.kept = stays]
  <2>1. left = 0 /\ stays = FALSE
    BY <1>2
  <2>2. fired = done
    BY DEF SseHook
  <2> HIDE DEF left, stays
  <2>3. /\ mid \in SseHook /\ mid.timers = 0 /\ mid.stream = sse.stream /\ mid.ref = sse.ref
        /\ Keeps(sse, mid)
    BY <1>2, <2>1 DEF SseHook, Keeps
  <2> HIDE DEF mid
  <2>4. /\ done \in SseHook /\ done.timers = 0 /\ ~done.kept /\ done.stream = sse.stream
        /\ done.ref = sse.ref /\ Keeps(sse, done)
    BY <2>1, <2>3 DEF SseHook, Keeps
  <2> QED
    BY <2>2, <2>4
<1>4. sse' = IF Exhausted(sse.attempts) THEN next ELSE opened
  <2>1. opened.extra = 0
    <3>1. SourcesConsistent(fired)
      BY <1>2, <1>3 DEF SourcesConsistent, Live, Keeps
    <3> QED
      BY <1>2, <1>3, <3>1, ConnectSseFact DEF Keeps
  <2>2. sse' = IF Exhausted(sse.attempts) /\ sse.extra < 2
               THEN [opened EXCEPT !.extra = opened.extra + 1] ELSE opened
    BY DEF TimerFires
  <2> QED
    BY <1>2, <2>1, <2>2
<1> HIDE DEF fired
<1>5. SourcesConsistent(fired)
  BY <1>2, <1>3 DEF SourcesConsistent, Live, Keeps
<1>6. /\ opened \in SseHook /\ Live(opened) \subseteq {opened.ref} /\ opened.timers = 0 /\ ~opened.kept
      /\ ~Opened(opened) /\ Keeps(sse, opened)
  BY <1>3, <1>5, ConnectSseFact DEF Keeps
<1> HIDE DEF opened
<1>7. /\ next \in SseHook /\ next.stream = opened.stream /\ next.ref = opened.ref
      /\ next.timers = 0 /\ ~next.kept /\ next.extra = 1 /\ next.attempts = sse.attempts
      /\ next.connected = sse.connected /\ next.reopened = sse.reopened /\ next.late = sse.late
  BY <1>6 DEF SseHook, Keeps
<1>8. ~Opened(next) /\ Live(next) \subseteq {next.ref}
  BY <1>6, <1>7 DEF Opened, Live
<1> HIDE DEF next
<1>9. SourcesConsistent(sse')
  <2>1. CASE Exhausted(sse.attempts)
    BY <1>4, <1>7, <1>8, <2>1 DEF SourcesConsistent
  <2>2. CASE ~Exhausted(sse.attempts)
    BY <1>2, <1>4, <1>6, <2>2 DEF SourcesConsistent, Keeps
  <2> QED
    BY <2>1, <2>2
<1>10. /\ ~Opened(sse') /\ sse'.timers = 0 /\ sse'.late = sse.late
       /\ active = "sse" /\ sse'.connected => sse'.reopened
  BY <1>1, <1>4, <1>6, <1>7, <1>8 DEF Keeps
<1> QED
  BY <1>1, <1>9, <1>10 DEF SseConsistent, SourcesConsistent, Live, Opened, Exhausted

LEMMA StreamOpensStep == ASSUME IInv, StreamOpens PROVE SseConsistent'
<1>1. /\ SourcesConsistent(sse) /\ UNCHANGED <<active, maxAttempts>>
      /\ active # "sse" => sse.late \/ Live(sse) = {}
  BY DEF IInv, SseConsistent, StreamOpens
<1>2. PICK s \in Live(sse) : sse' = onopen(sse, s)
  BY DEF StreamOpens, Live
<1>3. /\ SourcesConsistent(sse') /\ sse'.timers = 0 /\ sse'.stream[s] = "open" /\ sse'.connected
      /\ sse'.late = sse.late
  BY <1>1, <1>2, OnopenFact
<1>4. s \in Sources /\ (active = "sse" \/ sse.late)
  BY <1>1, <1>2 DEF Live
<1> QED
  BY <1>1, <1>3, <1>4 DEF SseConsistent, SourcesConsistent, Live, Opened, Exhausted

LEMMA StreamFailsStep == ASSUME IInv, StreamFails PROVE SseConsistent'
<1>1. /\ SourcesConsistent(sse) /\ UNCHANGED <<active, maxAttempts>> /\ maxAttempts \in Budgets
      /\ active # "sse" => sse.late \/ Live(sse) = {}
  BY DEF IInv, SseConsistent, StreamFails
<1>2. PICK s \in Live(sse), fatal \in BOOLEAN : sse' = onerror(sse, s, fatal)
  BY DEF StreamFails
<1>3. SourcesConsistent(sse') /\ ~sse'.connected /\ ~Opened(sse') /\ sse'.late = sse.late
  BY <1>1, <1>2, OnerrorFact
<1>4. active = "sse" \/ sse.late
  BY <1>1, <1>2
<1> QED
  BY <1>1, <1>3, <1>4 DEF SseConsistent, SourcesConsistent, Live, Opened, Exhausted

\* The application replaces the source, at a commit or by reconnect().
LEMMA ReplacedFact ==
    ASSUME NEW hook, SourcesConsistent(hook), NEW late \in BOOLEAN, NEW next,
           \/ next = [connectSse(hook) EXCEPT !.reopened = TRUE, !.extra = 0, !.late = late]
           \/ next = [connectSse(hook) EXCEPT !.attempts = 0, !.reopened = TRUE, !.extra = 0, !.late = late]
    PROVE  /\ SourcesConsistent(next) /\ ~Opened(next) /\ next.timers = 0 /\ next.reopened
           /\ next.late = late
<1> DEFINE opened == connectSse(hook)
           mid    == [opened EXCEPT !.attempts = 0]
<1>1. /\ opened \in SseHook /\ Live(opened) \subseteq {opened.ref} /\ opened.timers = 0 /\ ~opened.kept
      /\ ~Opened(opened)
  BY ConnectSseFact
<1> HIDE DEF opened
<1>2. 0 \in 0..MaxCounted
  BY ReactAssumption
<1>3. /\ mid \in SseHook /\ mid.stream = opened.stream /\ mid.ref = opened.ref /\ mid.timers = 0
      /\ ~mid.kept
  BY <1>1, <1>2 DEF SseHook
<1>4. \/ next = [opened EXCEPT !.reopened = TRUE, !.extra = 0, !.late = late]
      \/ next = [mid EXCEPT !.reopened = TRUE, !.extra = 0, !.late = late]
  BY DEF opened, mid
<1> HIDE DEF mid
<1>5. /\ next \in SseHook /\ next.stream = opened.stream /\ next.ref = opened.ref /\ next.timers = 0
      /\ ~next.kept /\ next.extra = 0 /\ next.reopened /\ next.late = late
  BY <1>1, <1>3, <1>4 DEF SseHook
<1> QED
  BY <1>1, <1>5 DEF SourcesConsistent, Live, Opened

LEMMA CommitSseStep == ASSUME IInv, Commit PROVE SseConsistent'
<1> DEFINE cleanS == IF active = "sse" THEN cleanupSse(sse) ELSE sse
<1>1. /\ SourcesConsistent(sse) /\ (active # "sse" => sse.late \/ (Live(sse) = {} /\ sse.timers = 0))
      /\ (sse.timers > 0 => ~Opened(sse)) /\ (Opened(sse) => sse.connected)
  BY DEF IInv, SseConsistent
<1>2. /\ SourcesConsistent(cleanS)
      /\ cleanS.late \/ (Live(cleanS) = {} /\ cleanS.timers = 0)
      /\ (cleanS.timers > 0 => ~Opened(cleanS)) /\ (Opened(cleanS) => cleanS.connected)
  <2>1. CASE active = "sse"
    <3>1. SourcesConsistent(cleanS) /\ Live(cleanS) = {} /\ cleanS.timers = 0
      BY <1>1, <2>1, CleanupSseFact
    <3> HIDE DEF cleanS
    <3> QED
      BY <3>1 DEF Live, Opened
  <2>2. CASE active # "sse"
    BY <1>1, <2>2
  <2> QED
    BY <2>1, <2>2
<1>3. PICK branch : /\ active' = branch /\ UNCHANGED maxAttempts
                    /\ sse' = IF branch = "sse"
                              THEN [connectSse(cleanS) EXCEPT !.reopened = TRUE, !.extra = 0,
                                                              !.late = FALSE]
                              ELSE cleanS
  BY DEF Commit
<1> HIDE DEF cleanS
<1>4. CASE branch = "sse"
  <2>1. sse' = [connectSse(cleanS) EXCEPT !.reopened = TRUE, !.extra = 0, !.late = FALSE]
    BY <1>3, <1>4
  <2>2. SourcesConsistent(sse') /\ ~Opened(sse') /\ sse'.timers = 0 /\ sse'.reopened
    BY <1>2, <2>1, ReplacedFact
  <2> QED
    BY <1>3, <1>4, <2>2 DEF SseConsistent, SourcesConsistent, Live, Opened, Exhausted
<1>5. CASE branch # "sse"
  <2>1. sse' = cleanS
    BY <1>3, <1>5
  <2> QED
    BY <1>2, <1>3, <1>5, <2>1 DEF SseConsistent, SourcesConsistent, Live, Opened, Exhausted
<1> QED
  BY <1>4, <1>5

LEMMA UnmountSseStep == ASSUME IInv, Unmount PROVE SseConsistent'
<1>1. /\ SourcesConsistent(sse) /\ (active # "sse" => sse.late \/ (Live(sse) = {} /\ sse.timers = 0))
      /\ (sse.timers > 0 => ~Opened(sse)) /\ (Opened(sse) => sse.connected)
  BY DEF IInv, SseConsistent
<1>2. active' = "none" /\ UNCHANGED maxAttempts /\ sse' = IF active = "sse" THEN cleanupSse(sse) ELSE sse
  BY DEF Unmount
<1>3. CASE active = "sse"
  <2>1. SourcesConsistent(sse') /\ Live(sse') = {} /\ sse'.timers = 0
    BY <1>1, <1>2, <1>3, CleanupSseFact
  <2>2. ~Opened(sse')
    BY <2>1 DEF Live, Opened
  <2> QED
    BY <1>2, <2>1, <2>2 DEF SseConsistent, SourcesConsistent, Live, Opened, Exhausted
<1>4. CASE active # "sse"
  BY <1>1, <1>2, <1>4 DEF SseConsistent, SourcesConsistent, Live, Opened, Exhausted
<1> QED
  BY <1>3, <1>4

LEMMA ReconnectSseStep == ASSUME IInv, reconnect PROVE SseConsistent'
<1> DEFINE late == active # "sse"
<1>1. SseConsistent /\ SourcesConsistent(sse) /\ UNCHANGED <<active, maxAttempts>>
  BY DEF IInv, SseConsistent, reconnect
<1>2. CASE UNCHANGED sse
  BY <1>1, <1>2 DEF SseConsistent, SourcesConsistent, Live, Opened, Exhausted
<1>3. CASE sse' = [connectSse(sse) EXCEPT !.attempts = 0, !.reopened = TRUE, !.extra = 0, !.late = late]
  <2>1. late \in BOOLEAN
    OBVIOUS
  <2> HIDE DEF late
  <2>2. /\ SourcesConsistent(sse') /\ ~Opened(sse') /\ sse'.timers = 0 /\ sse'.reopened
        /\ sse'.late = late
    BY <1>1, <1>3, <2>1, ReplacedFact
  <2> QED
    BY <1>1, <2>2 DEF late, SseConsistent, SourcesConsistent, Live, Opened, Exhausted
<1> QED
  BY <1>2, <1>3 DEF reconnect


-----------------------------------------------------------------------------
(* The operators of useRealtimeWs. *)

\* Every socket that is alive is a stray one or, where the branch is on, the one of the ref.
Accounted(hook, on) ==
    \A k \in Sockets : hook.socket[k] # "off" => k \in hook.strays \/ (on /\ k = hook.ref)

\* disposeSocket leaves nothing but strays.
LEMMA DisposeFact ==
    ASSUME NEW hook \in WsHook, Accounted(hook, TRUE)
    PROVE  /\ disposeSocket(hook) \in WsHook
           /\ disposeSocket(hook).ref = None
           /\ disposeSocket(hook).imports = hook.imports
           /\ disposeSocket(hook).connected = hook.connected
           /\ Accounted(disposeSocket(hook), FALSE)
<1>1. CASE hook.ref = None
  <2>1. disposeSocket(hook) = hook
    BY <1>1 DEF disposeSocket
  <2>2. Accounted(hook, FALSE)
    BY <1>1, ReactAssumption DEF Accounted
  <2> QED
    BY <1>1, <2>1, <2>2
<1>2. CASE hook.ref # None
  <2> DEFINE shut == [hook EXCEPT !.socket[hook.ref] = "off"]
             rest == hook.strays \ {hook.ref}
             next == [shut EXCEPT !.ref = None, !.strays = rest]
  <2>1. disposeSocket(hook) = next
    BY <1>2 DEF disposeSocket, WsHook
  <2>2. hook.ref \in Sockets
    BY <1>2 DEF WsHook
  <2>3. /\ shut \in WsHook /\ shut.imports = hook.imports /\ shut.connected = hook.connected
        /\ shut.socket[hook.ref] = "off"
        /\ \A k \in Sockets : k # hook.ref => shut.socket[k] = hook.socket[k]
    BY <2>2 DEF WsHook
  <2>4. rest \in SUBSET Sockets
    BY DEF WsHook
  <2>5. \A k \in Sockets : k \in hook.strays /\ k # hook.ref => k \in rest
    OBVIOUS
  <2> HIDE DEF shut, rest
  <2>6. /\ next \in WsHook /\ next.ref = None /\ next.strays = rest /\ next.socket = shut.socket
        /\ next.imports = hook.imports /\ next.connected = hook.connected
    BY <2>3, <2>4 DEF WsHook
  <2> HIDE DEF next
  <2>7. Accounted(next, FALSE)
    BY <2>3, <2>5, <2>6 DEF Accounted
  <2> QED
    BY <2>1, <2>6, <2>7
<1> QED
  BY <1>1, <1>2

\* A call that is overtaken stays under way.
LEMMA OvertakenFact ==
    ASSUME NEW calls \in Seq(BOOLEAN)
    PROVE  /\ Overtaken(calls) \in Seq(BOOLEAN)
           /\ Len(Overtaken(calls)) = Len(calls)
           /\ \A i \in 1..Len(calls) : Overtaken(calls)[i]
<1> DEFINE n == Len(calls)
<1>1. n \in Nat /\ DOMAIN calls = 1..n
  OBVIOUS
<1>2. Overtaken(calls) = [i \in 1..n |-> TRUE]
  BY <1>1, Zenon DEF Overtaken
<1> HIDE DEF n
<1>3. [i \in 1..n |-> TRUE] \in Seq(BOOLEAN) /\ Len([i \in 1..n |-> TRUE]) = n
  BY <1>1
<1> QED
  BY <1>2, <1>3 DEF n

\* connect, as far as the import: the last call is the only one that nothing has overtaken,
\* unless it comes late.
LEMMA ConnectWsFact ==
    ASSUME NEW hook \in WsHook, Accounted(hook, TRUE), NEW late \in BOOLEAN
    PROVE  /\ connectWs(hook, late) \in WsHook
           /\ connectWs(hook, late).ref = None
           /\ ~connectWs(hook, late).connected
           /\ Accounted(connectWs(hook, late), FALSE)
           /\ \A i \in DOMAIN connectWs(hook, late).imports :
                 ~connectWs(hook, late).imports[i] =>
                     i = Len(connectWs(hook, late).imports) /\ ~late
<1> DEFINE left  == disposeSocket(hook)
           calls == Append(Overtaken(left.imports), late)
           next  == [left EXCEPT !.connected = FALSE, !.imports = calls]
<1>1. connectWs(hook, late) = next
  BY DEF connectWs
<1>2. left \in WsHook /\ left.ref = None /\ Accounted(left, FALSE)
  BY DisposeFact
<1> HIDE DEF left
<1>3. left.imports \in Seq(BOOLEAN)
  BY <1>2 DEF WsHook
<1>4. calls \in Seq(BOOLEAN) /\ \A i \in DOMAIN calls : ~calls[i] => i = Len(calls) /\ ~late
  BY <1>3, OvertakenFact
<1> HIDE DEF calls
<1>5. /\ next \in WsHook /\ next.ref = None /\ ~next.connected /\ next.imports = calls
      /\ next.socket = left.socket /\ next.strays = left.strays
  BY <1>2, <1>4 DEF WsHook
<1> HIDE DEF next
<1>6. Accounted(next, FALSE)
  BY <1>2, <1>5 DEF Accounted
<1> QED
  BY <1>1, <1>4, <1>5, <1>6

\* The cleanup of the effect overtakes them all.
LEMMA CleanupWsFact ==
    ASSUME NEW hook \in WsHook, Accounted(hook, TRUE)
    PROVE  /\ cleanupWs(hook) \in WsHook
           /\ cleanupWs(hook).ref = None
           /\ Accounted(cleanupWs(hook), FALSE)
           /\ \A i \in DOMAIN cleanupWs(hook).imports : cleanupWs(hook).imports[i]
<1> DEFINE left  == disposeSocket(hook)
           calls == Overtaken(left.imports)
           next  == [left EXCEPT !.imports = calls]
<1>1. cleanupWs(hook) = next
  BY DEF cleanupWs
<1>2. left \in WsHook /\ left.ref = None /\ Accounted(left, FALSE)
  BY DisposeFact
<1> HIDE DEF left
<1>3. left.imports \in Seq(BOOLEAN)
  BY <1>2 DEF WsHook
<1>4. calls \in Seq(BOOLEAN) /\ \A i \in DOMAIN calls : calls[i]
  BY <1>3, OvertakenFact
<1> HIDE DEF calls
<1>5. /\ next \in WsHook /\ next.ref = None /\ next.imports = calls
      /\ next.socket = left.socket /\ next.strays = left.strays
  BY <1>2, <1>4 DEF WsHook
<1> HIDE DEF next
<1>6. Accounted(next, FALSE)
  BY <1>2, <1>5 DEF Accounted
<1> QED
  BY <1>1, <1>4, <1>5, <1>6


-----------------------------------------------------------------------------
(* useRealtimeWs, one action at a time. *)

\* What the ref and the sockets say to what is shown.
ShownConsistent(hook, on) ==
    /\ on /\ hook.connected => \E k \in Sockets : hook.socket[k] = "up"
    /\ on /\ hook.strays = {} => (hook.connected <=> hook.ref # None /\ hook.socket[hook.ref] = "up")

\* WsConsistent after a step, from the parts of the state the step leads to.
LEMMA WsPartsPrimed ==
    ASSUME NEW on \in BOOLEAN, on <=> active' = "websocket",
           ws' \in WsHook,
           \A i \in DOMAIN ws'.imports : ~ws'.imports[i] => i = Len(ws'.imports) /\ on,
           ws'.imports # <<>> => ws'.ref = None \/ ws'.ref \in ws'.strays,
           Accounted(ws', on),
           ShownConsistent(ws', on)
    PROVE  WsConsistent'
  BY DEF WsConsistent, ImportsConsistent, SocketsAccounted, Accounted, ShownConsistent

\* A call of connect replaces what the branch had.
LEMMA ConnectWsStep ==
    ASSUME NEW hook \in WsHook, Accounted(hook, TRUE), NEW late \in BOOLEAN,
           late <=> active' # "websocket", ws' = connectWs(hook, late)
    PROVE  WsConsistent'
<1> DEFINE on == active' = "websocket"
<1>1. /\ ws' \in WsHook /\ ws'.ref = None /\ ~ws'.connected /\ Accounted(ws', FALSE)
      /\ \A i \in DOMAIN ws'.imports : ~ws'.imports[i] => i = Len(ws'.imports) /\ ~late
  BY ConnectWsFact
<1>2. Accounted(ws', on) /\ ShownConsistent(ws', on)
  BY <1>1 DEF Accounted, ShownConsistent
<1> QED
  BY <1>1, <1>2, WsPartsPrimed

LEMMA CommitWsStep == ASSUME IInv, Commit PROVE WsConsistent'
<1> DEFINE cleanW == IF active = "websocket" THEN cleanupWs(ws) ELSE ws
<1>1. /\ ws \in WsHook
      /\ active # "websocket" => \A i \in DOMAIN ws.imports : ws.imports[i]
      /\ ws.imports # <<>> => ws.ref = None \/ ws.ref \in ws.strays
      /\ Accounted(ws, TRUE) /\ (active # "websocket" => Accounted(ws, FALSE))
  BY DEF IInv, WsConsistent, ImportsConsistent, SocketsAccounted, Accounted
<1>2. /\ cleanW \in WsHook /\ Accounted(cleanW, FALSE)
      /\ \A i \in DOMAIN cleanW.imports : cleanW.imports[i]
      /\ cleanW.imports # <<>> => cleanW.ref = None \/ cleanW.ref \in cleanW.strays
  <2>1. CASE active = "websocket"
    BY <1>1, <2>1, CleanupWsFact
  <2>2. CASE active # "websocket"
    BY <1>1, <2>2
  <2> QED
    BY <2>1, <2>2
<1>3. PICK branch : active' = branch /\ ws' = IF branch = "websocket" THEN connectWs(cleanW, FALSE) ELSE cleanW
  BY DEF Commit
<1> HIDE DEF cleanW
<1>4. CASE branch = "websocket"
  <2>1. Accounted(cleanW, TRUE) /\ ws' = connectWs(cleanW, FALSE)
    BY <1>2, <1>3, <1>4 DEF Accounted
  <2> QED
    BY <1>2, <1>3, <1>4, <2>1, ConnectWsStep
<1>5. CASE branch # "websocket"
  <2>1. ws' = cleanW /\ ShownConsistent(cleanW, FALSE)
    BY <1>3, <1>5 DEF ShownConsistent
  <2> QED
    BY <1>2, <1>3, <1>5, <2>1, WsPartsPrimed
<1> QED
  BY <1>4, <1>5

LEMMA UnmountWsStep == ASSUME IInv, Unmount PROVE WsConsistent'
<1>1. /\ ws \in WsHook
      /\ active # "websocket" => \A i \in DOMAIN ws.imports : ws.imports[i]
      /\ ws.imports # <<>> => ws.ref = None \/ ws.ref \in ws.strays
      /\ Accounted(ws, TRUE) /\ (active # "websocket" => Accounted(ws, FALSE))
  BY DEF IInv, WsConsistent, ImportsConsistent, SocketsAccounted, Accounted
<1>2. active' = "none" /\ ws' = IF active = "websocket" THEN cleanupWs(ws) ELSE ws
  BY DEF Unmount
<1>3. /\ ws' \in WsHook /\ Accounted(ws', FALSE)
      /\ \A i \in DOMAIN ws'.imports : ws'.imports[i]
      /\ ws'.imports # <<>> => ws'.ref = None \/ ws'.ref \in ws'.strays
  <2>1. CASE active = "websocket"
    BY <1>1, <1>2, <2>1, CleanupWsFact
  <2>2. CASE active # "websocket"
    BY <1>1, <1>2, <2>2
  <2> QED
    BY <2>1, <2>2
<1>4. ShownConsistent(ws', FALSE)
  BY DEF ShownConsistent
<1> QED
  BY <1>2, <1>3, <1>4, WsPartsPrimed

LEMMA ReconnectWsStep == ASSUME IInv, reconnect PROVE WsConsistent'
<1> DEFINE late == active # "websocket"
<1>1. WsConsistent /\ UNCHANGED active
  BY DEF IInv, reconnect
<1>2. CASE UNCHANGED ws
  BY <1>1, <1>2 DEF WsConsistent, ImportsConsistent, SocketsAccounted
<1>3. CASE ws' = connectWs(ws, late)
  <2>1. ws \in WsHook /\ Accounted(ws, TRUE)
    BY <1>1 DEF WsConsistent, SocketsAccounted, Accounted
  <2>2. late \in BOOLEAN /\ (late <=> active' # "websocket")
    BY <1>1
  <2> HIDE DEF late
  <2> QED
    BY <1>3, <2>1, <2>2, ConnectWsStep
<1> QED
  BY <1>2, <1>3 DEF reconnect


\* The rest of connect: the socket it opens is the branch's own only if nothing has overtaken
\* the call, and then the branch has no other.
LEMMA ImportSettlesStep == ASSUME IInv, ImportSettles PROVE WsConsistent'
<1> DEFINE rest   == Tail(ws.imports)
           loaded == [ws EXCEPT !.imports = rest]
           socket == CHOOSE k \in Sockets : ws.socket[k] = "off"
           strays == IF Head(ws.imports) THEN ws.strays \cup {socket} ELSE ws.strays \ {socket}
           mid    == [loaded EXCEPT !.socket[socket] = "connecting"]
           next   == [mid EXCEPT !.ref = socket, !.strays = strays]
           on     == active = "websocket"
<1>1. /\ ws \in WsHook /\ ws.imports # <<>> /\ active' = active
      /\ \A i \in DOMAIN ws.imports : ~ws.imports[i] => i = Len(ws.imports) /\ on
      /\ ws.ref = None \/ ws.ref \in ws.strays
      /\ Accounted(ws, on) /\ ShownConsistent(ws, on)
  BY DEF IInv, WsConsistent, ImportsConsistent, SocketsAccounted, Accounted, ShownConsistent,
         ImportSettles
<1>2. ws.imports \in Seq(BOOLEAN)
  BY <1>1 DEF WsHook
<1>3. /\ rest \in Seq(BOOLEAN)
      /\ \A i \in DOMAIN rest : ~rest[i] => i = Len(rest) /\ on
      /\ ~Head(ws.imports) => rest = <<>> /\ on
  <2> DEFINE calls == ws.imports
  <2>1. /\ calls \in Seq(BOOLEAN) /\ calls # <<>>
        /\ \A i \in DOMAIN calls : ~calls[i] => i = Len(calls) /\ on
    BY <1>1, <1>2
  <2> HIDE DEF calls, on
  <2>2. /\ rest = Tail(calls) /\ Head(ws.imports) = calls[1]
        /\ Len(calls) \in Nat \ {0} /\ DOMAIN calls = 1..Len(calls)
    BY <2>1 DEF calls
  <2> HIDE DEF rest
  <2>3. /\ rest \in Seq(BOOLEAN) /\ Len(rest) = Len(calls) - 1
        /\ \A i \in 1..Len(rest) : rest[i] = calls[i + 1]
    BY <2>1, <2>2
  <2>4. \A i \in 1..Len(rest) : ~rest[i] => i = Len(rest) /\ on
    <3>1. SUFFICES ASSUME NEW i \in 1..Len(rest), ~rest[i] PROVE i = Len(rest) /\ on
      OBVIOUS
    <3>2. i + 1 \in DOMAIN calls /\ ~calls[i + 1]
      BY <2>2, <2>3, <3>1
    <3>3. i + 1 = Len(calls) /\ on
      BY <2>1, <3>2
    <3>4. Len(rest) = Len(calls) - 1 /\ Len(calls) \in Nat
      BY <2>2, <2>3
    <3> QED
      BY <3>3, <3>4
  <2>5. ~calls[1] => rest = <<>> /\ on
    <3>1. ~calls[1] => 1 = Len(calls) /\ on
      BY <2>1, <2>2
    <3> QED
      BY <2>2, <2>3, <3>1
  <2>6. DOMAIN rest = 1..Len(rest)
    BY <2>3
  <2> HIDE DEF rest
  <2> QED
    BY <2>2, <2>3, <2>4, <2>5, <2>6
<1>4. \A k \in Sockets : ws.socket[k] # "off" => k \in ws.strays
  BY <1>1, ReactAssumption DEF Accounted
<1> HIDE DEF rest
<1>5. /\ loaded \in WsHook /\ loaded.imports = rest /\ loaded.ref = ws.ref
      /\ loaded.socket = ws.socket /\ loaded.strays = ws.strays /\ loaded.connected = ws.connected
  BY <1>1, <1>3 DEF WsHook
<1>6. ws' = loaded \/ (Idle(ws) # {} /\ ws' = next)
  <2> DEFINE raw == [loaded EXCEPT !.socket[socket] = "connecting", !.ref = socket,
                                   !.strays = IF Head(ws.imports) THEN @ \cup {socket}
                                              ELSE @ \ {socket}]
  <2>1. ws' = loaded \/ (Idle(ws) # {} /\ ws' = raw)
    BY Zenon DEF ImportSettles, rest
  <2> HIDE DEF loaded, socket
  <2>2. raw = [mid EXCEPT !.ref = socket, !.strays = IF Head(ws.imports) THEN loaded.strays \cup {socket}
                                                     ELSE loaded.strays \ {socket}]
    BY <1>5 DEF WsHook
  <2>3. raw = next
    BY <1>5, <2>2
  <2> QED
    BY <2>1, <2>3
<1> HIDE DEF loaded
<1>7. CASE ws' = loaded
  <2>1. Accounted(ws', on) /\ ShownConsistent(ws', on)
    BY <1>1, <1>5, <1>7 DEF Accounted, ShownConsistent
  <2> HIDE DEF on
  <2> QED
    BY <1>1, <1>3, <1>5, <1>7, <2>1, WsPartsPrimed DEF on
<1>8. CASE Idle(ws) # {} /\ ws' = next
  <2>1. socket \in Sockets /\ ws.socket[socket] = "off"
    BY <1>8 DEF Idle
  <2> HIDE DEF socket
  <2>2. strays \in SUBSET Sockets
    BY <1>1, <2>1 DEF WsHook
  <2>3. /\ \A k \in Sockets : k \in ws.strays /\ k # socket => k \in strays
        /\ Head(ws.imports) => socket \in strays
    OBVIOUS
  <2> HIDE DEF strays
  <2>4. /\ mid \in WsHook /\ mid.imports = rest /\ mid.connected = ws.connected
        /\ mid.socket[socket] = "connecting"
        /\ \A k \in Sockets : k # socket => mid.socket[k] = ws.socket[k]
    BY <1>5, <2>1 DEF WsHook
  <2> HIDE DEF mid
  <2>5. /\ next \in WsHook /\ next.imports = rest /\ next.connected = ws.connected
        /\ next.socket = mid.socket /\ next.ref = socket /\ next.strays = strays
    BY <2>1, <2>2, <2>4 DEF WsHook
  <2> HIDE DEF next
  <2>6. Accounted(next, on)
    BY <1>3, <1>4, <2>3, <2>4, <2>5 DEF Accounted
  <2>7. ShownConsistent(next, on)
    <3>1. SUFFICES ASSUME on
                   PROVE  /\ next.connected => \E k \in Sockets : next.socket[k] = "up"
                          /\ next.strays = {} => ~next.connected /\ next.socket[next.ref] # "up"
      BY DEF ShownConsistent
    <3>2. next.connected => \E k \in Sockets : ws.socket[k] = "up"
      BY <1>1, <2>5, <3>1 DEF ShownConsistent
    <3>3. \A k \in Sockets : ws.socket[k] = "up" => k \in strays /\ next.socket[k] = "up"
      BY <1>4, <2>1, <2>3, <2>4, <2>5
    <3> QED
      BY <2>4, <2>5, <3>2, <3>3
  <2>8. rest # <<>> => next.ref \in next.strays
    BY <1>3, <2>3, <2>5
  <2> HIDE DEF on
  <2> QED
    BY <1>1, <1>3, <1>8, <2>5, <2>6, <2>7, <2>8, WsPartsPrimed DEF on
<1> QED
  BY <1>6, <1>7, <1>8

LEMMA SocketConnectsStep == ASSUME IInv, SocketConnects PROVE WsConsistent'
<1> DEFINE on == active = "websocket"
<1>1. /\ ws \in WsHook /\ active' = active
      /\ \A i \in DOMAIN ws.imports : ~ws.imports[i] => i = Len(ws.imports) /\ on
      /\ ws.imports # <<>> => ws.ref = None \/ ws.ref \in ws.strays
      /\ Accounted(ws, on)
  BY DEF IInv, WsConsistent, ImportsConsistent, SocketsAccounted, Accounted, SocketConnects
<1>2. PICK k \in Sockets : /\ ws.socket[k] = "connecting"
                           /\ ws' = [ws EXCEPT !.socket[k] = "up", !.connected = TRUE]
  BY DEF SocketConnects
<1>3. /\ ws' \in WsHook /\ ws'.imports = ws.imports /\ ws'.ref = ws.ref /\ ws'.strays = ws.strays
      /\ ws'.connected /\ ws'.socket[k] = "up"
      /\ \A j \in Sockets : j # k => ws'.socket[j] = ws.socket[j]
  BY <1>1, <1>2 DEF WsHook
<1>4. k \in ws.strays \/ (on /\ k = ws.ref)
  BY <1>1, <1>2 DEF Accounted
<1>5. Accounted(ws', on)
  BY <1>1, <1>3, <1>4 DEF Accounted
<1>6. ShownConsistent(ws', on)
  BY <1>2, <1>3, <1>4, ReactAssumption DEF ShownConsistent
<1> HIDE DEF on
<1> QED
  BY <1>1, <1>3, <1>5, <1>6, WsPartsPrimed DEF on

LEMMA SocketDropsStep == ASSUME IInv, SocketDrops PROVE WsConsistent'
<1> DEFINE on == active = "websocket"
<1>1. /\ ws \in WsHook /\ active' = active
      /\ \A i \in DOMAIN ws.imports : ~ws.imports[i] => i = Len(ws.imports) /\ on
      /\ ws.imports # <<>> => ws.ref = None \/ ws.ref \in ws.strays
      /\ Accounted(ws, on)
  BY DEF IInv, WsConsistent, ImportsConsistent, SocketsAccounted, Accounted, SocketDrops
<1>2. PICK k \in Sockets, next \in {"connecting", "off"} :
         ws.socket[k] = "up" /\ ws' = [ws EXCEPT !.socket[k] = next, !.connected = FALSE]
  BY DEF SocketDrops
<1>3. /\ ws' \in WsHook /\ ws'.imports = ws.imports /\ ws'.ref = ws.ref /\ ws'.strays = ws.strays
      /\ ~ws'.connected /\ ws'.socket[k] # "up"
      /\ \A j \in Sockets : j # k => ws'.socket[j] = ws.socket[j]
  BY <1>1, <1>2 DEF WsHook
<1>4. k \in ws.strays \/ (on /\ k = ws.ref)
  BY <1>1, <1>2 DEF Accounted
<1>5. Accounted(ws', on)
  BY <1>1, <1>3, <1>4 DEF Accounted
<1>6. ShownConsistent(ws', on)
  <2>1. on /\ ws.strays = {} => ws.ref = k
    BY <1>4
  <2> QED
    BY <1>3, <2>1 DEF ShownConsistent
<1> HIDE DEF on
<1> QED
  BY <1>1, <1>3, <1>5, <1>6, WsPartsPrimed DEF on

-----------------------------------------------------------------------------
(* The invariant, and what follows from it. *)

\* No hook has connected to anything before the component mounts.
LEMMA InitInv == Init => IInv
<1> SUFFICES ASSUME Init PROVE IInv
  OBVIOUS
<1>1. sse \in SseHook /\ ws \in WsHook
  BY ReactAssumption DEF Init, SseHook, WsHook
<1>2. Live(sse) = {} /\ ~Opened(sse) /\ SourcesConsistent(sse)
  BY <1>1 DEF Init, Live, Opened, SourcesConsistent
<1>3. SseConsistent
  BY <1>2 DEF Init, SseConsistent
<1>4. WsConsistent
  BY <1>1 DEF Init, WsConsistent, ImportsConsistent, SocketsAccounted
<1> QED
  BY <1>3, <1>4 DEF Init, IInv, Transports

LEMMA SseUnchanged == ASSUME IInv, UNCHANGED <<active, maxAttempts, sse>> PROVE SseConsistent'
  BY DEF IInv, SseConsistent, SourcesConsistent, Live, Opened, Exhausted

LEMMA WsUnchanged == ASSUME IInv, UNCHANGED <<active, ws>> PROVE WsConsistent'
  BY DEF IInv, WsConsistent, ImportsConsistent, SocketsAccounted

\* Every action, whether of the branch that is enabled or of the one that is not.
LEMMA NextInv == ASSUME IInv, [Next]_vars PROVE IInv'
<1>1. active' \in Transports \cup {"none"}
  BY DEF IInv, Next, vars, TimerFires, StreamOpens, StreamFails, ImportSettles, SocketConnects,
         SocketDrops, Commit, Unmount, reconnect, ServerFails, ServerReturns,
         Options, useRealtime, detectTransport, Transports
<1>2. maxAttempts' \in Budgets /\ reachable' \in BOOLEAN /\ given' \subseteq Transports
  BY DEF IInv, Next, vars, TimerFires, StreamOpens, StreamFails, ImportSettles, SocketConnects,
         SocketDrops, Commit, Unmount, reconnect, ServerFails, ServerReturns,
         Options, useRealtime, detectTransport, Transports
<1>3. SseConsistent' /\ WsConsistent'
  <2>1. CASE TimerFires
    BY <2>1, TimerStep, WsUnchanged DEF TimerFires
  <2>2. CASE StreamOpens
    BY <2>2, StreamOpensStep, WsUnchanged DEF StreamOpens
  <2>3. CASE StreamFails
    BY <2>3, StreamFailsStep, WsUnchanged DEF StreamFails
  <2>4. CASE ImportSettles
    BY <2>4, ImportSettlesStep, SseUnchanged DEF ImportSettles
  <2>5. CASE SocketConnects
    BY <2>5, SocketConnectsStep, SseUnchanged DEF SocketConnects
  <2>6. CASE SocketDrops
    BY <2>6, SocketDropsStep, SseUnchanged DEF SocketDrops
  <2>7. CASE Commit
    BY <2>7, CommitSseStep, CommitWsStep
  <2>8. CASE Unmount
    BY <2>8, UnmountSseStep, UnmountWsStep
  <2>9. CASE reconnect
    BY <2>9, ReconnectSseStep, ReconnectWsStep
  <2>10. CASE ServerFails \/ ServerReturns \/ UNCHANGED vars
    BY <2>10, SseUnchanged, WsUnchanged DEF ServerFails, ServerReturns, vars
  <2> QED
    BY <2>1, <2>2, <2>3, <2>4, <2>5, <2>6, <2>7, <2>8, <2>9, <2>10 DEF Next
<1> QED
  BY <1>1, <1>2, <1>3 DEF IInv

\* However renders, failures, retries and imports that answer late interleave, the two branches
\* stay within the invariant (useRealtimeSse, useRealtimeWs).
THEOREM Invariance == Spec => []IInv
  BY InitInv, NextInv, PTL DEF Spec

\* Nothing the component opened outlives it or works beside its successor: one EventSource and
\* one retry at most, none once the branch is left unless the application calls the reconnect
\* it kept, one try at most after the budget is spent, and no socket but the branch's own and
\* those of imports that were overtaken or asked for late.
THEOREM NothingOutlives == Spec => []ConnectionsAccounted
<1>1. ASSUME IInv PROVE ConnectionsAccounted
  <2>1. TypeOK
    BY <1>1 DEF IInv, TypeOK, SseConsistent, SourcesConsistent, WsConsistent
  <2>2. StreamsAccounted
    BY <1>1 DEF IInv, SseConsistent, SourcesConsistent, Opened, StreamsAccounted
  <2>3. OneTryAfterGivingUp /\ SocketsAccounted
    BY <1>1 DEF IInv, SseConsistent, SourcesConsistent, WsConsistent, OneTryAfterGivingUp
  <2> QED
    BY <2>1, <2>2, <2>3 DEF ConnectionsAccounted
<1> QED
  BY <1>1, Invariance, PTL

\* What the component shows agrees with the connection it has, but for a source the application
\* has just replaced and a socket that outlived its connect (onopen, onerror, connect).
THEOREM ShownIsTrue == Spec => []ConnectedExplained
<1>1. ASSUME IInv PROVE ConnectedExplained
  BY <1>1 DEF IInv, SseConsistent, WsConsistent, Opened, ConnectedExplained
<1> QED
  BY <1>1, Invariance, PTL

=============================================================================
