----------------------------- MODULE ReactClient -----------------------------
(***************************************************************************)
(* One mounted component that uses useRealtime: the hook picks a transport *)
(* from its options and keeps both branches mounted, one of them disabled. *)
(* useRealtimeSse holds one EventSource, a retry timer and a budget of     *)
(* attempts; useRealtimeWs holds one Socket.IO socket, which it opens once *)
(* a dynamic import has answered.                                          *)
(*                                                                         *)
(* The browser, React and socket.io-client are external.  What the code    *)
(* relies on: a closed EventSource fires nothing, one that lost its        *)
(* connection is restarted by the browser, one that was refused is not;    *)
(* React runs all cleanups of a commit before its effects; imports of one  *)
(* module answer in the order they were asked for.  The application may    *)
(* keep a `reconnect` and call it whenever it likes, also after the branch *)
(* it came from was left: it looks at the options of its own render only.  *)
(***************************************************************************)
EXTENDS Integers, Sequences, FiniteSets

CONSTANTS
    None,         \* no object
    Unset,        \* the option is left out
    Budgets,      \* the values of the option maxAttempts
    Sources,      \* bound: EventSource objects alive at once
    Sockets,      \* bound: sockets alive at once
    MaxImports,   \* bound: imports under way
    MaxCounted    \* bound: failed attempts that are told apart

ASSUME ReactAssumption ==
    /\ None \notin Sources \cup Sockets
    /\ Sources # {}
    /\ Unset \notin Nat
    /\ Budgets \subseteq {Unset} \cup 1..MaxCounted
    /\ MaxImports \in Nat \ {0} /\ MaxCounted \in Nat \ {0}

VARIABLES
    active,       \* the branch that is enabled, or "none" once unmounted
    given,        \* the branches whose `reconnect` a render has handed out
    maxAttempts,  \* opts.maxAttempts
    sse,          \* the state of useRealtimeSse
    ws,           \* the state of useRealtimeWs
    reachable     \* whether the server answers

vars == <<active, given, maxAttempts, sse, ws, reachable>>

-----------------------------------------------------------------------------
(* The options, and the branch they enable. *)

Transports == {"sse", "websocket"}
Options    == [scheme : {"http", "https", "relative", "ws", "wss"},
               transport : {Unset, "auto"} \cup Transports]

detectTransport(scheme) == IF scheme \in {"ws", "wss"} THEN "websocket" ELSE "sse"

useRealtime(opts) ==
    IF opts.transport \in {Unset, "auto"} THEN detectTransport(opts.scheme) ELSE opts.transport

-----------------------------------------------------------------------------
(* The state of the two branches. *)

\* kept: timerRef holds a timer that is armed; reopened: history, the application
\* replaced the source and the new one has not answered; extra: history, sources
\* the timer opened since the attempts ran out; late: history, reconnect was called
\* since the branch was left.
SseHook ==
    [stream : [Sources -> {"closed", "connecting", "open"}], ref : Sources \cup {None},
     timers : 0..2, kept : BOOLEAN, attempts : 0..MaxCounted, connected : BOOLEAN,
     reopened : BOOLEAN, extra : 0..2, late : BOOLEAN]

\* imports: the calls of connect that await the import, and whether a later connect
\* or cleanup has overtaken them, or the branch was left when they were made; strays:
\* history, the sockets such calls opened, until they are disposed of.
WsHook ==
    [socket : [Sockets -> {"off", "connecting", "up"}], ref : Sockets \cup {None},
     imports : Seq(BOOLEAN), connected : BOOLEAN, strays : SUBSET Sockets]

TypeOK ==
    /\ active \in Transports \cup {"none"}
    /\ given \subseteq Transports
    /\ maxAttempts \in Budgets
    /\ sse \in SseHook
    /\ ws \in WsHook
    /\ reachable \in BOOLEAN

Live(hook) == {s \in Sources : hook.stream[s] # "closed"}
Idle(hook) == {k \in Sockets : hook.socket[k] = "off"}

-----------------------------------------------------------------------------
(* useRealtimeSse. *)

closeSource(hook) ==
    IF hook.ref = None THEN hook ELSE [hook EXCEPT !.stream[hook.ref] = "closed"]

clearReconnectTimer(hook) ==
    [hook EXCEPT !.timers = IF hook.kept THEN @ - 1 ELSE @, !.kept = FALSE]

arm(hook) == [hook EXCEPT !.timers = @ + 1, !.kept = TRUE]

\* connect: it leaves `connected` as it is.
connectSse(hook) ==
    LET quiet  == clearReconnectTimer(closeSource(hook))
        source == CHOOSE s \in Sources : quiet.stream[s] = "closed"
    IN  [quiet EXCEPT !.stream[source] = "connecting", !.ref = source]

\* The cleanup of the effect.
cleanupSse(hook) == [closeSource(clearReconnectTimer(hook)) EXCEPT !.ref = None]

Exhausted(attempts) == maxAttempts # Unset /\ attempts >= maxAttempts

\* A slip: the timer of an earlier failure stays armed.
onopenKeepsTimer(hook, source) ==
    [hook EXCEPT !.stream[source] = "open", !.connected = TRUE,
                 !.attempts = 0, !.reopened = FALSE, !.extra = 0]

onopen(hook, source) ==
    [clearReconnectTimer(hook) EXCEPT !.stream[source] = "open", !.connected = TRUE,
                                      !.attempts = 0, !.reopened = FALSE, !.extra = 0]

Failed(hook, source, fatal) ==
    [hook EXCEPT !.stream[source] = IF fatal THEN "closed" ELSE "connecting",
                 !.connected = FALSE, !.reopened = FALSE,
                 !.attempts = IF @ < MaxCounted THEN @ + 1 ELSE @]

\* A slip: the browser is trusted to restart whatever fails.
onerrorWithoutTimer(hook, source, fatal) ==
    LET failed == Failed(hook, source, fatal)
    IN  IF Exhausted(failed.attempts)
        THEN [failed EXCEPT !.stream[source] = "closed"]
        ELSE clearReconnectTimer(failed)

\* Giving up closes the source, and leaves a timer that is armed.
onerror(hook, source, fatal) ==
    LET failed == Failed(hook, source, fatal)
    IN  IF Exhausted(failed.attempts)
        THEN [failed EXCEPT !.stream[source] = "closed"]
        ELSE arm(clearReconnectTimer(failed))

\* setTimeout(connect, delay); the delay, which doubles up to a maximum, is left out.
TimerFires ==
    LET fired  == [sse EXCEPT !.timers = @ - 1, !.kept = @ /\ sse.timers > 1]
        opened == connectSse(fired)
    IN  /\ sse.timers > 0
        /\ sse' = IF Exhausted(sse.attempts) /\ sse.extra < 2
                  THEN [opened EXCEPT !.extra = @ + 1] ELSE opened
        /\ UNCHANGED <<active, given, maxAttempts, ws, reachable>>

StreamOpens ==
    /\ reachable
    /\ \E s \in Sources : sse.stream[s] = "connecting" /\ sse' = onopen(sse, s)
    /\ UNCHANGED <<active, given, maxAttempts, ws, reachable>>

\* fatal: the server answered, with something that is not an event stream.
StreamFails ==
    /\ ~reachable
    /\ \E s \in Live(sse), fatal \in BOOLEAN : sse' = onerror(sse, s, fatal)
    /\ UNCHANGED <<active, given, maxAttempts, ws, reachable>>

-----------------------------------------------------------------------------
(* useRealtimeWs. *)

disposeSocket(hook) ==
    IF hook.ref = None THEN hook
    ELSE [hook EXCEPT !.socket[hook.ref] = "off", !.ref = None, !.strays = @ \ {hook.ref}]

Overtaken(imports) == [i \in DOMAIN imports |-> TRUE]

\* A slip: the state of the socket that is replaced stays on show.
connectWsQuietly(hook, late) ==
    [disposeSocket(hook) EXCEPT !.imports = Append(Overtaken(@), late)]

\* connect up to the await of the import.
connectWs(hook, late) ==
    [disposeSocket(hook) EXCEPT !.connected = FALSE,
                                !.imports = Append(Overtaken(@), late)]

cleanupWs(hook) == [disposeSocket(hook) EXCEPT !.imports = Overtaken(@)]

\* The rest of connect: nothing asks whether another connect or a cleanup came first.
ImportSettles ==
    LET loaded == [ws EXCEPT !.imports = Tail(@)]
        socket == CHOOSE k \in Sockets : ws.socket[k] = "off"
    IN  /\ ws.imports # <<>>
        /\ \/ ws' = loaded
           \/ /\ Idle(ws) # {}
              /\ ws' = [loaded EXCEPT !.socket[socket] = "connecting", !.ref = socket,
                                      !.strays = IF Head(ws.imports) THEN @ \cup {socket}
                                                 ELSE @ \ {socket}]
        /\ UNCHANGED <<active, given, maxAttempts, sse, reachable>>

\* Any socket that keeps its listeners sets `connected`.
SocketConnects ==
    /\ reachable
    /\ \E k \in Sockets : /\ ws.socket[k] = "connecting"
                          /\ ws' = [ws EXCEPT !.socket[k] = "up", !.connected = TRUE]
    /\ UNCHANGED <<active, given, maxAttempts, sse, reachable>>

\* The client connects again by itself, unless the server closed the socket.
SocketDrops ==
    /\ \E k \in Sockets, next \in {"connecting", "off"} :
          /\ ws.socket[k] = "up"
          /\ ws' = [ws EXCEPT !.socket[k] = next, !.connected = FALSE]
    /\ UNCHANGED <<active, given, maxAttempts, sse, reachable>>

-----------------------------------------------------------------------------
(* useRealtime: the effects of a commit, and reconnect. *)

Init ==
    /\ active = "none"
    /\ given = {}
    /\ maxAttempts \in Budgets
    /\ sse = [stream |-> [s \in Sources |-> "closed"], ref |-> None, timers |-> 0, kept |-> FALSE,
              attempts |-> 0, connected |-> FALSE, reopened |-> FALSE, extra |-> 0,
              late |-> FALSE]
    /\ ws = [socket |-> [k \in Sockets |-> "off"], ref |-> None, imports |-> <<>>,
             connected |-> FALSE, strays |-> {}]
    /\ reachable = TRUE

\* The component mounts, mounts again, or renders with options that change what
\* connect depends on.  The budget is not reset.
Commit ==
    \E opts \in Options :
        LET branch == useRealtime(opts)
            cleanS == IF active = "sse" THEN cleanupSse(sse) ELSE sse
            cleanW == IF active = "websocket" THEN cleanupWs(ws) ELSE ws
        IN  /\ branch = "websocket" => Len(ws.imports) < MaxImports
            /\ active' = branch
            /\ given' = given \cup {branch}
            /\ sse' = IF branch = "sse"
                      THEN [connectSse(cleanS) EXCEPT !.reopened = TRUE, !.extra = 0, !.late = FALSE]
                      ELSE cleanS
            /\ ws' = IF branch = "websocket" THEN connectWs(cleanW, FALSE) ELSE cleanW
            /\ UNCHANGED <<maxAttempts, reachable>>

Unmount ==
    /\ active # "none"
    /\ active' = "none"
    /\ sse' = IF active = "sse" THEN cleanupSse(sse) ELSE sse
    /\ ws' = IF active = "websocket" THEN cleanupWs(ws) ELSE ws
    /\ UNCHANGED <<given, maxAttempts, reachable>>

\* connect, with the options of the render that handed it out: whether that branch is
\* enabled now, or the component mounted, is not looked at.
reconnect ==
    /\ \/ /\ "sse" \in given
          /\ sse' = [connectSse(sse) EXCEPT !.attempts = 0, !.reopened = TRUE, !.extra = 0,
                                            !.late = active # "sse"]
          /\ UNCHANGED ws
       \/ /\ "websocket" \in given
          /\ Len(ws.imports) < MaxImports
          /\ ws' = connectWs(ws, active # "websocket")
          /\ UNCHANGED sse
    /\ UNCHANGED <<active, given, maxAttempts, reachable>>

ServerFails   == reachable /\ reachable' = FALSE /\ UNCHANGED <<active, given, maxAttempts, sse, ws>>
ServerReturns == ~reachable /\ reachable' = TRUE /\ UNCHANGED <<active, given, maxAttempts, sse, ws>>

Next ==
    \/ TimerFires \/ StreamOpens \/ StreamFails
    \/ ImportSettles \/ SocketConnects \/ SocketDrops
    \/ Commit \/ Unmount \/ reconnect
    \/ ServerFails \/ ServerReturns

Spec == Init /\ [][Next]_vars

\* Timers fire, and the browser opens what a server that answers lets it open.
FairSpec == Spec /\ WF_vars(TimerFires) /\ WF_vars(StreamOpens)

-----------------------------------------------------------------------------
(* Safety. *)

\* However failures, the browser's own restarts, retries and commits interleave,
\* one EventSource at most is alive, the one the ref holds; one retry at most is
\* armed, and never against a stream that has recovered (clearReconnectTimer).  Once
\* the branch is left neither is there, unless the application calls the reconnect it
\* kept: the stream that opens then retries, and lives on, until the branch returns.
StreamsAccounted ==
    /\ Live(sse) \subseteq {sse.ref}
    /\ active # "sse" => sse.late \/ (Live(sse) = {} /\ sse.timers = 0)
    /\ sse.timers <= 1
    /\ sse.timers > 0 => \A s \in Sources : sse.stream[s] # "open"

\* Once maxAttempts is reached the timer that was armed before may open one more
\* stream, and no other: the hook ends in silence (onerror, TimerFires).
OneTryAfterGivingUp == sse.extra <= 1

\* A socket is alive beside the one the enabled branch holds only if the connect
\* that opened it was overtaken, by another or by a cleanup, while it awaited the
\* import, or was made by a reconnect kept past the branch (connect, disposeSocket).
SocketsAccounted ==
    \A k \in Sockets :
        ws.socket[k] # "off" => k \in ws.strays \/ (active = "websocket" /\ k = ws.ref)

\* What the component shows: an open stream is shown as connected, and one that is
\* not only until a source the application replaced, or the branch that was left,
\* answers; a socket likewise, unless a stray one speaks (onopen, onerror, connect).
ConnectedExplained ==
    /\ (\E s \in Sources : sse.stream[s] = "open") => sse.connected
    /\ active = "sse" /\ sse.connected =>
           sse.reopened \/ \E s \in Sources : sse.stream[s] = "open"
    /\ active = "websocket" /\ ws.strays = {} =>
           (ws.connected <=> ws.ref # None /\ ws.socket[ws.ref] = "up")

\* Nothing the component opened outlives it or works beside its successor, except as
\* the parts say.
ConnectionsAccounted == TypeOK /\ StreamsAccounted /\ OneTryAfterGivingUp /\ SocketsAccounted

-----------------------------------------------------------------------------
(* Liveness. *)

GaveUp == Exhausted(sse.attempts) /\ Live(sse) = {} /\ sse.timers = 0

\* With a server that answers in the end the enabled stream opens, whatever the
\* browser gave up on, unless the hook itself gave up (onerror, connect).
StreamRecovers ==
    <>[](active = "sse" /\ reachable)
        => []<>(GaveUp \/ \E s \in Sources : sse.stream[s] = "open")

=============================================================================
