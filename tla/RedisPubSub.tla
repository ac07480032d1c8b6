----------------------------- MODULE RedisPubSub -----------------------------
(***************************************************************************)
(* RedisRealtimePubSub: the one subscriber connection that callers of      *)
(* subscribe() share, its first SUBSCRIBE that decides the boot, the       *)
(* SUBSCRIBE after every reconnection, and the readiness that RealtimeService *)
(* reports.                                                                *)
(*                                                                         *)
(* The client library is modelled from how it is used: it reconnects for   *)
(* ever, queues commands while it is not connected, resends or rejects     *)
(* those that a connection took with it, and reports a broken connection   *)
(* some time after it broke.  What one event or answer runs, with the      *)
(* awaits it settles, is one step.                                         *)
(***************************************************************************)
EXTENDS Integers, Sequences, FiniteSets

CONSTANTS
    Callers,     \* callers of subscribe(), each with its handler
    MaxClients,  \* bound: subscriber clients created in a behaviour
    MaxBreaks,   \* bound: connections that break in a behaviour
    MaxRefusals  \* bound: error replies in a behaviour

ASSUME RedisPubSubAssumption ==
    /\ IsFiniteSet(Callers)
    /\ MaxClients \in Nat \ {0}
    /\ MaxBreaks \in Nat
    /\ MaxRefusals \in Nat

VARIABLES
    subInit,    \* #subInit: the client its promise is of, or 0
    subscribed, \* #subscribed
    retired,    \* #retired
    caller,     \* caller[k]: where k is in subscribe() and after it
    created,    \* clients created so far: 1..created
    conn,       \* conn[c]: the connection of client c
    attached,   \* attached[c]: createSubscriber has returned c
    pending,    \* pending[c]: SUBSCRIBEs issued on c and not answered
    holds,      \* the clients that the server has subscribed
    pub,        \* the status of the publishing client
    breaks, refusals,
    denied,     \* history: the last SUBSCRIBE answered was refused
    late        \* history: a retired client's SUBSCRIBE was confirmed

connVars == <<created, conn, attached, pending, holds>>
faultVars == <<breaks, refusals, denied, late>>
vars == <<subInit, subscribed, retired, caller, connVars, pub, faultVars>>

Clients == 1..MaxClients

handlers == {k \in Callers : caller[k] # "out"}

TypeOK ==
    /\ subInit \in 0..created /\ created \in 0..MaxClients
    /\ subInit # 0 <=> handlers # {}
    /\ subscribed \in BOOLEAN
    /\ retired \subseteq 1..created
    /\ caller \in [Callers -> {"out", "subscribing", "settling", "subscribed"}]
    /\ conn \in [Clients -> {"none", "connecting", "ready", "broken", "quitting", "ended"}]
    /\ attached \in [Clients -> BOOLEAN]
    /\ pending \in [Clients -> Seq({"first", "confirm"})]
    /\ holds \subseteq 1..created
    /\ pub \in {"wait", "connecting", "ready", "reconnecting"}
    /\ breaks \in 0..MaxBreaks /\ refusals \in 0..MaxRefusals
    /\ denied \in BOOLEAN /\ late \in BOOLEAN

Init ==
    /\ subInit = 0
    /\ subscribed = FALSE
    /\ retired = {}
    /\ caller = [k \in Callers |-> "out"]
    /\ created = 0
    /\ conn = [c \in Clients |-> "none"]
    /\ attached = [c \in Clients |-> FALSE]
    /\ pending = [c \in Clients |-> <<>>]
    /\ holds = {}
    /\ pub \in {"wait", "connecting"}
    /\ breaks = 0 /\ refusals = 0
    /\ denied = FALSE /\ late = FALSE

CANNOT_PUBLISH == {"wait", "connecting", "reconnecting"}

isSubscribed == subscribed /\ pub \notin CANNOT_PUBLISH

connectLazyClient == pub' = IF pub = "wait" THEN "connecting" ELSE pub

-----------------------------------------------------------------------------
(* subscribe() and the function it resolves to. *)

\* A caller that has the client waits for the publisher's first connection.
publisherSettled(k) ==
    caller' = [caller EXCEPT ![k] = IF pub = "connecting" THEN "settling" ELSE "subscribed"]

\* createSubscriber up to its await: the first SUBSCRIBE waits for the connection.
createSubscriber ==
    LET c == created + 1 IN
    /\ created < MaxClients
    /\ created' = c
    /\ subInit' = c
    /\ conn' = [conn EXCEPT ![c] = "connecting"]
    /\ pending' = [pending EXCEPT ![c] = <<"first">>]
    /\ connectLazyClient
    /\ UNCHANGED <<attached, holds>>

\* A slip: the promise is kept only once it has resolved.
ensureSubscriberOnceAttached(k) ==
    IF subInit = 0 \/ ~attached[subInit]
    THEN createSubscriber /\ caller' = [caller EXCEPT ![k] = "subscribing"]
    ELSE /\ publisherSettled(k)
         /\ UNCHANGED <<subInit, connVars, pub>>

ensureSubscriber(k) ==
    IF subInit = 0
    THEN createSubscriber /\ caller' = [caller EXCEPT ![k] = "subscribing"]
    ELSE /\ IF attached[subInit] THEN publisherSettled(k)
                                 ELSE caller' = [caller EXCEPT ![k] = "subscribing"]
         /\ UNCHANGED <<subInit, connVars, pub>>

subscribe(k) ==
    /\ caller[k] = "out"
    /\ ensureSubscriber(k)
    /\ UNCHANGED <<subscribed, retired, faultVars>>

\* Closes a client at once: what it was asked is rejected, not as an error reply.
disconnects(c) ==
    /\ conn' = [conn EXCEPT ![c] = "ended"]
    /\ pending' = [pending EXCEPT ![c] = <<>>]
    /\ holds' = holds \ {c}

\* The last caller to leave retires the client; QUIT only if it was subscribed.
unsubscribe(k) ==
    /\ caller[k] = "subscribed"
    /\ caller' = [caller EXCEPT ![k] = "out"]
    /\ IF handlers = {k}
       THEN /\ subInit' = 0
            /\ retired' = retired \cup {subInit}
            /\ subscribed' = FALSE
            /\ IF subscribed
               THEN /\ conn' = [conn EXCEPT ![subInit] = "quitting"]
                    /\ UNCHANGED <<pending, holds>>
               ELSE disconnects(subInit)
       ELSE UNCHANGED <<subInit, retired, subscribed, conn, pending, holds>>
    /\ UNCHANGED <<created, attached, pub, faultVars>>

-----------------------------------------------------------------------------
(* The first SUBSCRIBE. *)

Negotiating(c) == c \in 1..created /\ ~attached[c] /\ c \notin retired

\* negotiate lets the boot go on: createSubscriber returns to those who await it.
Attach(c) ==
    /\ attached' = [attached EXCEPT ![c] = TRUE]
    /\ caller' = [k \in Callers |->
                     IF caller[k] # "subscribing" THEN caller[k]
                     ELSE IF pub = "connecting" THEN "settling" ELSE "subscribed"]

\* negotiate fails the boot: all who await the client fail, and take their handlers back.
FailBoot(c) ==
    /\ retired' = retired \cup {c}
    /\ disconnects(c)
    /\ subInit' = 0
    /\ caller' = [k \in Callers |-> IF caller[k] = "subscribing" THEN "out" ELSE caller[k]]
    /\ UNCHANGED <<subscribed, attached>>

\* The server accepts the next SUBSCRIBE.  One that negotiate no longer waits for
\* confirms nothing by itself.
Accepted(c) ==
    LET cmd == Head(pending[c]) IN
    /\ conn[c] \in {"ready", "quitting"}
    /\ pending[c] # <<>>
    /\ pending' = [pending EXCEPT ![c] = Tail(@)]
    /\ holds' = holds \cup {c}
    /\ IF Negotiating(c) THEN Attach(c) ELSE UNCHANGED <<attached, caller>>
    /\ IF cmd = "confirm" \/ Negotiating(c)
       THEN /\ subscribed' = TRUE /\ denied' = FALSE
            /\ late' = (late \/ c \in retired)
       ELSE UNCHANGED <<subscribed, denied, late>>
    /\ UNCHANGED <<subInit, retired, created, conn, pub, breaks, refusals>>

\* It answers with an error reply: of the first, the boot fails; later, refused().
Refused(c) ==
    /\ conn[c] \in {"ready", "quitting"}
    /\ pending[c] # <<>>
    /\ refusals < MaxRefusals
    /\ refusals' = refusals + 1
    /\ IF Negotiating(c)
       THEN FailBoot(c) /\ UNCHANGED denied
       ELSE /\ pending' = [pending EXCEPT ![c] = Tail(@)]
            /\ subscribed' = FALSE
            /\ denied' = TRUE
            /\ UNCHANGED <<subInit, retired, caller, attached, conn, holds>>
    /\ UNCHANGED <<created, pub, breaks, late>>

-----------------------------------------------------------------------------
(* The connection of a subscriber client. *)

\* A slip: a ready connection is left to resubscribe by itself.
confirmNot(c) == UNCHANGED pending

\* Once attached, a ready connection is asked again.
confirm(c) ==
    pending' = IF attached[c] THEN [pending EXCEPT ![c] = Append(@, "confirm")] ELSE pending

Ready(c) ==
    /\ conn[c] = "connecting"
    /\ conn' = [conn EXCEPT ![c] = "ready"]
    /\ confirm(c)
    /\ denied' = FALSE
    /\ UNCHANGED <<subInit, subscribed, retired, caller, created, attached, holds, pub,
                   breaks, refusals, late>>

Breaks(c) ==
    /\ conn[c] = "ready"
    /\ breaks < MaxBreaks
    /\ breaks' = breaks + 1
    /\ conn' = [conn EXCEPT ![c] = "broken"]
    /\ holds' = holds \ {c}
    /\ UNCHANGED <<subInit, subscribed, retired, caller, created, attached, pending, pub,
                   refusals, denied, late>>

\* A slip: only an unreachable first connection is an outage.
markDownFirst(c) == subscribed' = (subscribed /\ ~Negotiating(c))

\* The close of a client that was not retired is an outage.
markDown(c) == subscribed' = (subscribed /\ c \in retired)

\* An attempt fails, or a broken connection is noticed: what is pending is resent later
\* or rejected now, not as an error reply, and a negotiation ends unready.
Close(c) ==
    /\ conn[c] \in {"connecting", "broken"}
    /\ conn' = [conn EXCEPT ![c] = "connecting"]
    /\ markDown(c)
    /\ IF Negotiating(c) THEN Attach(c) ELSE UNCHANGED <<attached, caller>>
    /\ pending' \in {pending, [pending EXCEPT ![c] = <<>>]}
    /\ UNCHANGED <<subInit, retired, created, holds, pub, faultVars>>

\* The QUIT comes after what was asked before it; a client that breaks is done as well.
QuitEnds(c) ==
    /\ conn[c] = "quitting"
    /\ \/ pending[c] = <<>>
       \/ c \notin holds
    /\ disconnects(c)
    /\ UNCHANGED <<subInit, subscribed, retired, caller, created, attached, pub, faultVars>>

-----------------------------------------------------------------------------
(* The publishing client. *)

\* Its attempt is over, or its connection changes: whoever waits for it goes on.
PublisherTurns(status) ==
    /\ pub' = status
    /\ caller' = [k \in Callers |-> IF caller[k] = "settling" THEN "subscribed" ELSE caller[k]]
    /\ UNCHANGED <<subInit, subscribed, retired, connVars, faultVars>>

PublisherConnects == pub \in {"connecting", "reconnecting"} /\ PublisherTurns("ready")
PublisherCloses   == pub \in {"connecting", "ready"} /\ PublisherTurns("reconnecting")

\* A slip: the wait has no deadline.
DeadlineNever(k) == caller[k] = "settling" /\ pub # "connecting" /\ UNCHANGED vars

\* PUBLISHER_WAIT_MS have passed.
Deadline(k) ==
    /\ caller[k] = "settling"
    /\ caller' = [caller EXCEPT ![k] = "subscribed"]
    /\ UNCHANGED <<subInit, subscribed, retired, connVars, pub, faultVars>>

\* publish() is refused while the client cannot publish, and connects a lazy one.
publish ==
    /\ pub = "wait"
    /\ connectLazyClient
    /\ UNCHANGED <<subInit, subscribed, retired, caller, connVars, faultVars>>

-----------------------------------------------------------------------------
Next ==
    \/ \E k \in Callers : subscribe(k) \/ unsubscribe(k) \/ Deadline(k)
    \/ \E c \in Clients :
          Accepted(c) \/ Refused(c) \/ Ready(c) \/ Breaks(c) \/ Close(c) \/ QuitEnds(c)
    \/ PublisherConnects \/ PublisherCloses \/ publish

Spec == Init /\ [][Next]_vars

\* The server answers a connected client; a client keeps trying and in the end is let in;
\* a broken connection is noticed; timers fire.  Nothing is asked of the publisher.
FairSpec ==
    /\ Spec
    /\ \A c \in Clients :
          /\ WF_vars(Accepted(c) \/ Refused(c))
          /\ WF_vars(Ready(c))
          /\ WF_vars(conn[c] = "broken" /\ Close(c))
          /\ WF_vars(QuitEnds(c))
    /\ \A k \in Callers : WF_vars(Deadline(k))

-----------------------------------------------------------------------------
\* Concurrent subscribers share one client, and one that failed or was left is never
\* forgotten open: a client still in use is the one the pub/sub knows.  So a message
\* comes to the handlers twice at most while a client that quits is still subscribed
\* (dispatch does not ask which client it came on).
OneSubscriber ==
    /\ (1..created) \ retired \subseteq {subInit}
    /\ \A c \in retired : conn[c] \in {"quitting", "ended"}
    /\ \A c, d \in holds : c # d => "quitting" \in {conn[c], conn[d]}

\* The clients that were created are the one in use and those that end.
ClientsAccounted == TypeOK /\ OneSubscriber

\* The instance is not ready while deaf: #subscribed says that the server has subscribed
\* the connection, but for the time a break goes unnoticed and for a SUBSCRIBE answered
\* on a client that was left meanwhile (markUp does not ask which client it is for).
ReadyMeansHearing ==
    subscribed => \/ subInit \in holds
                  \/ subInit # 0 /\ conn[subInit] = "broken"
                  \/ late

\* subscribe() never blocks a boot for ever: it resolves or rejects, though the
\* publishing client may answer nothing.
SubscribeSettles ==
    \A k \in Callers :
        caller[k] \in {"subscribing", "settling"} ~> caller[k] \in {"subscribed", "out"}

\* An instance that has a handler, and was not refused since it last connected, is ready
\* in the end, whatever order the boot, the breaks and the answers came in, if its
\* publishing client is connected.
ReadyInTheEnd ==
    <>[](handlers # {} /\ ~denied /\ pub = "ready") => <>[]isSubscribed

=============================================================================
