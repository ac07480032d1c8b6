-------------------------- MODULE RedisPubSubProofs --------------------------
(***************************************************************************)
(* RedisPubSub for any callers and any number of clients, breaks and       *)
(* refusals: the inductive invariant behind its safety properties.         *)
(***************************************************************************)
EXTENDS RedisPubSub, TLAPS

-----------------------------------------------------------------------------
(* The inductive invariant. *)

\* A client that was not created has no connection and was asked nothing; one that was has
\* a connection, which lives until the client is retired.
ClientConsistent(c) ==
    /\ c > created => conn[c] = "none" /\ ~attached[c]
    /\ c <= created => IF c \in retired THEN conn[c] \in {"quitting", "ended"}
                                        ELSE conn[c] \in {"connecting", "ready", "broken"}
    /\ conn[c] = "quitting" => attached[c]
    /\ c \in holds => attached[c] /\ conn[c] \in {"ready", "quitting"}

\* Every client but the one of #subInit is retired, and its callers wait as long as it is
\* not attached, and no longer.
CurrentConsistent ==
    /\ \A c \in 1..created : c \notin retired <=> c = subInit
    /\ subInit # 0 => \A k \in handlers : caller[k] = "subscribing" <=> ~attached[subInit]

\* #subscribed is about the attached client of #subInit.
SubscribedConsistent ==
    subscribed /\ ~late => /\ subInit # 0
                           /\ attached[subInit]
                           /\ subInit \in holds \/ conn[subInit] = "broken"

IInv ==
    /\ TypeOK
    /\ \A c \in Clients : ClientConsistent(c)
    /\ CurrentConsistent
    /\ SubscribedConsistent

-----------------------------------------------------------------------------
(* One action at a time. *)

\* What TypeOK says of the sets an action may update.
LEMMA TypeFact ==
    ASSUME TypeOK
    PROVE  /\ subInit \in Nat /\ created \in Nat /\ MaxClients \in Nat
           /\ subInit <= created /\ created <= MaxClients
           /\ \A c : c \in 1..created <=> c \in Clients /\ c <= created
           /\ subInit # 0 => subInit \in Clients
           /\ subInit # 0 <=> handlers # {}
  BY RedisPubSubAssumption DEF TypeOK, Clients

LEMMA SubscribeStep == ASSUME IInv, NEW k \in Callers, subscribe(k) PROVE IInv'
<1>1. TypeOK /\ CurrentConsistent /\ SubscribedConsistent /\ \A c \in Clients : ClientConsistent(c)
  BY DEF IInv
<1>2. caller[k] = "out" /\ ensureSubscriber(k) /\ UNCHANGED <<subscribed, retired, faultVars>>
  BY DEF subscribe
<1>3. UNCHANGED <<subscribed, retired, breaks, refusals, denied, late>>
  BY <1>2 DEF faultVars
<1>4. CASE subInit = 0
  <2> DEFINE c == created + 1
  <2>1. /\ created < MaxClients /\ created' = c /\ subInit' = c
        /\ conn' = [conn EXCEPT ![c] = "connecting"]
        /\ pending' = [pending EXCEPT ![c] = <<"first">>]
        /\ connectLazyClient
        /\ UNCHANGED <<attached, holds>>
        /\ caller' = [caller EXCEPT ![k] = "subscribing"]
    BY <1>2, <1>4 DEF ensureSubscriber, createSubscriber
  <2>2. c \in Nat /\ c \in Clients /\ c > created /\ c <= MaxClients /\ c \in 1..MaxClients /\ created \in Nat
    BY <1>1, <2>1, TypeFact DEF Clients
  <2>3. \A d \in Callers : caller[d] = "out"
    BY <1>1, <1>4, TypeFact DEF handlers
  <2>4. caller' \in [Callers -> {"out", "subscribing", "settling", "subscribed"}]
        /\ caller'[k] = "subscribing" /\ \A d \in Callers : d # k => caller'[d] = "out"
    BY <1>1, <2>1, <2>3 DEF TypeOK
  <2>5. /\ conn' \in [Clients -> {"none", "connecting", "ready", "broken", "quitting", "ended"}]
        /\ conn'[c] = "connecting" /\ \A d \in Clients : d # c => conn'[d] = conn[d]
        /\ pending' \in [Clients -> Seq({"first", "confirm"})]
    BY <1>1, <2>1, <2>2 DEF TypeOK
  <2>6. c \notin retired /\ c \notin holds /\ ~attached[c]
    BY <1>1, <2>2 DEF TypeOK, ClientConsistent
  <2>7. TypeOK'
    <3>1. pub' \in {"wait", "connecting", "ready", "reconnecting"}
      BY <1>1, <2>1 DEF TypeOK, connectLazyClient
    <3>2. subInit' # 0 /\ handlers' # {}
      BY <2>1, <2>2, <2>4 DEF handlers
    <3>3. /\ subInit' \in 0..created' /\ created' \in 0..MaxClients
          /\ retired' \subseteq 1..created' /\ holds' \subseteq 1..created'
      BY <1>1, <1>3, <2>1, <2>2 DEF TypeOK
    <3> QED
      BY <1>1, <1>3, <2>1, <2>4, <2>5, <3>1, <3>2, <3>3 DEF TypeOK
  <2>8. ASSUME NEW d \in Clients PROVE ClientConsistent(d)'
    BY <1>1, <1>3, <2>1, <2>2, <2>5, <2>6 DEF ClientConsistent, TypeOK, Clients
  <2>9. CurrentConsistent'
    <3>1. \A d \in 1..created' : d \notin retired' <=> d = subInit'
      <4> SUFFICES ASSUME NEW d \in 1..created' PROVE d \notin retired' <=> d = subInit'
        OBVIOUS
      <4>1. d \in 1..created \/ d = c
        BY <2>1, <2>2
      <4>2. d \in 1..created => d \in retired /\ d # c
        BY <1>1, <1>4, <2>2 DEF CurrentConsistent
      <4> QED
        BY <1>3, <2>1, <2>6, <4>1, <4>2
    <3>2. \A d \in handlers' : caller'[d] = "subscribing"
      BY <2>4 DEF handlers
    <3> QED
      BY <2>1, <2>6, <3>1, <3>2 DEF CurrentConsistent
  <2>10. SubscribedConsistent'
    BY <1>1, <1>3, <1>4 DEF SubscribedConsistent
  <2> QED
    BY <2>7, <2>8, <2>9, <2>10 DEF IInv
<1>5. CASE subInit # 0
  <2>1. /\ IF attached[subInit] THEN publisherSettled(k)
                                ELSE caller' = [caller EXCEPT ![k] = "subscribing"]
        /\ UNCHANGED <<subInit, created, conn, attached, pending, holds, pub>>
    BY <1>2, <1>5 DEF ensureSubscriber, connVars
  <2>2. PICK state \in {"subscribing", "settling", "subscribed"} :
            /\ caller' = [caller EXCEPT ![k] = state]
            /\ state = "subscribing" <=> ~attached[subInit]
    BY <2>1 DEF publisherSettled
  <2>3. /\ caller' \in [Callers -> {"out", "subscribing", "settling", "subscribed"}]
        /\ caller'[k] = state /\ \A d \in Callers : d # k => caller'[d] = caller[d]
    BY <1>1, <2>2 DEF TypeOK
  <2>4. TypeOK'
    <3>1. handlers' # {}
      BY <2>3 DEF handlers
    <3> QED
      BY <1>1, <1>3, <1>5, <2>1, <2>3, <3>1 DEF TypeOK
  <2>5. \A d \in Clients : ClientConsistent(d)'
    BY <1>1, <1>3, <2>1 DEF ClientConsistent
  <2>6. CurrentConsistent'
    BY <1>1, <1>3, <1>5, <2>1, <2>2, <2>3 DEF CurrentConsistent, handlers
  <2>7. SubscribedConsistent'
    BY <1>1, <1>3, <2>1 DEF SubscribedConsistent
  <2> QED
    BY <2>4, <2>5, <2>6, <2>7 DEF IInv
<1> QED
  BY <1>4, <1>5

\* #subInit is cleared and its client retired once nobody has a handler.
LEMMA RetireStep ==
    ASSUME IInv, subInit # 0,
           retired' = retired \cup {subInit}, subInit' = 0,
           caller' \in [Callers -> {"out", "subscribing", "settling", "subscribed"}],
           \A k \in Callers : caller'[k] = "out",
           \/ /\ attached[subInit]
              /\ conn' = [conn EXCEPT ![subInit] = "quitting"]
              /\ UNCHANGED <<pending, holds>>
           \/ disconnects(subInit),
           UNCHANGED <<created, attached, pub, breaks, denied, late>>,
           refusals' \in 0..MaxRefusals, subscribed' \in BOOLEAN,
           subscribed' => late
    PROVE  IInv'
<1>1. TypeOK /\ CurrentConsistent /\ \A c \in Clients : ClientConsistent(c)
  BY DEF IInv
<1>2. subInit \in Clients /\ subInit \in 1..created /\ subInit \in Nat
  BY <1>1, TypeFact DEF TypeOK
<1>3. /\ conn' \in [Clients -> {"none", "connecting", "ready", "broken", "quitting", "ended"}]
      /\ conn'[subInit] \in {"quitting", "ended"}
      /\ \A d \in Clients : d # subInit => conn'[d] = conn[d]
      /\ pending' \in [Clients -> Seq({"first", "confirm"})]
      /\ holds' \subseteq holds
      /\ subInit \in holds' => conn'[subInit] = "quitting"
      /\ conn'[subInit] = "quitting" => attached[subInit]
  <2>1. CASE /\ attached[subInit]
             /\ conn' = [conn EXCEPT ![subInit] = "quitting"] /\ UNCHANGED <<pending, holds>>
    BY <1>1, <1>2, <2>1 DEF TypeOK
  <2>2. CASE disconnects(subInit)
    <3>1. /\ conn' = [conn EXCEPT ![subInit] = "ended"]
          /\ pending' = [pending EXCEPT ![subInit] = <<>>]
          /\ holds' = holds \ {subInit}
      BY <2>2 DEF disconnects
    <3>2. <<>> \in Seq({"first", "confirm"})
      OBVIOUS
    <3> QED
      BY <1>1, <1>2, <3>1, <3>2 DEF TypeOK
  <2> QED
    BY <2>1, <2>2
<1>4. TypeOK'
  <2>1. handlers' = {}
    BY DEF handlers
  <2>2. subInit' \in 0..created' /\ retired' \subseteq 1..created' /\ holds' \subseteq 1..created'
    BY <1>1, <1>2, <1>3 DEF TypeOK
  <2> QED
    BY <1>1, <1>3, <2>1, <2>2 DEF TypeOK
<1>5. ASSUME NEW d \in Clients PROVE ClientConsistent(d)'
  BY <1>1, <1>2, <1>3 DEF ClientConsistent, CurrentConsistent
<1>6. CurrentConsistent'
  BY <1>1, <1>2 DEF CurrentConsistent
<1>7. SubscribedConsistent'
  BY DEF SubscribedConsistent
<1> QED
  BY <1>4, <1>5, <1>6, <1>7 DEF IInv

\* Nothing about the clients changes, and nobody is attached or comes or goes.
LEMMA CallersStep ==
    ASSUME IInv, UNCHANGED <<subInit, subscribed, retired, created, conn, attached, pending, holds>>,
           UNCHANGED <<breaks, refusals, denied, late>>,
           pub' \in {"wait", "connecting", "ready", "reconnecting"},
           caller' \in [Callers -> {"out", "subscribing", "settling", "subscribed"}],
           handlers' # {} <=> handlers # {}, handlers' \subseteq handlers,
           \A k \in handlers' : caller'[k] = "subscribing" <=> caller[k] = "subscribing"
    PROVE  IInv'
<1>1. TypeOK /\ CurrentConsistent /\ SubscribedConsistent /\ \A c \in Clients : ClientConsistent(c)
  BY DEF IInv
<1>2. TypeOK'
  <2>1. subInit' # 0 <=> handlers' # {}
    BY <1>1 DEF TypeOK
  <2> QED
    BY <1>1, <2>1 DEF TypeOK
<1>3. \A c \in Clients : ClientConsistent(c)'
  BY <1>1 DEF ClientConsistent
<1>4. CurrentConsistent'
  BY <1>1 DEF CurrentConsistent
<1>5. SubscribedConsistent'
  BY <1>1 DEF SubscribedConsistent
<1> QED
  BY <1>2, <1>3, <1>4, <1>5 DEF IInv

LEMMA UnsubscribeStep == ASSUME IInv, NEW k \in Callers, unsubscribe(k) PROVE IInv'
<1>1. TypeOK /\ CurrentConsistent
  BY DEF IInv
<1>2. /\ caller[k] = "subscribed" /\ caller' = [caller EXCEPT ![k] = "out"]
      /\ UNCHANGED <<created, attached, pub, breaks, refusals, denied, late>>
  BY DEF unsubscribe, faultVars
<1>3. /\ caller' \in [Callers -> {"out", "subscribing", "settling", "subscribed"}]
      /\ caller'[k] = "out" /\ \A d \in Callers : d # k => caller'[d] = caller[d]
      /\ k \in handlers /\ subInit # 0
  BY <1>1, <1>2 DEF TypeOK, handlers
<1>4. CASE handlers = {k}
  <2>5. attached[subInit]
    BY <1>1, <1>2, <1>3 DEF CurrentConsistent
  <2>1. /\ subInit' = 0 /\ retired' = retired \cup {subInit} /\ subscribed' = FALSE
        /\ \/ conn' = [conn EXCEPT ![subInit] = "quitting"] /\ UNCHANGED <<pending, holds>>
           \/ disconnects(subInit)
    BY <1>4 DEF unsubscribe
  <2>2. \A d \in Callers : caller'[d] = "out"
    BY <1>3, <1>4 DEF handlers
  <2>3. refusals' \in 0..MaxRefusals
    BY <1>1, <1>2 DEF TypeOK
  <2> QED
    BY <1>2, <1>3, <2>1, <2>2, <2>3, <2>5, RetireStep
<1>5. CASE handlers # {k}
  <2>1. UNCHANGED <<subInit, retired, subscribed, conn, pending, holds>>
    BY <1>5 DEF unsubscribe
  <2>2. handlers' = handlers \ {k}
    BY <1>3 DEF handlers
  <2>3. \A d \in handlers' : caller'[d] = "subscribing" <=> caller[d] = "subscribing"
    BY <1>3, <2>2 DEF handlers
  <2>4. pub' \in {"wait", "connecting", "ready", "reconnecting"}
    BY <1>1, <1>2 DEF TypeOK
  <2> QED
    BY <1>2, <1>3, <1>5, <2>1, <2>2, <2>3, <2>4, CallersStep
<1> QED
  BY <1>4, <1>5

\* A client that negotiates is the one of #subInit, and everybody awaits it.
LEMMA NegotiatingFact ==
    ASSUME IInv, NEW c \in Clients, Negotiating(c)
    PROVE  /\ subInit = c /\ c # 0 /\ c \in 1..created /\ c \notin retired /\ ~attached[c] /\ c \notin holds
           /\ \A k \in Callers : caller[k] # "out" <=> caller[k] = "subscribing"
           /\ subscribed => late
<1>1. TypeOK /\ CurrentConsistent /\ SubscribedConsistent /\ ClientConsistent(c)
  BY DEF IInv
<1>2. c \in 1..created /\ ~attached[c] /\ c \notin retired
  BY DEF Negotiating
<1>3. subInit = c /\ c # 0
  BY <1>1, <1>2 DEF CurrentConsistent, TypeOK
<1>4. \A k \in handlers : caller[k] = "subscribing"
  BY <1>1, <1>2, <1>3 DEF CurrentConsistent
<1> QED
  BY <1>1, <1>2, <1>3, <1>4 DEF handlers, SubscribedConsistent, ClientConsistent

\* A client that is attached or retired does not change what its callers await, and one that
\* negotiates lets them go on when it is attached.
LEMMA ReportStep ==
    ASSUME IInv, NEW c \in Clients, c \in 1..created,
           IF Negotiating(c) THEN Attach(c) ELSE UNCHANGED <<attached, caller>>,
           UNCHANGED <<subInit, retired, created, pub>>,
           pending' \in [Clients -> Seq({"first", "confirm"})],
           conn' \in [Clients -> {"none", "connecting", "ready", "broken", "quitting", "ended"}],
           \A d \in Clients : d # c => conn'[d] = conn[d],
           conn'[c] = conn[c] \/ (conn[c] \in {"connecting", "ready", "broken"}
                                  /\ conn'[c] \in {"connecting", "ready", "broken"}),
           holds' \subseteq holds \cup {c},
           c \in holds' => conn'[c] \in {"ready", "quitting"},
           subscribed' \in BOOLEAN, denied' \in BOOLEAN, late' \in BOOLEAN,
           breaks' \in 0..MaxBreaks, refusals' \in 0..MaxRefusals,
           SubscribedConsistent',
           c \in holds' => attached'[c]
    PROVE  IInv'
<1>1. TypeOK /\ CurrentConsistent /\ \A d \in Clients : ClientConsistent(d)
  BY DEF IInv
<1>2. /\ attached' \in [Clients -> BOOLEAN]
      /\ \A d \in Clients : d # c => (attached'[d] <=> attached[d])
      /\ attached[c] => attached'[c]
  BY <1>1 DEF TypeOK, Attach
<1>3. /\ caller' \in [Callers -> {"out", "subscribing", "settling", "subscribed"}]
      /\ \A k \in Callers : caller'[k] # "out" <=> caller[k] # "out"
  BY <1>1 DEF TypeOK, Attach
<1>4. handlers' = handlers
  BY <1>3 DEF handlers
<1>5. TypeOK'
  <2>1. subInit' # 0 <=> handlers' # {}
    BY <1>1, <1>4 DEF TypeOK
  <2>2. retired' \subseteq 1..created' /\ holds' \subseteq 1..created'
    BY <1>1 DEF TypeOK
  <2> QED
    BY <1>1, <1>2, <1>3, <2>1, <2>2 DEF TypeOK
<1>6. ASSUME NEW d \in Clients PROVE ClientConsistent(d)'
  <2>1. CASE d # c
    BY <1>1, <1>2, <2>1 DEF ClientConsistent
  <2>2. CASE d = c
    <3>1. c <= created /\ ~(c > created)
      BY <1>1, TypeFact DEF Clients
    <3> QED
      BY <1>1, <1>2, <2>2, <3>1 DEF ClientConsistent
  <2> QED
    BY <2>1, <2>2
<1>7. CurrentConsistent'
  <2>1. CASE Negotiating(c)
    <3>1. subInit = c /\ \A k \in Callers : caller[k] # "out" <=> caller[k] = "subscribing"
      BY <2>1, NegotiatingFact
    <3>2. attached'[c] /\ \A k \in Callers : caller'[k] # "subscribing"
      BY <1>1, <2>1 DEF Attach, TypeOK
    <3> QED
      BY <1>1, <1>4, <3>1, <3>2 DEF CurrentConsistent, handlers
  <2>2. CASE ~Negotiating(c)
    BY <1>1, <1>4, <2>2 DEF CurrentConsistent
  <2> QED
    BY <2>1, <2>2
<1> QED
  BY <1>5, <1>6, <1>7 DEF IInv

LEMMA AcceptedStep == ASSUME IInv, NEW c \in Clients, Accepted(c) PROVE IInv'
<1> DEFINE cmd == Head(pending[c])
<1>1. TypeOK /\ CurrentConsistent /\ SubscribedConsistent /\ \A d \in Clients : ClientConsistent(d)
  BY DEF IInv
<1>2. /\ conn[c] \in {"ready", "quitting"} /\ pending[c] # <<>>
      /\ pending' = [pending EXCEPT ![c] = Tail(@)]
      /\ holds' = holds \cup {c}
      /\ IF Negotiating(c) THEN Attach(c) ELSE UNCHANGED <<attached, caller>>
      /\ UNCHANGED <<subInit, retired, created, conn, pub, breaks, refusals>>
  BY DEF Accepted
<1>3. /\ c \in 1..created /\ c # 0
      /\ pending' \in [Clients -> Seq({"first", "confirm"})]
      /\ conn' \in [Clients -> {"none", "connecting", "ready", "broken", "quitting", "ended"}]
      /\ breaks' \in 0..MaxBreaks /\ refusals' \in 0..MaxRefusals
  <2>1. c <= created /\ c \in Nat /\ c # 0
    BY <1>1, <1>2, TypeFact DEF ClientConsistent, Clients
  <2>2. Tail(pending[c]) \in Seq({"first", "confirm"})
    BY <1>1, <1>2 DEF TypeOK
  <2> QED
    BY <1>1, <1>2, <2>1, <2>2, TypeFact DEF TypeOK
<1>4. attached'[c]
  <2>1. CASE Negotiating(c)
    BY <1>1, <1>2, <2>1 DEF Attach, TypeOK
  <2>2. CASE ~Negotiating(c)
    <3>1. attached[c] \/ c \in retired
      BY <1>3, <2>2 DEF Negotiating
    <3>2. c <= created
      BY <1>1, <1>3, TypeFact
    <3> QED
      BY <1>1, <1>2, <2>2, <3>1, <3>2 DEF ClientConsistent
  <2> QED
    BY <2>1, <2>2
<1>5. /\ subscribed' \in BOOLEAN /\ denied' \in BOOLEAN /\ late' \in BOOLEAN
      /\ SubscribedConsistent'
  <2>1. CASE cmd = "confirm" \/ Negotiating(c)
    <3>1. subscribed' = TRUE /\ denied' = FALSE /\ late' = (late \/ c \in retired)
      BY <2>1 DEF Accepted
    <3>2. late' \in BOOLEAN
      BY <1>1, <3>1 DEF TypeOK
    <3>3. c \notin retired => c = subInit
      BY <1>1, <1>3 DEF CurrentConsistent
    <3> QED
      BY <1>2, <1>3, <1>4, <3>1, <3>2, <3>3 DEF SubscribedConsistent
  <2>2. CASE ~(cmd = "confirm" \/ Negotiating(c))
    <3>1. UNCHANGED <<subscribed, denied, late, attached>>
      BY <1>2, <2>2 DEF Accepted
    <3> QED
      BY <1>1, <1>2, <3>1 DEF SubscribedConsistent, TypeOK
  <2> QED
    BY <2>1, <2>2
<1> QED
  BY <1>2, <1>3, <1>4, <1>5, ReportStep

LEMMA RefusedStep == ASSUME IInv, NEW c \in Clients, Refused(c) PROVE IInv'
<1>1. TypeOK /\ CurrentConsistent /\ SubscribedConsistent /\ \A d \in Clients : ClientConsistent(d)
  BY DEF IInv
<1>2. /\ conn[c] \in {"ready", "quitting"} /\ pending[c] # <<>>
      /\ refusals' = refusals + 1
      /\ refusals < MaxRefusals
      /\ UNCHANGED <<created, pub, breaks, late>>
  BY DEF Refused
<1>3. refusals' \in 0..MaxRefusals
  BY <1>1, <1>2, RedisPubSubAssumption DEF TypeOK
<1>4. CASE Negotiating(c)
  <2>1. /\ retired' = retired \cup {c} /\ disconnects(c) /\ subInit' = 0
        /\ caller' = [k \in Callers |-> IF caller[k] = "subscribing" THEN "out" ELSE caller[k]]
        /\ UNCHANGED <<subscribed, attached, denied>>
    BY <1>4 DEF Refused, FailBoot
  <2>2. /\ subInit = c /\ c # 0
        /\ \A k \in Callers : caller[k] # "out" <=> caller[k] = "subscribing"
        /\ subscribed => late
    BY <1>4, NegotiatingFact
  <2>3. /\ caller' \in [Callers -> {"out", "subscribing", "settling", "subscribed"}]
        /\ \A k \in Callers : caller'[k] = "out"
    BY <1>1, <2>1, <2>2 DEF TypeOK
  <2>4. subscribed' \in BOOLEAN
    BY <1>1, <2>1 DEF TypeOK
  <2> QED
    BY <1>2, <1>3, <2>1, <2>2, <2>3, <2>4, RetireStep
<1>5. CASE ~Negotiating(c)
  <2>1. /\ pending' = [pending EXCEPT ![c] = Tail(@)]
        /\ subscribed' = FALSE /\ denied' = TRUE
        /\ UNCHANGED <<subInit, retired, caller, attached, conn, holds>>
    BY <1>5 DEF Refused
  <2>2. Tail(pending[c]) \in Seq({"first", "confirm"})
    BY <1>1, <1>2 DEF TypeOK
  <2>3. c \in 1..created
    BY <1>1, <1>2, TypeFact DEF ClientConsistent, Clients
  <2>4. /\ pending' \in [Clients -> Seq({"first", "confirm"})]
        /\ conn' \in [Clients -> {"none", "connecting", "ready", "broken", "quitting", "ended"}]
        /\ breaks' \in 0..MaxBreaks /\ late' \in BOOLEAN
    BY <1>1, <1>2, <2>1, <2>2 DEF TypeOK
  <2>5. SubscribedConsistent' /\ (c \in holds' => attached'[c] /\ conn'[c] \in {"ready", "quitting"})
    BY <1>1, <2>1 DEF SubscribedConsistent, ClientConsistent
  <2> QED
    BY <1>2, <1>3, <1>5, <2>1, <2>3, <2>4, <2>5, ReportStep
<1> QED
  BY <1>4, <1>5

LEMMA ReadyStep == ASSUME IInv, NEW c \in Clients, Ready(c) PROVE IInv'
<1>1. TypeOK /\ CurrentConsistent /\ SubscribedConsistent /\ \A d \in Clients : ClientConsistent(d)
  BY DEF IInv
<1>2. /\ conn[c] = "connecting" /\ conn' = [conn EXCEPT ![c] = "ready"]
      /\ confirm(c) /\ denied' = FALSE
      /\ UNCHANGED <<subInit, subscribed, retired, caller, created, attached, holds, pub,
                     breaks, refusals, late>>
  BY DEF Ready
<1>3. /\ c \in 1..created /\ c \notin holds
  BY <1>1, <1>2, TypeFact DEF ClientConsistent, Clients
<1>4. pending' \in [Clients -> Seq({"first", "confirm"})]
  <2>1. "confirm" \in {"first", "confirm"}
    OBVIOUS
  <2>2. Append(pending[c], "confirm") \in Seq({"first", "confirm"})
    BY <1>1, <2>1 DEF TypeOK
  <2> QED
    BY <1>1, <1>2, <2>2 DEF TypeOK, confirm
<1>5. /\ conn' \in [Clients -> {"none", "connecting", "ready", "broken", "quitting", "ended"}]
      /\ conn'[c] = "ready" /\ \A d \in Clients : d # c => conn'[d] = conn[d]
  BY <1>1, <1>2 DEF TypeOK
<1>6. TypeOK'
  BY <1>1, <1>2, <1>4, <1>5 DEF TypeOK, handlers
<1>7. ASSUME NEW d \in Clients PROVE ClientConsistent(d)'
  <2>1. CASE d # c
    BY <1>1, <1>2, <1>5, <2>1 DEF ClientConsistent
  <2>2. CASE d = c
    BY <1>1, <1>2, <1>3, <1>5, <2>2 DEF ClientConsistent
  <2> QED
    BY <2>1, <2>2
<1>8. CurrentConsistent'
  BY <1>1, <1>2 DEF CurrentConsistent, handlers
<1>9. SubscribedConsistent'
  <2>1. subInit \in Clients \/ subInit = 0
    BY <1>1, TypeFact
  <2> QED
    BY <1>1, <1>2, <1>5, <2>1 DEF SubscribedConsistent
<1> QED
  BY <1>6, <1>7, <1>8, <1>9 DEF IInv

LEMMA BreaksStep == ASSUME IInv, NEW c \in Clients, Breaks(c) PROVE IInv'
<1>1. TypeOK /\ CurrentConsistent /\ SubscribedConsistent /\ \A d \in Clients : ClientConsistent(d)
  BY DEF IInv
<1>2. /\ conn[c] = "ready" /\ breaks < MaxBreaks /\ breaks' = breaks + 1
      /\ conn' = [conn EXCEPT ![c] = "broken"]
      /\ holds' = holds \ {c}
      /\ UNCHANGED <<subInit, subscribed, retired, caller, created, attached, pending, pub,
                     refusals, denied, late>>
  BY DEF Breaks
<1>3. c \in 1..created
  BY <1>1, <1>2, TypeFact DEF ClientConsistent, Clients
<1>4. /\ conn' \in [Clients -> {"none", "connecting", "ready", "broken", "quitting", "ended"}]
      /\ conn'[c] = "broken" /\ \A d \in Clients : d # c => conn'[d] = conn[d]
      /\ breaks' \in 0..MaxBreaks
  BY <1>1, <1>2, RedisPubSubAssumption DEF TypeOK
<1>5. TypeOK'
  BY <1>1, <1>2, <1>4 DEF TypeOK, handlers
<1>6. ASSUME NEW d \in Clients PROVE ClientConsistent(d)'
  <2>1. CASE d # c
    BY <1>1, <1>2, <1>4, <2>1 DEF ClientConsistent
  <2>2. CASE d = c
    BY <1>1, <1>2, <1>3, <1>4, <2>2 DEF ClientConsistent
  <2> QED
    BY <2>1, <2>2
<1>7. CurrentConsistent'
  BY <1>1, <1>2 DEF CurrentConsistent, handlers
<1>8. SubscribedConsistent'
  <2>1. subInit \in Clients \/ subInit = 0
    BY <1>1, TypeFact
  <2> QED
    BY <1>1, <1>2, <1>4, <2>1 DEF SubscribedConsistent
<1> QED
  BY <1>5, <1>6, <1>7, <1>8 DEF IInv

LEMMA CloseStep == ASSUME IInv, NEW c \in Clients, Close(c) PROVE IInv'
<1>1. TypeOK /\ CurrentConsistent /\ SubscribedConsistent /\ \A d \in Clients : ClientConsistent(d)
  BY DEF IInv
<1>2. /\ conn[c] \in {"connecting", "broken"} /\ conn' = [conn EXCEPT ![c] = "connecting"]
      /\ subscribed' = (subscribed /\ c \in retired)
      /\ IF Negotiating(c) THEN Attach(c) ELSE UNCHANGED <<attached, caller>>
      /\ pending' \in {pending, [pending EXCEPT ![c] = <<>>]}
      /\ UNCHANGED <<subInit, retired, created, holds, pub, breaks, refusals, denied, late>>
  BY DEF Close, markDown, faultVars
<1>3. c \in 1..created /\ c \notin retired /\ c \notin holds
  BY <1>1, <1>2, TypeFact DEF ClientConsistent, Clients
<1>4. /\ conn' \in [Clients -> {"none", "connecting", "ready", "broken", "quitting", "ended"}]
      /\ conn'[c] = "connecting" /\ \A d \in Clients : d # c => conn'[d] = conn[d]
  BY <1>1, <1>2 DEF TypeOK
<1>5. pending' \in [Clients -> Seq({"first", "confirm"})]
  <2>1. <<>> \in Seq({"first", "confirm"})
    OBVIOUS
  <2> QED
    BY <1>1, <1>2, <2>1 DEF TypeOK
<1>6. /\ subscribed' = FALSE /\ denied' \in BOOLEAN /\ late' \in BOOLEAN
      /\ breaks' \in 0..MaxBreaks /\ refusals' \in 0..MaxRefusals
  BY <1>1, <1>2, <1>3 DEF TypeOK
<1>7. SubscribedConsistent'
  BY <1>6 DEF SubscribedConsistent
<1> QED
  BY <1>2, <1>3, <1>4, <1>5, <1>6, <1>7, ReportStep

LEMMA QuitEndsStep == ASSUME IInv, NEW c \in Clients, QuitEnds(c) PROVE IInv'
<1>1. TypeOK /\ CurrentConsistent /\ SubscribedConsistent /\ \A d \in Clients : ClientConsistent(d)
  BY DEF IInv
<1>2. /\ conn[c] = "quitting"
      /\ conn' = [conn EXCEPT ![c] = "ended"]
      /\ pending' = [pending EXCEPT ![c] = <<>>]
      /\ holds' = holds \ {c}
      /\ UNCHANGED <<subInit, subscribed, retired, caller, created, attached, pub,
                     breaks, refusals, denied, late>>
  BY DEF QuitEnds, disconnects, faultVars
<1>3. c \in 1..created /\ c \in retired
  BY <1>1, <1>2, TypeFact DEF ClientConsistent, Clients
<1>4. /\ conn' \in [Clients -> {"none", "connecting", "ready", "broken", "quitting", "ended"}]
      /\ conn'[c] = "ended" /\ \A d \in Clients : d # c => conn'[d] = conn[d]
  BY <1>1, <1>2 DEF TypeOK
<1>5. pending' \in [Clients -> Seq({"first", "confirm"})]
  <2>1. <<>> \in Seq({"first", "confirm"})
    OBVIOUS
  <2> QED
    BY <1>1, <1>2, <2>1 DEF TypeOK
<1>6. TypeOK'
  BY <1>1, <1>2, <1>4, <1>5 DEF TypeOK, handlers
<1>7. ASSUME NEW d \in Clients PROVE ClientConsistent(d)'
  <2>1. CASE d # c
    BY <1>1, <1>2, <1>4, <2>1 DEF ClientConsistent
  <2>2. CASE d = c
    BY <1>1, <1>2, <1>3, <1>4, <2>2 DEF ClientConsistent
  <2> QED
    BY <2>1, <2>2
<1>8. CurrentConsistent'
  BY <1>1, <1>2 DEF CurrentConsistent, handlers
<1>9. SubscribedConsistent'
  <2>1. (subInit \in Clients \/ subInit = 0) /\ (subInit # 0 => subInit \in 1..created)
    BY <1>1, TypeFact
  <2>2. subInit # c
    BY <1>1, <1>3, <2>1 DEF CurrentConsistent
  <2> QED
    BY <1>1, <1>2, <1>4, <2>1, <2>2 DEF SubscribedConsistent
<1> QED
  BY <1>6, <1>7, <1>8, <1>9 DEF IInv

\* What happens to the publishing client, and the deadline, concern only those who have the
\* subscriber client already.
LEMMA PublisherStep ==
    ASSUME IInv, UNCHANGED <<subInit, subscribed, retired, connVars, faultVars>>,
           pub' \in {"wait", "connecting", "ready", "reconnecting"},
           \/ UNCHANGED caller
           \/ caller' = [k \in Callers |-> IF caller[k] = "settling" THEN "subscribed" ELSE caller[k]]
           \/ \E k \in Callers : caller[k] = "settling" /\ caller' = [caller EXCEPT ![k] = "subscribed"]
    PROVE  IInv'
<1>1. TypeOK
  BY DEF IInv
<1>2. UNCHANGED <<created, conn, attached, pending, holds, breaks, refusals, denied, late>>
  BY DEF connVars, faultVars
<1>3. /\ caller' \in [Callers -> {"out", "subscribing", "settling", "subscribed"}]
      /\ \A k \in Callers : \/ caller'[k] = caller[k]
                            \/ caller[k] = "settling" /\ caller'[k] = "subscribed"
  <2>1. caller \in [Callers -> {"out", "subscribing", "settling", "subscribed"}]
    BY <1>1 DEF TypeOK
  <2> QED
    BY <2>1
<1>4. handlers' = handlers
  BY <1>3 DEF handlers
<1>5. \A k \in handlers' : caller'[k] = "subscribing" <=> caller[k] = "subscribing"
  BY <1>3, <1>4 DEF handlers
<1> QED
  BY <1>2, <1>3, <1>4, <1>5, CallersStep

-----------------------------------------------------------------------------
(* The specification. *)

LEMMA InitInv == Init => IInv
<1> SUFFICES ASSUME Init PROVE IInv
  OBVIOUS
<1>1. handlers = {}
  BY DEF Init, handlers
<1>2. TypeOK
  <2>1. pending \in [Clients -> Seq({"first", "confirm"})]
    BY DEF Init
  <2>2. /\ subInit \in 0..created /\ created \in 0..MaxClients
        /\ breaks \in 0..MaxBreaks /\ refusals \in 0..MaxRefusals
    BY RedisPubSubAssumption DEF Init
  <2>3. /\ subInit = 0 /\ retired \subseteq 1..created /\ holds \subseteq 1..created
        /\ subscribed \in BOOLEAN /\ denied \in BOOLEAN /\ late \in BOOLEAN
        /\ pub \in {"wait", "connecting", "ready", "reconnecting"}
    BY DEF Init
  <2>4. /\ caller \in [Callers -> {"out", "subscribing", "settling", "subscribed"}]
        /\ conn \in [Clients -> {"none", "connecting", "ready", "broken", "quitting", "ended"}]
        /\ attached \in [Clients -> BOOLEAN]
    BY DEF Init
  <2> QED
    BY <1>1, <2>1, <2>2, <2>3, <2>4 DEF TypeOK
<1>3. \A c \in Clients : ClientConsistent(c)
  BY RedisPubSubAssumption DEF Init, ClientConsistent, Clients
<1>4. CurrentConsistent
  BY DEF Init, CurrentConsistent
<1>5. SubscribedConsistent
  BY DEF Init, SubscribedConsistent
<1> QED
  BY <1>2, <1>3, <1>4, <1>5 DEF IInv

LEMMA NextInv == IInv /\ [Next]_vars => IInv'
<1> SUFFICES ASSUME IInv, [Next]_vars PROVE IInv'
  OBVIOUS
<1>1. TypeOK
  BY DEF IInv
<1>2. ASSUME NEW k \in Callers, subscribe(k) PROVE IInv'
  BY <1>2, SubscribeStep
<1>3. ASSUME NEW k \in Callers, unsubscribe(k) PROVE IInv'
  BY <1>3, UnsubscribeStep
<1>4. ASSUME NEW k \in Callers, Deadline(k) PROVE IInv'
  <2>1. pub' \in {"wait", "connecting", "ready", "reconnecting"}
    BY <1>1, <1>4 DEF TypeOK, Deadline
  <2> QED
    BY <1>4, <2>1, PublisherStep DEF Deadline
<1>5. ASSUME NEW c \in Clients, Accepted(c) PROVE IInv'
  BY <1>5, AcceptedStep
<1>6. ASSUME NEW c \in Clients, Refused(c) PROVE IInv'
  BY <1>6, RefusedStep
<1>7. ASSUME NEW c \in Clients, Ready(c) PROVE IInv'
  BY <1>7, ReadyStep
<1>8. ASSUME NEW c \in Clients, Breaks(c) PROVE IInv'
  BY <1>8, BreaksStep
<1>9. ASSUME NEW c \in Clients, Close(c) PROVE IInv'
  BY <1>9, CloseStep
<1>10. ASSUME NEW c \in Clients, QuitEnds(c) PROVE IInv'
  BY <1>10, QuitEndsStep
<1>11. CASE PublisherConnects
  BY <1>11, PublisherStep DEF PublisherConnects, PublisherTurns
<1>12. CASE PublisherCloses
  BY <1>12, PublisherStep DEF PublisherCloses, PublisherTurns
<1>13. CASE publish
  <2>1. pub' \in {"wait", "connecting", "ready", "reconnecting"}
    BY <1>1, <1>13 DEF TypeOK, publish, connectLazyClient
  <2> QED
    BY <1>13, <2>1, PublisherStep DEF publish
<1>14. CASE UNCHANGED vars
  <2>1. pub' \in {"wait", "connecting", "ready", "reconnecting"}
    BY <1>1, <1>14 DEF TypeOK, vars
  <2> QED
    BY <1>14, <2>1, PublisherStep DEF vars
<1> QED
  BY <1>2, <1>3, <1>4, <1>5, <1>6, <1>7, <1>8, <1>9, <1>10, <1>11, <1>12, <1>13, <1>14 DEF Next

\* Every reachable state satisfies the invariant.
THEOREM Invariance == Spec => []IInv
<1>1. Init => IInv
  BY InitInv
<1>2. IInv /\ [Next]_vars => IInv'
  BY NextInv
<1> QED
  BY <1>1, <1>2, PTL DEF Spec

\* However subscribe(), its release, refusals and reconnections interleave, a client still in
\* use is the one #subInit knows, a retired one ends, and two subscribed clients overlap only
\* while one of them quits (ensureSubscriber, negotiate, unsubscribe).
THEOREM OneClientInUse == Spec => []ClientsAccounted
<1>1. ASSUME IInv PROVE ClientsAccounted
  <2>1. TypeOK /\ CurrentConsistent /\ \A c \in Clients : ClientConsistent(c)
    BY <1>1 DEF IInv
  <2>2. (1..created) \ retired \subseteq {subInit}
    BY <2>1 DEF CurrentConsistent
  <2>3. ASSUME NEW c \in retired PROVE c \in Clients /\ c <= created /\ conn[c] \in {"quitting", "ended"}
    BY <2>1, TypeFact DEF ClientConsistent, TypeOK
  <2>4. ASSUME NEW c \in holds, NEW d \in holds, c # d PROVE "quitting" \in {conn[c], conn[d]}
    <3>1. c \in Clients /\ d \in Clients /\ c \in 1..created /\ d \in 1..created
      BY <2>1, TypeFact DEF TypeOK
    <3>2. c \in retired \/ d \in retired
      BY <2>1, <2>4, <3>1 DEF CurrentConsistent
    <3> QED
      BY <2>1, <2>3, <3>1, <3>2 DEF ClientConsistent
  <2> QED
    BY <2>1, <2>2, <2>3, <2>4 DEF ClientsAccounted, OneSubscriber
<1> QED
  BY <1>1, Invariance, PTL

\* An instance never reports itself subscribed while deaf, but for a break that is not noticed
\* yet and for the answer to a client that was left (#subscribed, markUp, markDown).
THEOREM SubscribedIsHeard == Spec => []ReadyMeansHearing
<1>1. IInv => ReadyMeansHearing
  BY DEF IInv, SubscribedConsistent, ReadyMeansHearing
<1> QED
  BY <1>1, Invariance, PTL

=============================================================================
