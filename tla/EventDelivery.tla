---------------------------- MODULE EventDelivery ----------------------------
(***************************************************************************)
(* What the library promises of an emit, whatever carries it: an event     *)
(* reaches connections of its audience only, each of them at most once,    *)
(* and none whose end has begun.  Nothing is promised to arrive.           *)
(***************************************************************************)
EXTENDS Sequences, FiniteSets

CONSTANTS Conns, Events, Targets,
          Audience  \* Audience[t]: the connections target t stands for

VARIABLES
    sent,     \* sent[e]: the target e was emitted to, or "none"
    received, \* received[c]: the events c was sent, in order
    live      \* the connections whose end has not begun

vars == <<sent, received, live>>

Had(c) == {received[c][k] : k \in DOMAIN received[c]}

Init ==
    /\ sent = [e \in Events |-> "none"]
    /\ received = [c \in Conns |-> <<>>]
    /\ live \in SUBSET Conns

\* The connections a step writes to, each of which is sent e and nothing else.
Reached(e) == {c \in Conns : received'[c] # received[c]}

Writes(e) == received' = [c \in Conns |->
                 IF c \in Reached(e) THEN Append(received[c], e) ELSE received[c]]

\* An emit reaches some of its audience at once.
Emit(e, t) ==
    /\ sent[e] = "none"
    /\ sent' = [sent EXCEPT ![e] = t]
    /\ Writes(e)
    /\ Reached(e) \subseteq Audience[t] \cap live
    /\ UNCHANGED live

\* It reaches more of them later.
Deliver(e) ==
    /\ sent[e] # "none"
    /\ Writes(e)
    /\ Reached(e) \subseteq Audience[sent[e]] \cap live
    /\ \A c \in Reached(e) : e \notin Had(c)
    /\ UNCHANGED <<sent, live>>

End ==
    /\ live' \subseteq live
    /\ UNCHANGED <<sent, received>>

Next ==
    \/ \E e \in Events : Deliver(e) \/ \E t \in Targets : Emit(e, t)
    \/ End

Spec == Init /\ [][Next]_vars
=============================================================================
