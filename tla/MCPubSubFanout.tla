--------------------------- MODULE MCPubSubFanout ---------------------------
(* A small instance of PubSubFanout for TLC. *)
EXTENDS PubSubFanout, TLC

CONSTANTS i1, i2, s1, w2, user, room

\* A stream on the first instance and a socket on the second.
Homes == (s1 :> i1) @@ (w2 :> i2)
Transports == (s1 :> "sse") @@ (w2 :> "websocket")

\* A user with both, and a room with the stream only.
Audiences == (user :> {s1, w2}) @@ (room :> {s1})
=============================================================================
