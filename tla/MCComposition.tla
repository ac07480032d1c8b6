--------------------------- MODULE MCComposition ---------------------------
(* A small instance of Composition for TLC. *)
EXTENDS Composition, TLC

SomePaths == {<<"/", "events">>, <<"events">>, <<"/", "live">>}

Endpoints == SomePaths \cup {<<"/", "realtime/sse">>, Undefined}
Intervals == {Undefined, NaN, 4999, 5000, 90000, 90001}
Sizes == {Undefined, NaN, -1, 0, 2}

\* Blocks that name the endpoint, the interval and one of the sizes, or none of them.
SomeBlocks ==
    {<<>>}
    \cup [{"endpoint"} -> Endpoints]
    \cup [{"heartbeatMs"} -> Intervals]
    \cup {("replayBufferSize" :> n) @@ ("maxConnectionsPerUser" :> m) : n, m \in Sizes}
    \cup {("endpoint" :> e) @@ ("heartbeatMs" :> n) : e \in Endpoints, n \in Intervals}
=============================================================================
