--------------------------- MODULE MCWsLifecycle ---------------------------
(* A small instance of WsLifecycle for TLC. *)
EXTENDS WsLifecycle, TLC

CONSTANTS c2, c3, u1, t1, r1

\* Two sockets of one user, one of them with a tenant.
Pair == (c2 :> u1) @@ (c3 :> u1)
PairTenants == (c2 :> t1) @@ (c3 :> NoTenant)
=============================================================================
