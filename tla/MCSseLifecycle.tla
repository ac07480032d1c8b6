--------------------------- MODULE MCSseLifecycle ---------------------------
(* Small instances of SseLifecycle for TLC. *)
EXTENDS SseLifecycle, TLC

CONSTANTS c1, c2, c3, u1, u2, t1, r1

OneUser   == (c1 :> u1) @@ (c2 :> u1) @@ (c3 :> u1)
NoTenants == (c1 :> NoTenant) @@ (c2 :> NoTenant) @@ (c3 :> NoTenant)

\* Two connections, one of them with a tenant.
Pair        == (c1 :> u1) @@ (c2 :> u1)
PairTenants == (c1 :> NoTenant) @@ (c2 :> t1)

Alike == Permutations({c1, c2, c3})
=============================================================================
