---------------------------- MODULE MCRedisPubSub ----------------------------
(* A small instance of RedisPubSub for TLC. *)
EXTENDS RedisPubSub

CONSTANTS k1, k2
=============================================================================
