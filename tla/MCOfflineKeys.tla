--------------------------- MODULE MCOfflineKeys ---------------------------
(* A small instance of OfflineKeys for TLC. *)
EXTENDS OfflineKeys

CONSTANTS i1, i2
=============================================================================
