------------------------- MODULE MCReauthentication -------------------------
(* A small instance of Reauthentication for TLC. *)
EXTENDS Reauthentication

CONSTANTS s1, w1
=============================================================================
