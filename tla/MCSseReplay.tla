----------------------------- MODULE MCSseReplay -----------------------------
(* Small instances of SseReplay for TLC. *)
EXTENDS SseReplay

CONSTANTS a, b
=============================================================================
