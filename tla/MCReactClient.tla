---------------------------- MODULE MCReactClient ----------------------------
(* Instances of ReactClient for TLC. *)
EXTENDS ReactClient

=============================================================================
