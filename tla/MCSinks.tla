------------------------------- MODULE MCSinks -------------------------------
(* The sinks for TLC. *)
EXTENDS Sinks

CONSTANT none
=============================================================================
