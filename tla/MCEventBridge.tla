---------------------------- MODULE MCEventBridge ----------------------------
(* Constants of the event bridge for TLC: hook events h1, h2 and task      *)
(* events t1, t2 of profile 1, and hook event h3 of profile 2.             *)
EXTENDS EventBridge

CONSTANTS h1, h2, h3, t1, t2, none

(* Of the sinks the second one cannot write h1. *)
MCPoison == {<<2, h1>>}

MCProfileOf == [e \in Events |-> IF e = h3 THEN 2 ELSE 1]
=============================================================================
