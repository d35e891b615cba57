---------------------------- MODULE MCTaskServer -----------------------------
(* Constants of the task server for TLC: clients c1 and c2 of their own    *)
(* ids, and c3, which made its id in the same millisecond as c1.  Only c1  *)
(* retries.                                                                *)
EXTENDS TaskServer

CONSTANTS c1, c2, c3, a, b, none

MCRetries == [c \in Clients |-> IF c = c1 THEN 1 ELSE 0]

MCIdOf == [c \in Clients |-> IF c = c2 THEN b ELSE a]
=============================================================================
