--------------------------- MODULE MCPendingQueue ----------------------------
(* Constants of the pending queue for TLC: three items. *)
EXTENDS PendingQueue

CONSTANTS i1, i2, i3, none
=============================================================================
