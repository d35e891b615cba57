----------------------------- MODULE MCRegistry ------------------------------
(* Constants of the registry for TLC: launchd jobs l1 and l2 of profiles 1 *)
(* and 2, a gateway g1 of profile 1; stable ports 3 and 1 of 0..3.         *)
EXTENDS Registry

CONSTANTS l1, l2, g1, x, y, z, nopid, noone

MCProfileOf == [s \in Servers |-> IF s = l2 THEN 2 ELSE 1]

MCStablePort == [p \in Profiles |-> IF p = 1 THEN 3 ELSE 1]
=============================================================================
