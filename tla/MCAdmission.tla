----------------------------- MODULE MCAdmission -----------------------------
(* Constants of the admission for TLC.  *)
EXTENDS Admission, TLC

CONSTANTS server, client, other, r1, r2, r3

MCCallerOf == [r \in Requests |-> client]

Symmetry == Permutations(Requests)
=============================================================================
