------------------------------ MODULE MCSMEMgr ------------------------------
(* The space manager with a few sessions on two or three small segments.   *)
EXTENDS SMEMgr, TLC
CONSTANTS s1, s2
SessionSymmetry == Permutations(Session)
=============================================================================
