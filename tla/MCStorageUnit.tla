--------------------------- MODULE MCStorageUnit ---------------------------
(* A storage unit with two or three sessions and segments of one page.     *)
EXTENDS StorageUnit, TLC
CONSTANTS s1, s2, s3, c1

SameCollection == [s \in Session |-> c1]
SessionSymmetry == Permutations(Session)
=============================================================================
