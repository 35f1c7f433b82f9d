------------------------------ MODULE MCEDUMgr ------------------------------
(* EDUMgr for model checking. *)
EXTENDS EDUMgr, TLC

Perms == Permutations(CB)
=============================================================================
