---------------------------- MODULE MCCollection ----------------------------
(***************************************************************************)
(* The collections of a storage unit: the catalogue; the record space of   *)
(* one collection, with records of up to 8 units in extents of at most     *)
(* four pages of 4 units; and its chain of extents in three segments of    *)
(* two pages, once with a scan beside the writer and once with crashes.    *)
(* They share no state but the pages, which each takes for its own here: a *)
(* behaviour is of one of the parts and leaves the others where they       *)
(* began, and so each part's properties are checked as they stand.         *)
(***************************************************************************)
EXTENDS Catalogue, ExtentChain, RecordSpace, TLC

VARIABLE part

CrashPages == 6        \* pages handed out in the crash part, one less per crash

MCInit ==
  /\ Init /\ RecordInit /\ ChainInit
  /\ part \in {"records", "scan", "crash", "catalogue"}

MCNext ==
  \/ /\ part = "records" /\ RecordNext
     /\ UNCHANGED <<part, vars, chainVars>>
  \/ /\ part \in {"scan", "crash"} /\ AllocateStep
     /\ part = "crash" => Cardinality(pages') <= CrashPages - deaths
     /\ UNCHANGED <<part, vars, recordVars>>
  \/ /\ part = "scan" /\ \E s \in Scanner : ScanStep(s)
     /\ UNCHANGED <<part, vars, recordVars>>
  \/ /\ part = "crash" /\ ChainCrash
     /\ UNCHANGED <<part, vars, recordVars>>
  \/ /\ part = "catalogue" /\ Next
     /\ UNCHANGED <<part, recordVars, chainVars>>

MCSpec == MCInit /\ [][MCNext]_<<part, vars, recordVars, chainVars>>

SessionSymmetry == Permutations(Session)
=============================================================================
