----------------------------- MODULE MCRWMutex ------------------------------
(***************************************************************************)
(* RWMutex with three threads: a mutex of either kind at any pace, and one *)
(* at the pace that progress needs.  A behaviour is of one part.           *)
(***************************************************************************)
EXTENDS RWMutex

VARIABLE part

(* A call that waits for ever and one that gives up. *)
MCMillisec == {-1, 1}

MCInit == Init /\ part \in {"any", "timely"}

MCNext ==
  \/ part = "any" /\ Next /\ UNCHANGED part
  \/ part = "timely" /\ Next /\ Timely /\ UNCHANGED part

MCSpec ==
  /\ MCInit /\ [][MCNext]_<<part, vars>>
  /\ \A t \in Thread : SF_vars(part = "timely" /\ Step(t) /\ Timely)

(* Drains: once no new calls of lock_r and lock_w arrive, nobody is left   *)
(* asleep for a signal that another thread consumed.                       *)
LockDrains == part = "timely" => Drains
=============================================================================
