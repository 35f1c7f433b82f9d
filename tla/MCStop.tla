------------------------------- MODULE MCStop -------------------------------
(***************************************************************************)
(* The start and the stop of the engine: the control blocks of the         *)
(* container, three of them with any dependencies, and the time-outs of    *)
(* the stop.  The two share no state, so a behaviour is one or the other.  *)
(***************************************************************************)
EXTENDS Engine, StopTimer

VARIABLE part

MCInit ==
  /\ Init /\ TimerInit /\ part \in {"engine", "timer"}
  /\ part = "timer" => \A c \in CB : deps[c] = {}

MCNext ==
  \/ part = "timer" /\ TimerNext /\ UNCHANGED <<part, vars>>
  \/ part = "engine" /\ Next /\ UNCHANGED <<part, timer>>

(* The fairness of the main thread says nothing of a behaviour of the      *)
(* timer, which no liveness property is about.                             *)
MCSpec == MCInit /\ [][MCNext]_<<part, timer, vars>> /\ Fairness
=============================================================================
