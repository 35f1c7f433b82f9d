------------------------------ MODULE StopTimer ------------------------------
(***************************************************************************)
(* The time _pmdEDUMgr::fini gives the EDUs: the arithmetic of destroyAll  *)
(* over its three phases and of the second call of it, and the dead check  *)
(* beside it.  Time is counted in units of PMD_FORCE_EDU_INTERVAL; whether *)
(* the IO services or EDUs of a phase are gone is decided by them, so any  *)
(* round may be the last.                                                  *)
(***************************************************************************)
EXTENDS Integers, Sequences

CONSTANTS Timeout,      \* the argument of fini
          MinTimeout,   \* PMD_STOP_MIN_TIMEOUT
          IOInterval,   \* PMD_FORCE_IO_INTERVAL
          EDUInterval   \* PMD_FORCE_EDU_INTERVAL

ASSUME StopTimerAssumption ==
  /\ Timeout \in Nat \ {0} /\ MinTimeout \in Nat \ {0} /\ MinTimeout <= Timeout
  /\ IOInterval \in Nat \ {0} /\ EDUInterval \in Nat \ {0}

Phases == <<"io", "user", "all">>

VARIABLES
  pass,      \* 1 or 2: the call of destroyAll, 3 when fini is over
  phase,     \* 1 .. 3: which of Phases
  counter,   \* timeoutCounter
  last,      \* lastTimeout
  normal,    \* normalStop of this call
  clock,     \* the time since startDeadCheck
  dead       \* the dead check has ended the process

timer == <<pass, phase, counter, last, normal, clock, dead>>

TimerInit ==
  /\ pass = 1 /\ phase = 1 /\ counter = 0 /\ last = 0 /\ normal = TRUE
  /\ clock = 0 /\ dead = FALSE

itemTimeout == (IF pass = 1 THEN Timeout ELSE MinTimeout) \div 3
Limit       == itemTimeout + last
Interval    == IF Phases[phase] = "io" THEN IOInterval ELSE EDUInterval
OutOfTimeLast(t) == t > last       \* fault: the phase's own third is forgotten

OutOfTime(t) == IF Phases[phase] = "io" THEN t >= Limit ELSE t > Limit

(* What a phase leaves to the next: "fix lastTimeout value". *)
Left(t) == IF t < Limit THEN Limit - t ELSE last

PhaseOverAgain(t, ok) ==     \* fault: fini tries until it stopped everything
  /\ counter' = 0
  /\ IF phase < 3
     THEN /\ phase' = phase + 1 /\ last' = Left(t) /\ normal' = (normal /\ ok)
          /\ UNCHANGED pass
     ELSE /\ phase' = 1 /\ last' = 0 /\ normal' = TRUE
          /\ pass' = IF normal /\ ok THEN 3 ELSE 2

(* destroyAll goes on with the next phase, or returns; fini calls it again *)
(* unless it stopped everything.                                           *)
PhaseOver(t, ok) ==
  /\ counter' = 0
  /\ IF phase < 3
     THEN /\ phase' = phase + 1 /\ last' = Left(t) /\ normal' = (normal /\ ok)
          /\ UNCHANGED pass
     ELSE /\ phase' = 1 /\ last' = 0 /\ normal' = TRUE
          /\ pass' = IF pass = 2 \/ (normal /\ ok) THEN 3 ELSE 2

(* The count is zero. *)
Gone ==
  /\ pass < 3 /\ ~dead
  /\ PhaseOver(counter, TRUE)
  /\ UNCHANGED <<clock, dead>>

(* A round: force, sleep, and look at the time. *)
Round ==
  /\ pass < 3 /\ ~dead
  /\ clock' = clock + Interval
  /\ IF OutOfTime(counter + Interval)
     THEN PhaseOver(counter + Interval, FALSE)
     ELSE /\ counter' = counter + Interval
          /\ UNCHANGED <<pass, phase, last, normal>>
  /\ UNCHANGED dead

(* deadCheck, started with a minute more than the time-out. *)
DeadCheckEnds ==
  /\ pass < 3 /\ ~dead /\ clock >= Timeout + MinTimeout
  /\ dead' = TRUE
  /\ UNCHANGED <<pass, phase, counter, last, normal, clock>>

TimerNext == Gone \/ Round \/ DeadCheckEnds

TimerSpec == TimerInit /\ [][TimerNext]_timer

-----------------------------------------------------------------------------
(* The counters of destroyAll stay natural numbers: no phase leaves a      *)
(* negative carry-over.                                                    *)
TimerTypeOK ==
  /\ pass \in 1 .. 3 /\ phase \in 1 .. 3 /\ counter \in Nat /\ last \in Nat
  /\ normal \in BOOLEAN /\ clock \in Nat /\ dead \in BOOLEAN

(* What the phases did not use is kept for the ones behind them: as long   *)
(* as none ran out of time, phase n may last until n thirds of the         *)
(* time-out are over.                                                      *)
Carried == pass = 1 /\ normal => clock - counter + Limit >= phase * itemTimeout

(* No phase is given up before it had its own third, whatever the phases   *)
(* before it took.                                                         *)
ShareKept == [][pass' = pass /\ normal /\ ~normal' => counter + Interval >= itemTimeout]_timer

(* fini keeps its caller waiting for four thirds of its two time-outs at   *)
(* most.                                                                   *)
Bounded == clock <= 4 * (Timeout \div 3) + 4 * (MinTimeout \div 3) + 6 * (IOInterval + EDUInterval)

=============================================================================
