---------------------------- MODULE ProcessProofs ----------------------------
(***************************************************************************)
(* Processes: their start, their stop and their pipes.  What is true of    *)
(* the stop for every time-out and every interval, the bound on fini and   *)
(* the share of each phase; of the start and the stop for any number of    *)
(* control blocks and any dependencies, the order of the container and who *)
(* may run when; and of the shell's front ends and back ends, for any      *)
(* number of them, the pipes they have open and the names they leave.      *)
(***************************************************************************)
EXTENDS Engine, StopTimer, ShellPipe, FiniteSetTheorems, SequenceTheorems,
        WellFoundedInduction, TLAPS

-----------------------------------------------------------------------------
(* The time-outs *)

Third(n) == n \div 3

\* The time at which the present call of destroyAll began, at the latest.
Base == IF pass = 1 THEN 0 ELSE 4 * Third(Timeout) + IOInterval + 2 * EDUInterval

\* When the present phase began.
Start == clock - counter

(***************************************************************************)
(* The invariant: a phase has never waited longer than its limit, and its  *)
(* start and what was left to it are bounded phase by phase.  Only a phase *)
(* that ran out of time makes the next one pay twice, and what the first   *)
(* phase leaves is at most its own third.                                  *)
(***************************************************************************)
Budget ==
  /\ pass < 3 => counter <= Limit
  /\ (pass < 3 /\ phase = 1) => last = 0 /\ Start <= Base
  /\ (pass < 3 /\ phase = 2) => last <= itemTimeout /\ Start + last <= Base + itemTimeout + IOInterval
  /\ (pass < 3 /\ phase = 3) => Start + last <= Base + 3 * itemTimeout + IOInterval + EDUInterval
  /\ pass = 3 => clock <= 4 * Third(Timeout) + 4 * Third(MinTimeout)
                            + 2 * IOInterval + 4 * EDUInterval

LEMMA ThirdNat == ASSUME NEW n \in Nat PROVE Third(n) \in Nat
  BY DEF Third

LEMMA ItemNat == itemTimeout \in Nat /\ itemTimeout = IF pass = 1 THEN Third(Timeout) ELSE Third(MinTimeout)
  BY ThirdNat, StopTimerAssumption DEF itemTimeout, Third

LEMMA Intervals ==
  ASSUME TimerTypeOK
  PROVE  /\ Interval \in Nat \ {0}
         /\ phase = 1 => Interval = IOInterval
         /\ phase # 1 => Interval = EDUInterval
         /\ phase = 1 <=> Phases[phase] = "io"
  BY StopTimerAssumption DEF TimerTypeOK, Interval, Phases

\* What the end of a phase does, whatever it says about the stop.
LEMMA PhaseEnd ==
  ASSUME NEW t, NEW ok, PhaseOver(t, ok)
  PROVE  /\ counter' = 0
         /\ phase < 3 => phase' = phase + 1 /\ last' = Left(t) /\ pass' = pass
         /\ ~(phase < 3) => /\ phase' = 1 /\ last' = 0 /\ pass' \in {2, 3}
                            /\ pass = 2 => pass' = 3
  BY Zenon DEF PhaseOver

\* The end of a phase keeps normalStop a Boolean.
LEMMA PhaseEndNormal ==
  ASSUME NEW t, NEW ok, PhaseOver(t, ok)
  PROVE  normal' \in BOOLEAN
  BY Zenon DEF PhaseOver

\* The counters of destroyAll stay natural numbers, for every time-out.
THEOREM TimerTypeCorrect == TimerSpec => []TimerTypeOK
<1>1. TimerInit => TimerTypeOK
  <2> SUFFICES ASSUME TimerInit PROVE TimerTypeOK
    OBVIOUS
  <2>1. normal \in BOOLEAN /\ dead \in BOOLEAN
    BY Zenon DEF TimerInit
  <2> QED BY <2>1 DEF TimerInit, TimerTypeOK
<1>2. TimerTypeOK /\ [TimerNext]_timer => TimerTypeOK'
  <2> SUFFICES ASSUME TimerTypeOK, [TimerNext]_timer PROVE TimerTypeOK'
    OBVIOUS
  <2> USE ItemNat, Intervals
  <2>0. ASSUME NEW t \in Nat, NEW ok, PhaseOver(t, ok), UNCHANGED dead, clock' \in Nat
        PROVE  TimerTypeOK'
    <3>1. normal' \in BOOLEAN /\ dead' \in BOOLEAN
      BY <2>0, PhaseEndNormal, Zenon DEF TimerTypeOK
    <3>2. /\ counter' = 0
          /\ phase < 3 => phase' = phase + 1 /\ last' = Left(t) /\ pass' = pass
          /\ ~(phase < 3) => phase' = 1 /\ last' = 0 /\ pass' \in {2, 3}
      BY <2>0, PhaseEnd, Zenon
    <3>3. Left(t) \in Nat
      BY DEF Left, Limit, TimerTypeOK
    <3> QED BY <2>0, <3>1, <3>2, <3>3 DEF TimerTypeOK
  <2>1. CASE Gone
    <3>1. PhaseOver(counter, TRUE) /\ UNCHANGED <<clock, dead>>
      BY <2>1 DEF Gone
    <3> QED BY <2>0, <3>1 DEF TimerTypeOK
  <2>2. CASE Round
    <3>1. counter + Interval \in Nat /\ clock + Interval \in Nat
      BY DEF TimerTypeOK
    <3>2. CASE OutOfTime(counter + Interval)
      <4>1. PhaseOver(counter + Interval, FALSE) /\ UNCHANGED dead /\ clock' = clock + Interval
        BY <2>2, <3>2 DEF Round
      <4> QED BY <2>0, <3>1, <4>1
    <3>3. CASE ~OutOfTime(counter + Interval)
      BY <2>2, <3>1, <3>3 DEF Round, TimerTypeOK
    <3> QED BY <3>2, <3>3
  <2>3. CASE DeadCheckEnds
    BY <2>3 DEF DeadCheckEnds, TimerTypeOK
  <2>4. CASE UNCHANGED timer
    BY <2>4 DEF timer, TimerTypeOK
  <2> QED BY <2>1, <2>2, <2>3, <2>4 DEF TimerNext
<1> QED BY <1>1, <1>2, PTL DEF TimerSpec

\* As long as no phase ran out of time, phase n may last until n thirds of the
\* time-out are over.
THEOREM CarriedOver == TimerSpec => []Carried
<1>1. TimerInit => Carried
  BY ItemNat, StopTimerAssumption DEF TimerInit, Carried, Limit
<1>2. TimerTypeOK /\ TimerTypeOK' /\ Carried /\ [TimerNext]_timer => Carried'
  <2> SUFFICES ASSUME TimerTypeOK, TimerTypeOK', Carried, [TimerNext]_timer, pass' = 1, normal'
               PROVE  (clock - counter + Limit >= phase * itemTimeout)'
    BY DEF Carried
  <2> USE ItemNat, Intervals
  <2>1. CASE Gone
    <3>0. PhaseOver(counter, TRUE) /\ clock' = clock
      BY <2>1 DEF Gone
    <3>a. phase < 3 /\ normal
      <4>1. pass' # 2 /\ pass' # 3
        OBVIOUS
      <4> QED BY <3>0, <4>1, Zenon DEF PhaseOver
    <3>1. /\ phase' = phase + 1 /\ counter' = 0 /\ last' = Left(counter) /\ pass' = pass
          /\ pass = 1
      BY <3>0, <3>a, PhaseEnd, Zenon
    <3>2. /\ phase \in 1..2 /\ phase' = phase + 1 /\ counter' = 0 /\ clock' = clock
          /\ last' = Left(counter) /\ itemTimeout' = itemTimeout
      BY <3>0, <3>1, <3>a DEF TimerTypeOK, itemTimeout
    <3>3. clock - counter + itemTimeout + last >= phase * itemTimeout
      <4>1. clock - counter + Limit >= phase * itemTimeout
        BY <3>1, <3>a, Zenon DEF Carried
      <4> QED BY <4>1 DEF Limit, TimerTypeOK
    <3>4. clock + itemTimeout + last' >= (phase + 1) * itemTimeout
      <4>1. CASE phase = 1
        BY <4>1, <3>2, <3>3 DEF Left, Limit, TimerTypeOK
      <4>2. CASE phase = 2
        BY <4>2, <3>2, <3>3 DEF Left, Limit, TimerTypeOK
      <4> QED BY <4>1, <4>2, <3>2
    <3> QED BY <3>1, <3>2, <3>4 DEF Limit, TimerTypeOK
  <2>2. CASE Round
    <3>1. ~OutOfTime(counter + Interval)
      <4>1. pass' # 2 /\ pass' # 3
        OBVIOUS
      <4> SUFFICES ASSUME PhaseOver(counter + Interval, FALSE) PROVE FALSE
        BY <2>2 DEF Round
      <4> QED BY <4>1, Zenon DEF PhaseOver
    <3>2. /\ counter' = counter + Interval /\ clock' = clock + Interval
          /\ UNCHANGED <<pass, phase, last, normal>>
      BY <2>2, <3>1 DEF Round
    <3>3. itemTimeout' = itemTimeout
      BY <3>2 DEF itemTimeout
    <3>4. clock - counter + Limit >= phase * itemTimeout
      BY <3>2 DEF Carried
    <3> QED BY <3>2, <3>3, <3>4 DEF Limit, TimerTypeOK
  <2>3. CASE DeadCheckEnds
    BY <2>3 DEF DeadCheckEnds, Carried, Limit, itemTimeout
  <2>4. CASE UNCHANGED timer
    BY <2>4 DEF timer, Carried, Limit, itemTimeout
  <2> QED BY <2>1, <2>2, <2>3, <2>4 DEF TimerNext
<1> QED BY <1>1, <1>2, TimerTypeCorrect, PTL DEF TimerSpec

\* No phase is given up before it had its own third.
THEOREM SharesKept == TimerSpec => ShareKept
<1>1. TimerTypeOK /\ [TimerNext]_timer => (pass' = pass /\ normal /\ ~normal' => counter + Interval >= itemTimeout)
  <2> SUFFICES ASSUME TimerTypeOK, [TimerNext]_timer, pass' = pass, normal, ~normal'
               PROVE  counter + Interval >= itemTimeout
    OBVIOUS
  <2>1. Round /\ OutOfTime(counter + Interval)
    BY DEF TimerNext, Gone, Round, DeadCheckEnds, PhaseOver, timer, TimerTypeOK
  <2> QED BY <2>1, ItemNat, Intervals DEF OutOfTime, Limit, TimerTypeOK
<1> QED BY <1>1, TimerTypeCorrect, PTL DEF TimerSpec, ShareKept

LEMMA BudgetKept == TimerTypeOK /\ TimerTypeOK' /\ Budget /\ [TimerNext]_timer => Budget'
<1> SUFFICES ASSUME TimerTypeOK, TimerTypeOK', Budget, [TimerNext]_timer PROVE Budget'
  OBVIOUS
<1> DEFINE t1 == Third(Timeout)
           t2 == Third(MinTimeout)
<1>a. /\ t1 \in Nat /\ t2 \in Nat /\ IOInterval \in Nat /\ EDUInterval \in Nat
      /\ Timeout \in Nat /\ MinTimeout \in Nat
  BY ThirdNat, StopTimerAssumption
<1>b. /\ itemTimeout = (IF pass = 1 THEN t1 ELSE t2) /\ itemTimeout \in Nat
      /\ itemTimeout' = (IF pass' = 1 THEN t1 ELSE t2) /\ itemTimeout' \in Nat
  BY ItemNat, <1>a DEF itemTimeout, Third
<1>c. /\ Base = (IF pass = 1 THEN 0 ELSE 4 * t1 + IOInterval + 2 * EDUInterval)
      /\ Base' = (IF pass' = 1 THEN 0 ELSE 4 * t1 + IOInterval + 2 * EDUInterval)
      /\ Base \in Nat /\ Base' \in Nat
  BY <1>a DEF Base
<1>d. ASSUME /\ pass' < 3 => counter' <= itemTimeout' + last'
             /\ (pass' < 3 /\ phase' = 1) => last' = 0 /\ clock' - counter' <= Base'
             /\ (pass' < 3 /\ phase' = 2) => /\ last' <= itemTimeout'
                                             /\ clock' - counter' + last' <= Base' + itemTimeout' + IOInterval
             /\ (pass' < 3 /\ phase' = 3) =>
                   clock' - counter' + last' <= Base' + 3 * itemTimeout' + IOInterval + EDUInterval
             /\ pass' = 3 => clock' <= 4 * t1 + 4 * t2 + 2 * IOInterval + 4 * EDUInterval
      PROVE  Budget'
  BY <1>d DEF Budget, Limit, Start
<1> HIDE DEF t1, t2
<1>e. ASSUME pass < 3, NEW t \in Nat, NEW ok, PhaseOver(t, ok), t >= counter,
             t <= itemTimeout + last + Interval, clock' = clock - counter + t
      PROVE  Budget'
  <2>1. counter' = 0
    BY <1>e DEF PhaseOver
  <2>2. CASE phase = 1
    <3>1. last = 0 /\ clock - counter <= Base /\ Interval = IOInterval
      BY <2>2, <1>e, Intervals DEF Budget, Start
    <3>2. phase' = 2 /\ pass' = pass /\ last' = (IF t < itemTimeout THEN itemTimeout - t ELSE 0)
      BY <2>2, <3>1, <1>e, <1>b, PhaseEnd DEF Left, Limit, TimerTypeOK
    <3> QED BY <2>1, <3>1, <3>2, <1>a, <1>b, <1>c, <1>d, <1>e DEF TimerTypeOK
  <2>3. CASE phase = 2
    <3>1. last <= itemTimeout /\ clock - counter + last <= Base + itemTimeout + IOInterval /\ Interval = EDUInterval
      BY <2>3, <1>e, Intervals DEF Budget, Start
    <3>2. phase' = 3 /\ pass' = pass /\ last' = (IF t < itemTimeout + last THEN itemTimeout + last - t ELSE last)
      <4>1. phase < 3 /\ phase + 1 = 3
        BY <2>3
      <4>2. phase' = phase + 1 /\ last' = Left(t) /\ pass' = pass
        BY <4>1, <1>e, PhaseEnd, Zenon
      <4>3. Left(t) = (IF t < itemTimeout + last THEN itemTimeout + last - t ELSE last)
        BY <1>b DEF Left, Limit, TimerTypeOK
      <4> QED BY <4>1, <4>2, <4>3
    <3> QED BY <2>1, <3>1, <3>2, <1>a, <1>b, <1>c, <1>d, <1>e DEF TimerTypeOK
  <2>4. CASE phase = 3
    <3>1. clock - counter + last <= Base + 3 * itemTimeout + IOInterval + EDUInterval /\ Interval = EDUInterval
      BY <2>4, <1>e, Intervals DEF Budget, Start
    <3>2. phase' = 1 /\ last' = 0 /\ pass' \in {2, 3} /\ (pass = 2 => pass' = 3)
      BY <2>4, <1>e, PhaseEnd DEF TimerTypeOK
    <3>3. clock' <= Base + 4 * itemTimeout + IOInterval + 2 * EDUInterval
      BY <3>1, <1>a, <1>b, <1>c, <1>e DEF TimerTypeOK
    <3> QED BY <2>1, <3>2, <3>3, <1>a, <1>b, <1>c, <1>d, <1>e DEF TimerTypeOK
  <2> QED BY <2>2, <2>3, <2>4 DEF TimerTypeOK
<1>1. CASE Gone
  <2>1. /\ pass < 3 /\ PhaseOver(counter, TRUE) /\ counter \in Nat /\ clock' = clock
        /\ counter <= itemTimeout + last
    BY <1>1 DEF Gone, TimerTypeOK, Budget, Limit
  <2>2. /\ counter >= counter /\ counter <= itemTimeout + last + Interval
        /\ clock' = clock - counter + counter
    BY <2>1, <1>b, Intervals DEF TimerTypeOK
  <2> QED BY <2>1, <2>2, <1>e, Zenon
<1>2. CASE Round /\ OutOfTime(counter + Interval)
  <2>1. /\ pass < 3 /\ PhaseOver(counter + Interval, FALSE) /\ clock' = clock + Interval
        /\ counter <= itemTimeout + last
    BY <1>2 DEF Round, Budget, Limit
  <2>2. counter + Interval \in Nat /\ Interval \in Nat
    BY Intervals DEF TimerTypeOK
  <2>3. /\ counter + Interval >= counter /\ counter + Interval <= itemTimeout + last + Interval
        /\ clock' = clock - counter + (counter + Interval)
    BY <2>1, <2>2, <1>b DEF TimerTypeOK
  <2> QED BY <2>1, <2>2, <2>3, <1>e, Zenon
<1>3. CASE Round /\ ~OutOfTime(counter + Interval)
  <2>1. /\ pass < 3 /\ counter' = counter + Interval /\ clock' = clock + Interval
        /\ UNCHANGED <<pass, phase, last, normal>>
    BY <1>3 DEF Round
  <2>2. Interval \in Nat /\ counter + Interval <= itemTimeout + last
    BY <1>3, <1>b, Intervals DEF OutOfTime, Limit, TimerTypeOK
  <2>3. /\ phase = 1 => last = 0 /\ clock - counter <= Base
        /\ phase = 2 => last <= itemTimeout /\ clock - counter + last <= Base + itemTimeout + IOInterval
        /\ phase = 3 => clock - counter + last <= Base + 3 * itemTimeout + IOInterval + EDUInterval
    BY <2>1 DEF Budget, Start
  <2> QED BY <2>1, <2>2, <2>3, <1>a, <1>b, <1>c, <1>d DEF TimerTypeOK
<1>4. CASE DeadCheckEnds
  BY <1>4 DEF DeadCheckEnds, Budget, Limit, itemTimeout, Start, Base
<1>5. CASE UNCHANGED timer
  BY <1>5 DEF timer, Budget, Limit, itemTimeout, Start, Base
<1> QED BY <1>1, <1>2, <1>3, <1>4, <1>5 DEF TimerNext

\* fini keeps its caller waiting for four thirds of its two time-outs at most,
\* and six rounds.
THEOREM FiniBounded == TimerSpec => []Bounded
<1>1. TimerInit => Budget
  <2> SUFFICES ASSUME TimerInit PROVE Budget
    OBVIOUS
  <2>1. itemTimeout \in Nat
    BY ItemNat
  <2> QED BY <2>1, StopTimerAssumption DEF TimerInit, Budget, Limit, Start, Base
<1>2. TimerTypeOK /\ Budget => Bounded
  <2> SUFFICES ASSUME TimerTypeOK, Budget PROVE Bounded
    OBVIOUS
  <2> DEFINE t1 == Third(Timeout)
             t2 == Third(MinTimeout)
  <2>1. t1 \in Nat /\ t2 \in Nat /\ IOInterval \in Nat /\ EDUInterval \in Nat
    BY ThirdNat, StopTimerAssumption
  <2>2. itemTimeout = (IF pass = 1 THEN t1 ELSE t2)
    BY ItemNat
  <2>3. Base = (IF pass = 1 THEN 0 ELSE 4 * t1 + IOInterval + 2 * EDUInterval)
    BY DEF Base
  <2>4. Bounded <=> (clock <= 4 * t1 + 4 * t2 + 6 * (IOInterval + EDUInterval))
    BY DEF Bounded, Third
  <2>5. pass = 3 => clock <= 4 * t1 + 4 * t2 + 2 * IOInterval + 4 * EDUInterval
    BY DEF Budget
  <2>6. pass < 3 => /\ counter <= itemTimeout + last
                    /\ phase = 1 => last = 0 /\ clock - counter <= Base
                    /\ phase = 2 => last <= itemTimeout /\ clock - counter + last <= Base + itemTimeout + IOInterval
                    /\ phase = 3 => clock - counter + last <= Base + 3 * itemTimeout + IOInterval + EDUInterval
    BY DEF Budget, Limit, Start
  <2> HIDE DEF t1, t2
  <2>7. CASE pass = 3
    BY <2>7, <2>1, <2>4, <2>5 DEF TimerTypeOK
  <2>8. CASE pass < 3
    <3>1. clock <= Base + 4 * itemTimeout + IOInterval + EDUInterval
      BY <2>8, <2>1, <2>2, <2>3, <2>6 DEF TimerTypeOK
    <3> QED BY <2>8, <3>1, <2>1, <2>2, <2>3, <2>4 DEF TimerTypeOK
  <2> QED BY <2>7, <2>8 DEF TimerTypeOK
<1> QED BY <1>1, <1>2, BudgetKept, TimerTypeCorrect, PTL DEF TimerSpec

-----------------------------------------------------------------------------
(* The start and the stop *)

(* What the dependency check has done: the CBs in _vecCB, and those whose  *)
(* call of _addDependencyCB has not returned.                              *)
Frame  == [cb : CB, todo : SUBSET (CB \cup {Missing})]
Placed == {order[i] : i \in DOMAIN order}
Calls  == {stack[i].cb : i \in DOMAIN stack}

(* A CB has its flag from its call on.  A call waits for the next one,     *)
(* which is for one of its dependencies, and those it has looked at are    *)
(* placed.                                                                 *)
StackInv ==
  /\ flag = Placed \cup Calls /\ Placed \cap Calls = {}
  /\ \A i, j \in DOMAIN stack : i # j => stack[i].cb # stack[j].cb
  /\ \A i \in DOMAIN stack : \A d \in deps[stack[i].cb] \ stack[i].todo :
       d \in Placed \/ (i + 1 \in DOMAIN stack /\ d = stack[i + 1].cb)
  /\ \A i \in DOMAIN stack :
       i + 1 \in DOMAIN stack => stack[i + 1].cb \in deps[stack[i].cb]

OrderInv ==
  /\ \A i, j \in DOMAIN order : i # j => order[i] # order[j]
  /\ \A i \in DOMAIN order : \A d \in deps[order[i]] : \E j \in 1 .. i - 1 : order[j] = d

CheckInv ==
  /\ pc \in Up => stack = <<>> /\ CB \subseteq flag
  /\ failed = "endless loop" => Cyclic
  /\ failed = "not found" => Absent

(* How far the CBs are: never further behind in _vecCB than in front, and  *)
(* as far as the loop over _vecCB has come.                                *)
StatInv ==
  /\ \A c \in CB \ Placed : stat[c] = 0
  /\ \A i, j \in DOMAIN order : i < j => stat[order[i]] >= stat[order[j]]

LoopInv ==
  /\ pc \in {"start", "check"} => cur = 1 /\ \A c \in CB : stat[c] = 0
  /\ pc \in {"init", "active", "post"} => cur \in 1 .. Len(order) + 1
  /\ pc = "init" => \A i \in DOMAIN order : stat[order[i]] = IF i < cur THEN 1 ELSE 0
  /\ pc = "active" => \A i \in DOMAIN order : stat[order[i]] = IF i < cur THEN 2 ELSE 1
  /\ pc \in {"post", "loop"} => \A i \in DOMAIN order : stat[order[i]] = 2
  /\ pc \in {"deactive", "fini"} => cur <= Len(order)
  /\ pc = "deactive" => \A i \in DOMAIN order : i > cur => stat[order[i]] <= 1
  /\ pc \in {"edus", "fini"} => \A c \in CB : stat[c] <= 1
  /\ pc = "fini" => \A i \in DOMAIN order : i > cur => stat[order[i]] = 0

(* The EDU manager says that the stop was normal only if no EDU is left.   *)
EDUInv ==
  /\ EDUSafe /\ ExitClean
  /\ pc \notin {"fini"} \cup Ended => normalStop
  /\ pc = "fini" /\ normalStop => \A c \in CB : edu[c] # "run"

EngineInv == /\ TypeOK /\ stack \in Seq(Frame)
             /\ StackInv /\ OrderInv /\ CheckInv /\ StatInv /\ LoopInv /\ EDUInv

(* Sequences: what is left without the last element. *)
LEMMA FrontOf ==
  ASSUME NEW S, NEW s \in Seq(S), s # <<>>
  PROVE  /\ Len(s) \in Nat \ {0} /\ Last(s) = s[Len(s)] /\ Last(s) \in S
         /\ Front(s) \in Seq(S) /\ Len(Front(s)) = Len(s) - 1
         /\ \A i \in 1 .. Len(s) - 1 : Front(s)[i] = s[i]
  <1>1. Len(s) \in Nat \ {0} /\ \A i \in 1 .. Len(s) : s[i] \in S
    OBVIOUS
  <1>2. Last(s) = s[Len(s)] /\ Last(s) \in S
    BY <1>1 DEF Last
  <1> DEFINE n == Len(s) - 1
  <1>3. n \in Int /\ 1 \in Int /\ \A i \in 1 .. n : s[i] \in S
    BY <1>1
  <1> HIDE DEF n
  <1>4. /\ SubSeq(s, 1, n) \in Seq(S)
        /\ Len(SubSeq(s, 1, n)) = IF 1 <= n THEN n - 1 + 1 ELSE 0
        /\ \A i \in 1 .. n - 1 + 1 : SubSeq(s, 1, n)[i] = s[1 + i - 1]
    BY <1>3, SubSeqProperties
  <1>5. Front(s) = SubSeq(s, 1, n)
    BY DEF Front, n
  <1>6. n - 1 + 1 = n /\ n \in Nat
    BY <1>1 DEF n
  <1>7. Len(Front(s)) = n
    BY <1>4, <1>5, <1>6
  <1>8. \A i \in 1 .. n : Front(s)[i] = s[i]
    BY <1>4, <1>5, <1>6
  <1> QED
    BY <1>1, <1>2, <1>4, <1>5, <1>7, <1>8 DEF n

(* _vecCB holds every CB once at most, so it is full when all are placed. *)
LEMMA OrderLength ==
  ASSUME NEW o \in Seq(CB), \A i, j \in DOMAIN o : i # j => o[i] # o[j]
  PROVE  /\ Len(o) \in Nat /\ Len(o) <= N
         /\ CB \subseteq {o[i] : i \in DOMAIN o} => Len(o) = N
  <1> DEFINE D == 1 .. Len(o)
  <1>1. Len(o) \in Nat /\ DOMAIN o = D /\ o \in [D -> CB]
    OBVIOUS
  <1>2. N \in Nat
    BY EngineAssumption
  <1>3. IsFiniteSet(CB) /\ Cardinality(CB) = N
    <2>1. IsFiniteSet(1 .. N) /\ Cardinality(1 .. N) = IF 1 > N THEN 0 ELSE N - 1 + 1
      BY <1>2, FS_Interval
    <2> QED
      BY <2>1, <1>2 DEF CB
  <1>4. IsFiniteSet(D) /\ Cardinality(D) = Len(o)
    <2>1. /\ IsFiniteSet(1 .. Len(o))
          /\ Cardinality(1 .. Len(o)) = IF 1 > Len(o) THEN 0 ELSE Len(o) - 1 + 1
      BY <1>1, FS_Interval
    <2> QED
      BY <2>1, <1>1
  <1>5. o \in Injection(D, CB)
    BY <1>1 DEF Injection, IsInjective
  <1>6. /\ Cardinality(D) <= Cardinality(CB)
        /\ Cardinality(D) = Cardinality(CB) <=> o \in Surjection(D, CB)
    <2> HIDE DEF D
    <2> QED
      BY <1>3, <1>5, FS_Injection
  <1>7. CB \subseteq {o[i] : i \in DOMAIN o} => o \in Surjection(D, CB)
    BY <1>1 DEF Surjection
  <1> QED
    BY <1>1, <1>3, <1>4, <1>6, <1>7

(* The calls from the one for d on are a cycle when d is a dependency of   *)
(* the last of them.                                                       *)
LEMMA LoopIsCycle ==
  ASSUME EngineInv, stack # <<>>, NEW d \in CB, d \in Last(stack).todo, d \in Calls
  PROVE  Cyclic
  <1>1. /\ Len(stack) \in Nat \ {0} /\ DOMAIN stack = 1 .. Len(stack)
        /\ Last(stack) = stack[Len(stack)]
    <2>1. stack \in Seq(Frame)
      BY DEF EngineInv
    <2>2. Len(stack) \in Nat \ {0} /\ Last(stack) = stack[Len(stack)]
      BY <2>1, FrontOf
    <2> QED
      BY <2>1, <2>2
  <1>2. PICK k \in DOMAIN stack : d = stack[k].cb
    BY DEF Calls
  <1> DEFINE s == {stack[i].cb : i \in k .. Len(stack)}
  <1>3. s \in (SUBSET CB) \ {{}}
    <2>1. \A i \in k .. Len(stack) : i \in DOMAIN stack
      BY <1>1
    <2>2. \A i \in DOMAIN stack : stack[i].cb \in CB
      BY DEF EngineInv, TypeOK
    <2>3. d \in s
      BY <1>1, <1>2
    <2> QED
      BY <2>1, <2>2, <2>3
  <1>4. ASSUME NEW c \in s PROVE deps[c] \cap s # {}
    <2>1. PICK i \in k .. Len(stack) : c = stack[i].cb
      OBVIOUS
    <2>2. CASE i = Len(stack)
      <3>1. d \in deps[c]
        BY <2>1, <2>2, <1>1 DEF EngineInv, TypeOK
      <3>2. d \in s
        BY <1>1, <1>2
      <3> QED
        BY <3>1, <3>2
    <2>3. CASE i # Len(stack)
      <3>1. i \in DOMAIN stack /\ i + 1 \in DOMAIN stack /\ i + 1 \in k .. Len(stack)
        <4>1. k \in Nat /\ i \in Nat /\ 1 <= k /\ k <= i /\ i < Len(stack)
          <5>1. k \in 1 .. Len(stack)
            BY <1>1
          <5>2. i \in k .. Len(stack) /\ Len(stack) \in Nat
            BY <1>1
          <5> QED
            BY <5>1, <5>2, <2>3
        <4> QED
          BY <4>1, <1>1
      <3>2. stack[i + 1].cb \in deps[c]
        BY <3>1, <2>1 DEF EngineInv, StackInv
      <3>3. stack[i + 1].cb \in s
        BY <3>1
      <3> QED
        BY <3>2, <3>3
    <2> QED
      BY <2>2, <2>3
  <1> HIDE DEF s
  <1> QED
    BY <1>3, <1>4 DEF Cyclic

(* What is wholly placed has neither a cycle nor a missing CB: of the CBs  *)
(* of a cycle the first in _vecCB would have a dependency in front of it.  *)
LEMMA PlacedIsOrdered ==
  ASSUME order \in Seq(CB), OrderInv, CB \subseteq Placed
  PROVE  ~Cyclic /\ ~Absent
  <1>1. Len(order) \in Nat /\ DOMAIN order = 1 .. Len(order) /\ \A i \in DOMAIN order : order[i] \in CB
    OBVIOUS
  <1>2. ~Absent
    <2> SUFFICES ASSUME NEW c \in CB, Missing \in deps[c] PROVE FALSE
      BY DEF Absent
    <2>1. PICK i \in DOMAIN order : order[i] = c
      BY DEF Placed
    <2>2. PICK j \in 1 .. i - 1 : order[j] = Missing
      BY <2>1 DEF OrderInv
    <2>3. order[j] \in CB
      BY <1>1
    <2> QED
      BY <2>2, <2>3, EngineAssumption
  <1>3. ~Cyclic
    <2> SUFFICES ASSUME NEW s \in SUBSET CB, s # {}, \A c \in s : deps[c] \cap s # {}
                 PROVE  FALSE
      BY DEF Cyclic
    <2> DEFINE U == {i \in DOMAIN order : order[i] \in s}
    <2>1. U # {} /\ U \subseteq Nat
      <3>1. PICK c \in s : TRUE
        OBVIOUS
      <3>2. PICK i \in DOMAIN order : order[i] = c
        BY DEF Placed
      <3> QED
        BY <3>2, <1>1
    <2>2. PICK u \in U : \A v \in U : ~(<<v, u>> \in OpToRel(<, Nat))
      <3> HIDE DEF U
      <3> QED
        BY <2>1, NatLessThanWellFounded, WFMin
    <2>3. PICK d \in deps[order[u]] : d \in s
      OBVIOUS
    <2>4. PICK j \in 1 .. u - 1 : order[j] = d
      BY <2>3 DEF OrderInv
    <2>5. j \in U /\ j < u /\ j \in Nat /\ u \in Nat
      BY <2>3, <2>4, <1>1
    <2>6. <<j, u>> \notin OpToRel(<, Nat)
      BY <2>2, <2>5
    <2>7. <<j, u>> \in {ss \in Nat \X Nat : ss[1] < ss[2]}
      BY <2>5
    <2> QED
      BY <2>6, <2>7 DEF OpToRel
  <1> QED
    BY <1>2, <1>3

-----------------------------------------------------------------------------
(* What a step leaves alone. *)
LEMMA StartSame ==
  ASSUME EngineInv, UNCHANGED start
  PROVE  /\ StackInv' /\ OrderInv' /\ stack' \in Seq(Frame) /\ Placed' = Placed
         /\ Cyclic' = Cyclic /\ Absent' = Absent
         /\ deps' = deps /\ stack' = stack /\ flag' = flag /\ order' = order
  <1>1. deps' = deps /\ stack' = stack /\ flag' = flag /\ order' = order
    BY DEF start
  <1>2. Placed' = Placed /\ Calls' = Calls
    BY <1>1 DEF Placed, Calls
  <1>3. StackInv' /\ OrderInv'
    BY <1>1, <1>2 DEF EngineInv, StackInv, OrderInv
  <1>4. Cyclic' = Cyclic /\ Absent' = Absent
    BY <1>1 DEF Cyclic, Absent
  <1> QED
    BY <1>1, <1>2, <1>3, <1>4 DEF EngineInv

(* The types of what the dependency check keeps. *)
LEMMA StartTypes ==
  ASSUME EngineInv
  PROVE  /\ order \in Seq(CB) /\ Len(order) \in Nat /\ Len(order) <= N /\ N \in Nat
         /\ DOMAIN order = 1 .. Len(order) /\ \A i \in DOMAIN order : order[i] \in CB
         /\ Placed \subseteq CB
  BY EngineAssumption DEF EngineInv, TypeOK, Placed

(* error: of run().  Nothing was left behind by the loop that failed: the  *)
(* stop starts at the end of _vecCB.                                       *)
Aborts(why) ==
  /\ StopFor(why) /\ UNCHANGED <<start, stat, edu, hung, normalStop>>
  /\ pc \notin {"fini"} \cup Ended
  /\ why = "endless loop" => Cyclic
  /\ why = "not found" => Absent

LEMMA StopForStep ==
  ASSUME EngineInv, NEW why, Aborts(why)
  PROVE  EngineInv'
  <1>1. /\ StackInv' /\ OrderInv' /\ stack' \in Seq(Frame) /\ Placed' = Placed
        /\ Cyclic' = Cyclic /\ Absent' = Absent
        /\ deps' = deps /\ stack' = stack /\ flag' = flag /\ order' = order
    BY StartSame, Zenon DEF Aborts
  <1>2. pc' = "deactive" /\ cur' = Len(order) /\ stat' = stat /\ edu' = edu
    BY DEF StopFor, Aborts
  <1>a. shut' = TRUE /\ failed' = why /\ hung' = hung /\ normalStop' = normalStop
    BY DEF StopFor, Aborts
  <1>b. order' = order
    BY <1>1, Zenon
  <1>3. cur' \in 0 .. N + 1
    BY <1>2, StartTypes
  <1>4. TypeOK'
    BY <1>1, <1>2, <1>a, <1>3 DEF EngineInv, TypeOK
  <1>5. CheckInv'
    BY <1>1, <1>2, <1>a DEF CheckInv, Up, Aborts
  <1>6. StatInv'
    BY <1>1, <1>2 DEF EngineInv, StatInv
  <1>7. LoopInv'
    BY <1>b, <1>2, StartTypes DEF LoopInv
  <1>8. EDUInv'
    <2>1. normalStop /\ normalStop'
      <3>1. normalStop
        BY DEF EngineInv, EDUInv, Aborts
      <3> QED
        BY <3>1, <1>a, Zenon
    <2> QED
      BY <2>1, <1>2 DEF EngineInv, EDUInv, EDUSafe, ExitClean, Ended
  <1> QED
    BY <1>1, <1>4, <1>5, <1>6, <1>7, <1>8, Zenon DEF EngineInv

LEMMA EngineInit == Init => EngineInv
  <1> SUFFICES ASSUME Init PROVE EngineInv
    OBVIOUS
  <1>1. N \in Nat
    BY EngineAssumption
  <1>2. stack = <<>> /\ order = <<>> /\ flag = {} /\ DOMAIN stack = {} /\ DOMAIN order = {}
    BY DEF Init
  <1>3. Placed = {} /\ Calls = {}
    BY <1>2 DEF Placed, Calls
  <1>4. TypeOK /\ stack \in Seq(Frame)
    <2>1. order \in Seq(CB) /\ Len(order) <= N /\ stack \in Seq(Frame) /\ cur \in 0 .. N + 1
      BY <1>1, <1>2 DEF Init
    <2>2. stat \in [CB -> 0 .. 2] /\ edu \in [CB -> {"none", "run", "gone"}]
      BY DEF Init
    <2>3. shut \in BOOLEAN /\ hung \in BOOLEAN /\ normalStop \in BOOLEAN
      BY Zenon DEF Init
    <2>4. /\ deps \in [CB -> SUBSET (CB \cup {Missing})]
          /\ pc \in {"start", "check", "deactive", "edus", "fini"} \cup Up \cup Ended
      BY DEF Init
    <2> QED
      BY <2>1, <2>2, <2>3, <2>4, <1>2 DEF TypeOK
  <1>5. StackInv /\ OrderInv
    BY <1>2, <1>3 DEF StackInv, OrderInv
  <1>6. CheckInv /\ StatInv /\ LoopInv
    BY <1>2, <1>3 DEF Init, CheckInv, StatInv, LoopInv, Up
  <1>7. EDUInv
    BY DEF Init, EDUInv, EDUSafe, ExitClean, Ended
  <1> QED
    BY <1>4, <1>5, <1>6, <1>7 DEF EngineInv

-----------------------------------------------------------------------------
(* The dependency check. *)
LEMMA PrepareStep == ASSUME EngineInv, Prepare PROVE EngineInv'
  <1>1. CASE StopFor("prepare")
    <2>1. Aborts("prepare")
      BY <1>1 DEF Prepare, Aborts, Ended
    <2> QED
      BY <2>1, StopForStep
  <1>2. CASE pc' = "check" /\ UNCHANGED <<cur, shut, failed>>
    <2>1. /\ StackInv' /\ OrderInv' /\ stack' \in Seq(Frame) /\ Placed' = Placed
          /\ Cyclic' = Cyclic /\ Absent' = Absent
          /\ deps' = deps /\ stack' = stack /\ flag' = flag /\ order' = order
      BY StartSame, Zenon DEF Prepare
    <2>2. pc = "start" /\ pc' = "check" /\ stat' = stat /\ edu' = edu /\ cur' = cur
      BY <1>2 DEF Prepare
    <2>3. shut' = shut /\ failed' = failed /\ hung' = hung /\ normalStop' = normalStop
      BY <1>2 DEF Prepare
    <2>4. TypeOK'
      BY <2>1, <2>2, <2>3 DEF EngineInv, TypeOK
    <2>5. CheckInv'
      BY <2>1, <2>2, <2>3 DEF EngineInv, CheckInv, Up
    <2>6. StatInv'
      BY <2>1, <2>2 DEF EngineInv, StatInv
    <2>7. LoopInv'
      BY <2>1, <2>2 DEF EngineInv, LoopInv
    <2>8. EDUInv'
      BY <2>2, <2>3 DEF EngineInv, EDUInv, EDUSafe, ExitClean, Ended
    <2> QED
      BY <2>1, <2>4, <2>5, <2>6, <2>7, <2>8, Zenon DEF EngineInv
  <1> QED
    BY <1>1, <1>2 DEF Prepare

(* A step of the check that goes on with the check. *)
CheckGoesOn ==
  /\ pc = "check" /\ pc' = "check"
  /\ UNCHANGED <<deps, stat, edu, cur, shut, failed, hung, normalStop>>

LEMMA CheckGoesOnStep ==
  ASSUME EngineInv, CheckGoesOn, StackInv', OrderInv', stack' \in Seq(Frame),
         \A i \in DOMAIN stack' : stack'[i].todo \subseteq deps[stack'[i].cb],
         order' \in Seq(CB), Len(order') <= N, flag' \subseteq CB
  PROVE  EngineInv'
  <1>1. /\ pc = "check" /\ pc' = "check" /\ deps' = deps /\ stat' = stat /\ edu' = edu
        /\ cur' = cur
    BY DEF CheckGoesOn
  <1>2. shut' = shut /\ failed' = failed /\ hung' = hung /\ normalStop' = normalStop
    BY DEF CheckGoesOn
  <1>3. \A i \in DOMAIN stack' : stack'[i].cb \in CB
    <2>1. \A i \in DOMAIN stack' : stack'[i] \in Frame
      OBVIOUS
    <2>2. \A f \in Frame : f.cb \in CB
      BY DEF Frame
    <2> QED
      BY <2>1, <2>2
  <1>4. TypeOK'
    BY <1>1, <1>2, <1>3 DEF EngineInv, TypeOK
  <1>5. CheckInv'
    <2>1. Cyclic' = Cyclic /\ Absent' = Absent
      BY <1>1 DEF Cyclic, Absent
    <2> QED
      BY <2>1, <1>1, <1>2 DEF EngineInv, CheckInv, Up
  <1>6. \A c \in CB : stat'[c] = 0
    BY <1>1 DEF EngineInv, LoopInv
  <1>7. StatInv' /\ LoopInv'
    <2>1. \A i \in DOMAIN order' : order'[i] \in CB
      OBVIOUS
    <2>2. StatInv'
      BY <2>1, <1>6 DEF StatInv
    <2>3. LoopInv'
      BY <1>1, <1>6 DEF EngineInv, LoopInv
    <2> QED
      BY <2>2, <2>3
  <1>8. EDUInv'
    BY <1>1, <1>2 DEF EngineInv, EDUInv, EDUSafe, ExitClean, Ended
  <1> QED
    BY <1>4, <1>5, <1>7, <1>8, Zenon DEF EngineInv

LEMMA CheckNextStep == ASSUME EngineInv, CheckNext PROVE EngineInv'
  <1>1. pc = "check" /\ stack = <<>> /\ DOMAIN stack = {}
    BY DEF CheckNext
  <1>2. /\ deps' = deps /\ order' = order /\ stat' = stat /\ edu' = edu
    BY DEF CheckNext
  <1>3. hung' = hung /\ normalStop' = normalStop
    BY DEF CheckNext
  <1>4. flag = Placed /\ Calls = {}
    BY <1>1 DEF EngineInv, StackInv, Calls
  <1>5. CASE CB \subseteq flag /\ pc' = "init" /\ UNCHANGED <<stack, flag, cur, shut, failed>>
    <2>1. UNCHANGED start
      BY <1>2, <1>5 DEF start
    <2>2. /\ StackInv' /\ OrderInv' /\ stack' \in Seq(Frame) /\ Placed' = Placed
          /\ Cyclic' = Cyclic /\ Absent' = Absent
          /\ deps' = deps /\ stack' = stack /\ flag' = flag /\ order' = order
      BY <2>1, StartSame, Zenon
    <2>3. pc' = "init" /\ cur' = cur /\ stat' = stat /\ edu' = edu
      BY <1>2, <1>5
    <2>4. shut' = shut /\ failed' = failed
      BY <1>5
    <2>5. TypeOK'
      BY <2>2, <2>3, <2>4, <1>3 DEF EngineInv, TypeOK, Up
    <2>6. CheckInv'
      BY <2>2, <2>3, <2>4, <1>1, <1>5 DEF EngineInv, CheckInv, Up
    <2>7. StatInv'
      BY <2>2, <2>3 DEF EngineInv, StatInv
    <2>8. LoopInv'
      <3>1. cur' = 1 /\ \A c \in CB : stat'[c] = 0
        BY <2>3, <1>1 DEF EngineInv, LoopInv
      <3>2. /\ DOMAIN order' = 1 .. Len(order') /\ Len(order') \in Nat
            /\ \A i \in DOMAIN order' : order'[i] \in CB
        BY <1>2, StartTypes
      <3>3. cur' \in 1 .. Len(order') + 1
        BY <3>1, <3>2
      <3>4. \A i \in DOMAIN order' : stat'[order'[i]] = IF i < cur' THEN 1 ELSE 0
        BY <3>1, <3>2
      <3> QED
        BY <3>3, <3>4, <2>3 DEF LoopInv
    <2>9. EDUInv'
      BY <2>3, <1>1, <1>3 DEF EngineInv, EDUInv, EDUSafe, ExitClean, Ended
    <2> QED
      BY <2>2, <2>5, <2>6, <2>7, <2>8, <2>9, Zenon DEF EngineInv
  <1>6. ASSUME NEW c \in CB \ flag, AddDependencyCB(c, <<>>) PROVE EngineInv'
    <2> DEFINE f == [cb |-> c, todo |-> deps[c]]
    <2>1. /\ flag' = flag \cup {c} /\ stack' = <<f>> /\ UNCHANGED <<pc, cur, shut, failed>>
      BY <1>6 DEF AddDependencyCB
    <2>2. f \in Frame /\ f.cb = c /\ f.todo = deps[c]
      BY DEF Frame, EngineInv, TypeOK
    <2>3. CheckGoesOn
      BY <2>1, <1>1, <1>2, <1>3 DEF CheckGoesOn
    <2> HIDE DEF f
    <2>4. stack' \in Seq(Frame) /\ DOMAIN stack' = {1} /\ stack'[1] = f
      BY <2>1, <2>2
    <2>5. OrderInv'
      BY <1>2 DEF EngineInv, OrderInv
    <2>6. StackInv'
      <3>1. Placed' = Placed /\ Calls' = {c}
        BY <2>2, <2>4, <1>2 DEF Placed, Calls
      <3>2. flag' = Placed' \cup Calls' /\ Placed' \cap Calls' = {}
        BY <3>1, <2>1, <1>4
      <3>3. \A i \in DOMAIN stack' : i = 1 /\ i + 1 \notin DOMAIN stack'
        BY <2>4
      <3> QED
        BY <3>2, <3>3, <2>2, <2>4, <1>2 DEF StackInv
    <2>7. \A i \in DOMAIN stack' : stack'[i].todo \subseteq deps[stack'[i].cb]
      BY <2>2, <2>4
    <2>8. order' \in Seq(CB) /\ Len(order') <= N /\ flag' \subseteq CB
      BY <2>1, <1>2 DEF EngineInv, TypeOK
    <2> QED
      BY <2>3, <2>4, <2>5, <2>6, <2>7, <2>8, CheckGoesOnStep
  <1> QED
    BY <1>5, <1>6 DEF CheckNext

(* The loop over the dependencies has looked at d, on behalf of the call   *)
(* on top of the stack.                                                    *)
LEMMA LookedAt ==
  ASSUME EngineInv, stack # <<>>, NEW d, d \in Last(stack).todo
  PROVE  LET rest == Append(Front(stack), [Last(stack) EXCEPT !.todo = @ \ {d}])
             n == Len(stack)
         IN  /\ n \in Nat \ {0} /\ DOMAIN stack = 1 .. n
             /\ rest \in Seq(Frame) /\ Len(rest) = n
             /\ Last(stack) = stack[n] /\ d \in deps[stack[n].cb]
             /\ \A i \in 1 .. n - 1 : rest[i] = stack[i]
             /\ rest[n].cb = stack[n].cb /\ rest[n].todo = stack[n].todo \ {d}
  <1> DEFINE top == Last(stack)
             r == [top EXCEPT !.todo = @ \ {d}]
             n == Len(stack)
  <1>1. stack \in Seq(Frame)
    BY DEF EngineInv
  <1>2. /\ n \in Nat \ {0} /\ top = stack[n] /\ top \in Frame
        /\ Front(stack) \in Seq(Frame) /\ Len(Front(stack)) = n - 1
        /\ \A i \in 1 .. n - 1 : Front(stack)[i] = stack[i]
    BY <1>1, FrontOf
  <1>3. DOMAIN stack = 1 .. n
    BY <1>1
  <1>4. r \in Frame /\ r.cb = top.cb /\ r.todo = top.todo \ {d}
    <2> HIDE DEF top
    <2> QED
      BY <1>2 DEF Frame
  <1>5. d \in deps[top.cb]
    BY <1>2, <1>3 DEF EngineInv, TypeOK
  <1> HIDE DEF r, n, top
  <1>6. /\ Append(Front(stack), r) \in Seq(Frame)
        /\ Len(Append(Front(stack), r)) = n - 1 + 1
        /\ \A i \in 1 .. n - 1 : Append(Front(stack), r)[i] = Front(stack)[i]
        /\ Append(Front(stack), r)[n - 1 + 1] = r
    BY <1>2, <1>4, AppendProperties
  <1>7. n - 1 + 1 = n
    BY <1>2
  <1>8. /\ n \in Nat \ {0} /\ DOMAIN stack = 1 .. n
        /\ Append(Front(stack), r) \in Seq(Frame) /\ Len(Append(Front(stack), r)) = n
        /\ top = stack[n] /\ d \in deps[stack[n].cb]
        /\ \A i \in 1 .. n - 1 : Append(Front(stack), r)[i] = stack[i]
        /\ Append(Front(stack), r)[n].cb = stack[n].cb
        /\ Append(Front(stack), r)[n].todo = stack[n].todo \ {d}
    BY <1>2, <1>3, <1>4, <1>5, <1>6, <1>7
  <1> QED
    BY <1>8, Zenon DEF r, n, top

LEMMA CheckDependencyStep ==
  ASSUME EngineInv, NEW d \in CB \cup {Missing}, CheckDependency(d)
  PROVE  EngineInv'
  <1> DEFINE rest == Append(Front(stack), [Last(stack) EXCEPT !.todo = @ \ {d}])
             n == Len(stack)
  <1>1. pc = "check" /\ stack # <<>> /\ d \in Last(stack).todo
    BY DEF CheckDependency
  <1>2. deps' = deps /\ order' = order /\ stat' = stat /\ edu' = edu
    BY DEF CheckDependency
  <1>3. hung' = hung /\ normalStop' = normalStop
    BY DEF CheckDependency
  <1>4. /\ n \in Nat \ {0} /\ DOMAIN stack = 1 .. n
        /\ rest \in Seq(Frame) /\ Len(rest) = n
        /\ Last(stack) = stack[n] /\ d \in deps[stack[n].cb]
        /\ \A i \in 1 .. n - 1 : rest[i] = stack[i]
        /\ rest[n].cb = stack[n].cb /\ rest[n].todo = stack[n].todo \ {d}
    BY <1>1, LookedAt
  <1>5. stack[n].cb \in CB /\ \A i \in 1 .. n : stack[i].todo \subseteq deps[stack[i].cb]
    <2>1. \A i \in DOMAIN stack : stack[i].cb \in CB /\ stack[i].todo \subseteq deps[stack[i].cb]
      BY DEF EngineInv, TypeOK
    <2>2. n \in 1 .. n
      BY <1>4
    <2> HIDE DEF n, rest
    <2> QED
      BY <2>1, <2>2, <1>4
  <1>6. InOrder(d) <=> d \in Placed
    BY DEF InOrder, Placed
  <1>7. CASE d = Missing /\ StopFor("not found") /\ UNCHANGED <<stack, flag>>
    <2>1. Absent
      BY <1>4, <1>5, <1>7 DEF Absent
    <2>2. Aborts("not found")
      BY <2>1, <1>1, <1>2, <1>3, <1>7 DEF Aborts, Ended, start
    <2> QED
      BY <2>2, StopForStep
  <1>8. CASE d # Missing /\ ~InOrder(d) /\ d \in flag /\ StopFor("endless loop") /\ UNCHANGED <<stack, flag>>
    <2>1. d \in Calls /\ d \in CB
      BY <1>6, <1>8 DEF EngineInv, StackInv
    <2>2. Cyclic
      BY <2>1, <1>1, LoopIsCycle
    <2>3. Aborts("endless loop")
      BY <2>2, <1>1, <1>2, <1>3, <1>8 DEF Aborts, Ended, start
    <2> QED
      BY <2>3, StopForStep
  <1> HIDE DEF rest, n
  <1>9. \A i \in 1 .. n : rest[i].cb = stack[i].cb /\ rest[i].todo \subseteq stack[i].todo
    <2>1. ASSUME NEW i \in 1 .. n
          PROVE  rest[i].cb = stack[i].cb /\ rest[i].todo \subseteq stack[i].todo
      <3>1. CASE i = n
        BY <3>1, <1>4
      <3>2. CASE i # n
        <4>1. i \in 1 .. n - 1
          BY <3>2, <1>4
        <4> QED
          BY <4>1, <1>4
      <3> QED
        BY <3>1, <3>2
    <2> QED
      BY <2>1
  <1>10. Placed' = Placed /\ OrderInv' /\ order' \in Seq(CB) /\ Len(order') <= N
    BY <1>2 DEF EngineInv, OrderInv, TypeOK, Placed
  <1>11. CASE InOrder(d) /\ stack' = rest /\ UNCHANGED <<flag, pc, cur, shut, failed>>
    <2>1. CheckGoesOn
      BY <1>1, <1>2, <1>3, <1>11 DEF CheckGoesOn
    <2>2. stack' \in Seq(Frame) /\ DOMAIN stack' = 1 .. n
      BY <1>4, <1>11
    <2>3. Calls' = Calls
      BY <2>2, <1>4, <1>9, <1>11 DEF Calls
    <2>4. StackInv'
      <3>1. flag' = Placed' \cup Calls' /\ Placed' \cap Calls' = {}
        BY <2>3, <1>10, <1>11 DEF EngineInv, StackInv
      <3>2. \A i, j \in DOMAIN stack' : i # j => stack'[i].cb # stack'[j].cb
        BY <2>2, <1>4, <1>9, <1>11 DEF EngineInv, StackInv
      <3>3. ASSUME NEW i \in DOMAIN stack', NEW e \in deps[stack'[i].cb] \ stack'[i].todo
            PROVE  e \in Placed \/ (i + 1 \in DOMAIN stack' /\ e = stack'[i + 1].cb)
        <4>1. i \in 1 .. n /\ stack'[i].cb = stack[i].cb
          BY <2>2, <1>9, <1>11
        <4>2. CASE e \notin stack[i].todo
          <5>1. e \in Placed \/ (i + 1 \in DOMAIN stack /\ e = stack[i + 1].cb)
            BY <4>1, <4>2, <3>3, <1>4 DEF EngineInv, StackInv
          <5> QED
            BY <5>1, <2>2, <1>4, <1>9, <1>11
        <4>3. CASE e \in stack[i].todo
          <5>1. CASE i = n
            <6>1. e = d
              BY <5>1, <4>3, <3>3, <1>4, <1>11
            <6> QED
              BY <6>1, <1>6, <1>11
          <5>2. CASE i # n
            <6>1. i \in 1 .. n - 1
              BY <5>2, <4>1, <1>4
            <6> QED
              BY <6>1, <4>3, <3>3, <1>4, <1>11
          <5> QED
            BY <5>1, <5>2
        <4> QED
          BY <4>2, <4>3
      <3>4. \A i \in DOMAIN stack' :
              i + 1 \in DOMAIN stack' => stack'[i + 1].cb \in deps[stack'[i].cb]
        BY <2>2, <1>4, <1>9, <1>11 DEF EngineInv, StackInv
      <3> QED
        BY <3>1, <3>2, <3>3, <3>4, <1>2, <1>10 DEF StackInv
    <2>5. \A i \in DOMAIN stack' : stack'[i].todo \subseteq deps[stack'[i].cb]
      BY <2>2, <1>5, <1>9, <1>11
    <2>6. flag' \subseteq CB
      BY <1>11 DEF EngineInv, TypeOK
    <2> QED
      BY <2>1, <2>2, <2>4, <2>5, <2>6, <1>10, CheckGoesOnStep
  <1>12. CASE /\ d # Missing /\ ~InOrder(d) /\ d \notin flag /\ flag' = flag \cup {d}
              /\ stack' = Append(rest, [cb |-> d, todo |-> deps[d]])
              /\ UNCHANGED <<pc, cur, shut, failed>>
    <2> DEFINE f == [cb |-> d, todo |-> deps[d]]
    <2>1. CheckGoesOn
      BY <1>1, <1>2, <1>3, <1>12 DEF CheckGoesOn
    <2>2. d \in CB /\ f \in Frame /\ f.cb = d /\ f.todo = deps[d]
      BY <1>12 DEF Frame, EngineInv, TypeOK
    <2> HIDE DEF f
    <2>3. stack' = Append(rest, f)
      BY <1>12 DEF f
    <2>4. /\ stack' \in Seq(Frame) /\ Len(stack') = n + 1
          /\ \A i \in 1 .. n : stack'[i] = rest[i]
          /\ stack'[n + 1] = f
      BY <2>2, <2>3, <1>4, AppendProperties
    <2>5. DOMAIN stack' = 1 .. n + 1
      BY <2>4
    <2>6. \A i \in 1 .. n + 1 : i \in 1 .. n \/ i = n + 1
      BY <1>4
    <2>7. \A i \in 1 .. n : i \in 1 .. n + 1 /\ i # n + 1
      BY <1>4
    <2>8. Calls' = Calls \cup {d}
      <3>1. ASSUME NEW x \in Calls' PROVE x \in Calls \cup {d}
        <4>1. PICK i \in 1 .. n + 1 : x = stack'[i].cb
          BY <2>5 DEF Calls
        <4> QED
          BY <4>1, <2>2, <2>4, <2>6, <1>4, <1>9 DEF Calls
      <3>2. ASSUME NEW x \in Calls PROVE x \in Calls'
        <4>1. PICK i \in 1 .. n : x = stack[i].cb
          BY <1>4 DEF Calls
        <4>2. i \in DOMAIN stack' /\ x = stack'[i].cb
          BY <4>1, <2>4, <2>5, <2>7, <1>9
        <4> QED
          BY <4>2 DEF Calls
      <3>3. d \in Calls'
        <4>1. n + 1 \in DOMAIN stack' /\ d = stack'[n + 1].cb
          BY <2>2, <2>4, <2>5, <1>4
        <4> QED
          BY <4>1 DEF Calls
      <3> QED
        BY <3>1, <3>2, <3>3
    <2>9. StackInv'
      <3>1. flag' = Placed' \cup Calls' /\ Placed' \cap Calls' = {}
        BY <2>8, <1>6, <1>10, <1>12 DEF EngineInv, StackInv
      <3>2. \A i \in 1 .. n : stack[i].cb # d
        BY <1>4, <1>12 DEF EngineInv, StackInv, Calls
      <3>3. \A i, j \in DOMAIN stack' : i # j => stack'[i].cb # stack'[j].cb
        BY <3>2, <2>2, <2>4, <2>5, <2>6, <1>4, <1>9 DEF EngineInv, StackInv
      <3>4. ASSUME NEW i \in DOMAIN stack', NEW e \in deps[stack'[i].cb] \ stack'[i].todo
            PROVE  e \in Placed \/ (i + 1 \in DOMAIN stack' /\ e = stack'[i + 1].cb)
        <4>1. CASE i = n + 1
          BY <4>1, <3>4, <2>2, <2>4
        <4>2. CASE i = n
          <5>1. i \in 1 .. n /\ stack'[i].cb = stack[n].cb /\ stack'[i].todo = stack[n].todo \ {d}
            BY <4>2, <2>4, <1>4
          <5>2. CASE e = d
            <6>1. i + 1 \in DOMAIN stack' /\ stack'[i + 1].cb = d
              BY <4>2, <2>2, <2>4, <2>5, <1>4
            <6> QED
              BY <6>1, <5>2
          <5>3. CASE e # d
            <6>1. e \in deps[stack[n].cb] \ stack[n].todo
              BY <5>1, <5>3, <3>4
            <6>2. n \in DOMAIN stack /\ n + 1 \notin DOMAIN stack
              BY <1>4
            <6> QED
              BY <6>1, <6>2 DEF EngineInv, StackInv
          <5> QED
            BY <5>2, <5>3
        <4>3. CASE i \in 1 .. n - 1
          <5>1. /\ stack'[i] = stack[i] /\ i \in DOMAIN stack
                /\ i + 1 \in DOMAIN stack /\ i + 1 \in DOMAIN stack' /\ stack'[i + 1].cb = stack[i + 1].cb
            <6>1. i \in 1 .. n /\ i + 1 \in 1 .. n /\ i + 1 \in 1 .. n + 1
              BY <4>3, <1>4
            <6> QED
              BY <6>1, <4>3, <2>4, <2>5, <1>4, <1>9
          <5>2. e \in Placed \/ e = stack[i + 1].cb
            BY <5>1, <3>4 DEF EngineInv, StackInv
          <5> QED
            BY <5>1, <5>2
        <4>4. i \in 1 .. n - 1 \/ i = n \/ i = n + 1
          BY <2>5, <1>4
        <4> QED
          BY <4>1, <4>2, <4>3, <4>4
      <3>5. ASSUME NEW i \in DOMAIN stack', i + 1 \in DOMAIN stack'
            PROVE  stack'[i + 1].cb \in deps[stack'[i].cb]
        <4>1. i \in 1 .. n
          BY <3>5, <2>5, <1>4
        <4>2. CASE i = n
          BY <4>2, <2>2, <2>4, <1>4
        <4>3. CASE i # n
          <5>1. i + 1 \in 1 .. n /\ i \in DOMAIN stack /\ i + 1 \in DOMAIN stack
            BY <4>1, <4>3, <1>4
          <5> QED
            BY <5>1, <4>1, <2>4, <1>9 DEF EngineInv, StackInv
        <4> QED
          BY <4>2, <4>3
      <3> QED
        BY <3>1, <3>3, <3>4, <3>5, <1>2, <1>10 DEF StackInv
    <2>10. \A i \in DOMAIN stack' : stack'[i].todo \subseteq deps[stack'[i].cb]
      BY <2>2, <2>4, <2>5, <2>6, <1>5, <1>9
    <2>11. flag' \subseteq CB
      BY <2>2, <1>12 DEF EngineInv, TypeOK
    <2> QED
      BY <2>1, <2>4, <2>9, <2>10, <2>11, <1>10, CheckGoesOnStep
  <1> QED
    BY <1>7, <1>8, <1>11, <1>12 DEF CheckDependency, AddDependencyCB, rest

(* The call on top of the stack returns: all its dependencies are placed,  *)
(* and so is its CB, behind them.                                          *)
LEMMA CheckPushStep == ASSUME EngineInv, CheckPush PROVE EngineInv'
  <1> DEFINE n == Len(stack)
             m == Len(order)
             c == Last(stack).cb
  <1>1. pc = "check" /\ stack # <<>> /\ Last(stack).todo = {}
    BY DEF CheckPush
  <1>2. order' = Append(order, c) /\ stack' = Front(stack) /\ flag' = flag
    BY DEF CheckPush
  <1>3. CheckGoesOn /\ deps' = deps
    BY DEF CheckPush, CheckGoesOn
  <1>4. /\ n \in Nat \ {0} /\ DOMAIN stack = 1 .. n /\ Last(stack) = stack[n]
        /\ stack' \in Seq(Frame) /\ DOMAIN stack' = 1 .. n - 1
        /\ \A i \in 1 .. n - 1 : stack'[i] = stack[i]
    <2>1. stack \in Seq(Frame)
      BY DEF EngineInv
    <2>2. /\ n \in Nat \ {0} /\ Last(stack) = stack[n]
          /\ Front(stack) \in Seq(Frame) /\ Len(Front(stack)) = n - 1
          /\ \A i \in 1 .. n - 1 : Front(stack)[i] = stack[i]
      BY <2>1, <1>1, FrontOf
    <2> QED
      BY <2>1, <2>2, <1>2
  <1>5. c = stack[n].cb /\ stack[n].todo = {} /\ n \in DOMAIN stack /\ c \in CB /\ c \in Calls
    <2>1. n \in DOMAIN stack
      BY <1>4
    <2>2. c = stack[n].cb /\ stack[n].todo = {}
      BY <1>1, <1>4
    <2> QED
      BY <2>1, <2>2 DEF EngineInv, TypeOK, Calls
  <1> HIDE DEF n, c
  <1>6. /\ order \in Seq(CB) /\ m \in Nat /\ DOMAIN order = 1 .. m
        /\ order' \in Seq(CB) /\ Len(order') = m + 1 /\ DOMAIN order' = 1 .. m + 1
        /\ \A i \in 1 .. m : order'[i] = order[i]
        /\ order'[m + 1] = c
    <2>1. order \in Seq(CB) /\ m \in Nat /\ DOMAIN order = 1 .. m
      BY StartTypes
    <2>2. /\ order' \in Seq(CB) /\ Len(order') = m + 1
          /\ \A i \in 1 .. m : order'[i] = order[i]
          /\ order'[m + 1] = c
      BY <2>1, <1>2, <1>5, AppendProperties
    <2> QED
      BY <2>1, <2>2
  <1> HIDE DEF m
  <1>7. \A i \in 1 .. m + 1 : i \in 1 .. m \/ i = m + 1
    BY <1>6
  <1>8. \A i \in 1 .. m : i \in 1 .. m + 1 /\ i # m + 1
    BY <1>6
  <1>9. c \notin Placed
    BY <1>5 DEF EngineInv, StackInv
  <1>10. Placed' = Placed \cup {c}
    <2>1. ASSUME NEW x \in Placed' PROVE x \in Placed \cup {c}
      <3>1. PICK i \in 1 .. m + 1 : x = order'[i]
        BY <1>6 DEF Placed
      <3> QED
        BY <3>1, <1>6, <1>7 DEF Placed
    <2>2. ASSUME NEW x \in Placed PROVE x \in Placed'
      <3>1. PICK i \in 1 .. m : x = order[i]
        BY <1>6 DEF Placed
      <3>2. i \in DOMAIN order' /\ x = order'[i]
        BY <3>1, <1>6, <1>8
      <3> QED
        BY <3>2 DEF Placed
    <2>3. c \in Placed'
      <3>1. m + 1 \in DOMAIN order' /\ c = order'[m + 1]
        BY <1>6
      <3> QED
        BY <3>1 DEF Placed
    <2> QED
      BY <2>1, <2>2, <2>3
  <1>11. Calls' = Calls \ {c}
    <2>1. \A i \in 1 .. n - 1 : i \in 1 .. n /\ i # n
      BY <1>4
    <2>2. ASSUME NEW x \in Calls' PROVE x \in Calls \ {c}
      <3>1. PICK i \in 1 .. n - 1 : x = stack'[i].cb
        BY <1>4 DEF Calls
      <3>2. i \in DOMAIN stack /\ x = stack[i].cb /\ i # n
        BY <3>1, <2>1, <1>4
      <3>3. stack[i].cb # stack[n].cb
        BY <3>2, <1>5 DEF EngineInv, StackInv
      <3> QED
        BY <3>2, <3>3, <1>5 DEF Calls
    <2>3. ASSUME NEW x \in Calls, x # c PROVE x \in Calls'
      <3>1. PICK i \in 1 .. n : x = stack[i].cb
        BY <1>4 DEF Calls
      <3>2. i \in 1 .. n - 1
        <4>1. i # n
          BY <3>1, <2>3, <1>5
        <4> QED
          BY <4>1, <1>4
      <3>3. i \in DOMAIN stack' /\ x = stack'[i].cb
        BY <3>1, <3>2, <1>4
      <3> QED
        BY <3>3 DEF Calls
    <2> QED
      BY <2>2, <2>3
  <1>12. StackInv'
    <2>1. flag' = Placed' \cup Calls' /\ Placed' \cap Calls' = {}
      BY <1>2, <1>5, <1>10, <1>11 DEF EngineInv, StackInv
    <2>2. \A i \in 1 .. n - 1 : i \in 1 .. n /\ i + 1 \in 1 .. n
      BY <1>4
    <2>3. \A i, j \in DOMAIN stack' : i # j => stack'[i].cb # stack'[j].cb
      BY <2>2, <1>4 DEF EngineInv, StackInv
    <2>4. ASSUME NEW i \in DOMAIN stack', NEW e \in deps[stack'[i].cb] \ stack'[i].todo
          PROVE  e \in Placed' \/ (i + 1 \in DOMAIN stack' /\ e = stack'[i + 1].cb)
      <3>1. i \in 1 .. n - 1 /\ i \in DOMAIN stack /\ stack'[i] = stack[i]
        BY <2>2, <1>4
      <3>2. e \in Placed \/ (i + 1 \in DOMAIN stack /\ e = stack[i + 1].cb)
        BY <3>1, <2>4 DEF EngineInv, StackInv
      <3>3. CASE i + 1 = n
        BY <3>2, <3>3, <1>5, <1>10
      <3>4. CASE i + 1 # n
        <4>1. i + 1 \in 1 .. n - 1
          BY <3>1, <3>4, <1>4
        <4> QED
          BY <4>1, <3>2, <1>4, <1>10
      <3> QED
        BY <3>3, <3>4
    <2>5. ASSUME NEW i \in DOMAIN stack', i + 1 \in DOMAIN stack'
          PROVE  stack'[i + 1].cb \in deps[stack'[i].cb]
      <3>1. i \in DOMAIN stack /\ i + 1 \in DOMAIN stack /\ stack'[i] = stack[i] /\ stack'[i + 1] = stack[i + 1]
        BY <2>2, <2>5, <1>4
      <3> QED
        BY <3>1 DEF EngineInv, StackInv
    <2> QED
      BY <2>1, <2>3, <2>4, <2>5, <1>3 DEF StackInv
  <1>13. \A i, j \in DOMAIN order' : i # j => order'[i] # order'[j]
    <2>1. \A i \in 1 .. m : order[i] # c
      BY <1>6, <1>9 DEF Placed
    <2>2. \A i, j \in 1 .. m : i # j => order[i] # order[j]
      BY <1>6 DEF EngineInv, OrderInv
    <2> QED
      BY <2>1, <2>2, <1>6, <1>7
  <1>14. OrderInv'
    <2>1. ASSUME NEW i \in DOMAIN order', NEW d \in deps[order'[i]]
          PROVE  \E j \in 1 .. i - 1 : order'[j] = d
      <3>1. CASE i = m + 1
        <4>1. d \in deps[stack[n].cb] \ stack[n].todo
          BY <3>1, <2>1, <1>5, <1>6
        <4>2. n + 1 \notin DOMAIN stack
          BY <1>4
        <4>3. d \in Placed
          BY <4>1, <4>2, <1>5 DEF EngineInv, StackInv
        <4>4. PICK j \in 1 .. m : order[j] = d
          BY <4>3, <1>6 DEF Placed
        <4>5. j \in 1 .. i - 1 /\ order'[j] = d
          BY <4>4, <3>1, <1>6
        <4> QED
          BY <4>5
      <3>2. CASE i \in 1 .. m
        <4>1. order'[i] = order[i] /\ i \in DOMAIN order
          BY <3>2, <1>6
        <4>2. PICK j \in 1 .. i - 1 : order[j] = d
          BY <4>1, <2>1 DEF EngineInv, OrderInv
        <4>3. j \in 1 .. m
          BY <3>2, <1>6
        <4> QED
          BY <4>2, <4>3, <1>6
      <3> QED
        BY <3>1, <3>2, <1>6, <1>7
    <2> QED
      BY <2>1, <1>3, <1>13 DEF OrderInv
  <1>15. Len(order') <= N
    BY <1>6, <1>13, OrderLength
  <1>16. \A i \in DOMAIN stack' : stack'[i].todo \subseteq deps[stack'[i].cb]
    <2>1. \A i \in 1 .. n - 1 : i \in DOMAIN stack
      BY <1>4
    <2> QED
      BY <2>1, <1>4 DEF EngineInv, TypeOK
  <1>17. flag' \subseteq CB
    BY <1>2 DEF EngineInv, TypeOK
  <1> QED
    BY <1>3, <1>4, <1>6, <1>12, <1>14, <1>15, <1>16, <1>17, CheckGoesOnStep


-----------------------------------------------------------------------------
(* The loops over _vecCB. *)

(* A step behind the dependency check leaves alone what the check has      *)
(* found; only the last step of the check itself leads into the start.     *)
Later == UNCHANGED start /\ failed' = failed /\ (pc' \in Up => pc \in Up)

Flags == shut \in BOOLEAN /\ hung \in BOOLEAN /\ normalStop \in BOOLEAN

LEMMA LaterStep ==
  ASSUME EngineInv, Later, Flags', StatInv', LoopInv', EDUInv',
         stat' \in [CB -> 0 .. 2], edu' \in [CB -> {"none", "run", "gone"}],
         pc' \in {"start", "check", "deactive", "edus", "fini"} \cup Up \cup Ended,
         cur' \in 0 .. N + 1
  PROVE  EngineInv'
  <1>1. /\ StackInv' /\ OrderInv' /\ stack' \in Seq(Frame) /\ Placed' = Placed
        /\ Cyclic' = Cyclic /\ Absent' = Absent
        /\ deps' = deps /\ stack' = stack /\ flag' = flag /\ order' = order
    BY StartSame, Zenon DEF Later
  <1>2. /\ deps' \in [CB -> SUBSET (CB \cup {Missing})]
        /\ flag' \subseteq CB /\ order' \in Seq(CB) /\ Len(order') <= N
        /\ \A i \in DOMAIN stack' : stack'[i].cb \in CB /\ stack'[i].todo \subseteq deps'[stack'[i].cb]
    BY <1>1 DEF EngineInv, TypeOK
  <1>3. TypeOK'
    BY <1>2, Zenon DEF TypeOK, Flags
  <1>4. CheckInv'
    <2>1. failed' = failed /\ (pc' \in Up => pc \in Up)
      BY DEF Later
    <2> QED
      BY <2>1, <1>1 DEF EngineInv, CheckInv
  <1> QED
    BY <1>1, <1>3, <1>4, Zenon DEF EngineInv

(* What a step leaves alone of the flags. *)
LEMMA FlagsSame ==
  ASSUME EngineInv
  PROVE  /\ Flags
         /\ UNCHANGED <<shut, hung, normalStop>> => Flags'
  <1>1. Flags
    BY Zenon DEF EngineInv, TypeOK, Flags
  <1>2. ASSUME UNCHANGED <<shut, hung, normalStop>> PROVE Flags'
    <2>1. shut' = shut /\ hung' = hung /\ normalStop' = normalStop
      BY <1>2
    <2> QED
      BY <2>1, <1>1, Zenon DEF Flags
  <1> QED
    BY <1>1, <1>2, Zenon

(* One round of a loop over _vecCB changes one CB, and one that is placed. *)
LEMMA SetStat ==
  ASSUME EngineInv, cur \in DOMAIN order, NEW v \in 0 .. 2,
         stat' = [stat EXCEPT ![Item] = v]
  PROVE  /\ stat' \in [CB -> 0 .. 2] /\ Item \in CB /\ Item = order[cur]
         /\ \A i \in DOMAIN order : stat'[order[i]] = IF i = cur THEN v ELSE stat[order[i]]
         /\ \A c \in CB \ Placed : stat'[c] = 0
         /\ \A c \in CB : stat'[c] = IF c = Item THEN v ELSE stat[c]
  <1>1. Item \in CB /\ Item = order[cur] /\ Item \in Placed
    BY StartTypes DEF Item, Placed
  <1>2. stat \in [CB -> 0 .. 2]
    BY DEF EngineInv, TypeOK
  <1>3. \A c \in CB : stat'[c] = IF c = Item THEN v ELSE stat[c]
    BY <1>1, <1>2
  <1>4. \A i \in DOMAIN order : i # cur => order[i] # order[cur]
    BY DEF EngineInv, OrderInv
  <1>5. \A i \in DOMAIN order : order[i] \in CB
    BY StartTypes
  <1>6. \A i \in DOMAIN order : stat'[order[i]] = IF i = cur THEN v ELSE stat[order[i]]
    BY <1>1, <1>3, <1>4, <1>5
  <1>7. \A c \in CB \ Placed : stat'[c] = 0
    BY <1>1, <1>3 DEF EngineInv, StatInv
  <1> QED
    BY <1>1, <1>2, <1>3, <1>6, <1>7

(* While the stop is normal, an EDU's CB may move but not be finished. *)
LEMMA EDUsSame ==
  ASSUME EngineInv, edu' = edu, UNCHANGED normalStop, pc \notin {"fini"} \cup Ended,
         pc' \notin {"fini"} \cup Ended,
         \A c \in CB : stat[c] > 0 => stat'[c] > 0
  PROVE  EDUInv'
  <1>1. normalStop
    BY Zenon DEF EngineInv, EDUInv
  <1>2. normalStop'
    BY <1>1, Zenon
  <1>3. \A c \in CB : edu[c] = "run" => stat[c] > 0
    BY <1>1 DEF EngineInv, EDUInv, EDUSafe
  <1>4. EDUSafe' /\ ExitClean'
    BY <1>3 DEF EDUSafe, ExitClean, Ended
  <1> QED
    BY <1>2, <1>4 DEF EDUInv

LEMMA InitStep == ASSUME EngineInv, InitCB PROVE EngineInv'
  <1>1. pc = "init" /\ edu' = edu /\ UNCHANGED start /\ UNCHANGED <<hung, normalStop>>
    BY DEF InitCB
  <1>2. order' = order /\ Placed' = Placed
    BY <1>1, StartSame
  <1>3. /\ Len(order) \in Nat /\ DOMAIN order = 1 .. Len(order) /\ cur \in 1 .. Len(order) + 1
        /\ Len(order) <= N /\ N \in Nat /\ \A i \in DOMAIN order : order[i] \in CB
    BY <1>1, StartTypes DEF EngineInv, LoopInv
  <1>4. \A i \in DOMAIN order : stat[order[i]] = IF i < cur THEN 1 ELSE 0
    BY <1>1 DEF EngineInv, LoopInv
  <1>5. stat \in [CB -> 0 .. 2] /\ edu \in [CB -> {"none", "run", "gone"}]
    BY DEF EngineInv, TypeOK
  <1>6. CASE cur <= Len(order) /\ StopFor("init") /\ UNCHANGED stat
    <2>1. Aborts("init")
      BY <1>6, <1>1 DEF InitCB, Aborts, Ended
    <2> QED
      BY <2>1, StopForStep
  <1>7. CASE cur > Len(order) /\ pc' = "active" /\ cur' = 1 /\ UNCHANGED <<stat, shut, failed>>
    <2>1. stat' = stat
      BY <1>7
    <2>2. Later
      BY <1>1, <1>7 DEF Later, Up
    <2>3. Flags'
      BY <1>1, <1>7, FlagsSame
    <2>4. StatInv'
      BY <2>1, <1>2 DEF EngineInv, StatInv
    <2>5. \A i \in DOMAIN order : stat[order[i]] = 1
      BY <1>3, <1>4, <1>7
    <2>6. LoopInv'
      BY <2>1, <2>5, <1>2, <1>3, <1>7 DEF LoopInv
    <2>7. EDUInv'
      BY <2>1, <1>1, <1>7, EDUsSame DEF Ended
    <2> QED
      BY <2>1, <2>2, <2>3, <2>4, <2>6, <2>7, <1>1, <1>3, <1>5, <1>7, LaterStep DEF Up
  <1>8. CASE /\ cur <= Len(order) /\ stat' = [stat EXCEPT ![Item] = 1]
             /\ cur' = cur + 1 /\ UNCHANGED <<pc, shut, failed>>
    <2>1. pc' = "init"
      BY <1>1, <1>8
    <2>2. Later
      BY <2>1, <1>1, <1>8 DEF Later, Up
    <2>3. Flags'
      BY <1>1, <1>8, FlagsSame
    <2>4. /\ stat' \in [CB -> 0 .. 2]
          /\ \A i \in DOMAIN order : stat'[order[i]] = IF i = cur THEN 1 ELSE stat[order[i]]
          /\ \A c \in CB \ Placed : stat'[c] = 0
          /\ \A c \in CB : stat'[c] = IF c = Item THEN 1 ELSE stat[c]
      BY <1>3, <1>8, SetStat
    <2>5. \A i \in DOMAIN order : stat'[order[i]] = IF i < cur + 1 THEN 1 ELSE 0
      BY <2>4, <1>3, <1>4
    <2>6. StatInv'
      BY <2>4, <2>5, <1>2, <1>3 DEF StatInv
    <2>7. LoopInv'
      BY <2>1, <2>5, <1>2, <1>3, <1>8 DEF LoopInv
    <2>8. EDUInv'
      BY <2>1, <2>4, <1>1, EDUsSame DEF Ended
    <2> QED
      BY <2>1, <2>2, <2>3, <2>4, <2>6, <2>7, <2>8, <1>1, <1>3, <1>5, <1>8, LaterStep DEF Up
  <1> QED
    BY <1>6, <1>7, <1>8 DEF InitCB


LEMMA ActiveStep == ASSUME EngineInv, ActiveCB PROVE EngineInv'
  <1>1. pc = "active" /\ edu' = edu /\ UNCHANGED start /\ UNCHANGED <<hung, normalStop>>
    BY DEF ActiveCB
  <1>2. order' = order /\ Placed' = Placed
    BY <1>1, StartSame
  <1>3. /\ Len(order) \in Nat /\ DOMAIN order = 1 .. Len(order) /\ cur \in 1 .. Len(order) + 1
        /\ Len(order) <= N /\ N \in Nat /\ \A i \in DOMAIN order : order[i] \in CB
    BY <1>1, StartTypes DEF EngineInv, LoopInv
  <1>4. \A i \in DOMAIN order : stat[order[i]] = IF i < cur THEN 2 ELSE 1
    BY <1>1 DEF EngineInv, LoopInv
  <1>5. stat \in [CB -> 0 .. 2] /\ edu \in [CB -> {"none", "run", "gone"}]
    BY DEF EngineInv, TypeOK
  <1>6. CASE cur <= Len(order) /\ StopFor("active") /\ UNCHANGED stat
    <2>1. Aborts("active")
      BY <1>6, <1>1 DEF ActiveCB, Aborts, Ended
    <2> QED
      BY <2>1, StopForStep
  <1>7. CASE cur > Len(order) /\ pc' = "post" /\ cur' = 1 /\ UNCHANGED <<stat, shut, failed>>
    <2>1. stat' = stat
      BY <1>7
    <2>2. Later
      BY <1>1, <1>7 DEF Later, Up
    <2>3. Flags'
      BY <1>1, <1>7, FlagsSame
    <2>4. StatInv'
      BY <2>1, <1>2 DEF EngineInv, StatInv
    <2>5. \A i \in DOMAIN order : stat[order[i]] = 2
      BY <1>3, <1>4, <1>7
    <2>6. LoopInv'
      BY <2>1, <2>5, <1>2, <1>3, <1>7 DEF LoopInv
    <2>7. EDUInv'
      BY <2>1, <1>1, <1>7, EDUsSame DEF Ended
    <2> QED
      BY <2>1, <2>2, <2>3, <2>4, <2>6, <2>7, <1>1, <1>3, <1>5, <1>7, LaterStep DEF Up
  <1>8. CASE /\ cur <= Len(order) /\ stat' = [stat EXCEPT ![Item] = 2]
             /\ cur' = cur + 1 /\ UNCHANGED <<pc, shut, failed>>
    <2>1. pc' = "active"
      BY <1>1, <1>8
    <2>2. Later
      BY <2>1, <1>1, <1>8 DEF Later, Up
    <2>3. Flags'
      BY <1>1, <1>8, FlagsSame
    <2>4. /\ stat' \in [CB -> 0 .. 2]
          /\ \A i \in DOMAIN order : stat'[order[i]] = IF i = cur THEN 2 ELSE stat[order[i]]
          /\ \A c \in CB \ Placed : stat'[c] = 0
          /\ \A c \in CB : stat'[c] = IF c = Item THEN 2 ELSE stat[c]
      BY <1>3, <1>8, SetStat
    <2>5. \A i \in DOMAIN order : stat'[order[i]] = IF i < cur + 1 THEN 2 ELSE 1
      BY <2>4, <1>3, <1>4
    <2>6. StatInv'
      BY <2>4, <2>5, <1>2, <1>3 DEF StatInv
    <2>7. LoopInv'
      BY <2>1, <2>5, <1>2, <1>3, <1>8 DEF LoopInv
    <2>8. EDUInv'
      BY <2>1, <2>4, <1>1, EDUsSame DEF Ended
    <2> QED
      BY <2>1, <2>2, <2>3, <2>4, <2>6, <2>7, <2>8, <1>1, <1>3, <1>5, <1>8, LaterStep DEF Up
  <1> QED
    BY <1>6, <1>7, <1>8 DEF ActiveCB

(* The EDUs are started when every CB is active. *)
LEMMA PostStep == ASSUME EngineInv, PostActive PROVE EngineInv'
  <1>1. pc = "post" /\ stat' = stat /\ UNCHANGED start /\ UNCHANGED <<hung, normalStop>>
    BY DEF PostActive
  <1>2. order' = order /\ Placed' = Placed
    BY <1>1, StartSame
  <1>3. /\ Len(order) \in Nat /\ DOMAIN order = 1 .. Len(order) /\ cur \in 1 .. Len(order) + 1
        /\ Len(order) <= N /\ N \in Nat /\ \A i \in DOMAIN order : order[i] \in CB
    BY <1>1, StartTypes DEF EngineInv, LoopInv
  <1>4. \A i \in DOMAIN order : stat[order[i]] = 2
    BY <1>1 DEF EngineInv, LoopInv
  <1>5. stat \in [CB -> 0 .. 2] /\ edu \in [CB -> {"none", "run", "gone"}]
    BY DEF EngineInv, TypeOK
  <1>6. StatInv'
    BY <1>1, <1>2 DEF EngineInv, StatInv
  <1>7. CASE cur > Len(order) /\ StopFor("post start") /\ UNCHANGED edu
    <2>1. Aborts("post start")
      BY <1>7, <1>1 DEF PostActive, Aborts, Ended
    <2> QED
      BY <2>1, StopForStep
  <1>8. CASE cur <= Len(order) /\ StopFor("start EDU") /\ UNCHANGED edu
    <2>1. Aborts("start EDU")
      BY <1>8, <1>1 DEF PostActive, Aborts, Ended
    <2> QED
      BY <2>1, StopForStep
  <1>9. CASE cur > Len(order) /\ pc' = "loop" /\ UNCHANGED <<cur, shut, failed>> /\ UNCHANGED edu
    <2>1. Later
      BY <1>1, <1>9 DEF Later, Up
    <2>2. Flags'
      BY <1>1, <1>9, FlagsSame
    <2>3. LoopInv'
      BY <1>1, <1>2, <1>4, <1>9 DEF LoopInv
    <2>4. EDUInv'
      BY <1>1, <1>9, EDUsSame DEF Ended
    <2> QED
      BY <2>1, <2>2, <2>3, <2>4, <1>1, <1>3, <1>5, <1>6, <1>9, LaterStep DEF Up
  <1>10. CASE /\ cur <= Len(order) /\ \E e \in {"none", "run"} : edu' = [edu EXCEPT ![Item] = e]
              /\ cur' = cur + 1 /\ UNCHANGED <<pc, shut, failed>>
    <2>1. pc' = "post"
      BY <1>1, <1>10
    <2>2. Later
      BY <2>1, <1>1, <1>10 DEF Later, Up
    <2>3. Flags'
      BY <1>1, <1>10, FlagsSame
    <2>4. PICK e \in {"none", "run"} : edu' = [edu EXCEPT ![Item] = e]
      BY <1>10
    <2>5. Item \in CB /\ stat[Item] = 2
      BY <1>3, <1>4, <1>10 DEF Item
    <2>6. /\ edu' \in [CB -> {"none", "run", "gone"}]
          /\ \A c \in CB : c # Item => edu'[c] = edu[c]
      BY <2>4, <2>5, <1>5
    <2>7. LoopInv'
      BY <2>1, <1>1, <1>2, <1>3, <1>4, <1>10 DEF LoopInv
    <2>8. EDUInv'
      <3>1. normalStop
        BY <1>1 DEF EngineInv, EDUInv, Ended
      <3>2. normalStop'
        BY <3>1, <1>1, Zenon
      <3>3. \A c \in CB : edu[c] = "run" => stat[c] > 0
        BY <3>1 DEF EngineInv, EDUInv, EDUSafe
      <3>4. \A c \in CB : edu'[c] = "run" => stat'[c] > 0
        BY <3>3, <2>5, <2>6, <1>1, <1>5
      <3>5. EDUSafe' /\ ExitClean'
        BY <3>4, <2>1 DEF EDUSafe, ExitClean
      <3> QED
        BY <3>2, <3>5, <2>1 DEF EDUInv
    <2> QED
      BY <2>1, <2>2, <2>3, <2>6, <2>7, <2>8, <1>1, <1>3, <1>5, <1>6, <1>10, LaterStep DEF Up
  <1> QED
    BY <1>7, <1>8, <1>9, <1>10 DEF PostActive

(* The steps of the others: they change no CB and no position. *)
Aside == UNCHANGED <<deps, stack, flag, order, stat, pc, cur, failed, normalStop>>

LEMMA AsideStep ==
  ASSUME EngineInv, Aside, Flags', edu' \in [CB -> {"none", "run", "gone"}],
         \A c \in CB : edu'[c] = "run" => edu[c] = "run"
  PROVE  EngineInv'
  <1>1. /\ deps' = deps /\ stack' = stack /\ flag' = flag /\ order' = order
        /\ stat' = stat /\ pc' = pc /\ cur' = cur
    BY DEF Aside
  <1>2. normalStop' = normalStop /\ failed' = failed
    BY DEF Aside
  <1>3. Later /\ Placed' = Placed
    BY <1>1, <1>2 DEF Later, start, Placed
  <1>4. StatInv'
    BY <1>1, <1>3 DEF EngineInv, StatInv
  <1>5. LoopInv'
    BY <1>1 DEF EngineInv, LoopInv
  <1>6. EDUInv'
    <2>1. EDUInv
      BY DEF EngineInv
    <2>2. EDUSafe'
      BY <2>1, <1>1, <1>2 DEF EDUInv, EDUSafe
    <2>3. ExitClean'
      BY <2>1, <1>1 DEF EDUInv, ExitClean
    <2> QED
      BY <2>1, <2>2, <2>3, <1>1, <1>2 DEF EDUInv
  <1>7. /\ stat' \in [CB -> 0 .. 2] /\ cur' \in 0 .. N + 1
        /\ pc' \in {"start", "check", "deactive", "edus", "fini"} \cup Up \cup Ended
    BY <1>1 DEF EngineInv, TypeOK
  <1> QED
    BY <1>3, <1>4, <1>5, <1>6, <1>7, LaterStep, Zenon

LEMMA ShutdownStep == ASSUME EngineInv, ShutdownNode PROVE EngineInv'
  <1>1. Aside /\ edu' = edu
    BY DEF ShutdownNode, Aside, start
  <1>2. Flags'
    <2>1. shut' = TRUE /\ hung' = hung /\ normalStop' = normalStop
      BY DEF ShutdownNode
    <2> QED
      BY <2>1, FlagsSame, Zenon DEF Flags
  <1>3. edu' \in [CB -> {"none", "run", "gone"}]
    BY <1>1 DEF EngineInv, TypeOK
  <1> QED
    BY <1>1, <1>2, <1>3, AsideStep

LEMMA EDUEndsStep == ASSUME EngineInv, NEW c \in CB, EDUEnds(c) PROVE EngineInv'
  <1>1. Aside /\ edu' = [edu EXCEPT ![c] = "gone"]
    BY DEF EDUEnds, Aside, start
  <1>2. Flags'
    <2>1. shut' = TRUE /\ hung' = hung /\ normalStop' = normalStop
      BY DEF EDUEnds
    <2> QED
      BY <2>1, FlagsSame, Zenon DEF Flags
  <1>3. edu \in [CB -> {"none", "run", "gone"}]
    BY DEF EngineInv, TypeOK
  <1>4. /\ edu' \in [CB -> {"none", "run", "gone"}]
        /\ \A d \in CB : edu'[d] = "run" => edu[d] = "run"
    BY <1>1, <1>3
  <1> QED
    BY <1>1, <1>2, <1>4, AsideStep

LEMMA HangStep == ASSUME EngineInv, Hang PROVE EngineInv'
  <1>1. Aside /\ edu' = edu
    BY DEF Hang, Aside, start
  <1>2. Flags'
    <2>1. shut' = shut /\ hung' = TRUE /\ normalStop' = normalStop
      BY DEF Hang
    <2> QED
      BY <2>1, FlagsSame, Zenon DEF Flags
  <1>3. edu' \in [CB -> {"none", "run", "gone"}]
    BY <1>1 DEF EngineInv, TypeOK
  <1> QED
    BY <1>1, <1>2, <1>3, AsideStep


LEMMA RunLoopStep == ASSUME EngineInv, RunLoop PROVE EngineInv'
  <1>1. /\ pc = "loop" /\ pc' = "deactive" /\ cur' = Len(order) /\ stat' = stat /\ edu' = edu
        /\ UNCHANGED start
    BY DEF RunLoop
  <1>2. UNCHANGED <<shut, hung, normalStop>> /\ UNCHANGED normalStop /\ failed' = failed
    BY DEF RunLoop
  <1>3. order' = order /\ Placed' = Placed
    BY <1>1, StartSame
  <1>4. Later
    BY <1>1, <1>2 DEF Later, Up
  <1>5. Flags'
    BY <1>2, FlagsSame
  <1>6. StatInv'
    BY <1>1, <1>3 DEF EngineInv, StatInv
  <1>7. LoopInv'
    BY <1>1, <1>3, StartTypes DEF LoopInv
  <1>8. EDUInv'
    BY <1>1, <1>2, EDUsSame DEF Ended
  <1>9. /\ stat' \in [CB -> 0 .. 2] /\ edu' \in [CB -> {"none", "run", "gone"}]
        /\ cur' \in 0 .. N + 1
    BY <1>1, StartTypes DEF EngineInv, TypeOK
  <1> QED
    BY <1>1, <1>4, <1>5, <1>6, <1>7, <1>8, <1>9, LaterStep

-----------------------------------------------------------------------------
(* destory. *)

(* A process that has ended keeps nothing but the promise of a clean exit. *)
LEMMA EndStep ==
  ASSUME EngineInv, UNCHANGED <<start, stat, edu, cur, shut, failed, hung, normalStop>>,
         pc' \in Ended, ExitClean'
  PROVE  EngineInv'
  <1>1. UNCHANGED start /\ stat' = stat /\ edu' = edu /\ cur' = cur
    OBVIOUS
  <1>2. UNCHANGED <<shut, hung, normalStop>> /\ normalStop' = normalStop /\ failed' = failed
    OBVIOUS
  <1>3. order' = order /\ Placed' = Placed
    BY <1>1, StartSame
  <1>4. Later
    BY <1>1, <1>2 DEF Later, Up, Ended
  <1>5. Flags'
    BY <1>2, FlagsSame
  <1>6. StatInv'
    BY <1>1, <1>3 DEF EngineInv, StatInv
  <1>7. LoopInv'
    BY DEF LoopInv, Ended
  <1>8. EDUInv'
    <2>1. EDUSafe'
      BY <1>1, <1>2 DEF EngineInv, EDUInv, EDUSafe
    <2> QED
      BY <2>1 DEF EDUInv, Ended
  <1>9. /\ stat' \in [CB -> 0 .. 2] /\ edu' \in [CB -> {"none", "run", "gone"}]
        /\ cur' \in 0 .. N + 1
    BY <1>1 DEF EngineInv, TypeOK
  <1> QED
    BY <1>1, <1>4, <1>5, <1>6, <1>7, <1>8, <1>9, LaterStep

LEMMA DeadCheckStep == ASSUME EngineInv, DeadCheck PROVE EngineInv'
  <1>1. UNCHANGED <<start, stat, edu, cur, shut, failed, hung, normalStop>> /\ pc' = "panic"
    BY DEF DeadCheck
  <1>2. pc' \in Ended /\ ExitClean'
    BY <1>1 DEF Ended, ExitClean
  <1> QED
    BY <1>1, <1>2, EndStep

LEMMA FinishStep == ASSUME EngineInv, Finish PROVE EngineInv'
  <1>1. /\ UNCHANGED <<start, stat, edu, cur, shut, failed, hung, normalStop>>
        /\ pc = "fini" /\ cur = 0 /\ stat' = stat /\ edu' = edu
    BY DEF Finish
  <1>2. pc' = IF ~normalStop /\ \E c \in CB : edu[c] = "run" THEN "panic" ELSE "exit"
    BY DEF Finish
  <1>3. \A c \in CB : stat[c] = 0
    <2>1. \A i \in DOMAIN order : stat[order[i]] = 0
      BY <1>1, StartTypes DEF EngineInv, LoopInv
    <2>2. \A c \in CB \ Placed : stat[c] = 0
      BY DEF EngineInv, StatInv
    <2> QED
      BY <2>1, <2>2 DEF Placed
  <1>4. ASSUME pc' = "exit" PROVE \A c \in CB : edu[c] # "run"
    <2>1. normalStop => \A c \in CB : edu[c] # "run"
      BY <1>1 DEF EngineInv, EDUInv
    <2>2. ~(~normalStop /\ \E c \in CB : edu[c] = "run")
      BY <1>2, <1>4
    <2> QED
      BY <2>1, <2>2
  <1>5. ExitClean'
    BY <1>1, <1>3, <1>4 DEF ExitClean
  <1>6. pc' \in Ended
    BY <1>2 DEF Ended
  <1> QED
    BY <1>1, <1>5, <1>6, EndStep

LEMMA DeactiveStep == ASSUME EngineInv, DeactiveCB PROVE EngineInv'
  <1>1. pc = "deactive" /\ edu' = edu /\ UNCHANGED start
    BY DEF DeactiveCB
  <1>2. UNCHANGED <<shut, hung, normalStop>> /\ UNCHANGED normalStop /\ failed' = failed
    BY DEF DeactiveCB
  <1>3. order' = order /\ Placed' = Placed
    BY <1>1, StartSame
  <1>4. /\ Len(order) \in Nat /\ DOMAIN order = 1 .. Len(order) /\ cur \in 0 .. Len(order)
        /\ Len(order) <= N /\ N \in Nat /\ \A i \in DOMAIN order : order[i] \in CB
    BY <1>1, StartTypes DEF EngineInv, LoopInv, TypeOK
  <1>5. \A i \in DOMAIN order : i > cur => stat[order[i]] <= 1
    BY <1>1 DEF EngineInv, LoopInv
  <1>6. stat \in [CB -> 0 .. 2] /\ edu' \in [CB -> {"none", "run", "gone"}]
    BY <1>1 DEF EngineInv, TypeOK
  <1>7. \A c \in CB \ Placed : stat[c] = 0
    BY DEF EngineInv, StatInv
  <1>8. \A i, j \in DOMAIN order : i < j => stat[order[i]] >= stat[order[j]]
    BY DEF EngineInv, StatInv
  <1>9. Flags'
    BY <1>2, FlagsSame
  <1>10. CASE cur = 0
    <2>1. pc' = "edus" /\ stat' = stat /\ cur' = cur
      BY <1>10 DEF DeactiveCB
    <2>2. Later
      BY <2>1, <1>1, <1>2 DEF Later, Up
    <2>3. StatInv'
      BY <2>1, <1>3 DEF EngineInv, StatInv
    <2>4. \A c \in CB : stat[c] <= 1
      <3>1. \A i \in DOMAIN order : stat[order[i]] <= 1
        BY <1>4, <1>5, <1>10
      <3> QED
        BY <3>1, <1>7 DEF Placed
    <2>5. LoopInv'
      BY <2>1, <2>4 DEF LoopInv
    <2>6. EDUInv'
      BY <2>1, <1>1, <1>2, EDUsSame DEF Ended
    <2> QED
      BY <2>1, <2>2, <2>3, <2>5, <2>6, <1>4, <1>6, <1>9, LaterStep
  <1>11. CASE cur # 0
    <2> DEFINE v == IF stat[Item] = 2 THEN 1 ELSE stat[Item]
    <2>1. pc' = "deactive" /\ cur' = cur - 1 /\ cur \in DOMAIN order /\ Item = order[cur] /\ Item \in CB
      BY <1>1, <1>4, <1>11 DEF DeactiveCB, Item
    <2>2. v \in 0 .. 2 /\ v <= 1 /\ v <= stat[order[cur]] /\ (stat[order[cur]] > 0 => v > 0)
          /\ (stat[order[cur]] # v => v = 1)
      BY <2>1, <1>6
    <2>3. stat' = [stat EXCEPT ![Item] = v]
      BY <1>11 DEF DeactiveCB
    <2> HIDE DEF v
    <2>4. /\ stat' \in [CB -> 0 .. 2]
          /\ \A i \in DOMAIN order : stat'[order[i]] = IF i = cur THEN v ELSE stat[order[i]]
          /\ \A c \in CB \ Placed : stat'[c] = 0
          /\ \A c \in CB : stat'[c] = IF c = Item THEN v ELSE stat[c]
      BY <2>1, <2>2, <2>3, SetStat
    <2>5. Later
      BY <2>1, <1>1, <1>2 DEF Later, Up
    <2>6. \A i \in DOMAIN order : stat[order[i]] \in 0 .. 2
      BY <1>4, <1>6
    <2>7. \A i, j \in DOMAIN order : i < j => stat'[order[i]] >= stat'[order[j]]
      <3> SUFFICES ASSUME NEW i \in DOMAIN order, NEW j \in DOMAIN order, i < j
                   PROVE  stat'[order[i]] >= stat'[order[j]]
        OBVIOUS
      <3>1. stat[order[i]] >= stat[order[j]] /\ stat[order[i]] \in 0 .. 2 /\ stat[order[j]] \in 0 .. 2
        BY <1>8, <2>6
      <3>2. CASE i = cur
        <4>1. j # cur /\ stat[order[j]] <= 1
          BY <3>2, <1>4, <1>5
        <4> QED
          BY <4>1, <3>1, <3>2, <2>2, <2>4
      <3>3. CASE i # cur
        BY <3>1, <3>3, <2>2, <2>4
      <3> QED
        BY <3>2, <3>3
    <2>8. StatInv'
      BY <2>4, <2>7, <1>3 DEF StatInv
    <2>9. \A i \in DOMAIN order : i > cur - 1 => stat'[order[i]] <= 1
      BY <2>2, <2>4, <1>4, <1>5
    <2>10. LoopInv'
      BY <2>1, <2>9, <1>3, <1>4 DEF LoopInv
    <2>11. EDUInv'
      <3>1. \A c \in CB : stat[c] > 0 => stat'[c] > 0
        BY <2>1, <2>2, <2>4
      <3> QED
        BY <3>1, <2>1, <1>1, <1>2, EDUsSame DEF Ended
    <2> QED
      BY <2>1, <2>4, <2>5, <2>8, <2>10, <2>11, <1>4, <1>6, <1>9, LaterStep
  <1> QED
    BY <1>10, <1>11

LEMMA StopEDUsStep == ASSUME EngineInv, StopEDUs PROVE EngineInv'
  <1>1. /\ pc = "edus" /\ pc' = "fini" /\ cur' = Len(order) /\ stat' = stat /\ edu' = edu
        /\ UNCHANGED start
    BY DEF StopEDUs
  <1>2. shut' = shut /\ hung' = hung /\ failed' = failed
    BY DEF StopEDUs
  <1>3. normalStop' = \A c \in CB : edu[c] # "run"
    BY DEF StopEDUs
  <1>4. order' = order /\ Placed' = Placed
    BY <1>1, StartSame
  <1>5. Later
    BY <1>1, <1>2 DEF Later, Up
  <1>6. Flags'
    <2>1. normalStop' \in BOOLEAN
      BY <1>3, Zenon
    <2> QED
      BY <2>1, <1>2, FlagsSame, Zenon DEF Flags
  <1>7. StatInv'
    BY <1>1, <1>4 DEF EngineInv, StatInv
  <1>8. LoopInv'
    BY <1>1, <1>4, StartTypes DEF EngineInv, LoopInv
  <1>9. EDUInv'
    <2>1. normalStop' => \A c \in CB : edu'[c] # "run"
      BY <1>1, <1>3
    <2> QED
      BY <2>1, <1>1 DEF EDUInv, EDUSafe, ExitClean
  <1>10. /\ stat' \in [CB -> 0 .. 2] /\ edu' \in [CB -> {"none", "run", "gone"}]
         /\ cur' \in 0 .. N + 1
    BY <1>1, StartTypes DEF EngineInv, TypeOK
  <1> QED
    BY <1>1, <1>5, <1>6, <1>7, <1>8, <1>9, <1>10, LaterStep

LEMMA FiniStep == ASSUME EngineInv, FiniCB PROVE EngineInv'
  <1>1. /\ pc = "fini" /\ pc' = "fini" /\ cur > 0 /\ cur' = cur - 1 /\ edu' = edu
        /\ UNCHANGED start
    BY DEF FiniCB
  <1>2. UNCHANGED <<shut, hung, normalStop>> /\ normalStop' = normalStop /\ failed' = failed
    BY DEF FiniCB
  <1>3. order' = order /\ Placed' = Placed
    BY <1>1, StartSame
  <1>4. /\ Len(order) \in Nat /\ DOMAIN order = 1 .. Len(order) /\ cur \in DOMAIN order
        /\ Len(order) <= N /\ N \in Nat /\ \A i \in DOMAIN order : order[i] \in CB
    BY <1>1, StartTypes DEF EngineInv, LoopInv, TypeOK
  <1>5. \A i \in DOMAIN order : i > cur => stat[order[i]] = 0
    BY <1>1 DEF EngineInv, LoopInv
  <1>6. stat \in [CB -> 0 .. 2] /\ edu' \in [CB -> {"none", "run", "gone"}]
    BY <1>1 DEF EngineInv, TypeOK
  <1>7. \A c \in CB : stat[c] <= 1
    BY <1>1 DEF EngineInv, LoopInv
  <1>8. stat' = [stat EXCEPT ![Item] = 0]
    <2>1. Item \in CB
      BY <1>4 DEF Item
    <2>2. stat[Item] \in 0 .. 1
      BY <2>1, <1>6, <1>7
    <2> DEFINE v == IF stat[Item] = 1 THEN 0 ELSE stat[Item]
    <2>3. v = 0
      BY <2>2
    <2>4. stat' = [stat EXCEPT ![Item] = v]
      BY DEF FiniCB
    <2> HIDE DEF v
    <2> QED
      BY <2>3, <2>4
  <1>9. /\ stat' \in [CB -> 0 .. 2]
        /\ \A i \in DOMAIN order : stat'[order[i]] = IF i = cur THEN 0 ELSE stat[order[i]]
        /\ \A c \in CB \ Placed : stat'[c] = 0
        /\ \A c \in CB : stat'[c] = IF c = Item THEN 0 ELSE stat[c]
    BY <1>4, <1>8, SetStat
  <1>10. Later
    BY <1>1, <1>2 DEF Later, Up
  <1>11. Flags'
    BY <1>2, FlagsSame
  <1>12. \A i \in DOMAIN order : i > cur - 1 => stat'[order[i]] = 0
    BY <1>4, <1>5, <1>9
  <1>13. StatInv'
    <2>1. \A i \in DOMAIN order : stat[order[i]] \in 0 .. 2
      BY <1>4, <1>6
    <2>2. \A i, j \in DOMAIN order : i < j => stat[order[i]] >= stat[order[j]]
      BY DEF EngineInv, StatInv
    <2>3. \A i, j \in DOMAIN order : i < j => stat'[order[i]] >= stat'[order[j]]
      BY <2>1, <2>2, <1>4, <1>5, <1>9
    <2> QED
      BY <2>3, <1>3, <1>9 DEF StatInv
  <1>14. LoopInv'
    BY <1>1, <1>3, <1>4, <1>6, <1>7, <1>9, <1>12 DEF LoopInv
  <1>15. EDUInv'
    <2>1. normalStop' => \A c \in CB : edu'[c] # "run"
      BY <1>1, <1>2 DEF EngineInv, EDUInv
    <2> QED
      BY <2>1, <1>1 DEF EDUInv, EDUSafe, ExitClean
  <1>16. cur' \in 0 .. N + 1
    BY <1>1, <1>4
  <1> QED
    BY <1>1, <1>6, <1>9, <1>10, <1>11, <1>13, <1>14, <1>15, <1>16, LaterStep


-----------------------------------------------------------------------------
LEMMA EngineStep == EngineInv /\ [Next]_vars => EngineInv'
  <1> SUFFICES ASSUME EngineInv, [Next]_vars PROVE EngineInv'
    OBVIOUS
  <1>1. CASE MainStep
    <2>1. CASE Prepare
      BY <2>1, PrepareStep
    <2>2. CASE CheckNext
      BY <2>2, CheckNextStep
    <2>3. CASE \E d \in CB \cup {Missing} : CheckDependency(d)
      BY <2>3, CheckDependencyStep
    <2>4. CASE CheckPush
      BY <2>4, CheckPushStep
    <2>5. CASE InitCB
      BY <2>5, InitStep
    <2>6. CASE ActiveCB
      BY <2>6, ActiveStep
    <2>7. CASE PostActive
      BY <2>7, PostStep
    <2>8. CASE RunLoop
      BY <2>8, RunLoopStep
    <2>9. CASE DeactiveCB
      BY <2>9, DeactiveStep
    <2>10. CASE StopEDUs
      BY <2>10, StopEDUsStep
    <2>11. CASE FiniCB
      BY <2>11, FiniStep
    <2>12. CASE Finish
      BY <2>12, FinishStep
    <2> QED
      BY <1>1, <2>1, <2>2, <2>3, <2>4, <2>5, <2>6, <2>7, <2>8, <2>9, <2>10, <2>11, <2>12
      DEF MainStep
  <1>2. CASE ShutdownNode
    BY <1>2, ShutdownStep
  <1>3. CASE Hang
    BY <1>3, HangStep
  <1>4. CASE DeadCheck
    BY <1>4, DeadCheckStep
  <1>5. CASE \E c \in CB : EDUEnds(c)
    BY <1>5, EDUEndsStep
  <1>6. CASE UNCHANGED vars
    <2>1. Aside /\ edu' = edu /\ UNCHANGED <<shut, hung, normalStop>>
      BY <1>6 DEF vars, Aside
    <2>2. Flags'
      BY <2>1, FlagsSame
    <2>3. edu' \in [CB -> {"none", "run", "gone"}]
      BY <2>1 DEF EngineInv, TypeOK
    <2> QED
      BY <2>1, <2>2, <2>3, AsideStep
  <1> QED
    BY <1>1, <1>2, <1>3, <1>4, <1>5, <1>6 DEF Next

(* Whatever the CBs depend on, wherever the start fails and whenever the   *)
(* node is told to stop: EngineInv, on which the promises of the container *)
(* and the controller rest.                                                *)
THEOREM EngineInvariance == Spec => []EngineInv
  BY EngineInit, EngineStep, PTL DEF Spec

(* What the dependency check of _pmdContainer accepts and refuses. *)
LEMMA CheckIsExact == EngineInv => CheckExact
  <1> SUFFICES ASSUME EngineInv PROVE CheckExact
    OBVIOUS
  <1>1. ASSUME pc \in Up PROVE ~Cyclic /\ ~Absent /\ Len(order) = N
    <2>1. stack = <<>> /\ CB \subseteq flag
      BY <1>1 DEF EngineInv, CheckInv
    <2>2. Calls = {}
      BY <2>1 DEF Calls
    <2>3. CB \subseteq Placed
      BY <2>1, <2>2 DEF EngineInv, StackInv
    <2>4. order \in Seq(CB) /\ OrderInv
      BY DEF EngineInv, TypeOK
    <2>5. ~Cyclic /\ ~Absent
      BY <2>3, <2>4, PlacedIsOrdered
    <2>6. Len(order) = N
      BY <2>3, <2>4, OrderLength DEF OrderInv, Placed
    <2> QED
      BY <2>5, <2>6
  <1>2. /\ failed = "endless loop" => Cyclic
        /\ failed = "not found" => Absent
    BY DEF EngineInv, CheckInv
  <1>3. OrderInv
    BY DEF EngineInv
  <1> QED
    BY <1>1, <1>2, <1>3 DEF CheckExact, OrderInv

(* A CB that is up is in _vecCB, behind all it depends on, and no CB of    *)
(* _vecCB is further than one in front of it.                              *)
LEMMA IsLayered == EngineInv => Layered
  <1> SUFFICES ASSUME EngineInv, NEW c \in CB, stat[c] > 0, NEW d \in deps[c]
               PROVE  d \in CB /\ stat[d] >= stat[c]
    BY DEF Layered
  <1>1. c \in Placed
    <2>1. c \notin Placed => stat[c] = 0
      BY DEF EngineInv, StatInv
    <2> QED
      BY <2>1
  <1>2. PICK i \in DOMAIN order : order[i] = c
    BY <1>1 DEF Placed
  <1>3. PICK j \in 1 .. i - 1 : order[j] = d
    BY <1>2 DEF EngineInv, OrderInv
  <1>4. j \in DOMAIN order /\ j < i /\ order[j] \in CB
    BY <1>3, StartTypes
  <1>5. stat[order[j]] >= stat[order[i]]
    BY <1>4 DEF EngineInv, StatInv
  <1> QED
    BY <1>2, <1>3, <1>4, <1>5

(* For any number of CBs and any dependencies between them: the dependency *)
(* check accepts exactly the graphs that have an order, no CB is ever      *)
(* further than one it depends on, no EDU runs the code of a CB that is    *)
(* not initialised, and run() returns only with all of it taken down.      *)
THEOREM StartStopIsSound == Spec => []StartStopSound
  <1>1. EngineInv => StartStopSound
    BY CheckIsExact, IsLayered, Zenon DEF EngineInv, EDUInv, StartStopSound
  <1> QED
    BY <1>1, EngineInvariance, PTL

-----------------------------------------------------------------------------
(***************************************************************************)
(* The pipes of the shell: calls of nova -s and back ends, any number of   *)
(* them at the same time, each killed at any point.                        *)
(***************************************************************************)
(* The points at which a process has a pipe open, or waits in open for the *)
(* other side of it.                                                       *)
Holding == {"closeWait", "write", "closeF2b", "read",
            "monitor", "readF2b", "eval", "errno", "closeB2f"}

ShellTypes ==
  /\ DOMAIN at = Proc /\ blocked \subseteq Proc
  /\ rd \in [Pipe -> SUBSET Proc] /\ wr \in [Pipe -> SUBSET Proc]
  /\ alive \subseteq Shell /\ waitName \in [Shell -> Nova \cup {None}]
  /\ shell \in [Back -> Shell \cup {None}]

(* A process has an end of at most one pipe, and only at these points. *)
HasEnd(p, i) == p \in rd[i] \/ p \in wr[i]

EndsInv ==
  \A p \in Proc, i \in Pipe : HasEnd(p, i) =>
    at[p] \in Holding /\ \A j \in Pipe : HasEnd(p, j) => j = i

WaitInv ==
  \A p \in blocked : \E i \in Pipe : \/ p \in rd[i] /\ wr[i] = {}
                                     \/ p \in wr[i] /\ rd[i] = {}

(* What the point of a back end says of its names. *)
NamesOf(k) ==
  /\ at[k] = "off" => <<"f2b", k>> \notin names /\ <<"b2f", k>> \notin names
  /\ at[k] = "rmB2f" => <<"f2b", k>> \notin names
  /\ at[k] = "end" => \/ k \in cut
                      \/ <<"f2b", k>> \notin names /\ <<"b2f", k>> \notin names
  /\ at[k] # "new"
  /\ at[k] # "off" => shell[k] \in Shell

NamesInv == /\ names \subseteq {"f2b", "b2f"} \X Back
            /\ \A k \in Back : NamesOf(k)

PipeInv == ShellTypes /\ EndsInv /\ WaitInv /\ NamesInv

-----------------------------------------------------------------------------
(* A step of one process: where the others are does not change. *)
Moved(p) == /\ DOMAIN at' = Proc
            /\ \A q \in Proc : q # p => at'[q] = at[q]

EndsOK == /\ blocked \subseteq Proc
          /\ rd \in [Pipe -> SUBSET Proc] /\ wr \in [Pipe -> SUBSET Proc]
          /\ EndsInv /\ WaitInv

LEMMA GoesTo ==
  ASSUME DOMAIN at = Proc, NEW p \in Proc, NEW l, Goto(p, l)
  PROVE  Moved(p) /\ at'[p] = l
  BY DEF Goto, Moved

LEMMA EndsStay ==
  ASSUME EndsOK, NEW p \in Proc, Moved(p), UNCHANGED <<blocked, rd, wr>>,
         at[p] \in Holding => at'[p] \in Holding
  PROVE  EndsOK'
  BY DEF EndsOK, EndsInv, WaitInv, HasEnd, Moved

LEMMA ReaderOpens ==
  ASSUME EndsOK, NEW p \in Proc, Moved(p), NEW i \in Pipe, OpenRead(p, i), p \notin blocked,
         at[p] \notin Holding, at'[p] \in Holding
  PROVE  EndsOK'
  <1>1. /\ rd' \in [Pipe -> SUBSET Proc] /\ wr' = wr /\ rd'[i] = rd[i] \cup {p}
        /\ \A j \in Pipe \ {i} : rd'[j] = rd[j]
    BY DEF EndsOK, OpenRead
  <1>2. blocked' = IF wr[i] = {} THEN blocked \cup {p} ELSE blocked \ wr[i]
    BY DEF OpenRead
  <1>3. \A j \in Pipe : ~HasEnd(p, j)
    BY DEF EndsOK, EndsInv
  <1>4. EndsInv'
    <2> SUFFICES ASSUME NEW q \in Proc, NEW j \in Pipe, HasEnd(q, j)'
                 PROVE  at'[q] \in Holding /\ \A k \in Pipe : HasEnd(q, k)' => k = j
      BY DEF EndsInv
    <2>1. CASE q = p
      BY <1>1, <1>3, <2>1 DEF HasEnd
    <2>2. CASE q # p
      <3>1. \A k \in Pipe : HasEnd(q, k)' <=> HasEnd(q, k)
        BY <1>1, <2>2 DEF HasEnd
      <3> QED
        BY <2>2, <3>1 DEF EndsOK, EndsInv, Moved
    <2> QED
      BY <2>1, <2>2
  <1>5. WaitInv'
    <2> SUFFICES ASSUME NEW q \in blocked'
                 PROVE  \E j \in Pipe : \/ q \in rd'[j] /\ wr'[j] = {}
                                        \/ q \in wr'[j] /\ rd'[j] = {}
      BY DEF WaitInv
    <2>1. CASE q = p
      BY <1>1, <1>2, <2>1
    <2>2. CASE q # p
      <3>1. q \in blocked
        BY <1>2, <2>2
      <3>2. PICK j \in Pipe : (q \in rd[j] /\ wr[j] = {}) \/ (q \in wr[j] /\ rd[j] = {})
        BY <3>1 DEF EndsOK, WaitInv
      <3>3. CASE j = i
        BY <1>1, <1>2, <3>2, <3>3
      <3>4. CASE j # i
        BY <1>1, <3>2, <3>4
      <3> QED
        BY <3>3, <3>4
    <2> QED
      BY <2>1, <2>2
  <1> QED
    BY <1>1, <1>2, <1>4, <1>5 DEF EndsOK

LEMMA WriterOpens ==
  ASSUME EndsOK, NEW p \in Proc, Moved(p), NEW i \in Pipe, OpenWrite(p, i), p \notin blocked,
         at[p] \notin Holding, at'[p] \in Holding
  PROVE  EndsOK'
  <1>1. /\ wr' \in [Pipe -> SUBSET Proc] /\ rd' = rd /\ wr'[i] = wr[i] \cup {p}
        /\ \A j \in Pipe \ {i} : wr'[j] = wr[j]
    BY DEF EndsOK, OpenWrite
  <1>2. blocked' = IF rd[i] = {} THEN blocked \cup {p} ELSE blocked \ rd[i]
    BY DEF OpenWrite
  <1>3. \A j \in Pipe : ~HasEnd(p, j)
    BY DEF EndsOK, EndsInv
  <1>4. EndsInv'
    <2> SUFFICES ASSUME NEW q \in Proc, NEW j \in Pipe, HasEnd(q, j)'
                 PROVE  at'[q] \in Holding /\ \A k \in Pipe : HasEnd(q, k)' => k = j
      BY DEF EndsInv
    <2>1. CASE q = p
      BY <1>1, <1>3, <2>1 DEF HasEnd
    <2>2. CASE q # p
      <3>1. \A k \in Pipe : HasEnd(q, k)' <=> HasEnd(q, k)
        BY <1>1, <2>2 DEF HasEnd
      <3> QED
        BY <2>2, <3>1 DEF EndsOK, EndsInv, Moved
    <2> QED
      BY <2>1, <2>2
  <1>5. WaitInv'
    <2> SUFFICES ASSUME NEW q \in blocked'
                 PROVE  \E j \in Pipe : \/ q \in rd'[j] /\ wr'[j] = {}
                                        \/ q \in wr'[j] /\ rd'[j] = {}
      BY DEF WaitInv
    <2>1. CASE q = p
      BY <1>1, <1>2, <2>1
    <2>2. CASE q # p
      <3>1. q \in blocked
        BY <1>2, <2>2
      <3>2. PICK j \in Pipe : (q \in rd[j] /\ wr[j] = {}) \/ (q \in wr[j] /\ rd[j] = {})
        BY <3>1 DEF EndsOK, WaitInv
      <3>3. CASE j = i
        BY <1>1, <1>2, <3>2, <3>3
      <3>4. CASE j # i
        BY <1>1, <3>2, <3>4
      <3> QED
        BY <3>3, <3>4
    <2> QED
      BY <2>1, <2>2
  <1> QED
    BY <1>1, <1>2, <1>4, <1>5 DEF EndsOK

LEMMA EndsClose ==
  ASSUME EndsOK, NEW p \in Proc, Moved(p), Close(p, Pipe)
  PROVE  EndsOK'
  <1>1. /\ rd' = [i \in Pipe |-> rd[i] \ {p}] /\ wr' = [i \in Pipe |-> wr[i] \ {p}]
        /\ blocked' = blocked \ {p}
    BY DEF Close
  <1>2. rd' \in [Pipe -> SUBSET Proc] /\ wr' \in [Pipe -> SUBSET Proc]
    BY <1>1 DEF EndsOK
  <1>3. \A q \in Proc, i \in Pipe : HasEnd(q, i)' <=> q # p /\ HasEnd(q, i)
    BY <1>1 DEF HasEnd
  <1>4. EndsInv'
    BY <1>3 DEF EndsOK, EndsInv, Moved
  <1>5. WaitInv'
    <2> SUFFICES ASSUME NEW q \in blocked'
                 PROVE  \E j \in Pipe : \/ q \in rd'[j] /\ wr'[j] = {}
                                        \/ q \in wr'[j] /\ rd'[j] = {}
      BY DEF WaitInv
    <2>1. q \in blocked /\ q # p
      BY <1>1
    <2>2. PICK j \in Pipe : (q \in rd[j] /\ wr[j] = {}) \/ (q \in wr[j] /\ rd[j] = {})
      BY <2>1 DEF EndsOK, WaitInv
    <2> QED
      BY <1>1, <2>1, <2>2
  <1> QED
    BY <1>1, <1>2, <1>4, <1>5 DEF EndsOK

LEMMA PipeParts ==
  PipeInv <=> /\ EndsOK /\ NamesInv /\ DOMAIN at = Proc
              /\ alive \subseteq Shell /\ waitName \in [Shell -> Nova \cup {None}]
              /\ shell \in [Back -> Shell \cup {None}]
  BY DEF PipeInv, ShellTypes, EndsOK

(* What remains to be shown of a step of a front end, and of a back end. *)
LEMMA FrontKeeps ==
  ASSUME PipeInv, NEW f \in Nova, Moved(f), EndsOK', names' \subseteq names,
         waitName' \in [Shell -> Nova \cup {None}], UNCHANGED <<alive, shell, cut>>
  PROVE  PipeInv'
  <1>1. \A k \in Back : k \in Proc /\ at'[k] = at[k]
    BY ShellAssumption DEF Moved, Proc
  <1>2. NamesInv'
    BY <1>1, PipeParts DEF NamesInv, NamesOf
  <1> QED
    BY <1>2, PipeParts DEF Moved, PipeInv, ShellTypes, EndsOK

LEMMA BackKeeps ==
  ASSUME PipeInv, NEW k \in Back, Moved(k), EndsOK', NamesOf(k)', cut \subseteq cut',
         names' \subseteq names \cup ({"f2b", "b2f"} \X {k}),
         UNCHANGED <<alive, waitName, shell>>
  PROVE  PipeInv'
  <1>1. \A l \in Back : l \in Proc
    BY DEF Proc
  <1>2. ASSUME NEW l \in Back, l # k PROVE NamesOf(l)'
    <2>1. /\ <<"f2b", l>> \in names' => <<"f2b", l>> \in names
          /\ <<"b2f", l>> \in names' => <<"b2f", l>> \in names
      BY <1>2
    <2>2. at'[l] = at[l] /\ NamesOf(l)
      BY <1>1, <1>2, PipeParts DEF Moved, NamesInv
    <2> QED
      BY <2>1, <2>2 DEF NamesOf
  <1>3. NamesInv'
    BY <1>2, PipeParts DEF NamesInv
  <1> QED
    BY <1>3, PipeParts DEF Moved, PipeInv, ShellTypes, EndsOK

-----------------------------------------------------------------------------
(* Front ends *)

LEMMA FailKeeps ==
  ASSUME PipeInv, NEW p \in Proc, End(p)
  PROVE  Moved(p) /\ at'[p] = "end" /\ EndsOK'
  <1>1. Moved(p) /\ at'[p] = "end"
    BY PipeParts, GoesTo DEF End
  <1> QED
    BY <1>1, PipeParts, EndsClose DEF End

LEMMA FrontStepKeeps ==
  ASSUME PipeInv, NEW f \in Nova, clearDirty(f) \/ FrontStep(f) \/ KillFront(f)
  PROVE  PipeInv'
  <1>0. /\ f \in Proc /\ EndsOK /\ DOMAIN at = Proc /\ ShellOf[f] \in Shell
        /\ waitName \in [Shell -> Nova \cup {None}] /\ names \subseteq Pipe
    BY PipeParts, ShellAssumption DEF Proc, NamesInv, Pipe
  <1>1. CASE clearDirty(f)
    <2>1. Moved(f) /\ at[f] = "new"
      BY <1>0, <1>1, GoesTo DEF clearDirty, Runs
    <2>2. EndsOK'
      BY <1>0, <1>1, <2>1, EndsStay DEF clearDirty, pipes, Holding
    <2> QED
      BY <1>0, <1>1, <2>1, <2>2, FrontKeeps DEF clearDirty, front
  <1>2. CASE Find(f)
    <2>1. Moved(f) /\ at[f] = "find"
      BY <1>0, <1>2, GoesTo DEF Find, Runs
    <2>2. EndsOK'
      BY <1>0, <1>2, <2>1, EndsStay DEF Find, pipes, Holding
    <2> QED
      BY <1>0, <1>2, <2>1, <2>2, FrontKeeps DEF Find, front, dir
  <1>3. CASE Find2(f)
    <2>1. Moved(f) /\ at[f] = "find2"
      BY <1>0, <1>3, GoesTo DEF Find2, Runs
    <2>2. EndsOK'
      BY <1>0, <1>3, <2>1, EndsStay DEF Find2, pipes, Holding
    <2> QED
      BY <1>0, <1>3, <2>1, <2>2, FrontKeeps DEF Find2, front, dir
  <1>4. CASE Check(f)
    <2>1. names' \subseteq names /\ UNCHANGED <<alive, shell, cut, waitName>> /\ at[f] = "check"
      BY <1>4 DEF Check, front, Runs
    <2>2. CASE Fail(f)
      BY <1>0, <2>1, <2>2, FailKeeps, FrontKeeps DEF Fail
    <2>3. CASE UNCHANGED pipes /\ (Goto(f, "openF2b") \/ Goto(f, "mkwait"))
      <3>1. Moved(f)
        BY <1>0, <2>3, GoesTo
      <3>2. EndsOK'
        BY <1>0, <2>1, <2>3, <3>1, EndsStay DEF pipes, Holding
      <3> QED
        BY <1>0, <2>1, <3>1, <3>2, FrontKeeps
    <2> QED
      BY <1>4, <2>2, <2>3 DEF Check
  <1>5. CASE MkWait(f)
    <2>1. /\ UNCHANGED <<alive, shell, cut, names>> /\ at[f] = "mkwait"
          /\ waitName' \in [Shell -> Nova \cup {None}]
      BY <1>0, <1>5 DEF MkWait, front, Runs, waitLeft
    <2>2. CASE Fail(f)
      BY <1>0, <2>1, <2>2, FailKeeps, FrontKeeps DEF Fail
    <2>3. CASE UNCHANGED pipes /\ Goto(f, "exec")
      <3>1. Moved(f)
        BY <1>0, <2>3, GoesTo
      <3>2. EndsOK'
        BY <1>0, <2>1, <2>3, <3>1, EndsStay DEF pipes, Holding
      <3> QED
        BY <1>0, <2>1, <3>1, <3>2, FrontKeeps
    <2> QED
      BY <1>5, <2>2, <2>3 DEF MkWait
  <1>6. CASE Exec(f)
    <2>1. CASE rmWait(f) /\ Fail(f) /\ UNCHANGED shell
      <3>1. /\ UNCHANGED <<alive, shell, cut, names>>
            /\ waitName' \in [Shell -> Nova \cup {None}]
        BY <1>0, <1>6, <2>1 DEF Exec, rmWait
      <3> QED
        BY <1>0, <2>1, <3>1, FailKeeps, FrontKeeps DEF Fail
    <2>2. ASSUME NEW k \in Back, at[k] = "off",
                 at' = [at EXCEPT ![f] = "connWait", ![k] = "init"],
                 shell' = [shell EXCEPT ![k] = ShellOf[f]], UNCHANGED <<pipes, dir>>
          PROVE  PipeInv'
      <3>1. UNCHANGED <<alive, cut>> /\ at[f] = "exec"
        BY <1>6 DEF Exec, Runs
      <3>2. f # k /\ k \in Proc /\ \A l \in Back : l # f
        BY ShellAssumption DEF Proc
      <3>3. /\ DOMAIN at' = Proc /\ at'[k] = "init" /\ at'[f] = "connWait"
            /\ \A q \in Proc \ {f, k} : at'[q] = at[q]
        BY <1>0, <2>2, <3>2
      <3>4. /\ shell' \in [Back -> Shell \cup {None}] /\ shell'[k] \in Shell
            /\ \A l \in Back \ {k} : shell'[l] = shell[l]
        BY <1>0, <2>2, PipeParts
      <3>5. EndsOK'
        <4>1. \A i \in Pipe : ~HasEnd(f, i) /\ ~HasEnd(k, i)
          BY <1>0, <2>2, <3>1, <3>2 DEF EndsOK, EndsInv, Holding
        <4>2. EndsInv'
          BY <1>0, <2>2, <3>3, <4>1 DEF EndsOK, EndsInv, HasEnd, pipes
        <4> QED
          BY <1>0, <2>2, <4>2 DEF EndsOK, WaitInv, pipes
      <3>6. \A l \in Back : NamesOf(l)'
        <4>1. NamesOf(k)'
          BY <3>3, <3>4 DEF NamesOf
        <4>2. ASSUME NEW l \in Back, l # k PROVE NamesOf(l)'
          <5>1. at'[l] = at[l] /\ shell'[l] = shell[l] /\ NamesOf(l)
            BY <3>2, <3>3, <3>4, <4>2, PipeParts DEF Proc, NamesInv
          <5> QED
            BY <2>2, <3>1, <5>1 DEF NamesOf, dir
        <4> QED
          BY <4>1, <4>2
      <3>7. NamesInv'
        BY <2>2, <3>6, PipeParts DEF NamesInv, dir
      <3> QED
        BY <1>0, <2>2, <3>1, <3>3, <3>4, <3>5, <3>7, PipeParts
           DEF PipeInv, ShellTypes, EndsOK, dir
    <2> QED
      BY <1>6, <2>1, <2>2 DEF Exec
  <1>7. CASE ConnWait(f)
    <2>1. UNCHANGED <<alive, shell, cut>> /\ at[f] = "connWait" /\ f \notin blocked
      BY <1>7 DEF ConnWait, front, Runs
    <2>2. CASE rmWait(f) /\ Fail(f)
      <3>1. waitName' \in [Shell -> Nova \cup {None}] /\ names' = names
        BY <1>0, <2>2 DEF rmWait
      <3> QED
        BY <1>0, <2>1, <2>2, <3>1, FailKeeps, FrontKeeps DEF Fail
    <2>3. CASE W(f) # None /\ OpenRead(f, <<"wait", W(f)>>) /\ Goto(f, "closeWait") /\ UNCHANGED dir
      <3>1. Moved(f) /\ at'[f] = "closeWait"
        BY <1>0, <2>3, GoesTo
      <3>2. <<"wait", W(f)>> \in Pipe
        BY <1>0, <2>3 DEF W, Pipe
      <3>3. EndsOK'
        BY <1>0, <2>1, <2>3, <3>1, <3>2, ReaderOpens DEF Holding
      <3> QED
        BY <1>0, <2>1, <2>3, <3>1, <3>3, FrontKeeps DEF dir
    <2> QED
      BY <1>7, <2>2, <2>3 DEF ConnWait
  <1>8. CASE CloseWait(f) \/ CloseF2b(f)
    <2>1. Moved(f) /\ Close(f, Pipe) /\ UNCHANGED <<alive, shell, cut, names, waitName>>
      BY <1>0, <1>8, GoesTo DEF CloseWait, CloseF2b, front, dir
    <2> QED
      BY <1>0, <2>1, EndsClose, FrontKeeps
  <1>9. CASE RmWait(f)
    <2>1. /\ Moved(f) /\ at[f] = "rmwait" /\ UNCHANGED <<alive, shell, cut, names, pipes>>
          /\ waitName' \in [Shell -> Nova \cup {None}]
      BY <1>0, <1>9, GoesTo DEF RmWait, front, rmWait, Runs
    <2>2. EndsOK'
      BY <1>0, <2>1, EndsStay DEF pipes, Holding
    <2> QED
      BY <1>0, <2>1, <2>2, FrontKeeps
  <1>10. CASE OpenF2b(f)
    <2>1. /\ UNCHANGED <<alive, shell, cut, names, waitName>>
          /\ at[f] = "openF2b" /\ f \notin blocked
      BY <1>10 DEF OpenF2b, front, Runs, dir
    <2>2. CASE Fail(f)
      BY <1>0, <2>1, <2>2, FailKeeps, FrontKeeps DEF Fail
    <2>3. CASE <<"f2b", bk[f]>> \in names /\ OpenWrite(f, <<"f2b", bk[f]>>) /\ Goto(f, "write")
      <3>1. Moved(f) /\ at'[f] = "write"
        BY <1>0, <2>3, GoesTo
      <3>2. EndsOK'
        BY <1>0, <2>1, <2>3, <3>1, WriterOpens DEF Holding
      <3> QED
        BY <1>0, <2>1, <3>1, <3>2, FrontKeeps
    <2> QED
      BY <1>10, <2>2, <2>3 DEF OpenF2b
  <1>11. CASE WriteF2b(f)
    <2>1. UNCHANGED <<alive, shell, cut, names, waitName>> /\ at[f] = "write"
      BY <1>11 DEF WriteF2b, front, Runs, dir
    <2>2. CASE Fail(f)
      BY <1>0, <2>1, <2>2, FailKeeps, FrontKeeps DEF Fail
    <2>3. CASE UNCHANGED <<blocked, rd, wr>> /\ Goto(f, "closeF2b")
      <3>1. Moved(f) /\ at'[f] = "closeF2b"
        BY <1>0, <2>3, GoesTo
      <3>2. EndsOK'
        BY <1>0, <2>3, <3>1, EndsStay DEF Holding
      <3> QED
        BY <1>0, <2>1, <3>1, <3>2, FrontKeeps
    <2> QED
      BY <1>11, <2>2, <2>3 DEF WriteF2b, Put
  <1>12. CASE OpenB2f(f)
    <2>1. /\ UNCHANGED <<alive, shell, cut, names, waitName>>
          /\ at[f] = "openB2f" /\ f \notin blocked
      BY <1>12 DEF OpenB2f, front, Runs, dir
    <2>2. CASE Fail(f)
      BY <1>0, <2>1, <2>2, FailKeeps, FrontKeeps DEF Fail
    <2>3. CASE <<"b2f", bk2[f]>> \in names /\ OpenRead(f, <<"b2f", bk2[f]>>) /\ Goto(f, "read")
      <3>1. Moved(f) /\ at'[f] = "read"
        BY <1>0, <2>3, GoesTo
      <3>2. EndsOK'
        BY <1>0, <2>1, <2>3, <3>1, ReaderOpens DEF Holding
      <3> QED
        BY <1>0, <2>1, <3>1, <3>2, FrontKeeps
    <2> QED
      BY <1>12, <2>2, <2>3 DEF OpenB2f
  <1>13. CASE Read(f)
    <2>1. UNCHANGED <<alive, shell, cut, names, waitName, at, blocked, rd, wr>>
      BY <1>13 DEF Read, front, dir, Take
    <2>2. Moved(f)
      BY <1>0, <2>1 DEF Moved
    <2>3. EndsOK'
      BY <1>0, <2>1, <2>2, EndsStay
    <2> QED
      BY <1>0, <2>1, <2>2, <2>3, FrontKeeps
  <1>14. CASE ReadEof(f) \/ KillFront(f)
    <2>1. End(f) /\ UNCHANGED <<alive, shell, cut, names, waitName>>
      BY <1>14 DEF ReadEof, KillFront, Fail, front, dir
    <2> QED
      BY <1>0, <2>1, FailKeeps, FrontKeeps
  <1> QED
    BY <1>1, <1>2, <1>3, <1>4, <1>5, <1>6, <1>7, <1>8, <1>9, <1>10, <1>11, <1>12, <1>13, <1>14
       DEF FrontStep

-----------------------------------------------------------------------------
(* Back ends *)

LEMMA BackEnds ==
  ASSUME PipeInv, NEW k \in Back, End(k), cut' = cut \cup {k}, at[k] # "off",
         UNCHANGED <<alive, waitName, shell, names>>
  PROVE  PipeInv'
  <1>1. k \in Proc /\ NamesOf(k)
    BY PipeParts DEF Proc, NamesInv
  <1>2. Moved(k) /\ at'[k] = "end" /\ EndsOK'
    BY <1>1, FailKeeps
  <1>3. NamesOf(k)'
    BY <1>1, <1>2 DEF NamesOf
  <1> QED
    BY <1>2, <1>3, BackKeeps

(* A step to a point of no consequence for the names. *)
LEMMA BackGoes ==
  ASSUME PipeInv, NEW k \in Back, at[k] # "off", Moved(k), EndsOK', cut \subseteq cut',
         at'[k] \notin {"off", "rmB2f", "end", "new"},
         names' \subseteq names \cup ({"f2b", "b2f"} \X {k}),
         UNCHANGED <<alive, waitName, shell>>
  PROVE  PipeInv'
  <1>1. NamesOf(k)
    BY PipeParts DEF NamesInv
  <1>2. NamesOf(k)'
    BY <1>1 DEF NamesOf
  <1> QED
    BY <1>2, BackKeeps

LEMMA BackStepKeeps ==
  ASSUME PipeInv, NEW k \in Back, BackStep(k) \/ Monitor(k) \/ KillBack(k)
  PROVE  PipeInv'
  <1>0. /\ k \in Proc /\ EndsOK /\ DOMAIN at = Proc /\ NamesOf(k) /\ names \subseteq Pipe
        /\ waitName \in [Shell -> Nova \cup {None}]
    BY PipeParts DEF Proc, NamesInv, Pipe
  <1> DEFINE Rest == UNCHANGED <<alive, waitName, shell>>
  <1>1. CASE BackInit(k)
    <2>1. at[k] = "init" /\ Rest /\ UNCHANGED names
      BY <1>1 DEF BackInit, Runs, back
    <2>2. CASE Goto(k, "mkF2b") /\ UNCHANGED <<pipes, cut>>
      <3>1. Moved(k) /\ at'[k] = "mkF2b"
        BY <1>0, <2>2, GoesTo
      <3>2. EndsOK'
        BY <1>0, <2>1, <2>2, <3>1, EndsStay DEF pipes, Holding
      <3> QED
        BY <2>1, <2>2, <3>1, <3>2, BackGoes
    <2>3. CASE End(k) /\ cut' = cut \cup {k}
      BY <2>1, <2>3, BackEnds
    <2> QED
      BY <1>1, <2>2, <2>3 DEF BackInit
  <1>2. CASE MkF2b(k) \/ MkB2f(k)
    <2>1. /\ at[k] \in {"mkF2b", "mkB2f"} /\ Rest /\ UNCHANGED <<pipes, cut>>
          /\ names' \subseteq names \cup ({"f2b", "b2f"} \X {k})
      BY <1>2 DEF MkF2b, MkB2f, Runs, back
    <2>2. Moved(k) /\ at'[k] \in {"mkB2f", "openWait"}
      BY <1>0, <1>2, GoesTo DEF MkF2b, MkB2f
    <2>3. EndsOK'
      BY <1>0, <2>1, <2>2, EndsStay DEF pipes, Holding
    <2> QED
      BY <2>1, <2>2, <2>3, BackGoes
  <1>3. CASE OpenWait(k)
    <2>1. /\ at[k] = "openWait" /\ k \notin blocked /\ Rest /\ UNCHANGED names
          /\ cut \subseteq cut'
      BY <1>3 DEF OpenWait, Runs, back
    <2>2. CASE UNCHANGED pipes /\ Goto(k, "rmF2b")
      <3>1. Moved(k) /\ at'[k] = "rmF2b"
        BY <1>0, <2>2, GoesTo
      <3>2. EndsOK'
        BY <1>0, <2>1, <2>2, <3>1, EndsStay DEF pipes, Holding
      <3> QED
        BY <2>1, <3>1, <3>2, BackGoes
    <2>3. CASE /\ waitName[shell[k]] # None /\ OpenWrite(k, <<"wait", waitName[shell[k]]>>)
               /\ Goto(k, "monitor")
      <3>1. Moved(k) /\ at'[k] = "monitor"
        BY <1>0, <2>3, GoesTo
      <3>2. <<"wait", waitName[shell[k]]>> \in Pipe
        BY <1>0, <2>1, <2>3 DEF NamesOf, Pipe
      <3>3. EndsOK'
        BY <1>0, <2>1, <2>3, <3>1, <3>2, WriterOpens DEF Holding
      <3> QED
        BY <2>1, <3>1, <3>3, BackGoes
    <2> QED
      BY <1>3, <2>2, <2>3 DEF OpenWait
  <1>4. CASE createMonitor(k) \/ DisconnectF2b(k) \/ DisconnectB2f(k)
    <2>1. /\ at[k] \in {"monitor", "readF2b", "closeB2f"} /\ Rest /\ UNCHANGED <<names, cut>>
          /\ Close(k, Pipe)
      BY <1>4 DEF createMonitor, DisconnectF2b, DisconnectB2f, Runs, back
    <2>2. Moved(k) /\ at'[k] \in {"connF2b", "connB2f", "rmF2b"}
      BY <1>0, <1>4, GoesTo DEF createMonitor, DisconnectF2b, DisconnectB2f
    <2>3. EndsOK'
      BY <1>0, <2>1, <2>2, EndsClose
    <2> QED
      BY <2>1, <2>2, <2>3, BackGoes
  <1>5. CASE ConnF2b(k)
    <2>1. /\ at[k] = "connF2b" /\ k \notin blocked /\ Rest /\ UNCHANGED names
          /\ cut \subseteq cut'
      BY <1>5 DEF ConnF2b, Runs, back
    <2>2. CASE UNCHANGED pipes /\ Goto(k, "rmF2b")
      <3>1. Moved(k) /\ at'[k] = "rmF2b"
        BY <1>0, <2>2, GoesTo
      <3>2. EndsOK'
        BY <1>0, <2>1, <2>2, <3>1, EndsStay DEF pipes, Holding
      <3> QED
        BY <2>1, <3>1, <3>2, BackGoes
    <2>3. CASE /\ <<"f2b", k>> \in names /\ OpenRead(k, <<"f2b", k>>) /\ Goto(k, "readF2b")
      <3>1. Moved(k) /\ at'[k] = "readF2b"
        BY <1>0, <2>3, GoesTo
      <3>2. EndsOK'
        BY <1>0, <2>1, <2>3, <3>1, ReaderOpens DEF Holding
      <3> QED
        BY <2>1, <3>1, <3>2, BackGoes
    <2> QED
      BY <1>5, <2>2, <2>3 DEF ConnF2b
  <1>6. CASE readFromPipe(k)
    <2>1. at[k] = "readF2b" /\ Rest /\ UNCHANGED <<names, cut, at, blocked, rd, wr>>
      BY <1>6 DEF readFromPipe, Runs, back, Take
    <2>2. Moved(k)
      BY <1>0, <2>1 DEF Moved
    <2>3. EndsOK'
      BY <1>0, <2>1, <2>2, EndsStay
    <2> QED
      BY <2>1, <2>2, <2>3, BackGoes
  <1>7. CASE ConnB2f(k)
    <2>1. /\ at[k] = "connB2f" /\ k \notin blocked /\ Rest /\ UNCHANGED names
          /\ cut \subseteq cut'
      BY <1>7 DEF ConnB2f, Runs, back
    <2>2. CASE UNCHANGED pipes /\ Goto(k, "rmF2b")
      <3>1. Moved(k) /\ at'[k] = "rmF2b"
        BY <1>0, <2>2, GoesTo
      <3>2. EndsOK'
        BY <1>0, <2>1, <2>2, <3>1, EndsStay DEF pipes, Holding
      <3> QED
        BY <2>1, <3>1, <3>2, BackGoes
    <2>3. CASE /\ <<"b2f", k>> \in names /\ OpenWrite(k, <<"b2f", k>>) /\ Goto(k, "eval")
      <3>1. Moved(k) /\ at'[k] = "eval"
        BY <1>0, <2>3, GoesTo
      <3>2. EndsOK'
        BY <1>0, <2>1, <2>3, <3>1, WriterOpens DEF Holding
      <3> QED
        BY <2>1, <3>1, <3>2, BackGoes
    <2> QED
      BY <1>7, <2>2, <2>3 DEF ConnB2f
  <1>8. CASE Eval(k) \/ ReplyErrno(k)
    <2>1. at[k] \in {"eval", "errno"} /\ Rest /\ UNCHANGED names
      BY <1>8 DEF Eval, ReplyErrno, Reply, Runs, back
    <2>2. CASE End(k) /\ cut' = cut \cup {k}
      BY <2>1, <2>2, BackEnds
    <2>3. CASE UNCHANGED <<blocked, rd, wr, cut>> /\ (Goto(k, "errno") \/ Goto(k, "closeB2f"))
      <3>1. Moved(k) /\ at'[k] \in {"errno", "closeB2f"}
        BY <1>0, <2>3, GoesTo
      <3>2. EndsOK'
        BY <1>0, <2>3, <3>1, EndsStay DEF Holding
      <3> QED
        BY <2>1, <2>3, <3>1, <3>2, BackGoes
    <2> QED
      BY <1>8, <2>2, <2>3 DEF Eval, ReplyErrno, Reply, Put, pipes
  <1>9. CASE RmF2b(k)
    <2>1. /\ at[k] = "rmF2b" /\ Rest /\ UNCHANGED <<pipes, cut>>
          /\ names' = names \ {<<"f2b", k>>}
      BY <1>9 DEF RmF2b, Runs, back
    <2>2. Moved(k) /\ at'[k] = "rmB2f"
      BY <1>0, <1>9, GoesTo DEF RmF2b
    <2>3. EndsOK'
      BY <1>0, <2>1, <2>2, EndsStay DEF pipes, Holding
    <2>4. NamesOf(k)'
      BY <1>0, <2>1, <2>2 DEF NamesOf
    <2> QED
      BY <2>1, <2>2, <2>3, <2>4, BackKeeps
  <1>10. CASE RmB2f(k)
    <2>1. /\ at[k] = "rmB2f" /\ Rest /\ UNCHANGED cut /\ End(k)
          /\ names' = names \ {<<"b2f", k>>}
      BY <1>10 DEF RmB2f, Runs, back
    <2>2. Moved(k) /\ at'[k] = "end" /\ EndsOK'
      BY <1>0, <2>1, FailKeeps
    <2>3. NamesOf(k)'
      BY <1>0, <2>1, <2>2 DEF NamesOf
    <2> QED
      BY <2>1, <2>2, <2>3, BackKeeps
  <1>11. CASE monitor(k) \/ monitorClean(k)
    <2>1. Rest /\ UNCHANGED <<at, pipes, cut>> /\ names' \subseteq names /\ at[k] # "end"
      BY <1>11 DEF monitor, monitorClean, back, Running
    <2>2. Moved(k)
      BY <1>0, <2>1 DEF Moved
    <2>3. EndsOK'
      BY <1>0, <2>1, <2>2, EndsStay DEF pipes
    <2>4. NamesOf(k)'
      BY <1>0, <2>1 DEF NamesOf
    <2> QED
      BY <2>1, <2>2, <2>3, <2>4, BackKeeps
  <1>12. CASE monitorExit(k) \/ KillBack(k)
    <2>1. Rest /\ UNCHANGED names /\ at[k] # "off" /\ End(k) /\ cut' = cut \cup {k}
      BY <1>12 DEF monitorExit, KillBack, back, Running
    <2> QED
      BY <2>1, BackEnds
  <1> QED
    BY <1>1, <1>2, <1>3, <1>4, <1>5, <1>6, <1>7, <1>8, <1>9, <1>10, <1>11, <1>12
       DEF BackStep, Monitor

-----------------------------------------------------------------------------
LEMMA PipeInitInv == ASSUME ShellInit PROVE PipeInv
  <1>1. ShellTypes
    BY DEF ShellInit, ShellTypes
  <1>2. EndsInv /\ WaitInv
    BY DEF ShellInit, EndsInv, WaitInv, HasEnd
  <1>3. \A k \in Back : k \in Proc /\ at[k] = "off"
    BY ShellAssumption DEF ShellInit, Proc
  <1>4. NamesInv
    BY <1>3 DEF ShellInit, NamesInv, NamesOf
  <1> QED
    BY <1>1, <1>2, <1>4 DEF PipeInv

LEMMA PipeStep == ASSUME PipeInv, [ShellNext]_shellVars PROVE PipeInv'
  <1>1. CASE \E s \in Shell : ShellExits(s)
    <2>1. /\ UNCHANGED <<at, blocked, rd, wr, waitName, names, shell, cut>>
          /\ alive' \subseteq alive
      BY <1>1 DEF ShellExits, pipes, dir
    <2> QED
      BY <2>1 DEF PipeInv, ShellTypes, EndsInv, HasEnd, WaitInv, NamesInv, NamesOf
  <1>2. CASE UNCHANGED shellVars
    BY <1>2 DEF shellVars, pipes, dir, PipeInv, ShellTypes, EndsInv, HasEnd, WaitInv,
                NamesInv, NamesOf
  <1> QED
    BY <1>1, <1>2, FrontStepKeeps, BackStepKeeps DEF ShellNext

(* The inductive invariant of the pipes: who has an end open at which      *)
(* point of nova and novabp, and which names a back end has there.         *)
THEOREM PipeInvariance == ShellSpec => []PipeInv
  BY PipeInitInv, PipeStep, PTL DEF ShellSpec

LEMMA PipeTypes == ASSUME PipeInv PROVE PipeTypeOK
  <1>1. alive \subseteq Shell /\ waitName \in [Shell -> Nova \cup {None}] /\ WaitInv
    BY DEF PipeInv, ShellTypes
  <1>2. names \subseteq Pipe
    BY DEF PipeInv, NamesInv, Pipe
  <1>3. ASSUME NEW p \in Proc
        PROVE  Cardinality({i \in Pipe : p \in rd[i] \cup wr[i]}) <= 1
    <2> DEFINE S == {i \in Pipe : p \in rd[i] \cup wr[i]}
    <2>1. CASE S = {}
      <3>1. Cardinality(S) = 0
        BY <2>1, FS_EmptySet
      <3> QED
        BY <3>1
    <2>2. CASE S # {}
      <3>1. PICK i \in Pipe : i \in S
        BY <2>2
      <3>2. S = {i}
        BY <3>1 DEF PipeInv, EndsInv, HasEnd
      <3>3. Cardinality(S) = 1
        BY <3>2, FS_Singleton
      <3> QED
        BY <3>3
    <2> QED
      BY <2>1, <2>2
  <1> QED
    BY <1>1, <1>2, <1>3 DEF PipeTypeOK, WaitInv

(* Whoever is killed at whatever point of nova and novabp, and however     *)
(* many calls of however many shells run at the same time: who waits in    *)
(* open waits for an end nobody has, no process has two pipes open, and a  *)
(* name that is left behind is of a back end that was cut off.             *)
THEOREM PipesAreTidy == ShellSpec => []PipesTidy
  <1>1. PipeInv => NamesTidy
    <2> SUFFICES ASSUME PipeInv, NEW n \in names PROVE Running(n[2]) \/ n[2] \in cut
      BY DEF NamesTidy
    <2>1. PICK k \in Back : n = <<"f2b", k>> \/ n = <<"b2f", k>>
      BY DEF PipeInv, NamesInv
    <2>2. NamesOf(k) /\ n[2] = k
      BY <2>1 DEF PipeInv, NamesInv
    <2> QED
      BY <2>1, <2>2 DEF NamesOf, Running
  <1>2. PipeInv => PipesTidy
    BY <1>1, PipeTypes DEF PipesTidy
  <1> QED
    BY <1>2, PipeInvariance, PTL
=============================================================================
