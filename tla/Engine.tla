------------------------------- MODULE Engine -------------------------------
(***************************************************************************)
(* The engine's start and stop: _pmdController::run and destory, with the  *)
(* control blocks (CBs) that _pmdContainer orders by their dependencies,   *)
(* initialises, activates, and takes down again.                           *)
(*                                                                         *)
(* The dependency check is the recursion of _addDependencyCB, one call or  *)
(* return per step, on an explicit stack.  The EDUs _postActive starts run *)
(* their CB's code until they are told to stop; the EDU manager itself is  *)
(* module EDUMgr, of which only the result of fini is kept here.           *)
(***************************************************************************)
EXTENDS Integers, Sequences, SequencesExt, FiniteSets

CONSTANTS N,        \* PMD_CB_MAX: CBs have the types 1 .. N
          Missing   \* a type no CB is registered for

CB == 1 .. N

ASSUME EngineAssumption == N \in Nat /\ Missing \notin CB

VARIABLES
  deps,    \* what dependentcy() of each CB returns
  stack,   \* the calls of _addDependencyCB: a CB and the types still to look at
  flag,    \* arrayFlag of _checkDependency
  order,   \* _vecCB
  stat,    \* _stat of the CBs: 0 NULL, 1 INIT, 2 ACTIVE
  edu,     \* the EDU of a CB: "none", "run" or "gone"
  pc,      \* where the controller is
  cur,     \* the position in _vecCB of the loop it is in
  shut,    \* the node status is SHUTDOWN
  failed,  \* why it went down before it was up, or "no"
  hung,    \* a callback of the controller does not come back
  normalStop   \* normalStop of destory

start == <<deps, stack, flag, order>>
vars  == <<deps, stack, flag, order, stat, edu, pc, cur, shut, failed, hung, normalStop>>

Init ==
  /\ deps \in [CB -> SUBSET (CB \cup {Missing})]
  /\ stack = <<>> /\ flag = {} /\ order = <<>>
  /\ stat = [c \in CB |-> 0] /\ edu = [c \in CB |-> "none"]
  /\ pc = "start" /\ cur = 1
  /\ shut = FALSE /\ failed = "no" /\ hung = FALSE /\ normalStop = TRUE

InOrder(c) == \E i \in DOMAIN order : order[i] = c        \* _isInOrder
Item == order[cur]

(* error: of run(), which goes on with destory(). *)
StopFor(why) ==
  /\ shut' = TRUE /\ failed' = why
  /\ pc' = "deactive" /\ cur' = Len(order)
-----------------------------------------------------------------------------
(* The resource, the EDU manager and onPreStart. *)
Prepare ==
  /\ pc = "start"
  /\ \/ pc' = "check" /\ UNCHANGED <<cur, shut, failed>>
     \/ StopFor("prepare")
  /\ UNCHANGED <<start, stat, edu, hung, normalStop>>

(* _addDependencyCB is called for c, from the calls before it. *)
AddDependencyCB(c, calls) ==
  IF c \in flag
  THEN StopFor("endless loop") /\ UNCHANGED <<stack, flag>>
  ELSE /\ flag' = flag \cup {c}
       /\ stack' = Append(calls, [cb |-> c, todo |-> deps[c]])
       /\ UNCHANGED <<pc, cur, shut, failed>>

(* _checkDependency goes on with the next type that has no flag. *)
CheckNext ==
  /\ pc = "check" /\ stack = <<>>
  /\ \/ /\ CB \subseteq flag
        /\ pc' = "init" /\ UNCHANGED <<stack, flag, cur, shut, failed>>
     \/ \E c \in CB \ flag : /\ \A d \in CB \ flag : c <= d
                             /\ AddDependencyCB(c, <<>>)
  /\ UNCHANGED <<deps, order, stat, edu, hung, normalStop>>

(* One round of the loop over the dependencies. *)
CheckDependency(d) ==
  LET top  == Last(stack)
      rest == Append(Front(stack), [top EXCEPT !.todo = @ \ {d}])
  IN  /\ pc = "check" /\ stack # <<>> /\ d \in top.todo
      /\ \/ /\ d = Missing
            /\ StopFor("not found") /\ UNCHANGED <<stack, flag>>
         \/ /\ d # Missing /\ InOrder(d)
            /\ stack' = rest /\ UNCHANGED <<flag, pc, cur, shut, failed>>
         \/ /\ d # Missing /\ ~InOrder(d)
            /\ AddDependencyCB(d, rest)
      /\ UNCHANGED <<deps, order, stat, edu, hung, normalStop>>

CheckPush ==
  /\ pc = "check" /\ stack # <<>> /\ Last(stack).todo = {}
  /\ order' = Append(order, Last(stack).cb)
  /\ stack' = Front(stack)
  /\ UNCHANGED <<deps, flag, stat, edu, pc, cur, shut, failed, hung, normalStop>>
-----------------------------------------------------------------------------
(* initCB and activeCB: in order, up to the first failure. *)
InitCB ==
  /\ pc = "init"
  /\ \/ /\ cur > Len(order)
        /\ pc' = "active" /\ cur' = 1 /\ UNCHANGED <<stat, shut, failed>>
     \/ /\ cur <= Len(order)
        /\ stat' = [stat EXCEPT ![Item] = 1]
        /\ cur' = cur + 1 /\ UNCHANGED <<pc, shut, failed>>
     \/ /\ cur <= Len(order)
        /\ StopFor("init") /\ UNCHANGED stat
  /\ UNCHANGED <<start, edu, hung, normalStop>>

ActiveCB ==
  /\ pc = "active"
  /\ \/ /\ cur > Len(order)
        /\ pc' = "post" /\ cur' = 1 /\ UNCHANGED <<stat, shut, failed>>
     \/ /\ cur <= Len(order)
        /\ stat' = [stat EXCEPT ![Item] = 2]
        /\ cur' = cur + 1 /\ UNCHANGED <<pc, shut, failed>>
     \/ /\ cur <= Len(order)
        /\ StopFor("active") /\ UNCHANGED stat
  /\ UNCHANGED <<start, edu, hung, normalStop>>

(* _postActive starts the EDU of a CB that has one; then onPostStart. *)
PostActive ==
  /\ pc = "post"
  /\ \/ /\ cur > Len(order)
        /\ \/ pc' = "loop" /\ UNCHANGED <<cur, shut, failed>>
           \/ StopFor("post start")
        /\ UNCHANGED edu
     \/ /\ cur <= Len(order)
        /\ \E e \in {"none", "run"} : edu' = [edu EXCEPT ![Item] = e]
        /\ cur' = cur + 1 /\ UNCHANGED <<pc, shut, failed>>
     \/ /\ cur <= Len(order)
        /\ StopFor("start EDU") /\ UNCHANGED edu
  /\ UNCHANGED <<start, stat, hung, normalStop>>

(* Someone calls shutdownNode: a signal, a tool, an EDU. *)
ShutdownNode ==
  /\ ~shut /\ shut' = TRUE
  /\ UNCHANGED <<start, stat, edu, pc, cur, failed, hung, normalStop>>

RunLoop ==
  /\ pc = "loop" /\ shut
  /\ pc' = "deactive" /\ cur' = Len(order)
  /\ UNCHANGED <<start, stat, edu, shut, failed, hung, normalStop>>

(* An EDU ends: it is a system EDU, so restartNode is called for it. *)
EDUEnds(c) ==
  /\ edu[c] = "run" /\ edu' = [edu EXCEPT ![c] = "gone"]
  /\ shut' = TRUE
  /\ UNCHANGED <<start, stat, pc, cur, failed, hung, normalStop>>
-----------------------------------------------------------------------------
(* destory.  The dead check runs by now, so that a callback that hangs is  *)
(* the end of the process.                                                 *)
Hang ==
  /\ pc \in {"deactive", "fini"} /\ ~hung /\ cur > 0
  /\ stat[Item] = (IF pc = "fini" THEN 1 ELSE 2)
  /\ hung' = TRUE
  /\ UNCHANGED <<start, stat, edu, pc, cur, shut, failed, normalStop>>

DeadCheckLate ==      \* fault: the dead check starts behind deactiveCB
  /\ hung /\ pc = "fini"
  /\ pc' = "panic"
  /\ UNCHANGED <<start, stat, edu, cur, shut, failed, hung, normalStop>>

DeadCheck ==
  /\ hung /\ pc \in {"deactive", "fini"}
  /\ pc' = "panic"
  /\ UNCHANGED <<start, stat, edu, cur, shut, failed, hung, normalStop>>

DeactiveCBThenFini == \* fault: finiCB before the EDUs are stopped
  /\ pc = "deactive" /\ ~hung
  /\ IF cur = 0 THEN pc' = "fini" /\ cur' = Len(order) /\ UNCHANGED stat
     ELSE /\ stat' = [stat EXCEPT ![Item] = IF @ = 2 THEN 1 ELSE @]
          /\ cur' = cur - 1 /\ UNCHANGED pc
  /\ UNCHANGED <<start, edu, shut, failed, hung, normalStop>>

(* deactiveCB and finiCB: in reverse order, and errors are ignored. *)
DeactiveCB ==
  /\ pc = "deactive" /\ ~hung
  /\ IF cur = 0 THEN pc' = "edus" /\ UNCHANGED <<stat, cur>>
     ELSE /\ stat' = [stat EXCEPT ![Item] = IF @ = 2 THEN 1 ELSE @]
          /\ cur' = cur - 1 /\ UNCHANGED pc
  /\ UNCHANGED <<start, edu, shut, failed, hung, normalStop>>

StopEDUs ==     \* fini of the EDU manager: all gone, or out of time
  /\ pc = "edus"
  /\ normalStop' = \A c \in CB : edu[c] # "run"
  /\ pc' = "fini" /\ cur' = Len(order)
  /\ UNCHANGED <<start, stat, edu, shut, failed, hung>>

FiniCB ==
  /\ pc = "fini" /\ ~hung /\ cur > 0
  /\ stat' = [stat EXCEPT ![Item] = IF @ = 1 THEN 0 ELSE @]
  /\ cur' = cur - 1
  /\ UNCHANGED <<start, edu, pc, shut, failed, hung, normalStop>>

(* The end of destory: it panics if there are EDUs left. *)
Finish ==
  /\ pc = "fini" /\ cur = 0
  /\ pc' = IF ~normalStop /\ \E c \in CB : edu[c] = "run" THEN "panic" ELSE "exit"
  /\ UNCHANGED <<start, stat, edu, cur, shut, failed, hung, normalStop>>
-----------------------------------------------------------------------------
MainStep == \/ Prepare \/ CheckNext \/ (\E d \in CB \cup {Missing} : CheckDependency(d))
            \/ CheckPush \/ InitCB \/ ActiveCB \/ PostActive \/ RunLoop
            \/ DeactiveCB \/ StopEDUs \/ FiniCB \/ Finish

Next == \/ MainStep \/ ShutdownNode \/ Hang \/ DeadCheck
        \/ \E c \in CB : EDUEnds(c)

Spec == Init /\ [][Next]_vars

(* The main thread goes on, and the dead check's clock runs. *)
Fairness == WF_vars(MainStep) /\ WF_vars(DeadCheck)
-----------------------------------------------------------------------------
Up == {"init", "active", "post", "loop"}
Ended == {"exit", "panic"}

(* The container's vector, the stack of its dependency check and the states *)
(* of the control blocks hold what they may hold.                          *)
TypeOK ==
  /\ deps \in [CB -> SUBSET (CB \cup {Missing})]
  /\ flag \subseteq CB /\ order \in Seq(CB) /\ Len(order) <= N
  /\ \A i \in DOMAIN stack : stack[i].cb \in CB /\ stack[i].todo \subseteq deps[stack[i].cb]
  /\ stat \in [CB -> 0 .. 2] /\ edu \in [CB -> {"none", "run", "gone"}]
  /\ pc \in {"start", "check", "deactive", "edus", "fini"} \cup Up \cup Ended
  /\ cur \in 0 .. N + 1
  /\ shut \in BOOLEAN /\ hung \in BOOLEAN /\ normalStop \in BOOLEAN

Cyclic == \E s \in (SUBSET CB) \ {{}} : \A c \in s : deps[c] \cap s # {}
Absent == \E c \in CB : Missing \in deps[c]

(* The dependency check accepts exactly the graphs that have an order: it  *)
(* reports an endless loop only if there is one and a missing CB only if   *)
(* one is missing, and what it accepts has neither and is ordered with     *)
(* each CB once, behind all it depends on.                                 *)
CheckExact ==
  /\ failed = "endless loop" => Cyclic
  /\ failed = "not found" => Absent
  /\ pc \in Up => ~Cyclic /\ ~Absent /\ Len(order) = N
  /\ \A i, j \in DOMAIN order : i # j => order[i] # order[j]
  /\ \A i \in DOMAIN order : \A d \in deps[order[i]] : \E j \in 1 .. i - 1 : order[j] = d

(* At no moment of the start, the stop, or a start that fails half way, is *)
(* a CB further than one it depends on: it is initialised and activated    *)
(* after them and deactivated and finished before them.                    *)
Layered == \A c \in CB : stat[c] > 0 => \A d \in deps[c] : d \in CB /\ stat[d] >= stat[c]

(* An EDU runs its CB's code only between the init and the fini of that CB *)
(* (and so, with Layered, of all the CBs it uses), unless the EDUs could   *)
(* not be stopped in time.                                                 *)
EDUSafe == \A c \in CB : edu[c] = "run" /\ normalStop => stat[c] > 0

(* When run() returns, every CB that was initialised has been finished and *)
(* no EDU is left: a stop that ran out of time with an EDU left panics.    *)
ExitClean == pc = "exit" => \A c \in CB : stat[c] = 0 /\ edu[c] # "run"

(* The start and the stop keep their order, whatever fails on the way. *)
StartStopSound == TypeOK /\ CheckExact /\ Layered /\ EDUSafe /\ ExitClean

(* Once the node is told to shut down, even in the middle of its start,    *)
(* the process ends: a CB that hangs in deactive() or fini() is ended by   *)
(* the dead check.                                                         *)
ShutdownEnds == shut ~> (pc \in Ended)
=============================================================================
