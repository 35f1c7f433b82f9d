------------------------------- MODULE EDUMgr -------------------------------
(***************************************************************************)
(* The EDU manager: _pmdEDUMgr of pmdEDUMgr.cpp and the control blocks of  *)
(* pmdEDU.cpp.                                                             *)
(*                                                                         *)
(* An EDU is a thread with a control block.  startEDU takes an idle EDU    *)
(* from the pool or makes a new one and posts RESUME to it; the thread     *)
(* runs the entry point of the EDU's type and then puts itself back into   *)
(* the pool or destroys itself; destroyAll forces all of them out.  What   *)
(* runs under _latch is one step, except force(), whose two halves can be  *)
(* separated by a thread that clears the control block without the latch.  *)
(*                                                                         *)
(* Abstracted: a queue holds RESUME and TERM, and a TERM behind a TERM is  *)
(* the same TERM, since the thread treats each of them alike; an entry     *)
(* point that reads a TERM returns, so both are one step; RUNNING and      *)
(* WAITING are one status, which nothing in the manager tells apart; how   *)
(* long an EDU has been idle is any time.                                  *)
(***************************************************************************)
EXTENDS Integers, Sequences, SequencesExt, FiniteSets

CONSTANTS CB,          \* control blocks: the bound on EDUs alive at once
          Main,        \* the thread of _pmdController::run
          Monitor,     \* the thread of _pmdEDUMgr::monitor
          NoCB,
          Type,        \* the entry points registered: a subset of AllTypes
          MaxPooled,   \* _maxPooledEDU
          IdleLow,     \* PMD_EDU_IDLE_LOW_SIZE
          ThreadFails  \* creating a thread may fail

AllTypes == {"user", "system", "iosvc"}
Actor == CB \cup {Main, Monitor}

ASSUME EDUMgrAssumption ==
  /\ IsFiniteSet(CB) /\ NoCB \notin CB
  /\ Main \notin CB /\ Monitor \notin CB \cup {Main}
  /\ Type \subseteq AllTypes
  /\ MaxPooled \in Nat /\ IdleLow \in Nat
  /\ ThreadFails \in BOOLEAN

VARIABLES
  alive,     \* the control blocks that are allocated
  runs,      \* _mapRuns
  idles,     \* _mapIdles
  status,    \* _status of each control block: "idle", "creating" or "active"
  type,      \* _eduType, "none" for PMD_EDU_MIN and PMD_EDU_UNKNOW
  queue,     \* _queue
  forced,    \* the control blocks with PMD_EDU_CTRL_FORCED
  thread,    \* where the thread of an EDU is
  call,      \* the call of startEDU or createIdleEDU an actor is in
  forcing,   \* the EDUs in the middle of force(), _latch in hand
  services,  \* the EDUs whose IO service is in _vecIOServices
  stopped,   \* the EDUs whose IO service was told to stop
  wakeup,    \* _monitorEvent
  monitor,   \* where the monitor is
  down,      \* which of _isDestroyed and _isQuiesced are set
  stop,      \* where destroyAll is
  stops,     \* how often fini has called it
  err        \* a failed assertion or a missing entry point

block  == <<status, type, queue, forced>>
maps   == <<alive, runs, idles>>
ending == <<services, stopped, down, stop, stops>>
vars   == <<alive, runs, idles, status, type, queue, forced, thread, call,
            forcing, services, stopped, wakeup, monitor, down, stop, stops, err>>

NoCall == [pc |-> "none", cb |-> NoCB, type |-> "none"]

Init ==
  /\ alive = {} /\ runs = {} /\ idles = {}
  /\ status = [c \in CB |-> "idle"] /\ type = [c \in CB |-> "none"]
  /\ queue = [c \in CB |-> <<>>] /\ forced = {}
  /\ thread = [c \in CB |-> "none"]
  /\ call = [a \in Actor |-> NoCall]
  /\ forcing = {} /\ services = {} /\ stopped = {}
  /\ wakeup = FALSE /\ monitor = "wait"
  /\ down = {} /\ stop = "off" /\ stops = 0
  /\ err = "none"

At(c, p)   == thread[c] = p
Goto(c, p) == thread' = [thread EXCEPT ![c] = p]

Latch == forcing = {}          \* _latch can be taken

System(c) == type[c] \in {"system", "iosvc"}        \* _isSystemEDU
SysSize   == Cardinality({c \in runs : System(c)})  \* _systemSize()

(* _calIdleLowSize *)
IdleLowSize(run, sys) ==
  IF MaxPooled = 0 \/ MaxPooled + sys <= run THEN 0
  ELSE IF MaxPooled + sys - run > IdleLow THEN IdleLow
  ELSE MaxPooled + sys - run

PostTerm(q) == IF q # <<>> /\ Last(q) = "TERM" THEN q ELSE Append(q, "TERM")

(* A control block as the pool keeps it, or as the memory is found again. *)
Blank(c) ==
  /\ status' = [status EXCEPT ![c] = "idle"]
  /\ type' = [type EXCEPT ![c] = "none"]
  /\ queue' = [queue EXCEPT ![c] = <<>>]
  /\ forced' = forced \ {c}

(* The control block is freed, and its thread is gone with it. *)
Freed(c) ==
  /\ alive' = alive \ {c} /\ runs' = runs \ {c} /\ idles' = idles \ {c}
  /\ thread' = [thread EXCEPT ![c] = "none"]
  /\ Blank(c)
-----------------------------------------------------------------------------
(***************************************************************************)
(* startEDU.  It is called by the main thread before it stops the engine   *)
(* and by the entry points that run in EDUs.                               *)
(***************************************************************************)
Calling(a, p) == call[a].pc = p
Step(a, p) == call' = [call EXCEPT ![a].pc = p]
EndCall(a) == call' = [call EXCEPT ![a] = NoCall]

(* The monitor asks for another idle EDU until one cannot be created. *)
MonitorTold(a, m) == monitor' = IF a = Monitor THEN m ELSE monitor

MayStart(a) == /\ Calling(a, "none")
               /\ \/ a = Main /\ stop = "off"
                  \/ a \in CB /\ thread[a] = "run"

(* A system EDU is never pooled: createNewEDU asks isQuiesced once more,   *)
(* which only counts if it is the last time.                               *)
StartEDU(a, t) ==
  /\ MayStart(a) /\ Latch /\ "quiesced" \notin down
  /\ call' = [call EXCEPT ![a] = [pc |-> IF t = "user" THEN "pool" ELSE "insert",
                                  cb |-> NoCB, type |-> t]]
  /\ UNCHANGED <<maps, block, thread, forcing, wakeup, monitor, ending, err>>

(* getFromPool: the map's first idle EDU, here any of them. *)
GetFromPool(a) ==
  /\ Calling(a, "pool") /\ Latch
  /\ \/ /\ idles = {} /\ Step(a, "check")
        /\ UNCHANGED <<runs, idles, type, status, err>>
     \/ \E c \in idles :
          /\ idles' = idles \ {c} /\ runs' = runs \cup {c}
          /\ type' = [type EXCEPT ![c] = call[a].type]
          /\ \E s \in IF c \in alive THEN {status[c]} ELSE {"idle", "active"} :
               err' = IF s = "idle" THEN err ELSE "Status must be idle"
          /\ status' = [status EXCEPT ![c] = "creating"]
          /\ call' = [call EXCEPT ![a].pc = "clear", ![a].cb = c]
  /\ wakeup' = (wakeup \/ Cardinality(idles') < IdleLowSize(Cardinality(runs'), SysSize))
  /\ UNCHANGED <<alive, queue, forced, thread, forcing, monitor, ending>>

(* clear(), after getFromPool gave _latch back: the queue, then the flags. *)
ClearQueue(a) ==
  /\ Calling(a, "clear") /\ Step(a, "reset")
  /\ queue' = [queue EXCEPT ![call[a].cb] = <<>>]
  /\ UNCHANGED <<maps, status, type, forced, thread, forcing, wakeup, monitor,
                 ending, err>>

ClearFlags(a) ==
  /\ Calling(a, "reset") /\ Step(a, "post")
  /\ forced' = forced \ {call[a].cb}
  /\ UNCHANGED <<maps, status, type, queue, thread, forcing, wakeup, monitor,
                 ending, err>>

Resume(a) ==
  /\ Calling(a, "post") /\ EndCall(a)
  /\ queue' = [queue EXCEPT ![call[a].cb] = Append(@, "RESUME")]
  /\ UNCHANGED <<maps, status, type, forced, thread, forcing, wakeup, monitor,
                 ending, err>>

(* createNewEDU and createIdleEDU ask again whether the engine stops. *)
CheckQuiesced(a) ==
  /\ Calling(a, "check") /\ Latch
  /\ IF "quiesced" \in down THEN EndCall(a) /\ MonitorTold(a, "wait")
                            ELSE Step(a, "insert") /\ UNCHANGED monitor
  /\ UNCHANGED <<maps, block, thread, forcing, wakeup, ending, err>>

(* No memory for another control block. *)
OutOfMemory(a) ==
  /\ Calling(a, "insert") /\ CB = alive \cup runs \cup idles /\ EndCall(a)
  /\ MonitorTold(a, "wait")
  /\ UNCHANGED <<maps, block, thread, forcing, wakeup, ending, err>>

(* The new control block goes into its map, an idle one without an event. *)
Insert(a) ==
  /\ Calling(a, "insert") /\ Latch
  /\ \E c \in CB \ (alive \cup runs \cup idles) :
       /\ alive' = alive \cup {c}
       /\ call' = [call EXCEPT ![a].pc = "spawn", ![a].cb = c]
       /\ IF a = Monitor
          THEN /\ idles' = idles \cup {c}
               /\ UNCHANGED <<runs, type, queue, status>>
          ELSE /\ runs' = runs \cup {c} /\ UNCHANGED idles
               /\ type' = [type EXCEPT ![c] = call[a].type]
               /\ queue' = [queue EXCEPT ![c] = Append(@, "RESUME")]
               /\ status' = [status EXCEPT ![c] = "creating"]
  /\ UNCHANGED <<forced, thread, forcing, wakeup, monitor, ending, err>>

Spawn(a) ==
  /\ Calling(a, "spawn")
  /\ \/ /\ thread' = [thread EXCEPT ![call[a].cb] = "start"]
        /\ Step(a, "attach") /\ UNCHANGED alive
     \/ /\ ThreadFails         \* the control block is deleted before its entry
        /\ alive' = alive \ {call[a].cb}
        /\ Step(a, "erase") /\ UNCHANGED thread
  /\ UNCHANGED <<runs, idles, block, forcing, wakeup, monitor, ending, err>>

Erase(a) ==
  /\ Calling(a, "erase") /\ Latch /\ EndCall(a)
  /\ IF a = Monitor THEN idles' = idles \ {call[a].cb} /\ UNCHANGED runs
     ELSE runs' = runs \ {call[a].cb} /\ UNCHANGED idles
  /\ Blank(call[a].cb) /\ MonitorTold(a, "wait")
  /\ UNCHANGED <<alive, thread, forcing, wakeup, ending, err>>
-----------------------------------------------------------------------------
(* The thread of an EDU: pmdEDUEntryPoint. *)
(* It reports to its creator, which has been waiting for it. *)
Report(c) ==
  /\ At(c, "start") /\ Latch /\ Goto(c, "wait")
  /\ \E a \in Actor : Calling(a, "attach") /\ call[a].cb = c /\ EndCall(a)
                      /\ MonitorTold(a, "size")
  /\ UNCHANGED <<maps, block, forcing, wakeup, ending, err>>

WaitEvent(c) ==
  /\ At(c, "wait") /\ queue[c] # <<>>
  /\ Goto(c, IF Head(queue[c]) = "RESUME" THEN "resume" ELSE "return")
  /\ queue' = [queue EXCEPT ![c] = Tail(@)]
  /\ UNCHANGED <<maps, status, type, forced, call, forcing, wakeup, monitor,
                 ending, err>>

(* forceDestory: the status is read first, then the sizes, and the EDU is  *)
(* erased after that.                                                      *)
WaitTimeout(c) ==
  /\ At(c, "wait") /\ queue[c] = <<>> /\ status[c] # "creating"
  /\ Goto(c, "size")
  /\ UNCHANGED <<maps, block, call, forcing, wakeup, monitor, ending, err>>

ForceDestorySize(c) ==
  LET run == Cardinality(runs)
      idl == Cardinality(idles)
  IN  /\ At(c, "size") /\ Latch
      /\ \E long \in BOOLEAN :       \* idle beyond PMD_EDU_IDLE_MAX_TIME
           Goto(c, IF \/ idl < IdleLowSize(run, SysSize)
                      \/ run + idl - SysSize <= MaxPooled /\ ~long
                   THEN "wait" ELSE "destroy")
      /\ UNCHANGED <<maps, block, call, forcing, wakeup, monitor, ending, err>>

ForceDestoryBlind(c) ==   \* fault: the status is not read again under _latch
  /\ At(c, "destroy") /\ Latch
  /\ Freed(c) /\ err' = IF c \in idles \cup runs THEN err ELSE "EDU is not found"
  /\ UNCHANGED <<call, forcing, wakeup, monitor, ending>>

ForceDestory(c) ==
  /\ At(c, "destroy") /\ Latch
  /\ IF c \in idles \/ (c \in runs /\ status[c] # "creating")
     THEN Freed(c) /\ UNCHANGED err
     ELSE /\ Goto(c, "wait") /\ UNCHANGED <<maps, block>>
          /\ err' = IF c \in runs THEN err ELSE "EDU is not found"
  /\ UNCHANGED <<call, forcing, wakeup, monitor, ending>>

(* waitEDU and activateEDU leave an idle EDU alone. *)
Active(s) == IF s = "idle" THEN s ELSE "active"

RunEntry(c) ==
  /\ At(c, "resume") /\ Goto(c, "run")
  /\ status' = [status EXCEPT ![c] = Active(@)]
  /\ err' = IF type[c] = "none" THEN "entry point func is NULL" ELSE err
  /\ UNCHANGED <<maps, type, queue, forced, call, forcing, wakeup, monitor,
                 ending>>

Running(c) == At(c, "run") /\ Calling(c, "none")

(* pmdIOSvcEntry: the service is registered and then runs until stopped. *)
AddIOService(c) ==
  /\ Running(c) /\ type[c] = "iosvc" /\ c \notin services /\ Latch
  /\ services' = services \cup {c}
  /\ UNCHANGED <<maps, block, thread, call, forcing, wakeup, monitor, stopped,
                 down, stop, stops, err>>

(* The entry point returns, having read its TERM or not. *)
EntryReturns(c) ==
  /\ Running(c) /\ Goto(c, "return")
  /\ type[c] = "iosvc" => c \in stopped
  /\ Latch \/ c \notin services              \* delIOSerivce
  /\ services' = services \ {c} /\ stopped' = stopped \ {c}
  /\ status' = [status EXCEPT ![c] = Active(@)]
  /\ \E q \in {queue[c]} \cup {Tail(queue[c]) : x \in {1} \cap DOMAIN queue[c]} :
       queue' = [queue EXCEPT ![c] = q]
  /\ UNCHANGED <<maps, type, forced, call, forcing, wakeup, monitor, down,
                 stop, stops, err>>

(* It throws: pmdEDUEntryPointWrapper removes and deletes the EDU. *)
EntryThrows(c) ==
  /\ Running(c) /\ Latch /\ type[c] # "iosvc"
  /\ Freed(c)
  /\ UNCHANGED <<call, forcing, wakeup, monitor, ending, err>>

(* returnEDU *)
Destroys(c) == \/ c \in forced \/ "destroyed" \in down \/ MaxPooled = 0
               \/ System(c) \/ type[c] = "none"

ReturnEDUClears(c) ==     \* fault: an EDU in CREATING is cleared like the others
  /\ At(c, "return") /\ Latch
  /\ IF status[c] # "creating" /\ Destroys(c) THEN Freed(c)
     ELSE /\ Goto(c, "wait")
          /\ IF status[c] = "creating"
             THEN queue' = [queue EXCEPT ![c] = <<>>] /\ UNCHANGED <<maps, status, type, forced>>
             ELSE /\ runs' = runs \ {c} /\ idles' = idles \cup {c} /\ UNCHANGED alive
                  /\ Blank(c)
  /\ UNCHANGED <<call, forcing, wakeup, monitor, ending, err>>

ReturnEDU(c) ==
  /\ At(c, "return") /\ Latch
  /\ \/ /\ status[c] = "creating" /\ Goto(c, "wait")
        /\ UNCHANGED <<maps, block, err>>
     \/ /\ status[c] # "creating" /\ Destroys(c) /\ Freed(c)
        /\ err' = IF c \in runs \cup idles THEN err ELSE "CB is not found"
     \/ /\ status[c] # "creating" /\ ~Destroys(c) /\ Goto(c, "wait")
        /\ runs' = runs \ {c} /\ idles' = idles \cup {c} /\ UNCHANGED alive
        /\ err' = CASE c \notin runs \cup idles -> "CB is not found"
                    [] c \in runs /\ status[c] = "idle" -> "Status can't be idle"
                    [] OTHER -> err
        /\ Blank(c)
  /\ UNCHANGED <<call, forcing, wakeup, monitor, ending>>
-----------------------------------------------------------------------------
(* disconnect() of the EDUs in s, which is also the first half of force(). *)
Disconnect(s) ==
  queue' = [c \in CB |-> IF c \in s THEN PostTerm(queue[c]) ELSE queue[c]]

Forceable(c) == c \in idles \/ (c \in runs /\ ~System(c))

(* disconnectUserEDU and forceUserEDU, by any session. *)
DisconnectUserEDU(c) ==
  /\ Latch /\ Forceable(c) /\ Disconnect({c})
  /\ UNCHANGED <<maps, status, type, forced, thread, call, forcing, wakeup,
                 monitor, ending, err>>

ForceUserEDU(c) ==
  /\ Latch /\ Forceable(c) /\ Disconnect({c})
  /\ forcing' = {c}
  /\ UNCHANGED <<maps, status, type, forced, thread, call, wakeup, monitor,
                 ending, err>>

(* The second half of force(), and _latch is given back. *)
ForceEnd ==
  /\ forcing # {} /\ forcing' = {}
  /\ forced' = forced \cup forcing
  /\ UNCHANGED <<maps, status, type, queue, thread, call, wakeup, monitor,
                 ending, err>>
-----------------------------------------------------------------------------
(* monitor: keeps some idle EDUs ready. *)
MonitorWait ==
  /\ monitor = "wait" /\ Latch
  /\ \/ /\ "destroyed" \in down /\ monitor' = "gone" /\ UNCHANGED wakeup
     \/ /\ "destroyed" \notin down /\ wakeup
        /\ wakeup' = FALSE
        /\ monitor' \in {"wait", "size"}      \* wait: the engine is not active
  /\ UNCHANGED <<maps, block, thread, call, forcing, ending, err>>

MonitorSize ==
  /\ monitor = "size" /\ Latch
  /\ IF Cardinality(idles) < IdleLowSize(Cardinality(runs), SysSize)
     THEN /\ monitor' = "create"
          /\ call' = [call EXCEPT ![Monitor].pc = "check"]
     ELSE monitor' = "wait" /\ UNCHANGED call
  /\ UNCHANGED <<maps, block, thread, forcing, wakeup, ending, err>>

-----------------------------------------------------------------------------
(***************************************************************************)
(* fini and destroyAll, by the main thread.  Every 50th round forces; the  *)
(* rounds in between only count again.  A phase that takes too long is     *)
(* given up, and fini then calls destroyAll once more.                     *)
(***************************************************************************)
SetStop(p) == stop' = p

DestroyAll ==
  /\ stop = "off" /\ Calling(Main, "none") /\ Latch
  /\ SetStop("quiesce") /\ stops' = 1
  /\ down' = {"destroyed"}
  /\ UNCHANGED <<maps, block, thread, call, forcing, services, stopped, wakeup,
                 monitor, err>>

Quiesce ==
  /\ stop = "quiesce" /\ Latch /\ SetStop("join")
  /\ down' = down \cup {"quiesced"} /\ wakeup' = TRUE
  /\ UNCHANGED <<maps, block, thread, call, forcing, services, stopped,
                 monitor, stops, err>>

JoinMonitor ==
  /\ stop = "join" /\ monitor = "gone" /\ SetStop("io")
  /\ UNCHANGED <<maps, block, thread, call, forcing, services, stopped, wakeup,
                 monitor, down, stops, err>>

(* forceIOSerivce *)
StopServices ==
  /\ stop = "io" /\ Latch /\ services # {}
  /\ stopped' = stopped \cup services
  /\ UNCHANGED <<maps, block, thread, call, forcing, services, wakeup, monitor,
                 down, stop, stops, err>>

CountedRuns(p) ==    \* fault: the idle EDUs are not counted
  IF p = "user" THEN {c \in runs : ~System(c)} ELSE runs

(* The EDUs a phase counts, and forces. *)
Counted(p) == IF p = "user" THEN idles \cup {c \in runs : ~System(c)}
              ELSE runs \cup idles

ForceEDUs ==
  /\ stop \in {"user", "all"} /\ Latch
  /\ Counted(stop) # {} /\ Disconnect(Counted(stop))
  /\ forcing' = Counted(stop)
  /\ UNCHANGED <<maps, status, type, forced, thread, call, wakeup, monitor,
                 ending, err>>

NextPhase ==
  /\ Latch
  /\ \/ stop = "io" /\ services = {} /\ SetStop("user")
     \/ stop = "user" /\ Counted("user") = {} /\ SetStop("all")
     \/ stop = "all" /\ Counted("all") = {} /\ SetStop("done")
  /\ UNCHANGED <<maps, block, thread, call, forcing, services, stopped, wakeup,
                 monitor, down, stops, err>>

(* The minutes of a phase are over, which they never are while a thread    *)
(* still moves that does not wait for the stop of its IO service.          *)
Stuck == \A c \in CB : /\ thread[c] \in {"none", "run"} /\ Calling(c, "none")
                       /\ At(c, "run") => c \in services \ stopped

GiveUpOnce ==        \* fault: fini calls destroyAll once
  /\ stop = "all" /\ Latch /\ Counted("all") # {} /\ Stuck
  /\ SetStop("failed")
  /\ UNCHANGED <<maps, block, thread, call, forcing, services, stopped, wakeup,
                 monitor, down, stops, err>>

GiveUp ==
  /\ stop = "all" /\ Latch /\ Counted("all") # {} /\ Stuck
  /\ IF stops = 1 THEN SetStop("io") /\ stops' = 2
     ELSE SetStop("failed") /\ UNCHANGED stops
  /\ UNCHANGED <<maps, block, thread, call, forcing, services, stopped, wakeup,
                 monitor, down, err>>
-----------------------------------------------------------------------------
CallStep(a) == \/ GetFromPool(a) \/ ClearQueue(a) \/ ClearFlags(a) \/ Resume(a)
               \/ CheckQuiesced(a) \/ OutOfMemory(a) \/ Insert(a) \/ Spawn(a)
               \/ Erase(a)

ThreadStep(c) == \/ Report(c) \/ WaitEvent(c) \/ ForceDestorySize(c)
                 \/ ForceDestory(c) \/ RunEntry(c) \/ AddIOService(c) \/ ReturnEDU(c)

MonitorStep == MonitorWait \/ MonitorSize

StopStep == \/ Quiesce \/ JoinMonitor \/ StopServices \/ ForceEDUs \/ NextPhase \/ GiveUp

Next ==
  \/ \E a \in Actor : (\E t \in Type : StartEDU(a, t)) \/ CallStep(a)
  \/ \E c \in CB : \/ ThreadStep(c) \/ WaitTimeout(c) \/ EntryReturns(c)
                   \/ EntryThrows(c) \/ DisconnectUserEDU(c) \/ ForceUserEDU(c)
  \/ ForceEnd \/ MonitorStep \/ DestroyAll \/ StopStep

Spec == Init /\ [][Next]_vars

(* What an EDU's thread does on its own, once it has been told to stop. *)
Told(c) == IF type[c] = "iosvc" THEN c \in stopped ELSE c \in forced \/ queue[c] # <<>>

Process(c) == ThreadStep(c) \/ CallStep(c) \/ (Told(c) /\ EntryReturns(c))

(* A thread that can go on does: _latch is only ever held for a while, and *)
(* whoever waits for it gets it in the end.                                *)
FairSpec == /\ Spec
            /\ \A c \in CB : SF_vars(Process(c))
            /\ SF_vars(CallStep(Main) \/ StopStep)
            /\ SF_vars(MonitorStep \/ CallStep(Monitor))
            /\ SF_vars(GiveUp) /\ WF_vars(ForceEnd)
-----------------------------------------------------------------------------
(* The maps, control blocks, threads and calls of the manager hold what    *)
(* they may hold, and no event queue grows past its three posters.         *)
TypeOK ==
  /\ alive \subseteq CB /\ runs \subseteq CB /\ idles \subseteq CB
  /\ status \in [CB -> {"idle", "creating", "active"}]
  /\ type \in [CB -> AllTypes \cup {"none"}]
  /\ \A c \in CB : queue[c] \in Seq({"RESUME", "TERM"}) /\ Len(queue[c]) <= 3
  /\ forced \subseteq CB /\ forcing \subseteq CB
  /\ thread \in [CB -> {"none", "start", "wait", "resume", "run", "return", "size", "destroy"}]
  /\ services \subseteq CB /\ stopped \subseteq CB /\ wakeup \in BOOLEAN
  /\ \A a \in Actor : call[a].cb \in CB \cup {NoCB} /\ call[a].type \in AllTypes \cup {"none"}
  /\ stop \in {"off", "quiesce", "join", "io", "user", "all", "done", "failed"} /\ stops \in 0 .. 2
  /\ monitor \in {"wait", "size", "create", "gone"} /\ down \subseteq {"destroyed", "quiesced"}

(* Each control block is in exactly one of _mapRuns and _mapIdles for as   *)
(* long as it lives, whatever starts, forces and idle time-outs race for   *)
(* it; in _mapIdles it is idle and without a type, and a thread that runs  *)
(* an entry point is in _mapRuns.                                          *)
MapsExact ==
  /\ runs \cup idles = alive /\ runs \cap idles = {}
  /\ \A c \in idles : status[c] = "idle" /\ type[c] = "none"
  /\ \A c \in runs : status[c] # "idle" /\ type[c] # "none"
  /\ \A c \in CB : thread[c] \in {"resume", "run"} => c \in runs

(* startEDU has promised a session a thread: from the moment its EDU is    *)
(* CREATING there is a RESUME in its queue, or the thread has just read    *)
(* it, or the caller is still on its way to post it.  clear() outside      *)
(* _latch, a TERM read in between and a time-out may not lose it.          *)
ResumePending ==
  \A c \in runs : status[c] = "creating" =>
    \/ At(c, "resume")
    \/ \E i \in DOMAIN queue[c] : queue[c][i] = "RESUME"
    \/ \E a \in Actor : call[a].cb = c /\ call[a].pc \in {"clear", "reset", "post"}

(* A caller of startEDU that holds a pooled control block outside _latch   *)
(* holds a live one that no other caller has and that nothing runs on yet; *)
(* at most its creator still waits for the thread.                         *)
BlockHeld ==
  \A a \in Actor : call[a].pc \in {"clear", "reset", "post"} =>
    LET c == call[a].cb
    IN  /\ c \in runs \cap alive /\ status[c] = "creating"
        /\ thread[c] \notin {"resume", "run"}
        /\ \A b \in Actor \ {a} : call[b].cb = c => call[b].pc \in {"spawn", "attach"}

(* No assertion of the manager fails ("Status must be idle", "Status can't *)
(* be idle", "CB is not found", "EDU is not found") and no EDU resumes     *)
(* without an entry point, which would shut the engine down.               *)
NoAssert == err = "none"

(* What keeps the pool usable through every race of startEDU, returnEDU,   *)
(* forceDestory, the forces of a session and the stop.                     *)
PoolSound == TypeOK /\ MapsExact /\ BlockHeld /\ NoAssert

(* When destroyAll has counted no EDU in its last phase there is none, and *)
(* none is on its way: no entry point's call of startEDU that passed the   *)
(* isQuiesced test inserts an EDU afterwards.                              *)
NoOrphan ==
  stop = "done" => alive = {} /\ services = {} /\ \A a \in Actor : call[a] = NoCall

(* fini ends, with every EDU gone: also if an EDU is started, returned to  *)
(* the pool or forced by a session while destroyAll counts, if a TERM is   *)
(* cleared by startEDU, if a thread cannot be created, and if an IO        *)
(* service registers itself after forceIOSerivce counted none (then the    *)
(* second destroyAll of fini stops it).                                    *)
StopEnds == (stop = "quiesce") ~> (stop = "done")

=============================================================================
