---------------------------- MODULE EDUMgrProofs ----------------------------
(***************************************************************************)
(* The pool of the EDU manager stays sound in every race of startEDU,      *)
(* returnEDU, forceDestory, the forces of sessions, the monitor and the    *)
(* stop of the engine, for any number of EDUs and any sizes of the pool,   *)
(* as long as a thread can be created whenever one is needed.  (When it    *)
(* cannot, createIdleEDU deletes a control block that _mapIdles still      *)
(* holds, and PoolSound fails.)                                            *)
(***************************************************************************)
EXTENDS EDUMgr, SequenceTheorems, TLAPS

-----------------------------------------------------------------------------
(***************************************************************************)
(* The inductive invariant.                                                *)
(***************************************************************************)
Holding  == {"clear", "reset", "post"}    \* has a pooled control block, without _latch
Making   == {"spawn", "attach"}           \* has a new one, and waits for its thread
Deciding == {"none", "pool", "check", "insert"}

CallRec == [pc : Deciding \cup Holding \cup Making, cb : CB \cup {NoCB},
            type : AllTypes \cup {"none"}]

(* The queues that the posts of RESUME and TERM can make, and those of     *)
(* them with the RESUME of a start.                                        *)
Resumed == {<<"RESUME">>, <<"TERM", "RESUME">>, <<"RESUME", "TERM">>,
            <<"TERM", "RESUME", "TERM">>}
Queues  == {<<>>, <<"TERM">>} \cup Resumed

(* TypeOK, with what the queues and calls look like exactly. *)
Types ==
  /\ alive \subseteq CB /\ runs \subseteq CB /\ idles \subseteq CB
  /\ status \in [CB -> {"idle", "creating", "active"}]
  /\ type \in [CB -> AllTypes \cup {"none"}]
  /\ queue \in [CB -> Queues]
  /\ forced \subseteq CB /\ forcing \subseteq CB
  /\ thread \in [CB -> {"none", "start", "wait", "resume", "run", "return", "size", "destroy"}]
  /\ services \subseteq CB /\ stopped \subseteq CB /\ wakeup \in BOOLEAN
  /\ call \in [Actor -> CallRec]
  /\ stop \in {"off", "quiesce", "join", "io", "user", "all", "done", "failed"} /\ stops \in 0 .. 2
  /\ monitor \in {"wait", "size", "create", "gone"} /\ down \subseteq {"destroyed", "quiesced"}

(* Who is in startEDU or createIdleEDU, and with which control block: the  *)
(* monitor while it creates an EDU, the main thread before the stop, and   *)
(* EDUs inside their entry points.                                         *)
CallInv ==
  /\ monitor = "create" <=> call[Monitor].pc # "none"
  /\ stop # "off" => call[Main].pc = "none"
  /\ call[Monitor].pc \in {"none", "check", "insert"} \cup Making
  /\ \A c \in CB : call[c].pc # "none" => thread[c] = "run"
  /\ \A a \in Actor :
       /\ call[a].pc = "none" => call[a] = NoCall
       /\ call[a].pc \in Deciding <=> call[a].cb = NoCB
       /\ a # Monitor /\ call[a].pc # "none" => call[a].type # "none"

(* A control block that is being made, by one caller, has no thread or one *)
(* that has just started; one that is held, by one caller, is CREATING and *)
(* its RESUME is still to come.                                            *)
OwnerInv ==
  \A a \in Actor :
    LET c == call[a].cb
    IN  /\ c # NoCB => c \in alive
        /\ call[a].pc = "spawn" => thread[c] = "none"
        /\ call[a].pc = "attach" => thread[c] = "start"
        /\ call[a].pc \in Holding =>
             status[c] = "creating" /\ thread[c] # "resume" /\ queue[c] \notin Resumed
        /\ \A b \in Actor \ {a} : c # NoCB /\ call[b].cb = c =>
             ~(call[a].pc \in Holding /\ call[b].pc \in Holding)
             /\ ~(call[a].pc \in Making /\ call[b].pc \in Making)

(* A control block in memory is in one of the maps with the status of that *)
(* map; its status and queue go with where its thread is.                  *)
BlockInv ==
  /\ runs \cup idles = alive /\ runs \cap idles = {}
  /\ \A c \in CB :
       /\ c \notin runs <=> status[c] = "idle"
       /\ c \notin runs <=> type[c] = "none"
       /\ c \notin alive => thread[c] = "none" /\ queue[c] = <<>>
       /\ status[c] = "active" => thread[c] \in {"run", "return"}
       /\ thread[c] = "run" => status[c] = "active"
       /\ thread[c] = "resume" => status[c] = "creating" /\ queue[c] \notin Resumed
       /\ queue[c] \in Resumed => status[c] = "creating"

(* Only an EDU that runs an IO service has one registered. *)
ServiceInv == \A c \in services : thread[c] = "run" /\ type[c] = "iosvc"

(* destroyAll goes on once the monitor is gone and ends without any EDU. *)
StopInv ==
  /\ stop \in {"io", "user", "all", "done", "failed"} => monitor = "gone"
  /\ stop = "done" => alive = {}

(* The RESUME of a start is posted, or just read, or on its way. *)
Pending ==
  \A c \in CB : status[c] = "creating" =>
    \/ thread[c] = "resume" \/ queue[c] \in Resumed
    \/ \E a \in Actor : call[a].cb = c /\ call[a].pc \in Holding

IInv ==
  /\ Types /\ CallInv /\ OwnerInv /\ BlockInv /\ ServiceInv /\ StopInv
  /\ Pending /\ NoAssert
-----------------------------------------------------------------------------
(* An event put behind one or two others. *)
LEMMA PutBehind ==
  ASSUME NEW x \in {"RESUME", "TERM"}, NEW y \in {"RESUME", "TERM"}, NEW z \in {"RESUME", "TERM"}
  PROVE  Append(<<x>>, z) = <<x, z>> /\ Append(<<x, y>>, z) = <<x, y, z>>
  <1> DEFINE S == Seq({"RESUME", "TERM"})
  <1>1. /\ Append(<<x>>, z) \in S /\ <<x, z>> \in S
        /\ Len(Append(<<x>>, z)) = 2 /\ Len(<<x, z>>) = 2
        /\ \A i \in 1 .. 2 : Append(<<x>>, z)[i] = <<x, z>>[i]
    OBVIOUS
  <1>2. /\ Append(<<x, y>>, z) \in S /\ <<x, y, z>> \in S
        /\ Len(Append(<<x, y>>, z)) = 3 /\ Len(<<x, y, z>>) = 3
        /\ \A i \in 1 .. 3 : Append(<<x, y>>, z)[i] = <<x, y, z>>[i]
    OBVIOUS
  <1>3. Append(<<x>>, z) = <<x, z>>
    BY <1>1, SeqEqual
  <1>4. Append(<<x, y>>, z) = <<x, y, z>>
    BY <1>2, SeqEqual
  <1> QED
    BY <1>3, <1>4

(* What the posts and the reads of an event do to a queue. *)
LEMMA QueueFacts ==
  /\ \A q \in Queues : /\ q \in Seq({"RESUME", "TERM"}) /\ Len(q) <= 3
                       /\ PostTerm(q) \in Queues /\ (PostTerm(q) \in Resumed <=> q \in Resumed)
  /\ \A q \in Queues \ Resumed : Append(q, "RESUME") \in Resumed
  /\ \A q \in Queues : q # <<>> =>
       /\ Tail(q) \in Queues
       /\ Head(q) = "RESUME" => q \in Resumed /\ Tail(q) \notin Resumed
       /\ Head(q) # "RESUME" => (Tail(q) \in Resumed <=> q \in Resumed)
  /\ \A q \in Resumed : \E i \in DOMAIN q : q[i] = "RESUME"
  <1>1. /\ \A q \in Queues : q \in Seq({"RESUME", "TERM"}) /\ Len(q) <= 3
        /\ \A q \in Queues : q # <<>> => q[Len(q)] \in {"RESUME", "TERM"}
    BY DEF Queues, Resumed
  <1>2. ASSUME NEW q \in Queues
        PROVE  PostTerm(q) \in Queues /\ (PostTerm(q) \in Resumed <=> q \in Resumed)
    <2>1. CASE q = <<>>
      BY <2>1 DEF PostTerm, Queues, Resumed
    <2>2. CASE q = <<"TERM">>
      BY <2>2 DEF PostTerm, Last, Queues, Resumed
    <2>3. CASE q = <<"RESUME">>
      <3>1. PostTerm(q) = Append(q, "TERM")
        BY <2>3 DEF PostTerm, Last
      <3>2. Append(q, "TERM") = <<"RESUME", "TERM">>
        BY <2>3, PutBehind
      <3> QED
        BY <2>3, <3>1, <3>2 DEF Queues, Resumed
    <2>4. CASE q = <<"TERM", "RESUME">>
      <3>1. PostTerm(q) = Append(q, "TERM")
        BY <2>4 DEF PostTerm, Last
      <3>2. Append(q, "TERM") = <<"TERM", "RESUME", "TERM">>
        BY <2>4, PutBehind
      <3> QED
        BY <2>4, <3>1, <3>2 DEF Queues, Resumed
    <2>5. CASE q = <<"RESUME", "TERM">>
      BY <2>5 DEF PostTerm, Last, Queues, Resumed
    <2>6. CASE q = <<"TERM", "RESUME", "TERM">>
      BY <2>6 DEF PostTerm, Last, Queues, Resumed
    <2> QED
      BY <2>1, <2>2, <2>3, <2>4, <2>5, <2>6 DEF Queues, Resumed
  <1>3. ASSUME NEW q \in Queues \ Resumed PROVE Append(q, "RESUME") \in Resumed
    <2>1. Append(<<>>, "RESUME") = <<"RESUME">>
      OBVIOUS
    <2>2. Append(<<"TERM">>, "RESUME") = <<"TERM", "RESUME">>
      BY PutBehind
    <2> QED
      BY <2>1, <2>2 DEF Queues, Resumed
  <1>4. ASSUME NEW q \in Queues, q # <<>>
        PROVE  /\ Tail(q) \in Queues
               /\ Head(q) = "RESUME" => q \in Resumed /\ Tail(q) \notin Resumed
               /\ Head(q) # "RESUME" => (Tail(q) \in Resumed <=> q \in Resumed)
    <2>2. CASE q = <<"TERM">>
      BY <2>2 DEF Queues, Resumed
    <2>3. CASE q = <<"RESUME">>
      BY <2>3 DEF Queues, Resumed
    <2>4. CASE q = <<"TERM", "RESUME">>
      BY <2>4 DEF Queues, Resumed
    <2>5. CASE q = <<"RESUME", "TERM">>
      BY <2>5 DEF Queues, Resumed
    <2>6. CASE q = <<"TERM", "RESUME", "TERM">>
      BY <2>6 DEF Queues, Resumed
    <2> QED
      BY <1>4, <2>2, <2>3, <2>4, <2>5, <2>6 DEF Queues, Resumed
  <1>5. ASSUME NEW q \in Resumed PROVE \E i \in DOMAIN q : q[i] = "RESUME"
    <2>1. CASE q = <<"RESUME">> \/ q = <<"RESUME", "TERM">>
      <3>1. 1 \in DOMAIN q /\ q[1] = "RESUME"
        BY <2>1
      <3> QED
        BY <3>1
    <2>2. CASE q = <<"TERM", "RESUME">> \/ q = <<"TERM", "RESUME", "TERM">>
      <3>1. 2 \in DOMAIN q /\ q[2] = "RESUME"
        BY <2>2
      <3> QED
        BY <3>1
    <2> QED
      BY <2>1, <2>2 DEF Resumed
  <1> QED
    BY <1>1, <1>2, <1>3, <1>4, <1>5

-----------------------------------------------------------------------------
(***************************************************************************)
(* Steps that several actions have in common.                              *)
(***************************************************************************)

(* Latches, flags and the stop: no EDU and no call is touched. *)
LEMMA Quiet ==
  ASSUME IInv, Types', StopInv',
         UNCHANGED <<maps, status, type, queue, thread, call, services, err>>,
         monitor' = "create" <=> monitor = "create",
         stop' # "off" => call[Main].pc = "none"
  PROVE  IInv'
  <1>1. CallInv'
    BY DEF IInv, CallInv
  <1>2. OwnerInv' /\ BlockInv'
    BY DEF IInv, OwnerInv, BlockInv, maps
  <1>3. ServiceInv' /\ Pending' /\ NoAssert'
    BY DEF IInv, ServiceInv, Pending, NoAssert
  <1> QED
    BY <1>1, <1>2, <1>3 DEF IInv

(* What a step of a caller of startEDU or createIdleEDU does to its call.  *)
Entered(a, p) ==
  /\ call' \in [Actor -> CallRec]
  /\ call'[a].pc = p /\ call'[a].cb = call[a].cb /\ call'[a].type = call[a].type
  /\ \A b \in Actor : b # a => call'[b] = call[b]

Ended(a) ==
  /\ call' \in [Actor -> CallRec]
  /\ call'[a] = NoCall /\ NoCall.pc = "none" /\ NoCall.cb = NoCB
  /\ \A b \in Actor : b # a => call'[b] = call[b]

(* The caller goes on to the next step. *)
LEMMA StepEnters ==
  ASSUME call \in [Actor -> CallRec], NEW a \in Actor,
         NEW p \in Deciding \cup Holding \cup Making, Step(a, p)
  PROVE  Entered(a, p)
  BY DEF Step, Entered, CallRec

(* The call returns. *)
LEMMA EndCallEnds ==
  ASSUME call \in [Actor -> CallRec], NEW a \in Actor, EndCall(a)
  PROVE  Ended(a)
  BY DEF EndCall, Ended, CallRec, NoCall, Deciding

(* The threads, the monitor and the main thread are different actors. *)
LEMMA Actors ==
  /\ Main \in Actor /\ Monitor \in Actor /\ CB \subseteq Actor
  /\ Main # Monitor /\ Main \notin CB /\ Monitor \notin CB /\ NoCB \notin CB
  BY EDUMgrAssumption DEF Actor

(* Only queues change, by a TERM more or less: no RESUME comes or goes. *)
Requeued ==
  /\ queue' \in [CB -> Queues]
  /\ \A c \in CB : queue'[c] \in Resumed <=> queue[c] \in Resumed
  /\ \A c \in CB : c \notin alive => queue'[c] = queue[c]

(* disconnect() posts a TERM to EDUs in the maps. *)
LEMMA DisconnectRequeues ==
  ASSUME IInv, NEW S \in SUBSET alive, Disconnect(S)
  PROVE  Requeued
  <1>1. \A c \in CB : queue[c] \in Queues /\ PostTerm(queue[c]) \in Queues
                      /\ (PostTerm(queue[c]) \in Resumed <=> queue[c] \in Resumed)
    BY QueueFacts DEF IInv, Types
  <1>2. queue' \in [CB -> Queues]
    BY <1>1 DEF Disconnect
  <1> QED
    BY <1>1, <1>2 DEF Disconnect, Requeued

(* A TERM is posted or read, with or without a force. *)
LEMMA QueueStep ==
  ASSUME IInv, Requeued, forced' \subseteq CB, forcing' \subseteq CB,
         UNCHANGED <<maps, status, type, thread, call, wakeup, monitor, ending, err>>
  PROVE  IInv'
  <1>1. Types'
    BY DEF IInv, Types, Requeued, maps, ending
  <1>2. CallInv' /\ ServiceInv' /\ StopInv' /\ NoAssert'
    BY DEF IInv, CallInv, ServiceInv, StopInv, NoAssert, maps, ending
  <1>3. OwnerInv'
    BY DEF IInv, Types, CallRec, OwnerInv, CallInv, Requeued, maps, Holding, Making, Deciding
  <1>4. BlockInv'
    BY DEF IInv, BlockInv, Requeued, maps
  <1>5. Pending'
    BY DEF IInv, Pending, Requeued
  <1> QED
    BY <1>1, <1>2, <1>3, <1>4, <1>5 DEF IInv

(* An EDU outside its entry point looks at its events, its age and itself. *)
Resting == {"wait", "size", "destroy", "return"}

(* Its thread moves on without running anything. *)
LEMMA Rests ==
  ASSUME IInv, NEW c \in CB, thread[c] \in Resting, NEW p \in Resting, Goto(c, p),
         status[c] # "active", Requeued,
         UNCHANGED <<maps, status, type, forced, call, forcing, wakeup, monitor, ending, err>>
  PROVE  IInv'
  <1>1. /\ thread'[c] = p /\ \A d \in CB : d # c => thread'[d] = thread[d]
        /\ thread' \in [CB -> {"none", "start", "wait", "resume", "run", "return", "size", "destroy"}]
    BY DEF Goto, IInv, Types, Resting
  <1>2. Types'
    BY <1>1 DEF IInv, Types, Requeued, maps, ending
  <1>3. CallInv'
    BY <1>1 DEF IInv, CallInv, Resting, ending
  <1>4. OwnerInv'
    BY <1>1 DEF IInv, Types, CallRec, OwnerInv, CallInv, Requeued, maps, Resting, Holding, Making, Deciding
  <1>5. BlockInv'
    BY <1>1 DEF IInv, BlockInv, Requeued, maps, Resting
  <1>6. ServiceInv' /\ StopInv' /\ NoAssert'
    BY <1>1 DEF IInv, Types, ServiceInv, StopInv, NoAssert, Resting, ending, maps
  <1>7. Pending'
    BY <1>1 DEF IInv, Pending, Requeued, Resting
  <1> QED
    BY <1>2, <1>3, <1>4, <1>5, <1>6, <1>7 DEF IInv

(* A block whose thread has started, and which is not CREATING or has its  *)
(* RESUME, belongs to no caller.                                           *)
LEMMA Unowned ==
  ASSUME IInv, NEW c \in CB, thread[c] \notin {"none", "start"},
         status[c] # "creating" \/ thread[c] = "resume" \/ queue[c] \in Resumed
  PROVE  \A a \in Actor : call[a].cb # c
  <1> SUFFICES ASSUME NEW a \in Actor, call[a].cb = c PROVE FALSE
    OBVIOUS
  <1>1. call[a].pc \in Holding \cup Making
    BY Actors DEF IInv, Types, CallRec, CallInv
  <1> QED
    BY <1>1, Actors DEF IInv, OwnerInv, Making

(* An EDU that nobody holds is destroyed, in returnEDU, in forceDestory or *)
(* after an exception.                                                     *)
LEMMA FreedIInv ==
  ASSUME IInv, NEW c \in CB, Freed(c), thread[c] \in Resting \cup {"run"},
         call[c].pc = "none", c \notin services, status[c] # "creating",
         UNCHANGED <<call, forcing, wakeup, monitor, ending, err>>
  PROVE  IInv'
  <1> USE DEF Freed, Blank
  <1>1. /\ thread'[c] = "none" /\ status'[c] = "idle" /\ type'[c] = "none" /\ queue'[c] = <<>>
        /\ \A d \in CB : d # c => /\ thread'[d] = thread[d] /\ status'[d] = status[d]
                                  /\ type'[d] = type[d] /\ queue'[d] = queue[d]
    BY DEF IInv, Types
  <1>2. <<>> \in Queues /\ <<>> \notin Resumed
    BY DEF Queues, Resumed
  <1>3. Types'
    BY <1>2 DEF IInv, Types, ending
  <1>4. \A a \in Actor : call[a].cb # c
    BY Unowned DEF Resting
  <1> HIDE DEF Blank
  <1>5. CallInv'
    BY <1>1, Actors DEF IInv, CallInv, ending
  <1>6. OwnerInv'
    BY <1>1, <1>4, Actors DEF IInv, Types, CallRec, CallInv, OwnerInv, Holding, Making, Deciding
  <1>7. BlockInv'
    BY <1>1, <1>2 DEF IInv, BlockInv
  <1>8. ServiceInv' /\ StopInv' /\ NoAssert'
    BY <1>1 DEF IInv, Types, ServiceInv, StopInv, NoAssert, ending
  <1>9. Pending'
    BY <1>1 DEF IInv, Pending
  <1> QED
    BY <1>3, <1>5, <1>6, <1>7, <1>8, <1>9 DEF IInv

-----------------------------------------------------------------------------
(***************************************************************************)
(* startEDU and createIdleEDU.                                             *)
(***************************************************************************)

(* The caller has no control block yet, and only its call changes. *)
LEMMA Decides ==
  ASSUME IInv, NEW a \in Actor, call[a].cb = NoCB, call' \in [Actor -> CallRec],
         call'[a].pc \in Deciding, call'[a].cb = NoCB,
         call'[a].pc = "none" => call'[a] = NoCall,
         a # Monitor /\ call'[a].pc # "none" => call'[a].type # "none",
         a \in CB /\ call'[a].pc # "none" => thread[a] = "run",
         a = Main /\ call'[a].pc # "none" => stop = "off",
         a = Monitor => call'[a].pc # "pool" /\ (monitor' = "create" <=> call'[a].pc # "none"),
         a # Monitor => monitor' = monitor,
         monitor' \in {"wait", "size", "create", "gone"},
         monitor = "gone" => monitor' = "gone",
         \A b \in Actor : b # a => call'[b] = call[b],
         wakeup' \in BOOLEAN, UNCHANGED <<maps, block, thread, forcing, ending, err>>
  PROVE  IInv'
  <1>1. Types'
    BY DEF IInv, Types, maps, block, ending
  <1>2. CallInv'
    <2>1. /\ monitor' = "create" <=> call'[Monitor].pc # "none"
          /\ call'[Monitor].pc \in {"none", "check", "insert"} \cup Making
      BY Actors DEF IInv, CallInv, Deciding
    <2>2. stop' # "off" => call'[Main].pc = "none"
      BY Actors DEF IInv, CallInv, ending
    <2>3. \A c \in CB : call'[c].pc # "none" => thread'[c] = "run"
      BY Actors DEF IInv, CallInv
    <2>4. \A b \in Actor :
            /\ call'[b].pc = "none" => call'[b] = NoCall
            /\ call'[b].pc \in Deciding <=> call'[b].cb = NoCB
            /\ b # Monitor /\ call'[b].pc # "none" => call'[b].type # "none"
      BY DEF IInv, CallInv
    <2> QED
      BY <2>1, <2>2, <2>3, <2>4 DEF CallInv
  <1>3. OwnerInv'
    <2> SUFFICES ASSUME NEW b \in Actor PROVE OwnerInv!(b)'
      BY DEF OwnerInv
    <2>1. CASE b = a
      BY <2>1 DEF OwnerInv, Holding, Making, Deciding
    <2>2. CASE b # a
      BY <2>2 DEF IInv, OwnerInv, maps, block
    <2> QED
      BY <2>1, <2>2
  <1>4. BlockInv' /\ ServiceInv' /\ StopInv' /\ NoAssert'
    BY DEF IInv, BlockInv, ServiceInv, StopInv, NoAssert, maps, block, ending
  <1>5. Pending'
    BY Actors DEF IInv, Types, Pending, block
  <1> QED
    BY <1>1, <1>2, <1>3, <1>4, <1>5 DEF IInv

(* startEDU is called. *)
LEMMA StartEDUIInv ==
  ASSUME IInv, NEW a \in Actor, NEW t \in Type, StartEDU(a, t)
  PROVE  IInv'
  <1> DEFINE r == [pc |-> IF t = "user" THEN "pool" ELSE "insert", cb |-> NoCB, type |-> t]
  <1>1. call[a].pc = "none" /\ call[a].cb = NoCB /\ a # Monitor
    BY Actors DEF StartEDU, MayStart, Calling, IInv, CallInv, Deciding
  <1>2. t \in AllTypes /\ t # "none"
    BY EDUMgrAssumption DEF AllTypes
  <1>3. r \in CallRec /\ r.pc \in Deciding \ {"none"} /\ r.cb = NoCB /\ r.type = t
    BY <1>2 DEF CallRec, Deciding
  <1>4. call' = [call EXCEPT ![a] = r]
    BY DEF StartEDU
  <1>5. call' \in [Actor -> CallRec] /\ call'[a] = r /\ \A b \in Actor : b # a => call'[b] = call[b]
    BY <1>3, <1>4 DEF IInv, Types
  <1>6. /\ a \in CB => thread[a] = "run"
        /\ a = Main => stop = "off"
        /\ UNCHANGED <<maps, block, thread, forcing, wakeup, monitor, ending, err>>
    BY Actors DEF StartEDU, MayStart
  <1>7. monitor' \in {"wait", "size", "create", "gone"} /\ wakeup' \in BOOLEAN
    BY <1>6 DEF IInv, Types
  <1> HIDE DEF r
  <1> QED
    BY <1>1, <1>2, <1>3, <1>5, <1>6, <1>7, Decides

(* isQuiesced is asked once more. *)
LEMMA CheckQuiescedIInv ==
  ASSUME IInv, NEW a \in Actor, CheckQuiesced(a)
  PROVE  IInv'
  <1> USE DEF CheckQuiesced, Calling
  <1>1. call[a].pc = "check" /\ call[a].cb = NoCB
    BY DEF IInv, CallInv, Deciding
  <1>2. /\ a # Monitor => call[a].type # "none"
        /\ a \in CB => thread[a] = "run"
        /\ a = Main => stop = "off"
        /\ a = Monitor => monitor = "create"
    BY <1>1, Actors DEF IInv, CallInv
  <1>3. CASE "quiesced" \in down
    <2>1. Ended(a)
      BY <1>3, EndCallEnds DEF IInv, Types
    <2> QED
      BY <1>1, <1>2, <1>3, <2>1, Decides DEF IInv, Types, Ended, Deciding, MonitorTold
  <1>4. CASE "quiesced" \notin down
    <2>1. Entered(a, "insert")
      BY <1>4, StepEnters DEF IInv, Types, Deciding
    <2> QED
      BY <1>1, <1>2, <1>4, <2>1, Decides DEF IInv, Types, Entered, Deciding
  <1> QED
    BY <1>3, <1>4

(* There is no memory for another control block. *)
LEMMA OutOfMemoryIInv ==
  ASSUME IInv, NEW a \in Actor, OutOfMemory(a)
  PROVE  IInv'
  <1> USE DEF OutOfMemory, Calling
  <1>1. call[a].pc = "insert" /\ call[a].cb = NoCB
    BY DEF IInv, CallInv, Deciding
  <1>2. a = Monitor => monitor = "create"
    BY <1>1, Actors DEF IInv, CallInv
  <1>3. Ended(a)
    BY EndCallEnds DEF IInv, Types
  <1> QED
    BY <1>1, <1>2, <1>3, Decides DEF IInv, Types, Ended, Deciding, MonitorTold

(* The pool is empty, or gives an EDU that nobody else has. *)
LEMMA GetFromPoolIInv ==
  ASSUME IInv, NEW a \in Actor, GetFromPool(a)
  PROVE  IInv'
  <1> USE DEF GetFromPool, Calling
  <1>1. call[a].pc = "pool" /\ call[a].cb = NoCB /\ a # Monitor /\ call[a].type \in AllTypes
    BY DEF IInv, Types, CallRec, CallInv, Deciding, Making
  <1>2. /\ a \in CB => thread[a] = "run"
        /\ a = Main => stop = "off"
        /\ wakeup' \in BOOLEAN
    BY <1>1, Actors DEF IInv, CallInv
  <1>3. CASE idles = {} /\ Step(a, "check") /\ UNCHANGED <<runs, idles, type, status, err>>
    <2>1. Entered(a, "check")
      BY <1>3, StepEnters DEF IInv, Types, Deciding
    <2>2. UNCHANGED <<maps, block, thread, forcing, monitor, ending, err>>
      BY <1>3 DEF maps, block
    <2>3. monitor' \in {"wait", "size", "create", "gone"}
      BY <2>2 DEF IInv, Types
    <2> HIDE DEF GetFromPool
    <2> QED
      BY <1>1, <1>2, <2>1, <2>2, <2>3, Decides DEF Entered, Deciding, AllTypes
  <1>4. ASSUME NEW c \in idles,
               idles' = idles \ {c}, runs' = runs \cup {c},
               type' = [type EXCEPT ![c] = call[a].type],
               \E s \in IF c \in alive THEN {status[c]} ELSE {"idle", "active"} :
                 err' = IF s = "idle" THEN err ELSE "Status must be idle",
               status' = [status EXCEPT ![c] = "creating"],
               call' = [call EXCEPT ![a].pc = "clear", ![a].cb = c]
        PROVE  IInv'
    <2>1. c \in CB /\ c \in alive /\ status[c] = "idle" /\ c \notin runs
      BY DEF IInv, Types, BlockInv
    <2>2. /\ call' \in [Actor -> CallRec]
          /\ call'[a].pc = "clear" /\ call'[a].cb = c /\ call'[a].type = call[a].type
          /\ \A b \in Actor : b # a => call'[b] = call[b]
      <3>1. call' = [call EXCEPT ![a].pc = "clear", ![a].cb = c]
        BY <1>4
      <3> HIDE DEF GetFromPool
      <3> QED
        BY <2>1, <3>1 DEF IInv, Types, CallRec, Holding
    <2>3. /\ status'[c] = "creating" /\ type'[c] \in AllTypes
          /\ \A d \in CB : d # c => status'[d] = status[d] /\ type'[d] = type[d]
      BY <1>1, <1>4, <2>1 DEF IInv, Types
    <2>4. NoAssert'
      BY <1>4, <2>1 DEF IInv, NoAssert
    <2>5. Types'
      BY <1>1, <1>2, <1>4, <2>1, <2>2 DEF IInv, Types, ending
    <2>6. UNCHANGED <<alive, queue, thread, monitor, services, stop>> /\ runs' = runs \cup {c}
          /\ idles' = idles \ {c}
      BY <1>4 DEF ending
    <2> HIDE DEF GetFromPool
    <2>7. CallInv'
      BY <1>1, <1>2, <2>1, <2>2, <2>6, Actors DEF IInv, CallInv, Deciding
    <2>8. \A b \in Actor : call[b].cb = c => call[b].pc \in Making
      BY <2>1, Actors DEF IInv, Types, CallRec, CallInv, OwnerInv
    <2>9. thread[c] # "resume" /\ queue[c] \notin Resumed /\ thread[c] # "run"
      BY <2>1 DEF IInv, BlockInv
    <2>10. OwnerInv'
      <3> SUFFICES ASSUME NEW b \in Actor PROVE OwnerInv!(b)'
        BY DEF OwnerInv
      <3>1. CASE b = a
        BY <1>1, <2>1, <2>2, <2>3, <2>6, <2>8, <2>9, <3>1, Actors
        DEF OwnerInv, Holding, Making
      <3>2. CASE b # a
        <4>1. call'[b] = call[b] /\ (call[b].cb = c => call[b].pc \in Making)
          BY <2>2, <2>8, <3>2
        <4>2. CASE call[b].cb = NoCB
          BY <2>1, <2>2, <4>1, <4>2, Actors DEF IInv, CallInv, OwnerInv, Holding, Making, Deciding
        <4>3. CASE call[b].cb = c
          BY <1>1, <2>1, <2>2, <2>6, <3>2, <4>1, <4>3, Actors
          DEF IInv, CallInv, OwnerInv, Holding, Making
        <4>4. CASE call[b].cb # NoCB /\ call[b].cb # c
          <5>1. call[b].cb \in alive /\ status'[call[b].cb] = status[call[b].cb]
            BY <2>3, <4>4 DEF IInv, Types, OwnerInv
          <5> QED
            BY <1>1, <2>2, <2>6, <4>1, <4>4, <5>1 DEF IInv, OwnerInv
        <4> QED
          BY <4>2, <4>3, <4>4
      <3> QED
        BY <3>1, <3>2
    <2>11. BlockInv'
      BY <2>1, <2>3, <2>6, <2>9 DEF IInv, Types, BlockInv, AllTypes
    <2>12. ServiceInv' /\ StopInv'
      BY <2>3, <2>6, <2>9 DEF IInv, Types, ServiceInv, StopInv
    <2>13. Pending'
      <3> SUFFICES ASSUME NEW d \in CB, status'[d] = "creating"
                   PROVE  \/ thread'[d] = "resume" \/ queue'[d] \in Resumed
                          \/ \E b \in Actor : call'[b].cb = d /\ call'[b].pc \in Holding
        BY DEF Pending
      <3>1. CASE d = c
        BY <2>2, <3>1 DEF Holding
      <3>2. CASE d # c
        BY <1>1, <2>2, <2>3, <2>6, <3>2 DEF IInv, Pending, Holding
      <3> QED
        BY <3>1, <3>2
    <2> QED
      BY <2>4, <2>5, <2>7, <2>10, <2>11, <2>12, <2>13 DEF IInv
  <1> QED
    BY <1>3, <1>4

(* clear() of a pooled control block, and the flags after it. *)
LEMMA HoldIInv ==
  ASSUME IInv, NEW a \in Actor, ClearQueue(a) \/ ClearFlags(a)
  PROVE  IInv'
  <1> DEFINE c == call[a].cb
  <1>1. call[a].pc \in Holding /\ \E p \in Holding : Entered(a, p)
    BY StepEnters DEF ClearQueue, ClearFlags, Calling, IInv, Types, Holding
  <1>2. PICK p \in Holding : Entered(a, p)
    BY <1>1
  <1>3. c \in CB /\ c \in alive /\ c # NoCB /\ queue[c] \notin Resumed
    BY <1>1 DEF IInv, Types, CallInv, OwnerInv, Holding, Deciding
  <1>4. Requeued /\ forced' \subseteq CB
    <2>1. <<>> \in Queues /\ <<>> \notin Resumed
      BY DEF Queues, Resumed
    <2>2. CASE ClearQueue(a)
      BY <1>3, <2>1, <2>2 DEF ClearQueue, Requeued, IInv, Types
    <2>3. CASE ClearFlags(a)
      BY <2>3 DEF ClearFlags, Requeued, IInv, Types
    <2> QED
      BY <2>2, <2>3
  <1>5. UNCHANGED <<maps, status, type, thread, forcing, wakeup, monitor, ending, err>>
    BY DEF ClearQueue, ClearFlags
  <1>6. Types'
    BY <1>2, <1>4, <1>5 DEF IInv, Types, Requeued, Entered, maps, ending
  <1>7. CallInv'
    <2>1. a # Monitor /\ call'[a].pc # "none" /\ call'[a].pc \notin Deciding /\ call[a].pc # "none"
          /\ call[a].pc \notin Deciding
      BY <1>1, <1>2 DEF IInv, CallInv, Entered, Holding, Making, Deciding
    <2> QED
      BY <1>2, <1>3, <1>5, <2>1, Actors DEF IInv, CallInv, Entered, ending
  <1>8. OwnerInv'
    <2> SUFFICES ASSUME NEW b \in Actor PROVE OwnerInv!(b)'
      BY DEF OwnerInv
    <2>1. \A d \in Actor : /\ call'[d].cb = call[d].cb
                           /\ call'[d].pc \in Holding <=> call[d].pc \in Holding
                           /\ call'[d].pc # call[d].pc => call'[d].pc \in Holding
                           /\ call[d].pc # call'[d].pc => call[d].pc \in Holding
      BY <1>1, <1>2 DEF Entered
    <2>2. \A d \in Actor : call'[d].pc \in Making <=> call[d].pc \in Making
      BY <1>1, <1>2 DEF Entered, Holding, Making
    <2>3. call[b].cb # NoCB => call[b].cb \in CB
      BY DEF IInv, Types, OwnerInv
    <2>4. call[b].pc \in Holding => call[b].cb # NoCB
      BY DEF IInv, CallInv, Holding, Deciding
    <2> QED
      BY <1>4, <1>5, <2>1, <2>2, <2>3, <2>4 DEF IInv, OwnerInv, Requeued, maps, Holding
  <1>9. BlockInv' /\ ServiceInv' /\ StopInv' /\ NoAssert'
    BY <1>4, <1>5 DEF IInv, BlockInv, ServiceInv, StopInv, NoAssert, Requeued, maps, ending
  <1>10. Pending'
    <2>1. \A d \in Actor : call'[d].cb = call[d].cb /\ (call'[d].pc \in Holding <=> call[d].pc \in Holding)
      BY <1>1, <1>2 DEF Entered
    <2> QED
      BY <1>4, <1>5, <2>1 DEF IInv, Pending, Requeued
  <1> QED
    BY <1>6, <1>7, <1>8, <1>9, <1>10 DEF IInv

(* RESUME is posted to an EDU from the pool. *)
LEMMA ResumeIInv ==
  ASSUME IInv, NEW a \in Actor, Resume(a)
  PROVE  IInv'
  <1> DEFINE c == call[a].cb
  <1>1. call[a].pc = "post" /\ Ended(a)
    BY EndCallEnds DEF Resume, Calling, IInv, Types
  <1>2. c \in CB /\ c \in alive /\ c # NoCB /\ a # Monitor /\ queue[c] \notin Resumed
        /\ status[c] = "creating" /\ thread[c] # "resume"
    BY <1>1 DEF IInv, Types, CallInv, OwnerInv, Holding, Making, Deciding
  <1>3. /\ queue'[c] \in Resumed /\ queue' \in [CB -> Queues]
        /\ \A d \in CB : d # c => queue'[d] = queue[d]
    <2>1. Append(queue[c], "RESUME") \in Resumed /\ Append(queue[c], "RESUME") \in Queues
      BY <1>2, QueueFacts DEF IInv, Types, Queues
    <2> QED
      BY <1>2, <2>1 DEF Resume, IInv, Types
  <1>4. UNCHANGED <<maps, status, type, forced, thread, forcing, wakeup, monitor, ending, err>>
    BY DEF Resume
  <1> HIDE DEF c
  <1>5. Types'
    BY <1>1, <1>3, <1>4 DEF IInv, Types, Ended, maps, ending
  <1>6. CallInv'
    <2>1. NoCall.pc \in Deciding
      BY <1>1 DEF Ended, Deciding
    <2> QED
      BY <1>1, <1>2, <1>4, <2>1, Actors DEF IInv, CallInv, Ended, ending
  <1>7. OwnerInv'
    <2> SUFFICES ASSUME NEW b \in Actor PROVE OwnerInv!(b)'
      BY DEF OwnerInv
    <2>1. CASE b = a
      BY <1>1, <2>1 DEF OwnerInv, Ended, Holding, Making
    <2>2. CASE b # a
      <3>1. call'[b] = call[b] /\ (call[b].cb = c => call[b].pc \notin Holding)
        BY <1>1, <1>2, <2>2 DEF IInv, OwnerInv, Ended, Holding, c
      <3>2. call[b].pc \in Holding => call[b].cb \in CB
        BY DEF IInv, Types, CallInv, OwnerInv, Holding, Deciding
      <3>3. call[b].pc \in Holding => queue'[call[b].cb] \notin Resumed
        BY <1>3, <3>1, <3>2 DEF IInv, OwnerInv
      <3> QED
        BY <1>1, <1>4, <2>2, <3>1, <3>3 DEF IInv, OwnerInv, Ended, maps
    <2> QED
      BY <2>1, <2>2
  <1>8. BlockInv' /\ ServiceInv' /\ StopInv' /\ NoAssert'
    BY <1>2, <1>3, <1>4 DEF IInv, BlockInv, ServiceInv, StopInv, NoAssert, maps, ending
  <1>9. Pending'
    <2> SUFFICES ASSUME NEW d \in CB, status[d] = "creating", d # c
                 PROVE  \/ thread[d] = "resume" \/ queue[d] \in Resumed
                        \/ \E b \in Actor : call'[b].cb = d /\ call'[b].pc \in Holding
      BY <1>3, <1>4 DEF Pending
    <2> QED
      BY <1>1 DEF IInv, Pending, Ended, c
  <1> QED
    BY <1>5, <1>6, <1>7, <1>8, <1>9 DEF IInv

(* A new EDU enters its map. *)
LEMMA InsertIInv ==
  ASSUME IInv, NEW a \in Actor, Insert(a)
  PROVE  IInv'
  <1>1. call[a].pc = "insert" /\ call[a].cb = NoCB /\ call[a].type \in AllTypes \cup {"none"}
    BY DEF Insert, Calling, IInv, Types, CallRec, CallInv, Deciding
  <1>2. PICK c \in CB \ (alive \cup runs \cup idles) :
       /\ alive' = alive \cup {c}
       /\ call' = [call EXCEPT ![a].pc = "spawn", ![a].cb = c]
       /\ IF a = Monitor
          THEN /\ idles' = idles \cup {c}
               /\ UNCHANGED <<runs, type, queue, status>>
          ELSE /\ runs' = runs \cup {c} /\ UNCHANGED idles
               /\ type' = [type EXCEPT ![c] = call[a].type]
               /\ queue' = [queue EXCEPT ![c] = Append(@, "RESUME")]
               /\ status' = [status EXCEPT ![c] = "creating"]
    BY DEF Insert
  <1>3. UNCHANGED <<thread, monitor, services, stop, err>>
    BY DEF Insert, ending
  <1>4. /\ thread[c] = "none" /\ queue[c] = <<>> /\ status[c] = "idle" /\ type[c] = "none"
        /\ c # NoCB /\ \A b \in Actor : call[b].cb # c
    BY <1>2, Actors DEF IInv, BlockInv, OwnerInv
  <1>5. /\ call' \in [Actor -> CallRec]
        /\ call'[a].pc = "spawn" /\ call'[a].cb = c /\ call'[a].type = call[a].type
        /\ \A b \in Actor : b # a => call'[b] = call[b]
    <2>1. c \in CB /\ call' = [call EXCEPT ![a].pc = "spawn", ![a].cb = c]
      BY <1>2
    <2> QED
      BY <2>1 DEF IInv, Types, CallRec, Making
  <1>6. /\ queue' \in [CB -> Queues]
        /\ \A d \in CB : d # c => queue'[d] = queue[d] /\ status'[d] = status[d] /\ type'[d] = type[d]
        /\ a = Monitor => queue'[c] \notin Resumed /\ status'[c] = "idle" /\ type'[c] = "none"
        /\ a # Monitor => queue'[c] \in Resumed /\ status'[c] = "creating" /\ type'[c] = call[a].type
    <2>1. <<>> \notin Resumed /\ <<>> \in Queues /\ Append(<<>>, "RESUME") \in Resumed
      BY QueueFacts DEF Queues, Resumed
    <2>2. Resumed \subseteq Queues
      BY DEF Queues
    <2> QED
      BY <1>2, <1>4, <2>1, <2>2 DEF IInv, Types
  <1>7. a # Monitor => call[a].type # "none"
    BY <1>1 DEF IInv, CallInv
  <1>8. Types'
    BY <1>1, <1>2, <1>5, <1>6 DEF IInv, Types, Insert, ending
  <1>9. CallInv'
    BY <1>1, <1>3, <1>4, <1>5, Actors DEF IInv, CallInv, Making, Deciding
  <1>10. OwnerInv'
    <2> SUFFICES ASSUME NEW b \in Actor PROVE OwnerInv!(b)'
      BY DEF OwnerInv
    <2>1. CASE b = a
      BY <1>2, <1>3, <1>4, <1>5, <2>1 DEF OwnerInv, Holding, Making
    <2>2. CASE b # a
      <3>1. call'[b] = call[b] /\ call[b].cb # c
        BY <1>4, <1>5, <2>2
      <3>2. call[b].cb # NoCB => call[b].cb \in CB /\ call[b].cb \in alive
        BY DEF IInv, Types, OwnerInv
      <3>3. call[b].pc \in Holding => call[b].cb # NoCB
        BY DEF IInv, CallInv, Holding, Deciding
      <3> QED
        BY <1>2, <1>3, <1>4, <1>5, <1>6, <3>1, <3>2, <3>3, ZenonT(60) DEF IInv, OwnerInv
    <2> QED
      BY <2>1, <2>2
  <1>11. BlockInv'
    BY <1>1, <1>2, <1>3, <1>4, <1>6, <1>7 DEF IInv, BlockInv
  <1>12. ServiceInv' /\ NoAssert'
    BY <1>3, <1>4, <1>6 DEF IInv, Types, ServiceInv, NoAssert
  <1>13. StopInv'
    <2>1. stop # "done"
      BY <1>1, Actors DEF IInv, Types, CallInv, StopInv, BlockInv, Actor
    <2> QED
      BY <1>3, <2>1 DEF IInv, StopInv
  <1>14. Pending'
    <2> SUFFICES ASSUME NEW d \in CB, status'[d] = "creating", d # c
                 PROVE  \/ thread[d] = "resume" \/ queue[d] \in Resumed
                        \/ \E b \in Actor : call'[b].cb = d /\ call'[b].pc \in Holding
      BY <1>3, <1>6 DEF Pending
    <2> QED
      BY <1>1, <1>5, <1>6 DEF IInv, Pending, Holding
  <1> QED
    BY <1>8, <1>9, <1>10, <1>11, <1>12, <1>13, <1>14 DEF IInv

(* The thread of a new EDU starts; that it could not is excluded. *)
LEMMA SpawnIInv ==
  ASSUME ~ThreadFails, IInv, NEW a \in Actor, Spawn(a)
  PROVE  IInv'
  <1> DEFINE c == call[a].cb
  <1>1. /\ call[a].pc = "spawn" /\ Entered(a, "attach")
        /\ thread' = [thread EXCEPT ![c] = "start"]
        /\ UNCHANGED <<alive, runs, idles, block, forcing, wakeup, monitor, ending, err>>
    BY StepEnters DEF Spawn, Calling, IInv, Types, Making
  <1>2. c \in CB /\ c # NoCB /\ thread[c] = "none"
    BY <1>1 DEF IInv, Types, CallInv, OwnerInv, Deciding
  <1>3. /\ thread'[c] = "start" /\ \A d \in CB : d # c => thread'[d] = thread[d]
        /\ thread' \in [CB -> {"none", "start", "wait", "resume", "run", "return", "size", "destroy"}]
    BY <1>1, <1>2 DEF IInv, Types
  <1> HIDE DEF c
  <1>4. Types'
    BY <1>1, <1>3 DEF IInv, Types, Entered, block, ending
  <1>5. CallInv'
    <2>1. call[a].pc \notin Deciding /\ "attach" \notin Deciding /\ "attach" \in Making
      BY <1>1 DEF Making, Deciding
    <2> QED
      BY <1>1, <1>2, <1>3, <2>1, Actors DEF IInv, CallInv, Entered, ending
  <1>6. OwnerInv'
    <2> SUFFICES ASSUME NEW b \in Actor PROVE OwnerInv!(b)'
      BY DEF OwnerInv
    <2>1. CASE b = a
      BY <1>1, <1>2, <1>3, <2>1 DEF IInv, OwnerInv, Entered, block, Holding, Making, c
    <2>2. CASE b # a
      <3>1. call'[b] = call[b] /\ (call[b].cb = c => call[b].pc \notin Making)
        BY <1>1, <1>2, <2>2 DEF IInv, OwnerInv, Entered, Making, c
      <3>2. call[b].pc \in Making => thread'[call[b].cb] = thread[call[b].cb]
        BY <1>3, <3>1 DEF IInv, Types, CallInv, OwnerInv, Making, Deciding
      <3>3. call[b].pc \in Holding => thread'[call[b].cb] # "resume"
        BY <1>3, <3>1 DEF IInv, Types, CallInv, OwnerInv, Holding, Deciding
      <3> QED
        BY <1>1, <3>1, <3>2, <3>3 DEF IInv, OwnerInv, Entered, block, Holding, Making
    <2> QED
      BY <2>1, <2>2
  <1>7. BlockInv'
    <2>1. c \in alive
      BY <1>2 DEF IInv, OwnerInv, c
    <2> QED
      BY <1>1, <1>2, <1>3, <2>1 DEF IInv, BlockInv, block
  <1>8. ServiceInv' /\ StopInv' /\ NoAssert'
    BY <1>1, <1>2, <1>3 DEF IInv, Types, ServiceInv, StopInv, NoAssert, block, ending
  <1>9. Pending'
    <2>1. \A d \in Actor : call'[d].cb = call[d].cb /\ (call'[d].pc \in Holding <=> call[d].pc \in Holding)
      BY <1>1 DEF Entered, Holding
    <2> QED
      BY <1>1, <1>2, <1>3, <2>1 DEF IInv, Pending, block
  <1> QED
    BY <1>4, <1>5, <1>6, <1>7, <1>8, <1>9 DEF IInv

-----------------------------------------------------------------------------
(***************************************************************************)
(* The thread of an EDU.                                                   *)
(***************************************************************************)

(* It reports to the caller that made it. *)
LEMMA ReportIInv ==
  ASSUME IInv, NEW c \in CB, Report(c)
  PROVE  IInv'
  <1>1. PICK a \in Actor : Calling(a, "attach") /\ call[a].cb = c /\ EndCall(a)
                           /\ MonitorTold(a, "size")
    BY DEF Report
  <1>2. /\ call[a].pc = "attach" /\ Ended(a) /\ thread[c] = "start" /\ c # NoCB
        /\ thread' = [thread EXCEPT ![c] = "wait"]
        /\ UNCHANGED <<maps, block, forcing, wakeup, ending, err>>
    BY <1>1, EndCallEnds, Actors DEF Report, At, Goto, Calling, IInv, Types
  <1>3. /\ thread'[c] = "wait" /\ \A d \in CB : d # c => thread'[d] = thread[d]
        /\ thread' \in [CB -> {"none", "start", "wait", "resume", "run", "return", "size", "destroy"}]
    BY <1>2 DEF IInv, Types
  <1>4. /\ a = Monitor => monitor = "create" /\ monitor' = "size"
        /\ a # Monitor => monitor' = monitor
    BY <1>1, <1>2 DEF MonitorTold, IInv, CallInv
  <1>5. Types'
    BY <1>2, <1>3, <1>4 DEF IInv, Types, Ended, maps, block, ending
  <1>6. CallInv'
    <2>1. NoCall.pc \in Deciding
      BY <1>2 DEF Ended, Deciding
    <2> QED
      BY <1>2, <1>3, <1>4, <2>1, Actors DEF IInv, CallInv, Ended, ending
  <1>7. OwnerInv'
    <2> SUFFICES ASSUME NEW b \in Actor PROVE OwnerInv!(b)'
      BY DEF OwnerInv
    <2>1. CASE b = a
      BY <1>2, <2>1 DEF OwnerInv, Ended, Holding, Making
    <2>2. CASE b # a
      <3>1. call'[b] = call[b] /\ (call[b].cb = c => call[b].pc \notin Making)
        BY <1>1, <1>2, <2>2 DEF IInv, OwnerInv, Ended, Making
      <3>2. call[b].pc \in Making => thread'[call[b].cb] = thread[call[b].cb]
        BY <1>3, <3>1 DEF IInv, Types, CallInv, OwnerInv, Making, Deciding
      <3>3. call[b].pc \in Holding => thread'[call[b].cb] # "resume"
        BY <1>3, <3>1 DEF IInv, Types, CallInv, OwnerInv, Holding, Deciding
      <3> QED
        BY <1>2, <2>2, <3>1, <3>2, <3>3 DEF IInv, OwnerInv, Ended, maps, block, Holding, Making
    <2> QED
      BY <2>1, <2>2
  <1>8. BlockInv'
    BY <1>2, <1>3 DEF IInv, BlockInv, maps, block
  <1>9. ServiceInv' /\ NoAssert'
    BY <1>2, <1>3 DEF IInv, Types, ServiceInv, NoAssert, block, ending
  <1>10. StopInv'
    BY <1>2, <1>4 DEF IInv, StopInv, maps, ending
  <1>11. Pending'
    <2>1. \A b \in Actor : call[b].pc \in Holding => call'[b] = call[b]
      BY <1>2 DEF Ended, Holding
    <2> QED
      BY <1>2, <1>3, <2>1 DEF IInv, Pending, block
  <1> QED
    BY <1>5, <1>6, <1>7, <1>8, <1>9, <1>10, <1>11 DEF IInv

(* Its age makes it look at the sizes of the pool, and go back or on. *)
LEMMA TimeoutIInv ==
  ASSUME IInv, NEW c \in CB, WaitTimeout(c) \/ ForceDestorySize(c)
  PROVE  IInv'
  <1>1. thread[c] \in Resting /\ \E p \in Resting : Goto(c, p)
    BY DEF WaitTimeout, ForceDestorySize, At, Resting
  <1>2. Requeued /\ status[c] # "active"
        /\ UNCHANGED <<maps, status, type, forced, call, forcing, wakeup, monitor, ending, err>>
    <2>1. thread[c] \in {"wait", "size"} /\ UNCHANGED <<maps, block, call, forcing, wakeup, monitor, ending, err>>
      BY DEF WaitTimeout, ForceDestorySize, At
    <2> QED
      BY <2>1 DEF Requeued, IInv, Types, BlockInv, block
  <1> QED
    BY <1>1, <1>2, Rests

(* forceDestory destroys it unless startEDU took it in the meantime. *)
LEMMA ForceDestoryIInv ==
  ASSUME IInv, NEW c \in CB, ForceDestory(c)
  PROVE  IInv'
  <1> USE DEF ForceDestory, At
  <1>1. /\ thread[c] = "destroy" /\ c \in alive /\ status[c] # "active"
        /\ c \notin services /\ call[c].pc = "none"
        /\ UNCHANGED <<call, forcing, wakeup, monitor, ending>>
    BY DEF IInv, BlockInv, ServiceInv, CallInv
  <1>2. CASE c \in idles \/ (c \in runs /\ status[c] # "creating")
    <2>1. Freed(c) /\ UNCHANGED err /\ status[c] # "creating"
      BY <1>2 DEF IInv, BlockInv
    <2> HIDE DEF ForceDestory
    <2> QED
      BY <1>1, <2>1, FreedIInv DEF Resting
  <1>3. CASE ~(c \in idles \/ (c \in runs /\ status[c] # "creating"))
    <2>1. Goto(c, "wait") /\ UNCHANGED <<maps, block>>
      BY <1>3
    <2>2. UNCHANGED err
      BY <1>1, <1>3 DEF IInv, BlockInv
    <2>3. Requeued
      BY <2>1 DEF Requeued, IInv, Types, block
    <2> HIDE DEF ForceDestory
    <2> QED
      BY <1>1, <2>1, <2>2, <2>3, Rests DEF Resting, block
  <1> QED
    BY <1>2, <1>3

(* It reads an event: a RESUME sends it to its entry point, a TERM back to *)
(* the pool.                                                               *)
LEMMA WaitEventIInv ==
  ASSUME IInv, NEW c \in CB, WaitEvent(c)
  PROVE  IInv'
  <1>1. /\ thread[c] = "wait" /\ queue[c] # <<>> /\ queue[c] \in Queues
        /\ thread' = [thread EXCEPT ![c] = IF Head(queue[c]) = "RESUME" THEN "resume" ELSE "return"]
        /\ queue' = [queue EXCEPT ![c] = Tail(@)]
        /\ UNCHANGED <<maps, status, type, forced, call, forcing, wakeup, monitor, ending, err>>
    BY DEF WaitEvent, At, Goto, IInv, Types
  <1>2. /\ Tail(queue[c]) \in Queues
        /\ Head(queue[c]) = "RESUME" => queue[c] \in Resumed /\ Tail(queue[c]) \notin Resumed
        /\ Head(queue[c]) # "RESUME" => (Tail(queue[c]) \in Resumed <=> queue[c] \in Resumed)
    BY <1>1, QueueFacts
  <1>3. /\ queue'[c] = Tail(queue[c]) /\ queue' \in [CB -> Queues]
        /\ \A d \in CB : d # c => queue'[d] = queue[d]
        /\ c \in alive /\ status[c] # "active"
    BY <1>1, <1>2 DEF IInv, Types, BlockInv
  <1>4. CASE Head(queue[c]) # "RESUME"
    <2>1. Requeued
      BY <1>2, <1>3, <1>4 DEF Requeued
    <2>2. Goto(c, "return")
      BY <1>1, <1>4 DEF Goto
    <2> QED
      BY <1>1, <1>3, <2>1, <2>2, Rests DEF Resting
  <1>5. CASE Head(queue[c]) = "RESUME"
    <2>1. /\ thread'[c] = "resume" /\ \A d \in CB : d # c => thread'[d] = thread[d]
          /\ thread' \in [CB -> {"none", "start", "wait", "resume", "run", "return", "size", "destroy"}]
      BY <1>1, <1>5 DEF IInv, Types
    <2>2. status[c] = "creating" /\ queue[c] \in Resumed /\ queue'[c] \notin Resumed
      BY <1>2, <1>3, <1>5 DEF IInv, BlockInv
    <2>3. \A a \in Actor : call[a].cb # c
      BY <1>1, <2>2, Unowned
    <2>4. Types'
      BY <1>1, <1>3, <2>1 DEF IInv, Types, maps, ending
    <2>5. CallInv'
      BY <1>1, <2>1 DEF IInv, CallInv, ending
    <2>6. OwnerInv'
      <3> SUFFICES ASSUME NEW b \in Actor PROVE OwnerInv!(b)'
        BY DEF OwnerInv
      <3>1. call[b].cb # NoCB => /\ call[b].cb \in CB /\ thread'[call[b].cb] = thread[call[b].cb]
                                 /\ queue'[call[b].cb] = queue[call[b].cb]
        BY <1>3, <2>1, <2>3 DEF IInv, Types, OwnerInv
      <3>2. call[b].pc \in Holding \cup Making => call[b].cb # NoCB
        BY DEF IInv, CallInv, Holding, Making, Deciding
      <3> QED
        BY <1>1, <3>1, <3>2 DEF IInv, OwnerInv, maps, Making
    <2>7. BlockInv'
      BY <1>1, <1>3, <2>1, <2>2 DEF IInv, BlockInv, maps
    <2>8. ServiceInv' /\ StopInv' /\ NoAssert'
      BY <1>1, <2>1 DEF IInv, Types, ServiceInv, StopInv, NoAssert, maps, ending
    <2>9. Pending'
      BY <1>1, <1>3, <2>1 DEF IInv, Pending
    <2> QED
      BY <2>4, <2>5, <2>6, <2>7, <2>8, <2>9 DEF IInv
  <1> QED
    BY <1>4, <1>5

(* It runs the entry point of its type. *)
LEMMA RunEntryIInv ==
  ASSUME IInv, NEW c \in CB, RunEntry(c)
  PROVE  IInv'
  <1>1. /\ thread[c] = "resume" /\ status[c] = "creating" /\ c \in runs /\ type[c] # "none"
        /\ queue[c] \notin Resumed
    BY DEF RunEntry, At, IInv, Types, BlockInv
  <1>2. /\ thread'[c] = "run" /\ \A d \in CB : d # c => thread'[d] = thread[d]
        /\ thread' \in [CB -> {"none", "start", "wait", "resume", "run", "return", "size", "destroy"}]
        /\ status'[c] = "active" /\ \A d \in CB : d # c => status'[d] = status[d]
        /\ status' \in [CB -> {"idle", "creating", "active"}]
    BY <1>1 DEF RunEntry, Goto, Active, IInv, Types
  <1>3. UNCHANGED <<maps, type, queue, forced, call, forcing, wakeup, monitor, ending, err>>
    BY <1>1 DEF RunEntry
  <1>4. \A a \in Actor : call[a].cb # c
    BY <1>1, Unowned
  <1>5. Types'
    BY <1>2, <1>3 DEF IInv, Types, maps, ending
  <1>6. CallInv'
    BY <1>1, <1>2, <1>3 DEF IInv, CallInv, ending
  <1>7. OwnerInv'
    <2> SUFFICES ASSUME NEW b \in Actor PROVE OwnerInv!(b)'
      BY DEF OwnerInv
    <2>1. call[b].cb # NoCB => /\ call[b].cb \in CB /\ thread'[call[b].cb] = thread[call[b].cb]
                               /\ status'[call[b].cb] = status[call[b].cb]
      BY <1>2, <1>4 DEF IInv, Types, OwnerInv
    <2>2. call[b].pc \in Holding \cup Making => call[b].cb # NoCB
      BY DEF IInv, CallInv, Holding, Making, Deciding
    <2> QED
      BY <1>3, <2>1, <2>2 DEF IInv, OwnerInv, maps, Making
  <1>8. BlockInv'
    BY <1>1, <1>2, <1>3 DEF IInv, BlockInv, maps
  <1>9. ServiceInv' /\ StopInv' /\ NoAssert'
    BY <1>1, <1>2, <1>3 DEF IInv, Types, ServiceInv, StopInv, NoAssert, maps, ending
  <1>10. Pending'
    BY <1>2, <1>3 DEF IInv, Pending
  <1> QED
    BY <1>5, <1>6, <1>7, <1>8, <1>9, <1>10 DEF IInv

(* It registers its IO service. *)
LEMMA AddIOServiceIInv ==
  ASSUME IInv, NEW c \in CB, AddIOService(c)
  PROVE  IInv'
  <1> USE DEF AddIOService, Running, At
  <1>1. Types'
    BY DEF IInv, Types, maps, block
  <1>2. ServiceInv'
    BY DEF IInv, ServiceInv, block
  <1>3. CallInv' /\ StopInv' /\ NoAssert'
    BY DEF IInv, CallInv, StopInv, NoAssert, maps
  <1>4. OwnerInv' /\ BlockInv' /\ Pending'
    BY DEF IInv, OwnerInv, BlockInv, Pending, maps, block
  <1> QED
    BY <1>1, <1>2, <1>3, <1>4 DEF IInv

(* The entry point returns, with the TERM it was sent read or unread. *)
LEMMA EntryReturnsIInv ==
  ASSUME IInv, NEW c \in CB, EntryReturns(c)
  PROVE  IInv'
  <1>1. /\ thread[c] = "run" /\ call[c].pc = "none" /\ status[c] = "active"
        /\ queue[c] \in Queues /\ queue[c] \notin Resumed /\ c \in alive
    BY DEF EntryReturns, Running, At, Calling, IInv, Types, BlockInv
  <1>2. /\ thread'[c] = "return" /\ \A d \in CB : d # c => thread'[d] = thread[d]
        /\ thread' \in [CB -> {"none", "start", "wait", "resume", "run", "return", "size", "destroy"}]
    BY DEF EntryReturns, Goto, IInv, Types
  <1>3. status' = status
    <2>1. status' = [status EXCEPT ![c] = Active(@)] /\ Active(status[c]) = status[c]
      BY <1>1 DEF EntryReturns, Active
    <2> QED
      BY <2>1 DEF IInv, Types
  <1>4. Requeued
    <2>1. PICK q \in {queue[c]} \cup {Tail(queue[c]) : x \in {1} \cap DOMAIN queue[c]} :
             queue' = [queue EXCEPT ![c] = q]
      BY DEF EntryReturns
    <2>2. q \in Queues /\ q \notin Resumed
      <3>1. CASE q = queue[c]
        BY <1>1, <3>1
      <3>2. CASE q = Tail(queue[c]) /\ queue[c] # <<>>
        BY <1>1, <3>2, QueueFacts
      <3>3. 1 \in DOMAIN queue[c] => queue[c] # <<>>
        OBVIOUS
      <3> QED
        BY <2>1, <3>1, <3>2, <3>3
    <2> QED
      BY <1>1, <2>1, <2>2 DEF Requeued, IInv, Types
  <1>5. /\ UNCHANGED <<maps, type, forced, call, forcing, wakeup, monitor, down, stop, stops, err>>
        /\ services' = services \ {c} /\ stopped' = stopped \ {c}
    BY DEF EntryReturns
  <1>6. Types'
    BY <1>2, <1>3, <1>4, <1>5 DEF IInv, Types, Requeued, maps
  <1>7. CallInv'
    BY <1>1, <1>2, <1>5 DEF IInv, CallInv
  <1>8. OwnerInv'
    <2> SUFFICES ASSUME NEW b \in Actor PROVE OwnerInv!(b)'
      BY DEF OwnerInv
    <2>1. call[b].cb # NoCB => call[b].cb \in CB /\ call[b].cb \in alive
      BY DEF IInv, Types, OwnerInv
    <2>2. call[b].pc \in Holding \cup Making => call[b].cb # NoCB
      BY DEF IInv, CallInv, Holding, Making, Deciding
    <2> QED
      BY <1>1, <1>2, <1>3, <1>4, <1>5, <2>1, <2>2 DEF IInv, OwnerInv, Requeued, maps, Making
  <1>9. BlockInv'
    BY <1>1, <1>2, <1>3, <1>4, <1>5 DEF IInv, BlockInv, Requeued, maps
  <1>10. ServiceInv' /\ StopInv' /\ NoAssert'
    BY <1>2, <1>5 DEF IInv, Types, ServiceInv, StopInv, NoAssert, maps
  <1>11. Pending'
    BY <1>1, <1>2, <1>3, <1>4, <1>5 DEF IInv, Pending, Requeued
  <1> QED
    BY <1>6, <1>7, <1>8, <1>9, <1>10, <1>11 DEF IInv

(* It throws. *)
LEMMA EntryThrowsIInv ==
  ASSUME IInv, NEW c \in CB, EntryThrows(c)
  PROVE  IInv'
  <1>1. /\ thread[c] = "run" /\ call[c].pc = "none" /\ c \notin services /\ status[c] # "creating"
        /\ Freed(c) /\ UNCHANGED <<call, forcing, wakeup, monitor, ending, err>>
    BY DEF EntryThrows, Running, At, Calling, IInv, ServiceInv, BlockInv
  <1> QED
    BY <1>1, FreedIInv DEF Resting

(* returnEDU leaves an EDU that was taken again alone, destroys it or puts *)
(* it back into the pool.                                                  *)
LEMMA ReturnEDUIInv ==
  ASSUME IInv, NEW c \in CB, ReturnEDU(c)
  PROVE  IInv'
  <1>1. /\ thread[c] = "return" /\ c \in alive /\ c \in runs \cup idles
        /\ c \notin services /\ call[c].pc = "none"
        /\ UNCHANGED <<call, forcing, wakeup, monitor, ending>>
    BY DEF ReturnEDU, At, IInv, BlockInv, ServiceInv, CallInv
  <1>2. CASE status[c] = "creating"
    <2>1. Goto(c, "wait") /\ UNCHANGED <<maps, block, err>>
      BY <1>2 DEF ReturnEDU
    <2>2. Requeued
      BY <2>1 DEF Requeued, IInv, Types, block
    <2> QED
      BY <1>1, <1>2, <2>1, <2>2, Rests DEF Resting, block
  <1>3. CASE status[c] # "creating" /\ Destroys(c)
    <2>1. Freed(c) /\ UNCHANGED err
      BY <1>1, <1>3 DEF ReturnEDU
    <2> QED
      BY <1>1, <1>3, <2>1, FreedIInv DEF Resting
  <1>4. CASE status[c] # "creating" /\ ~Destroys(c)
    <2>1. status[c] = "active" /\ c \in runs /\ c \notin idles
      BY <1>4 DEF Destroys, IInv, Types, BlockInv
    <2>2. /\ Goto(c, "wait") /\ Blank(c) /\ UNCHANGED alive
          /\ runs' = runs \ {c} /\ idles' = idles \cup {c}
      BY <1>4 DEF ReturnEDU
    <2>3. UNCHANGED err
      BY <1>4, <2>1 DEF ReturnEDU
    <2>4. /\ thread'[c] = "wait" /\ status'[c] = "idle" /\ type'[c] = "none" /\ queue'[c] = <<>>
          /\ \A d \in CB : d # c => /\ thread'[d] = thread[d] /\ status'[d] = status[d]
                                    /\ type'[d] = type[d] /\ queue'[d] = queue[d]
      BY <2>2 DEF Goto, Blank, IInv, Types
    <2>5. <<>> \in Queues /\ <<>> \notin Resumed
      BY DEF Queues, Resumed
    <2>6. Types'
      BY <1>1, <2>2, <2>5 DEF Goto, Blank, IInv, Types, ending
    <2>7. \A a \in Actor : call[a].cb # c
      BY <1>1, <1>4, Unowned
    <2>8. CallInv'
      BY <1>1, <2>4 DEF IInv, CallInv, ending
    <2>9. OwnerInv'
      <3> SUFFICES ASSUME NEW b \in Actor PROVE OwnerInv!(b)'
        BY DEF OwnerInv
      <3>1. call[b].cb # NoCB => call[b].cb \in CB /\ call[b].cb # c
        BY <2>7 DEF IInv, Types, OwnerInv
      <3>2. call[b].pc \in Holding \cup Making => call[b].cb # NoCB
        BY DEF IInv, CallInv, Holding, Making, Deciding
      <3> QED
        BY <1>1, <2>2, <2>4, <3>1, <3>2 DEF IInv, OwnerInv, Making
    <2>10. BlockInv'
      BY <1>1, <2>1, <2>2, <2>4, <2>5 DEF IInv, BlockInv
    <2>11. ServiceInv' /\ StopInv' /\ NoAssert'
      BY <1>1, <2>2, <2>3, <2>4 DEF IInv, Types, ServiceInv, StopInv, NoAssert, ending
    <2>12. Pending'
      BY <1>1, <2>4 DEF IInv, Pending
    <2> QED
      BY <2>6, <2>8, <2>9, <2>10, <2>11, <2>12 DEF IInv
  <1> QED
    BY <1>2, <1>3, <1>4

-----------------------------------------------------------------------------
(***************************************************************************)
(* Forces, the monitor and the stop.                                       *)
(***************************************************************************)

(* A session disconnects or forces an EDU, or destroyAll forces them all.  *)
LEMMA ForceIInv ==
  ASSUME IInv, (\E c \in CB : DisconnectUserEDU(c) \/ ForceUserEDU(c)) \/ ForceEDUs
  PROVE  IInv'
  <1>1. \E S \in SUBSET alive : Disconnect(S)
    <2>1. \A c \in CB : Forceable(c) => {c} \in SUBSET alive
      BY DEF Forceable, IInv, BlockInv
    <2>2. \A p : Counted(p) \in SUBSET alive
      BY DEF Counted, IInv, BlockInv
    <2> QED
      BY <2>1, <2>2 DEF DisconnectUserEDU, ForceUserEDU, ForceEDUs
  <1>2. Requeued
    BY <1>1, DisconnectRequeues
  <1>3. /\ forced' \subseteq CB /\ forcing' \subseteq CB
        /\ UNCHANGED <<maps, status, type, thread, call, wakeup, monitor, ending, err>>
    BY DEF DisconnectUserEDU, ForceUserEDU, ForceEDUs, Counted, IInv, Types
  <1> QED
    BY <1>2, <1>3, QueueStep

(* The second half of force(). *)
LEMMA ForceEndIInv ==
  ASSUME IInv, ForceEnd
  PROVE  IInv'
  <1>1. Requeued /\ forced' \subseteq CB /\ forcing' \subseteq CB
    BY DEF ForceEnd, Requeued, IInv, Types
  <1> QED
    BY <1>1, QueueStep DEF ForceEnd

(* The monitor wakes up, or ends. *)
LEMMA MonitorWaitIInv ==
  ASSUME IInv, MonitorWait
  PROVE  IInv'
  <1>1. /\ monitor = "wait" /\ monitor' \in {"wait", "size", "gone"} /\ wakeup' \in BOOLEAN
        /\ UNCHANGED <<maps, block, thread, call, forcing, ending, err>>
    BY DEF MonitorWait, IInv, Types
  <1>2. Types' /\ StopInv'
    BY <1>1 DEF IInv, Types, StopInv, maps, block, ending
  <1> QED
    BY <1>1, <1>2, Quiet DEF block, ending, IInv, CallInv

(* It finds enough idle EDUs, or starts to create one. *)
LEMMA MonitorSizeIInv ==
  ASSUME IInv, MonitorSize
  PROVE  IInv'
  <1>1. /\ monitor = "size" /\ call[Monitor] = NoCall /\ NoCall.pc = "none" /\ NoCall.cb = NoCB
        /\ UNCHANGED <<maps, block, thread, forcing, wakeup, ending, err>>
    BY Actors DEF MonitorSize, IInv, CallInv, NoCall
  <1>2. CASE monitor' = "create" /\ call' = [call EXCEPT ![Monitor].pc = "check"]
    <2>1. Entered(Monitor, "check")
      BY <1>2, StepEnters, Actors DEF Step, IInv, Types, Deciding
    <2> QED
      BY <1>1, <1>2, <2>1, Decides, Actors DEF Entered, Deciding, IInv, Types
  <1>3. CASE monitor' = "wait" /\ UNCHANGED call
    <2>1. Types' /\ StopInv'
      BY <1>1, <1>3 DEF IInv, Types, StopInv, maps, block, ending
    <2> QED
      BY <1>1, <1>3, <2>1, Quiet DEF block, ending, IInv, CallInv
  <1> QED
    BY <1>2, <1>3 DEF MonitorSize

(* destroyAll begins, and waits for the monitor. *)
LEMMA StopBeginsIInv ==
  ASSUME IInv, DestroyAll \/ Quiesce \/ JoinMonitor
  PROVE  IInv'
  <1>1. /\ UNCHANGED <<maps, block, thread, call, forcing, services, stopped, monitor, err>>
        /\ call[Main].pc = "none" /\ wakeup' \in BOOLEAN /\ stops' \in 0 .. 2
        /\ down' \subseteq {"destroyed", "quiesced"}
        /\ stop' \in {"quiesce", "join", "io"} /\ (stop' = "io" => monitor = "gone")
    <2> USE DEF SetStop, Calling, IInv, Types, CallInv
    <2>1. CASE DestroyAll
      BY <2>1 DEF DestroyAll
    <2>2. CASE Quiesce
      BY <2>2 DEF Quiesce
    <2>3. CASE JoinMonitor
      BY <2>3 DEF JoinMonitor
    <2> QED
      BY <2>1, <2>2, <2>3
  <1>2. Types' /\ StopInv'
    BY <1>1 DEF IInv, Types, StopInv, maps, block
  <1> QED
    BY <1>1, <1>2, Quiet DEF block

(* Its phases follow each other, and its IO services are told to stop. *)
LEMMA PhaseIInv ==
  ASSUME IInv, StopServices \/ NextPhase \/ GiveUp
  PROVE  IInv'
  <1>1. /\ UNCHANGED <<maps, block, thread, call, forcing, services, wakeup, monitor, down, err>>
        /\ call[Main].pc = "none" /\ stopped' \subseteq CB /\ stops' \in 0 .. 2
        /\ monitor = "gone" /\ stop' \in {"io", "user", "all", "done", "failed"}
    BY DEF StopServices, NextPhase, GiveUp, SetStop, IInv, Types, CallInv, StopInv
  <1>2. stop' = "done" => runs \cup idles = {}
    BY DEF StopServices, NextPhase, GiveUp, SetStop, Counted
  <1>3. Types'
    BY <1>1 DEF IInv, Types, maps, block
  <1>4. StopInv'
    BY <1>1, <1>2 DEF IInv, BlockInv, StopInv, maps
  <1> QED
    BY <1>1, <1>3, <1>4, Quiet DEF block

-----------------------------------------------------------------------------
(* A manager without EDUs. *)
LEMMA InitIInv == Init => IInv
  <1> SUFFICES ASSUME Init PROVE IInv
    OBVIOUS
  <1> USE DEF Init
  <1>1. NoCall \in CallRec /\ NoCall.pc = "none" /\ NoCall.cb = NoCB
    BY DEF NoCall, CallRec, Deciding
  <1>2. <<>> \in Queues /\ <<>> \notin Resumed
    BY DEF Queues, Resumed
  <1>3. Types
    <2>1. call \in [Actor -> CallRec] /\ queue \in [CB -> Queues]
      BY <1>1, <1>2
    <2>2. /\ status \in [CB -> {"idle", "creating", "active"}]
          /\ type \in [CB -> AllTypes \cup {"none"}]
          /\ thread \in [CB -> {"none", "start", "wait", "resume", "run", "return", "size", "destroy"}]
      OBVIOUS
    <2>3. stops \in 0 .. 2
      <3>1. stops = 0
        OBVIOUS
      <3> HIDE DEF Init
      <3> QED
        BY <3>1
    <2>4. wakeup \in BOOLEAN
      BY Zenon
    <2>5. alive \subseteq CB /\ runs \subseteq CB /\ idles \subseteq CB
          /\ forced \subseteq CB /\ forcing \subseteq CB /\ services \subseteq CB
          /\ stopped \subseteq CB /\ down \subseteq {"destroyed", "quiesced"}
      OBVIOUS
    <2>6. stop = "off" /\ monitor = "wait"
      OBVIOUS
    <2> HIDE DEF Init
    <2> QED
      BY <2>1, <2>2, <2>3, <2>4, <2>5, <2>6 DEF Types
  <1>4. CallInv /\ OwnerInv
    BY <1>1, Actors DEF CallInv, OwnerInv, Deciding, Holding, Making
  <1>5. BlockInv /\ ServiceInv /\ StopInv /\ Pending /\ NoAssert
    BY <1>2 DEF BlockInv, ServiceInv, StopInv, Pending, NoAssert
  <1> QED
    BY <1>3, <1>4, <1>5 DEF IInv

(* Every step of the callers, the threads, the monitor and the stop. *)
LEMMA StepIInv ==
  ASSUME ~ThreadFails
  PROVE  IInv /\ [Next]_vars => IInv'
  <1> SUFFICES ASSUME IInv, [Next]_vars PROVE IInv'
    OBVIOUS
  <1>1. ASSUME NEW a \in Actor, CallStep(a) PROVE IInv'
    <2>1. ~Erase(a)
      BY DEF Erase, Calling, IInv, Types, CallRec, Deciding, Holding, Making
    <2> QED
      BY <1>1, <2>1, GetFromPoolIInv, HoldIInv, ResumeIInv, CheckQuiescedIInv,
         OutOfMemoryIInv, InsertIInv, SpawnIInv
      DEF CallStep
  <1>2. ASSUME NEW c \in CB, ThreadStep(c) PROVE IInv'
    BY <1>2, ReportIInv, WaitEventIInv, TimeoutIInv, ForceDestoryIInv, RunEntryIInv,
       AddIOServiceIInv, ReturnEDUIInv
    DEF ThreadStep
  <1>3. CASE MonitorStep \/ StopStep
    BY <1>3, MonitorWaitIInv, MonitorSizeIInv, StopBeginsIInv, PhaseIInv, ForceIInv
    DEF MonitorStep, StopStep
  <1>4. CASE UNCHANGED vars
    <2>1. Types' /\ StopInv'
      BY <1>4 DEF vars, IInv, Types, StopInv
    <2> QED
      BY <1>4, <2>1, Quiet DEF vars, maps, IInv, CallInv
  <1> QED
    BY <1>1, <1>2, <1>3, <1>4, StartEDUIInv, TimeoutIInv, EntryReturnsIInv, EntryThrowsIInv,
       ForceIInv, ForceEndIInv, StopBeginsIInv
    DEF Next

(* The invariant holds in every state of the manager. *)
THEOREM Invariance ==
  ASSUME ~ThreadFails
  PROVE  Spec => []IInv
  <1>1. IInv /\ [Next]_vars => IInv'
    BY StepIInv
  <1> QED
    BY <1>1, InitIInv, PTL DEF Spec

(* PoolSound: each control block is in exactly one of _mapRuns and         *)
(* _mapIdles while it lives, a caller of startEDU holds a live block that  *)
(* nobody else has, and no assertion of getFromPool, forceDestory or       *)
(* returnEDU fails, if threads can be created.                             *)
THEOREM PoolIsSound ==
  ASSUME ~ThreadFails
  PROVE  Spec => []PoolSound
  <1>1. IInv => PoolSound
    <2> SUFFICES ASSUME IInv PROVE PoolSound
      OBVIOUS
    <2>1. TypeOK
      BY QueueFacts DEF IInv, Types, CallRec, TypeOK
    <2>2. MapsExact
      BY DEF IInv, Types, BlockInv, MapsExact
    <2>3. BlockHeld
      <3> SUFFICES ASSUME NEW a \in Actor, call[a].pc \in Holding
                   PROVE  LET c == call[a].cb
                          IN  /\ c \in runs \cap alive /\ status[c] = "creating"
                              /\ thread[c] \notin {"resume", "run"}
                              /\ \A b \in Actor \ {a} : call[b].cb = c => call[b].pc \in {"spawn", "attach"}
        BY DEF BlockHeld, Holding
      <3> DEFINE c == call[a].cb
      <3>1. c # NoCB /\ c \in CB /\ c \in alive /\ status[c] = "creating" /\ thread[c] # "resume"
        BY DEF IInv, Types, CallInv, OwnerInv, Holding, Deciding
      <3>2. c \in runs /\ thread[c] # "run"
        BY <3>1 DEF IInv, BlockInv
      <3>3. ASSUME NEW b \in Actor \ {a}, call[b].cb = c PROVE call[b].pc \in {"spawn", "attach"}
        <4>1. call[b].pc \in Holding \cup Making
          BY <3>1, <3>3 DEF IInv, Types, CallRec, CallInv
        <4>2. call[b].pc \notin Holding
          BY <3>1, <3>3 DEF IInv, OwnerInv
        <4> QED
          BY <4>1, <4>2 DEF Making
      <3> QED
        BY <3>1, <3>2, <3>3
    <2> QED
      BY <2>1, <2>2, <2>3 DEF IInv, PoolSound
  <1>2. Spec => []IInv
    BY Invariance
  <1> QED
    BY <1>1, <1>2, PTL

(* ResumePending: no RESUME of a start is lost to clear(), to a TERM or to *)
(* a time-out, if threads can be created.                                  *)
THEOREM ResumeIsPending ==
  ASSUME ~ThreadFails
  PROVE  Spec => []ResumePending
  <1>1. IInv => ResumePending
    BY QueueFacts DEF IInv, Types, Pending, ResumePending, At, Holding
  <1>2. Spec => []IInv
    BY Invariance
  <1> QED
    BY <1>1, <1>2, PTL

(* NoOrphan: when destroyAll is done there is no EDU, no IO service and no *)
(* call that could still make one, if threads can be created.              *)
THEOREM NoneIsOrphaned ==
  ASSUME ~ThreadFails
  PROVE  Spec => []NoOrphan
  <1>1. IInv => NoOrphan
    <2> SUFFICES ASSUME IInv, stop = "done"
                 PROVE  alive = {} /\ services = {} /\ \A a \in Actor : call[a] = NoCall
      BY DEF NoOrphan
    <2>1. alive = {} /\ monitor # "create"
      BY DEF IInv, StopInv
    <2>2. \A c \in CB : thread[c] = "none"
      BY <2>1 DEF IInv, BlockInv
    <2>3. services = {}
      BY <2>2 DEF IInv, Types, ServiceInv
    <2>4. \A a \in Actor : call[a].pc = "none"
      BY <2>1, <2>2 DEF IInv, CallInv, Actor
    <2> QED
      BY <2>1, <2>3, <2>4 DEF IInv, CallInv
  <1>2. Spec => []IInv
    BY Invariance
  <1> QED
    BY <1>1, <1>2, PTL

=============================================================================
