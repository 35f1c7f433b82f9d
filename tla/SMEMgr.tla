------------------------------- MODULE SMEMgr -------------------------------
(***************************************************************************)
(* The space manager of a storage unit: _dmsSMEMgr of dmsSMEMgr.cpp.       *)
(*                                                                         *)
(* Sessions reserve and release runs of pages.  A call holds the manager's *)
(* RW mutex in SHARED mode from its first to its last step, so the set of  *)
(* readers is {s : pc[s] # "idle"}; depositASegment holds it EXCLUSIVE and *)
(* is one step that waits for that set to be empty.  What a segment does   *)
(* under its own _mutex is one step; _freePos is an atomic read at the     *)
(* beginning of a reserve and written outside the mutex of the segment at  *)
(* the end of a release.  init rebuilds the lists from the SME bitmap, one *)
(* page at a time, before any session runs.                                *)
(***************************************************************************)
EXTENDS SegmentSpace

CONSTANTS Session,         \* threads calling the manager
          MaxSeg,          \* DMS_MAX_PG in segments
          InitSeg          \* bound on the segments of the file init reads

ASSUME MaxSegAssumption == MaxSeg \in Nat /\ InitSeg \in 0 .. MaxSeg

VARIABLES
  sme,        \* per segment, the offsets whose SME bit is ALLOCATED
  spaces,     \* _segments: one space per segment
  segNum,     \* _segments.size()
  freePos,    \* _freePos: where a search starts
  totalFree,  \* _totalFree of the manager
  loader,     \* the local state of init
  pc,         \* what a session is doing
  pos,        \* its segment: pos of reservePages, segmentID of releasePages
  req,        \* numPages of its reserve
  held,       \* the extents it got from reservePages and has not released
  err         \* an internal error or a failed assertion was met

disk  == <<sme, held>>
mgr   == <<spaces, segNum, freePos, totalFree>>
local == <<pc, pos, req>>
vars  == <<sme, spaces, segNum, freePos, totalFree, loader, pc, pos, req,
           held, err>>

SegID  == 0 .. MaxSeg - 1
Extent == [seg : SegID, start : Offset, size : 1 .. SegPages]

Loading == loader.mode = "loading"
Running == [mode |-> "running", segs |-> 0, seg |-> 0, off |-> 0,
            begin |-> 0, inUse |-> FALSE]

(* The file holds any bitmap over a whole number of segments. *)
Init ==
  /\ \E n \in 0 .. InitSeg :
       /\ loader = [mode |-> "loading", segs |-> n, seg |-> 0, off |-> 0,
                    begin |-> 0, inUse |-> FALSE]
       /\ sme \in [SegID -> SUBSET Offset]
       /\ \A g \in SegID : g >= n => sme[g] = {}
  /\ spaces = [g \in SegID |-> EmptySpace]
  /\ segNum = 0 /\ freePos = 0 /\ totalFree = 0
  /\ pc = [s \in Session |-> "idle"]
  /\ pos = [s \in Session |-> 0]
  /\ req = [s \in Session |-> 0]
  /\ held = [s \in Session |-> {}]
  /\ err = "none"

-----------------------------------------------------------------------------
(***************************************************************************)
(* init.  At a segment's first page the run open in the segment before is  *)
(* closed and the next space is created; at an allocated page the run of   *)
(* free pages before it is released into the space; a run still open after *)
(* the last page is released at the end.                                   *)
(***************************************************************************)
ClosedRun ==
  LET g == loader.seg
      o == loader.off
  IN  CASE o = 0 /\ g > 0 /\ ~loader.inUse ->
             [seg |-> g - 1, start |-> loader.begin,
              size |-> SegPages - loader.begin]
        [] o > 0 /\ o \in sme[g] /\ ~loader.inUse ->
             [seg |-> g, start |-> loader.begin, size |-> o - loader.begin]
        [] OTHER -> [seg |-> g, start |-> o, size |-> 0]

(* A release of init (bitSet is FALSE) and what follows if it fails. *)
LoadRelease(run) ==
  LET r == ReleaseIn(spaces[run.seg], run.start, run.size)
  IN  /\ spaces' = [spaces EXCEPT ![run.seg] = r.space]
      /\ totalFree' = totalFree + run.size
      /\ err' = IF r.rc = "OK" THEN err ELSE r.rc

LoadPage ==
  LET g == loader.seg
      o == loader.off
      last == o = SegPages - 1
  IN  /\ Loading /\ g < loader.segs
      /\ LoadRelease(ClosedRun)
      /\ segNum' = IF o = 0 THEN segNum + 1 ELSE segNum
      /\ loader' = [loader EXCEPT
                      !.seg   = IF last THEN g + 1 ELSE g,
                      !.off   = IF last THEN 0 ELSE o + 1,
                      !.begin = CASE o = 0 -> 0        \* the segment is entered
                                  [] o > 0 /\ o \notin sme[g] /\ loader.inUse -> o
                                  [] OTHER -> loader.begin,
                      !.inUse = o \in sme[g]]
      /\ UNCHANGED <<disk, freePos, local>>

LoadEnd ==
  /\ Loading /\ loader.seg = loader.segs
  /\ IF loader.segs > 0 /\ (SegPages - 1) \notin sme[loader.segs - 1]
     THEN LoadRelease([seg   |-> loader.segs - 1, start |-> loader.begin,
                       size  |-> SegPages - loader.begin])
     ELSE UNCHANGED <<spaces, totalFree, err>>
  /\ loader' = Running
  /\ UNCHANGED <<disk, segNum, freePos, local>>

-----------------------------------------------------------------------------
(***************************************************************************)
(* reservePages: read _freePos, then ask each segment from there on.       *)
(***************************************************************************)
Return(s) ==       \* the call ends and its local variables with it
  /\ pc' = [pc EXCEPT ![s] = "idle"]
  /\ pos' = [pos EXCEPT ![s] = 0]
  /\ req' = [req EXCEPT ![s] = 0]

ReserveBegin(s, n) ==
  /\ ~Loading /\ pc[s] = "idle"
  /\ pc' = [pc EXCEPT ![s] = "scan"]
  /\ req' = [req EXCEPT ![s] = n]
  /\ pos' = [pos EXCEPT ![s] = freePos]
  /\ UNCHANGED <<disk, mgr, loader, err>>

(* A segment without a free page moves _freePos past itself. *)
FreePosAfterMiss(g) ==          \* fault: whatever the segment has left
  IF freePos = g THEN g + 1 ELSE freePos

FreePosBlindAdd(g) ==           \* fault: an increment, not a compare-and-swap
  IF spaces[g].totalFree = 0 THEN freePos + 1 ELSE freePos

FreePosAfter(g) ==
  IF spaces[g].totalFree = 0 /\ freePos = g THEN g + 1 ELSE freePos

ReserveMiss(s) ==
  /\ pc[s] = "scan" /\ pos[s] < segNum
  /\ ReserveIn(spaces[pos[s]], req[s]).rc = "NOSPC"
  /\ freePos' = FreePosAfter(pos[s])
  /\ pos' = [pos EXCEPT ![s] = pos[s] + 1]
  /\ UNCHANGED <<disk, spaces, segNum, totalFree, loader, pc, req, err>>

(* The first node with enough pages, or SDB_SYS ("should never hit here"). *)
ReserveHit(s) ==
  LET g    == pos[s]
      n    == req[s]
      r    == ReserveIn(spaces[g], n)
      ok   == r.rc = "OK"
      bits == IF ok THEN r.start .. r.start + n - 1 ELSE {}
  IN  /\ pc[s] = "scan" /\ g < segNum /\ r.rc # "NOSPC"
      /\ freePos' = FreePosAfter(g)
      /\ spaces' = [spaces EXCEPT ![g] = r.space]
      /\ sme' = [sme EXCEPT ![g] = @ \cup bits]
      /\ totalFree' = IF ok THEN totalFree - n ELSE totalFree
      /\ held' = [held EXCEPT ![s] = @ \cup
                    IF ok THEN {[seg |-> g, start |-> r.start, size |-> n]}
                          ELSE {}]
      /\ err' = CASE ~ok -> "SYS"
                  [] ok /\ (bits \cap sme[g] # {} \/ r.space.maxNode = SegPages)
                       -> "ASSERT"
                  [] OTHER -> err
      /\ Return(s)
      /\ UNCHANGED <<segNum, loader>>

(* No segment has the pages: SDB_OK with foundPage = DMS_INVALID_EXTENT. *)
ReserveNone(s) ==
  /\ pc[s] = "scan" /\ pos[s] >= segNum
  /\ Return(s)
  /\ UNCHANGED <<disk, mgr, loader, err>>

-----------------------------------------------------------------------------
(***************************************************************************)
(* releasePages: the segment takes the pages back under its _mutex; only   *)
(* afterwards is _freePos lowered to the segment (swapLesserThan).         *)
(***************************************************************************)
ReleaseStep(s, x) ==
  LET g    == x.seg
      r    == ReleaseIn(spaces[g], x.start, x.size)
      ok   == g < segNum /\ r.rc = "OK"
      bits == IF ok THEN x.start .. x.start + x.size - 1 ELSE {}
  IN  /\ ~Loading /\ pc[s] = "idle" /\ x \in held[s]
      /\ held' = [held EXCEPT ![s] = @ \ {x}]
      /\ spaces' = IF ok THEN [spaces EXCEPT ![g] = r.space] ELSE spaces
      /\ sme' = [sme EXCEPT ![g] = @ \ bits]
      /\ totalFree' = IF ok THEN totalFree + x.size ELSE totalFree
      /\ err' = CASE ~ok -> "SYS"
                  [] ok /\ ~(bits \subseteq sme[g]) -> "ASSERT"
                  [] OTHER -> err
      /\ pc' = [pc EXCEPT ![s] = IF ok THEN "swap" ELSE "idle"]
      /\ pos' = [pos EXCEPT ![s] = IF ok THEN g ELSE 0]
      /\ UNCHANGED <<segNum, freePos, loader, req>>

ReleaseSwap(s) ==
  /\ pc[s] = "swap"
  /\ freePos' = IF pos[s] < freePos THEN pos[s] ELSE freePos
  /\ Return(s)
  /\ UNCHANGED <<disk, spaces, segNum, totalFree, loader, err>>

(***************************************************************************)
(* depositASegment, called by _extendSegments with the start of the next   *)
(* segment while the unit is below DMS_MAX_PG.  It holds _mutex EXCLUSIVE, *)
(* which reserve and release hold SHARED: none of them is in progress.     *)
(***************************************************************************)
DepositASegment ==
  LET r == ReleaseIn(EmptySpace, 0, SegPages)
  IN  /\ ~Loading /\ segNum < MaxSeg
      /\ \A s \in Session : pc[s] = "idle"
      /\ spaces' = [spaces EXCEPT ![segNum] = r.space]
      /\ segNum' = segNum + 1
      /\ totalFree' = totalFree + SegPages
      /\ err' = IF r.rc = "OK" THEN err ELSE r.rc
      /\ UNCHANGED <<disk, freePos, loader, local>>

SessionNext(s) ==
  \/ \E n \in 1 .. SegPages : ReserveBegin(s, n)
  \/ ReserveMiss(s)
  \/ ReserveHit(s)
  \/ ReserveNone(s)
  \/ \E x \in held[s] : ReleaseStep(s, x)
  \/ ReleaseSwap(s)

Next == LoadPage \/ LoadEnd \/ DepositASegment
        \/ \E s \in Session : SessionNext(s)

Spec == Init /\ [][Next]_vars

-----------------------------------------------------------------------------
(* The values each variable ranges over. *)
TypeOK ==
  /\ sme \in [SegID -> SUBSET Offset]
  /\ spaces \in [SegID -> [list : Seq(Node), maxNode : 0 .. SegPages,
                          totalFree : 0 .. SegPages]]
  /\ segNum \in 0 .. MaxSeg /\ freePos \in 0 .. segNum
  /\ totalFree \in Int
  /\ loader \in [mode : {"loading", "running"}, segs : 0 .. InitSeg,
                 seg : 0 .. InitSeg, off : Offset, begin : Offset,
                 inUse : BOOLEAN]
  /\ pc \in [Session -> {"idle", "scan", "swap"}]
  /\ pos \in [Session -> 0 .. MaxSeg]
  /\ req \in [Session -> 0 .. SegPages]
  /\ held \in [Session -> SUBSET Extent]
  /\ err \in {"none", "SYS", "ASSERT"}

(* The free list of a segment holds exactly the pages whose SME bit is     *)
(* FREE, after init has rebuilt it from the bitmap and after every reserve *)
(* and release that changes both.                                          *)
FreeListExact ==
  ~Loading => \A g \in 0 .. segNum - 1 :
                ListPages(spaces[g].list) = Offset \ sme[g]

(* The nodes of a list are in page order and no two touch: releasePages    *)
(* merges on both sides, so every run of free pages is inside one node.    *)
Coalesced == \A g \in SegID : Separated(spaces[g].list)

(* The pages in the lists of the unit, as pairs of segment and offset. *)
FreePages == {p \in SegID \X Offset : p[2] \in ListPages(spaces[p[1]].list)}

(* _maxNode is the largest node, _totalFree of a segment counts its FREE   *)
(* pages, and the manager's _totalFree, kept by separate atomic updates,   *)
(* counts those of the unit.                                               *)
CountersExact ==
  /\ \A g \in SegID :
       /\ spaces[g].maxNode =
            Max({spaces[g].list[i].size : i \in DOMAIN spaces[g].list} \cup {0})
       /\ spaces[g].totalFree = Cardinality(ListPages(spaces[g].list))
  /\ totalFree = Cardinality(FreePages)

(* No page is reserved by two sessions or twice by one, and every reserved *)
(* page is marked in the SME.                                              *)
NoSharedPage ==
  \A s, t \in Session : \A x \in held[s], y \in held[t] :
    /\ NodePages(x) \subseteq sme[x.seg]
    /\ <<s, x>> # <<t, y>> /\ x.seg = y.seg
         => NodePages(x) \cap NodePages(y) = {}

(* A segment below _freePos has no free page, unless a release that put    *)
(* pages back there or below has not lowered _freePos yet.                 *)
FreePosSound ==
  \A g \in 0 .. freePos - 1 :
    \/ spaces[g].totalFree = 0
    \/ \E s \in Session : pc[s] = "swap" /\ pos[s] <= g

(* When no call is in progress, a search that starts at _freePos finds n   *)
(* contiguous free pages if any segment of the unit has them: the race     *)
(* between reserve and release on _freePos never strands free space.       *)
NoHiddenSpace ==
  ~Loading /\ (\A s \in Session : pc[s] = "idle") =>
    \A g \in 0 .. segNum - 1, b \in Offset, n \in 1 .. SegPages :
      b + n <= SegPages /\ b .. b + n - 1 \subseteq Offset \ sme[g]
        => \E h \in freePos .. segNum - 1 : ReserveIn(spaces[h], n).rc = "OK"

(* No call meets an SDB_SYS branch ("should never hit here", overlapping   *)
(* release, segment out of range) or a failed SDB_ASSERT on the SME bits.  *)
NoInternalError == err = "none"

(* What the manager's bookkeeping rests on, between any two steps of any   *)
(* sessions: lists merged on both sides, counters that agree with them,    *)
(* _freePos sound, and no error branch or assertion ever met.              *)
Books ==
  TypeOK /\ Coalesced /\ CountersExact /\ FreePosSound /\ NoInternalError

(* The manager implements the page allocator its callers rely on. *)
Allocator == INSTANCE PageAllocator WITH
               used <- sme, segs <- IF Loading THEN loader.segs ELSE segNum
AllocatorSpec == Allocator!Spec
=============================================================================
