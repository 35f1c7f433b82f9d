---------------------------- MODULE StorageUnit ----------------------------
(***************************************************************************)
(* A storage unit that grows while sessions allocate extents in it:        *)
(* _findFreeSpace, _extendSegments, _allocateExtent and openStorage of     *)
(* dmsBlockData.cpp, with the latches they take and the file they leave    *)
(* behind when the process or the machine stops.                           *)
(*                                                                         *)
(* The unit of length is the data segment; the metadata in front of the    *)
(* first one is always there and is not counted.  A reservation counts the *)
(* pages of a segment instead of placing them (SMEMgr places them), and is *)
(* one step: while reservePages runs the number of segments is fixed and   *)
(* pages are only taken.                                                   *)
(***************************************************************************)
EXTENDS Integers, Sequences, FiniteSets, FiniteSetsExt

CONSTANTS Session,       \* threads that allocate extents
          NoSession,     \* a latch nobody holds
          Collection,    \* collections, each with its mb latch
          CollOf,        \* the collection a session works on
          SegPages,      \* _segmentPages
          MaxSeg,        \* DMS_MAX_PG in segments
          MaxCrash,      \* bound on the times the unit goes down
          Power          \* the machine may fail too, not only the process

ASSUME UnitAssumption ==
  /\ NoSession \notin Session
  /\ CollOf \in [Session -> Collection]
  /\ SegPages \in Nat \ {0} /\ MaxSeg \in Nat /\ MaxCrash \in Nat
  /\ Power \in BOOLEAN

VARIABLES
  up,         \* what openStorage has done so far
  file,       \* whole data segments in the file
  part,       \* the file ends in a piece of a segment
  unitSize,   \* _dmsHeader->_storageUnitSize
  pageNum,    \* _dmsHeader->_pageNum
  used,       \* pages of a segment whose SME bit is ALLOCATED
  maps,       \* the file segment that each mapped data segment shows
  smeSegs,    \* _smeMgr.segmentNum()
  free,       \* pages of a segment the space manager has to give
  sparse,     \* _pStorageInfo->_enableSparse
  segLatch,   \* holder of _segmentLatch
  mb,         \* holder of a collection's mb latch, always EXCLUSIVE
  call,       \* the local variables of a session
  headers,    \* headers a machine failure may leave on the disk
  lengths,    \* lengths of the file that one may leave
  crashes,    \* times the unit went down
  torn,       \* it went down inside the window of a header update
  lost        \* the machine failed

header  == <<unitSize, pageNum>>
memory  == <<maps, smeSegs, free>>
latches == <<segLatch, mb>>
media   == <<headers, lengths>>
history == <<crashes, torn, lost>>
vars == <<up, file, part, unitSize, pageNum, used, maps, smeSegs, free,
          sparse, segLatch, mb, call, headers, lengths, crashes, torn, lost>>

SegID == 0 .. MaxSeg - 1

Fresh(p, c, n) == [pc |-> p, ctx |-> c, req |-> n, seen |-> 0, base |-> 0,
                   rc |-> "OK"]
Idle == Fresh("idle", FALSE, 0)

(* A unit that openStorage( createNew ) has just made: no data segment. *)
Init ==
  /\ up = "open"
  /\ file = 0 /\ part = FALSE /\ unitSize = 0 /\ pageNum = 0
  /\ used = [g \in SegID |-> 0]
  /\ maps = <<>> /\ smeSegs = 0 /\ free = [g \in SegID |-> 0]
  /\ sparse \in BOOLEAN
  /\ segLatch = NoSession /\ mb = [c \in Collection |-> NoSession]
  /\ call = [s \in Session |-> Idle]
  /\ headers = {<<0, 0>>} /\ lengths = {0}
  /\ crashes = 0 /\ torn = FALSE /\ lost = FALSE

At(s, p) == up = "open" /\ call[s].pc = p
Goto(s, p) == call' = [call EXCEPT ![s].pc = p]
Fault(s, r) == call' = [call EXCEPT ![s].pc = "resume", ![s].rc = r]

(* The header and the length of the file are written; what they were stays *)
(* possible on the disk until the system writes them back.                 *)
SetHeader(u, p) ==
  /\ unitSize' = u /\ pageNum' = p
  /\ headers' = IF Power THEN headers \cup {<<u, p>>} ELSE headers

SetLength(n) ==
  /\ file' = n
  /\ lengths' = IF Power THEN lengths \cup {n} ELSE lengths

-----------------------------------------------------------------------------
(***************************************************************************)
(* _allocateExtent( context ), and _findFreeSpace( NULL ) of addCollection *)
(* (ctx is FALSE), which holds no mb latch.                                *)
(***************************************************************************)
Begin(s, n, c) ==
  /\ At(s, "idle")
  /\ call' = [call EXCEPT ![s] = Fresh(IF c THEN "lock" ELSE "reserve", c, n)]
  /\ UNCHANGED <<up, file, part, header, used, memory, sparse, latches,
                 media, history>>

LockMB(s) ==
  /\ mb[CollOf[s]] = NoSession
  /\ mb' = [mb EXCEPT ![CollOf[s]] = s]

UnlockMB(s) ==
  mb' = IF call[s].ctx THEN [mb EXCEPT ![CollOf[s]] = NoSession] ELSE mb

Lock(s) ==
  /\ At(s, "lock")
  /\ LockMB(s)
  /\ Goto(s, "reserve")
  /\ UNCHANGED <<up, file, part, header, used, memory, sparse, segLatch,
                 media, history>>

Fitting(n) == {g \in SegID : g < smeSegs /\ free[g] >= n}
Fits(n)    == Fitting(n) # {}

ReserveHit(s) ==
  /\ At(s, "reserve") /\ Fits(call[s].req)
  /\ LET g == Min(Fitting(call[s].req))
     IN  /\ free' = [free EXCEPT ![g] = @ - call[s].req]
         /\ used' = [used EXCEPT ![g] = @ + call[s].req]
  /\ Goto(s, "finish")
  /\ UNCHANGED <<up, file, part, header, maps, smeSegs, sparse, latches,
                 media, history>>

ReserveMiss(s) ==
  /\ At(s, "reserve") /\ ~Fits(call[s].req)
  /\ call' = [call EXCEPT ![s].pc = "latch", ![s].seen = smeSegs]
  /\ UNCHANGED <<up, file, part, header, used, memory, sparse, latches,
                 media, history>>

(* The new extent enters the collection's chain (addExtent2Meta), or the   *)
(* call fails; either way the context is released with its latch.          *)
Finish(s) ==
  /\ At(s, "finish")
  /\ UnlockMB(s)
  /\ call' = [call EXCEPT ![s] = Idle]
  /\ UNCHANGED <<up, file, part, header, used, memory, sparse, segLatch,
                 media, history>>

-----------------------------------------------------------------------------
(***************************************************************************)
(* _findFreeSpace after a miss: take _segmentLatch, start over if somebody *)
(* added a segment since the scan, and let go of the mb latch to extend.   *)
(***************************************************************************)
LatchBlind(s) ==                \* fault: the segments are not counted again
  /\ At(s, "latch") /\ segLatch = NoSession
  /\ segLatch' = s
  /\ Goto(s, "pause")
  /\ UNCHANGED <<up, file, part, header, used, memory, sparse, mb, media,
                 history>>

Latch(s) ==
  /\ At(s, "latch") /\ segLatch = NoSession
  /\ IF call[s].seen # smeSegs
     THEN Goto(s, "reserve") /\ UNCHANGED segLatch
     ELSE Goto(s, "pause") /\ segLatch' = s
  /\ UNCHANGED <<up, file, part, header, used, memory, sparse, mb, media,
                 history>>

Pause(s) ==
  /\ At(s, "pause")
  /\ UnlockMB(s)
  /\ Goto(s, "check")
  /\ UNCHANGED <<up, file, part, header, used, memory, sparse, segLatch,
                 media, history>>

(* resume() takes the mb latch back while _segmentLatch is still held. *)
Resume(s) ==
  /\ At(s, "resume")
  /\ IF call[s].ctx THEN LockMB(s) ELSE UNCHANGED mb
  /\ Goto(s, "unlatch")
  /\ UNCHANGED <<up, file, part, header, used, memory, sparse, segLatch,
                 media, history>>

Unlatch(s) ==
  /\ At(s, "unlatch")
  /\ segLatch' = NoSession
  /\ Goto(s, IF call[s].rc = "OK" THEN "reserve" ELSE "finish")
  /\ UNCHANGED <<up, file, part, header, used, memory, sparse, mb, media,
                 history>>

-----------------------------------------------------------------------------
(***************************************************************************)
(* _extendSegments( 1 ), step by step as the file and the header change.   *)
(***************************************************************************)
(* The end of the address space, and bits that a lost header left set. *)
CheckRefuse(s) ==
  /\ At(s, "check")
  /\ \/ pageNum = MaxSeg /\ Fault(s, "NOSPC")
     \/ pageNum < MaxSeg /\ used[pageNum] > 0 /\ Fault(s, "CORRUPTED_SME")
  /\ UNCHANGED <<up, file, part, header, used, memory, sparse, latches,
                 media, history>>

(* A file longer than the header says is cut back, which may fail. *)
TooLong == file > unitSize \/ (file = unitSize /\ part)

CheckTruncateFail(s) ==
  /\ At(s, "check") /\ pageNum < MaxSeg /\ used[pageNum] = 0 /\ TooLong
  /\ Fault(s, "IO")
  /\ UNCHANGED <<up, file, part, header, used, memory, sparse, latches,
                 media, history>>

CheckTrustsHeader(s) ==         \* fault: the SME bits are not looked at
  /\ At(s, "check") /\ pageNum < MaxSeg
  /\ SetLength(IF TooLong THEN unitSize ELSE file)
  /\ part' = IF TooLong THEN FALSE ELSE part
  /\ call' = [call EXCEPT ![s].pc = "grow", ![s].base = file']
  /\ UNCHANGED <<up, header, used, memory, sparse, latches, headers, history>>

Check(s) ==
  /\ At(s, "check") /\ pageNum < MaxSeg /\ used[pageNum] = 0
  /\ SetLength(IF TooLong THEN unitSize ELSE file)
  /\ part' = IF TooLong THEN FALSE ELSE part
  /\ call' = [call EXCEPT ![s].pc = "grow", ![s].base = file']
  /\ UNCHANGED <<up, header, used, memory, sparse, latches, headers, history>>

(* The file grows by less than a segment, and then by all of it. *)
Grow(s) ==
  /\ At(s, "grow")
  /\ part' = TRUE
  /\ Goto(s, "growing")
  /\ UNCHANGED <<up, file, header, used, memory, sparse, latches, media,
                 history>>

GrowEnd(s) ==
  /\ At(s, "growing")
  /\ SetLength(file + 1) /\ part' = FALSE
  /\ Goto(s, "map")
  /\ UNCHANGED <<up, header, used, memory, sparse, latches, headers, history>>

GrowFail(s) ==
  /\ At(s, "grow") \/ At(s, "growing")
  /\ SetLength(call[s].base) /\ part' = FALSE
  /\ \/ sparse /\ sparse' = FALSE /\ Goto(s, "grow")
     \/ UNCHANGED sparse /\ Fault(s, "IO")
  /\ UNCHANGED <<up, header, used, memory, latches, headers, history>>

MapSeg(s) ==
  /\ At(s, "map")
  /\ maps' = Append(maps, call[s].base)
  /\ Goto(s, "size")
  /\ UNCHANGED <<up, file, part, header, used, smeSegs, free, sparse, latches,
                 media, history>>

MapFailCounts(s) ==             \* fault: the segment stays in _storageUnitSize
  /\ At(s, "map")
  /\ SetHeader(unitSize + 1, pageNum)
  /\ Fault(s, "MAP")
  /\ UNCHANGED <<up, file, part, used, memory, sparse, latches, lengths,
                 history>>

MapFail(s) ==                   \* the file keeps its new length
  /\ At(s, "map")
  /\ Fault(s, "MAP")
  /\ UNCHANGED <<up, file, part, header, used, memory, sparse, latches,
                 media, history>>

SetSize(s) ==
  /\ At(s, "size")
  /\ SetHeader(unitSize + 1, pageNum)
  /\ Goto(s, "deposit")
  /\ UNCHANGED <<up, file, part, used, memory, sparse, latches, lengths,
                 history>>

Deposit(s) ==
  /\ At(s, "deposit") /\ pageNum = smeSegs
  /\ free' = [free EXCEPT ![pageNum] = SegPages]
  /\ smeSegs' = smeSegs + 1
  /\ Goto(s, "header")
  /\ UNCHANGED <<up, file, part, header, used, maps, sparse, latches, media,
                 history>>

Header(s) ==
  /\ At(s, "header")
  /\ SetHeader(unitSize, pageNum + 1)
  /\ Goto(s, "resume")
  /\ UNCHANGED <<up, file, part, used, memory, sparse, latches, lengths,
                 history>>

-----------------------------------------------------------------------------
(***************************************************************************)
(* The unit goes down.  Everything in memory is lost; what was written     *)
(* through a shared mapping is in the page cache and stays in the file     *)
(* when the process dies.  A machine failure may also bring back an older  *)
(* header, older SME bits and a shorter file.                              *)
(***************************************************************************)
LoseMemory ==
  /\ maps' = <<>> /\ smeSegs' = 0 /\ free' = [g \in SegID |-> 0]
  /\ segLatch' = NoSession /\ mb' = [c \in Collection |-> NoSession]
  /\ call' = [s \in Session |-> Idle]
  /\ up' = "down"
  /\ crashes < MaxCrash /\ crashes' = crashes + 1

Crash ==
  /\ up \notin {"down", "failed"}
  /\ LoseMemory
  /\ torn' = (torn \/ \E s \in Session : At(s, "deposit") \/ At(s, "header"))
  /\ UNCHANGED <<file, part, header, used, sparse, media, lost>>

(* depositASegment fails: the header is put back and ossPanic follows. *)
DepositPanic(s) ==
  /\ At(s, "deposit")
  /\ SetHeader(unitSize - 1, pageNum)
  /\ LoseMemory
  /\ UNCHANGED <<file, part, used, sparse, lengths, torn, lost>>

PowerFail ==
  /\ Power /\ up \notin {"down", "failed"}
  /\ LoseMemory
  /\ \E h \in headers : unitSize' = h[1] /\ pageNum' = h[2] /\ headers' = {h}
  /\ \E n \in lengths : file' = n /\ lengths' = {n}
  /\ part' \in BOOLEAN
  /\ used' \in {u \in [SegID -> 0 .. SegPages] : \A g \in SegID : u[g] <= used[g]}
  /\ lost' = TRUE
  /\ UNCHANGED <<sparse, torn>>

(* The system writes the page cache and the length of the file back. *)
WriteBack ==
  /\ Power
  /\ headers' = {<<unitSize, pageNum>>} /\ lengths' = {file}
  /\ media' # media
  /\ UNCHANGED <<up, file, part, header, used, memory, sparse, latches, call,
                 history>>

-----------------------------------------------------------------------------
(***************************************************************************)
(* openStorage: check the header, load the space manager, cut the file to  *)
(* whole segments, make it as long as the header says, and map it.         *)
(***************************************************************************)
OpenHeader ==
  /\ up = "down"
  /\ IF unitSize # pageNum
     THEN up' = "failed" /\ UNCHANGED <<smeSegs, free>>
     ELSE /\ up' = "align"
          /\ smeSegs' = pageNum
          /\ free' = [g \in SegID |-> IF g < pageNum THEN SegPages - used[g] ELSE 0]
  /\ UNCHANGED <<file, part, header, used, maps, sparse, latches, call,
                 media, history>>

OpenAlignShort ==               \* fault: rounds down once too often
  /\ up = "align"
  /\ up' = "fit"
  /\ part' = FALSE
  /\ SetLength(IF part /\ file > 0 THEN file - 1 ELSE file)
  /\ UNCHANGED <<header, used, memory, sparse, latches, call, headers, history>>

OpenAlign ==
  /\ up = "align"
  /\ up' = "fit"
  /\ part' = FALSE
  /\ UNCHANGED <<file, header, used, memory, sparse, latches, call, media,
                 history>>

OpenFit ==
  /\ up = "fit"
  /\ up' = "map"
  /\ SetLength(unitSize)
  /\ UNCHANGED <<part, header, used, memory, sparse, latches, call, headers,
                 history>>

OpenMap ==
  /\ up = "map"
  /\ up' = "open"
  /\ maps' = [i \in 1 .. file |-> i - 1]
  /\ UNCHANGED <<file, part, header, used, smeSegs, free, sparse, latches,
                 call, media, history>>

(* A system call fails: the file is closed and may be opened again.  The   *)
(* extension of a short file can leave a piece of a segment.               *)
OpenFail ==
  /\ up \in {"align", "fit", "map"}
  /\ LoseMemory
  /\ \/ UNCHANGED <<file, part, lengths>>
     \/ /\ up = "fit" /\ part' = TRUE
        /\ \E n \in file .. unitSize - 1 : SetLength(n)
  /\ UNCHANGED <<header, used, sparse, headers, torn, lost>>

-----------------------------------------------------------------------------
Step(s) ==
  \/ Lock(s) \/ ReserveHit(s) \/ ReserveMiss(s) \/ Finish(s)
  \/ Latch(s) \/ Pause(s) \/ Resume(s) \/ Unlatch(s)
  \/ CheckRefuse(s) \/ CheckTruncateFail(s) \/ Check(s)
  \/ Grow(s) \/ GrowEnd(s) \/ GrowFail(s)
  \/ MapSeg(s) \/ MapFail(s) \/ SetSize(s) \/ Deposit(s) \/ Header(s)

Open == OpenHeader \/ OpenAlign \/ OpenFit \/ OpenMap \/ OpenFail

Next ==
  \/ \E s \in Session :
       \/ \E n \in 1 .. SegPages, c \in BOOLEAN : Begin(s, n, c)
       \/ Step(s)
       \/ DepositPanic(s)
  \/ Crash \/ PowerFail \/ WriteBack
  \/ Open

Spec == Init /\ [][Next]_vars

(***************************************************************************)
(* Every thread keeps running, and a latch that is free again and again is *)
(* taken in the end.                                                       *)
(***************************************************************************)
StrongSpec ==
  /\ Spec
  /\ \A s \in Session :
       /\ WF_vars(Step(s))
       /\ SF_vars(Lock(s)) /\ SF_vars(Latch(s)) /\ SF_vars(Resume(s))

-----------------------------------------------------------------------------
Extending == {"pause", "check", "grow", "growing", "map", "size", "deposit"}
DiskIO    == {"check", "grow", "growing", "map", "size", "deposit", "header"}
Linking   == {"reserve", "latch", "pause", "unlatch", "finish"}
PC        == {"idle", "lock", "resume"} \cup DiskIO \cup Linking
Call      == [pc : PC, ctx : BOOLEAN, req : 0 .. SegPages,
              seen : 0 .. MaxSeg, base : 0 .. MaxSeg,
              rc : {"OK", "NOSPC", "CORRUPTED_SME", "IO", "MAP"}]

TypeOK ==
  /\ up \in {"open", "down", "failed", "align", "fit", "map"}
  /\ file \in 0 .. MaxSeg /\ part \in BOOLEAN
  /\ unitSize \in 0 .. MaxSeg /\ pageNum \in 0 .. MaxSeg
  /\ used \in [SegID -> 0 .. SegPages] /\ free \in [SegID -> 0 .. SegPages]
  /\ maps \in Seq(SegID) /\ smeSegs \in 0 .. MaxSeg
  /\ sparse \in BOOLEAN
  /\ segLatch \in Session \cup {NoSession}
  /\ mb \in [Collection -> Session \cup {NoSession}]
  /\ call \in [Session -> Call]
  /\ headers \subseteq (0 .. MaxSeg) \X (0 .. MaxSeg)
  /\ lengths \subseteq 0 .. MaxSeg
  /\ crashes \in 0 .. MaxCrash /\ torn \in BOOLEAN /\ lost \in BOOLEAN

(* A session that works on a collection holds the collection's mb latch    *)
(* whenever it may touch its metadata ("Caller must hold mb exclusive      *)
(* lock", addExtent2Meta) and never while it changes the file ("MAKE SURE  *)
(* NOT HOLD ANY METADATA LATCH DURING SUCH EXPENSIVE DISK OPERATION",      *)
(* _extendSegments), whatever pauses and resumes lie between; and only the *)
(* session that holds _segmentLatch changes the file.                      *)
LatchDiscipline ==
  \A s \in Session :
    /\ call[s].ctx /\ call[s].pc \in Linking => mb[CollOf[s]] = s
    /\ call[s].pc \in DiskIO => segLatch = s /\ \A c \in Collection : mb[c] # s

(* Page p of segment g is read and written through mapping g (extentAddr), *)
(* so mapping g must show segment g of the file, whatever extensions       *)
(* failed half way and were cut off before it was mapped.                  *)
MappingAligned ==
  \A i \in 1 .. Len(maps) : maps[i] = i - 1

(* In an open unit every segment the space manager gives pages of is       *)
(* counted in _storageUnitSize ("we need to set _storageUnitSize before    *)
(* depositASegment()"), mapped, and in the file; the header never counts   *)
(* more data pages than the space manager knows of.                        *)
SpaceCovered ==
  up = "open" =>
    /\ smeSegs <= unitSize /\ smeSegs <= Len(maps)
    /\ unitSize <= file /\ Len(maps) <= file
    /\ pageNum <= smeSegs

(* What the space manager offers in a segment is what the SME bitmap says  *)
(* is free: no page in use is given out again, also after a restart and    *)
(* when an old header came back with newer SME bits.                       *)
OffersOnlyFree ==
  up = "open" => \A g \in SegID : g < smeSegs => free[g] + used[g] = SegPages

(* No truncation cuts a segment with pages in use, neither in an extension *)
(* nor when the unit is opened after the process died at any step; only a  *)
(* machine failure can take more.                                          *)
DataInsideFile ==
  ~lost => \A g \in SegID : used[g] > 0 => g < file /\ g < unitSize

(* A session adds a segment only while its request fits in none of the     *)
(* segments there are: two sessions that miss together do not both extend  *)
(* for a request that the first extension can serve.                       *)
ExtendOnlyWhenFull ==
  \A s \in Session : At(s, call[s].pc) /\ call[s].pc \in Extending => ~Fits(call[s].req)

(* A unit that the process left behind is refused by _validateHeader only  *)
(* if the process died between the updates of _storageUnitSize and         *)
(* _pageNum in _extendSegments.                                            *)
RefusedOnlyIfTorn == up = "failed" => torn \/ lost

(* _extendSegments and the open of a unit: what each session that extends  *)
(* sees of header, file, mappings and space manager fits together between  *)
(* any two steps, failures and restarts included.                          *)
GrowthSound ==
  TypeOK /\ LatchDiscipline /\ MappingAligned /\ SpaceCovered /\ ExtendOnlyWhenFull

(* "other sessions can freely create new extents in existing segments"     *)
(* while one extends (_extendSegments): a session that asks for no more    *)
(* than the segments have gets its collection's latch.                     *)
FreelyCreate ==
  \A s \in Session :
    (At(s, "lock") /\ Fits(call[s].req)) ~> ~At(s, "lock")
=============================================================================
