---------------------------- MODULE ExtentChain ----------------------------
(***************************************************************************)
(* The extents of one collection (dms/dmsBlockData.cpp, _allocateExtent    *)
(* and addExtent2Meta) and the scanner that walks them                     *)
(* (dms/dmsScanner.cpp).                                                   *)
(*                                                                         *)
(* The chain lives in the mapped file: first, last and the per-segment     *)
(* first and last extents are in the metadata block and its expand extent, *)
(* prev, next and logicID in the header of every extent.  addExtent2Meta   *)
(* links a new extent with single stores into that memory, one action      *)
(* each; the collection's latch is held over all of them.  A crash of the  *)
(* process keeps what was stored, frees the latch, and nothing at the next *)
(* open repairs the chain.  A scanner holds the latch shared while it is   *)
(* in an extent, may pause its context there, and reads the first extent   *)
(* and the next one without asking for the latch.                          *)
(*                                                                         *)
(* The free pages are those of the SegmentSpace module: here any one may   *)
(* be handed out, and an extent has one page.  The load list is left out,  *)
(* no caller asks for it.                                                  *)
(***************************************************************************)
EXTENDS Integers, Sequences, FiniteSets

CONSTANTS SegNum,      \* data segments the expand extent has room for
          SegPages,    \* pages, and so extents at most, of a segment
          Factor,      \* logical IDs of a segment: 2^_getFactor() in the code
          Scanner,     \* concurrent scans
          MaxDeaths    \* bound on the crashes

ASSUME ChainAssumption ==
  /\ SegNum \in Nat \ {0} /\ SegPages \in Nat \ {0} /\ Factor \in Nat
  /\ Factor >= SegPages
  /\ MaxDeaths \in Nat

Invalid == -1                              \* DMS_INVALID_EXTENT
Ext == 0 .. SegNum * SegPages - 1
ExtOrNone == Ext \cup {Invalid}
Seg == 0 .. SegNum - 1
extent2Segment(e) == e \div SegPages

VARIABLES
  first, last,        \* mb._firstExtentID, mb._lastExtentID
  segFirst, segLast,  \* the pairs of mbEx._array
  usedSegNum,         \* mbEx._header._usedSegNum
  node,               \* the headers of the extents
  pages,              \* pages the space manager has handed out
  at, cur, pv,        \* the writer: next store, extID, prevExt
  scan,               \* the scanners
  added,              \* history: extents allocated before the first crash
  deaths              \* crashes so far

chain == <<first, last, segFirst, segLast, usedSegNum, node>>
chainVars == <<chain, pages, at, cur, pv, scan, added, deaths>>

fresh == [prev |-> Invalid, next |-> Invalid, logicID |-> Invalid]
closed == [at |-> "idle", cur |-> Invalid, lock |-> FALSE,
           seen |-> <<>>, start |-> {}]

ChainInit ==
  /\ first = Invalid /\ last = Invalid
  /\ segFirst = [s \in Seg |-> Invalid]
  /\ segLast = [s \in Seg |-> Invalid]
  /\ usedSegNum = 0
  /\ node = [e \in Ext |-> fresh]
  /\ pages = {}
  /\ at = "idle" /\ cur = Invalid /\ pv = Invalid
  /\ scan = [s \in Scanner |-> closed]
  /\ added = {} /\ deaths = 0

Put(e, f, v) == node' = [node EXCEPT ![e][f] = v]
Goto(l) == at' = l
writerRest == <<pages, cur, scan, added, deaths>>

-----------------------------------------------------------------------------
(* Allocation of an extent *)

(* _allocateExtent: the latch, a page, the header of the extent *)
allocateExtent(e) ==
  /\ at = "idle"
  /\ \A s \in Scanner : ~scan[s].lock
  /\ e \in Ext \ pages
  /\ pages' = pages \cup {e}
  /\ node' = [node EXCEPT ![e] = fresh]
  /\ cur' = e
  /\ IF segLast[extent2Segment(e)] = Invalid
       THEN pv' = Invalid /\ Goto("logicID")
       ELSE pv' = segLast[extent2Segment(e)] /\ Goto("append")
  /\ UNCHANGED <<first, last, segFirst, segLast, usedSegNum,
                 scan, added, deaths>>

newLogicID ==
  /\ at = "logicID" /\ Goto("segFirst")
  /\ Put(cur, "logicID", extent2Segment(cur) * Factor)
  /\ UNCHANGED <<first, last, segFirst, segLast, usedSegNum, pv, writerRest>>

setFirstExtentID ==
  /\ at = "segFirst" /\ Goto("segLast")
  /\ segFirst' = [segFirst EXCEPT ![extent2Segment(cur)] = cur]
  /\ UNCHANGED <<first, last, segLast, usedSegNum, node, pv, writerRest>>

setLastExtentID ==
  /\ at = "segLast" /\ Goto("used")
  /\ segLast' = [segLast EXCEPT ![extent2Segment(cur)] = cur]
  /\ UNCHANGED <<first, last, segFirst, usedSegNum, node, pv, writerRest>>

countSegment ==
  /\ at = "used" /\ Goto("find")
  /\ usedSegNum' = usedSegNum + 1
  /\ UNCHANGED <<first, last, segFirst, segLast, node, pv, writerRest>>

below(e) == {s \in Seg : s < extent2Segment(e) /\ segLast[s] # Invalid}

\* fault: the last extent of the collection is taken for the predecessor
findPrevAnyLast ==
  /\ at = "find" /\ Goto("link")
  /\ IF first # Invalid
       THEN pv' = last /\ Put(cur, "prev", last)
       ELSE UNCHANGED <<pv, node>>
  /\ UNCHANGED <<first, last, segFirst, segLast, usedSegNum, writerRest>>

(* The last extent of the nearest segment below that has one *)
findPrev ==
  /\ at = "find" /\ Goto("link")
  /\ IF first # Invalid /\ below(cur) # {}
       THEN \E s \in below(cur) :
              /\ \A t \in below(cur) : t <= s
              /\ pv' = segLast[s] /\ Put(cur, "prev", segLast[s])
       ELSE UNCHANGED <<pv, node>>
  /\ UNCHANGED <<first, last, segFirst, segLast, usedSegNum, writerRest>>

(* A further extent of its segment *)
appendLast ==
  /\ at = "append" /\ Goto("appendPrev")
  /\ segLast' = [segLast EXCEPT ![extent2Segment(cur)] = cur]
  /\ UNCHANGED <<first, last, segFirst, usedSegNum, node, pv, writerRest>>

appendPrev ==
  /\ at = "appendPrev" /\ Goto("appendLogicID")
  /\ Put(cur, "prev", pv)
  /\ UNCHANGED <<first, last, segFirst, segLast, usedSegNum, pv, writerRest>>

appendLogicID ==
  /\ at = "appendLogicID" /\ Goto("link")
  /\ Put(cur, "logicID", node[pv].logicID + 1)
  /\ UNCHANGED <<first, last, segFirst, segLast, usedSegNum, pv, writerRest>>

(* Linking: what the new extent points to, what points back to it, and the *)
(* pointer a scan follows last.                                            *)
after == IF pv # Invalid THEN node[pv].next ELSE first

\* fault: the new extent does not point on to the one behind it
linkNextForgotten ==
  /\ at = "link"
  /\ after # Invalid
  /\ Goto("forward")
  /\ UNCHANGED <<chain, pv, writerRest>>

linkNext ==
  /\ at = "link"
  /\ after # Invalid
  /\ Put(cur, "next", after) /\ Goto("back")
  /\ UNCHANGED <<first, last, segFirst, segLast, usedSegNum, pv, writerRest>>

linkBack ==
  /\ at = "back" /\ Goto("forward")
  /\ Put(node[cur].next, "prev", cur)
  /\ UNCHANGED <<first, last, segFirst, segLast, usedSegNum, pv, writerRest>>

linkAtEnd ==
  /\ at = "link"
  /\ after = Invalid
  /\ Goto("forward")
  /\ last' = IF pv # Invalid THEN cur ELSE last
  /\ UNCHANGED <<first, segFirst, segLast, usedSegNum, node, pv, writerRest>>

linkForward ==
  /\ at = "forward" /\ Goto("last")
  /\ IF pv # Invalid
       THEN Put(pv, "next", cur) /\ UNCHANGED first
       ELSE first' = cur /\ UNCHANGED node
  /\ UNCHANGED <<last, segFirst, segLast, usedSegNum, pv, writerRest>>

(* The last store, of mb._lastExtentID for the first extent of all, and    *)
(* the return to the caller, which lets go of the latch.                   *)
finish ==
  /\ at = "last" /\ Goto("idle")
  /\ last' = IF pv = Invalid /\ last = Invalid THEN cur ELSE last
  /\ added' = IF deaths = 0 THEN added \cup {cur} ELSE added
  /\ cur' = Invalid /\ pv' = Invalid
  /\ UNCHANGED <<first, segFirst, segLast, usedSegNum, node, pages,
                 scan, deaths>>

AllocateStep ==
  \/ \E e \in Ext : allocateExtent(e)
  \/ newLogicID \/ setFirstExtentID \/ setLastExtentID \/ countSegment
  \/ findPrev \/ appendLast \/ appendPrev \/ appendLogicID
  \/ linkNext \/ linkBack \/ linkAtEnd \/ linkForward \/ finish

-----------------------------------------------------------------------------
(* A scan *)

(* The extents a scan meets from mb's first extent on: the least set of    *)
(* the collection's pages that has it and, of each of its extents, the     *)
(* next one.                                                               *)
Follows(S) ==
  /\ first # Invalid => first \in S
  /\ \A e \in S : node[e].next # Invalid => node[e].next \in S

Forward ==
  LET walks == {S \in SUBSET pages : Follows(S)}
  IN  {e \in pages : \A S \in walks : e \in S}

scanRest == <<chain, pages, at, cur, pv, added, deaths>>

(* The scanner is made with mb._firstExtentID *)
openScan(s) ==
  /\ scan[s].at = "idle"
  /\ first # Invalid
  /\ scan' = [scan EXCEPT ![s] = [at |-> "enter", cur |-> first,
                                  lock |-> FALSE, seen |-> <<>>,
                                  start |-> Forward]]
  /\ UNCHANGED scanRest

(* advance: _firstInit takes the latch unless it is held *)
firstInit(s) ==
  /\ scan[s].at = "enter"
  /\ scan[s].lock \/ at = "idle"
  /\ scan' = [scan EXCEPT ![s].at = "in", ![s].lock = TRUE,
                          ![s].seen = Append(@, scan[s].cur)]
  /\ UNCHANGED scanRest

(* The caller pauses the context *)
pause(s) ==
  /\ scan[s].at = "in" /\ scan[s].lock
  /\ scan' = [scan EXCEPT ![s].lock = FALSE]
  /\ UNCHANGED scanRest

stepToNextExtent(s) ==
  /\ scan[s].at = "in"
  /\ IF node[scan[s].cur].next # Invalid
       THEN scan' = [scan EXCEPT ![s].at = "enter", ![s].cur = node[@].next]
       ELSE scan' = [scan EXCEPT ![s].at = "end", ![s].lock = FALSE]
  /\ UNCHANGED scanRest

closeScan(s) ==
  /\ scan[s].at = "end"
  /\ scan' = [scan EXCEPT ![s] = closed]
  /\ UNCHANGED scanRest

(* The process dies and opens the file again: the mapped file keeps what   *)
(* was stored.                                                             *)
ChainCrash ==
  /\ deaths < MaxDeaths
  /\ deaths' = deaths + 1
  /\ at' = "idle" /\ cur' = Invalid /\ pv' = Invalid
  /\ scan' = [s \in Scanner |-> closed]
  /\ UNCHANGED <<chain, pages, added>>

ScanStep(s) ==
  openScan(s) \/ firstInit(s) \/ pause(s) \/ stepToNextExtent(s)
    \/ closeScan(s)

ChainNext == AllocateStep \/ (\E s \in Scanner : ScanStep(s)) \/ ChainCrash

ChainSpec == ChainInit /\ [][ChainNext]_chainVars

-----------------------------------------------------------------------------
(* Properties *)

(* Every extent pointer is an extent or invalid, and the cursors of the    *)
(* writer and the scanners are what their state says: no store of          *)
(* addExtent2Meta writes through an invalid extent.                        *)
ChainTypeOK ==
  /\ first \in ExtOrNone /\ last \in ExtOrNone
  /\ segFirst \in [Seg -> ExtOrNone] /\ segLast \in [Seg -> ExtOrNone]
  /\ usedSegNum \in 0 .. SegNum
  /\ node \in [Ext -> [prev : ExtOrNone, next : ExtOrNone,
                       logicID : Nat \cup {Invalid}]]
  /\ pages \subseteq Ext
  /\ at \in {"idle", "logicID", "segFirst", "segLast", "used", "find",
             "append", "appendPrev", "appendLogicID", "link", "back",
             "forward", "last"}
  /\ cur \in ExtOrNone /\ pv \in ExtOrNone
  /\ (at # "idle" => cur \in Ext)
  /\ (at = "back" => node[cur].next \in Ext)
  /\ scan \in [Scanner -> [at : {"idle", "enter", "in", "end"},
                           cur : ExtOrNone, lock : BOOLEAN,
                           seen : Seq(Ext), start : SUBSET Ext]]
  /\ added \subseteq pages
  /\ deaths \in 0 .. MaxDeaths

logicID(e) == node[e].logicID
in(s) == {e \in added : extent2Segment(e) = s}
Least(S, e) == e \in S /\ \A f \in S : logicID(e) <= logicID(f)
Greatest(S, e) == e \in S /\ \A f \in S : logicID(f) <= logicID(e)
Ends(S, lo, hi) ==
  IF S = {} THEN lo = Invalid /\ hi = Invalid
            ELSE Least(S, lo) /\ Greatest(S, hi)

(* Whenever addExtent2Meta is not under way and the process never crashed, *)
(* the chain is the list of all extents of the collection in the order of  *)
(* their logical IDs, in both directions, whatever the order in which the  *)
(* space manager hands out pages of the segments; the expand extent has    *)
(* the ends of every segment's part of it and their number.                *)
ChainExact ==
  (at = "idle" /\ deaths = 0) =>
    /\ Ends(added, first, last)
    /\ \A s \in Seg : Ends(in(s), segFirst[s], segLast[s])
    /\ usedSegNum = Cardinality({s \in Seg : in(s) # {}})
    /\ \A e \in added :
         /\ Ends({f \in added : logicID(f) > logicID(e)}, node[e].next,
                 IF node[e].next = Invalid THEN Invalid ELSE last)
         /\ IF e = first THEN node[e].prev = Invalid
                         ELSE /\ node[e].prev \in added
                              /\ node[node[e].prev].next = e

(* At every store and after every crash, following next from mb's first    *)
(* extent goes up in the logical IDs, so that a scan of a half linked      *)
(* chain ends and meets no extent twice; and the IDs of a segment never    *)
(* run into the range segID << _getFactor() of a later one, with extents   *)
(* on every page and restarts in between.                                  *)
ForwardSorted ==
  LET F == Forward
  IN  /\ \A e \in F : node[e].next # Invalid => logicID(e) < logicID(node[e].next)
      /\ \A e, f \in F : extent2Segment(e) < extent2Segment(f) => logicID(e) < logicID(f)

(* The chain of the extents, whole when no store is outstanding and        *)
(* sorted at every store, crash and restart.                               *)
ChainSound == ChainTypeOK /\ ChainExact /\ ForwardSorted

(* Extents that were in use before the first crash are reached from mb's   *)
(* first extent ever after: neither a crash between two stores nor the     *)
(* allocations that go on from what it left cut them off.                  *)
Kept == added \subseteq Forward

(* A scan that has come to the end has met, in rising order, every extent  *)
(* that was in the chain when it began, though it read the pointers        *)
(* without the latch while extents were linked in.                         *)
ScanComplete ==
  \A s \in Scanner :
    LET c == scan[s]
    IN  /\ \A i \in 1 .. Len(c.seen) - 1 :
             logicID(c.seen[i]) < logicID(c.seen[i + 1])
        /\ c.at = "end" => c.start \subseteq {c.seen[i] : i \in DOMAIN c.seen}

=============================================================================
