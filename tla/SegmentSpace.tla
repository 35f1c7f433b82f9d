---------------------------- MODULE SegmentSpace ----------------------------
(***************************************************************************)
(* The free-space list of one segment: _dmsSegmentSpace of dmsSMEMgr.cpp.  *)
(*                                                                         *)
(* A segment space is a record                                             *)
(*    list       _freeSpaceList, a sequence of nodes [start, size] whose   *)
(*               starts are offsets in the segment,                        *)
(*    maxNode    _maxNode, the size of its largest node,                   *)
(*    totalFree  _totalFree, its number of free pages.                     *)
(* _startExtent is not kept: a page is named by its segment and its offset *)
(* in the segment, which is what "start >> segmentPagesSquareRoot" and     *)
(* "start - _startExtent" compute from a dmsExtentID.  A node packs two    *)
(* 16-bit halves; a segment has at most 2^15 pages (128MB of 4K pages), so *)
(* neither half overflows.  The operators run under the segment's _mutex.  *)
(***************************************************************************)
EXTENDS Integers, Sequences, FiniteSetsExt

CONSTANT SegPages          \* pages of a segment (_segmentPages, _totalSize)

ASSUME SegPagesAssumption == SegPages \in Nat \ {0}

Offset == 0 .. SegPages - 1
Node   == [start : Offset, size : 1 .. SegPages]

(* A space with nothing released into it yet (the constructor). *)
EmptySpace == [list |-> <<>>, maxNode |-> 0, totalFree |-> 0]

(* The pages of a node and of a list of nodes. *)
NodePages(nd) == nd.start .. nd.start + nd.size - 1
ListPages(l)  == UNION {NodePages(l[i]) : i \in DOMAIN l}

(* The nodes of a list are in page order and no two of them touch. *)
Separated(l) ==
  \A i, j \in DOMAIN l : i < j => l[i].start + l[i].size < l[j].start

(* _resetMax: the largest size in the list, 0 when it is empty. *)
ResetMax(l) == Max({l[i].size : i \in DOMAIN l} \cup {0})

(***************************************************************************)
(* reservePages: n pages from the front of the first node that has them.   *)
(* The caller applies the SME bits and the two counters of the manager.    *)
(***************************************************************************)
Fits(l, n) == {i \in DOMAIN l : l[i].size >= n}

TakeFrontKeep(l, i, n) ==       \* fault: a used up node stays in the list
  IF l[i].size = n
  THEN l
  ELSE [l EXCEPT ![i] = [start |-> l[i].start + n, size |-> l[i].size - n]]

TakeFrontBack(l, i, n) ==       \* fault: the start of the node is not moved
  IF l[i].size = n
  THEN SubSeq(l, 1, i - 1) \o SubSeq(l, i + 1, Len(l))
  ELSE [l EXCEPT ![i].size = @ - n]

TakeFront(l, i, n) ==
  IF l[i].size = n
  THEN SubSeq(l, 1, i - 1) \o SubSeq(l, i + 1, Len(l))
  ELSE [l EXCEPT ![i] = [start |-> l[i].start + n, size |-> l[i].size - n]]

ReserveIn(sp, n) ==
  LET i    == Min(Fits(sp.list, n))
      rest == TakeFront(sp.list, i, n)
  IN  IF n > sp.maxNode THEN [rc |-> "NOSPC", start |-> 0, space |-> sp]
      ELSE IF Fits(sp.list, n) = {} THEN [rc |-> "SYS", start |-> 0, space |-> sp]
      ELSE   [rc    |-> "OK",
              start |-> sp.list[i].start,
              space |-> [list      |-> rest,
                         maxNode   |-> IF sp.list[i].size = sp.maxNode
                                       THEN ResetMax(rest)
                                       ELSE sp.maxNode,
                         totalFree |-> sp.totalFree - n]]

(***************************************************************************)
(* releasePages: put the n pages from offset start back, merging them with *)
(* the node after them and the node before them when they touch.  k is     *)
(* where the scan stops: the first node that starts after "start".  A scan *)
(* that meets a node overlapping the range gives SDB_SYS and changes       *)
(* nothing (the last overlap test of the code, on the previous node,       *)
(* repeats the test the scan made on it).                                  *)
(***************************************************************************)
ScanStop(l, start) ==
  Min({i \in DOMAIN l : l[i].start > start} \cup {Len(l) + 1})

Overlap(l, start, n) ==
  LET k == ScanStop(l, start)
  IN  \/ \E i \in 1 .. k - 1 : l[i].start + l[i].size > start
      \/ k <= Len(l) /\ start + n > l[k].start

MergesNext(l, start, n) ==
  LET k == ScanStop(l, start) IN k <= Len(l) /\ start + n = l[k].start

MergesPrev(l, start) ==
  LET k == ScanStop(l, start)
  IN  k > 1 /\ l[k - 1].start + l[k - 1].size = start

MergedNode(l, start, n) ==
  LET k    == ScanStop(l, start)
      prev == IF MergesPrev(l, start) THEN l[k - 1].size ELSE 0
      next == IF MergesNext(l, start, n) THEN l[k].size ELSE 0
  IN  [start |-> start - prev, size |-> prev + n + next]

(* The first p nodes, then e, then the nodes from position q on. *)
Splice(l, p, e, q) == SubSeq(l, 1, p) \o <<e>> \o SubSeq(l, q, Len(l))

Merge(l, start, n) ==
  LET k == ScanStop(l, start)
  IN  Splice(l, IF MergesPrev(l, start) THEN k - 2 ELSE k - 1,
             MergedNode(l, start, n),
             IF MergesNext(l, start, n) THEN k + 1 ELSE k)

ReleaseIn(sp, start, n) ==
  LET size == MergedNode(sp.list, start, n).size
  IN  IF start + n > SegPages THEN [rc |-> "SYS", space |-> sp]
      ELSE IF n = 0 THEN [rc |-> "OK", space |-> sp]
      ELSE IF Overlap(sp.list, start, n) THEN [rc |-> "SYS", space |-> sp]
      ELSE   [rc    |-> "OK",
              space |-> [list      |-> Merge(sp.list, start, n),
                         maxNode   |-> IF size > sp.maxNode
                                       THEN size
                                       ELSE sp.maxNode,
                         totalFree |-> sp.totalFree + n]]
=============================================================================
