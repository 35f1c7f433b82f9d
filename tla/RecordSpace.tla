---------------------------- MODULE RecordSpace ----------------------------
(***************************************************************************)
(* The record space of one collection: insertRecord, _allocRecordSpace,    *)
(* _extentInsertRecord, _mapExtent2DelList and _saveDeletedRecord of       *)
(* dmsBlockData.cpp.                                                       *)
(*                                                                         *)
(* An extent starts with its metadata; the rest is cut into records.  A    *)
(* deleted record, that is a free piece, is in one of the delete lists of  *)
(* the collection, by size class; a list is the sequence of the records    *)
(* its _next links run through.  Sizes are scaled down.  A session works   *)
(* under the collection's mb latch, which _allocateExtent gives up while   *)
(* the storage unit is extended (see StorageUnit).                         *)
(***************************************************************************)
EXTENDS Integers, Sequences, FiniteSets

CONSTANTS Inserter,        \* threads that insert
          Creator,         \* the thread in addCollection
          Nobody,          \* nobody holds the mb latch
          Sizes,           \* record sizes asked for (after _finalRecordSize)
          MaxExt,          \* bound on the extents the storage unit can give
          Unit,            \* 32: the upper bound of the first size class
          DelSlots,        \* dmsMB::_max
          MaxSearch,       \* s_maxSearch
          MaxRec,          \* DMS_RECORD_MAX_SZ
          MinRec,          \* DMS_MIN_RECORD_SZ = DMS_MIN_DELETEDRECORD_SZ
          Small,           \* DMS_PAGE_SIZE4K
          Meta,            \* DMS_EXTENT_METADATA_SZ
          PageSize,        \* pageSize()
          SegmentPages,    \* segmentPages()
          PerExtent,       \* 1 << DMS_RECORDS_PER_EXTENT_SQUARE
          BestUp           \* DMS_BEST_UP_EXTENT_SZ

DelSlot == 0 .. DelSlots - 1
ClassBound(k) == Unit * 2 ^ k    \* the largest record of a size class

ASSUME RecordAssumption ==
  /\ Creator \notin Inserter /\ Nobody \notin Inserter \cup {Creator}
  /\ MaxExt \in Nat /\ Unit \in Nat \ {0} /\ DelSlots \in Nat \ {0}
  /\ MaxSearch \in Nat /\ MaxSearch >= 2
  /\ MaxRec \in Nat \ {0} /\ MinRec \in Nat \ {0} /\ Small \in Nat /\ Meta \in Nat
  /\ PageSize \in Nat /\ SegmentPages \in Nat \ {0}
  /\ PerExtent \in Nat \ {0} /\ BestUp \in Nat
  /\ Sizes \subseteq 1 .. MaxRec
  /\ \A k \in DelSlot : ClassBound(k) \in Nat
  /\ MaxRec <= ClassBound(DelSlots - 1)     \* the last class holds any record
  /\ PageSize >= Meta + MinRec              \* a page holds a record
  /\ \E q \in 0 .. MaxRec : MaxRec = q * PageSize
  /\ SegmentPages * PageSize >= Meta + MaxRec  \* a segment holds any record
  /\ BestUp >= MaxRec

VARIABLES
  ext,      \* the extents, in the order they were allocated
  heads,    \* the record headers by <<extent, offset>>, the record's ID
  del,      \* _deleteList: per size class, a sequence of record IDs
  left,     \* bytes of the last extent that _mapExtent2DelList has yet to cut
  mbLatch,  \* holder of the mb latch
  pc, need, \* per session: where it is, and the size it asks for
  tries,    \* per session: extents its insert has allocated
  newColl   \* addCollection has yet to allocate the first extent

recordData == <<ext, heads, del, left>>
recordVars == <<recordData, mbLatch, pc, need, tries, newColl>>

NoOffset == -1                   \* DMS_INVALID_OFFSET

EndOf(e) == ext[e].pages * PageSize

(* The size class: the halvings of (n - 1) / Unit that leave more than 0. *)
SlotOf(n) == Cardinality({k \in DelSlot : n > ClassBound(k)})

-----------------------------------------------------------------------------
(* _saveDeletedRecord puts a record in front of the list of its class. *)
Push(lists, rid, size) ==
  [lists EXCEPT ![SlotOf(size)] = <<rid>> \o @]

Deleted(size) ==
  [size |-> size, deleted |-> TRUE, prev |-> NoOffset, next |-> NoOffset]

(* _allocateExtent with deepInit: a space too small for a record is left,  *)
(* any other is cut into deleted records.                                  *)
AddExtent(np) ==
  LET space == np * PageSize - Meta
      maps  == space >= MinRec
  IN  /\ ext' = Append(ext, [pages |-> np, recs |-> 0,
                             free |-> IF maps THEN 0 ELSE space,
                             first |-> NoOffset, last |-> NoOffset])
      /\ left' = IF maps THEN space ELSE 0
      /\ UNCHANGED <<heads, del>>

Piece(n) ==
  IF n >= MaxRec + MinRec THEN MaxRec ELSE IF n > MaxRec THEN Small ELSE n

(* One deleted record of _mapExtent2DelList, under the latch. *)
MapExtent ==
  /\ left > 0
  /\ LET e   == Len(ext)
         n   == Piece(left)
         rid == <<e, EndOf(e) - left>>
     IN  /\ heads' = [x \in DOMAIN heads \cup {rid} |->
                        IF x = rid THEN Deleted(n) ELSE heads[x]]
         /\ del' = Push(del, rid, n)
         /\ ext' = [ext EXCEPT ![e].free = @ + n]
         /\ left' = left - n
  /\ UNCHANGED <<mbLatch, pc, need, tries, newColl>>

-----------------------------------------------------------------------------
(***************************************************************************)
(* _allocRecordSpace: from the class of the size upwards, the first of the *)
(* first MaxSearch records of a list that is large enough.                 *)
(***************************************************************************)
FitsAt(j, n) ==
  {i \in 1 .. Len(del[j]) : i <= MaxSearch /\ heads[del[j][i]].size >= n}

Classes(n) == {j \in DelSlot : j >= SlotOf(n) /\ FitsAt(j, n) # {}}

ReqPages(n) ==
  LET many   == n * PerExtent
      expand == IF many <= BestUp THEN many ELSE IF n < BestUp THEN BestUp ELSE n
      req    == (expand + Meta + PageSize - 1) \div PageSize
  IN  IF req > SegmentPages THEN SegmentPages ELSE IF req < 1 THEN 1 ELSE req

Remove(l, i) == SubSeq(l, 1, i - 1) \o SubSeq(l, i + 1, Len(l))

(* _extentInsertRecord: what is left over is cut off when it can hold a    *)
(* record, and the record goes to the end of the extent's chain.           *)
Rest(size, n) == IF size - n > MinRec THEN size - n ELSE 0

LinkRecord(rid, n) ==
  LET e     == rid[1]
      tail  == ext[e].last
      rest  == Rest(heads[rid].size, n)
      split == IF rest > 0 THEN {<<e, rid[2] + n>>} ELSE {}
  IN  /\ heads' = [x \in DOMAIN heads \cup split |->
                     IF x = rid
                       THEN [size |-> heads[x].size - rest, deleted |-> FALSE,
                             prev |-> tail, next |-> NoOffset]
                     ELSE IF x \in split THEN Deleted(rest)
                     ELSE IF x = <<e, tail>>
                       THEN [heads[x] EXCEPT !.next = rid[2]]
                     ELSE heads[x]]
      /\ ext' = [ext EXCEPT ![e] =
                   [pages |-> @.pages, recs |-> @.recs + 1,
                    free  |-> @.free - heads[rid].size + rest,
                    first |-> IF @.first = NoOffset THEN rid[2] ELSE @.first,
                    last  |-> rid[2]]]

TakeHead(j, i, n) ==             \* fault: unlinks the head of the list
  LET rid  == del[j][i]
      rest == Rest(heads[rid].size, n)
      cut  == [del EXCEPT ![j] = Remove(@, 1)]
  IN  /\ del' = IF rest > 0 THEN Push(cut, <<rid[1], rid[2] + n>>, rest) ELSE cut
      /\ LinkRecord(rid, n)

Take(j, i, n) ==
  LET rid  == del[j][i]
      rest == Rest(heads[rid].size, n)
      cut  == [del EXCEPT ![j] = Remove(@, i)]
  IN  /\ del' = IF rest > 0 THEN Push(cut, <<rid[1], rid[2] + n>>, rest) ELSE cut
      /\ LinkRecord(rid, n)

-----------------------------------------------------------------------------
RecordInit ==
  /\ mbLatch = Nobody
  /\ pc = [s \in Inserter |-> "idle"]
  /\ need = [s \in Inserter |-> 0]
  /\ tries = [s \in Inserter |-> 0]
  /\ newColl = TRUE
  /\ ext = <<>> /\ heads = <<>> /\ del = [j \in DelSlot |-> <<>>] /\ left = 0

StepTo(s, p) == pc' = [pc EXCEPT ![s] = p]

(* addCollection publishes the collection before it takes the mb latch to  *)
(* allocate initPages, so others may have inserted already.                *)
InitPages(np) ==
  /\ newColl /\ mbLatch = Nobody
  /\ newColl' = FALSE /\ mbLatch' = Creator
  /\ Len(ext) < MaxExt
  /\ AddExtent(np)
  /\ UNCHANGED <<pc, need, tries>>

ReleaseMBContext ==
  /\ mbLatch = Creator /\ left = 0
  /\ mbLatch' = Nobody
  /\ UNCHANGED <<recordData, pc, need, tries, newColl>>

InsertRecord(s, n) ==
  /\ pc[s] = "idle" /\ mbLatch = Nobody
  /\ mbLatch' = s
  /\ StepTo(s, "search")
  /\ need' = [need EXCEPT ![s] = n]
  /\ UNCHANGED <<recordData, tries, newColl>>

Return(s) ==
  /\ mbLatch' = Nobody
  /\ StepTo(s, "idle")
  /\ need' = [need EXCEPT ![s] = 0]
  /\ tries' = [tries EXCEPT ![s] = 0]

Found(s) ==
  /\ pc[s] = "search" /\ left = 0
  /\ \E j \in Classes(need[s]) :
       /\ \A k \in Classes(need[s]) : j <= k
       /\ \E i \in FitsAt(j, need[s]) :
            /\ \A k \in FitsAt(j, need[s]) : i <= k
            /\ Take(j, i, need[s])
  /\ Return(s)
  /\ UNCHANGED <<left, newColl>>

(* A miss goes on to _allocateExtent, which may give up the latch. *)
Missed(s) ==
  /\ pc[s] = "search" /\ left = 0 /\ Classes(need[s]) = {}
  /\ StepTo(s, "alloc")
  /\ mbLatch' \in {s, Nobody}
  /\ UNCHANGED <<recordData, need, tries, newColl>>

Allocate(s) ==
  /\ pc[s] = "alloc" /\ mbLatch \in {s, Nobody}
  /\ Len(ext) < MaxExt
  /\ mbLatch' = s
  /\ AddExtent(ReqPages(need[s]))
  /\ tries' = [tries EXCEPT ![s] = @ + 1]
  /\ StepTo(s, "search")
  /\ UNCHANGED <<need, newColl>>

NoSpace(s) ==                    \* _allocateExtent fails and so does the insert
  /\ pc[s] = "alloc" /\ mbLatch \in {s, Nobody}
  /\ Return(s)
  /\ UNCHANGED <<recordData, newColl>>

RecordNext ==
  \/ \E p \in 1 .. SegmentPages : InitPages(p)
  \/ MapExtent \/ ReleaseMBContext
  \/ \E s \in Inserter :
       \/ \E n \in Sizes : InsertRecord(s, n)
       \/ Found(s) \/ Missed(s) \/ Allocate(s) \/ NoSpace(s)

RecordSpec == RecordInit /\ [][RecordNext]_recordVars

-----------------------------------------------------------------------------
Extents == 1 .. Len(ext)

RecordTypeOK ==
  /\ ext \in Seq([pages : 1 .. SegmentPages, recs : Nat, free : Nat,
                  first : Nat \cup {NoOffset}, last : Nat \cup {NoOffset}])
  /\ heads \in [DOMAIN heads -> [size : 1 .. MaxRec, deleted : BOOLEAN,
                  prev : Nat \cup {NoOffset}, next : Nat \cup {NoOffset}]]
  /\ DOMAIN heads \subseteq Extents \X Nat
  /\ del \in [DelSlot -> Seq(Extents \X Nat)]
  /\ left \in Nat
  /\ mbLatch \in Inserter \cup {Creator, Nobody}
  /\ pc \in [Inserter -> {"idle", "search", "alloc"}]
  /\ need \in [Inserter -> Sizes \cup {0}] /\ tries \in [Inserter -> Nat]
  /\ newColl \in BOOLEAN

(* The records of an extent, used and deleted, cover the extent from its   *)
(* metadata to its end (to where _mapExtent2DelList is, in the last one)   *)
(* without a gap and without an overlap: no insert writes over its         *)
(* neighbour and no byte is lost.                                          *)
MappedEnd(e) == IF e = Len(ext) THEN EndOf(e) - left ELSE EndOf(e)

Tiled ==
  /\ \A e \in Extents : MappedEnd(e) = Meta \/ <<e, Meta>> \in DOMAIN heads
  /\ \A r \in DOMAIN heads :
       LET end == r[2] + heads[r].size
       IN  /\ Meta <= r[2] /\ end <= MappedEnd(r[1])
           /\ end = MappedEnd(r[1]) \/ <<r[1], end>> \in DOMAIN heads
           /\ \A x \in DOMAIN heads : x[1] = r[1] => x[2] <= r[2] \/ x[2] >= end

(* _freeSpace of an extent is the size of its deleted records (the         *)
(* SDB_ASSERT of _mapExtent2DelList, kept by every insert after it).       *)
FreeBytes(e) ==
  {b \in Meta .. EndOf(e) - 1 :
     \E r \in DOMAIN heads : /\ r[1] = e /\ heads[r].deleted
                             /\ r[2] <= b /\ b < r[2] + heads[r].size}

FreeSpaceExact == \A e \in Extents : ext[e].free = Cardinality(FreeBytes(e))

(* Every deleted record is in the list of its class, once, and in no other *)
(* list, and the lists hold nothing else: free space is neither lost to    *)
(* the search nor given out twice.                                         *)
ListsExact ==
  /\ \A r \in DOMAIN heads :
       heads[r].deleted =>
         \E i \in 1 .. Len(del[SlotOf(heads[r].size)]) :
           del[SlotOf(heads[r].size)][i] = r
  /\ \A j \in DelSlot : \A i \in 1 .. Len(del[j]) :
       /\ del[j][i] \in DOMAIN heads
       /\ heads[del[j][i]].deleted /\ SlotOf(heads[del[j][i]].size) = j
       /\ \A k \in 1 .. Len(del[j]) : del[j][k] = del[j][i] => k = i

(* The chain of an extent visits each of its records exactly once in both  *)
(* directions: as many as _recCount says, linked to their neighbours,      *)
(* between _firstRecordOffset and _lastRecordOffset.                       *)
Live(e) == {r \in DOMAIN heads : r[1] = e /\ ~heads[r].deleted}

Visits(e, S) ==                  \* a walk from the first record stays in S
  /\ ext[e].first # NoOffset => <<e, ext[e].first>> \in S
  /\ \A r \in S : heads[r].next # NoOffset => <<e, heads[r].next>> \in S

ChainOf(e) ==
  /\ ext[e].recs = Cardinality(Live(e))
  /\ Visits(e, Live(e)) /\ \A S \in SUBSET Live(e) : Visits(e, S) => S = Live(e)
  /\ ext[e].first = NoOffset <=> Live(e) = {}
  /\ ext[e].last = NoOffset <=> Live(e) = {}
  /\ ext[e].last # NoOffset => <<e, ext[e].last>> \in Live(e)
  /\ \A r \in Live(e) :
       /\ heads[r].prev = NoOffset <=> r[2] = ext[e].first
       /\ heads[r].next = NoOffset <=> r[2] = ext[e].last
       /\ heads[r].next # NoOffset => heads[<<e, heads[r].next>>].prev = r[2]

RecordChain == \A e \in Extents : ChainOf(e)

(* The retry of _allocRecordSpace finds its record: an insert never needs  *)
(* a second extent, although a search looks at no more than MaxSearch      *)
(* records of a list and others may insert while the latch is given up.    *)
OneExtentPerInsert ==
  \A s \in Inserter : tries[s] <= 1 /\ (tries[s] = 1 => pc[s] # "alloc")

(* Extents, delete lists and record chains of a collection are exact after *)
(* every step of inserts that give up the latch between their steps        *)
(* (insertRecord), and the retry of _allocRecordSpace finds room.          *)
RecordsExact ==
  /\ RecordTypeOK /\ Tiled /\ FreeSpaceExact /\ ListsExact /\ RecordChain
  /\ OneExtentPerInsert
=============================================================================
