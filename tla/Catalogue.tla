----------------------------- MODULE Catalogue -----------------------------
(***************************************************************************)
(* The collections of a storage unit (dms/dmsBlockData.cpp,                *)
(* addCollection, getMBContext, _onMapMeta).                               *)
(*                                                                         *)
(* The metadata blocks, the number of them in use and the high-water mark  *)
(* of the logical IDs are in the mapped file; the maps from names and      *)
(* unique IDs to metadata blocks are in memory and built from the blocks   *)
(* when the file is opened.  addCollection reserves the expand extent      *)
(* before it takes _metadataLatch, fills a block under the latch with one  *)
(* store after the other, and allocates the first extent of the new        *)
(* collection after it let go of the latch.  Sessions run it at once, the  *)
(* unit runs out of pages or blocks, and the process dies between stores.  *)
(* There is no operation that drops a collection.                          *)
(***************************************************************************)
EXTENDS Integers, FiniteSets, FiniteSetsExt

CONSTANTS Session, Name,
          UniqueID,    \* unique IDs a caller may give
          NoID,        \* UTIL_UNIQUEID_NULL
          Slots,       \* DMS_MME_SLOTS
          Pages,       \* pages of the unit; a meta or data extent takes one
          MaxCrash     \* bound on the crashes

ASSUME CatalogueAssumption ==
  Slots \in Nat \ {0} /\ Pages \in Nat /\ MaxCrash \in Nat
    /\ NoID \notin UniqueID

None == -1             \* DMS_INVALID_EXTENT, DMS_INVALID_MBID, DMS_INVALID_CLID
Slot == 0 .. Slots - 1
Page == 0 .. Pages - 1
NoName == ""

VARIABLES
  mb,            \* _dmsMME->_mbList
  numMB, MBHWM,  \* _dmsHeader
  reserved,      \* the space manager's bits
  nameMap,       \* _collectionNameMap
  idMap,         \* _collectionIDMap
  latch,         \* the session that holds _metadataLatch, or {}
  call,          \* the calls of the sessions
  crashes

disk == <<mb, numMB, MBHWM, reserved>>
vars == <<disk, nameMap, idMap, latch, call, crashes>>

freeMB == [used |-> FALSE, name |-> NoName, id |-> NoID, lid |-> None,
           ex |-> None, extents |-> {}]
idle == [at |-> "idle", name |-> NoName, id |-> NoID, ex |-> None,
         slot |-> None, lid |-> None, rc |-> "OK"]

Init ==
  /\ mb = [i \in Slot |-> freeMB]
  /\ numMB = 0 /\ MBHWM = 0
  /\ reserved = {}
  /\ nameMap = [n \in Name |-> None]
  /\ idMap = [u \in UniqueID |-> None]
  /\ latch = {}
  /\ call = [s \in Session |-> idle]
  /\ crashes = 0

To(s, l) == call' = [call EXCEPT ![s].at = l]
Fail(s, l, rc) == call' = [call EXCEPT ![s].at = l, ![s].rc = rc]
At(s, l) == call[s].at = l

-----------------------------------------------------------------------------
(* addCollection *)

(* The call, and the pages of the expand extent *)
reserveEx(s, n, u) ==
  /\ At(s, "idle")
  /\ \/ \E p \in Page \ reserved :
          /\ reserved' = reserved \cup {p}
          /\ call' = [call EXCEPT ![s] =
                        [idle EXCEPT !.at = "latch", !.name = n, !.id = u,
                                     !.ex = p]]
     \/ /\ Page \subseteq reserved
        /\ call' = [call EXCEPT ![s] =
                      [idle EXCEPT !.at = "done", !.name = n, !.id = u,
                                   !.rc = "NOSPC"]]
        /\ UNCHANGED reserved
  /\ UNCHANGED <<mb, numMB, MBHWM, nameMap, idMap, latch, crashes>>

latchMeta(s) ==
  /\ At(s, "latch") /\ latch = {}
  /\ latch' = latch \cup {s}
  /\ To(s, "check")
  /\ UNCHANGED <<disk, nameMap, idMap, crashes>>

freeSlots == {i \in Slot : ~mb[i].used}

(* The lookups and the search for a free block *)
checks(s) ==
  IF nameMap[call[s].name] # None THEN "EXIST"
  ELSE IF call[s].id # NoID /\ idMap[call[s].id] # None THEN "CONFLICT"
  ELSE IF numMB >= Slots THEN "NOSPC"
  ELSE IF freeSlots = {} THEN "SYS" ELSE "OK"

check(s) ==
  /\ At(s, "check")
  /\ IF checks(s) # "OK"
       THEN Fail(s, "release", checks(s))
       ELSE call' = [call EXCEPT ![s].at = "lid", ![s].slot = Min(freeSlots)]
  /\ UNCHANGED <<disk, nameMap, idMap, latch, crashes>>

takeLID(s) ==
  /\ At(s, "lid")
  /\ call' = [call EXCEPT ![s].at = "name", ![s].lid = MBHWM]
  /\ MBHWM' = MBHWM + 1
  /\ UNCHANGED <<mb, numMB, reserved, nameMap, idMap, latch, crashes>>

resetRest == <<numMB, MBHWM, reserved, nameMap, idMap, latch, crashes>>

(* dmsMB::reset: name and unique ID, then the flag, then the logical ID *)
resetName(s) ==
  /\ At(s, "name") /\ To(s, "flag")
  /\ mb' = [mb EXCEPT ![call[s].slot].name = call[s].name,
                      ![call[s].slot].id = call[s].id]
  /\ UNCHANGED resetRest

resetFlag(s) ==
  /\ At(s, "flag") /\ To(s, "setLID")
  /\ mb' = [mb EXCEPT ![call[s].slot].used = TRUE]
  /\ UNCHANGED resetRest

resetLID(s) ==
  /\ At(s, "setLID") /\ To(s, "count")
  /\ mb' = [mb EXCEPT ![call[s].slot].lid = call[s].lid,
                      ![call[s].slot].ex = None]
  /\ UNCHANGED resetRest

\* fault: the latch is let go as soon as the names are in
collectionInsertUnlatch(s) ==
  /\ At(s, "count") /\ To(s, "expand")
  /\ numMB' = numMB + 1
  /\ nameMap' = [nameMap EXCEPT ![call[s].name] = call[s].slot]
  /\ idMap' = [u \in UniqueID |->
                 IF u = call[s].id THEN call[s].slot ELSE idMap[u]]
  /\ latch' = latch \ {s}
  /\ UNCHANGED <<mb, MBHWM, reserved, crashes>>

(* _numMB and _collectionInsert *)
collectionInsert(s) ==
  /\ At(s, "count") /\ To(s, "expand")
  /\ numMB' = numMB + 1
  /\ nameMap' = [nameMap EXCEPT ![call[s].name] = call[s].slot]
  /\ idMap' = [u \in UniqueID |->
                 IF u = call[s].id THEN call[s].slot ELSE idMap[u]]
  /\ UNCHANGED <<mb, MBHWM, reserved, latch, crashes>>

\* fault: the call keeps the expand extent it gave away
setExpandKept(s) ==
  /\ At(s, "expand")
  /\ mb' = [mb EXCEPT ![call[s].slot].ex = call[s].ex]
  /\ To(s, "extent")
  /\ latch' = latch \ {s}
  /\ UNCHANGED <<numMB, MBHWM, reserved, nameMap, idMap, crashes>>

(* The expand extent goes over to the block, the latch is released *)
setExpand(s) ==
  /\ At(s, "expand")
  /\ mb' = [mb EXCEPT ![call[s].slot].ex = call[s].ex]
  /\ call' = [call EXCEPT ![s].at = "extent", ![s].ex = None]
  /\ latch' = latch \ {s}
  /\ UNCHANGED <<numMB, MBHWM, reserved, nameMap, idMap, crashes>>

(* getMBContext and _allocateExtent for the first extent: a failure is     *)
(* returned and the collection stays.                                      *)
firstExtent(s) ==
  /\ At(s, "extent")
  /\ \/ \E p \in Page \ reserved :
          /\ reserved' = reserved \cup {p}
          /\ mb' = [mb EXCEPT ![call[s].slot].extents = @ \cup {p}]
          /\ To(s, "done")
     \/ /\ Page \subseteq reserved
        /\ Fail(s, "done", "NOSPC")
        /\ UNCHANGED <<mb, reserved>>
  /\ UNCHANGED <<numMB, MBHWM, nameMap, idMap, latch, crashes>>

(* The error path under the latch *)
release(s) ==
  /\ At(s, "release")
  /\ call' = [call EXCEPT ![s].at = "done", ![s].ex = None]
  /\ latch' = latch \ {s}
  /\ reserved' = reserved \ {call[s].ex}
  /\ UNCHANGED <<mb, numMB, MBHWM, nameMap, idMap, crashes>>

(* The call returns, after flushMeta if it went well *)
return(s) ==
  /\ At(s, "done")
  /\ call' = [call EXCEPT ![s] = idle]
  /\ UNCHANGED <<disk, nameMap, idMap, latch, crashes>>

addStep(s) ==
  \/ latchMeta(s) \/ check(s) \/ takeLID(s) \/ resetName(s) \/ resetFlag(s)
  \/ resetLID(s) \/ collectionInsert(s) \/ setExpand(s) \/ firstExtent(s)
  \/ release(s) \/ return(s)

-----------------------------------------------------------------------------
(* A record is inserted by name: getMBContext under the latch shared, and  *)
(* an extent if the collection needs one.                                  *)
insert(s, n) ==
  /\ At(s, "idle") /\ latch = {}
  /\ nameMap[n] # None
  /\ mb[nameMap[n]].ex # None     \* else addExtent2Meta fails with SDB_SYS
  /\ \E p \in Page \ reserved :
       /\ reserved' = reserved \cup {p}
       /\ mb' = [mb EXCEPT ![nameMap[n]].extents = @ \cup {p}]
  /\ UNCHANGED <<numMB, MBHWM, nameMap, idMap, latch, call, crashes>>

\* fault: the names are loaded for as many blocks as the header counts
CrashAndOpenByCount ==
  /\ crashes < MaxCrash /\ crashes' = crashes + 1
  /\ latch' = {} /\ call' = [s \in Session |-> idle]
  /\ nameMap' = [n \in Name |->
       Max({None} \cup {i \in Slot : i < numMB /\ mb[i].used /\ mb[i].name = n})]
  /\ idMap' = [u \in UniqueID |->
       Max({None} \cup {i \in Slot : i < numMB /\ mb[i].used /\ mb[i].id = u})]
  /\ UNCHANGED disk

(* The process dies; _onMapMeta builds the maps from the blocks in use, a  *)
(* later block overwriting an earlier one.                                 *)
CrashAndOpen ==
  /\ crashes < MaxCrash /\ crashes' = crashes + 1
  /\ latch' = {} /\ call' = [s \in Session |-> idle]
  /\ nameMap' = [n \in Name |->
       Max({None} \cup {i \in Slot : mb[i].used /\ mb[i].name = n})]
  /\ idMap' = [u \in UniqueID |->
       Max({None} \cup {i \in Slot : mb[i].used /\ mb[i].id = u})]
  /\ UNCHANGED disk

Next ==
  \/ \E s \in Session :
       \/ \E n \in Name, u \in UniqueID \cup {NoID} : reserveEx(s, n, u)
       \/ addStep(s)
       \/ \E n \in Name : insert(s, n)
  \/ CrashAndOpen

Spec == Init /\ [][Next]_vars

-----------------------------------------------------------------------------
(* Properties *)

Block == [used : BOOLEAN, name : Name \cup {NoName},
          id : UniqueID \cup {NoID}, lid : Nat \cup {None},
          ex : Page \cup {None}, extents : SUBSET Page]
Point == {"idle", "latch", "check", "lid", "name", "flag", "setLID", "count",
          "expand", "extent", "release", "done"}
Call == [at : Point, name : Name \cup {NoName}, id : UniqueID \cup {NoID},
         ex : Page \cup {None}, slot : Slot \cup {None},
         lid : Nat \cup {None}, rc : {"OK", "EXIST", "CONFLICT", "NOSPC", "SYS"}]

(* Variables keep their types; the header never counts more blocks than    *)
(* the metadata extent has.                                                *)
TypeOK ==
  /\ mb \in [Slot -> Block]
  /\ numMB \in 0 .. Slots /\ MBHWM \in Nat
  /\ reserved \subseteq Page
  /\ nameMap \in [Name -> Slot \cup {None}]
  /\ idMap \in [UniqueID -> Slot \cup {None}]
  /\ latch \subseteq Session
  /\ call \in [Session -> Call]
  /\ crashes \in 0 .. MaxCrash

inUse == {i \in Slot : mb[i].used}

(* Whenever the latch is free a name leads to the one block in use with    *)
(* that name, and a unique ID to the one block with that ID: two sessions  *)
(* that add the same collection, and a restart after a crash at any store, *)
(* never make two of it or lose one.                                       *)
MapsExact ==
  latch = {} =>
    /\ \A n \in Name : {i \in inUse : mb[i].name = n}
                         = {nameMap[n]} \ {None}
    /\ \A u \in UniqueID : {i \in inUse : mb[i].id = u} = {idMap[u]} \ {None}

(* Collections never share a logical ID, by which a paused context tells   *)
(* its collection from another in the same block, and none is as high as   *)
(* the mark from which the next one is taken, across restarts.             *)
LIDsUnique ==
  \A i, j \in inUse :
    /\ mb[i].lid < MBHWM
    /\ (i # j /\ mb[i].lid # None) => mb[i].lid # mb[j].lid

held == {call[s].ex : s \in Session} \ {None}
owned(i) == ({mb[i].ex} \ {None}) \cup mb[i].extents

(* No page has two owners among the collections and the calls that run,    *)
(* and each owner's pages are reserved, after crashes too; unless the      *)
(* process crashed, every reserved page has an owner: a call that fails,   *)
(* at whatever step, neither keeps pages nor gives back another's.         *)
PagesOwned ==
  /\ \A i, j \in Slot : (i # j) => owned(i) \cap owned(j) = {}
  /\ \A i \in Slot : /\ mb[i].ex \notin mb[i].extents
                     /\ owned(i) \cap held = {}
  /\ \A s, t \in Session :
       s # t /\ call[s].ex # None => call[s].ex # call[t].ex
  /\ held \cup UNION {owned(i) : i \in Slot} \subseteq reserved
  /\ crashes = 0 =>
       reserved = held \cup UNION {owned(i) : i \in Slot}

(* The header counts the blocks in use whenever the latch is free; each    *)
(* crash may leave it at most one short.                                   *)
CountExact ==
  latch = {} =>
    numMB <= Cardinality(inUse) /\ Cardinality(inUse) <= numMB + crashes

(* Blocks, header, maps and logical IDs tell the same collections, after   *)
(* every race of addCollection and every crash between two of its stores.  *)
CatalogueExact == TypeOK /\ MapsExact /\ LIDsUnique /\ CountExact

(* A collection another session can see is whole, though its addCollection *)
(* may still be at its first extent or have failed there: it has its       *)
(* expand extent and its logical ID, so that records can be inserted, and  *)
(* "Unable to find free collection id" is never reported.                  *)
VisibleWhole ==
  crashes = 0 =>
    /\ latch = {} => \A i \in inUse : mb[i].ex # None /\ mb[i].lid # None
    /\ \A s \in Session : call[s].rc # "SYS"
=============================================================================
