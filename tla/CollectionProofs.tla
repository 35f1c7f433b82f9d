-------------------------- MODULE CollectionProofs --------------------------
(***************************************************************************)
(* The collections of a storage unit: their catalogue, then the chain of   *)
(* extents of each, then the records in the extents.                       *)
(*                                                                         *)
(* The catalogue stays whole for any number of sessions, names, blocks and *)
(* pages, whatever races addCollection runs into and wherever the process  *)
(* dies.  The properties speak of the states in which the latch is free;   *)
(* the inductive invariant says, for every point of addCollection under    *)
(* the latch, how far blocks, header, maps and pages are ahead of each     *)
(* other.                                                                  *)
(***************************************************************************)
EXTENDS Catalogue, ExtentChain, RecordSpace, NaturalsInduction,
        FiniteSetTheorems, TLAPS

(* The points of addCollection: under the latch; with a block found that   *)
(* is not in the maps yet; with a block in use that the header does not    *)
(* count; and with one that is not whole.                                  *)
Latched == {"check", "lid", "name", "flag", "setLID", "count", "expand",
            "release"}
Filling == {"lid", "name", "flag", "setLID", "count"}
Ahead   == {"setLID", "count"}
Partial == {"setLID", "count", "expand"}

(* Who is under the latch holds it, and nobody else does. *)
LatchInv ==
  /\ \A s \in Session : s \in latch <=> call[s].at \in Latched
  /\ \A s, t \in latch : s = t

(* What a call knows at each of its points. *)
CallInv ==
  \A s \in Session :
    /\ call[s].at # "idle" => call[s].name \in Name
    /\ call[s].ex # None <=> call[s].at \in Latched \cup {"latch"}
    /\ call[s].at \in Filling =>
         /\ nameMap[call[s].name] = None
         /\ call[s].id # NoID => idMap[call[s].id] = None
         /\ numMB < Slots
    /\ call[s].at \in {"lid", "name", "flag"} =>
         call[s].slot \in Slot /\ ~mb[call[s].slot].used
    /\ call[s].at \in {"flag", "setLID", "count", "expand"} =>
         /\ mb[call[s].slot].name = call[s].name
         /\ mb[call[s].slot].id = call[s].id
    /\ call[s].at \in {"setLID", "count", "expand", "extent"} =>
         call[s].slot \in Slot /\ mb[call[s].slot].used
    /\ call[s].at \in {"name", "flag", "setLID"} =>
         /\ call[s].lid \in Nat /\ call[s].lid < MBHWM
         /\ \A i \in Slot : mb[i].lid # call[s].lid
    /\ call[s].at \in Partial => mb[call[s].slot].ex = None
    /\ call[s].at \in {"count", "expand"} => mb[call[s].slot].lid # None

(* A block that is not in use has nothing, and one that is has a name.     *)
BlockInv ==
  \A i \in Slot :
    /\ ~mb[i].used => mb[i].lid = None /\ mb[i].ex = None /\ mb[i].extents = {}
    /\ mb[i].used => mb[i].name \in Name
    /\ mb[i].lid < MBHWM
    /\ \A j \in Slot : i # j /\ mb[i].lid # None => mb[i].lid # mb[j].lid

(* Maps and blocks tell the same, but for the block being filled. *)
Mapped ==
  /\ \A n \in Name : nameMap[n] # None =>
       mb[nameMap[n]].used /\ mb[nameMap[n]].name = n
  /\ \A u \in UniqueID : idMap[u] # None =>
       mb[idMap[u]].used /\ mb[idMap[u]].id = u
  /\ \A i \in Slot :
       mb[i].used /\ (\A s \in Session : call[s].at \in Ahead => call[s].slot # i)
         => /\ nameMap[mb[i].name] = i
            /\ mb[i].id # NoID => idMap[mb[i].id] = i

(* The header counts the blocks in use, but for the block being filled and *)
(* for one per crash.                                                      *)
late == IF \E s \in Session : call[s].at \in Ahead THEN 1 ELSE 0

CountInv ==
  /\ numMB + late <= Cardinality(inUse)
  /\ Cardinality(inUse) <= numMB + late + crashes

(* A page has one owner. *)
Owns(i, p) == p = mb[i].ex \/ p \in mb[i].extents

PageInv ==
  /\ \A i, j \in Slot, p \in Page : Owns(i, p) /\ Owns(j, p) => i = j
  /\ \A i \in Slot : mb[i].ex \notin mb[i].extents
  /\ \A s \in Session, i \in Slot : call[s].ex # None => ~Owns(i, call[s].ex)
  /\ \A s, t \in Session : call[s].ex # None /\ call[s].ex = call[t].ex => s = t
  /\ \A i \in Slot, p \in Page : Owns(i, p) => p \in reserved
  /\ \A s \in Session : call[s].ex # None => call[s].ex \in reserved
  /\ crashes = 0 =>
       \A p \in reserved : \/ \E i \in Slot : Owns(i, p)
                           \/ \E s \in Session : call[s].ex = p

(* Before any crash a block in use is whole or being filled. *)
WholeInv ==
  crashes = 0 =>
    /\ \A i \in Slot :
         mb[i].used /\ (\A s \in Session : call[s].at \in Partial => call[s].slot # i)
           => mb[i].ex # None /\ mb[i].lid # None
    /\ \A s \in Session : call[s].rc # "SYS"

IInv == /\ TypeOK /\ LatchInv /\ CallInv /\ BlockInv /\ Mapped /\ CountInv
        /\ PageInv /\ WholeInv

USE CatalogueAssumption

-----------------------------------------------------------------------------
(* One entry of the calls, or of the blocks, changes. *)
LEMMA Moves ==
  ASSUME TypeOK, NEW s \in Session, NEW c \in Call,
         call' = [call EXCEPT ![s] = c]
  PROVE  /\ call' \in [Session -> Call] /\ call'[s] = c
         /\ \A t \in Session : t # s => call'[t] = call[t]
BY DEF TypeOK

LEMMA Stores ==
  ASSUME TypeOK, NEW k \in Slot, NEW b \in Block, mb' = [mb EXCEPT ![k] = b]
  PROVE  /\ mb' \in [Slot -> Block] /\ mb'[k] = b
         /\ \A i \in Slot : i # k => mb'[i] = mb[i]
BY DEF TypeOK

(* The blocks in use are finitely many, and one more block is one more.    *)
LEMMA Blocks ==
  ASSUME TypeOK
  PROVE  /\ IsFiniteSet(inUse) /\ Cardinality(inUse) \in 0 .. Slots
         /\ \A k \in Slot : ~mb[k].used =>
              Cardinality(inUse \cup {k}) = Cardinality(inUse) + 1
         /\ Cardinality(inUse) < Slots => freeSlots # {}
<1>1. IsFiniteSet(Slot) /\ Cardinality(Slot) = Slots
  <2>1. Slots - 1 \in Int /\ 0 \in Int
    OBVIOUS
  <2>2. IsFiniteSet(0 .. Slots - 1)
        /\ Cardinality(0 .. Slots - 1) = IF 0 > Slots - 1 THEN 0 ELSE (Slots - 1) - 0 + 1
    BY <2>1, FS_Interval
  <2> QED
    BY <2>2 DEF Slot
<1>2. inUse \subseteq Slot
  BY DEF inUse
<1>3. IsFiniteSet(inUse) /\ Cardinality(inUse) <= Slots
  BY <1>1, <1>2, FS_Subset
<1>4. Cardinality(inUse) \in Nat
  BY <1>3, FS_CardinalityType
<1>5. ASSUME NEW k \in Slot, ~mb[k].used
      PROVE  Cardinality(inUse \cup {k}) = Cardinality(inUse) + 1
  <2>1. k \notin inUse
    BY <1>5 DEF inUse
  <2> QED
    BY <2>1, <1>3, FS_AddElement
<1>6. ASSUME Cardinality(inUse) < Slots PROVE freeSlots # {}
  <2>1. inUse # Slot
    BY <1>1, <1>4, <1>6
  <2> QED
    BY <2>1, <1>2 DEF inUse, freeSlots
<1> QED
  BY <1>3, <1>4, <1>5, <1>6

(* The search for a free block finds one of them. *)
LEMMA MinFree ==
  ASSUME freeSlots # {}
  PROVE  Min(freeSlots) \in freeSlots
<1>1. freeSlots \subseteq Nat
  BY DEF freeSlots, Slot
<1>2. PICK x \in freeSlots : \A y \in freeSlots : <<y, x>> \notin OpToRel(<, Nat)
  BY <1>1, NatLessThanWellFounded, WFMin
<1>3. ASSUME NEW y \in freeSlots PROVE x <= y
  <2>1. <<y, x>> \in {ss \in Nat \X Nat : ss[1] < ss[2]} <=> y < x
    BY <1>1
  <2>2. <<y, x>> \notin {ss \in Nat \X Nat : ss[1] < ss[2]}
    BY <1>2 DEF OpToRel
  <2> QED
    BY <2>1, <2>2, <1>1
<1> QED
  BY <1>3 DEF Min

-----------------------------------------------------------------------------
(* An empty catalogue. *)
LEMMA InitIInv == Init => IInv
<1> SUFFICES ASSUME Init PROVE IInv
  OBVIOUS
<1>1. freeMB \in Block /\ idle \in Call
  BY DEF freeMB, Block, idle, Call, Point, None
<1>2. TypeOK
  BY <1>1 DEF Init, TypeOK, None
<1>3. \A i \in Slot : mb[i] = freeMB
  BY DEF Init
<1>4. \A s \in Session : call[s] = idle
  BY DEF Init
<1>5. LatchInv /\ CallInv
  BY <1>4 DEF Init, LatchInv, CallInv, Latched, Filling, Partial, idle, None
<1>6. BlockInv
  BY <1>3 DEF Init, BlockInv, freeMB, None
<1>7. Mapped
  BY <1>3 DEF Init, Mapped, freeMB, None
<1>8. CountInv
  <2>1. inUse = {}
    BY <1>3 DEF inUse, freeMB
  <2>2. Cardinality(inUse) = 0
    BY <2>1, FS_EmptySet
  <2>3. late = 0
    BY <1>4 DEF late, Ahead, idle
  <2> QED
    BY <2>2, <2>3 DEF Init, CountInv
<1>9. PageInv
  BY <1>3, <1>4 DEF Init, PageInv, Owns, freeMB, idle, None, Page
<1>10. WholeInv
  BY <1>3, <1>4 DEF Init, WholeInv, freeMB, idle
<1> QED
  BY <1>2, <1>5, <1>6, <1>7, <1>8, <1>9, <1>10 DEF IInv

(* What a step that only moves a call, between two points that do not      *)
(* differ in what they say of blocks and pages, leaves alone.              *)
LEMMA Quiet ==
  ASSUME IInv, NEW s \in Session, NEW c \in Call, call' = [call EXCEPT ![s] = c],
         UNCHANGED <<mb, numMB, nameMap, idMap, crashes>>, MBHWM' \in Nat,
         MBHWM' >= MBHWM,
         call[s].at \notin Partial, c.at \notin Partial
  PROVE  BlockInv' /\ Mapped' /\ CountInv'
<1>1. TypeOK
  BY DEF IInv
<1>2. /\ call' \in [Session -> Call] /\ call'[s] = c
      /\ \A t \in Session : t # s => call'[t] = call[t]
  BY <1>1, Moves
<1>3. BlockInv'
  BY <1>1 DEF IInv, BlockInv, TypeOK, Block, None
<1>4. Mapped'
  BY <1>2 DEF IInv, Mapped, Ahead, Partial
<1>5. CountInv'
  <2>1. late' = late
    BY <1>2 DEF late, Ahead, Partial
  <2>2. inUse' = inUse
    BY DEF inUse
  <2> QED
    BY <2>1, <2>2 DEF IInv, CountInv
<1> QED
  BY <1>3, <1>4, <1>5

(* reserveEx: the expand extent becomes the call's own. *)
LEMMA ReserveExIInv ==
  ASSUME IInv, NEW s \in Session, NEW n \in Name, NEW u \in UniqueID \cup {NoID},
         reserveEx(s, n, u)
  PROVE  IInv'
<1>0. TypeOK /\ call[s].at = "idle" /\ call[s].ex = None
  BY DEF IInv, reserveEx, At, CallInv, Latched
<1>u. UNCHANGED <<mb, numMB, MBHWM, nameMap, idMap, latch, crashes>>
  BY DEF reserveEx
<1>1. PICK c \in Call :
        /\ call' = [call EXCEPT ![s] = c] /\ c.name = n /\ c.rc # "SYS"
        /\ \/ /\ c.at = "latch" /\ c.ex \in Page \ reserved
              /\ reserved' = reserved \cup {c.ex}
           \/ c.at = "done" /\ c.ex = None /\ reserved' = reserved
  <2>1. CASE \E p \in Page \ reserved :
               /\ reserved' = reserved \cup {p}
               /\ call' = [call EXCEPT ![s] =
                             [idle EXCEPT !.at = "latch", !.name = n, !.id = u, !.ex = p]]
    <3>1. PICK p \in Page \ reserved :
               /\ reserved' = reserved \cup {p}
               /\ call' = [call EXCEPT ![s] =
                             [idle EXCEPT !.at = "latch", !.name = n, !.id = u, !.ex = p]]
      BY <2>1
    <3>2. [idle EXCEPT !.at = "latch", !.name = n, !.id = u, !.ex = p] \in Call
      BY DEF idle, Call, Point
    <3> QED
      BY <3>1, <3>2 DEF idle
  <2>2. CASE /\ call' = [call EXCEPT ![s] =
                      [idle EXCEPT !.at = "done", !.name = n, !.id = u, !.rc = "NOSPC"]]
             /\ UNCHANGED reserved
    <3>2. [idle EXCEPT !.at = "done", !.name = n, !.id = u, !.rc = "NOSPC"] \in Call
      BY DEF idle, Call, Point
    <3> QED
      BY <2>2, <3>2 DEF idle
  <2> QED
    BY <2>1, <2>2 DEF reserveEx
<1> HIDE DEF reserveEx
<1>2. /\ call' \in [Session -> Call] /\ call'[s] = c
      /\ \A t \in Session : t # s => call'[t] = call[t]
  BY <1>0, <1>1, Moves
<1>3. TypeOK'
  BY <1>0, <1>1, <1>2, <1>u DEF TypeOK
<1>4. LatchInv'
  BY <1>0, <1>1, <1>2, <1>u DEF IInv, LatchInv, Latched
<1>5. CallInv'
  BY <1>0, <1>1, <1>2, <1>u DEF IInv, CallInv, Latched, Filling, Partial, Page, None
<1>6. BlockInv' /\ Mapped' /\ CountInv'
  <2>1. MBHWM' \in Nat /\ MBHWM' >= MBHWM
    BY <1>0, <1>u DEF TypeOK
  <2>2. call[s].at \notin Partial /\ c.at \notin Partial
    BY <1>0, <1>1 DEF Partial
  <2> QED
    BY <1>1, <1>u, <2>1, <2>2, Quiet
<1>7. PageInv'
  <2>1. CASE c.at = "latch" /\ c.ex \in Page \ reserved /\ reserved' = reserved \cup {c.ex}
    <3>1. c.ex # None /\ c.ex \in Page /\ c.ex \notin reserved
      BY <2>1 DEF Page, None
    <3>2. \A i \in Slot, p \in Page : Owns(i, p)' <=> Owns(i, p)
      BY <1>u DEF Owns
    <3>3. \A i \in Slot : ~Owns(i, c.ex)
      BY <3>1 DEF IInv, PageInv
    <3>4. \A t \in Session : call[t].ex # None =>
            call[t].ex # c.ex /\ call[t].ex \in Page
      BY <3>1, <1>0 DEF IInv, PageInv, TypeOK, Call
    <3>5. \A p \in reserved : p \in Page
      BY <1>0 DEF TypeOK
    <3>6. PageInv!1' /\ PageInv!5'
      BY <3>2, <2>1 DEF IInv, PageInv
    <3>7. PageInv!2'
      BY <1>u DEF IInv, PageInv
    <3>8. PageInv!3'
      BY <1>2, <3>1, <3>2, <3>3, <3>4 DEF IInv, PageInv
    <3>9. PageInv!4' /\ PageInv!6'
      BY <1>2, <2>1, <3>1, <3>4 DEF IInv, PageInv
    <3>10. PageInv!7'
      <4> SUFFICES ASSUME crashes' = 0, NEW p \in reserved'
                   PROVE  \/ \E i \in Slot : Owns(i, p)'
                          \/ \E t \in Session : call'[t].ex = p
        OBVIOUS
      <4>1. CASE p = c.ex
        BY <4>1, <1>2
      <4>2. CASE p \in reserved
        <5>1. p # None /\ p \in Page
          BY <4>2, <3>5 DEF Page, None
        <5>2. \/ \E i \in Slot : Owns(i, p)
              \/ \E t \in Session : call[t].ex = p
          BY <4>2, <1>u DEF IInv, PageInv
        <5> QED
          BY <5>1, <5>2, <3>2, <1>0, <1>2
      <4> QED
        BY <4>1, <4>2, <2>1
    <3> QED
      BY <3>6, <3>7, <3>8, <3>9, <3>10 DEF PageInv
  <2>2. CASE c.at = "done" /\ c.ex = None /\ reserved' = reserved
    BY <1>0, <1>2, <1>u, <2>2 DEF IInv, PageInv, Owns, TypeOK, Page, None
  <2> QED
    BY <1>1, <2>1, <2>2
<1>8. WholeInv'
  BY <1>0, <1>1, <1>2, <1>u DEF IInv, WholeInv, Partial
<1> QED
  BY <1>3, <1>4, <1>5, <1>6, <1>7, <1>8 DEF IInv

(* A step that gives no page another owner. *)
LEMMA KeepPages ==
  ASSUME IInv, UNCHANGED <<reserved, crashes>>,
         \A i \in Slot : mb'[i].ex = mb[i].ex /\ mb'[i].extents = mb[i].extents,
         \A t \in Session : call'[t].ex = call[t].ex
  PROVE  PageInv'
<1>1. \A i \in Slot : \A p : Owns(i, p)' <=> Owns(i, p)
  BY DEF Owns
<1> QED
  BY <1>1 DEF IInv, PageInv

(* While one session is under the latch the others are not. *)
LEMMA Alone ==
  ASSUME IInv, NEW s \in Session, call[s].at \in Latched
  PROVE  \A t \in Session : t # s => call[t].at \notin Latched
BY DEF IInv, LatchInv

(* latchMeta *)
LEMMA LatchIInv ==
  ASSUME IInv, NEW s \in Session, latchMeta(s)
  PROVE  IInv'
<1>0. TypeOK /\ call[s] \in Call /\ call[s].at = "latch" /\ latch = {}
  BY DEF IInv, TypeOK, latchMeta, At
<1>u. /\ UNCHANGED <<mb, numMB, MBHWM, reserved, nameMap, idMap, crashes>>
      /\ latch' = {s}
  BY <1>0 DEF latchMeta, disk
<1> DEFINE c == [call[s] EXCEPT !.at = "check"]
<1>1. c \in Call /\ call' = [call EXCEPT ![s] = c]
  BY <1>0 DEF latchMeta, To, Call, Point
<1>2. /\ c.at = "check" /\ c.name = call[s].name /\ c.ex = call[s].ex
      /\ c.rc = call[s].rc
  BY <1>0 DEF Call
<1> HIDE DEF c
<1>3. /\ call' \in [Session -> Call] /\ call'[s] = c
      /\ \A t \in Session : t # s => call'[t] = call[t]
  BY <1>0, <1>1, Moves
<1>4. TypeOK'
  BY <1>0, <1>3, <1>u DEF TypeOK
<1>5. LatchInv'
  BY <1>0, <1>2, <1>3, <1>u DEF IInv, LatchInv, Latched
<1>6. CallInv'
  BY <1>0, <1>2, <1>3, <1>u DEF IInv, CallInv, Latched, Filling, Partial
<1>7. BlockInv' /\ Mapped' /\ CountInv'
  <2>1. MBHWM' \in Nat /\ MBHWM' >= MBHWM
    BY <1>0, <1>u DEF TypeOK
  <2>2. call[s].at \notin Partial /\ c.at \notin Partial
    BY <1>0, <1>2 DEF Partial
  <2> QED
    BY <1>1, <1>u, <2>1, <2>2, Quiet
<1>8. PageInv'
  <2>1. \A t \in Session : call'[t].ex = call[t].ex
    BY <1>2, <1>3
  <2> QED
    BY <2>1, <1>u, KeepPages
<1>9. WholeInv'
  BY <1>0, <1>2, <1>3, <1>u DEF IInv, WholeInv, Partial
<1> QED
  BY <1>4, <1>5, <1>6, <1>7, <1>8, <1>9 DEF IInv

(* check: a name, an ID and a block that are free stay free under the      *)
(* latch; the header counts no more blocks than are in use, so that, as    *)
(* long as no crash left it behind, a block is found.                      *)
LEMMA CheckIInv ==
  ASSUME IInv, NEW s \in Session, check(s)
  PROVE  IInv'
<1>0. /\ TypeOK /\ call[s] \in Call /\ call[s].at = "check"
      /\ call[s].name \in Name /\ call[s].id \in UniqueID \cup {NoID}
  BY DEF IInv, TypeOK, CallInv, check, At, Call
<1>u. UNCHANGED <<mb, numMB, MBHWM, reserved, nameMap, idMap, latch, crashes>>
  BY DEF check, disk
<1>a. crashes = 0 => checks(s) # "SYS"
  <2>1. ASSUME crashes = 0, numMB < Slots PROVE freeSlots # {}
    <3>1. \A t \in Session : call[t].at \notin Ahead
      BY <1>0, Alone DEF Latched, Ahead
    <3>2. late = 0
      BY <3>1 DEF late
    <3>3. Cardinality(inUse) \in 0 .. Slots /\ numMB \in 0 .. Slots
      BY <1>0, Blocks DEF TypeOK
    <3>4. Cardinality(inUse) < Slots
      BY <2>1, <3>2, <3>3 DEF IInv, CountInv
    <3> QED
      BY <3>4, <1>0, Blocks
  <2>2. numMB \in 0 .. Slots
    BY <1>0 DEF TypeOK
  <2> QED
    BY <2>1, <2>2 DEF checks
<1>1. PICK c \in Call :
        /\ call' = [call EXCEPT ![s] = c]
        /\ c.name = call[s].name /\ c.id = call[s].id /\ c.ex = call[s].ex
        /\ c.at \in {"release", "lid"} /\ (crashes = 0 /\ call[s].rc # "SYS" => c.rc # "SYS")
        /\ c.at = "lid" => /\ c.slot \in Slot /\ ~mb[c.slot].used
                           /\ nameMap[c.name] = None
                           /\ c.id # NoID => idMap[c.id] = None
                           /\ numMB < Slots
  <2>1. CASE checks(s) # "OK"
    <3>1. [call[s] EXCEPT !.at = "release", !.rc = checks(s)] \in Call
      BY <1>0, ZenonT(40) DEF Call, Point, checks
    <3>2. call' = [call EXCEPT ![s] = [call[s] EXCEPT !.at = "release", !.rc = checks(s)]]
      BY <2>1, <1>0 DEF check, Fail, TypeOK, Call
    <3> QED
      BY <3>1, <3>2, <1>0, <1>a DEF Call
  <2>2. CASE checks(s) = "OK"
    <3>1. /\ nameMap[call[s].name] = None
          /\ call[s].id # NoID => idMap[call[s].id] = None
          /\ ~(numMB >= Slots) /\ freeSlots # {}
      BY <2>2 DEF checks
    <3>2. Min(freeSlots) \in Slot /\ ~mb[Min(freeSlots)].used /\ numMB < Slots
      BY <3>1, <1>0, MinFree DEF freeSlots, TypeOK
    <3>3. [call[s] EXCEPT !.at = "lid", !.slot = Min(freeSlots)] \in Call
      BY <1>0, <3>2 DEF Call, Point
    <3>4. call' = [call EXCEPT ![s] = [call[s] EXCEPT !.at = "lid", !.slot = Min(freeSlots)]]
      BY <2>2, <1>0 DEF check, TypeOK, Call
    <3> QED
      BY <3>1, <3>2, <3>3, <3>4, <1>0, ZenonT(60) DEF Call
  <2> QED
    BY <2>1, <2>2
<1>3. /\ call' \in [Session -> Call] /\ call'[s] = c
      /\ \A t \in Session : t # s => call'[t] = call[t]
  BY <1>0, <1>1, Moves
<1>4. TypeOK'
  BY <1>0, <1>3, <1>u DEF TypeOK
<1>5. LatchInv'
  BY <1>0, <1>1, <1>3, <1>u DEF IInv, LatchInv, Latched
<1>6. CallInv'
  BY <1>0, <1>1, <1>3, <1>u DEF IInv, CallInv, Latched, Filling, Partial
<1>7. BlockInv' /\ Mapped' /\ CountInv'
  <2>1. MBHWM' \in Nat /\ MBHWM' >= MBHWM
    BY <1>0, <1>u DEF TypeOK
  <2>2. call[s].at \notin Partial /\ c.at \notin Partial
    BY <1>0, <1>1 DEF Partial
  <2> QED
    BY <1>1, <1>u, <2>1, <2>2, Quiet
<1>8. PageInv'
  <2>1. \A t \in Session : call'[t].ex = call[t].ex
    BY <1>1, <1>3
  <2> QED
    BY <2>1, <1>u, KeepPages
<1>9. WholeInv'
  BY <1>0, <1>1, <1>3, <1>u DEF IInv, WholeInv, Partial
<1> QED
  BY <1>4, <1>5, <1>6, <1>7, <1>8, <1>9 DEF IInv

(* takeLID: the mark is above every logical ID given out before. *)
LEMMA TakeLIDIInv ==
  ASSUME IInv, NEW s \in Session, takeLID(s)
  PROVE  IInv'
<1>0. TypeOK /\ call[s] \in Call /\ call[s].at = "lid" /\ MBHWM \in Nat
  BY DEF IInv, TypeOK, takeLID, At
<1>u. /\ UNCHANGED <<mb, numMB, reserved, nameMap, idMap, latch, crashes>>
      /\ MBHWM' = MBHWM + 1
  BY DEF takeLID
<1> DEFINE c == [call[s] EXCEPT !.at = "name", !.lid = MBHWM]
<1>1. c \in Call /\ call' = [call EXCEPT ![s] = c]
  <2>1. c \in Call
    BY <1>0 DEF Call, Point
  <2>2. call' = [call EXCEPT ![s] = c]
    BY <1>0 DEF takeLID, TypeOK, Call
  <2> QED
    BY <2>1, <2>2
<1>2. /\ c.at = "name" /\ c.name = call[s].name /\ c.ex = call[s].ex
      /\ c.id = call[s].id /\ c.slot = call[s].slot
      /\ c.rc = call[s].rc /\ c.lid = MBHWM
  BY <1>0 DEF Call
<1> HIDE DEF c
<1>3. /\ call' \in [Session -> Call] /\ call'[s] = c
      /\ \A t \in Session : t # s => call'[t] = call[t]
  BY <1>0, <1>1, Moves
<1>4. TypeOK'
  BY <1>0, <1>3, <1>u DEF TypeOK
<1>5. LatchInv'
  BY <1>0, <1>2, <1>3, <1>u DEF IInv, LatchInv, Latched
<1>6. CallInv'
  <2>1. \A i \in Slot : mb[i].lid < MBHWM
    BY DEF IInv, BlockInv
  <2>2. \A i \in Slot : mb[i].lid # MBHWM
    BY <2>1, <1>0 DEF TypeOK, Block, None
  <2>3. \A t \in Session : call[t].lid \in Nat /\ call[t].lid < MBHWM => call[t].lid < MBHWM'
    BY <1>0, <1>u
  <2>4. MBHWM < MBHWM'
    BY <1>0, <1>u
  <2> QED
    BY <1>0, <1>2, <1>3, <1>u, <2>2, <2>3, <2>4 DEF IInv, CallInv, Latched, Filling, Partial
<1>7. BlockInv' /\ Mapped' /\ CountInv'
  <2>1. MBHWM' \in Nat /\ MBHWM' >= MBHWM
    BY <1>0, <1>u
  <2>2. call[s].at \notin Partial /\ c.at \notin Partial
    BY <1>0, <1>2 DEF Partial
  <2> QED
    BY <1>1, <1>u, <2>1, <2>2, Quiet
<1>8. PageInv'
  <2>1. \A t \in Session : call'[t].ex = call[t].ex
    BY <1>2, <1>3
  <2> QED
    BY <2>1, <1>u, KeepPages
<1>9. WholeInv'
  BY <1>0, <1>2, <1>3, <1>u DEF IInv, WholeInv, Partial
<1> QED
  BY <1>4, <1>5, <1>6, <1>7, <1>8, <1>9 DEF IInv

(* resetName: the block is not in use, so no map leads to it. *)
LEMMA ResetNameIInv ==
  ASSUME IInv, NEW s \in Session, resetName(s)
  PROVE  IInv'
<1> DEFINE k == call[s].slot
           c == [call[s] EXCEPT !.at = "flag"]
           b == [mb[k] EXCEPT !.name = call[s].name, !.id = call[s].id]
<1>0. TypeOK /\ call[s] \in Call /\ call[s].at = "name" /\ k \in Slot /\ ~mb[k].used
  BY DEF IInv, TypeOK, CallInv, resetName, At
<1>u. UNCHANGED <<numMB, MBHWM, reserved, nameMap, idMap, latch, crashes>>
  BY DEF resetName, resetRest
<1>a. mb[k] \in Block
  BY <1>0 DEF TypeOK
<1>1. c \in Call /\ call' = [call EXCEPT ![s] = c]
  BY <1>0 DEF resetName, To, Call, Point
<1>b. b \in Block /\ mb' = [mb EXCEPT ![k] = b]
  <2>1. b \in Block
    BY <1>0, <1>a DEF Call, Block
  <2>2. mb' = [mb EXCEPT ![k] = b]
    BY <1>0, <1>a DEF resetName, TypeOK, Block
  <2> QED
    BY <2>1, <2>2
<1>2. /\ c.at = "flag" /\ c.name = call[s].name /\ c.ex = call[s].ex
      /\ c.id = call[s].id /\ c.slot = k /\ c.lid = call[s].lid
      /\ c.rc = call[s].rc
  BY <1>0 DEF Call
<1>c. /\ ~b.used /\ b.name = call[s].name /\ b.id = call[s].id
      /\ b.lid = mb[k].lid /\ b.ex = mb[k].ex /\ b.extents = mb[k].extents
  BY <1>0, <1>a DEF Block
<1> HIDE DEF b, c, k
<1>3. /\ call' \in [Session -> Call] /\ call'[s] = c
      /\ \A t \in Session : t # s => call'[t] = call[t]
  BY <1>0, <1>1, Moves
<1>d. /\ mb' \in [Slot -> Block] /\ mb'[k] = b
      /\ \A i \in Slot : i # k => mb'[i] = mb[i]
  BY <1>0, <1>b, Stores
<1>e. \A t \in Session : t # s => call[t].at \notin Latched
  BY <1>0, Alone DEF Latched
<1>4. TypeOK'
  BY <1>0, <1>3, <1>d, <1>u DEF TypeOK
<1>5. LatchInv'
  BY <1>0, <1>2, <1>3, <1>u DEF IInv, LatchInv, Latched
<1>6. CallInv'
  BY <1>0, <1>2, <1>3, <1>c, <1>d, <1>e, <1>u
    DEF IInv, CallInv, Latched, Filling, Partial, k
<1>7. BlockInv'
  BY <1>0, <1>c, <1>d, <1>u DEF IInv, BlockInv
<1>8. Mapped'
  <2>1. \A n \in Name : nameMap[n] # None => nameMap[n] \in Slot /\ nameMap[n] # k
    BY <1>0 DEF IInv, Mapped, TypeOK
  <2>2. \A u \in UniqueID : idMap[u] # None => idMap[u] \in Slot /\ idMap[u] # k
    BY <1>0 DEF IInv, Mapped, TypeOK
  <2>3. \A t \in Session : call'[t].at \in Ahead <=> call[t].at \in Ahead
    BY <1>0, <1>2, <1>3 DEF Ahead
  <2>4. \A t \in Session : call'[t].slot = call[t].slot
    BY <1>0, <1>2, <1>3 DEF k
  <2> QED
    BY <2>1, <2>2, <2>3, <2>4, <1>c, <1>d, <1>u DEF IInv, Mapped
<1>9. CountInv'
  <2>1. late' = late
    BY <1>0, <1>2, <1>3 DEF late, Ahead
  <2>2. inUse' = inUse
    BY <1>0, <1>c, <1>d DEF inUse
  <2> QED
    BY <2>1, <2>2, <1>u DEF IInv, CountInv
<1>10. PageInv'
  <2>1. \A t \in Session : call'[t].ex = call[t].ex
    BY <1>2, <1>3
  <2>2. \A i \in Slot : mb'[i].ex = mb[i].ex /\ mb'[i].extents = mb[i].extents
    BY <1>c, <1>d
  <2> QED
    BY <2>1, <2>2, <1>u, KeepPages
<1>11. WholeInv'
  BY <1>0, <1>2, <1>3, <1>c, <1>d, <1>u DEF IInv, WholeInv, Partial, k
<1> QED
  BY <1>4, <1>5, <1>6, <1>7, <1>8, <1>9, <1>10, <1>11 DEF IInv

(* resetFlag: the block is in use, and the header does not count it yet. *)
LEMMA ResetFlagIInv ==
  ASSUME IInv, NEW s \in Session, resetFlag(s)
  PROVE  IInv'
<1> DEFINE k == call[s].slot
           c == [call[s] EXCEPT !.at = "setLID"]
           b == [mb[k] EXCEPT !.used = TRUE]
<1>0. TypeOK /\ call[s] \in Call /\ call[s].at = "flag" /\ k \in Slot /\ ~mb[k].used
  BY DEF IInv, TypeOK, CallInv, resetFlag, At
<1>u. UNCHANGED <<numMB, MBHWM, reserved, nameMap, idMap, latch, crashes>>
  BY DEF resetFlag, resetRest
<1>a. mb[k] \in Block
  BY <1>0 DEF TypeOK
<1>1. c \in Call /\ call' = [call EXCEPT ![s] = c]
  BY <1>0 DEF resetFlag, To, Call, Point
<1>b. b \in Block /\ mb' = [mb EXCEPT ![k] = b]
  <2>1. b \in Block
    BY <1>0, <1>a DEF Call, Block
  <2>2. mb' = [mb EXCEPT ![k] = b]
    BY <1>0, <1>a DEF resetFlag, TypeOK, Block
  <2> QED
    BY <2>1, <2>2
<1>2. /\ c.at = "setLID" /\ c.name = call[s].name /\ c.ex = call[s].ex
      /\ c.id = call[s].id /\ c.slot = k /\ c.lid = call[s].lid
      /\ c.rc = call[s].rc
  BY <1>0 DEF Call
<1>c. /\ b.used /\ b.name = mb[k].name /\ b.id = mb[k].id
      /\ b.lid = mb[k].lid /\ b.ex = mb[k].ex /\ b.extents = mb[k].extents
  BY <1>0, <1>a DEF Block
<1> HIDE DEF b, c, k
<1>3. /\ call' \in [Session -> Call] /\ call'[s] = c
      /\ \A t \in Session : t # s => call'[t] = call[t]
  BY <1>0, <1>1, Moves
<1>d. /\ mb' \in [Slot -> Block] /\ mb'[k] = b
      /\ \A i \in Slot : i # k => mb'[i] = mb[i]
  BY <1>0, <1>b, Stores
<1>e. \A t \in Session : t # s => call[t].at \notin Latched
  BY <1>0, Alone DEF Latched
<1>f. /\ mb[k].name = call[s].name /\ mb[k].id = call[s].id /\ call[s].name \in Name
      /\ mb[k].lid = None /\ mb[k].ex = None /\ mb[k].extents = {}
  BY <1>0 DEF IInv, CallInv, BlockInv, k
<1>4. TypeOK'
  BY <1>0, <1>3, <1>d, <1>u DEF TypeOK
<1>5. LatchInv'
  BY <1>0, <1>2, <1>3, <1>u DEF IInv, LatchInv, Latched
<1>6. CallInv'
  BY <1>0, <1>2, <1>3, <1>c, <1>d, <1>e, <1>f, <1>u
    DEF IInv, CallInv, Latched, Filling, Partial, k
<1>7. BlockInv'
  BY <1>0, <1>c, <1>d, <1>f, <1>u DEF IInv, BlockInv
<1>g. \A t \in Session : call[t].at \notin Partial
  BY <1>0, <1>e DEF Latched, Partial
<1>8. Mapped'
  <2>1. \A n \in Name : nameMap[n] # None => nameMap[n] \in Slot /\ nameMap[n] # k
    BY <1>0 DEF IInv, Mapped, TypeOK
  <2>2. \A u \in UniqueID : idMap[u] # None => idMap[u] \in Slot /\ idMap[u] # k
    BY <1>0 DEF IInv, Mapped, TypeOK
  <2>3. \A t \in Session : call[t].at \notin Ahead
    BY <1>g DEF Ahead, Partial
  <2>4. call'[s].at \in Ahead /\ call'[s].slot = k
    BY <1>2, <1>3 DEF Ahead
  <2> QED
    BY <2>1, <2>2, <2>3, <2>4, <1>d, <1>u DEF IInv, Mapped
<1>9. CountInv'
  <2>1. late' = 1 /\ late = 0
    BY <1>g, <1>2, <1>3 DEF late, Ahead, Partial
  <2>2. inUse' = inUse \cup {k}
    BY <1>0, <1>c, <1>d DEF inUse
  <2>3. Cardinality(inUse') = Cardinality(inUse) + 1 /\ Cardinality(inUse) \in 0 .. Slots
    BY <2>2, <1>0, Blocks
  <2>4. numMB \in Nat /\ crashes \in Nat
    BY <1>0 DEF TypeOK
  <2> QED
    BY <2>1, <2>3, <2>4, <1>u DEF IInv, CountInv
<1>10. PageInv'
  <2>1. \A t \in Session : call'[t].ex = call[t].ex
    BY <1>2, <1>3
  <2>2. \A i \in Slot : mb'[i].ex = mb[i].ex /\ mb'[i].extents = mb[i].extents
    BY <1>c, <1>d
  <2> QED
    BY <2>1, <2>2, <1>u, KeepPages
<1>11. WholeInv'
  BY <1>0, <1>2, <1>3, <1>d, <1>g, <1>u DEF IInv, WholeInv, Partial
<1> QED
  BY <1>4, <1>5, <1>6, <1>7, <1>8, <1>9, <1>10, <1>11 DEF IInv

(* resetLID: the logical ID is in no other block. *)
LEMMA ResetLIDIInv ==
  ASSUME IInv, NEW s \in Session, resetLID(s)
  PROVE  IInv'
<1> DEFINE k == call[s].slot
           c == [call[s] EXCEPT !.at = "count"]
           b == [mb[k] EXCEPT !.lid = call[s].lid, !.ex = None]
<1>0. TypeOK /\ call[s] \in Call /\ call[s].at = "setLID" /\ k \in Slot /\ mb[k].used
  BY DEF IInv, TypeOK, CallInv, resetLID, At
<1>u. UNCHANGED <<numMB, MBHWM, reserved, nameMap, idMap, latch, crashes>>
  BY DEF resetLID, resetRest
<1>a. mb[k] \in Block
  BY <1>0 DEF TypeOK
<1>1. c \in Call /\ call' = [call EXCEPT ![s] = c]
  BY <1>0 DEF resetLID, To, Call, Point
<1>b. b \in Block /\ mb' = [mb EXCEPT ![k] = b]
  <2>1. b \in Block
    BY <1>0, <1>a DEF Call, Block
  <2>2. mb' = [mb EXCEPT ![k] = b]
    BY <1>0, <1>a DEF resetLID, TypeOK, Block
  <2> QED
    BY <2>1, <2>2
<1>2. /\ c.at = "count" /\ c.name = call[s].name /\ c.ex = call[s].ex
      /\ c.id = call[s].id /\ c.slot = k /\ c.lid = call[s].lid
      /\ c.rc = call[s].rc
  BY <1>0 DEF Call
<1>c. /\ b.used /\ b.name = mb[k].name /\ b.id = mb[k].id
      /\ b.lid = call[s].lid /\ b.ex = None /\ b.extents = mb[k].extents
  BY <1>0, <1>a DEF Block
<1> HIDE DEF b, c, k
<1>3. /\ call' \in [Session -> Call] /\ call'[s] = c
      /\ \A t \in Session : t # s => call'[t] = call[t]
  BY <1>0, <1>1, Moves
<1>d. /\ mb' \in [Slot -> Block] /\ mb'[k] = b
      /\ \A i \in Slot : i # k => mb'[i] = mb[i]
  BY <1>0, <1>b, Stores
<1>e. \A t \in Session : t # s => call[t].at \notin Latched
  BY <1>0, Alone DEF Latched
<1>f. /\ mb[k].ex = None /\ call[s].lid \in Nat /\ call[s].lid < MBHWM
      /\ \A i \in Slot : mb[i].lid # call[s].lid
  BY <1>0 DEF IInv, CallInv, Partial, k
<1>4. TypeOK'
  BY <1>0, <1>3, <1>d, <1>u DEF TypeOK
<1>5. LatchInv'
  BY <1>0, <1>2, <1>3, <1>u DEF IInv, LatchInv, Latched
<1>6. CallInv'
  <2>1. b.lid # None
    BY <1>c, <1>f DEF None
  <2> QED
    BY <1>0, <1>2, <1>3, <1>c, <1>d, <1>e, <1>u, <2>1
      DEF IInv, CallInv, Latched, Filling, Partial, k
<1>7. BlockInv'
  BY <1>0, <1>c, <1>d, <1>f, <1>u DEF IInv, BlockInv
<1>8. Mapped'
  <2>1. \A n \in Name : nameMap[n] # None => nameMap[n] \in Slot
    BY <1>0 DEF TypeOK
  <2>2. \A u \in UniqueID : idMap[u] # None => idMap[u] \in Slot
    BY <1>0 DEF TypeOK
  <2>3. \A t \in Session : call'[t].at \in Ahead <=> call[t].at \in Ahead
    BY <1>0, <1>2, <1>3 DEF Ahead
  <2>4. \A t \in Session : call'[t].slot = call[t].slot
    BY <1>0, <1>2, <1>3 DEF k
  <2>5. \A i \in Slot : /\ mb'[i].used = mb[i].used /\ mb'[i].name = mb[i].name
                        /\ mb'[i].id = mb[i].id
    BY <1>0, <1>a, <1>c, <1>d DEF Block
  <2> QED
    BY <2>1, <2>2, <2>3, <2>4, <2>5, <1>u DEF IInv, Mapped
<1>9. CountInv'
  <2>1. late' = late
    BY <1>0, <1>2, <1>3 DEF late, Ahead
  <2>2. inUse' = inUse
    BY <1>0, <1>c, <1>d DEF inUse
  <2> QED
    BY <2>1, <2>2, <1>u DEF IInv, CountInv
<1>10. PageInv'
  <2>1. \A t \in Session : call'[t].ex = call[t].ex
    BY <1>2, <1>3
  <2>2. \A i \in Slot : mb'[i].ex = mb[i].ex /\ mb'[i].extents = mb[i].extents
    BY <1>c, <1>d, <1>f
  <2> QED
    BY <2>1, <2>2, <1>u, KeepPages
<1>11. WholeInv'
  BY <1>0, <1>2, <1>3, <1>d, <1>u DEF IInv, WholeInv, Partial, k
<1> QED
  BY <1>4, <1>5, <1>6, <1>7, <1>8, <1>9, <1>10, <1>11 DEF IInv

(* collectionInsert: maps and header catch up with the block; no other     *)
(* block has the name or the ID, since the maps did not have them.         *)
LEMMA CollectionInsertIInv ==
  ASSUME IInv, NEW s \in Session, collectionInsert(s)
  PROVE  IInv'
<1> DEFINE k == call[s].slot
           c == [call[s] EXCEPT !.at = "expand"]
<1>0. TypeOK /\ call[s] \in Call /\ call[s].at = "count" /\ k \in Slot /\ mb[k].used
  BY DEF IInv, TypeOK, CallInv, collectionInsert, At
<1>u. /\ UNCHANGED <<mb, MBHWM, reserved, latch, crashes>> /\ numMB' = numMB + 1
      /\ nameMap' = [nameMap EXCEPT ![call[s].name] = k]
      /\ idMap' = [u \in UniqueID |-> IF u = call[s].id THEN k ELSE idMap[u]]
  BY DEF collectionInsert
<1>1. c \in Call /\ call' = [call EXCEPT ![s] = c]
  BY <1>0 DEF collectionInsert, To, Call, Point
<1>2. /\ c.at = "expand" /\ c.name = call[s].name /\ c.ex = call[s].ex
      /\ c.id = call[s].id /\ c.slot = k /\ c.rc = call[s].rc
  BY <1>0 DEF Call
<1> HIDE DEF c, k
<1>3. /\ call' \in [Session -> Call] /\ call'[s] = c
      /\ \A t \in Session : t # s => call'[t] = call[t]
  BY <1>0, <1>1, Moves
<1>e. \A t \in Session : t # s => call[t].at \notin Latched
  BY <1>0, Alone DEF Latched
<1>f. /\ mb[k].name = call[s].name /\ mb[k].id = call[s].id /\ call[s].name \in Name
      /\ nameMap[call[s].name] = None /\ (call[s].id # NoID => idMap[call[s].id] = None)
      /\ numMB < Slots
  BY <1>0 DEF IInv, CallInv, Filling, k
<1>g. /\ nameMap \in [Name -> Slot \cup {None}] /\ idMap \in [UniqueID -> Slot \cup {None}]
      /\ numMB \in 0 .. Slots /\ call[s].id \in UniqueID \cup {NoID}
      /\ \A i \in Slot : mb[i].id \in UniqueID \cup {NoID}
  BY <1>0 DEF TypeOK, Call, Block
<1>h. /\ nameMap' \in [Name -> Slot \cup {None}] /\ nameMap'[call[s].name] = k
      /\ \A n \in Name : n # call[s].name => nameMap'[n] = nameMap[n]
      /\ idMap' \in [UniqueID -> Slot \cup {None}]
      /\ \A u \in UniqueID : idMap'[u] = IF u = call[s].id THEN k ELSE idMap[u]
  BY <1>0, <1>f, <1>g, <1>u
<1>4. TypeOK'
  <2>1. numMB' \in 0 .. Slots
    BY <1>f, <1>g, <1>u
  <2> QED
    BY <1>0, <1>3, <1>h, <1>u, <2>1 DEF TypeOK
<1>5. LatchInv'
  BY <1>0, <1>2, <1>3, <1>u DEF IInv, LatchInv, Latched
<1>6. CallInv'
  BY <1>0, <1>2, <1>3, <1>e, <1>u DEF IInv, CallInv, Latched, Filling, Partial, k
<1>7. BlockInv'
  BY <1>u DEF IInv, BlockInv
<1>8. Mapped'
  <2>1. \A i \in Slot : mb[i].used /\ i # k =>
          /\ nameMap[mb[i].name] = i /\ mb[i].name \in Name
          /\ mb[i].id # NoID => idMap[mb[i].id] = i
    BY <1>e DEF IInv, Mapped, BlockInv, Latched, Ahead, k
  <2>2. None \notin Slot
    BY DEF None, Slot
  <2>3. \A n \in Name : nameMap'[n] # None =>
          mb[nameMap'[n]].used /\ mb[nameMap'[n]].name = n
    BY <1>0, <1>f, <1>h DEF IInv, Mapped
  <2>4. \A u \in UniqueID : idMap'[u] # None =>
          mb[idMap'[u]].used /\ mb[idMap'[u]].id = u
    BY <1>0, <1>f, <1>h DEF IInv, Mapped
  <2>5. \A i \in Slot : mb[i].used =>
          /\ nameMap'[mb[i].name] = i
          /\ mb[i].id # NoID => idMap'[mb[i].id] = i
    BY <2>1, <2>2, <1>f, <1>g, <1>h
  <2> QED
    BY <2>3, <2>4, <2>5, <1>u DEF Mapped
<1>9. CountInv'
  <2>1. late = 1
    BY <1>0 DEF late, Ahead
  <2>2. late' = 0
    <3>1. \A t \in Session : call'[t].at \notin Ahead
      BY <1>2, <1>3, <1>e DEF Latched, Ahead
    <3> QED
      BY <3>1 DEF late
  <2>3. inUse' = inUse
    BY <1>u DEF inUse
  <2>4. Cardinality(inUse) \in 0 .. Slots /\ crashes \in Nat
    BY <1>0, Blocks DEF TypeOK
  <2> QED
    BY <2>1, <2>2, <2>3, <2>4, <1>g, <1>u DEF IInv, CountInv
<1>10. PageInv'
  <2>1. \A t \in Session : call'[t].ex = call[t].ex
    BY <1>2, <1>3
  <2> QED
    BY <2>1, <1>u, KeepPages
<1>11. WholeInv'
  BY <1>0, <1>2, <1>3, <1>u DEF IInv, WholeInv, Partial, k
<1> QED
  BY <1>4, <1>5, <1>6, <1>7, <1>8, <1>9, <1>10, <1>11 DEF IInv

(* setExpand: the page goes from the call to the block. *)
LEMMA SetExpandIInv ==
  ASSUME IInv, NEW s \in Session, setExpand(s)
  PROVE  IInv'
<1> DEFINE k == call[s].slot
           p == call[s].ex
           c == [call[s] EXCEPT !.at = "extent", !.ex = None]
           b == [mb[k] EXCEPT !.ex = p]
<1>0. /\ TypeOK /\ call[s] \in Call /\ call[s].at = "expand" /\ k \in Slot /\ mb[k].used
      /\ p \in Page /\ p # None /\ mb[k].ex = None /\ mb[k].lid # None
  <2>1. TypeOK /\ call[s] \in Call /\ call[s].at = "expand" /\ k \in Slot /\ mb[k].used
    BY DEF IInv, TypeOK, CallInv, setExpand, At
  <2>2. p # None /\ mb[k].ex = None /\ mb[k].lid # None
    BY <2>1 DEF IInv, CallInv, Latched, Partial
  <2> QED
    BY <2>1, <2>2 DEF Call
<1>u. /\ UNCHANGED <<numMB, MBHWM, reserved, nameMap, idMap, crashes>>
      /\ latch' = latch \ {s}
  BY DEF setExpand
<1>a. mb[k] \in Block
  BY <1>0 DEF TypeOK
<1>1. c \in Call /\ call' = [call EXCEPT ![s] = c]
  <2>1. c \in Call
    BY <1>0 DEF Call, Point
  <2>2. call' = [call EXCEPT ![s] = c]
    BY <1>0 DEF setExpand, TypeOK, Call
  <2> QED
    BY <2>1, <2>2
<1>b. b \in Block /\ mb' = [mb EXCEPT ![k] = b]
  BY <1>0, <1>a DEF setExpand, Block
<1>2. /\ c.at = "extent" /\ c.name = call[s].name /\ c.ex = None
      /\ c.id = call[s].id /\ c.slot = k /\ c.rc = call[s].rc
  BY <1>0 DEF Call
<1>c. /\ b.used /\ b.name = mb[k].name /\ b.id = mb[k].id
      /\ b.lid = mb[k].lid /\ b.ex = p /\ b.extents = mb[k].extents
  BY <1>0, <1>a DEF Block
<1> HIDE DEF b, c, k, p
<1>3. /\ call' \in [Session -> Call] /\ call'[s] = c
      /\ \A t \in Session : t # s => call'[t] = call[t]
  BY <1>0, <1>1, Moves
<1>d. /\ mb' \in [Slot -> Block] /\ mb'[k] = b
      /\ \A i \in Slot : i # k => mb'[i] = mb[i]
  BY <1>0, <1>b, Stores
<1>e. \A t \in Session : t # s => call[t].at \notin Latched
  BY <1>0, Alone DEF Latched
<1>4. TypeOK'
  BY <1>0, <1>3, <1>d, <1>u DEF TypeOK
<1>5. LatchInv'
  BY <1>0, <1>2, <1>3, <1>u DEF IInv, LatchInv, Latched
<1>6. CallInv'
  BY <1>0, <1>2, <1>3, <1>c, <1>d, <1>e, <1>u
    DEF IInv, CallInv, Latched, Filling, Partial, k
<1>7. BlockInv'
  BY <1>0, <1>c, <1>d, <1>u DEF IInv, BlockInv
<1>8. Mapped'
  <2>1. \A n \in Name : nameMap[n] # None => nameMap[n] \in Slot
    BY <1>0 DEF TypeOK
  <2>2. \A u \in UniqueID : idMap[u] # None => idMap[u] \in Slot
    BY <1>0 DEF TypeOK
  <2>3. \A t \in Session : call'[t].at \in Ahead <=> call[t].at \in Ahead
    BY <1>0, <1>2, <1>3 DEF Ahead
  <2>4. \A t \in Session : call'[t].slot = call[t].slot
    BY <1>0, <1>2, <1>3 DEF k
  <2>5. \A i \in Slot : /\ mb'[i].used = mb[i].used /\ mb'[i].name = mb[i].name
                        /\ mb'[i].id = mb[i].id
    BY <1>0, <1>a, <1>c, <1>d DEF Block
  <2> QED
    BY <2>1, <2>2, <2>3, <2>4, <2>5, <1>u DEF IInv, Mapped
<1>9. CountInv'
  <2>1. late' = late
    BY <1>0, <1>2, <1>3 DEF late, Ahead
  <2>2. inUse' = inUse
    BY <1>0, <1>c, <1>d DEF inUse
  <2> QED
    BY <2>1, <2>2, <1>u DEF IInv, CountInv
<1>10. PageInv'
  <2>1. \A i \in Slot : ~Owns(i, p)
    BY <1>0 DEF IInv, PageInv, p
  <2>2. \A t \in Session : t # s => call[t].ex # p
    BY <1>0 DEF IInv, PageInv, p
  <2>3. p \in reserved
    BY <1>0 DEF IInv, PageInv, p
  <2>4. \A i \in Slot, q \in Page : Owns(i, q)' <=> Owns(i, q) \/ (i = k /\ q = p)
    <3>1. ASSUME NEW i \in Slot, NEW q \in Page, i # k
          PROVE  Owns(i, q)' <=> Owns(i, q)
      BY <3>1, <1>d DEF Owns
    <3>2. ASSUME NEW i \in Slot, NEW q \in Page, i = k
          PROVE  Owns(i, q)' <=> Owns(i, q) \/ q = p
      <4>1. q # None
        BY DEF Page, None
      <4> QED
        BY <3>2, <4>1, <1>0, <1>c, <1>d DEF Owns
    <3> QED
      BY <3>1, <3>2
  <2>5. \A t \in Session : call[t].ex \in Page \cup {None}
    BY <1>0 DEF TypeOK, Call
  <2>6. PageInv!1' /\ PageInv!5'
    BY <2>1, <2>3, <2>4, <1>u DEF IInv, PageInv
  <2>7. PageInv!2'
    BY <2>1, <1>0, <1>c, <1>d DEF IInv, PageInv, Owns
  <2>8. PageInv!3'
    BY <2>2, <2>4, <2>5, <1>2, <1>3 DEF IInv, PageInv
  <2>9. PageInv!4' /\ PageInv!6'
    BY <1>2, <1>3, <1>u DEF IInv, PageInv
  <2>10. PageInv!7'
    <3> SUFFICES ASSUME crashes' = 0, NEW q \in reserved'
                 PROVE  \/ \E i \in Slot : Owns(i, q)'
                        \/ \E t \in Session : call'[t].ex = q
      OBVIOUS
    <3>1. q \in Page /\ q \in reserved /\ crashes = 0
      BY <1>0, <1>u DEF TypeOK
    <3>2. \/ \E i \in Slot : Owns(i, q)
          \/ \E t \in Session : call[t].ex = q
      BY <3>1 DEF IInv, PageInv
    <3> QED
      BY <3>1, <3>2, <2>4, <1>0, <1>3 DEF p
  <2> QED
    BY <2>6, <2>7, <2>8, <2>9, <2>10 DEF PageInv
<1>11. WholeInv'
  <2>1. \A t \in Session : t # s => call[t].at \notin Partial
    BY <1>e DEF Latched, Partial
  <2> QED
    BY <1>0, <1>2, <1>3, <1>c, <1>d, <1>u, <2>1 DEF IInv, WholeInv, k
<1> QED
  BY <1>4, <1>5, <1>6, <1>7, <1>8, <1>9, <1>10, <1>11 DEF IInv

(* An extent is added to a collection, by its addCollection or an insert.  *)
LEMMA AddPageIInv ==
  ASSUME IInv, NEW k \in Slot, NEW p \in Page \ reserved, mb[k].used,
         mb' = [mb EXCEPT ![k].extents = @ \cup {p}], reserved' = reserved \cup {p},
         UNCHANGED <<numMB, MBHWM, nameMap, idMap, latch, crashes>>,
         call' \in [Session -> Call],
         \A t \in Session : \/ call'[t] = call[t]
                            \/ /\ call[t].at = "extent"
                               /\ call'[t] = [call[t] EXCEPT !.at = "done"]
  PROVE  IInv'
<1> DEFINE b == [mb[k] EXCEPT !.extents = @ \cup {p}]
<1>0. TypeOK /\ mb[k] \in Block /\ p # None /\ p \notin reserved
  BY DEF IInv, TypeOK, Page, None
<1>b. b \in Block /\ mb' = [mb EXCEPT ![k] = b]
  <2>1. b \in Block
    BY <1>0 DEF Block
  <2>2. mb' = [mb EXCEPT ![k] = b]
    BY <1>0
  <2> QED
    BY <2>1, <2>2
<1>c. /\ b.used /\ b.name = mb[k].name /\ b.id = mb[k].id
      /\ b.lid = mb[k].lid /\ b.ex = mb[k].ex /\ b.extents = mb[k].extents \cup {p}
  BY <1>0 DEF Block
<1> HIDE DEF b
<1>d. /\ mb' \in [Slot -> Block] /\ mb'[k] = b
      /\ \A i \in Slot : i # k => mb'[i] = mb[i]
  BY <1>0, <1>b, Stores
<1>1. \A t \in Session : call[t] \in Call
  BY <1>0 DEF TypeOK
<1>2. \A t \in Session :
        /\ call'[t].name = call[t].name /\ call'[t].ex = call[t].ex
        /\ call'[t].id = call[t].id /\ call'[t].slot = call[t].slot
        /\ call'[t].lid = call[t].lid /\ call'[t].rc = call[t].rc
        /\ call'[t].at = call[t].at \/ (call[t].at = "extent" /\ call'[t].at = "done")
  BY <1>1 DEF Call
<1>3. \A i \in Slot : /\ mb'[i].used = mb[i].used /\ mb'[i].name = mb[i].name
                      /\ mb'[i].id = mb[i].id /\ mb'[i].lid = mb[i].lid
                      /\ mb'[i].ex = mb[i].ex
  BY <1>0, <1>c, <1>d DEF Block
<1>4. TypeOK'
  BY <1>0, <1>d DEF TypeOK
<1>5. LatchInv'
  BY <1>2 DEF IInv, LatchInv, Latched
<1>6. CallInv'
  <2> SUFFICES ASSUME NEW s \in Session PROVE CallInv!(s)'
    BY DEF CallInv
  <2>1. CallInv!(s)
    BY DEF IInv, CallInv
  <2>2. CASE call'[s].at = call[s].at
    <3>1. call[s].at \in {"flag", "setLID", "count", "expand"} => call[s].slot \in Slot
      BY <2>1
    <3> QED
      BY <2>1, <2>2, <3>1, <1>2, <1>3 DEF Partial
  <2>3. CASE call[s].at = "extent" /\ call'[s].at = "done"
    BY <2>1, <2>3, <1>2 DEF Latched, Filling, Partial
  <2> QED
    BY <2>2, <2>3, <1>2
<1>7. BlockInv'
  BY <1>3, <1>d DEF IInv, BlockInv
<1>8. Mapped'
  <2>1. \A n \in Name : nameMap[n] # None => nameMap[n] \in Slot
    BY <1>0 DEF TypeOK
  <2>2. \A u \in UniqueID : idMap[u] # None => idMap[u] \in Slot
    BY <1>0 DEF TypeOK
  <2>3. \A t \in Session : call'[t].at \in Ahead <=> call[t].at \in Ahead
    BY <1>2 DEF Ahead
  <2> QED
    BY <2>1, <2>2, <2>3, <1>2, <1>3 DEF IInv, Mapped
<1>9. CountInv'
  <2>1. late' = late
    BY <1>2 DEF late, Ahead
  <2>2. inUse' = inUse
    BY <1>3 DEF inUse
  <2> QED
    BY <2>1, <2>2 DEF IInv, CountInv
<1>10. PageInv'
  <2>1. \A i \in Slot : ~Owns(i, p)
    BY <1>0 DEF IInv, PageInv
  <2>2. \A t \in Session : call[t].ex # p
    BY <1>0 DEF IInv, PageInv
  <2>4. \A i \in Slot, q \in Page : Owns(i, q)' <=> Owns(i, q) \/ (i = k /\ q = p)
    BY <1>c, <1>d DEF Owns
  <2>5. \A t \in Session : call[t].ex \in Page \cup {None}
    BY <1>1 DEF Call
  <2>6. PageInv!1' /\ PageInv!5'
    BY <2>1, <2>4 DEF IInv, PageInv
  <2>7. PageInv!2'
    <3> SUFFICES ASSUME NEW i \in Slot PROVE mb'[i].ex \notin mb'[i].extents
      OBVIOUS
    <3>1. mb[i].ex # p /\ mb[i].ex \notin mb[i].extents
      BY <2>1 DEF Owns, IInv, PageInv
    <3> QED
      BY <3>1, <1>c, <1>d
  <2>8. PageInv!3'
    BY <2>2, <2>4, <2>5, <1>2 DEF IInv, PageInv
  <2>9. PageInv!4' /\ PageInv!6'
    BY <1>2 DEF IInv, PageInv
  <2>10. PageInv!7'
    <3> SUFFICES ASSUME crashes' = 0, NEW q \in reserved'
                 PROVE  \/ \E i \in Slot : Owns(i, q)'
                        \/ \E t \in Session : call'[t].ex = q
      OBVIOUS
    <3>1. CASE q = p
      BY <3>1, <2>4
    <3>2. CASE q \in reserved
      <4>1. q \in Page
        BY <1>0, <3>2 DEF TypeOK
      <4>2. \/ \E i \in Slot : Owns(i, q)
            \/ \E t \in Session : call[t].ex = q
        BY <3>2 DEF IInv, PageInv
      <4> QED
        BY <4>1, <4>2, <2>4, <1>2
    <3> QED
      BY <3>1, <3>2
  <2> QED
    BY <2>6, <2>7, <2>8, <2>9, <2>10 DEF PageInv
<1>11. WholeInv'
  <2>1. \A t \in Session : call'[t].at \in Partial <=> call[t].at \in Partial
    BY <1>2 DEF Partial
  <2> QED
    BY <2>1, <1>2, <1>3 DEF IInv, WholeInv
<1> QED
  BY <1>4, <1>5, <1>6, <1>7, <1>8, <1>9, <1>10, <1>11 DEF IInv

(* A call that holds neither latch nor page moves on. *)
LEMMA EndIInv ==
  ASSUME IInv, NEW s \in Session, NEW c \in Call, call' = [call EXCEPT ![s] = c],
         UNCHANGED <<mb, numMB, MBHWM, reserved, nameMap, idMap, latch, crashes>>,
         call[s].at \in {"extent", "done"}, c.at \in {"idle", "done"},
         c.at # "idle" => c.name \in Name, c.ex = None, c.rc # "SYS"
  PROVE  IInv'
<1>0. TypeOK /\ call[s].ex = None
  BY DEF IInv, CallInv, Latched
<1>3. /\ call' \in [Session -> Call] /\ call'[s] = c
      /\ \A t \in Session : t # s => call'[t] = call[t]
  BY <1>0, Moves
<1>4. TypeOK'
  BY <1>0, <1>3 DEF TypeOK
<1>5. LatchInv'
  BY <1>0, <1>3 DEF IInv, LatchInv, Latched
<1>6. CallInv'
  BY <1>0, <1>3 DEF IInv, CallInv, Latched, Filling, Partial
<1>7. BlockInv' /\ Mapped' /\ CountInv'
  <2>1. MBHWM' \in Nat /\ MBHWM' >= MBHWM
    BY <1>0 DEF TypeOK
  <2>2. call[s].at \notin Partial /\ c.at \notin Partial
    BY DEF Partial
  <2> QED
    BY <2>1, <2>2, Quiet
<1>8. PageInv'
  <2>1. \A t \in Session : call'[t].ex = call[t].ex
    BY <1>0, <1>3
  <2> QED
    BY <2>1, KeepPages
<1>9. WholeInv'
  BY <1>0, <1>3 DEF IInv, WholeInv, Partial
<1> QED
  BY <1>4, <1>5, <1>6, <1>7, <1>8, <1>9 DEF IInv

(* firstExtent: the collection stays, with the extent or without it. *)
LEMMA FirstExtentIInv ==
  ASSUME IInv, NEW s \in Session, firstExtent(s)
  PROVE  IInv'
<1>0. /\ TypeOK /\ call[s] \in Call /\ call[s].at = "extent" /\ call[s].name \in Name
      /\ call[s].slot \in Slot /\ mb[call[s].slot].used /\ call[s].ex = None
  BY DEF IInv, TypeOK, CallInv, firstExtent, At, Latched
<1>u. UNCHANGED <<numMB, MBHWM, nameMap, idMap, latch, crashes>>
  BY DEF firstExtent
<1>1. CASE \E p \in Page \ reserved :
             /\ reserved' = reserved \cup {p}
             /\ mb' = [mb EXCEPT ![call[s].slot].extents = @ \cup {p}]
             /\ To(s, "done")
  <2>1. PICK p \in Page \ reserved :
             /\ reserved' = reserved \cup {p}
             /\ mb' = [mb EXCEPT ![call[s].slot].extents = @ \cup {p}]
             /\ To(s, "done")
    BY <1>1
  <2> DEFINE c == [call[s] EXCEPT !.at = "done"]
  <2>2. c \in Call /\ call' = [call EXCEPT ![s] = c]
    BY <2>1, <1>0 DEF To, Call, Point
  <2>3. /\ call' \in [Session -> Call] /\ call'[s] = c
        /\ \A t \in Session : t # s => call'[t] = call[t]
    BY <2>2, <1>0, Moves
  <2>4. \A t \in Session : \/ call'[t] = call[t]
                           \/ /\ call[t].at = "extent"
                              /\ call'[t] = [call[t] EXCEPT !.at = "done"]
    BY <2>3, <1>0
  <2> QED
    BY <2>1, <2>3, <2>4, <1>0, <1>u, AddPageIInv
<1>2. CASE Fail(s, "done", "NOSPC") /\ UNCHANGED <<mb, reserved>>
  <2> DEFINE c == [call[s] EXCEPT !.at = "done", !.rc = "NOSPC"]
  <2>1. c \in Call
    BY <1>0 DEF Call, Point
  <2>2. call' = [call EXCEPT ![s] = c]
    BY <1>2, <1>0 DEF Fail, TypeOK, Call
  <2>3. c.at = "done" /\ c.name \in Name /\ c.ex = None /\ c.rc = "NOSPC"
    BY <1>0 DEF Call
  <2> HIDE DEF c
  <2> QED
    BY <2>1, <2>2, <2>3, <1>0, <1>2, <1>u, EndIInv
<1> QED
  BY <1>1, <1>2 DEF firstExtent

(* insert *)
LEMMA InsertIInv ==
  ASSUME IInv, NEW s \in Session, NEW n \in Name, insert(s, n)
  PROVE  IInv'
<1>0. /\ nameMap[n] \in Slot /\ mb[nameMap[n]].used /\ call \in [Session -> Call]
      /\ UNCHANGED <<numMB, MBHWM, nameMap, idMap, latch, call, crashes>>
  BY DEF insert, IInv, TypeOK, Mapped
<1>1. PICK p \in Page \ reserved :
        /\ reserved' = reserved \cup {p}
        /\ mb' = [mb EXCEPT ![nameMap[n]].extents = @ \cup {p}]
  BY DEF insert
<1>2. PICK k \in Slot : k = nameMap[n]
  BY <1>0
<1>3. mb[k].used /\ mb' = [mb EXCEPT ![k].extents = @ \cup {p}]
  BY <1>0, <1>1, <1>2
<1> QED
  BY <1>0, <1>1, <1>3, AddPageIInv

(* return *)
LEMMA ReturnIInv ==
  ASSUME IInv, NEW s \in Session, return(s)
  PROVE  IInv'
<1>1. idle \in Call
  BY DEF idle, Call, Point
<1>2. idle.at = "idle" /\ idle.ex = None /\ idle.rc # "SYS"
  BY DEF idle
<1>3. /\ call[s].at = "done" /\ call' = [call EXCEPT ![s] = idle]
      /\ UNCHANGED <<mb, numMB, MBHWM, reserved, nameMap, idMap, latch, crashes>>
  BY DEF return, At, disk
<1> QED
  BY <1>1, <1>2, <1>3, EndIInv

(* release: the page that goes back was nobody else's. *)
LEMMA ReleaseIInv ==
  ASSUME IInv, NEW s \in Session, release(s)
  PROVE  IInv'
<1> DEFINE p == call[s].ex
           c == [call[s] EXCEPT !.at = "done", !.ex = None]
<1>0. TypeOK /\ call[s] \in Call /\ call[s].at = "release" /\ call[s].name \in Name
      /\ p \in Page /\ p # None
  <2>1. TypeOK /\ call[s] \in Call /\ call[s].at = "release" /\ call[s].name \in Name
    BY DEF IInv, TypeOK, CallInv, release, At
  <2>2. p # None
    BY <2>1 DEF IInv, CallInv, Latched
  <2> QED
    BY <2>1, <2>2 DEF Call
<1>u. /\ UNCHANGED <<mb, numMB, MBHWM, nameMap, idMap, crashes>>
      /\ latch' = latch \ {s} /\ reserved' = reserved \ {p}
  BY DEF release
<1>1. c \in Call /\ call' = [call EXCEPT ![s] = c]
  <2>1. c \in Call
    BY <1>0 DEF Call, Point
  <2>2. call' = [call EXCEPT ![s] = c]
    BY <1>0 DEF release, TypeOK, Call
  <2> QED
    BY <2>1, <2>2
<1>2. c.at = "done" /\ c.name = call[s].name /\ c.ex = None /\ c.rc = call[s].rc
  BY <1>0 DEF Call
<1> HIDE DEF c, p
<1>3. /\ call' \in [Session -> Call] /\ call'[s] = c
      /\ \A t \in Session : t # s => call'[t] = call[t]
  BY <1>0, <1>1, Moves
<1>e. \A t \in Session : t # s => call[t].at \notin Latched
  BY <1>0, Alone DEF Latched
<1>4. TypeOK'
  BY <1>0, <1>3, <1>u DEF TypeOK
<1>5. LatchInv'
  BY <1>0, <1>2, <1>3, <1>u DEF IInv, LatchInv, Latched
<1>6. CallInv'
  BY <1>0, <1>2, <1>3, <1>e, <1>u DEF IInv, CallInv, Latched, Filling, Partial
<1>7. BlockInv' /\ Mapped' /\ CountInv'
  <2>1. MBHWM' \in Nat /\ MBHWM' >= MBHWM
    BY <1>0, <1>u DEF TypeOK
  <2>2. call[s].at \notin Partial /\ c.at \notin Partial
    BY <1>0, <1>2 DEF Partial
  <2> QED
    BY <1>1, <1>u, <2>1, <2>2, Quiet
<1>8. PageInv'
  <2>1. \A i \in Slot : ~Owns(i, p)
    BY <1>0 DEF IInv, PageInv, p
  <2>2. \A t \in Session : t # s => call[t].ex # p
    BY <1>0 DEF IInv, PageInv, p
  <2>4. \A i \in Slot : \A q : Owns(i, q)' <=> Owns(i, q)
    BY <1>u DEF Owns
  <2>6. PageInv!1' /\ PageInv!2' /\ PageInv!5'
    BY <2>1, <2>4, <1>u DEF IInv, PageInv
  <2>8. PageInv!3'
    BY <2>4, <1>2, <1>3 DEF IInv, PageInv
  <2>9. PageInv!4' /\ PageInv!6'
    BY <2>2, <1>2, <1>3, <1>u DEF IInv, PageInv
  <2>10. PageInv!7'
    <3> SUFFICES ASSUME crashes' = 0, NEW q \in reserved'
                 PROVE  \/ \E i \in Slot : Owns(i, q)'
                        \/ \E t \in Session : call'[t].ex = q
      OBVIOUS
    <3>1. q \in reserved /\ q # p /\ crashes = 0
      BY <1>u
    <3>2. \/ \E i \in Slot : Owns(i, q)
          \/ \E t \in Session : call[t].ex = q
      BY <3>1 DEF IInv, PageInv
    <3> QED
      BY <3>1, <3>2, <2>4, <1>3 DEF p
  <2> QED
    BY <2>6, <2>8, <2>9, <2>10 DEF PageInv
<1>9. WholeInv'
  BY <1>0, <1>2, <1>3, <1>u DEF IInv, WholeInv, Partial
<1> QED
  BY <1>4, <1>5, <1>6, <1>7, <1>8, <1>9 DEF IInv

-----------------------------------------------------------------------------
(* _onMapMeta makes of at most one block its number. *)
LEMMA LastOfOne ==
  ASSUME NEW S \in SUBSET Slot, \A i, j \in S : i = j
  PROVE  /\ Max({None} \cup S) \in S \cup {None}
         /\ \A i \in S : Max({None} \cup S) = i
<1>1. CASE S = {}
  <2>1. {None} \cup S = {None}
    BY <1>1
  <2>2. Max({None}) = None
    BY DEF Max, None
  <2> QED
    BY <1>1, <2>1, <2>2
<1>2. ASSUME NEW k \in S PROVE Max({None} \cup S) = k
  <2>0. {None} \cup S = {None, k}
    BY <1>2
  <2>1. {None} \cup S = {None, k} /\ k \in Int /\ k > None
    BY <2>0, <1>2 DEF Slot, None
  <2>2. k \in {None, k} /\ \A y \in {None, k} : k >= y
    BY <2>1 DEF None
  <2>3. \A x \in {None, k} : (\A y \in {None, k} : x >= y) => x = k
    BY <2>1 DEF None
  <2> QED
    BY <2>1, <2>2, <2>3 DEF Max
<1> QED
  BY <1>1, <1>2

(* No two blocks in use have one name or one ID, whoever fills one.        *)
LEMMA Distinct ==
  ASSUME IInv
  PROVE  \A i, j \in inUse :
           /\ mb[i].name = mb[j].name => i = j
           /\ mb[i].id = mb[j].id /\ mb[i].id # NoID => i = j
<1>1. None \notin Slot
  BY DEF None, Slot
<1>2. ASSUME NEW i \in inUse, NEW s \in Session, call[s].at \in Ahead, call[s].slot # i
      PROVE  /\ mb[i].name # call[s].name
             /\ mb[i].id # NoID => mb[i].id # call[s].id
  <2>1. \A t \in Session : call[t].at \in Ahead => t = s
    BY <1>2, Alone DEF Latched, Ahead
  <2>2. nameMap[mb[i].name] = i /\ (mb[i].id # NoID => idMap[mb[i].id] = i) /\ i \in Slot
    BY <1>2, <2>1 DEF IInv, Mapped, inUse
  <2>3. nameMap[call[s].name] = None /\ (call[s].id # NoID => idMap[call[s].id] = None)
    BY <1>2 DEF IInv, CallInv, Ahead, Filling
  <2> QED
    BY <1>1, <2>2, <2>3
<1>3. ASSUME NEW s \in Session, call[s].at \in Ahead
      PROVE  mb[call[s].slot].name = call[s].name /\ mb[call[s].slot].id = call[s].id
  BY <1>3 DEF IInv, CallInv, Ahead
<1>4. ASSUME NEW i \in inUse, \A s \in Session : call[s].at \in Ahead => call[s].slot # i
      PROVE  nameMap[mb[i].name] = i /\ (mb[i].id # NoID => idMap[mb[i].id] = i)
  BY <1>4 DEF IInv, Mapped, inUse
<1> SUFFICES ASSUME NEW i \in inUse, NEW j \in inUse, i # j
             PROVE  /\ mb[i].name # mb[j].name
                    /\ mb[i].id = mb[j].id => mb[i].id = NoID
  OBVIOUS
<1>5. CASE \E s \in Session : call[s].at \in Ahead /\ call[s].slot = i
  BY <1>5, <1>2, <1>3
<1>6. CASE \E s \in Session : call[s].at \in Ahead /\ call[s].slot = j
  BY <1>6, <1>2, <1>3
<1>7. CASE \A s \in Session : call[s].at \in Ahead => call[s].slot # i /\ call[s].slot # j
  BY <1>7, <1>4
<1> QED
  BY <1>5, <1>6, <1>7

(* CrashAndOpen: the blocks alone tell the maps, and at most one of them   *)
(* was ahead of the header.                                                *)
LEMMA CrashIInv ==
  ASSUME IInv, CrashAndOpen
  PROVE  IInv'
<1> DEFINE N(n) == {i \in Slot : mb[i].used /\ mb[i].name = n}
           U(u) == {i \in Slot : mb[i].used /\ mb[i].id = u}
<1>0. TypeOK /\ crashes \in 0 .. MaxCrash
  BY DEF IInv, TypeOK
<1>u. /\ UNCHANGED <<mb, numMB, MBHWM, reserved>> /\ latch' = {}
      /\ crashes' = crashes + 1 /\ crashes' \in 0 .. MaxCrash /\ crashes' # 0
      /\ call' = [s \in Session |-> idle]
      /\ nameMap' = [n \in Name |-> Max({None} \cup N(n))]
      /\ idMap' = [u \in UniqueID |-> Max({None} \cup U(u))]
  BY <1>0 DEF CrashAndOpen, disk
<1>1. idle \in Call /\ idle.at = "idle" /\ idle.ex = None
  BY DEF idle, Call, Point
<1>2. call' \in [Session -> Call] /\ \A s \in Session : call'[s] = idle
  BY <1>u, <1>1
<1>3. ASSUME NEW n \in Name
      PROVE  /\ nameMap'[n] \in N(n) \cup {None}
             /\ \A i \in N(n) : nameMap'[n] = i
  <2>1. N(n) \in SUBSET Slot /\ \A i, j \in N(n) : i = j
    BY Distinct DEF inUse
  <2>2. nameMap'[n] = Max({None} \cup N(n))
    BY <1>u
  <2> HIDE DEF N
  <2> QED
    BY <2>1, <2>2, LastOfOne
<1>4. ASSUME NEW u \in UniqueID
      PROVE  /\ idMap'[u] \in U(u) \cup {None}
             /\ \A i \in U(u) : idMap'[u] = i
  <2>1. U(u) \in SUBSET Slot /\ \A i, j \in U(u) : i = j
    BY Distinct DEF inUse
  <2>2. idMap'[u] = Max({None} \cup U(u))
    BY <1>u
  <2> HIDE DEF U
  <2> QED
    BY <2>1, <2>2, LastOfOne
<1>5. nameMap' \in [Name -> Slot \cup {None}] /\ idMap' \in [UniqueID -> Slot \cup {None}]
  <2>1. \A n \in Name : Max({None} \cup N(n)) \in Slot \cup {None}
    BY <1>3, <1>u
  <2>2. \A u \in UniqueID : Max({None} \cup U(u)) \in Slot \cup {None}
    BY <1>4, <1>u
  <2> HIDE DEF N, U
  <2> QED
    BY <2>1, <2>2, <1>u
<1>6. TypeOK'
  BY <1>0, <1>2, <1>5, <1>u DEF TypeOK
<1>7. LatchInv' /\ CallInv'
  BY <1>1, <1>2, <1>u DEF LatchInv, CallInv, Latched, Filling, Partial
<1>8. BlockInv'
  BY <1>u DEF IInv, BlockInv
<1>9. Mapped'
  <2>1. \A n \in Name : nameMap'[n] # None => mb[nameMap'[n]].used /\ mb[nameMap'[n]].name = n
    BY <1>3
  <2>2. \A u \in UniqueID : idMap'[u] # None => mb[idMap'[u]].used /\ mb[idMap'[u]].id = u
    BY <1>4
  <2>3. \A i \in Slot : mb[i].used => mb[i].name \in Name /\ mb[i].id \in UniqueID \cup {NoID}
    BY <1>0 DEF IInv, BlockInv, TypeOK, Block
  <2>4. \A i \in Slot : mb[i].used => /\ nameMap'[mb[i].name] = i
                                      /\ mb[i].id # NoID => idMap'[mb[i].id] = i
    BY <2>3, <1>3, <1>4
  <2> QED
    BY <2>1, <2>2, <2>4, <1>u DEF Mapped
<1>10. CountInv'
  <2>1. late' = 0 /\ late \in {0, 1}
    BY <1>1, <1>2 DEF late, Ahead
  <2>2. inUse' = inUse
    BY <1>u DEF inUse
  <2>3. Cardinality(inUse) \in 0 .. Slots /\ numMB \in Nat
    BY <1>0, Blocks DEF TypeOK
  <2> QED
    BY <2>1, <2>2, <2>3, <1>0, <1>u DEF IInv, CountInv
<1>11. PageInv'
  <2>1. \A i \in Slot : \A q : Owns(i, q)' <=> Owns(i, q)
    BY <1>u DEF Owns
  <2> QED
    BY <2>1, <1>1, <1>2, <1>u DEF IInv, PageInv
<1>12. WholeInv'
  BY <1>u DEF WholeInv
<1> QED
  BY <1>6, <1>7, <1>8, <1>9, <1>10, <1>11, <1>12 DEF IInv

-----------------------------------------------------------------------------
(* Every step keeps the invariant. *)
LEMMA StepIInv == IInv /\ [Next]_vars => IInv'
<1> SUFFICES ASSUME IInv, [Next]_vars PROVE IInv'
  OBVIOUS
<1>1. CASE UNCHANGED vars
  <2>1. UNCHANGED <<mb, numMB, MBHWM, reserved, nameMap, idMap, latch, call, crashes>>
    BY <1>1 DEF vars, disk
  <2>2. TypeOK' /\ LatchInv' /\ CallInv' /\ BlockInv' /\ WholeInv'
    BY <2>1 DEF IInv, TypeOK, LatchInv, CallInv, BlockInv, WholeInv
  <2>3. inUse' = inUse /\ late' = late
    BY <2>1 DEF inUse, late
  <2>4. CountInv' /\ Mapped'
    BY <2>1, <2>3 DEF IInv, CountInv, Mapped
  <2>5. PageInv'
    BY <2>1, KeepPages
  <2> QED
    BY <2>2, <2>4, <2>5 DEF IInv
<1>2. ASSUME NEW s \in Session, NEW n \in Name, NEW u \in UniqueID \cup {NoID},
             reserveEx(s, n, u)
      PROVE  IInv'
  BY <1>2, ReserveExIInv
<1>3. ASSUME NEW s \in Session, addStep(s) PROVE IInv'
  BY <1>3, LatchIInv, CheckIInv, TakeLIDIInv, ResetNameIInv, ResetFlagIInv,
     ResetLIDIInv, CollectionInsertIInv, SetExpandIInv, FirstExtentIInv,
     ReleaseIInv, ReturnIInv DEF addStep
<1>4. ASSUME NEW s \in Session, NEW n \in Name, insert(s, n) PROVE IInv'
  BY <1>4, InsertIInv
<1>5. CASE CrashAndOpen
  BY <1>5, CrashIInv
<1> QED
  BY <1>1, <1>2, <1>3, <1>4, <1>5 DEF Next

(* The invariant holds of every catalogue the program can reach. *)
THEOREM Invariance == Spec => []IInv
BY InitIInv, StepIInv, PTL DEF Spec

(* CatalogueExact: whenever no addCollection is under the latch a name and *)
(* an ID lead to the one block that has them, no two collections share a   *)
(* logical ID, and the header is short of the blocks in use by at most one *)
(* per crash.                                                              *)
THEOREM CatalogueIsExact == Spec => []CatalogueExact
<1>1. IInv => CatalogueExact
  <2> SUFFICES ASSUME IInv PROVE CatalogueExact
    OBVIOUS
  <2>0. TypeOK
    BY DEF IInv
  <2>n. None \notin Slot
    BY DEF None, Slot
  <2>1. ASSUME latch = {} PROVE \A s \in Session : call[s].at \notin Ahead
    BY <2>1 DEF IInv, LatchInv, Latched, Ahead
  <2>2. MapsExact
    <3> SUFFICES ASSUME latch = {}
                 PROVE  /\ \A n \in Name : {i \in inUse : mb[i].name = n}
                                             = {nameMap[n]} \ {None}
                        /\ \A u \in UniqueID : {i \in inUse : mb[i].id = u}
                                                 = {idMap[u]} \ {None}
      BY DEF MapsExact
    <3>1. \A i \in inUse : /\ i \in Slot /\ nameMap[mb[i].name] = i
                           /\ mb[i].id # NoID => idMap[mb[i].id] = i
      BY <2>1 DEF IInv, Mapped, inUse
    <3>2. ASSUME NEW n \in Name
          PROVE  {i \in inUse : mb[i].name = n} = {nameMap[n]} \ {None}
      <4>1. nameMap[n] # None => nameMap[n] \in inUse /\ mb[nameMap[n]].name = n
        BY <2>0 DEF IInv, Mapped, inUse, TypeOK
      <4> QED
        BY <4>1, <3>1, <2>n
    <3>3. ASSUME NEW u \in UniqueID
          PROVE  {i \in inUse : mb[i].id = u} = {idMap[u]} \ {None}
      <4>1. idMap[u] # None => idMap[u] \in inUse /\ mb[idMap[u]].id = u
        BY <2>0 DEF IInv, Mapped, inUse, TypeOK
      <4>2. u # NoID
        OBVIOUS
      <4> QED
        BY <4>1, <4>2, <3>1, <2>n
    <3> QED
      BY <3>2, <3>3
  <2>3. LIDsUnique
    BY DEF LIDsUnique, IInv, BlockInv, inUse
  <2>4. CountExact
    <3> SUFFICES ASSUME latch = {}
                 PROVE  numMB <= Cardinality(inUse) /\ Cardinality(inUse) <= numMB + crashes
      BY DEF CountExact
    <3>1. late = 0
      BY <2>1 DEF late
    <3>2. numMB \in Nat /\ crashes \in Nat
      BY <2>0 DEF TypeOK
    <3> QED
      BY <3>1, <3>2 DEF IInv, CountInv
  <2> QED
    BY <2>0, <2>2, <2>3, <2>4 DEF CatalogueExact
<1> QED
  BY <1>1, Invariance, PTL

(* PagesOwned: no page has two owners among collections and calls, and     *)
(* none is lost without a crash, whichever step of addCollection fails.    *)
THEOREM PagesAreOwned == Spec => []PagesOwned
<1>1. IInv => PagesOwned
  <2> SUFFICES ASSUME IInv PROVE PagesOwned
    OBVIOUS
  <2>0. /\ \A i \in Slot : mb[i].ex \in Page \cup {None} /\ mb[i].extents \subseteq Page
        /\ \A s \in Session : call[s].ex \in Page \cup {None}
        /\ reserved \subseteq Page /\ None \notin Page
    BY DEF IInv, TypeOK, Block, Call, Page, None
  <2>1. \A i \in Slot : \A p : p \in owned(i) <=> p \in Page /\ Owns(i, p)
    BY <2>0 DEF owned, Owns
  <2>2. \A p : p \in held <=> p \in Page /\ \E s \in Session : call[s].ex = p
    BY <2>0 DEF held
  <2>3. \A i, j \in Slot : (i # j) => owned(i) \cap owned(j) = {}
    BY <2>1 DEF IInv, PageInv
  <2>4. \A i \in Slot : mb[i].ex \notin mb[i].extents /\ owned(i) \cap held = {}
    BY <2>0, <2>1, <2>2 DEF IInv, PageInv
  <2>5. \A s, t \in Session : s # t /\ call[s].ex # None => call[s].ex # call[t].ex
    BY DEF IInv, PageInv
  <2>6. \A p : p \in UNION {owned(i) : i \in Slot} <=> \E i \in Slot : p \in owned(i)
    OBVIOUS
  <2>7. held \cup UNION {owned(i) : i \in Slot} \subseteq reserved
    BY <2>0, <2>1, <2>2, <2>6 DEF IInv, PageInv
  <2>8. crashes = 0 => reserved \subseteq held \cup UNION {owned(i) : i \in Slot}
    BY <2>0, <2>1, <2>2, <2>6 DEF IInv, PageInv
  <2> QED
    BY <2>3, <2>4, <2>5, <2>7, <2>8 DEF PagesOwned
<1> QED
  BY <1>1, Invariance, PTL

(* VisibleWhole: a collection that other sessions can look up can take     *)
(* records, and the search for a free block never comes back empty.        *)
THEOREM VisibleIsWhole == Spec => []VisibleWhole
<1>1. IInv => VisibleWhole
  <2> SUFFICES ASSUME IInv, crashes = 0
               PROVE  /\ latch = {} => \A i \in inUse : mb[i].ex # None /\ mb[i].lid # None
                      /\ \A s \in Session : call[s].rc # "SYS"
    BY DEF VisibleWhole
  <2>1. ASSUME latch = {} PROVE \A s \in Session : call[s].at \notin Partial
    BY <2>1 DEF IInv, LatchInv, Latched, Partial
  <2> QED
    BY <2>1 DEF IInv, WholeInv, inUse
<1> QED
  BY <1>1, Invariance, PTL

-----------------------------------------------------------------------------
(* The chain of extents is whole, sorted, and keeps what it had, for any   *)
(* number of segments, pages, scans and crashes.  The walk from the first  *)
(* extent is the least set closed under next: the one store that changes   *)
(* it, linkForward, adds the new extent and no other.  The invariant says  *)
(* what the new extent and its predecessor are at each point before that   *)
(* store, and that an extent a crash left unlinked never comes between.    *)

(* The points of addExtent2Meta: for the first extent of a segment, for a  *)
(* further one, and for both.                                              *)
FirstPath  == {"logicID", "segFirst", "segLast", "used", "find"}
AppendPath == {"append", "appendPrev", "appendLogicID"}
Linking    == {"link", "back", "forward"}

seg(e) == extent2Segment(e)
nx(e) == node[e].next

(* The logical ID of an extent is in the range of its segment, and below   *)
(* the number of its pages that were handed out before or for it.          *)
taken(s) == {e \in pages : seg(e) = s}
room(e) == Cardinality(taken(seg(e)) \ ({cur} \ {e}))
InRange(e) ==
  seg(e) * Factor <= logicID(e) /\ logicID(e) < seg(e) * Factor + room(e)

(* Next is the successor in the order of the logical IDs. *)
Successor(e) ==
  IF nx(e) = Invalid
    THEN \A f \in Forward : logicID(f) <= logicID(e)
    ELSE /\ logicID(e) < logicID(nx(e))
         /\ \A f \in Forward : logicID(f) <= logicID(e) \/ logicID(nx(e)) <= logicID(f)

OrderInv ==
  /\ Follows(pages)
  /\ \A e \in Forward : InRange(e)
  /\ \A e \in Forward : Successor(e)
  /\ \A f \in Forward : logicID(first) <= logicID(f)
  /\ \A e, f \in Forward : logicID(e) = logicID(f) => e = f

(* The last extent of a segment, when it is in the chain, is the greatest  *)
(* there, and a segment without one has none in the chain.                 *)
SegInv ==
  /\ \A s \in Seg : segLast[s] # Invalid => segLast[s] \in pages /\ seg(segLast[s]) = s
  /\ \A e \in Forward : segLast[seg(e)] # Invalid
  /\ \A s \in Seg : segLast[s] \in Forward =>
       \A f \in Forward : seg(f) = s => logicID(f) <= logicID(segLast[s])

(* Where the new extent goes. *)
Placed ==
  /\ InRange(cur)
  /\ \A f \in Forward : seg(f) = seg(cur) => logicID(f) < logicID(cur)
  /\ pv = Invalid => \A f \in Forward : logicID(cur) < logicID(f)
  /\ pv # Invalid =>
       /\ logicID(pv) < logicID(cur)
       /\ \A f \in Forward : logicID(f) <= logicID(pv) \/ logicID(cur) < logicID(f)

WriterInv ==
  /\ at = "idle" => cur = Invalid /\ pv = Invalid
  /\ at # "idle" => cur \in pages
  /\ cur \in Forward => at = "last"
  /\ pv # Invalid => pv \in pages /\ pv # cur
  /\ at \in FirstPath => pv = Invalid /\ \A f \in Forward : seg(f) # seg(cur)
  /\ at \in FirstPath \ {"logicID"} => logicID(cur) = seg(cur) * Factor
  /\ at \in {"logicID", "segFirst", "segLast"} => segLast[seg(cur)] = Invalid
  /\ at \in AppendPath =>
       /\ pv # Invalid /\ seg(pv) = seg(cur)
       /\ pv \in Forward => \A f \in Forward : seg(f) = seg(cur) => logicID(f) <= logicID(pv)
  /\ at = "append" => segLast[seg(cur)] = pv
  /\ at \notin {"idle", "logicID", "segFirst", "segLast", "append"} => segLast[seg(cur)] = cur
  /\ at \in FirstPath \cup AppendPath \cup {"link"} => nx(cur) = Invalid
  /\ at \in {"back", "forward"} => nx(cur) = after
  /\ at \in Linking /\ pv \in Forward \cup {Invalid} => Placed

segsUsed == {s \in Seg : segLast[s] # Invalid}
uncounted == IF at = "used" THEN 1 ELSE 0
TallyInv ==
  /\ usedSegNum + uncounted <= Cardinality(segsUsed)
  /\ deaths = 0 => usedSegNum + uncounted = Cardinality(segsUsed)

(* Without a crash, by the point the writer is at. *)
CurEnds(s) ==
  /\ at \in {"logicID", "segFirst"} => in(s) = {} /\ segFirst[s] = Invalid
  /\ at \in {"segLast", "used", "find"} => in(s) = {} /\ segFirst[s] = cur
  /\ at \in AppendPath => in(s) # {} /\ Ends(in(s), segFirst[s], pv)
  /\ at \in Linking \cup {"last"} => Ends(in(s) \cup {cur}, segFirst[s], cur)

SegEnds ==
  \A s \in Seg : IF at = "idle" \/ s # seg(cur) THEN Ends(in(s), segFirst[s], segLast[s])
                                                ELSE CurEnds(s)

LastInv ==
  IF at \in {"forward", "last"} /\ (pv # Invalid \/ added # {})
    THEN Greatest(added \cup {cur}, last)
    ELSE IF added = {} THEN last = Invalid ELSE Greatest(added, last)

Back(e, S) ==
  IF e = first THEN node[e].prev = Invalid
               ELSE node[e].prev \in S /\ nx(node[e].prev) = e

BackInv ==
  /\ at = "last" => \A e \in added \cup {cur} : Back(e, added \cup {cur})
  /\ at = "forward" => \A e \in added : IF e = nx(cur) THEN node[e].prev = cur ELSE Back(e, added)
  /\ at \notin {"forward", "last"} => \A e \in added : Back(e, added)
  /\ at \in FirstPath \cup {"append", "appendPrev"} => node[cur].prev = Invalid
  /\ at \in {"appendLogicID", "last"} \cup Linking => node[cur].prev = pv

ExactInv ==
  deaths = 0 =>
    /\ Forward = IF at = "last" THEN added \cup {cur} ELSE added
    /\ cur \notin added
    /\ pv \in added \cup {Invalid}
    /\ SegEnds /\ LastInv /\ BackInv

met(c) == {c.seen[i] : i \in DOMAIN c.seen}

ScanOK(c) ==
  /\ c.at \in {"enter", "in"} => c.cur \in Forward
  /\ c.start \subseteq Forward
  /\ \A i \in 1 .. Len(c.seen) : c.seen[i] \in Forward
  /\ \A i \in 1 .. Len(c.seen) - 1 : logicID(c.seen[i]) < logicID(c.seen[i + 1])
  /\ c.at = "enter" =>
       /\ c.seen # <<>> => logicID(c.seen[Len(c.seen)]) < logicID(c.cur)
       /\ \A e \in c.start : logicID(e) < logicID(c.cur) => e \in met(c)
  /\ c.at = "in" =>
       /\ c.seen # <<>> /\ c.seen[Len(c.seen)] = c.cur
       /\ \A e \in c.start : logicID(e) <= logicID(c.cur) => e \in met(c)
  /\ c.at = "end" => c.start \subseteq met(c)

ScanInv == \A s \in Scanner : ScanOK(scan[s])

ChainInv ==
  /\ ChainTypeOK /\ OrderInv /\ SegInv /\ WriterInv /\ TallyInv /\ ExactInv
  /\ ScanInv /\ added \subseteq Forward


-----------------------------------------------------------------------------
(* The operators *)

(* An extent is in one of the segments. *)
LEMMA SegIs == ASSUME NEW e \in Ext PROVE seg(e) \in Seg /\ seg(e) \in Nat
  <1>1. SegPages \in Nat /\ SegPages > 0 /\ SegNum \in Nat /\ SegNum > 0
    BY ChainAssumption
  <1>2. e \in Nat /\ e < SegNum * SegPages
    BY <1>1 DEF Ext
  <1> DEFINE q == e \div SegPages
  <1>3. q \in Int /\ q * SegPages <= e /\ e < q * SegPages + SegPages
    BY <1>1, <1>2
  <1>4. q \in Nat
    BY <1>1, <1>2, <1>3
  <1> HIDE DEF q
  <1>5. q < SegNum
    <2>1. SUFFICES ASSUME SegNum <= q PROVE FALSE
      BY <1>1, <1>4
    <2>2. SegNum * SegPages <= q * SegPages
      BY <1>1, <1>4, <2>1
    <2> QED
      BY <1>1, <1>2, <1>3, <1>4, <2>2
  <1>6. q \in 0 .. SegNum - 1
    BY <1>1, <1>4, <1>5
  <1> QED
    BY <1>4, <1>6 DEF q, seg, extent2Segment, Seg

(* A segment has at most SegPages extents, and so at most Factor. *)
LEMMA SegSize ==
  ASSUME NEW s \in Seg, NEW T, T \subseteq {e \in Ext : seg(e) = s}
  PROVE  IsFiniteSet(T) /\ Cardinality(T) \in Nat /\ Cardinality(T) <= Factor
  <1>1. SegPages \in Nat /\ SegPages > 0 /\ SegNum \in Nat /\ Factor \in Nat /\ SegPages <= Factor /\ s \in Nat
    BY ChainAssumption DEF Seg
  <1> DEFINE a == s * SegPages
             I == a .. a + SegPages - 1
  <1>2. a \in Nat
    BY <1>1
  <1>3. \A e \in T : e \in I
    <2> TAKE e \in T
    <2>1. e \in Ext /\ e \div SegPages = s
      BY DEF seg, extent2Segment
    <2>2. e \in Nat
      BY <1>1, <2>1 DEF Ext
    <2>3. (e \div SegPages) * SegPages <= e /\ e < (e \div SegPages) * SegPages + SegPages
      BY <1>1, <2>2
    <2>4. a <= e /\ e < a + SegPages
      BY <2>1, <2>3
    <2> HIDE DEF a
    <2> QED
      BY <1>1, <1>2, <2>2, <2>4
  <1> HIDE DEF a
  <1>4. IsFiniteSet(I) /\ Cardinality(I) = SegPages
    <2>1. a \in Int /\ a + SegPages - 1 \in Int /\ a <= a + SegPages - 1
      BY <1>1, <1>2
    <2>2. IsFiniteSet(I) /\ Cardinality(I) = IF a > a + SegPages - 1 THEN 0 ELSE (a + SegPages - 1) - a + 1
      BY <2>1, FS_Interval
    <2> QED
      BY <1>1, <1>2, <2>1, <2>2
  <1>5. T \subseteq I
    BY <1>3
  <1>6. IsFiniteSet(T) /\ Cardinality(T) <= Cardinality(I)
    BY <1>4, <1>5, FS_Subset
  <1>7. Cardinality(T) \in Nat
    BY <1>6, FS_CardinalityType
  <1> QED
    BY <1>1, <1>4, <1>6, <1>7

(* The ranges of the segments do not overlap. *)
LEMMA Ranges ==
  ASSUME NEW a \in Nat, NEW b \in Nat, a < b
  PROVE  a * Factor \in Nat /\ b * Factor \in Nat /\ a * Factor + Factor <= b * Factor
  <1>1. Factor \in Nat
    BY ChainAssumption
  <1>2. PICK d \in Nat : b = (a + 1) + d
    <2>1. b - (a + 1) \in Nat /\ b = (a + 1) + (b - (a + 1))
      OBVIOUS
    <2> QED
      BY <2>1
  <1>3. b * Factor = a * Factor + Factor + d * Factor
    BY <1>1, <1>2
  <1>4. a * Factor \in Nat /\ b * Factor \in Nat /\ d * Factor \in Nat
    BY <1>1
  <1> QED
    BY <1>1, <1>3, <1>4

(* What a scan reaches, for any pages p, first extent f and headers n. *)
Closed(S, f, n) ==
  (f # Invalid => f \in S) /\ \A e \in S : n[e].next # Invalid => n[e].next \in S
Reach(p, f, n) == {e \in p : \A S \in SUBSET p : Closed(S, f, n) => e \in S}

LEMMA ForwardIs ==
  /\ Forward = Reach(pages, first, node) /\ Forward' = Reach(pages', first', node')
  /\ (Follows(pages) <=> Closed(pages, first, node))
  /\ (Follows(pages)' <=> Closed(pages', first', node'))
  BY DEF Forward, Follows, Reach, Closed

(* The walk is the least closed set. *)
LEMMA Walk ==
  ASSUME NEW p, NEW f, NEW n, Closed(p, f, n)
  PROVE  /\ Reach(p, f, n) \subseteq p /\ Closed(Reach(p, f, n), f, n)
         /\ \A S \in SUBSET p : Closed(S, f, n) => Reach(p, f, n) \subseteq S
  BY DEF Closed, Reach

(* A store that leaves the first extent and the walk's next pointers alone *)
(* leaves the walk alone.                                                  *)
LEMMA WalkSame ==
  ASSUME NEW p, NEW q, NEW f, NEW n, NEW m, Closed(p, f, n), Closed(q, f, m), p \subseteq q,
         \A e \in Reach(p, f, n) : m[e].next = n[e].next
  PROVE  Reach(q, f, m) = Reach(p, f, n)
  <1> DEFINE F == Reach(p, f, n)
             G == Reach(q, f, m)
  <1>1. F \subseteq p /\ Closed(F, f, n) /\ \A S \in SUBSET p : Closed(S, f, n) => F \subseteq S
    BY Walk
  <1>2. G \subseteq q /\ Closed(G, f, m) /\ \A S \in SUBSET q : Closed(S, f, m) => G \subseteq S
    BY Walk
  <1>3. \A e \in F : m[e].next = n[e].next
    OBVIOUS
  <1> HIDE DEF F, G
  <1>4. Closed(F, f, m) /\ F \in SUBSET q
    BY <1>1, <1>3 DEF Closed
  <1>5. Closed(F \cap G, f, n) /\ F \cap G \in SUBSET p
    BY <1>1, <1>2, <1>3 DEF Closed
  <1>6. G \subseteq F /\ F \subseteq F \cap G
    BY <1>1, <1>2, <1>4, <1>5
  <1> QED
    BY <1>6 DEF F, G

(* A new extent c, whose next is what followed v in the walk, is the only  *)
(* one that joins it once v points to c.                                   *)
LEMMA WalkGrows ==
  ASSUME NEW p, NEW f, NEW n, NEW m, NEW c \in p, NEW v, c # Invalid, Closed(p, f, n),
         v \in Reach(p, f, n), c \notin Reach(p, f, n), n[c].next = n[v].next, m[v].next = c,
         \A e \in p \ {v} : m[e].next = n[e].next
  PROVE  Reach(p, f, m) = Reach(p, f, n) \cup {c} /\ Closed(p, f, m)
  <1> DEFINE F == Reach(p, f, n)
             G == Reach(p, f, m)
  <1>1. F \subseteq p /\ Closed(F, f, n) /\ \A S \in SUBSET p : Closed(S, f, n) => F \subseteq S
    BY Walk
  <1>2. Closed(p, f, m) /\ v \in p /\ v # c
    BY <1>1 DEF Closed
  <1>3. G \subseteq p /\ Closed(G, f, m) /\ \A S \in SUBSET p : Closed(S, f, m) => G \subseteq S
    BY <1>2, Walk
  <1>4. v \in F /\ c \notin F
    OBVIOUS
  <1> HIDE DEF F, G
  <1>5. Closed(F \cup {c}, f, m) /\ F \cup {c} \in SUBSET p
    <2>1. \A e \in F \cup {c} : m[e].next # Invalid => m[e].next \in F \cup {c}
      <3>1. \A e \in F \ {v} : m[e].next # Invalid => m[e].next \in F \cup {c}
        BY <1>1 DEF Closed
      <3>2. m[c].next = n[v].next
        BY <1>2
      <3>3. m[c].next # Invalid => m[c].next \in F
        BY <1>1, <1>4, <3>2 DEF Closed
      <3> QED
        BY <3>1, <3>3
    <2> QED
      BY <1>1, <2>1 DEF Closed
  <1>6. Closed(F \cap G, f, n) /\ F \cap G \in SUBSET p
    <2> SUFFICES ASSUME NEW e \in F \cap G, n[e].next # Invalid PROVE n[e].next \in F \cap G
      BY <1>1, <1>3 DEF Closed
    <2>1. n[e].next \in F
      BY <1>1 DEF Closed
    <2>2. CASE e # v
      BY <1>1, <1>3, <2>1, <2>2 DEF Closed
    <2>3. CASE e = v
      <3>1. c \in G
        BY <1>3, <2>3 DEF Closed
      <3>2. m[c].next = n[e].next
        BY <1>2, <2>3
      <3> QED
        BY <1>3, <2>1, <3>1, <3>2 DEF Closed
    <2> QED
      BY <2>2, <2>3
  <1>7. F \subseteq G /\ G \subseteq F \cup {c}
    BY <1>1, <1>3, <1>5, <1>6
  <1>8. c \in G
    BY <1>3, <1>4, <1>7 DEF Closed
  <1> QED
    BY <1>2, <1>7, <1>8 DEF F, G

(* The same for a new first extent. *)
LEMMA WalkStarts ==
  ASSUME NEW p, NEW f, NEW n, NEW c \in p, c # Invalid, Closed(p, f, n),
         c \notin Reach(p, f, n), n[c].next = f
  PROVE  Reach(p, c, n) = Reach(p, f, n) \cup {c} /\ Closed(p, c, n)
  <1> DEFINE F == Reach(p, f, n)
             G == Reach(p, c, n)
  <1>1. F \subseteq p /\ Closed(F, f, n) /\ \A S \in SUBSET p : Closed(S, f, n) => F \subseteq S
    BY Walk
  <1>2. Closed(p, c, n)
    BY DEF Closed
  <1>3. G \subseteq p /\ Closed(G, c, n) /\ \A S \in SUBSET p : Closed(S, c, n) => G \subseteq S
    BY <1>2, Walk
  <1> HIDE DEF F, G
  <1>4. Closed(F \cup {c}, c, n) /\ F \cup {c} \in SUBSET p
    BY <1>1 DEF Closed
  <1>5. c \in G
    BY <1>3 DEF Closed
  <1>6. Closed(F \cap G, f, n) /\ F \cap G \in SUBSET p
    BY <1>1, <1>3, <1>5 DEF Closed
  <1> QED
    BY <1>1, <1>2, <1>3, <1>4, <1>5, <1>6 DEF F, G

-----------------------------------------------------------------------------
(* What the invariant says of the parts *)

Header == [prev : ExtOrNone, next : ExtOrNone, logicID : Nat \cup {Invalid}]

LEMMA Known ==
  ASSUME ChainInv
  PROVE  /\ node \in [Ext -> Header] /\ Forward \subseteq pages /\ pages \subseteq Ext
         /\ Follows(pages) /\ (first # Invalid => first \in Forward)
         /\ \A e \in Forward : nx(e) # Invalid => nx(e) \in Forward
         /\ \A e \in Ext : /\ logicID(e) \in Int /\ node[e].logicID \in Nat \cup {Invalid}
                           /\ nx(e) \in ExtOrNone /\ node[e].prev \in ExtOrNone
         /\ Ext \subseteq Nat /\ Invalid \notin Ext /\ Invalid \in Int
         /\ Factor \in Nat /\ Factor > 0 /\ SegNum \in Nat /\ MaxDeaths \in Nat
         /\ (at # "idle" => cur \in Ext /\ cur \in pages)
  <1>1. /\ node \in [Ext -> Header] /\ pages \subseteq Ext /\ Follows(pages)
        /\ (at # "idle" => cur \in pages)
    BY DEF ChainInv, ChainTypeOK, OrderInv, WriterInv, Header
  <1>2. /\ Factor \in Nat /\ Factor > 0 /\ SegNum \in Nat /\ MaxDeaths \in Nat
        /\ SegPages \in Nat
    BY ChainAssumption
  <1>3. SegNum * SegPages \in Nat
    BY <1>2
  <1>4. Ext \subseteq Nat /\ Invalid \notin Ext /\ Invalid \in Int
    BY <1>3 DEF Ext, Invalid
  <1>5. \A e \in Ext : /\ logicID(e) \in Int /\ node[e].logicID \in Nat \cup {Invalid}
                       /\ nx(e) \in ExtOrNone /\ node[e].prev \in ExtOrNone
    BY <1>1, <1>4 DEF logicID, Header, nx
  <1>6. Closed(pages, first, node)
    BY <1>1, ForwardIs
  <1>7. Reach(pages, first, node) \subseteq pages /\ Closed(Reach(pages, first, node), first, node)
    BY <1>6, Walk
  <1>8. Forward \subseteq pages /\ Closed(Forward, first, node)
    BY <1>7, ForwardIs
  <1>9. first # Invalid => first \in Forward
    BY <1>8 DEF Closed
  <1>10. \A e \in Forward : nx(e) # Invalid => nx(e) \in Forward
    BY <1>8 DEF Closed, nx
  <1> QED
    BY <1>1, <1>2, <1>4, <1>5, <1>8, <1>9, <1>10

(* Stores into a header. *)
LEMMA PutPrev ==
  ASSUME node \in [Ext -> Header], NEW e \in Ext, NEW v \in ExtOrNone, Put(e, "prev", v)
  PROVE  /\ node' \in [Ext -> Header] /\ node'[e].prev = v
         /\ \A x \in Ext : /\ x # e => node'[x].prev = node[x].prev
                           /\ node'[x].next = node[x].next /\ node'[x].logicID = node[x].logicID
  BY DEF Put, Header

LEMMA PutNext ==
  ASSUME node \in [Ext -> Header], NEW e \in Ext, NEW v \in ExtOrNone, Put(e, "next", v)
  PROVE  /\ node' \in [Ext -> Header] /\ node'[e].next = v
         /\ \A x \in Ext : /\ x # e => node'[x].next = node[x].next
                           /\ node'[x].prev = node[x].prev /\ node'[x].logicID = node[x].logicID
  BY DEF Put, Header

LEMMA PutLogicID ==
  ASSUME node \in [Ext -> Header], NEW e \in Ext, NEW v \in Nat, Put(e, "logicID", v)
  PROVE  /\ node' \in [Ext -> Header] /\ node'[e].logicID = v
         /\ \A x \in Ext : /\ x # e => node'[x].logicID = node[x].logicID
                           /\ node'[x].prev = node[x].prev /\ node'[x].next = node[x].next
  BY DEF Put, Header

(* The room of an extent: at most a segment, one more for the new extent,  *)
(* and never less than before.                                             *)
LEMMA Rooms ==
  ASSUME ChainInv, NEW e \in pages
  PROVE  /\ room(e) \in Nat /\ room(e) <= Factor
         /\ (at # "idle" /\ e # cur /\ seg(e) = seg(cur)) => room(cur) = room(e) + 1
         /\ (pages' = pages /\ cur' = cur) => room(e)' = room(e)
         /\ (pages' = pages /\ cur' = Invalid) => room(e)' \in Nat /\ room(e) <= room(e)'
         /\ at = "idle" /\ cur' \notin pages /\ pages' = pages \cup {cur'} => room(e)' = room(e)
  <1> DEFINE T == taken(seg(e))
  <1>1. pages \subseteq Ext /\ seg(e) \in Seg /\ Invalid \notin Ext
    BY Known, SegIs
  <1>2. T \subseteq {x \in Ext : seg(x) = seg(e)}
    BY <1>1 DEF taken
  <1>3. T \ ({cur} \ {e}) \subseteq {x \in Ext : seg(x) = seg(e)}
    BY <1>2
  <1>4. room(e) \in Nat /\ room(e) <= Factor
    BY <1>1, <1>3, SegSize DEF room
  <1>5. ASSUME at # "idle", e # cur, seg(e) = seg(cur) PROVE room(cur) = room(e) + 1
    <2>1. cur \in T
      BY <1>5, Known DEF taken
    <2>2. IsFiniteSet(T)
      BY <1>1, <1>2, SegSize
    <2>3. Cardinality(T \ {cur}) = Cardinality(T) - 1 /\ Cardinality(T) \in Nat
      BY <2>1, <2>2, FS_RemoveElement, FS_CardinalityType
    <2>4. room(e) = Cardinality(T \ {cur})
      <3>1. {cur} \ {e} = {cur}
        BY <1>5
      <3> QED
        BY <3>1 DEF room
    <2>5. room(cur) = Cardinality(T)
      <3>1. T \ ({cur} \ {cur}) = T
        OBVIOUS
      <3> QED
        BY <3>1, <1>5 DEF room
    <2> QED
      BY <2>3, <2>4, <2>5
  <1>6. ASSUME pages' = pages, cur' = cur PROVE room(e)' = room(e)
    BY <1>6 DEF room, taken, seg, extent2Segment
  <1>7. ASSUME pages' = pages, cur' = Invalid PROVE room(e)' \in Nat /\ room(e) <= room(e)'
    <2>1. room(e)' = Cardinality(T \ ({Invalid} \ {e}))
      BY <1>7 DEF room, taken, seg, extent2Segment
    <2>2. T \ ({Invalid} \ {e}) = T
      BY <1>1, <1>2
    <2>3. IsFiniteSet(T) /\ Cardinality(T) \in Nat
      BY <1>1, <1>2, SegSize
    <2>4. Cardinality(T \ ({cur} \ {e})) <= Cardinality(T)
      BY <2>3, FS_Subset
    <2> QED
      BY <2>1, <2>2, <2>3, <2>4 DEF room
  <1>8. ASSUME at = "idle", cur' \notin pages, pages' = pages \cup {cur'} PROVE room(e)' = room(e)
    <2>1. cur = Invalid
      BY <1>8 DEF ChainInv, WriterInv
    <2>2. T \ ({cur} \ {e}) = T
      BY <1>1, <1>2, <2>1
    <2> DEFINE U == {x \in pages \cup {cur'} : seg(x) = seg(e)} \ ({cur'} \ {e})
    <2>3. room(e)' = Cardinality(U)
      BY <1>8 DEF room, taken, seg, extent2Segment
    <2>4. U = T
      BY <1>8 DEF taken
    <2> QED
      BY <2>2, <2>3, <2>4 DEF room
  <1> QED
    BY <1>4, <1>5, <1>6, <1>7, <1>8

-----------------------------------------------------------------------------
(* Steps that leave the walk alone *)

(* What the scans know stays when the walk only grows and its logical IDs  *)
(* stay.                                                                   *)
LEMMA ScanKept ==
  ASSUME ChainInv, scan' = scan, Forward \subseteq Forward',
         \A e \in Forward : node'[e].logicID = node[e].logicID
  PROVE  ScanInv'
  <1> SUFFICES ASSUME NEW s \in Scanner PROVE ScanOK(scan[s])'
    BY DEF ScanInv
  <1> DEFINE c == scan[s]
  <1>1. ScanOK(c)
    BY DEF ChainInv, ScanInv
  <1>2. ScanOK(scan[s])' <=>
          /\ c.at \in {"enter", "in"} => c.cur \in Forward'
          /\ c.start \subseteq Forward'
          /\ \A i \in 1 .. Len(c.seen) : c.seen[i] \in Forward'
          /\ \A i \in 1 .. Len(c.seen) - 1 : node'[c.seen[i]].logicID < node'[c.seen[i + 1]].logicID
          /\ c.at = "enter" =>
               /\ c.seen # <<>> => node'[c.seen[Len(c.seen)]].logicID < node'[c.cur].logicID
               /\ \A e \in c.start : node'[e].logicID < node'[c.cur].logicID => e \in met(c)
          /\ c.at = "in" =>
               /\ c.seen # <<>> /\ c.seen[Len(c.seen)] = c.cur
               /\ \A e \in c.start : node'[e].logicID <= node'[c.cur].logicID => e \in met(c)
          /\ c.at = "end" => c.start \subseteq met(c)
    BY DEF ScanOK, logicID, met
  <1>3. c.seen \in Seq(Ext)
    BY DEF ChainInv, ChainTypeOK
  <1> HIDE DEF c
  <1>4. Len(c.seen) \in Nat /\ (c.seen # <<>> => Len(c.seen) > 0)
    BY <1>3
  <1>5. /\ c.at \in {"enter", "in"} => c.cur \in Forward
        /\ c.start \subseteq Forward
        /\ \A i \in 1 .. Len(c.seen) : c.seen[i] \in Forward
        /\ c.at = "end" => c.start \subseteq met(c)
        /\ c.at = "in" => c.seen # <<>> /\ c.seen[Len(c.seen)] = c.cur
    BY <1>1 DEF ScanOK
  <1>6. \A i \in 1 .. Len(c.seen) - 1 : node'[c.seen[i]].logicID < node'[c.seen[i + 1]].logicID
    <2> TAKE i \in 1 .. Len(c.seen) - 1
    <2>1. i \in 1 .. Len(c.seen) /\ i + 1 \in 1 .. Len(c.seen)
      BY <1>4
    <2>2. node[c.seen[i]].logicID < node[c.seen[i + 1]].logicID
      BY <1>1 DEF ScanOK, logicID
    <2> QED
      BY <1>5, <2>1, <2>2
  <1>7. ASSUME c.at = "enter" PROVE
          /\ c.seen # <<>> => node'[c.seen[Len(c.seen)]].logicID < node'[c.cur].logicID
          /\ \A e \in c.start : node'[e].logicID < node'[c.cur].logicID => e \in met(c)
    <2>1. /\ c.seen # <<>> => node[c.seen[Len(c.seen)]].logicID < node[c.cur].logicID
          /\ \A e \in c.start : node[e].logicID < node[c.cur].logicID => e \in met(c)
      BY <1>1, <1>7 DEF ScanOK, logicID
    <2>2. c.seen # <<>> => c.seen[Len(c.seen)] \in Forward
      BY <1>4, <1>5
    <2>3. c.cur \in Forward /\ \A e \in c.start : e \in Forward
      BY <1>5, <1>7
    <2> QED
      BY <2>1, <2>2, <2>3
  <1>8. ASSUME c.at = "in" PROVE
          \A e \in c.start : node'[e].logicID <= node'[c.cur].logicID => e \in met(c)
    <2>1. \A e \in c.start : node[e].logicID <= node[c.cur].logicID => e \in met(c)
      BY <1>1, <1>8 DEF ScanOK, logicID
    <2>2. c.cur \in Forward /\ \A e \in c.start : e \in Forward
      BY <1>5, <1>8
    <2> QED
      BY <2>1, <2>2
  <1> QED
    BY <1>2, <1>5, <1>6, <1>7, <1>8

(* What no store outside of the walk disturbs: the walk, its order, and    *)
(* what the scans know.                                                    *)
LEMMA Frame ==
  ASSUME ChainInv, first' = first, pages \subseteq pages', Follows(pages)',
         \A e \in Forward : /\ node'[e].next = node[e].next
                            /\ node'[e].logicID = node[e].logicID
                            /\ room(e)' \in Nat /\ room(e) <= room(e)'
  PROVE  /\ Forward' = Forward /\ OrderInv'
         /\ (scan' = scan => ScanInv')
  <1>1. Forward' = Forward
    <2>1. Closed(pages, first, node) /\ Closed(pages', first, node')
      BY ForwardIs, Known
    <2>2. \A e \in Reach(pages, first, node) : node'[e].next = node[e].next
      BY ForwardIs
    <2>3. Reach(pages', first, node') = Reach(pages, first, node)
      BY <2>1, <2>2, WalkSame
    <2> QED
      BY <2>3, ForwardIs
  <1>2. \A e \in Forward : InRange(e)'
    <2> TAKE e \in Forward
    <2>1. InRange(e) /\ e \in pages /\ e \in Ext
      BY Known DEF ChainInv, OrderInv
    <2>2. seg(e) \in Nat /\ Factor \in Nat /\ logicID(e) \in Int /\ room(e) \in Nat
      BY <2>1, Known, SegIs, Rooms
    <2>3. seg(e) * Factor \in Nat
      BY <2>2
    <2>4. seg(e)' = seg(e) /\ logicID(e)' = logicID(e)
      BY DEF seg, extent2Segment, logicID
    <2> QED
      BY <2>1, <2>2, <2>3, <2>4 DEF InRange
  <1>3. \A e \in Forward : Successor(e)'
    <2> TAKE e \in Forward
    <2>1. Successor(e) /\ (nx(e) # Invalid => nx(e) \in Forward)
      BY Known DEF ChainInv, OrderInv
    <2> QED
      BY <1>1, <2>1 DEF Successor, nx, logicID
  <1>4. \A f \in Forward : logicID(first)' <= logicID(f)'
    <2>1. \A f \in Forward : logicID(first) <= logicID(f)
      BY DEF ChainInv, OrderInv
    <2>2. CASE first = Invalid
      <3>1. Forward = {}
        <4>1. Closed({}, first, node) /\ {} \in SUBSET pages
          BY <2>2 DEF Closed
        <4>2. Closed(pages, first, node)
          BY ForwardIs, Known
        <4>3. Reach(pages, first, node) \subseteq {}
          BY <4>1, <4>2, Walk
        <4> QED
          BY <4>3, ForwardIs
      <3> QED
        BY <3>1
    <2>3. CASE first # Invalid
      <3>1. first \in Forward
        BY <2>3, Known
      <3> QED
        BY <2>1, <3>1 DEF logicID
    <2> QED
      BY <2>2, <2>3
  <1>5. \A e, f \in Forward : logicID(e)' = logicID(f)' => e = f
    BY DEF ChainInv, OrderInv, logicID
  <1>6. OrderInv'
    BY <1>1, <1>2, <1>3, <1>4, <1>5 DEF OrderInv
  <1>7. scan' = scan => ScanInv'
    BY <1>1, ScanKept
  <1> QED
    BY <1>1, <1>6, <1>7

(* A store of the writer that leaves the walk alone. *)
LEMMA QuietStore ==
  ASSUME ChainInv, at \notin {"idle", "last"}, first' = first, UNCHANGED writerRest,
         node' \in [Ext -> Header],
         \A e \in Ext : node'[e].next = node[e].next \/ node'[e].next \in pages,
         \A e \in Ext \ {cur} : /\ node'[e].next = node[e].next
                                /\ node'[e].logicID = node[e].logicID
  PROVE  /\ Forward' = Forward /\ OrderInv' /\ ScanInv' /\ (added \subseteq Forward)'
         /\ cur \in pages /\ cur \in Ext /\ cur # Invalid /\ cur \notin Forward
         /\ \A e \in Forward : /\ node'[e].next = node[e].next
                               /\ node'[e].logicID = node[e].logicID
         /\ \A e \in pages : room(e)' = room(e)
         /\ pages' = pages /\ cur' = cur /\ scan' = scan /\ added' = added /\ deaths' = deaths
  <1>1. pages' = pages /\ cur' = cur /\ scan' = scan /\ added' = added /\ deaths' = deaths
    BY DEF writerRest
  <1>2. cur \in pages /\ cur \in Ext /\ cur # Invalid /\ cur \notin Forward
    BY Known DEF ChainInv, WriterInv
  <1>3. \A e \in pages : room(e)' = room(e) /\ room(e) \in Nat
    BY <1>1, Rooms
  <1>4. \A e \in Forward : e \in Ext \ {cur} /\ e \in pages
    BY <1>2, Known
  <1>5. Follows(pages)'
    <2>1. Follows(pages) /\ pages \subseteq Ext
      BY Known
    <2> QED
      BY <1>1, <2>1 DEF Follows
  <1>6. \A e \in Forward : /\ node'[e].next = node[e].next
                           /\ node'[e].logicID = node[e].logicID
                           /\ room(e)' \in Nat /\ room(e) <= room(e)'
    BY <1>3, <1>4
  <1>7. Forward' = Forward /\ OrderInv' /\ ScanInv'
    BY <1>1, <1>5, <1>6, Frame
  <1>8. (added \subseteq Forward)'
    BY <1>1, <1>7 DEF ChainInv
  <1> QED
    BY <1>1, <1>2, <1>3, <1>6, <1>7, <1>8

(* Such a store keeps what is known of the segments' last extents, whether *)
(* it leaves them alone or makes the new extent one.                       *)
LEMMA SegSame ==
  ASSUME ChainInv, segLast' = segLast, pages \subseteq pages', Forward' = Forward,
         \A e \in Forward : node'[e].logicID = node[e].logicID
  PROVE  SegInv'
  <1>1. SegInv /\ \A e \in Forward : e \in Ext
    BY Known DEF ChainInv
  <1>2. \A s \in Seg : segLast[s] # Invalid => segLast[s] \in pages' /\ seg(segLast[s]) = s
    BY <1>1 DEF SegInv
  <1>3. \A e \in Forward : segLast[seg(e)] # Invalid
    BY <1>1 DEF SegInv
  <1>4. \A s \in Seg : segLast[s] \in Forward =>
          \A f \in Forward : seg(f) = s => node'[f].logicID <= node'[segLast[s]].logicID
    BY <1>1 DEF SegInv, logicID
  <1> QED
    BY <1>2, <1>3, <1>4 DEF SegInv, logicID, seg, extent2Segment

LEMMA SegNew ==
  ASSUME ChainInv, at \notin {"idle", "last"}, segLast' = [segLast EXCEPT ![seg(cur)] = cur],
         pages' = pages, Forward' = Forward,
         \A e \in Forward : node'[e].logicID = node[e].logicID
  PROVE  SegInv'
  <1>1. SegInv /\ segLast \in [Seg -> ExtOrNone]
    BY DEF ChainInv, ChainTypeOK
  <1>2. cur \in pages /\ cur \in Ext /\ cur # Invalid /\ cur \notin Forward
    BY Known DEF ChainInv, WriterInv
  <1>3. seg(cur) \in Seg /\ \A e \in Forward : seg(e) \in Seg
    BY <1>2, SegIs, Known
  <1>4. segLast'[seg(cur)] = cur /\ \A s \in Seg \ {seg(cur)} : segLast'[s] = segLast[s]
    BY <1>1, <1>3
  <1>5. \A s \in Seg : segLast'[s] # Invalid => segLast'[s] \in pages /\ seg(segLast'[s]) = s
    BY <1>1, <1>2, <1>4 DEF SegInv
  <1>6. \A e \in Forward : segLast'[seg(e)] # Invalid
    BY <1>1, <1>2, <1>3, <1>4 DEF SegInv
  <1>7. \A s \in Seg : segLast'[s] \in Forward =>
          \A f \in Forward : seg(f) = s => node'[f].logicID <= node'[segLast'[s]].logicID
    <2> SUFFICES ASSUME NEW s \in Seg, segLast'[s] \in Forward, NEW f \in Forward, seg(f) = s
                 PROVE  node'[f].logicID <= node'[segLast'[s]].logicID
      OBVIOUS
    <2>1. segLast'[s] = segLast[s]
      BY <1>2, <1>4
    <2>2. node[f].logicID <= node[segLast[s]].logicID
      BY <1>1, <2>1 DEF SegInv, logicID
    <2> QED
      BY <2>1, <2>2
  <1> QED
    BY <1>5, <1>6, <1>7 DEF SegInv, logicID, seg, extent2Segment

(* The count, when neither it nor the segments with extents change. *)
LEMMA TallySame ==
  ASSUME ChainInv, usedSegNum' = usedSegNum, segsUsed' = segsUsed, at # "used", at' # "used",
         deaths' = deaths
  PROVE  TallyInv'
  BY DEF ChainInv, TallyInv, uncounted

(* The ends of the segments but the new extent's. *)
LEMMA EndsSame ==
  ASSUME ChainInv, deaths = 0, at # "idle", at' # "idle", cur' = cur, added' = added,
         \A e \in Forward : node'[e].logicID = node[e].logicID,
         \A s \in Seg \ {seg(cur)} : segFirst'[s] = segFirst[s] /\ segLast'[s] = segLast[s],
         \A s \in Seg : s = seg(cur) => CurEnds(s)'
  PROVE  SegEnds'
  <1> SUFFICES ASSUME NEW s \in Seg, s # seg(cur) PROVE Ends(in(s), segFirst[s], segLast[s])'
    BY DEF SegEnds, seg, extent2Segment
  <1>1. Ends(in(s), segFirst[s], segLast[s])
    BY DEF ChainInv, ExactInv, SegEnds
  <1>2. in(s)' = in(s) /\ \A e \in in(s) : node'[e].logicID = node[e].logicID
    BY DEF ChainInv, in, extent2Segment
  <1> QED
    BY <1>1, <1>2 DEF Ends, Least, Greatest, logicID

(* The whole chain, when a store changes no header but the new extent's. *)
LEMMA ExactQuiet ==
  ASSUME ChainInv, at \notin {"idle", "forward", "last"}, at' \notin {"idle", "forward", "last"},
         first' = first, last' = last, Forward' = Forward,
         cur' = cur, added' = added, deaths' = deaths,
         \A e \in Ext \ {cur} : /\ node'[e].next = node[e].next /\ node'[e].prev = node[e].prev
                                /\ node'[e].logicID = node[e].logicID,
         \A s \in Seg \ {seg(cur)} : segFirst'[s] = segFirst[s] /\ segLast'[s] = segLast[s],
         deaths = 0 => /\ pv' \in added \cup {Invalid}
                       /\ \A s \in Seg : s = seg(cur) => CurEnds(s)'
                       /\ at' \in FirstPath \cup {"append", "appendPrev"} => node'[cur].prev = Invalid
                       /\ at' \in {"appendLogicID", "last"} \cup Linking => node'[cur].prev = pv'
  PROVE  ExactInv'
  <1> SUFFICES ASSUME deaths = 0
               PROVE  /\ Forward' = added /\ cur \notin added /\ pv' \in added \cup {Invalid}
                      /\ SegEnds' /\ LastInv' /\ BackInv'
    BY DEF ExactInv
  <1>1. Forward = added /\ cur \notin added /\ LastInv /\ BackInv
    BY DEF ChainInv, ExactInv
  <1>2. added \subseteq Ext /\ \A e \in added : e \in Ext \ {cur}
    BY <1>1, Known
  <1>3. SegEnds'
    BY <1>1, <1>2, EndsSame
  <1>4. LastInv'
    BY <1>1, <1>2 DEF LastInv, Greatest, logicID
  <1>5. \A e \in added : Back(e, added)'
    <2> TAKE e \in added
    <2>1. Back(e, added)
      BY <1>1 DEF BackInv
    <2>2. node'[e].prev = node[e].prev
      BY <1>2
    <2>3. node[e].prev \in added => node'[node[e].prev].next = node[node[e].prev].next
      BY <1>2
    <2> QED
      BY <2>1, <2>2, <2>3 DEF Back, nx
  <1>6. BackInv'
    BY <1>5 DEF BackInv, Back, nx
  <1> QED
    BY <1>1, <1>3, <1>4, <1>6

-----------------------------------------------------------------------------
(* The first extent of a segment *)

(* What is known at the points of the first path. *)
LEMMA OnFirstPath ==
  ASSUME ChainInv, at \in FirstPath
  PROVE  /\ pv = Invalid /\ nx(cur) = Invalid /\ seg(cur) \in Seg /\ seg(cur) \in Nat
         /\ \A f \in Forward : seg(f) # seg(cur)
         /\ at # "logicID" => logicID(cur) = seg(cur) * Factor
         /\ at \notin {"idle", "forward", "last"} /\ cur \in pages /\ cur \in Ext
         /\ deaths = 0 => node[cur].prev = Invalid /\ CurEnds(seg(cur))
  <1>1. at # "idle"
    BY DEF FirstPath
  <1>2. cur \in Ext /\ cur \in pages /\ seg(cur) \in Seg /\ seg(cur) \in Nat
    BY <1>1, SegIs, Known
  <1>3. deaths = 0 => node[cur].prev = Invalid /\ CurEnds(seg(cur))
    BY <1>1, <1>2 DEF ChainInv, ExactInv, BackInv, SegEnds
  <1> QED
    BY <1>2, <1>3 DEF ChainInv, WriterInv, FirstPath

LEMMA NewLogicIDStep == ASSUME ChainInv, newLogicID PROVE ChainInv'
  <1>1. /\ at = "logicID" /\ at' = "segFirst" /\ Put(cur, "logicID", seg(cur) * Factor)
        /\ UNCHANGED <<first, last, segFirst, segLast, usedSegNum, pv, writerRest>>
    BY DEF newLogicID, Goto, seg
  <1>2. at \in FirstPath
    BY <1>1 DEF FirstPath
  <1>3. seg(cur) * Factor \in Nat
    BY <1>2, OnFirstPath, Known
  <1>4. /\ node' \in [Ext -> Header] /\ node'[cur].logicID = seg(cur) * Factor
        /\ \A x \in Ext : /\ x # cur => node'[x].logicID = node[x].logicID
                          /\ node'[x].prev = node[x].prev /\ node'[x].next = node[x].next
    BY <1>1, <1>2, <1>3, OnFirstPath, Known, PutLogicID
  <1>5. /\ Forward' = Forward /\ OrderInv' /\ ScanInv' /\ (added \subseteq Forward)'
        /\ cur \in pages /\ cur \in Ext /\ cur # Invalid /\ cur \notin Forward
        /\ \A e \in Forward : /\ node'[e].next = node[e].next
                              /\ node'[e].logicID = node[e].logicID
        /\ pages' = pages /\ cur' = cur /\ scan' = scan /\ added' = added /\ deaths' = deaths
    BY <1>1, <1>4, QuietStore
  <1>6. ChainTypeOK'
    BY <1>1, <1>4, <1>5 DEF ChainInv, ChainTypeOK, Header
  <1>7. SegInv'
    BY <1>1, <1>5, SegSame
  <1>8. WriterInv'
    <2>1. /\ pv = Invalid /\ nx(cur) = Invalid /\ \A f \in Forward : seg(f) # seg(cur)
          /\ segLast[seg(cur)] = Invalid
      BY <1>1, <1>2, OnFirstPath DEF ChainInv, WriterInv
    <2> QED
      BY <1>1, <1>4, <1>5, <2>1
         DEF WriterInv, FirstPath, AppendPath, Linking, nx, logicID, seg, extent2Segment
  <1>9. TallyInv'
    BY <1>1, <1>5, TallySame DEF segsUsed
  <1>10. ExactInv'
    <2>1. deaths = 0 => /\ pv' \in added \cup {Invalid}
                        /\ \A s \in Seg : s = seg(cur) => CurEnds(s)'
                        /\ node'[cur].prev = Invalid
      BY <1>1, <1>2, <1>4, <1>5, OnFirstPath
         DEF CurEnds, AppendPath, Linking, in
    <2> QED
      BY <1>1, <1>4, <1>5, <2>1, ExactQuiet DEF FirstPath, Linking
  <1> QED
    BY <1>5, <1>6, <1>7, <1>8, <1>9, <1>10 DEF ChainInv

LEMMA SetFirstStep == ASSUME ChainInv, setFirstExtentID PROVE ChainInv'
  <1>1. /\ at = "segFirst" /\ at' = "segLast" /\ segFirst' = [segFirst EXCEPT ![seg(cur)] = cur]
        /\ UNCHANGED <<first, last, segLast, usedSegNum, node, pv, writerRest>>
    BY DEF setFirstExtentID, Goto, seg
  <1>2. at \in FirstPath
    BY <1>1 DEF FirstPath
  <1>3. /\ Forward' = Forward /\ OrderInv' /\ ScanInv' /\ (added \subseteq Forward)'
        /\ cur \in pages /\ cur \in Ext /\ cur # Invalid /\ cur \notin Forward
        /\ pages' = pages /\ cur' = cur /\ scan' = scan /\ added' = added /\ deaths' = deaths
    BY <1>1, QuietStore, Known
  <1>4. segFirst \in [Seg -> ExtOrNone] /\ seg(cur) \in Seg
    BY <1>3, SegIs DEF ChainInv, ChainTypeOK
  <1>5. /\ segFirst' \in [Seg -> ExtOrNone] /\ segFirst'[seg(cur)] = cur
        /\ \A s \in Seg \ {seg(cur)} : segFirst'[s] = segFirst[s]
    BY <1>1, <1>3, <1>4 DEF ExtOrNone
  <1>6. ChainTypeOK'
    BY <1>1, <1>3, <1>5 DEF ChainInv, ChainTypeOK
  <1>7. SegInv'
    BY <1>1, <1>3, SegSame
  <1>8. WriterInv'
    <2>1. /\ pv = Invalid /\ nx(cur) = Invalid /\ \A f \in Forward : seg(f) # seg(cur)
          /\ segLast[seg(cur)] = Invalid /\ logicID(cur) = seg(cur) * Factor
      BY <1>1, <1>2, OnFirstPath DEF ChainInv, WriterInv
    <2> QED
      BY <1>1, <1>3, <2>1
         DEF WriterInv, FirstPath, AppendPath, Linking, nx, logicID, seg, extent2Segment
  <1>9. TallyInv'
    BY <1>1, <1>3, TallySame DEF segsUsed
  <1>10. ExactInv'
    <2>1. deaths = 0 => /\ pv' \in added \cup {Invalid}
                        /\ \A s \in Seg : s = seg(cur) => CurEnds(s)'
                        /\ node'[cur].prev = Invalid
      BY <1>1, <1>2, <1>3, <1>5, OnFirstPath DEF CurEnds, AppendPath, Linking, in
    <2> QED
      BY <1>1, <1>3, <1>5, <2>1, ExactQuiet DEF FirstPath, Linking
  <1> QED
    BY <1>3, <1>6, <1>7, <1>8, <1>9, <1>10 DEF ChainInv

(* There are no more segments with extents than segments. *)
LEMMA SegsFinite ==
  IsFiniteSet(segsUsed) /\ Cardinality(segsUsed) \in Nat /\ Cardinality(segsUsed) <= SegNum
  <1>1. SegNum \in Nat /\ SegNum > 0
    BY ChainAssumption
  <1>2. IsFiniteSet(Seg) /\ Cardinality(Seg) = SegNum
    <2>1. 0 \in Int /\ SegNum - 1 \in Int /\ ~(0 > SegNum - 1) /\ (SegNum - 1) - 0 + 1 = SegNum
      BY <1>1
    <2> QED
      BY <2>1, FS_Interval DEF Seg
  <1>3. segsUsed \subseteq Seg
    BY DEF segsUsed
  <1> QED
    BY <1>2, <1>3, FS_Subset, FS_CardinalityType

LEMMA SetLastStep == ASSUME ChainInv, setLastExtentID PROVE ChainInv'
  <1>1. /\ at = "segLast" /\ at' = "used" /\ segLast' = [segLast EXCEPT ![seg(cur)] = cur]
        /\ UNCHANGED <<first, last, segFirst, usedSegNum, node, pv, writerRest>>
    BY DEF setLastExtentID, Goto, seg
  <1>2. at \in FirstPath
    BY <1>1 DEF FirstPath
  <1>3. /\ Forward' = Forward /\ OrderInv' /\ ScanInv' /\ (added \subseteq Forward)'
        /\ cur \in pages /\ cur \in Ext /\ cur # Invalid /\ cur \notin Forward
        /\ pages' = pages /\ cur' = cur /\ scan' = scan /\ added' = added /\ deaths' = deaths
    BY <1>1, QuietStore, Known
  <1>4. segLast \in [Seg -> ExtOrNone] /\ seg(cur) \in Seg
    BY <1>3, SegIs DEF ChainInv, ChainTypeOK
  <1>5. /\ segLast' \in [Seg -> ExtOrNone] /\ segLast'[seg(cur)] = cur
        /\ \A s \in Seg \ {seg(cur)} : segLast'[s] = segLast[s]
    BY <1>1, <1>3, <1>4 DEF ExtOrNone
  <1>6. ChainTypeOK'
    BY <1>1, <1>3, <1>5 DEF ChainInv, ChainTypeOK
  <1>7. SegInv'
    BY <1>1, <1>3, SegNew
  <1>8. WriterInv'
    <2>1. /\ pv = Invalid /\ nx(cur) = Invalid /\ \A f \in Forward : seg(f) # seg(cur)
          /\ logicID(cur) = seg(cur) * Factor
      BY <1>1, <1>2, OnFirstPath DEF ChainInv, WriterInv
    <2> QED
      BY <1>1, <1>3, <1>5, <2>1
         DEF WriterInv, FirstPath, AppendPath, Linking, nx, logicID, seg, extent2Segment
  <1>9. TallyInv'
    <2>1. segLast[seg(cur)] = Invalid
      BY <1>1 DEF ChainInv, WriterInv
    <2>2. segsUsed' = segsUsed \cup {seg(cur)} /\ seg(cur) \notin segsUsed
      BY <1>3, <1>4, <1>5, <2>1 DEF segsUsed
    <2>3. Cardinality(segsUsed)' = Cardinality(segsUsed) + 1 /\ Cardinality(segsUsed) \in Nat
      BY <2>2, SegsFinite, FS_AddElement
    <2>4. usedSegNum \in Nat /\ uncounted = 0 /\ uncounted' = 1 /\ usedSegNum' = usedSegNum
      BY <1>1, Known DEF ChainInv, ChainTypeOK, uncounted
    <2>5. TallyInv
      BY DEF ChainInv
    <2> QED
      BY <1>3, <2>3, <2>4, <2>5 DEF TallyInv
  <1>10. ExactInv'
    <2>1. deaths = 0 => /\ pv' \in added \cup {Invalid}
                        /\ \A s \in Seg : s = seg(cur) => CurEnds(s)'
                        /\ node'[cur].prev = Invalid
      BY <1>1, <1>2, <1>3, OnFirstPath DEF CurEnds, AppendPath, Linking, in
    <2> QED
      BY <1>1, <1>3, <1>5, <2>1, ExactQuiet DEF FirstPath, Linking
  <1> QED
    BY <1>3, <1>6, <1>7, <1>8, <1>9, <1>10 DEF ChainInv

LEMMA CountStep == ASSUME ChainInv, countSegment PROVE ChainInv'
  <1>1. /\ at = "used" /\ at' = "find" /\ usedSegNum' = usedSegNum + 1
        /\ UNCHANGED <<first, last, segFirst, segLast, node, pv, writerRest>>
    BY DEF countSegment, Goto
  <1>2. at \in FirstPath
    BY <1>1 DEF FirstPath
  <1>3. /\ Forward' = Forward /\ OrderInv' /\ ScanInv' /\ (added \subseteq Forward)'
        /\ cur \in pages /\ cur \in Ext /\ cur # Invalid /\ cur \notin Forward
        /\ pages' = pages /\ cur' = cur /\ scan' = scan /\ added' = added /\ deaths' = deaths
    BY <1>1, QuietStore, Known
  <1>4. TallyInv' /\ usedSegNum' \in 0 .. SegNum
    <2>1. usedSegNum \in Nat /\ uncounted = 1 /\ uncounted' = 0 /\ SegNum \in Nat
      BY <1>1, Known DEF ChainInv, ChainTypeOK, uncounted
    <2>2. TallyInv
      BY DEF ChainInv
    <2>3. segsUsed' = segsUsed
      BY <1>1 DEF segsUsed
    <2> QED
      BY <1>1, <1>3, <2>1, <2>2, <2>3, SegsFinite DEF TallyInv
  <1>5. ChainTypeOK'
    BY <1>1, <1>3, <1>4 DEF ChainInv, ChainTypeOK
  <1>6. SegInv'
    BY <1>1, <1>3, SegSame
  <1>7. WriterInv'
    <2>1. /\ pv = Invalid /\ nx(cur) = Invalid /\ \A f \in Forward : seg(f) # seg(cur)
          /\ logicID(cur) = seg(cur) * Factor /\ segLast[seg(cur)] = cur
      BY <1>1, <1>2, OnFirstPath DEF ChainInv, WriterInv
    <2> QED
      BY <1>1, <1>3, <2>1
         DEF WriterInv, FirstPath, AppendPath, Linking, nx, logicID, seg, extent2Segment
  <1>8. ExactInv'
    <2>1. deaths = 0 => /\ pv' \in added \cup {Invalid}
                        /\ \A s \in Seg : s = seg(cur) => CurEnds(s)'
                        /\ node'[cur].prev = Invalid
      BY <1>1, <1>2, <1>3, OnFirstPath DEF CurEnds, AppendPath, Linking, in
    <2> QED
      BY <1>1, <1>3, <2>1, ExactQuiet DEF FirstPath, Linking
  <1> QED
    BY <1>3, <1>4, <1>5, <1>6, <1>7, <1>8 DEF ChainInv

(* Nothing is reached from an invalid first extent. *)
LEMMA NoWalk == ASSUME ChainInv, first = Invalid PROVE Forward = {}
  <1>1. Closed({}, first, node) /\ {} \in SUBSET pages
    BY DEF Closed
  <1>2. Closed(pages, first, node)
    BY ForwardIs, Known
  <1>3. Reach(pages, first, node) \subseteq {}
    BY <1>1, <1>2, Walk
  <1> QED
    BY <1>3, ForwardIs

(* Extents of different segments are ordered as the segments are. *)
LEMMA RangeOrder ==
  ASSUME ChainInv, NEW e \in pages, NEW f \in pages, InRange(e), InRange(f), seg(e) < seg(f)
  PROVE  logicID(e) < logicID(f)
  <1>1. /\ seg(e) \in Nat /\ seg(f) \in Nat /\ logicID(e) \in Int /\ logicID(f) \in Int
        /\ Factor \in Nat /\ room(e) \in Nat /\ room(e) <= Factor
    BY Known, SegIs, Rooms
  <1>2. seg(e) * Factor + Factor <= seg(f) * Factor /\ seg(e) * Factor \in Nat /\ seg(f) * Factor \in Nat
    BY <1>1, Ranges
  <1> QED
    BY <1>1, <1>2 DEF InRange

LEMMA FindStep == ASSUME ChainInv, findPrev PROVE ChainInv'
  <1>1. /\ at = "find" /\ at' = "link"
        /\ UNCHANGED <<first, last, segFirst, segLast, usedSegNum, writerRest>>
    BY DEF findPrev, Goto
  <1>2. at \in FirstPath
    BY <1>1 DEF FirstPath
  <1>3. /\ pv = Invalid /\ nx(cur) = Invalid /\ seg(cur) \in Seg /\ seg(cur) \in Nat
        /\ \A f \in Forward : seg(f) # seg(cur)
        /\ logicID(cur) = seg(cur) * Factor /\ cur \in pages /\ cur \in Ext
        /\ segLast[seg(cur)] = cur
    BY <1>1, <1>2, OnFirstPath DEF ChainInv, WriterInv
  <1>4. /\ pv' # Invalid =>
             \E s \in Seg : /\ s < seg(cur) /\ segLast[s] # Invalid /\ pv' = segLast[s]
                            /\ \A t \in Seg : t < seg(cur) /\ segLast[t] # Invalid => t <= s
        /\ pv' = Invalid => first = Invalid \/ \A t \in Seg : t < seg(cur) => segLast[t] = Invalid
        /\ (Put(cur, "prev", pv') \/ (node' = node /\ pv' = pv))
    <2>1. below(cur) = {s \in Seg : s < seg(cur) /\ segLast[s] # Invalid}
      BY DEF below, seg
    <2>2. CASE first # Invalid /\ below(cur) # {}
      <3>1. PICK s \in below(cur) : /\ \A t \in below(cur) : t <= s
                                    /\ pv' = segLast[s] /\ Put(cur, "prev", segLast[s])
        BY <2>2 DEF findPrev
      <3> QED
        BY <2>1, <3>1
    <2>3. CASE ~(first # Invalid /\ below(cur) # {})
      BY <1>3, <2>1, <2>3 DEF findPrev
    <2> QED
      BY <2>2, <2>3
  <1>5. SegInv /\ segLast \in [Seg -> ExtOrNone]
    BY DEF ChainInv, ChainTypeOK
  <1>6. pv' \in ExtOrNone /\ (pv' # Invalid => pv' \in pages /\ pv' # cur)
    <2>1. CASE pv' = Invalid
      BY <2>1 DEF ExtOrNone
    <2>2. CASE pv' # Invalid
      BY <1>3, <1>4, <1>5, <2>2 DEF SegInv, Seg
    <2> QED
      BY <2>1, <2>2
  <1>7. /\ node' \in [Ext -> Header] /\ (deaths = 0 => node'[cur].prev = pv')
        /\ \A x \in Ext : /\ x # cur => node'[x].prev = node[x].prev
                          /\ node'[x].next = node[x].next /\ node'[x].logicID = node[x].logicID
    <2>1. CASE Put(cur, "prev", pv')
      BY <1>3, <1>6, <2>1, Known, PutPrev
    <2>2. CASE node' = node /\ pv' = pv
      <3>1. deaths = 0 => node[cur].prev = Invalid
        BY <1>2, OnFirstPath
      <3> QED
        BY <1>3, <2>2, <3>1, Known
    <2> QED
      BY <1>4, <2>1, <2>2
  <1>8. /\ Forward' = Forward /\ OrderInv' /\ ScanInv' /\ (added \subseteq Forward)'
        /\ cur \in pages /\ cur \in Ext /\ cur # Invalid /\ cur \notin Forward
        /\ \A e \in Forward : /\ node'[e].next = node[e].next
                              /\ node'[e].logicID = node[e].logicID
        /\ \A e \in pages : room(e)' = room(e)
        /\ pages' = pages /\ cur' = cur /\ scan' = scan /\ added' = added /\ deaths' = deaths
    BY <1>1, <1>7, QuietStore
  <1>9. ChainTypeOK'
    BY <1>1, <1>6, <1>7, <1>8 DEF ChainInv, ChainTypeOK, Header
  <1>10. SegInv'
    BY <1>1, <1>8, SegSame
  <1>11. \A e \in Forward : InRange(e) /\ e \in pages /\ seg(e) \in Seg /\ seg(e) \in Nat /\ logicID(e) \in Int
    BY Known, SegIs DEF ChainInv, OrderInv
  <1>12. InRange(cur)
    <2>1. cur \in taken(seg(cur)) \ ({cur} \ {cur})
      BY <1>3 DEF taken
    <2>2. taken(seg(cur)) \ ({cur} \ {cur}) \subseteq {e \in Ext : seg(e) = seg(cur)}
      BY Known DEF taken
    <2>3. IsFiniteSet(taken(seg(cur)) \ ({cur} \ {cur}))
      BY <1>3, <2>2, SegSize
    <2>4. room(cur) # 0
      BY <2>1, <2>3, FS_EmptySet DEF room
    <2>5. room(cur) \in Nat /\ seg(cur) * Factor \in Nat
      BY <1>3, Rooms, Known
    <2> QED
      BY <1>3, <2>4, <2>5 DEF InRange
  <1>13. \A f \in Forward : /\ seg(f) < seg(cur) => logicID(f) < logicID(cur)
                            /\ seg(cur) < seg(f) => logicID(cur) < logicID(f)
    BY <1>3, <1>11, <1>12, RangeOrder
  <1>14. pv' \in Forward \cup {Invalid} => Placed'
    <2> SUFFICES ASSUME pv' \in Forward \cup {Invalid} PROVE Placed'
      OBVIOUS
    <2>1. InRange(cur)'
      BY <1>3, <1>7, <1>8, <1>12 DEF InRange, logicID, seg, extent2Segment
    <2>2. ASSUME pv' = Invalid PROVE \A f \in Forward : logicID(cur) < logicID(f)
      <3>1. CASE first = Invalid
        BY <3>1, NoWalk
      <3>2. CASE \A t \in Seg : t < seg(cur) => segLast[t] = Invalid
        <4> TAKE f \in Forward
        <4>1. ~(seg(f) < seg(cur)) /\ seg(f) # seg(cur)
          BY <1>3, <1>5, <1>11, <3>2 DEF SegInv
        <4> QED
          BY <1>3, <1>11, <1>13, <4>1
      <3> QED
        BY <1>4, <2>2, <3>1, <3>2
    <2>3. ASSUME pv' # Invalid
          PROVE  /\ logicID(pv') < logicID(cur)
                 /\ \A f \in Forward : logicID(f) <= logicID(pv') \/ logicID(cur) < logicID(f)
      <3>1. PICK s \in Seg : /\ s < seg(cur) /\ segLast[s] # Invalid /\ pv' = segLast[s]
                             /\ \A t \in Seg : t < seg(cur) /\ segLast[t] # Invalid => t <= s
        BY <1>4, <2>3
      <3> DEFINE v == segLast[s]
      <3>2. v \in Forward /\ seg(v) = s /\ v \in pages /\ pv' = v
        BY <1>5, <2>3, <3>1 DEF SegInv
      <3>3. \A f \in Forward : seg(f) = s => logicID(f) <= logicID(v)
        BY <1>5, <3>2 DEF SegInv
      <3> HIDE DEF v
      <3>4. logicID(v) < logicID(cur)
        BY <1>13, <3>1, <3>2
      <3>5. \A f \in Forward : logicID(f) <= logicID(v) \/ logicID(cur) < logicID(f)
        <4> TAKE f \in Forward
        <4>1. CASE seg(cur) < seg(f)
          BY <1>13, <4>1
        <4>2. CASE seg(f) < seg(cur)
          <5>1. seg(f) <= s
            BY <1>5, <1>11, <3>1, <4>2 DEF SegInv
          <5>2. CASE seg(f) = s
            BY <3>3, <5>2
          <5>3. CASE seg(f) < s
            <6>1. logicID(f) < logicID(v)
              BY <1>11, <3>2, <5>3, RangeOrder
            <6> QED
              BY <1>11, <3>2, <6>1
          <5> QED
            BY <1>11, <5>1, <5>2, <5>3 DEF Seg
        <4> QED
          BY <1>3, <1>11, <4>1, <4>2
      <3> QED
        BY <3>2, <3>4, <3>5
    <2>4. \A f \in Forward : seg(f) = seg(cur) => logicID(f) < logicID(cur)
      BY <1>3
    <2>5. logicID(cur)' = logicID(cur) /\ \A f \in Forward : node'[f].logicID = node[f].logicID
      BY <1>7, <1>8 DEF logicID
    <2> QED
      BY <1>8, <2>1, <2>2, <2>3, <2>4, <2>5 DEF Placed, logicID, seg, extent2Segment
  <1>15. WriterInv'
    BY <1>1, <1>3, <1>6, <1>7, <1>8, <1>14
       DEF WriterInv, FirstPath, AppendPath, Linking, nx, logicID, seg, extent2Segment
  <1>16. TallyInv'
    BY <1>1, <1>8, TallySame DEF segsUsed
  <1>17. ExactInv'
    <2>1. ASSUME deaths = 0 PROVE pv' \in added \cup {Invalid}
      <3> SUFFICES ASSUME pv' # Invalid PROVE pv' \in added
        OBVIOUS
      <3>1. PICK s \in Seg : s < seg(cur) /\ segLast[s] # Invalid /\ pv' = segLast[s]
        BY <1>4
      <3>2. Ends(in(s), segFirst[s], segLast[s])
        BY <1>1, <1>3, <2>1, <3>1 DEF ChainInv, ExactInv, SegEnds
      <3> QED
        BY <3>1, <3>2 DEF Ends, Greatest, in
    <2>2. ASSUME deaths = 0, NEW s \in Seg, s = seg(cur) PROVE CurEnds(s)'
      <3>1. in(s) = {} /\ segFirst[s] = cur
        BY <1>1, <1>2, <2>2, OnFirstPath DEF CurEnds
      <3>2. in(s)' = {}
        BY <1>1, <1>8, <3>1 DEF in
      <3>3. Ends({cur}, cur, cur)'
        BY <1>3, <1>7, <1>8, Known DEF Ends, Least, Greatest, logicID
      <3> QED
        BY <1>1, <1>8, <3>1, <3>2, <3>3 DEF CurEnds, AppendPath
    <2> QED
      BY <1>1, <1>7, <1>8, <2>1, <2>2, ExactQuiet DEF FirstPath
  <1> QED
    BY <1>8, <1>9, <1>10, <1>15, <1>16, <1>17 DEF ChainInv

-----------------------------------------------------------------------------
(* A further extent of a segment *)

LEMMA OnAppendPath ==
  ASSUME ChainInv, at \in AppendPath
  PROVE  /\ pv # Invalid /\ pv \in pages /\ pv \in Ext /\ pv # cur /\ seg(pv) = seg(cur)
         /\ seg(cur) \in Seg /\ seg(cur) \in Nat /\ nx(cur) = Invalid
         /\ pv \in Forward => \A f \in Forward : seg(f) = seg(cur) => logicID(f) <= logicID(pv)
         /\ at \notin {"idle", "forward", "last"} /\ cur \in pages /\ cur \in Ext
         /\ deaths = 0 => pv \in added /\ CurEnds(seg(cur))
  <1>1. at # "idle"
    BY DEF AppendPath
  <1>2. cur \in Ext /\ cur \in pages /\ seg(cur) \in Seg /\ seg(cur) \in Nat
    BY <1>1, SegIs, Known
  <1>3. pv # Invalid /\ pv \in pages /\ pv # cur /\ seg(pv) = seg(cur)
    BY DEF ChainInv, WriterInv
  <1>4. deaths = 0 => pv \in added /\ CurEnds(seg(cur))
    BY <1>1, <1>2, <1>3 DEF ChainInv, ExactInv, SegEnds
  <1> QED
    BY <1>2, <1>3, <1>4, Known DEF ChainInv, WriterInv, AppendPath

LEMMA AppendLastStep == ASSUME ChainInv, appendLast PROVE ChainInv'
  <1>1. /\ at = "append" /\ at' = "appendPrev" /\ segLast' = [segLast EXCEPT ![seg(cur)] = cur]
        /\ UNCHANGED <<first, last, segFirst, usedSegNum, node, pv, writerRest>>
    BY DEF appendLast, Goto, seg
  <1>2. at \in AppendPath
    BY <1>1 DEF AppendPath
  <1>3. /\ Forward' = Forward /\ OrderInv' /\ ScanInv' /\ (added \subseteq Forward)'
        /\ cur \in pages /\ cur \in Ext /\ cur # Invalid /\ cur \notin Forward
        /\ pages' = pages /\ cur' = cur /\ scan' = scan /\ added' = added /\ deaths' = deaths
    BY <1>1, QuietStore, Known
  <1>4. segLast \in [Seg -> ExtOrNone] /\ seg(cur) \in Seg
    BY <1>3, SegIs DEF ChainInv, ChainTypeOK
  <1>5. /\ segLast' \in [Seg -> ExtOrNone] /\ segLast'[seg(cur)] = cur
        /\ \A s \in Seg \ {seg(cur)} : segLast'[s] = segLast[s]
    BY <1>1, <1>3, <1>4 DEF ExtOrNone
  <1>6. ChainTypeOK'
    BY <1>1, <1>3, <1>5 DEF ChainInv, ChainTypeOK
  <1>7. SegInv'
    BY <1>1, <1>3, SegNew
  <1>8. WriterInv'
    <2>1. /\ pv # Invalid /\ pv \in pages /\ pv # cur /\ seg(pv) = seg(cur) /\ nx(cur) = Invalid
          /\ pv \in Forward => \A f \in Forward : seg(f) = seg(cur) => logicID(f) <= logicID(pv)
      BY <1>2, OnAppendPath
    <2> QED
      BY <1>1, <1>3, <1>5, <2>1
         DEF WriterInv, FirstPath, AppendPath, Linking, nx, logicID, seg, extent2Segment
  <1>9. TallyInv'
    <2>1. segLast[seg(cur)] # Invalid
      BY <1>1, <1>2, OnAppendPath DEF ChainInv, WriterInv
    <2>2. segsUsed' = segsUsed
      BY <1>3, <1>4, <1>5, <2>1 DEF segsUsed
    <2> QED
      BY <1>1, <1>3, <2>2, TallySame
  <1>10. ExactInv'
    <2>1. deaths = 0 => /\ pv' \in added \cup {Invalid}
                        /\ \A s \in Seg : s = seg(cur) => CurEnds(s)'
      BY <1>1, <1>2, <1>3, OnAppendPath
         DEF CurEnds, AppendPath, Linking, in, Ends, Least, Greatest, logicID
    <2>2. deaths = 0 => node[cur].prev = Invalid
      BY <1>1 DEF ChainInv, ExactInv, BackInv
    <2> QED
      BY <1>1, <1>3, <1>5, <2>1, <2>2, ExactQuiet DEF FirstPath, Linking
  <1> QED
    BY <1>3, <1>6, <1>7, <1>8, <1>9, <1>10 DEF ChainInv

LEMMA AppendPrevStep == ASSUME ChainInv, appendPrev PROVE ChainInv'
  <1>1. /\ at = "appendPrev" /\ at' = "appendLogicID" /\ Put(cur, "prev", pv)
        /\ UNCHANGED <<first, last, segFirst, segLast, usedSegNum, pv, writerRest>>
    BY DEF appendPrev, Goto
  <1>2. at \in AppendPath
    BY <1>1 DEF AppendPath
  <1>3. /\ node' \in [Ext -> Header] /\ node'[cur].prev = pv
        /\ \A x \in Ext : /\ x # cur => node'[x].prev = node[x].prev
                          /\ node'[x].next = node[x].next /\ node'[x].logicID = node[x].logicID
    <2>1. pv \in ExtOrNone
      BY DEF ChainInv, ChainTypeOK
    <2> QED
      BY <1>1, <1>2, <2>1, OnAppendPath, Known, PutPrev
  <1>4. /\ Forward' = Forward /\ OrderInv' /\ ScanInv' /\ (added \subseteq Forward)'
        /\ cur \in pages /\ cur \in Ext /\ cur # Invalid /\ cur \notin Forward
        /\ \A e \in Forward : /\ node'[e].next = node[e].next
                              /\ node'[e].logicID = node[e].logicID
        /\ pages' = pages /\ cur' = cur /\ scan' = scan /\ added' = added /\ deaths' = deaths
    BY <1>1, <1>3, QuietStore
  <1>5. ChainTypeOK'
    BY <1>1, <1>3, <1>4 DEF ChainInv, ChainTypeOK, Header
  <1>6. SegInv'
    BY <1>1, <1>4, SegSame
  <1>7. /\ pv # Invalid /\ pv \in pages /\ pv \in Ext /\ pv # cur /\ seg(pv) = seg(cur) /\ nx(cur) = Invalid
        /\ pv \in Forward => \A f \in Forward : seg(f) = seg(cur) => logicID(f) <= logicID(pv)
        /\ segLast[seg(cur)] = cur /\ seg(cur) \in Seg
    BY <1>1, <1>2, OnAppendPath DEF ChainInv, WriterInv
  <1>8. WriterInv'
    BY <1>1, <1>3, <1>4, <1>7
       DEF WriterInv, FirstPath, AppendPath, Linking, nx, logicID, seg, extent2Segment
  <1>9. TallyInv'
    BY <1>1, <1>4, TallySame DEF segsUsed
  <1>10. ExactInv'
    <2>1. ASSUME deaths = 0, NEW s \in Seg, s = seg(cur) PROVE CurEnds(s)'
      <3>1. in(s) # {} /\ Ends(in(s), segFirst[s], pv)
        BY <1>2, <2>1, OnAppendPath DEF CurEnds
      <3>2. in(s)' = in(s) /\ \A e \in in(s) : node'[e].logicID = node[e].logicID
        BY <1>4 DEF ChainInv, in, extent2Segment
      <3>3. Ends(in(s), segFirst[s], pv)'
        BY <1>1, <3>1, <3>2 DEF Ends, Least, Greatest, logicID
      <3> QED
        BY <1>1, <3>1, <3>2, <3>3 DEF CurEnds, Linking
    <2>2. deaths = 0 => pv' \in added \cup {Invalid}
      BY <1>1, <1>2, OnAppendPath
    <2> QED
      BY <1>1, <1>3, <1>4, <2>1, <2>2, ExactQuiet DEF FirstPath
  <1> QED
    BY <1>4, <1>5, <1>6, <1>8, <1>9, <1>10 DEF ChainInv

LEMMA AppendLogicIDStep == ASSUME ChainInv, appendLogicID PROVE ChainInv'
  <1>1. /\ at = "appendLogicID" /\ at' = "link" /\ Put(cur, "logicID", node[pv].logicID + 1)
        /\ UNCHANGED <<first, last, segFirst, segLast, usedSegNum, pv, writerRest>>
    BY DEF appendLogicID, Goto
  <1>2. at \in AppendPath
    BY <1>1 DEF AppendPath
  <1>3. /\ pv # Invalid /\ pv \in pages /\ pv \in Ext /\ pv # cur /\ seg(pv) = seg(cur) /\ nx(cur) = Invalid
        /\ pv \in Forward => \A f \in Forward : seg(f) = seg(cur) => logicID(f) <= logicID(pv)
        /\ segLast[seg(cur)] = cur /\ seg(cur) \in Seg /\ seg(cur) \in Nat /\ cur \in pages /\ cur \in Ext
    BY <1>1, <1>2, OnAppendPath DEF ChainInv, WriterInv
  <1>4. /\ node' \in [Ext -> Header] /\ node'[cur].logicID = node[pv].logicID + 1
        /\ \A x \in Ext : /\ x # cur => node'[x].logicID = node[x].logicID
                          /\ node'[x].prev = node[x].prev /\ node'[x].next = node[x].next
    <2>1. node[pv].logicID + 1 \in Nat
      BY <1>3, Known DEF Invalid
    <2> QED
      BY <1>1, <1>3, <2>1, Known, PutLogicID
  <1>5. /\ Forward' = Forward /\ OrderInv' /\ ScanInv' /\ (added \subseteq Forward)'
        /\ cur \in pages /\ cur \in Ext /\ cur # Invalid /\ cur \notin Forward
        /\ \A e \in Forward : /\ node'[e].next = node[e].next
                              /\ node'[e].logicID = node[e].logicID
        /\ \A e \in pages : room(e)' = room(e)
        /\ pages' = pages /\ cur' = cur /\ scan' = scan /\ added' = added /\ deaths' = deaths
    BY <1>1, <1>4, QuietStore
  <1>6. ChainTypeOK'
    BY <1>1, <1>4, <1>5 DEF ChainInv, ChainTypeOK, Header
  <1>7. SegInv'
    BY <1>1, <1>5, SegSame
  <1>8. ASSUME pv \in Forward PROVE Placed'
    <2>1. \A e \in Forward : InRange(e) /\ e \in pages /\ seg(e) \in Seg /\ seg(e) \in Nat /\ logicID(e) \in Int
      BY Known, SegIs DEF ChainInv, OrderInv
    <2> DEFINE l == logicID(pv) + 1
    <2>2. logicID(cur)' = l /\ \A f \in Forward : node'[f].logicID = node[f].logicID
      BY <1>4, <1>5 DEF logicID
    <2>3. logicID(pv) \in Int /\ l \in Int /\ logicID(pv) < l
      BY <1>8, <2>1
    <2>4. room(cur) = room(pv) + 1 /\ room(pv) \in Nat /\ room(cur) <= Factor /\ Factor \in Nat
      BY <1>1, <1>3, Rooms, Known
    <2>5. seg(cur) * Factor \in Nat
      BY <1>3, <2>4
    <2>6. seg(cur) * Factor <= l /\ l < seg(cur) * Factor + room(cur)
      BY <1>3, <1>8, <2>1, <2>3, <2>4, <2>5 DEF InRange
    <2>7. InRange(cur)'
      BY <1>5, <2>2, <2>6 DEF InRange, seg, extent2Segment
    <2>8. \A f \in Forward : seg(f) = seg(cur) => logicID(f) < l
      BY <1>3, <1>8, <2>1, <2>3
    <2>9. \A f \in Forward : logicID(f) <= logicID(pv) \/ l < logicID(f)
      <3> TAKE f \in Forward
      <3>1. CASE seg(f) = seg(cur)
        BY <1>3, <1>8, <3>1
      <3>2. CASE seg(f) < seg(cur)
        <4>1. logicID(f) < logicID(pv)
          BY <1>3, <1>8, <2>1, <3>2, RangeOrder
        <4> QED
          BY <2>1, <2>3, <4>1
      <3>3. CASE seg(cur) < seg(f)
        <4>1. seg(cur) * Factor + Factor <= seg(f) * Factor /\ seg(f) * Factor \in Nat
          BY <1>3, <2>1, <3>3, Ranges
        <4>2. seg(f) * Factor <= logicID(f)
          BY <2>1 DEF InRange
        <4> QED
          BY <2>1, <2>3, <2>4, <2>5, <2>6, <4>1, <4>2
      <3> QED
        BY <1>3, <2>1, <3>1, <3>2, <3>3
    <2>10. logicID(pv)' = logicID(pv)
      BY <1>1, <1>8, <2>2 DEF logicID
    <2> HIDE DEF l
    <2> QED
      BY <1>1, <1>3, <1>5, <2>2, <2>3, <2>7, <2>8, <2>9, <2>10 DEF Placed, logicID, seg, extent2Segment
  <1>9. WriterInv'
    BY <1>1, <1>3, <1>4, <1>5, <1>8
       DEF WriterInv, FirstPath, AppendPath, Linking, nx, logicID, seg, extent2Segment
  <1>10. TallyInv'
    BY <1>1, <1>5, TallySame DEF segsUsed
  <1>11. ExactInv'
    <2>1. ASSUME deaths = 0, NEW s \in Seg, s = seg(cur) PROVE CurEnds(s)'
      <3>1. in(s) # {} /\ Ends(in(s), segFirst[s], pv)
        BY <1>2, <2>1, OnAppendPath DEF CurEnds
      <3>2. /\ in(s)' = in(s) /\ in(s) \subseteq Forward
            /\ \A e \in in(s) : node'[e].logicID = node[e].logicID /\ node[e].logicID \in Int
        BY <1>5, Known DEF ChainInv, in, extent2Segment, logicID
      <3>3. Least(in(s), segFirst[s]) /\ Greatest(in(s), pv)
        BY <3>1 DEF Ends
      <3> DEFINE S == in(s)
                 lo == segFirst[s]
      <3>4. S' = S /\ lo' = lo /\ pv \in S /\ lo \in S
        BY <1>1, <3>2, <3>3 DEF Least, Greatest
      <3>5. /\ \A f \in S : node[lo].logicID <= node[f].logicID /\ node[f].logicID <= node[pv].logicID
            /\ \A e \in S : node'[e].logicID = node[e].logicID /\ node[e].logicID \in Int
        BY <3>2, <3>3 DEF Least, Greatest, logicID
      <3> HIDE DEF S, lo
      <3>6. \A f \in S \cup {cur} : node'[lo].logicID <= node'[f].logicID /\ node'[f].logicID <= node'[cur].logicID
        BY <1>4, <3>4, <3>5
      <3>7. Ends(S \cup {cur}, lo, cur)'
        BY <1>5, <3>4, <3>6 DEF Ends, Least, Greatest, logicID
      <3>8. Ends(in(s) \cup {cur}, segFirst[s], cur)'
        BY <3>7 DEF S, lo
      <3> QED
        BY <1>1, <3>8 DEF CurEnds, AppendPath
    <2>2. deaths = 0 => pv' \in added \cup {Invalid} /\ node'[cur].prev = pv'
      BY <1>1, <1>2, <1>4, <1>5, OnAppendPath DEF ChainInv, ExactInv, BackInv
    <2> QED
      BY <1>1, <1>4, <1>5, <2>1, <2>2, ExactQuiet DEF FirstPath
  <1> QED
    BY <1>5, <1>6, <1>7, <1>9, <1>10, <1>11 DEF ChainInv

-----------------------------------------------------------------------------
(* Linking *)

LEMMA OnLinking ==
  ASSUME ChainInv, at \in Linking
  PROVE  /\ cur \in pages /\ cur \in Ext /\ cur # Invalid /\ cur \notin Forward
         /\ seg(cur) \in Seg /\ segLast[seg(cur)] = cur
         /\ pv \in ExtOrNone /\ (pv # Invalid => pv \in pages /\ pv \in Ext /\ pv # cur)
         /\ (after # Invalid => after \in pages /\ after \in Ext)
         /\ (pv \in Forward \cup {Invalid} => Placed)
         /\ (pv \in Forward \cup {Invalid} /\ after # Invalid => after \in Forward)
         /\ deaths = 0 => /\ pv \in Forward \cup {Invalid} /\ Forward = added
                          /\ CurEnds(seg(cur)) /\ node[cur].prev = pv
  <1>1. at # "idle" /\ at # "last"
    BY DEF Linking
  <1>2. cur \in pages /\ cur \in Ext /\ cur # Invalid /\ cur \notin Forward /\ seg(cur) \in Seg
    BY <1>1, Known, SegIs DEF ChainInv, WriterInv
  <1>3. /\ pv \in ExtOrNone /\ (pv # Invalid => pv \in pages /\ pv \in Ext /\ pv # cur)
        /\ segLast[seg(cur)] = cur /\ (pv \in Forward \cup {Invalid} => Placed)
    BY <1>1, Known DEF ChainInv, ChainTypeOK, WriterInv, Linking
  <1>4. after # Invalid => after \in pages /\ after \in Ext
    BY <1>3, Known DEF after, Follows
  <1>5. pv \in Forward \cup {Invalid} /\ after # Invalid => after \in Forward
    BY <1>3, Known DEF after, nx
  <1>6. deaths = 0 => /\ pv \in Forward \cup {Invalid} /\ Forward = added
                      /\ CurEnds(seg(cur)) /\ node[cur].prev = pv
    <2> SUFFICES ASSUME deaths = 0
                 PROVE  /\ pv \in Forward \cup {Invalid} /\ Forward = added
                        /\ CurEnds(seg(cur)) /\ node[cur].prev = pv
      OBVIOUS
    <2>1. ExactInv /\ at # "last" /\ at # "idle"
      BY <1>1 DEF ChainInv
    <2>2. Forward = added /\ pv \in added \cup {Invalid} /\ SegEnds /\ BackInv
      BY <2>1 DEF ExactInv
    <2> QED
      BY <1>2, <2>1, <2>2 DEF SegEnds, BackInv
  <1> QED
    BY <1>2, <1>3, <1>4, <1>5, <1>6

(* The place of the new extent, when the walk and the logical IDs stay. *)
LEMMA PlacedSame ==
  ASSUME ChainInv, Placed, Forward' = Forward, cur' = cur, pv' = pv, pv \in Forward \cup {Invalid},
         \A e \in Forward \cup {cur} : node'[e].logicID = node[e].logicID, room(cur)' = room(cur)
  PROVE  Placed'
  <1>1. logicID(cur)' = logicID(cur) /\ InRange(cur)'
    BY DEF Placed, InRange, logicID, seg, extent2Segment
  <1>2. \A f \in Forward : seg(f) = seg(cur) => node'[f].logicID < node'[cur].logicID
    BY DEF Placed, logicID
  <1>3. pv = Invalid => \A f \in Forward : node'[cur].logicID < node'[f].logicID
    BY DEF Placed, logicID
  <1>4. pv # Invalid =>
       /\ node'[pv].logicID < node'[cur].logicID
       /\ \A f \in Forward : node'[f].logicID <= node'[pv].logicID \/ node'[cur].logicID < node'[f].logicID
    BY DEF Placed, logicID
  <1> QED
    BY <1>1, <1>2, <1>3, <1>4 DEF Placed, logicID, seg, extent2Segment

(* The ends of the new extent's segment stay as well. *)
LEMMA CurEndsSame ==
  ASSUME ChainInv, deaths = 0, at \in Linking, at' \in Linking \cup {"last"}, cur' = cur, added' = added,
         segFirst' = segFirst, NEW s \in Seg, s = seg(cur),
         \A e \in Forward \cup {cur} : node'[e].logicID = node[e].logicID
  PROVE  CurEnds(s)'
  <1>1. Ends(in(s) \cup {cur}, segFirst[s], cur)
    BY OnLinking DEF CurEnds
  <1>2. in(s)' = in(s) /\ \A e \in in(s) \cup {cur} : node'[e].logicID = node[e].logicID
    BY DEF ChainInv, in, extent2Segment
  <1>3. Ends(in(s) \cup {cur}, segFirst[s], cur)'
    BY <1>1, <1>2 DEF Ends, Least, Greatest, logicID
  <1> QED
    BY <1>3 DEF CurEnds, AppendPath, Linking

LEMMA LinkNextStep == ASSUME ChainInv, linkNext PROVE ChainInv'
  <1>1. /\ at = "link" /\ at' = "back" /\ after # Invalid /\ Put(cur, "next", after)
        /\ UNCHANGED <<first, last, segFirst, segLast, usedSegNum, pv, writerRest>>
    BY DEF linkNext, Goto
  <1>2. at \in Linking
    BY <1>1 DEF Linking
  <1>3. /\ node' \in [Ext -> Header] /\ node'[cur].next = after
        /\ \A x \in Ext : /\ x # cur => node'[x].next = node[x].next
                          /\ node'[x].prev = node[x].prev /\ node'[x].logicID = node[x].logicID
    <2>1. after \in ExtOrNone
      BY <1>1, <1>2, OnLinking DEF ExtOrNone
    <2> QED
      BY <1>1, <1>2, <2>1, OnLinking, Known, PutNext
  <1>4. /\ Forward' = Forward /\ OrderInv' /\ ScanInv' /\ (added \subseteq Forward)'
        /\ cur \in pages /\ cur \in Ext /\ cur # Invalid /\ cur \notin Forward
        /\ \A e \in Forward : /\ node'[e].next = node[e].next
                              /\ node'[e].logicID = node[e].logicID
        /\ \A e \in pages : room(e)' = room(e)
        /\ pages' = pages /\ cur' = cur /\ scan' = scan /\ added' = added /\ deaths' = deaths
    BY <1>1, <1>2, <1>3, OnLinking, QuietStore
  <1>5. ChainTypeOK'
    BY <1>1, <1>2, <1>3, <1>4, OnLinking DEF ChainInv, ChainTypeOK, Header
  <1>6. SegInv'
    BY <1>1, <1>4, SegSame
  <1>7. after' = after
    BY <1>1, <1>2, <1>3, <1>4, OnLinking DEF after
  <1>8. pv \in Forward \cup {Invalid} => Placed'
    BY <1>1, <1>2, <1>3, <1>4, OnLinking, PlacedSame
  <1>9. WriterInv'
    BY <1>1, <1>2, <1>3, <1>4, <1>7, <1>8, OnLinking
       DEF WriterInv, FirstPath, AppendPath, Linking, nx, seg, extent2Segment
  <1>10. TallyInv'
    BY <1>1, <1>4, TallySame DEF segsUsed
  <1>11. ExactInv'
    <2>1. ASSUME deaths = 0, NEW s \in Seg, s = seg(cur) PROVE CurEnds(s)'
      BY <1>1, <1>2, <1>3, <1>4, <2>1, CurEndsSame DEF Linking
    <2>2. deaths = 0 => pv' \in added \cup {Invalid} /\ node'[cur].prev = pv'
      BY <1>1, <1>2, <1>3, <1>4, OnLinking
    <2> QED
      BY <1>1, <1>3, <1>4, <2>1, <2>2, ExactQuiet DEF FirstPath
  <1> QED
    BY <1>4, <1>5, <1>6, <1>9, <1>10, <1>11 DEF ChainInv

LEMMA LinkBackStep == ASSUME ChainInv, linkBack PROVE ChainInv'
  <1>1. /\ at = "back" /\ at' = "forward" /\ Put(nx(cur), "prev", cur)
        /\ UNCHANGED <<first, last, segFirst, segLast, usedSegNum, pv, writerRest>>
    BY DEF linkBack, Goto, nx
  <1>2. at \in Linking
    BY <1>1 DEF Linking
  <1> DEFINE x == nx(cur)
  <1>3. x = after /\ x \in Ext /\ x # Invalid
    BY <1>1, Known DEF ChainInv, ChainTypeOK, WriterInv, nx
  <1>4. /\ node' \in [Ext -> Header] /\ node'[x].prev = cur
        /\ \A y \in Ext : /\ y # x => node'[y].prev = node[y].prev
                          /\ node'[y].next = node[y].next /\ node'[y].logicID = node[y].logicID
    <2>1. cur \in ExtOrNone
      BY <1>2, OnLinking DEF ExtOrNone
    <2> QED
      BY <1>1, <1>3, <2>1, Known, PutPrev
  <1>5. /\ Forward' = Forward /\ OrderInv' /\ ScanInv' /\ (added \subseteq Forward)'
        /\ cur \in pages /\ cur \in Ext /\ cur # Invalid /\ cur \notin Forward
        /\ \A e \in Forward : /\ node'[e].next = node[e].next
                              /\ node'[e].logicID = node[e].logicID
        /\ \A e \in pages : room(e)' = room(e)
        /\ pages' = pages /\ cur' = cur /\ scan' = scan /\ added' = added /\ deaths' = deaths
    BY <1>1, <1>4, QuietStore
  <1>6. ChainTypeOK'
    BY <1>1, <1>4, <1>5 DEF ChainInv, ChainTypeOK, Header
  <1>7. SegInv'
    BY <1>1, <1>5, SegSame
  <1>8. after' = after /\ nx(cur)' = nx(cur)
    BY <1>1, <1>2, <1>4, <1>5, OnLinking DEF after, nx
  <1>9. pv \in Forward \cup {Invalid} => Placed'
    BY <1>1, <1>2, <1>4, <1>5, OnLinking, PlacedSame
  <1>10. WriterInv'
    BY <1>1, <1>2, <1>3, <1>5, <1>8, <1>9, OnLinking
       DEF WriterInv, FirstPath, AppendPath, Linking, seg, extent2Segment
  <1>11. TallyInv'
    BY <1>1, <1>5, TallySame DEF segsUsed
  <1>12. ExactInv'
    <2> SUFFICES ASSUME deaths = 0
                 PROVE  /\ Forward' = added /\ cur \notin added /\ pv' \in added \cup {Invalid}
                        /\ SegEnds' /\ LastInv' /\ BackInv'
      BY <1>1, <1>5 DEF ExactInv
    <2>1. /\ Forward = added /\ pv \in added \cup {Invalid} /\ node[cur].prev = pv
          /\ x \in added /\ Placed
      BY <1>2, <1>3, OnLinking
    <2>2. LastInv /\ BackInv /\ OrderInv /\ added \subseteq Ext
      BY <2>1, Known DEF ChainInv, ExactInv
    <2>3. SegEnds'
      <3>1. ASSUME NEW s \in Seg, s = seg(cur) PROVE CurEnds(s)'
        BY <1>1, <1>2, <1>4, <1>5, <3>1, CurEndsSame DEF Linking
      <3> QED
        BY <1>1, <1>5, <3>1, EndsSame
    <2>4. LastInv'
      <3>1. Greatest(added, last) /\ last \in added
        BY <1>1, <2>1, <2>2 DEF LastInv, Greatest
      <3>2. logicID(cur) < logicID(x)
        <4>1. CASE pv = Invalid
          BY <2>1, <4>1 DEF Placed
        <4>2. CASE pv # Invalid
          <5>1. pv \in Forward /\ Successor(pv) /\ nx(pv) = x
            BY <1>3, <2>1, <2>2, <4>2 DEF OrderInv, after, nx
          <5>2. logicID(pv) < logicID(x)
            BY <1>3, <5>1 DEF Successor
          <5>3. logicID(x) <= logicID(pv) \/ logicID(cur) < logicID(x)
            BY <2>1, <4>2 DEF Placed
          <5>4. logicID(pv) \in Int /\ logicID(x) \in Int
            BY <1>3, <2>2, <2>1, <4>2, Known
          <5> QED
            BY <5>2, <5>3, <5>4
        <4> QED
          BY <4>1, <4>2
      <3>3. /\ logicID(x) <= logicID(last) /\ logicID(x) \in Int /\ logicID(last) \in Int
            /\ logicID(cur) \in Int
        BY <1>5, <2>1, <2>2, <3>1, Known DEF Greatest
      <3>4. Greatest(added \cup {cur}, last)
        BY <3>1, <3>2, <3>3 DEF Greatest
      <3>5. \A e \in added \cup {cur} : node'[e].logicID = node[e].logicID
        BY <1>4, <1>5, <2>2
      <3>6. Greatest(added \cup {cur}, last)'
        BY <1>1, <1>5, <3>1, <3>4, <3>5 DEF Greatest, logicID
      <3> QED
        BY <1>1, <1>5, <2>1, <3>6 DEF LastInv
    <2>5. BackInv'
      <3>1. \A e \in added : Back(e, added)
        BY <1>1, <2>2 DEF BackInv
      <3>2. \A e \in added : e # x => Back(e, added)'
        <4> TAKE e \in added
        <4> HAVE e # x
        <4>1. node'[e].prev = node[e].prev
          BY <1>4, <2>2
        <4>2. \A y \in added : node'[y].next = node[y].next
          BY <1>4, <2>2
        <4> QED
          BY <1>1, <1>5, <3>1, <4>1, <4>2 DEF Back, nx
      <3>3. nx(cur)' = x /\ node'[x].prev = cur /\ node'[cur].prev = pv
        BY <1>4, <1>5, <1>8, <2>1
      <3> HIDE DEF x
      <3> QED
        BY <1>1, <1>5, <3>2, <3>3 DEF BackInv, FirstPath, Back
    <2> QED
      BY <1>1, <1>5, <2>1, <2>3, <2>4, <2>5
  <1> QED
    BY <1>5, <1>6, <1>7, <1>10, <1>11, <1>12 DEF ChainInv

LEMMA LinkAtEndStep == ASSUME ChainInv, linkAtEnd PROVE ChainInv'
  <1>1. /\ at = "link" /\ at' = "forward" /\ after = Invalid
        /\ last' = IF pv # Invalid THEN cur ELSE last
        /\ UNCHANGED <<first, segFirst, segLast, usedSegNum, node, pv, writerRest>>
    BY DEF linkAtEnd, Goto
  <1>2. at \in Linking
    BY <1>1 DEF Linking
  <1>3. /\ Forward' = Forward /\ OrderInv' /\ ScanInv' /\ (added \subseteq Forward)'
        /\ cur \in pages /\ cur \in Ext /\ cur # Invalid /\ cur \notin Forward
        /\ \A e \in pages : room(e)' = room(e)
        /\ pages' = pages /\ cur' = cur /\ scan' = scan /\ added' = added /\ deaths' = deaths
    BY <1>1, QuietStore, Known
  <1>4. ChainTypeOK'
    BY <1>1, <1>3 DEF ChainInv, ChainTypeOK
  <1>5. SegInv'
    BY <1>1, <1>3, SegSame
  <1>6. after' = after /\ nx(cur) = Invalid /\ nx(cur)' = nx(cur)
    BY <1>1, <1>3 DEF after, nx, ChainInv, WriterInv
  <1>7. pv \in Forward \cup {Invalid} => Placed'
    BY <1>1, <1>2, <1>3, OnLinking, PlacedSame
  <1>8. WriterInv'
    BY <1>1, <1>2, <1>3, <1>6, <1>7, OnLinking
       DEF WriterInv, FirstPath, AppendPath, Linking, seg, extent2Segment
  <1>9. TallyInv'
    BY <1>1, <1>3, TallySame DEF segsUsed
  <1>10. ExactInv'
    <2> SUFFICES ASSUME deaths = 0
                 PROVE  /\ Forward' = added /\ cur \notin added /\ pv' \in added \cup {Invalid}
                        /\ SegEnds' /\ LastInv' /\ BackInv'
      BY <1>1, <1>3 DEF ExactInv
    <2>1. Forward = added /\ pv \in added \cup {Invalid} /\ node[cur].prev = pv /\ Placed
      BY <1>2, OnLinking
    <2>2. LastInv /\ BackInv /\ OrderInv
      BY DEF ChainInv, ExactInv
    <2>3. SegEnds'
      <3>1. ASSUME NEW s \in Seg, s = seg(cur) PROVE CurEnds(s)'
        BY <1>1, <1>2, <1>3, <3>1, CurEndsSame DEF Linking
      <3> QED
        BY <1>1, <1>3, <3>1, EndsSame
    <2>4. LastInv'
      <3>1. CASE pv = Invalid
        <4>1. first = Invalid
          BY <1>1, <3>1 DEF after
        <4>2. added = {}
          BY <2>1, <4>1, NoWalk
        <4>3. last = Invalid
          BY <1>1, <2>2, <4>2 DEF LastInv
        <4> QED
          BY <1>1, <1>3, <3>1, <4>2, <4>3 DEF LastInv
      <3>2. CASE pv # Invalid
        <4>1. pv \in Forward /\ nx(pv) = Invalid /\ Successor(pv)
          BY <1>1, <2>1, <2>2, <3>2 DEF after, nx, OrderInv
        <4>2. \A f \in added : logicID(f) <= logicID(pv) /\ logicID(f) \in Int
          BY <2>1, <4>1, Known DEF Successor
        <4>3. logicID(pv) < logicID(cur) /\ logicID(pv) \in Int /\ logicID(cur) \in Int
          BY <1>3, <2>1, <3>2, Known DEF Placed
        <4>4. Greatest(added \cup {cur}, cur)
          BY <4>2, <4>3 DEF Greatest
        <4>5. Greatest(added \cup {cur}, last)'
          BY <1>1, <1>3, <3>2, <4>4 DEF Greatest, logicID
        <4> QED
          BY <1>1, <3>2, <4>5 DEF LastInv
      <3> QED
        BY <3>1, <3>2
    <2>5. BackInv'
      <3>1. \A e \in added : Back(e, added) /\ e # Invalid
        BY <1>1, <2>1, <2>2, Known DEF BackInv
      <3>2. \A e \in added : Back(e, added)'
        BY <1>1, <1>3, <3>1 DEF Back, nx
      <3> QED
        BY <1>1, <1>3, <1>6, <2>1, <3>1, <3>2 DEF BackInv, FirstPath, Back
    <2> QED
      BY <1>1, <1>3, <2>1, <2>3, <2>4, <2>5
  <1> QED
    BY <1>3, <1>4, <1>5, <1>8, <1>9, <1>10 DEF ChainInv

(* The store a scan follows: what it changes. *)
LEMMA LinkForwardIs ==
  ASSUME ChainInv, linkForward
  PROVE  /\ at = "forward" /\ at' = "last" /\ at \in Linking /\ nx(cur) = after
         /\ UNCHANGED <<last, segFirst, segLast, usedSegNum, pv, writerRest>>
         /\ pages' = pages /\ cur' = cur /\ scan' = scan /\ added' = added /\ deaths' = deaths
         /\ node' \in [Ext -> Header] /\ first' \in ExtOrNone
         /\ \A x \in Ext : node'[x].prev = node[x].prev /\ node'[x].logicID = node[x].logicID
         /\ \A x \in Ext : x # pv => node'[x].next = node[x].next
         /\ pv # Invalid => first' = first /\ node'[pv].next = cur
         /\ pv = Invalid => first' = cur /\ node' = node
         /\ \A e \in pages : room(e)' = room(e)
  <1>1. /\ at = "forward" /\ at' = "last" /\ at \in Linking
        /\ UNCHANGED <<last, segFirst, segLast, usedSegNum, pv, writerRest>>
        /\ pages' = pages /\ cur' = cur /\ scan' = scan /\ added' = added /\ deaths' = deaths
    BY DEF linkForward, Goto, writerRest, Linking
  <1>2. nx(cur) = after
    BY <1>1 DEF ChainInv, WriterInv
  <1>3. \A e \in pages : room(e)' = room(e)
    BY <1>1, Rooms
  <1>4. cur \in ExtOrNone /\ cur \in Ext /\ (pv # Invalid => pv \in Ext)
    BY <1>1, OnLinking DEF ExtOrNone
  <1>5. CASE pv = Invalid
    <2>1. first' = cur /\ node' = node
      BY <1>5 DEF linkForward
    <2> QED
      BY <1>1, <1>2, <1>3, <1>4, <1>5, <2>1, Known
  <1>6. CASE pv # Invalid
    <2>1. first' = first /\ Put(pv, "next", cur) /\ first \in ExtOrNone
      BY <1>6 DEF linkForward, ChainInv, ChainTypeOK
    <2>2. /\ node' \in [Ext -> Header] /\ node'[pv].next = cur
          /\ \A x \in Ext : /\ x # pv => node'[x].next = node[x].next
                            /\ node'[x].prev = node[x].prev /\ node'[x].logicID = node[x].logicID
      BY <1>4, <1>6, <2>1, Known, PutNext
    <2> QED
      BY <1>1, <1>2, <1>3, <1>4, <1>6, <2>1, <2>2
  <1> QED
    BY <1>5, <1>6

(* The new extent joins the walk if its predecessor is on it. *)
LEMMA LinkForwardWalk ==
  ASSUME ChainInv, linkForward
  PROVE  /\ Follows(pages)'
         /\ Forward' = IF pv \in Forward \cup {Invalid} THEN Forward \cup {cur} ELSE Forward
  <1>1. /\ cur \in pages /\ cur # Invalid /\ cur \notin Forward
        /\ (pv # Invalid => pv \in pages /\ pv \in Ext /\ pv # cur)
        /\ cur \in Ext
    BY LinkForwardIs, OnLinking
  <1>2. Closed(pages, first, node) /\ Forward = Reach(pages, first, node)
    BY ForwardIs, Known
  <1>3. SUFFICES /\ Closed(pages, first', node')
                 /\ Reach(pages, first', node') =
                      IF pv \in Forward \cup {Invalid} THEN Forward \cup {cur} ELSE Forward
    BY <1>3, ForwardIs, LinkForwardIs
  <1>4. CASE pv = Invalid
    <2>1. first' = cur /\ node' = node /\ node[cur].next = first
      BY <1>4, LinkForwardIs DEF after, nx
    <2>2. cur \notin Reach(pages, first, node)
      BY <1>1, <1>2
    <2>3. Reach(pages, cur, node) = Reach(pages, first, node) \cup {cur} /\ Closed(pages, cur, node)
      BY <1>1, <1>2, <2>1, <2>2, WalkStarts
    <2> QED
      BY <1>2, <1>4, <2>1, <2>3
  <1>5. CASE pv \in Forward
    <2>1. /\ pv # Invalid /\ pv \in Reach(pages, first, node) /\ cur \notin Reach(pages, first, node)
      BY <1>1, <1>2, <1>5, Known
    <2>2. /\ first' = first /\ node'[pv].next = cur /\ node[cur].next = node[pv].next
          /\ \A e \in pages \ {pv} : node'[e].next = node[e].next
      BY <2>1, LinkForwardIs, Known DEF after, nx
    <2>3. Reach(pages, first, node') = Reach(pages, first, node) \cup {cur} /\ Closed(pages, first, node')
      BY <1>1, <1>2, <2>1, <2>2, WalkGrows
    <2> QED
      BY <1>2, <1>5, <2>2, <2>3
  <1>6. CASE pv # Invalid /\ pv \notin Forward
    <2>1. /\ first' = first /\ node'[pv].next = cur
          /\ \A e \in pages \ {pv} : node'[e].next = node[e].next
      BY <1>6, LinkForwardIs, Known
    <2>2. Closed(pages, first, node')
      BY <1>1, <1>2, <2>1 DEF Closed
    <2>3. \A e \in Reach(pages, first, node) : node'[e].next = node[e].next
      BY <1>2, <1>6, <2>1, Known
    <2>4. Reach(pages, first, node') = Reach(pages, first, node)
      BY <1>2, <2>2, <2>3, WalkSame
    <2> QED
      BY <1>2, <1>6, <2>1, <2>2, <2>4
  <1> QED
    BY <1>4, <1>5, <1>6

(* The grown walk is in the order of the logical IDs. *)
LEMMA LinkForwardOrder == ASSUME ChainInv, linkForward PROVE OrderInv'
  <1>1. CASE pv \notin Forward \cup {Invalid}
    <2>1. first' = first /\ pages' = pages /\ Follows(pages)'
      BY <1>1, LinkForwardIs, LinkForwardWalk
    <2>2. \A e \in Forward : /\ node'[e].next = node[e].next /\ node'[e].logicID = node[e].logicID
                             /\ room(e)' \in Nat /\ room(e) <= room(e)'
      BY <1>1, LinkForwardIs, Known, Rooms
    <2> QED
      BY <2>1, <2>2, Frame
  <1>2. CASE pv \in Forward \cup {Invalid}
    <2> DEFINE F == Forward
               L(e) == node[e].logicID
               N(e) == node[e].next
               M(e) == node'[e].next
    <2>1. Follows(pages)' /\ Forward' = F \cup {cur} /\ pages' = pages /\ cur' = cur
      BY <1>2, LinkForwardWalk, LinkForwardIs
    <2>2. Placed /\ cur \in pages /\ cur \notin F /\ cur # Invalid
      BY <1>2, LinkForwardIs, OnLinking
    <2>3. \A e \in F \cup {cur} : L(e) \in Int /\ e \in pages /\ e \in Ext /\ node'[e].logicID = L(e)
      BY <2>2, LinkForwardIs, Known DEF logicID
    <2>4. \A e \in F \cup {cur} : InRange(e)'
      <3> TAKE e \in F \cup {cur}
      <3>1. InRange(e)
        BY <2>2 DEF ChainInv, OrderInv, Placed
      <3>2. room(e)' = room(e) /\ logicID(e)' = logicID(e)
        BY <2>3, LinkForwardIs DEF logicID
      <3> QED
        BY <3>1, <3>2 DEF InRange, seg, extent2Segment
    <2>5. /\ \A f \in F : L(first) <= L(f)
          /\ \A e, f \in F : L(e) = L(f) => e = f
          /\ \A e \in F : IF N(e) = Invalid THEN \A f \in F : L(f) <= L(e)
                          ELSE /\ L(e) < L(N(e)) /\ \A f \in F : L(f) <= L(e) \/ L(N(e)) <= L(f)
      BY DEF ChainInv, OrderInv, Successor, logicID, nx
    <2>6. /\ \A e \in F : N(e) # Invalid => N(e) \in F
          /\ first # Invalid => first \in F
          /\ first = Invalid => F = {}
      BY Known, NoWalk DEF nx
    <2>7. /\ \A e \in (F \cup {cur}) \ {pv} : M(e) = N(e)
          /\ pv = Invalid => first' = cur /\ M(cur) = first
          /\ pv # Invalid => pv \in F /\ first' = first /\ M(pv) = cur /\ M(cur) = N(pv)
      BY <1>2, <2>2, <2>3, LinkForwardIs, OnLinking DEF after, nx
    <2>8. /\ pv = Invalid => \A f \in F : L(cur) < L(f)
          /\ pv # Invalid => /\ L(pv) < L(cur)
                             /\ \A f \in F : L(f) <= L(pv) \/ L(cur) < L(f)
      BY <2>2 DEF Placed, logicID
    <2> HIDE DEF F, L, N, M
    <2>9. \A e \in F \cup {cur} :
            IF M(e) = Invalid THEN \A f \in F \cup {cur} : L(f) <= L(e)
            ELSE /\ M(e) \in F \cup {cur} /\ L(e) < L(M(e))
                 /\ \A f \in F \cup {cur} : L(f) <= L(e) \/ L(M(e)) <= L(f)
      <3>1. CASE pv = Invalid
        <4>1. pv \notin F \cup {cur}
          BY <2>2, <2>3, <3>1, Known DEF F
        <4>2. \A e \in F : IF M(e) = Invalid THEN \A f \in F \cup {cur} : L(f) <= L(e)
                           ELSE /\ M(e) \in F \cup {cur} /\ L(e) < L(M(e))
                                /\ \A f \in F \cup {cur} : L(f) <= L(e) \/ L(M(e)) <= L(f)
          BY <2>3, <2>5, <2>6, <2>7, <2>8, <3>1, <4>1
        <4>3. IF M(cur) = Invalid THEN \A f \in F \cup {cur} : L(f) <= L(cur)
              ELSE /\ M(cur) \in F \cup {cur} /\ L(cur) < L(M(cur))
                   /\ \A f \in F \cup {cur} : L(f) <= L(cur) \/ L(M(cur)) <= L(f)
          BY <2>3, <2>5, <2>6, <2>7, <2>8, <3>1
        <4> QED
          BY <4>2, <4>3
      <3>2. CASE pv # Invalid
        <4>1. IF M(cur) = Invalid THEN \A f \in F \cup {cur} : L(f) <= L(cur)
              ELSE /\ M(cur) \in F \cup {cur} /\ L(cur) < L(M(cur))
                   /\ \A f \in F \cup {cur} : L(f) <= L(cur) \/ L(M(cur)) <= L(f)
          BY <2>3, <2>5, <2>6, <2>7, <2>8, <3>2
        <4>2. ASSUME NEW e \in F, e # pv
              PROVE  IF M(e) = Invalid THEN \A f \in F \cup {cur} : L(f) <= L(e)
                     ELSE /\ M(e) \in F \cup {cur} /\ L(e) < L(M(e))
                          /\ \A f \in F \cup {cur} : L(f) <= L(e) \/ L(M(e)) <= L(f)
          <5>1. M(e) = N(e) /\ L(e) # L(pv) /\ L(e) \in Int /\ L(pv) \in Int /\ L(cur) \in Int /\ pv \in F
            BY <2>3, <2>5, <2>7, <3>2, <4>2
          <5>2. CASE N(e) = Invalid
            BY <2>3, <2>5, <2>8, <3>2, <5>1, <5>2
          <5>3. CASE N(e) # Invalid
            BY <2>3, <2>5, <2>6, <2>8, <3>2, <5>1, <5>3
          <5> QED
            BY <5>2, <5>3
        <4>3. M(pv) = cur /\ L(pv) < L(cur) /\ \A f \in F \cup {cur} : L(f) <= L(pv) \/ L(cur) <= L(f)
          BY <2>3, <2>7, <2>8, <3>2
        <4> QED
          BY <2>2, <4>1, <4>2, <4>3
      <3> QED
        BY <3>1, <3>2
    <2>10. \A f \in F \cup {cur} : L(first') <= L(f)
      <3>1. CASE pv = Invalid
        BY <2>3, <2>7, <2>8, <3>1
      <3>2. CASE pv # Invalid
        BY <2>3, <2>5, <2>6, <2>7, <2>8, <3>2
      <3> QED
        BY <3>1, <3>2
    <2>11. first' \in F \cup {cur}
      BY <2>6, <2>7
    <2>12. \A e, f \in F \cup {cur} : L(e) = L(f) => e = f
      <3>1. \A f \in F : L(f) # L(cur)
        BY <1>2, <2>3, <2>7, <2>8
      <3> QED
        BY <2>5, <3>1
    <2>13. \A e \in F \cup {cur} : Successor(e)'
      <3> TAKE e \in F \cup {cur}
      <3>1. IF M(e) = Invalid THEN \A f \in F \cup {cur} : node'[f].logicID <= node'[e].logicID
            ELSE /\ node'[e].logicID < node'[M(e)].logicID
                 /\ \A f \in F \cup {cur} : \/ node'[f].logicID <= node'[e].logicID
                                          \/ node'[M(e)].logicID <= node'[f].logicID
        BY <2>3, <2>9
      <3> QED
        BY <2>1, <3>1 DEF Successor, logicID, nx, M
    <2>14. \A f \in F \cup {cur} : logicID(first)' <= logicID(f)'
      BY <2>3, <2>10, <2>11 DEF logicID
    <2>15. \A e, f \in F \cup {cur} : logicID(e)' = logicID(f)' => e = f
      BY <2>3, <2>12 DEF logicID
    <2> QED
      BY <2>1, <2>4, <2>13, <2>14, <2>15 DEF OrderInv
  <1> QED
    BY <1>1, <1>2

LEMMA LinkForwardStep == ASSUME ChainInv, linkForward PROVE ChainInv'
  <1>1. /\ at = "forward" /\ at' = "last" /\ at \in Linking /\ nx(cur) = after
        /\ UNCHANGED <<last, segFirst, segLast, usedSegNum, pv, writerRest>>
        /\ pages' = pages /\ cur' = cur /\ scan' = scan /\ added' = added /\ deaths' = deaths
        /\ node' \in [Ext -> Header] /\ first' \in ExtOrNone
        /\ \A x \in Ext : node'[x].prev = node[x].prev /\ node'[x].logicID = node[x].logicID
        /\ \A x \in Ext : x # pv => node'[x].next = node[x].next
        /\ pv # Invalid => first' = first /\ node'[pv].next = cur
        /\ pv = Invalid => first' = cur /\ node' = node
    BY LinkForwardIs
  <1>2. /\ Forward' = IF pv \in Forward \cup {Invalid} THEN Forward \cup {cur} ELSE Forward
        /\ Forward \subseteq Forward' /\ OrderInv'
    BY LinkForwardWalk, LinkForwardOrder
  <1>3. \A e \in Forward : e \in Ext /\ node'[e].logicID = node[e].logicID
    BY <1>1, Known
  <1>4. ScanInv' /\ (added \subseteq Forward)'
    BY <1>1, <1>2, <1>3, ScanKept DEF ChainInv
  <1>5. /\ cur \in pages /\ cur \in Ext /\ cur # Invalid /\ cur \notin Forward
        /\ seg(cur) \in Seg /\ segLast[seg(cur)] = cur
        /\ pv \in ExtOrNone /\ (pv # Invalid => pv \in pages /\ pv \in Ext /\ pv # cur)
        /\ (pv \in Forward \cup {Invalid} => Placed)
        /\ deaths = 0 => /\ pv \in Forward \cup {Invalid} /\ Forward = added
                         /\ CurEnds(seg(cur)) /\ node[cur].prev = pv
    BY <1>1, OnLinking
  <1>6. ChainTypeOK'
    BY <1>1, <1>5 DEF ChainInv, ChainTypeOK, Header
  <1>7. SegInv'
    <2>1. CASE pv \notin Forward \cup {Invalid}
      BY <1>1, <1>2, <1>3, <2>1, SegSame
    <2>2. CASE pv \in Forward \cup {Invalid}
      <3>1. SegInv /\ Forward' = Forward \cup {cur} /\ Placed
        BY <1>2, <1>5, <2>2 DEF ChainInv
      <3>2. \A e \in Forward \cup {cur} : segLast[seg(e)] # Invalid
        BY <1>5, <3>1 DEF SegInv
      <3>3. ASSUME NEW s \in Seg, segLast[s] \in Forward \cup {cur}, NEW f \in Forward \cup {cur}, seg(f) = s
            PROVE  logicID(f) <= logicID(segLast[s])
        <4>1. CASE segLast[s] = cur
          <5>1. s = seg(cur)
            BY <1>5, <3>1, <4>1 DEF SegInv
          <5>2. logicID(cur) \in Int /\ (f \in Forward => logicID(f) \in Int /\ logicID(f) < logicID(cur))
            BY <1>3, <1>5, <3>1, <3>3, <5>1, Known DEF Placed
          <5> QED
            BY <3>3, <4>1, <5>2
        <4>2. CASE segLast[s] \in Forward
          <5>1. s # seg(cur)
            BY <1>5, <4>2
          <5> QED
            BY <3>1, <3>3, <4>2, <5>1 DEF SegInv
        <4> QED
          BY <3>3, <4>1, <4>2
      <3>4. \A e \in Forward \cup {cur} : logicID(e)' = logicID(e)
        BY <1>1, <1>3, <1>5 DEF logicID
      <3>5. \A s \in Seg : segLast[s] \in Forward \cup {cur} =>
              \A f \in Forward \cup {cur} : seg(f) = s => node'[f].logicID <= node'[segLast[s]].logicID
        BY <1>1, <1>3, <1>5, <3>3 DEF logicID
      <3> QED
        BY <1>1, <3>1, <3>2, <3>5 DEF SegInv, logicID, seg, extent2Segment
    <2> QED
      BY <2>1, <2>2
  <1>8. WriterInv'
    BY <1>1, <1>5 DEF WriterInv, FirstPath, AppendPath, Linking, seg, extent2Segment
  <1>9. TallyInv'
    BY <1>1, TallySame DEF segsUsed
  <1>10. ExactInv'
    <2> SUFFICES ASSUME deaths = 0
                 PROVE  /\ Forward' = added \cup {cur} /\ cur \notin added /\ pv' \in added \cup {Invalid}
                        /\ SegEnds' /\ LastInv' /\ BackInv'
      BY <1>1 DEF ExactInv
    <2>1. /\ Forward = added /\ pv \in added \cup {Invalid} /\ node[cur].prev = pv
          /\ Forward' = added \cup {cur}
      BY <1>2, <1>5
    <2>2. LastInv /\ BackInv /\ OrderInv
      BY DEF ChainInv, ExactInv
    <2>3. SegEnds'
      <3>1. ASSUME NEW s \in Seg, s = seg(cur) PROVE CurEnds(s)'
        BY <1>1, <1>3, <1>5, <3>1, CurEndsSame
      <3> QED
        BY <1>1, <1>3, <3>1, EndsSame
    <2>4. LastInv'
      <3>1. \A e \in added \cup {cur} : logicID(e)' = logicID(e)
        BY <1>1, <1>3, <1>5, <2>1 DEF logicID
      <3>2. CASE pv # Invalid \/ added # {}
        <4>1. Greatest(added \cup {cur}, last)
          BY <1>1, <2>2, <3>2 DEF LastInv
        <4>2. Greatest(added \cup {cur}, last)'
          BY <1>1, <3>1, <4>1 DEF Greatest, logicID
        <4> QED
          BY <1>1, <3>2, <4>2 DEF LastInv
      <3>3. CASE pv = Invalid /\ added = {}
        BY <1>1, <2>2, <3>3 DEF LastInv
      <3> QED
        BY <3>2, <3>3
    <2>5. BackInv'
      <3> DEFINE x == nx(cur)
      <3>1. \A e \in added : IF e = x THEN node[e].prev = cur ELSE Back(e, added)
        BY <1>1, <2>2 DEF BackInv
      <3>2. x = after /\ (pv # Invalid => pv \in added /\ x = node[pv].next) /\ (pv = Invalid => x = first)
        BY <1>1, <2>1 DEF after
      <3>3. \A e \in added \cup {cur} : e \in Ext /\ node'[e].prev = node[e].prev
        BY <1>1, <1>3, <1>5, <2>1
      <3>4. node'[cur].next = x
        BY <1>1, <1>5 DEF nx
      <3>5. ASSUME NEW e \in added \cup {cur} PROVE Back(e, added \cup {cur})'
        <4>1. CASE e = cur
          <5>1. node'[e].prev = pv
            BY <2>1, <3>3, <4>1
          <5>2. CASE pv = Invalid
            BY <1>1, <4>1, <5>1, <5>2 DEF Back
          <5>3. CASE pv # Invalid
            <6>1. first' # cur
              <7>1. first' = first /\ first # Invalid
                BY <1>1, <2>1, <5>3, NoWalk
              <7> QED
                BY <1>5, <7>1, Known
            <6> QED
              BY <1>1, <2>1, <4>1, <5>1, <5>3, <6>1 DEF Back, nx
          <5> QED
            BY <5>2, <5>3
        <4>2. CASE e \in added /\ e = x
          <5>1. node'[e].prev = cur /\ node'[cur].next = e
            BY <3>1, <3>3, <3>4, <4>2
          <5>2. e # first'
            <6>1. CASE pv = Invalid
              BY <1>1, <1>5, <2>1, <4>2, <6>1
            <6>2. CASE pv # Invalid
              <7>1. pv \in Forward /\ Successor(pv) /\ nx(pv) = x /\ x # Invalid
                BY <2>1, <2>2, <3>2, <4>2, <6>2, Known DEF OrderInv, nx
              <7>2. logicID(pv) < logicID(x) /\ logicID(first) <= logicID(pv)
                BY <2>2, <7>1 DEF Successor, OrderInv
              <7>3. logicID(pv) \in Int /\ logicID(x) \in Int
                BY <1>3, <2>1, <4>2, <7>1, Known
              <7>4. x # first
                BY <7>2, <7>3
              <7> QED
                BY <1>1, <4>2, <6>2, <7>4
            <6> QED
              BY <6>1, <6>2
          <5> QED
            BY <1>1, <5>1, <5>2 DEF Back, nx
        <4>3. CASE e \in added /\ e # x
          <5>1. Back(e, added)
            BY <3>1, <4>3
          <5>2. CASE e = first
            <6>1. pv # Invalid /\ first' = first
              BY <1>1, <3>2, <4>3, <5>2
            <6> QED
              BY <3>3, <5>1, <5>2, <6>1 DEF Back
          <5>3. CASE e # first
            <6>1. node[e].prev \in added /\ node[node[e].prev].next = e
              BY <5>1, <5>3 DEF Back, nx
            <6>2. node[e].prev # pv
              BY <2>1, <3>2, <4>3, <6>1, Known
            <6>3. node'[node[e].prev].next = e
              BY <1>1, <3>3, <6>1, <6>2
            <6>4. e # first'
              BY <1>1, <1>5, <2>1, <4>3, <5>3
            <6> QED
              BY <1>1, <3>3, <6>1, <6>3, <6>4 DEF Back, nx
          <5> QED
            BY <5>2, <5>3
        <4> QED
          BY <4>1, <4>2, <4>3
      <3>6. node'[cur].prev = pv
        BY <2>1, <3>3
      <3> QED
        BY <1>1, <3>5, <3>6 DEF BackInv, FirstPath, Back
    <2> QED
      BY <1>1, <1>5, <2>1, <2>3, <2>4, <2>5
  <1> QED
    BY <1>2, <1>4, <1>6, <1>7, <1>8, <1>9, <1>10 DEF ChainInv

-----------------------------------------------------------------------------
(* The ends of an allocation *)

LEMMA FinishStep == ASSUME ChainInv, finish PROVE ChainInv'
  <1>1. /\ at = "last" /\ at' = "idle" /\ cur' = Invalid /\ pv' = Invalid
        /\ last' = IF pv = Invalid /\ last = Invalid THEN cur ELSE last
        /\ added' = IF deaths = 0 THEN added \cup {cur} ELSE added
        /\ UNCHANGED <<first, segFirst, segLast, usedSegNum, node, pages, scan, deaths>>
    BY DEF finish, Goto
  <1>2. /\ cur \in pages /\ cur \in Ext /\ cur # Invalid /\ seg(cur) \in Seg
        /\ segLast[seg(cur)] = cur /\ Invalid \notin Ext
    BY <1>1, Known, SegIs DEF ChainInv, WriterInv
  <1>3. Forward' = Forward /\ OrderInv' /\ ScanInv'
    <2>1. Follows(pages)'
      BY <1>1, Known DEF Follows
    <2>2. \A e \in Forward : room(e)' \in Nat /\ room(e) <= room(e)'
      BY <1>1, Known, Rooms
    <2> QED
      BY <1>1, <2>1, <2>2, Frame
  <1>4. deaths = 0 => Forward = added \cup {cur}
    BY <1>1 DEF ChainInv, ExactInv
  <1>5. (added \subseteq Forward)'
    BY <1>1, <1>3, <1>4 DEF ChainInv
  <1>6. ChainTypeOK'
    BY <1>1, <1>2 DEF ChainInv, ChainTypeOK, ExtOrNone
  <1>7. SegInv'
    BY <1>1, <1>3, SegSame
  <1>8. WriterInv'
    BY <1>1, <1>2, <1>3, Known DEF WriterInv, FirstPath, AppendPath, Linking
  <1>9. TallyInv'
    BY <1>1, TallySame DEF segsUsed
  <1>10. ExactInv'
    <2> SUFFICES ASSUME deaths = 0
                 PROVE  /\ Forward' = added' /\ cur' \notin added' /\ pv' \in added' \cup {Invalid}
                        /\ SegEnds' /\ LastInv' /\ BackInv'
      BY <1>1 DEF ExactInv
    <2>1. added' = added \cup {cur} /\ Forward' = added' /\ added' \subseteq Ext
      BY <1>1, <1>3, <1>4, Known
    <2>2. SegEnds /\ LastInv /\ BackInv
      BY DEF ChainInv, ExactInv
    <2>3. SegEnds'
      <3> SUFFICES ASSUME NEW s \in Seg PROVE Ends(in(s), segFirst[s], segLast[s])'
        BY <1>1 DEF SegEnds
      <3>1. CASE s # seg(cur)
        <4>1. Ends(in(s), segFirst[s], segLast[s])
          BY <2>2, <3>1 DEF SegEnds
        <4>2. in(s)' = in(s)
          BY <2>1, <3>1 DEF in, seg, extent2Segment
        <4> QED
          BY <1>1, <4>1, <4>2 DEF Ends, Least, Greatest, logicID
      <3>2. CASE s = seg(cur)
        <4>1. Ends(in(s) \cup {cur}, segFirst[s], cur)
          BY <1>1, <2>2, <3>2 DEF SegEnds, CurEnds
        <4>2. in(s)' = in(s) \cup {cur}
          BY <2>1, <3>2 DEF in, seg, extent2Segment
        <4> QED
          BY <1>1, <1>2, <3>2, <4>1, <4>2 DEF Ends, Least, Greatest, logicID
      <3> QED
        BY <3>1, <3>2
    <2>4. LastInv'
      <3>1. Greatest(added', last')
        <4>1. CASE pv # Invalid \/ added # {}
          <5>1. Greatest(added \cup {cur}, last)
            BY <1>1, <2>2, <4>1 DEF LastInv
          <5>2. last # Invalid
            BY <1>2, <2>1, <5>1 DEF Greatest
          <5> QED
            BY <1>1, <2>1, <5>1, <5>2
        <4>2. CASE pv = Invalid /\ added = {}
          <5>1. last' = cur
            BY <1>1, <2>2, <4>2 DEF LastInv
          <5>2. logicID(cur) \in Int
            BY <1>2, Known
          <5> QED
            BY <2>1, <4>2, <5>1, <5>2 DEF Greatest
        <4> QED
          BY <4>1, <4>2
      <3>2. Greatest(added, last)'
        BY <1>1, <3>1 DEF Greatest, logicID
      <3> QED
        BY <1>1, <2>1, <3>2 DEF LastInv
    <2>5. BackInv'
      <3>1. \A e \in added \cup {cur} : Back(e, added \cup {cur})
        BY <1>1, <2>2 DEF BackInv
      <3>2. \A e \in added' : Back(e, added)'
        BY <1>1, <2>1, <3>1 DEF Back, nx
      <3> QED
        BY <1>1, <3>2 DEF BackInv, FirstPath, Linking, Back
    <2> QED
      BY <1>1, <1>2, <2>1, <2>3, <2>4, <2>5
  <1> QED
    BY <1>3, <1>5, <1>6, <1>7, <1>8, <1>9, <1>10 DEF ChainInv

LEMMA AllocateExtentStep ==
  ASSUME ChainInv, NEW e \in Ext, allocateExtent(e)
  PROVE  ChainInv'
  <1> DEFINE l == segLast[seg(e)]
  <1>1. /\ at = "idle" /\ e \notin pages /\ pages' = pages \cup {e} /\ cur' = e
        /\ node' = [node EXCEPT ![e] = fresh]
        /\ l = Invalid => pv' = Invalid /\ at' = "logicID"
        /\ l # Invalid => pv' = l /\ at' = "append"
        /\ UNCHANGED <<first, last, segFirst, segLast, usedSegNum, scan, added, deaths>>
    BY DEF allocateExtent, Goto, seg
  <1>2. /\ seg(e) \in Seg /\ e # Invalid /\ e \notin Forward
        /\ SegInv /\ segLast \in [Seg -> ExtOrNone] /\ added \subseteq Forward
    BY <1>1, SegIs, Known DEF ChainInv, ChainTypeOK
  <1>3. node' \in [Ext -> Header] /\ node'[e] = fresh /\ \A x \in Ext : x # e => node'[x] = node[x]
    <2>1. fresh \in Header
      BY DEF fresh, Header, ExtOrNone
    <2> QED
      BY <1>1, <2>1, Known
  <1>4. node'[e].next = Invalid /\ node'[e].prev = Invalid
    BY <1>3 DEF fresh
  <1>5. Forward' = Forward /\ OrderInv' /\ ScanInv'
    <2>1. Follows(pages)'
      BY <1>1, <1>3, <1>4, Known DEF Follows
    <2>2. \A x \in Forward : room(x)' \in Nat /\ room(x) <= room(x)'
      BY <1>1, Known, Rooms
    <2>3. \A x \in Forward : node'[x] = node[x]
      BY <1>2, <1>3, Known
    <2> QED
      BY <1>1, <2>1, <2>2, <2>3, Frame
  <1>6. \A x \in Forward : node'[x] = node[x] /\ x \in Ext
    BY <1>2, <1>3, Known
  <1>7. (added \subseteq Forward)'
    BY <1>1, <1>2, <1>5
  <1>8. l # Invalid => l \in pages /\ l # e /\ seg(l) = seg(e)
    BY <1>1, <1>2 DEF SegInv
  <1>9. ChainTypeOK'
    <2>1. pages' \subseteq Ext /\ added' \subseteq pages' /\ cur' \in Ext /\ pv' \in ExtOrNone
      BY <1>1, <1>2, Known DEF ChainInv, ChainTypeOK, ExtOrNone
    <2>2. at' \in {"logicID", "append"}
      BY <1>1
    <2> QED
      BY <1>1, <1>3, <2>1, <2>2 DEF ChainInv, ChainTypeOK, Header, ExtOrNone
  <1>10. SegInv'
    BY <1>1, <1>5, <1>6, SegSame
  <1>11. WriterInv'
    <2>1. CASE l = Invalid
      <3>1. \A f \in Forward : seg(f) # seg(e)
        BY <1>2, <2>1 DEF SegInv
      <3> QED
        BY <1>1, <1>2, <1>4, <1>5, <2>1, <3>1
           DEF WriterInv, FirstPath, AppendPath, Linking, nx, seg, extent2Segment
    <2>2. CASE l # Invalid
      <3>1. l \in Forward => \A f \in Forward : seg(f) = seg(e) => node'[f].logicID <= node'[l].logicID
        BY <1>2, <1>6 DEF SegInv, logicID
      <3> QED
        BY <1>1, <1>2, <1>4, <1>5, <1>8, <2>2, <3>1
           DEF WriterInv, FirstPath, AppendPath, Linking, nx, logicID, seg, extent2Segment
    <2> QED
      BY <2>1, <2>2
  <1>12. TallyInv'
    BY <1>1, TallySame DEF segsUsed
  <1>13. ExactInv'
    <2> SUFFICES ASSUME deaths = 0
                 PROVE  /\ Forward' = added' /\ cur' \notin added' /\ pv' \in added' \cup {Invalid}
                        /\ SegEnds' /\ LastInv' /\ BackInv'
      BY <1>1 DEF ExactInv
    <2>1. Forward = added /\ SegEnds /\ LastInv /\ BackInv
      BY <1>1 DEF ChainInv, ExactInv
    <2>2. \A s \in Seg : Ends(in(s), segFirst[s], segLast[s])
      BY <1>1, <2>1 DEF SegEnds
    <2>3. \A s \in Seg : Ends(in(s), segFirst[s], segLast[s])'
      <3> TAKE s \in Seg
      <3>1. in(s)' = in(s) /\ \A x \in in(s) : node'[x] = node[x]
        BY <1>1, <1>6, <2>1 DEF in, extent2Segment
      <3> QED
        BY <1>1, <2>2, <3>1 DEF Ends, Least, Greatest, logicID
    <2>4. ASSUME l = Invalid PROVE in(seg(e)) = {} /\ segFirst[seg(e)] = Invalid
      <3>1. Invalid \notin in(seg(e))
        BY <2>1, Known DEF in
      <3>2. Ends(in(seg(e)), segFirst[seg(e)], Invalid)
        BY <1>2, <2>2, <2>4
      <3> QED
        BY <3>1, <3>2 DEF Ends, Greatest
    <2>5. ASSUME l # Invalid PROVE in(seg(e)) # {} /\ l \in added
      <3>1. Ends(in(seg(e)), segFirst[seg(e)], l)
        BY <1>2, <2>2
      <3> HIDE DEF l
      <3> QED
        BY <2>5, <3>1 DEF Ends, Greatest, in
    <2>6. SegEnds'
      <3>1. ASSUME NEW s \in Seg, s = seg(e) PROVE CurEnds(s)'
        <4>1. in(s)' = in(s)
          BY <1>1 DEF in, extent2Segment
        <4>2. CASE l = Invalid
          BY <1>1, <2>4, <3>1, <4>1, <4>2 DEF CurEnds, AppendPath, Linking
        <4>3. CASE l # Invalid
          <5>1. Ends(in(s), segFirst[s], pv)'
            BY <1>1, <2>3, <3>1, <4>3
          <5> QED
            BY <1>1, <2>5, <3>1, <4>1, <4>3, <5>1 DEF CurEnds, Linking
        <4> QED
          BY <4>2, <4>3
      <3> QED
        BY <1>1, <2>3, <3>1 DEF SegEnds, seg, extent2Segment
    <2>7. LastInv'
      BY <1>1, <1>6, <2>1 DEF LastInv, Greatest, logicID
    <2>8. BackInv'
      <3>1. \A x \in added : Back(x, added)
        BY <1>1, <2>1 DEF BackInv
      <3>2. \A x \in added : Back(x, added)'
        BY <1>1, <1>6, <2>1, <3>1 DEF Back, nx
      <3>3. at' \in {"logicID", "append"}
        BY <1>1
      <3> QED
        BY <1>1, <1>4, <3>2, <3>3 DEF BackInv, Linking, Back
    <2> QED
      BY <1>1, <1>2, <1>5, <2>1, <2>5, <2>6, <2>7, <2>8
  <1> QED
    BY <1>5, <1>7, <1>9, <1>10, <1>11, <1>12, <1>13 DEF ChainInv

(* A crash: what is on disk stays, nobody is under way. *)
LEMMA ChainCrashStep == ASSUME ChainInv, ChainCrash PROVE ChainInv'
  <1>1. /\ deaths < MaxDeaths /\ deaths' = deaths + 1 /\ at' = "idle" /\ cur' = Invalid /\ pv' = Invalid
        /\ scan' = [s \in Scanner |-> closed]
        /\ UNCHANGED <<first, last, segFirst, segLast, usedSegNum, node, pages, added>>
    BY DEF ChainCrash, chain
  <1>2. deaths \in Nat /\ MaxDeaths \in Nat
    BY Known DEF ChainInv, ChainTypeOK
  <1>3. Forward' = Forward /\ OrderInv'
    <2>1. Follows(pages)'
      BY <1>1, Known DEF Follows
    <2>2. \A e \in Forward : room(e)' \in Nat /\ room(e) <= room(e)'
      BY <1>1, Known, Rooms
    <2> QED
      BY <1>1, <2>1, <2>2, Frame
  <1>4. closed \in [at : {"idle", "enter", "in", "end"}, cur : ExtOrNone, lock : BOOLEAN,
                    seen : Seq(Ext), start : SUBSET Ext]
    BY DEF closed, ExtOrNone
  <1>5. scan' \in [Scanner -> [at : {"idle", "enter", "in", "end"}, cur : ExtOrNone, lock : BOOLEAN,
                               seen : Seq(Ext), start : SUBSET Ext]]
    BY <1>1, <1>4
  <1>6. ChainTypeOK'
    BY <1>1, <1>2, <1>5 DEF ChainInv, ChainTypeOK, ExtOrNone
  <1>7. ScanInv'
    <2> SUFFICES ASSUME NEW s \in Scanner PROVE ScanOK(scan[s])'
      BY DEF ScanInv
    <2>1. scan'[s] = closed
      BY <1>1
    <2> QED
      BY <2>1 DEF ScanOK, closed
  <1>8. SegInv'
    BY <1>1, <1>3, SegSame
  <1>9. WriterInv'
    BY <1>1, <1>3, Known DEF WriterInv, FirstPath, AppendPath, Linking
  <1>10. TallyInv'
    <2>1. usedSegNum \in Nat /\ uncounted \in {0, 1} /\ uncounted' = 0
      BY <1>1, Known DEF ChainInv, ChainTypeOK, uncounted
    <2>2. segsUsed' = segsUsed /\ TallyInv
      BY <1>1 DEF segsUsed, ChainInv
    <2> QED
      BY <1>1, <1>2, <2>1, <2>2, SegsFinite DEF TallyInv
  <1>11. ExactInv'
    BY <1>1, <1>2 DEF ExactInv
  <1>12. (added \subseteq Forward)'
    BY <1>1, <1>3 DEF ChainInv
  <1> QED
    BY <1>3, <1>6, <1>7, <1>8, <1>9, <1>10, <1>11, <1>12 DEF ChainInv

-----------------------------------------------------------------------------
(* The scans *)

ScanState == [at : {"idle", "enter", "in", "end"}, cur : ExtOrNone, lock : BOOLEAN,
              seen : Seq(Ext), start : SUBSET Ext]

(* A scan stores nothing in the chain: only what it knows is to be shown.  *)
LEMMA ChainStays ==
  ASSUME ChainInv, UNCHANGED scanRest, scan' \in [Scanner -> ScanState],
         \A t \in Scanner : ScanOK(scan'[t])
  PROVE  ChainInv'
  <1>1. UNCHANGED <<first, last, segFirst, segLast, usedSegNum, node, pages, at, cur, pv, added, deaths>>
    BY DEF scanRest, chain
  <1>2. ChainTypeOK'
    BY <1>1 DEF ChainInv, ChainTypeOK, ScanState
  <1>3. Forward' = Forward
    BY <1>1 DEF Forward, Follows
  <1>4. \A e : /\ logicID(e)' = logicID(e) /\ nx(e)' = nx(e) /\ seg(e)' = seg(e) /\ room(e)' = room(e)
               /\ InRange(e)' = InRange(e)
    BY <1>1 DEF logicID, nx, seg, extent2Segment, room, taken, InRange
  <1>5. OrderInv'
    BY <1>1, <1>3, <1>4 DEF ChainInv, OrderInv, Follows, Successor, InRange, logicID, nx, seg, extent2Segment
  <1>6. SegInv'
    BY <1>1, <1>3 DEF ChainInv, SegInv, logicID, seg, extent2Segment
  <1>7. WriterInv'
    <2>1. Placed' = Placed /\ after' = after
      BY <1>1, <1>3, <1>4 DEF Placed, InRange, logicID, seg, extent2Segment, after
    <2> QED
      BY <1>1, <1>3, <2>1 DEF ChainInv, WriterInv, logicID, nx, seg, extent2Segment
  <1>8. TallyInv'
    BY <1>1 DEF ChainInv, TallyInv, uncounted, segsUsed
  <1>9. ExactInv'
    <2>1. SegEnds' = SegEnds
      BY <1>1 DEF SegEnds, CurEnds, Ends, Least, Greatest, in, logicID, seg, extent2Segment
    <2>2. LastInv' = LastInv
      BY <1>1 DEF LastInv, Greatest, logicID
    <2>3. BackInv' = BackInv
      BY <1>1 DEF BackInv, Back, nx
    <2> QED
      BY <1>1, <1>3, <2>1, <2>2, <2>3 DEF ChainInv, ExactInv
  <1>10. ScanInv'
    <2> SUFFICES ASSUME NEW t \in Scanner PROVE ScanOK(scan[t])'
      BY DEF ScanInv
    <2>1. ScanOK(scan'[t])
      OBVIOUS
    <2> QED
      BY <1>1, <1>3, <2>1 DEF ScanOK, logicID, met
  <1>11. (added \subseteq Forward)'
    BY <1>1, <1>3 DEF ChainInv
  <1> QED
    BY <1>2, <1>5, <1>6, <1>7, <1>8, <1>9, <1>10, <1>11 DEF ChainInv

LEMMA ScanMoves ==
  ASSUME ChainInv, UNCHANGED scanRest, NEW s \in Scanner, NEW c \in ScanState,
         scan' = [scan EXCEPT ![s] = c], ScanOK(c)
  PROVE  ChainInv'
  <1>1. scan \in [Scanner -> ScanState] /\ \A t \in Scanner : ScanOK(scan[t])
    BY DEF ChainInv, ChainTypeOK, ScanState, ScanInv
  <1>2. scan' \in [Scanner -> ScanState] /\ \A t \in Scanner : ScanOK(scan'[t])
    BY <1>1
  <1> QED
    BY <1>2, ChainStays

LEMMA OpenScanStep == ASSUME ChainInv, NEW s \in Scanner, openScan(s) PROVE ChainInv'
  <1> DEFINE c == [at |-> "enter", cur |-> first, lock |-> FALSE, seen |-> <<>>, start |-> Forward]
  <1>1. first # Invalid /\ scan' = [scan EXCEPT ![s] = c] /\ UNCHANGED scanRest
    BY DEF openScan
  <1>2. first \in Forward /\ Forward \subseteq Ext
    BY <1>1, Known
  <1>3. c \in ScanState
    BY <1>2 DEF ScanState, ExtOrNone
  <1>4. \A e \in Forward : ~(logicID(e) < logicID(first))
    <2>1. \A e \in Forward : logicID(first) <= logicID(e) /\ logicID(e) \in Int
      BY <1>2, Known DEF ChainInv, OrderInv
    <2> QED
      BY <1>2, <2>1
  <1>5. ScanOK(c)
    BY <1>2, <1>4 DEF ScanOK
  <1> QED
    BY <1>1, <1>3, <1>5, ScanMoves

(* One more extent in what a scan has met. *)
LEMMA Appended ==
  ASSUME NEW q \in Seq(Ext), NEW x \in Ext
  PROVE  /\ Append(q, x) \in Seq(Ext) /\ Len(q) \in Nat /\ Len(Append(q, x)) = Len(q) + 1
         /\ Append(q, x)[Len(q) + 1] = x /\ Append(q, x) # <<>>
         /\ \A i \in 1 .. Len(q) : Append(q, x)[i] = q[i]
         /\ (q # <<>> <=> Len(q) > 0)
         /\ DOMAIN q = 1 .. Len(q) /\ DOMAIN Append(q, x) = 1 .. Len(q) + 1
  OBVIOUS

LEMMA FirstInitStep == ASSUME ChainInv, NEW s \in Scanner, firstInit(s) PROVE ChainInv'
  <1> DEFINE c == scan[s]
             d == [c EXCEPT !.at = "in", !.lock = TRUE, !.seen = Append(c.seen, c.cur)]
  <1>1. c.at = "enter" /\ UNCHANGED scanRest
    BY DEF firstInit
  <1>2. c \in ScanState /\ ScanOK(c) /\ scan \in [Scanner -> ScanState]
    BY DEF ChainInv, ChainTypeOK, ScanState, ScanInv
  <1>3. scan' = [scan EXCEPT ![s] = d]
    BY <1>2 DEF firstInit
  <1>4. /\ c.cur \in Forward /\ c.start \subseteq Forward /\ c.seen \in Seq(Ext)
        /\ \A i \in 1 .. Len(c.seen) : c.seen[i] \in Forward
        /\ \A i \in 1 .. Len(c.seen) - 1 : logicID(c.seen[i]) < logicID(c.seen[i + 1])
        /\ c.seen # <<>> => logicID(c.seen[Len(c.seen)]) < logicID(c.cur)
        /\ \A e \in c.start : logicID(e) < logicID(c.cur) => e \in met(c)
    BY <1>1, <1>2 DEF ScanOK, ScanState
  <1>5. c.cur \in Ext
    BY <1>4, Known
  <1>6. /\ d.at = "in" /\ d.lock = TRUE /\ d.seen = Append(c.seen, c.cur) /\ d.cur = c.cur
        /\ d.start = c.start /\ d \in ScanState
    <2> DEFINE q == Append(c.seen, c.cur)
    <2>1. q \in Seq(Ext)
      BY <1>4, <1>5, Appended
    <2> HIDE DEF q
    <2>2. [c EXCEPT !.at = "in", !.lock = TRUE, !.seen = q] \in ScanState
      BY <1>2, <2>1 DEF ScanState
    <2>3. d.at = "in" /\ d.lock = TRUE /\ d.seen = q /\ d.cur = c.cur /\ d.start = c.start
      BY <1>2, <2>1 DEF ScanState, q
    <2> QED
      BY <2>2, <2>3 DEF q
  <1> HIDE DEF c, d
  <1> DEFINE n == Len(c.seen)
  <1>7. /\ n \in Nat /\ Len(d.seen) = n + 1 /\ d.seen[n + 1] = c.cur /\ d.seen # <<>>
        /\ \A i \in 1 .. n : d.seen[i] = c.seen[i]
        /\ (c.seen # <<>> <=> n > 0) /\ DOMAIN c.seen = 1 .. n /\ DOMAIN d.seen = 1 .. n + 1
    BY <1>4, <1>5, <1>6, Appended
  <1> HIDE DEF n
  <1>8. \A i \in 1 .. Len(d.seen) : d.seen[i] \in Forward
    <2> TAKE i \in 1 .. Len(d.seen)
    <2>1. i \in 1 .. n \/ i = n + 1
      BY <1>7
    <2> QED
      BY <1>4, <1>7, <2>1 DEF n
  <1>9. \A i \in 1 .. Len(d.seen) - 1 : logicID(d.seen[i]) < logicID(d.seen[i + 1])
    <2> TAKE i \in 1 .. Len(d.seen) - 1
    <2>1. i \in 1 .. n - 1 \/ (i = n /\ n > 0)
      BY <1>7
    <2>2. CASE i \in 1 .. n - 1
      <3>1. i \in 1 .. n /\ i + 1 \in 1 .. n
        BY <1>7, <2>2
      <3> QED
        BY <1>4, <1>7, <2>2, <3>1 DEF n
    <2>3. CASE i = n /\ n > 0
      <3>1. i \in 1 .. n
        BY <1>7, <2>3
      <3> QED
        BY <1>4, <1>7, <2>3, <3>1 DEF n
    <2> QED
      BY <2>1, <2>2, <2>3
  <1>10. met(c) \subseteq met(d) /\ c.cur \in met(d)
    <2>1. \A i \in DOMAIN c.seen : c.seen[i] \in met(d)
      <3> TAKE i \in DOMAIN c.seen
      <3>1. i \in 1 .. n /\ i \in DOMAIN d.seen
        BY <1>7
      <3> QED
        BY <1>7, <3>1 DEF met
    <2>2. n + 1 \in DOMAIN d.seen
      BY <1>7
    <2> QED
      BY <1>7, <2>1, <2>2 DEF met
  <1>11. \A e \in d.start : logicID(e) <= logicID(d.cur) => e \in met(d)
    <2> SUFFICES ASSUME NEW e \in c.start, logicID(e) <= logicID(c.cur) PROVE e \in met(d)
      BY <1>6
    <2>1. logicID(e) \in Int /\ logicID(c.cur) \in Int /\ e \in Forward
      BY <1>4, Known
    <2>2. CASE logicID(e) < logicID(c.cur)
      BY <1>4, <1>10, <2>2
    <2>3. CASE logicID(e) = logicID(c.cur)
      <3>1. e = c.cur
        BY <1>4, <2>1, <2>3 DEF ChainInv, OrderInv
      <3> QED
        BY <1>10, <3>1
    <2> QED
      BY <2>1, <2>2, <2>3
  <1>12. ScanOK(d)
    BY <1>4, <1>6, <1>7, <1>8, <1>9, <1>11 DEF ScanOK
  <1> QED
    BY <1>1, <1>3, <1>6, <1>12, ScanMoves

LEMMA PauseStep == ASSUME ChainInv, NEW s \in Scanner, pause(s) PROVE ChainInv'
  <1> DEFINE c == scan[s]
             d == [c EXCEPT !.lock = FALSE]
  <1>1. c \in ScanState /\ ScanOK(c) /\ scan \in [Scanner -> ScanState] /\ UNCHANGED scanRest
    BY DEF ChainInv, ChainTypeOK, ScanState, ScanInv, pause
  <1>2. scan' = [scan EXCEPT ![s] = d]
    BY <1>1 DEF pause
  <1>3. d.at = c.at /\ d.seen = c.seen /\ d.cur = c.cur /\ d.start = c.start /\ d \in ScanState
    BY <1>1 DEF ScanState
  <1> HIDE DEF c, d
  <1>4. met(d) = met(c)
    BY <1>3 DEF met
  <1>5. ScanOK(d)
    BY <1>1, <1>3, <1>4 DEF ScanOK
  <1> QED
    BY <1>1, <1>2, <1>3, <1>5, ScanMoves

LEMMA StepToNextStep == ASSUME ChainInv, NEW s \in Scanner, stepToNextExtent(s) PROVE ChainInv'
  <1> DEFINE c == scan[s]
             x == node[c.cur].next
             d == [c EXCEPT !.at = "enter", !.cur = x]
             g == [c EXCEPT !.at = "end", !.lock = FALSE]
  <1>1. c \in ScanState /\ ScanOK(c) /\ scan \in [Scanner -> ScanState] /\ UNCHANGED scanRest /\ c.at = "in"
    BY DEF ChainInv, ChainTypeOK, ScanState, ScanInv, stepToNextExtent
  <1>2. /\ c.cur \in Forward /\ c.start \subseteq Forward /\ c.seen \in Seq(Ext)
        /\ c.seen # <<>> /\ c.seen[Len(c.seen)] = c.cur
        /\ \A e \in c.start : logicID(e) <= logicID(c.cur) => e \in met(c)
    BY <1>1 DEF ScanOK, ScanState
  <1>3. Successor(c.cur) /\ nx(c.cur) = x /\ (x # Invalid => x \in Forward)
    BY <1>2, Known DEF ChainInv, OrderInv, nx
  <1>4. \A e \in Forward : logicID(e) \in Int
    BY Known
  <1>5. CASE x # Invalid
    <2>1. scan' = [scan EXCEPT ![s] = d]
      BY <1>1, <1>5 DEF stepToNextExtent
    <2>2. x \in ExtOrNone
      BY <1>3, <1>5, Known DEF ExtOrNone
    <2>3. d.at = "enter" /\ d.seen = c.seen /\ d.cur = x /\ d.start = c.start /\ d \in ScanState
      BY <1>1, <2>2 DEF ScanState
    <2> HIDE DEF c, d, x
    <2>4. met(d) = met(c)
      BY <2>3 DEF met
    <2>5. \A e \in c.start : logicID(e) < logicID(x) => e \in met(c)
      <3> TAKE e \in c.start
      <3>1. logicID(e) <= logicID(c.cur) \/ logicID(x) <= logicID(e)
        BY <1>2, <1>3, <1>5 DEF Successor
      <3> QED
        BY <1>2, <1>3, <1>4, <1>5, <3>1
    <2>6. logicID(c.cur) < logicID(x)
      BY <1>3, <1>5 DEF Successor
    <2>7. ScanOK(d)
      BY <1>1, <1>2, <1>3, <1>5, <2>3, <2>4, <2>5, <2>6 DEF ScanOK
    <2> QED
      BY <1>1, <2>1, <2>3, <2>7, ScanMoves
  <1>6. CASE x = Invalid
    <2>1. scan' = [scan EXCEPT ![s] = g]
      BY <1>1, <1>6 DEF stepToNextExtent
    <2>2. g.at = "end" /\ g.seen = c.seen /\ g.start = c.start /\ g \in ScanState
      BY <1>1 DEF ScanState
    <2> HIDE DEF c, g, x
    <2>3. met(g) = met(c)
      BY <2>2 DEF met
    <2>4. c.start \subseteq met(c)
      BY <1>2, <1>3, <1>6 DEF Successor
    <2>5. ScanOK(g)
      BY <1>1, <1>2, <2>2, <2>3, <2>4 DEF ScanOK
    <2> QED
      BY <1>1, <2>1, <2>2, <2>5, ScanMoves
  <1> QED
    BY <1>5, <1>6

LEMMA CloseScanStep == ASSUME ChainInv, NEW s \in Scanner, closeScan(s) PROVE ChainInv'
  <1>1. scan' = [scan EXCEPT ![s] = closed] /\ UNCHANGED scanRest
    BY DEF closeScan
  <1>2. closed \in ScanState
    BY DEF closed, ScanState, ExtOrNone
  <1>3. ScanOK(closed)
    BY DEF ScanOK, closed
  <1> QED
    BY <1>1, <1>2, <1>3, ScanMoves

-----------------------------------------------------------------------------
(* The theorems *)

LEMMA ChainInitInv == ASSUME ChainInit PROVE ChainInv
  <1>1. Forward = {}
    BY DEF ChainInit, Forward
  <1>2. /\ fresh \in Header /\ closed \in ScanState /\ Invalid \in ExtOrNone
        /\ SegNum \in Nat /\ MaxDeaths \in Nat
    BY ChainAssumption DEF fresh, Header, closed, ScanState, ExtOrNone
  <1>3. ChainTypeOK
    <2>1. node \in [Ext -> Header] /\ scan \in [Scanner -> ScanState]
      BY <1>2 DEF ChainInit
    <2>2. /\ first \in ExtOrNone /\ last \in ExtOrNone /\ segFirst \in [Seg -> ExtOrNone]
          /\ segLast \in [Seg -> ExtOrNone] /\ usedSegNum \in 0 .. SegNum /\ pages = {} /\ added = {}
          /\ at = "idle" /\ cur \in ExtOrNone /\ pv \in ExtOrNone /\ deaths \in 0 .. MaxDeaths
      BY <1>2 DEF ChainInit
    <2> QED
      BY <2>1, <2>2 DEF ChainTypeOK, Header, ScanState
  <1>4. OrderInv /\ SegInv
    BY <1>1 DEF ChainInit, OrderInv, SegInv, Follows
  <1>5. WriterInv
    BY <1>1 DEF ChainInit, WriterInv, FirstPath, AppendPath, Linking
  <1>6. TallyInv
    <2>1. segsUsed = {}
      BY DEF ChainInit, segsUsed
    <2>2. Cardinality(segsUsed) = 0
      BY <2>1, FS_EmptySet
    <2>3. uncounted = 0 /\ usedSegNum = 0
      BY DEF ChainInit, uncounted
    <2> QED
      BY <2>2, <2>3 DEF TallyInv
  <1>7. ExactInv
    <2>1. SegEnds
      BY DEF ChainInit, SegEnds, Ends, in
    <2>2. LastInv /\ BackInv
      BY DEF ChainInit, LastInv, BackInv, FirstPath, Linking
    <2> QED
      BY <1>1, <2>1, <2>2 DEF ChainInit, ExactInv
  <1>8. ScanInv
    <2>1. \A s \in Scanner : scan[s] = closed
      BY DEF ChainInit
    <2>2. ScanOK(closed)
      BY DEF ScanOK, closed
    <2> QED
      BY <2>1, <2>2 DEF ScanInv
  <1>9. added \subseteq Forward
    BY DEF ChainInit
  <1> QED
    BY <1>3, <1>4, <1>5, <1>6, <1>7, <1>8, <1>9 DEF ChainInv

LEMMA ChainStep == ASSUME ChainInv, [ChainNext]_chainVars PROVE ChainInv'
  <1>1. ASSUME NEW e \in Ext, allocateExtent(e) PROVE ChainInv'
    BY <1>1, AllocateExtentStep
  <1>2. CASE newLogicID
    BY <1>2, NewLogicIDStep
  <1>3. CASE setFirstExtentID
    BY <1>3, SetFirstStep
  <1>4. CASE setLastExtentID
    BY <1>4, SetLastStep
  <1>5. CASE countSegment
    BY <1>5, CountStep
  <1>6. CASE findPrev
    BY <1>6, FindStep
  <1>7. CASE appendLast
    BY <1>7, AppendLastStep
  <1>8. CASE appendPrev
    BY <1>8, AppendPrevStep
  <1>9. CASE appendLogicID
    BY <1>9, AppendLogicIDStep
  <1>10. CASE linkNext
    BY <1>10, LinkNextStep
  <1>11. CASE linkBack
    BY <1>11, LinkBackStep
  <1>12. CASE linkAtEnd
    BY <1>12, LinkAtEndStep
  <1>13. CASE linkForward
    BY <1>13, LinkForwardStep
  <1>14. CASE finish
    BY <1>14, FinishStep
  <1>15. CASE ChainCrash
    BY <1>15, ChainCrashStep
  <1>16. ASSUME NEW s \in Scanner, ScanStep(s) PROVE ChainInv'
    BY <1>16, OpenScanStep, FirstInitStep, PauseStep, StepToNextStep, CloseScanStep DEF ScanStep
  <1>17. CASE UNCHANGED chainVars
    <2>1. UNCHANGED scanRest /\ scan' = scan
      BY <1>17 DEF chainVars, scanRest
    <2>2. scan' \in [Scanner -> ScanState] /\ \A t \in Scanner : ScanOK(scan'[t])
      BY <2>1 DEF ChainInv, ChainTypeOK, ScanState, ScanInv
    <2> QED
      BY <2>1, <2>2, ChainStays
  <1> QED
    BY <1>1, <1>2, <1>3, <1>4, <1>5, <1>6, <1>7, <1>8, <1>9, <1>10, <1>11, <1>12, <1>13, <1>14,
       <1>15, <1>16, <1>17 DEF ChainNext, AllocateStep

(* The invariant of the chain, for any number of segments, pages, scans    *)
(* and crashes.                                                            *)
THEOREM ChainInvariance == ChainSpec => []ChainInv
  BY ChainInitInv, ChainStep, PTL DEF ChainSpec

(* The chain whole at rest: what the invariant says of an idle writer. *)
LEMMA AtRest == ASSUME ChainInv, at = "idle", deaths = 0 PROVE ChainExact
  <1>1. Forward = added /\ SegEnds /\ LastInv /\ BackInv /\ added \subseteq Ext /\ Invalid \notin Ext
    BY Known DEF ChainInv, ExactInv
  <1>2. \A e \in added : logicID(e) \in Int /\ Successor(e) /\ (nx(e) # Invalid => nx(e) \in added)
    BY <1>1, Known DEF ChainInv, OrderInv
  <1>3. added = {} => last = Invalid
    BY <1>1 DEF LastInv
  <1>4. added # {} => Greatest(added, last)
    BY <1>1 DEF LastInv
  <1>5. Ends(added, first, last)
    <2>1. CASE added = {}
      BY <1>1, <1>3, <2>1, Known DEF Ends
    <2>2. CASE added # {}
      <3>1. first \in added
        BY <1>1, <2>2, Known, NoWalk
      <3>2. Least(added, first)
        BY <1>1, <3>1 DEF Least, ChainInv, OrderInv
      <3> QED
        BY <1>4, <2>2, <3>2 DEF Ends
    <2> QED
      BY <2>1, <2>2
  <1>6. \A s \in Seg : Ends(in(s), segFirst[s], segLast[s])
    BY <1>1 DEF SegEnds
  <1>7. usedSegNum = Cardinality({s \in Seg : in(s) # {}})
    <2>1. \A s \in Seg : segLast[s] # Invalid <=> in(s) # {}
      <3> TAKE s \in Seg
      <3>1. Invalid \notin in(s) /\ Ends(in(s), segFirst[s], segLast[s])
        BY <1>1, <1>6 DEF in
      <3> QED
        BY <3>1 DEF Ends, Greatest
    <2>2. segsUsed = {s \in Seg : in(s) # {}}
      BY <2>1 DEF segsUsed
    <2>3. usedSegNum \in Nat /\ uncounted = 0
      BY Known DEF ChainInv, ChainTypeOK, uncounted
    <2>4. usedSegNum + uncounted = Cardinality(segsUsed)
      BY DEF ChainInv, TallyInv
    <2>5. usedSegNum = Cardinality(segsUsed)
      BY <2>3, <2>4
    <2> QED
      BY <2>2, <2>5
  <1>8. ASSUME NEW e \in added
        PROVE  Ends({f \in added : logicID(f) > logicID(e)}, nx(e), IF nx(e) = Invalid THEN Invalid ELSE last)
    <2>1. CASE nx(e) = Invalid
      <3>1. {f \in added : logicID(f) > logicID(e)} = {}
        BY <1>1, <1>2, <2>1 DEF Successor
      <3> QED
        BY <2>1, <3>1 DEF Ends
    <2>2. CASE nx(e) # Invalid
      <3>1. nx(e) \in added /\ logicID(e) < logicID(nx(e)) /\ logicID(e) \in Int /\ logicID(nx(e)) \in Int
        BY <1>2, <2>2 DEF Successor
      <3>2. \A f \in added : logicID(f) <= logicID(e) \/ logicID(nx(e)) <= logicID(f)
        BY <1>1, <1>2, <2>2 DEF Successor
      <3>3. last \in added /\ \A f \in added : logicID(f) <= logicID(last)
        BY <1>4 DEF Greatest
      <3> DEFINE S == {f \in added : logicID(f) > logicID(e)}
      <3>4. Least(S, nx(e))
        BY <1>2, <3>1, <3>2 DEF Least
      <3>5. Greatest(S, last)
        BY <1>2, <3>1, <3>3 DEF Greatest
      <3>6. S # {}
        BY <3>1
      <3> QED
        BY <2>2, <3>4, <3>5, <3>6 DEF Ends
    <2> QED
      BY <2>1, <2>2
  <1>9. \A e \in added : IF e = first THEN node[e].prev = Invalid
                         ELSE node[e].prev \in added /\ node[node[e].prev].next = e
    BY <1>1 DEF BackInv, Back, nx
  <1> QED
    BY <1>5, <1>6, <1>7, <1>8, <1>9 DEF ChainExact, nx

(* ChainSound: addExtent2Meta keeps the chain whole when it is not under   *)
(* way, and sorted at each of its stores and after every crash.            *)
THEOREM ChainIsSound == ChainSpec => []ChainSound
  <1>1. ASSUME ChainInv PROVE ChainSound
    <2>1. ChainTypeOK
      BY <1>1 DEF ChainInv
    <2>2. ChainExact
      <3>1. CASE at = "idle" /\ deaths = 0
        BY <1>1, <3>1, AtRest
      <3> QED
        BY <3>1 DEF ChainExact
    <2>3. \A e \in Forward : nx(e) # Invalid => logicID(e) < logicID(nx(e))
      BY <1>1 DEF ChainInv, OrderInv, Successor
    <2>4. \A e, f \in Forward : seg(e) < seg(f) => logicID(e) < logicID(f)
      BY <1>1, RangeOrder, Known DEF ChainInv, OrderInv
    <2>5. ForwardSorted
      BY <2>3, <2>4 DEF ForwardSorted, nx, seg
    <2> QED
      BY <2>1, <2>2, <2>5 DEF ChainSound
  <1> QED
    BY <1>1, ChainInvariance, PTL

(* Kept: no crash between two stores, and no allocation after it, cuts off *)
(* an extent that was in use before.                                       *)
THEOREM ExtentsAreKept == ChainSpec => []Kept
  <1>1. ChainInv => Kept
    BY DEF ChainInv, Kept
  <1> QED
    BY <1>1, ChainInvariance, PTL

(* ScanComplete: a scan that has come to the end has met every extent of   *)
(* the chain it began with, in rising order, whatever was linked in.       *)
THEOREM ScansAreComplete == ChainSpec => []ScanComplete
  <1>1. ASSUME ChainInv PROVE ScanComplete
    <2> SUFFICES ASSUME NEW s \in Scanner
                 PROVE  /\ \A i \in 1 .. Len(scan[s].seen) - 1 :
                             logicID(scan[s].seen[i]) < logicID(scan[s].seen[i + 1])
                        /\ scan[s].at = "end" =>
                             scan[s].start \subseteq {scan[s].seen[i] : i \in DOMAIN scan[s].seen}
      BY DEF ScanComplete
    <2>1. ScanOK(scan[s])
      BY <1>1 DEF ChainInv, ScanInv
    <2> QED
      BY <2>1 DEF ScanOK, met
  <1> QED
    BY <1>1, ChainInvariance, PTL

-----------------------------------------------------------------------------
(***************************************************************************)
(* The record space.  Records and deleted records of a collection are      *)
(* exact for any number of sessions, sizes of records and extents.  The    *)
(* properties are not inductive alone: a step relies on who holds the mb   *)
(* latch, on what _mapExtent2DelList has yet to cut, and, for the retry of *)
(* _allocRecordSpace, on where the record that fits stands in its list.    *)
(***************************************************************************)
(* Who searches or cuts holds the mb latch, and an insert that is back     *)
(* from an extent has not let go of it since.                              *)
HoldInv ==
  /\ left > 0 => mbLatch = Creator \/ \E s \in Inserter : mbLatch = s /\ pc[s] = "search"
  /\ \A s \in Inserter :
       /\ pc[s] = "search" => mbLatch = s
       /\ mbLatch = s => pc[s] # "idle"
       /\ pc[s] # "idle" => need[s] \in Sizes
       /\ tries[s] \in {0, 1} /\ (tries[s] = 1 => pc[s] = "search")

(* What is left of an extent ends where a page does. *)
LeftInv ==
  left > 0 => /\ Len(ext) > 0 /\ left + Meta <= EndOf(Len(ext))
              /\ \E m \in 1 .. SegmentPages : left + Meta = m * PageSize

(* A record that fits is at the head of its list while more of the extent  *)
(* is to come, and not far behind it then.                                 *)
TryInv ==
  \A s \in Inserter : tries[s] = 1 =>
    \/ left >= need[s]
    \/ \E j \in DelSlot : /\ j >= SlotOf(need[s])
                          /\ \E i \in FitsAt(j, need[s]) : i = 1 \/ (i = 2 /\ left = 0)

RecordInv ==
  /\ RecordTypeOK /\ HoldInv /\ LeftInv /\ Tiled /\ FreeSpaceExact /\ ListsExact
  /\ RecordChain /\ TryInv

-----------------------------------------------------------------------------
(* Size classes, pages and lists *)

LEMMA SlotFinite == IsFiniteSet(DelSlot) /\ Cardinality(DelSlot) = DelSlots
  <1>1. 0 \in Int /\ DelSlots - 1 \in Int /\ DelSlots \in Nat \ {0}
    BY RecordAssumption
  <1>2. IsFiniteSet(0 .. DelSlots - 1)
        /\ Cardinality(0 .. DelSlots - 1) =
             IF 0 > DelSlots - 1 THEN 0 ELSE DelSlots - 1 - 0 + 1
    BY <1>1, FS_Interval
  <1> QED
    BY <1>1, <1>2 DEF DelSlot

(* A record of any size has a class, and a larger one no lower class.      *)
LEMMA SlotType ==
  ASSUME NEW n \in 1 .. MaxRec
  PROVE  SlotOf(n) \in DelSlot
  <1> DEFINE K == {k \in DelSlot : n > ClassBound(k)}
             top == DelSlots - 1
  <1>1. top \in DelSlot /\ DelSlots \in Nat \ {0}
    BY RecordAssumption DEF DelSlot
  <1>2. top \notin K
    BY <1>1, RecordAssumption
  <1>3. K \in SUBSET (DelSlot \ {top})
    BY <1>2
  <1>4. IsFiniteSet(DelSlot \ {top}) /\ Cardinality(DelSlot \ {top}) = DelSlots - 1
    BY <1>1, SlotFinite, FS_RemoveElement
  <1> HIDE DEF K
  <1>5. IsFiniteSet(K) /\ Cardinality(K) <= DelSlots - 1
    BY <1>3, <1>4, FS_Subset
  <1>6. Cardinality(K) \in Nat
    BY <1>5, FS_CardinalityType
  <1>7. Cardinality(K) \in DelSlot
    BY <1>1, <1>5, <1>6 DEF DelSlot
  <1> QED
    BY <1>7 DEF SlotOf, K

LEMMA SlotOrder ==
  ASSUME NEW n \in 1 .. MaxRec, NEW m \in n .. MaxRec
  PROVE  SlotOf(n) <= SlotOf(m)
  <1> DEFINE K == {k \in DelSlot : n > ClassBound(k)}
             L == {k \in DelSlot : m > ClassBound(k)}
  <1>1. \A k \in DelSlot : ClassBound(k) \in Nat
    BY RecordAssumption
  <1>2. MaxRec \in Nat
    BY RecordAssumption
  <1>3. K \subseteq L
    BY <1>1, <1>2
  <1>4. L \in SUBSET DelSlot
    OBVIOUS
  <1> HIDE DEF K, L
  <1>5. IsFiniteSet(L)
    BY <1>4, SlotFinite, FS_Subset
  <1>6. Cardinality(K) <= Cardinality(L)
    BY <1>3, <1>5, FS_Subset
  <1> QED
    BY <1>6 DEF SlotOf, K, L

(* The pages an insert asks for hold its record and the metadata.          *)
LEMMA Divided ==
  ASSUME NEW x \in Nat, NEW d \in Nat \ {0}
  PROVE  /\ (x + d - 1) \div d \in Nat
         /\ ((x + d - 1) \div d) * d >= x
  OBVIOUS

LEMMA PagesFit ==
  ASSUME NEW n \in Sizes
  PROVE  ReqPages(n) \in 1 .. SegmentPages /\ ReqPages(n) * PageSize >= n + Meta
  <1> DEFINE many   == n * PerExtent
             expand == IF many <= BestUp THEN many ELSE IF n < BestUp THEN BestUp ELSE n
             req    == (expand + Meta + PageSize - 1) \div PageSize
  <1>1. /\ n \in Nat /\ n <= MaxRec /\ n > 0 /\ MaxRec \in Nat
        /\ PerExtent \in Nat \ {0} /\ BestUp \in Nat /\ Meta \in Nat
        /\ PageSize \in Nat \ {0} /\ SegmentPages \in Nat \ {0}
        /\ SegmentPages * PageSize >= Meta + MaxRec
    BY RecordAssumption
  <1>2. many \in Nat /\ many >= n
    BY <1>1
  <1>3. expand \in Nat /\ expand >= n
    BY <1>1, <1>2
  <1> HIDE DEF expand
  <1>4. expand + Meta \in Nat
    BY <1>1, <1>3
  <1>5. req \in Nat /\ req * PageSize >= expand + Meta
    BY <1>1, <1>4, Divided
  <1> HIDE DEF req
  <1>6. CASE req > SegmentPages
    BY <1>1, <1>6 DEF ReqPages, req, expand
  <1>7. CASE req <= SegmentPages
    <2>1. req # 0
      BY <1>1, <1>3, <1>5
    <2>2. ReqPages(n) = req
      BY <1>1, <1>5, <1>7, <2>1 DEF ReqPages, req, expand
    <2> QED
      BY <1>1, <1>3, <1>5, <1>7, <2>1, <2>2
  <1> QED
    BY <1>1, <1>5, <1>6, <1>7

LEMMA Pushed ==
  ASSUME NEW S, NEW l \in Seq(S), NEW r \in S
  PROVE  /\ <<r>> \o l \in Seq(S) /\ Len(<<r>> \o l) = Len(l) + 1
         /\ (<<r>> \o l)[1] = r
         /\ \A i \in 1 .. Len(l) : (<<r>> \o l)[i + 1] = l[i]
         /\ \A i \in 2 .. Len(l) + 1 : (<<r>> \o l)[i] = l[i - 1]
  OBVIOUS

LEMMA Joined ==
  ASSUME NEW S, NEW a \in Seq(S), NEW b \in Seq(S)
  PROVE  /\ a \o b \in Seq(S) /\ Len(a \o b) = Len(a) + Len(b)
         /\ \A k \in 1 .. Len(a) : (a \o b)[k] = a[k]
         /\ \A k \in 1 .. Len(b) : (a \o b)[Len(a) + k] = b[k]
  OBVIOUS

LEMMA Removed ==
  ASSUME NEW S, NEW l \in Seq(S), NEW i \in 1 .. Len(l)
  PROVE  /\ Remove(l, i) \in Seq(S) /\ Len(Remove(l, i)) = Len(l) - 1
         /\ \A k \in 1 .. i - 1 : Remove(l, i)[k] = l[k]
         /\ \A k \in i .. Len(l) - 1 : Remove(l, i)[k] = l[k + 1]
  <1> DEFINE a == SubSeq(l, 1, i - 1)
             b == SubSeq(l, i + 1, Len(l))
  <1>1. Len(l) \in Nat /\ i \in Nat /\ 1 <= i /\ i <= Len(l)
    OBVIOUS
  <1>2. \A k \in 1 .. Len(l) : l[k] \in S
    OBVIOUS
  <1>3. /\ a \in Seq(S) /\ Len(a) = i - 1 /\ \A k \in 1 .. i - 1 : a[k] = l[k]
    <2>1. 1 \in 1 .. Len(l) + 1 /\ i - 1 \in 0 .. Len(l)
      BY <1>1
    <2> QED
      BY <1>1, <1>2, <2>1, SMTT(30)
  <1>4. /\ b \in Seq(S) /\ Len(b) = Len(l) - i
        /\ \A k \in 1 .. Len(l) - i : b[k] = l[i + k]
    BY <1>1, <1>2, SMTT(30)
  <1> HIDE DEF a, b
  <1>5. /\ a \o b \in Seq(S) /\ Len(a \o b) = Len(a) + Len(b)
        /\ \A k \in 1 .. Len(a) : (a \o b)[k] = a[k]
        /\ \A k \in 1 .. Len(b) : (a \o b)[Len(a) + k] = b[k]
    <2>1. a \in Seq(S) /\ b \in Seq(S)
      BY <1>3, <1>4
    <2> QED
      BY <2>1, Joined
  <1>6. \A k \in i .. Len(l) - 1 : k - i + 1 \in 1 .. Len(l) - i /\ k = Len(a) + (k - i + 1)
    BY <1>1, <1>3
  <1>7. \A k \in i .. Len(l) - 1 : (a \o b)[k] = l[k + 1]
    BY <1>1, <1>3, <1>4, <1>5, <1>6, SMTT(30)
  <1>8. Remove(l, i) = a \o b
    BY DEF Remove, a, b
  <1>9. Len(a \o b) = Len(l) - 1
    <2>1. Len(a \o b) = Len(a) + Len(b) /\ Len(a) = i - 1 /\ Len(b) = Len(l) - i
      BY <1>3, <1>4, <1>5, Zenon
    <2> QED
      BY <1>1, <2>1
  <1>10. \A k \in 1 .. i - 1 : (a \o b)[k] = l[k]
    <2>1. Len(a) = i - 1
      BY <1>3, Zenon
    <2> QED
      BY <1>3, <1>5, <2>1, Zenon
  <1> QED
    BY <1>5, <1>7, <1>8, <1>9, <1>10, Zenon

-----------------------------------------------------------------------------
(* What the invariant says of the extents *)

ExtentRec == [pages : 1 .. SegmentPages, recs : Nat, free : Nat,
              first : Nat \cup {NoOffset}, last : Nat \cup {NoOffset}]
HeadRec   == [size : 1 .. MaxRec, deleted : BOOLEAN,
              prev : Nat \cup {NoOffset}, next : Nat \cup {NoOffset}]

DataType ==
  /\ ext \in Seq(ExtentRec)
  /\ heads \in [DOMAIN heads -> HeadRec] /\ DOMAIN heads \subseteq Extents \X Nat
  /\ del \in [DelSlot -> Seq(Extents \X Nat)]
  /\ left \in Nat

DataInv ==
  DataType /\ LeftInv /\ Tiled /\ FreeSpaceExact /\ ListsExact /\ RecordChain

LEMMA RidIs ==
  ASSUME NEW S, NEW r \in S \X Nat
  PROVE  r[1] \in S /\ r[2] \in Nat /\ r = <<r[1], r[2]>>
  OBVIOUS

LEMMA SpaceOf ==
  ASSUME NEW p \in 1 .. SegmentPages
  PROVE  /\ p * PageSize \in Nat /\ p * PageSize >= Meta + MinRec
         /\ p * PageSize - Meta \in Nat /\ p * PageSize - Meta >= MinRec
         /\ Meta \in Nat /\ MinRec \in Nat \ {0}
  <1>1. /\ PageSize \in Nat /\ SegmentPages \in Nat /\ Meta \in Nat
        /\ MinRec \in Nat \ {0} /\ PageSize >= Meta + MinRec
    BY RecordAssumption
  <1>2. p \in Nat /\ p >= 1
    BY <1>1
  <1>3. p * PageSize \in Nat /\ p * PageSize >= PageSize
    BY <1>1, <1>2
  <1> QED
    BY <1>1, <1>3

LEMMA EndIs ==
  ASSUME DataType, NEW e \in Extents
  PROVE  /\ ext[e] \in ExtentRec /\ Len(ext) \in Nat /\ e \in Nat
         /\ EndOf(e) \in Nat /\ EndOf(e) >= Meta + MinRec
         /\ Meta \in Nat /\ MinRec \in Nat \ {0}
  <1>1. ext[e] \in ExtentRec /\ Len(ext) \in Nat /\ e \in Nat
    BY DEF DataType, Extents
  <1>2. ext[e].pages \in 1 .. SegmentPages
    BY <1>1 DEF ExtentRec
  <1> QED
    BY <1>1, <1>2, SpaceOf DEF EndOf

LEMMA HeadIs ==
  ASSUME DataType, NEW r \in DOMAIN heads
  PROVE  /\ r[1] \in Extents /\ r[2] \in Nat /\ r = <<r[1], r[2]>>
         /\ heads[r] \in HeadRec /\ heads[r].size \in 1 .. MaxRec
         /\ heads[r].size \in Nat /\ heads[r].size > 0
  <1>1. r \in Extents \X Nat /\ heads[r] \in HeadRec
    BY DEF DataType
  <1>2. heads[r].size \in 1 .. MaxRec
    BY <1>1 DEF HeadRec
  <1>3. MaxRec \in Nat
    BY RecordAssumption
  <1> QED
    BY <1>1, <1>2, <1>3, RidIs

(* The chain of an extent depends on its records in use only. *)
LEMMA ChainSame ==
  ASSUME NEW e, ChainOf(e), Live(e)' = Live(e),
         \A r \in Live(e) : heads'[r] = heads[r],
         ext'[e].first = ext[e].first, ext'[e].last = ext[e].last,
         ext'[e].recs = ext[e].recs
  PROVE  ChainOf(e)'
  <1> DEFINE L == Live(e)
  <1>1. \A S \in SUBSET L : Visits(e, S)' <=> Visits(e, S)
    BY DEF Visits
  <1>2. Visits(e, L)
    BY DEF ChainOf
  <1>3. Visits(e, L)'  <=> (/\ ext'[e].first # NoOffset => <<e, ext'[e].first>> \in L'
                            /\ \A r \in L' : heads'[r].next # NoOffset => <<e, heads'[r].next>> \in L')
    BY DEF Visits
  <1>4. Visits(e, L)'
    BY <1>2, <1>3 DEF Visits
  <1>5. \A S \in SUBSET L : Visits(e, S)' => S = L
    BY <1>1 DEF ChainOf
  <1>6. \A r \in L : heads[r].next # NoOffset => heads'[<<e, heads[r].next>>].prev = r[2]
    BY <1>2 DEF ChainOf, Visits
  <1>7. /\ ext[e].recs = Cardinality(L)
        /\ ext[e].first = NoOffset <=> L = {}
        /\ ext[e].last = NoOffset <=> L = {}
        /\ ext[e].last # NoOffset => <<e, ext[e].last>> \in L
        /\ \A r \in L :
             /\ heads[r].prev = NoOffset <=> r[2] = ext[e].first
             /\ heads[r].next = NoOffset <=> r[2] = ext[e].last
    BY DEF ChainOf
  <1> SUFFICES /\ ext'[e].recs = Cardinality(L')
               /\ Visits(e, L)'
               /\ \A S \in SUBSET L' : Visits(e, S)' => S = L'
               /\ ext'[e].first = NoOffset <=> L' = {}
               /\ ext'[e].last = NoOffset <=> L' = {}
               /\ ext'[e].last # NoOffset => <<e, ext'[e].last>> \in L'
               /\ \A r \in L' :
                    /\ heads'[r].prev = NoOffset <=> r[2] = ext'[e].first
                    /\ heads'[r].next = NoOffset <=> r[2] = ext'[e].last
                    /\ heads'[r].next # NoOffset =>
                         heads'[<<e, heads'[r].next>>].prev = r[2]
    BY DEF ChainOf
  <1>8. L' = L /\ \A r \in L : heads'[r] = heads[r]
    OBVIOUS
  <1> HIDE DEF L
  <1> QED
    BY <1>4, <1>5, <1>6, <1>7, <1>8

(* Free space does as well, on its deleted records. *)
LEMMA FreeSame ==
  ASSUME NEW e, ext'[e].pages = ext[e].pages,
         \A r \in DOMAIN heads \cup DOMAIN heads' :
           r[1] = e => r \in DOMAIN heads /\ r \in DOMAIN heads' /\ heads'[r] = heads[r]
  PROVE  FreeBytes(e)' = FreeBytes(e)
  BY DEF FreeBytes, EndOf

-----------------------------------------------------------------------------
(* A new extent *)

LEMMA AddSteps ==
  ASSUME DataInv, left = 0, NEW p \in 1 .. SegmentPages, AddExtent(p)
  PROVE  /\ Len(ext') = Len(ext) + 1 /\ ext' \in Seq(ExtentRec)
         /\ \A e \in Extents : ext'[e] = ext[e]
         /\ ext'[Len(ext')] = [pages |-> p, recs |-> 0, free |-> 0,
                               first |-> NoOffset, last |-> NoOffset]
         /\ left' = p * PageSize - Meta /\ heads' = heads /\ del' = del
         /\ Len(ext) \in Nat
  <1> DEFINE x == [pages |-> p, recs |-> 0, free |-> 0,
                   first |-> NoOffset, last |-> NoOffset]
  <1>1. p * PageSize - Meta \in Nat /\ p * PageSize - Meta >= MinRec
    BY SpaceOf
  <1>2. ext' = Append(ext, x) /\ left' = p * PageSize - Meta /\ UNCHANGED <<heads, del>>
    BY <1>1 DEF AddExtent
  <1>3. x \in ExtentRec
    BY DEF ExtentRec
  <1>4. ext \in Seq(ExtentRec)
    BY DEF DataInv, DataType
  <1> HIDE DEF x
  <1>5. /\ Len(ext') = Len(ext) + 1 /\ ext' \in Seq(ExtentRec) /\ Len(ext) \in Nat
        /\ \A e \in 1 .. Len(ext) : ext'[e] = ext[e]
        /\ ext'[Len(ext) + 1] = x
    BY <1>2, <1>3, <1>4
  <1> QED
    BY <1>2, <1>5 DEF Extents, x

LEMMA AddData ==
  ASSUME DataInv, left = 0, NEW p \in 1 .. SegmentPages, AddExtent(p)
  PROVE  DataInv'
  <1>0. Len(ext) + 1 \in Nat
    BY DEF DataInv, DataType
  <1> PICK n \in Nat : n = Len(ext) + 1
    BY <1>0
  <1>1. /\ n = Len(ext) + 1 /\ Len(ext') = n /\ ext' \in Seq(ExtentRec) /\ Len(ext) \in Nat
        /\ \A e \in Extents : ext'[e] = ext[e]
        /\ ext'[n] = [pages |-> p, recs |-> 0, free |-> 0,
                      first |-> NoOffset, last |-> NoOffset]
        /\ left' = p * PageSize - Meta /\ heads' = heads /\ del' = del
    BY AddSteps
  <1>2. /\ p * PageSize \in Nat /\ p * PageSize - Meta \in Nat /\ Meta \in Nat
        /\ MinRec \in Nat \ {0} /\ p * PageSize - Meta >= MinRec
    BY SpaceOf
  <1>3. DataType
    BY DEF DataInv
  <1>4. Extents' = Extents \cup {n} /\ n \notin Extents /\ Extents \subseteq Extents'
    BY <1>1 DEF Extents
  <1>5. EndOf(n)' = p * PageSize /\ ext'[n].pages = p
    BY <1>1 DEF EndOf
  <1>6. \A e \in Extents : EndOf(e)' = EndOf(e)
    BY <1>1 DEF EndOf
  <1>7. DataType'
    <2>1. DOMAIN heads' \subseteq Extents' \X Nat
      BY <1>1, <1>3, <1>4 DEF DataType
    <2>2. \A j \in DelSlot : del[j] \in Seq(Extents' \X Nat)
      BY <1>3, <1>4 DEF DataType
    <2>3. del' \in [DelSlot -> Seq(Extents' \X Nat)]
      BY <1>1, <1>3, <2>2 DEF DataType
    <2> QED
      BY <1>1, <1>2, <1>3, <2>1, <2>3 DEF DataType
  <1>8. LeftInv'
    <2>1. n > 0 /\ left' + Meta <= EndOf(n)' /\ left' + Meta = p * PageSize
      BY <1>1, <1>2, <1>5
    <2>2. Len(ext') = n
      BY <1>1
    <2> QED
      BY <2>1, <2>2 DEF LeftInv
  <1>9. \A r \in DOMAIN heads : r[1] \in Extents /\ r[1] # n
    BY <1>3, <1>4 DEF DataType
  <1>10. Tiled'
    <2>1. \A e \in Extents : MappedEnd(e)' = MappedEnd(e)
      <3> SUFFICES ASSUME NEW e \in Extents PROVE MappedEnd(e)' = MappedEnd(e)
        OBVIOUS
      <3>1. e # n /\ EndOf(e)' = EndOf(e) /\ EndOf(e) \in Nat
        BY <1>3, <1>4, <1>6, EndIs
      <3>2. Len(ext') = n
        BY <1>1
      <3> QED
        BY <3>1, <3>2 DEF MappedEnd
    <2>2. MappedEnd(n)' = Meta
      BY <1>1, <1>2, <1>5 DEF MappedEnd
    <2>3. Tiled
      BY DEF DataInv
    <2>4. \A e \in Extents' : MappedEnd(e)' = Meta \/ <<e, Meta>> \in DOMAIN heads'
      BY <1>1, <1>4, <2>1, <2>2, <2>3 DEF Tiled
    <2> QED
      BY <1>1, <1>9, <2>1, <2>3, <2>4 DEF Tiled
  <1>11. FreeSpaceExact'
    <2>1. \A e \in Extents : FreeBytes(e)' = FreeBytes(e)
      BY <1>1, FreeSame
    <2>2. FreeBytes(n)' = {}
      BY <1>1, <1>9 DEF FreeBytes
    <2>3. Cardinality(FreeBytes(n)') = 0
      BY <2>2, FS_EmptySet
    <2>4. \A e \in Extents : ext'[e].free = Cardinality(FreeBytes(e)')
      BY <1>1, <2>1 DEF DataInv, FreeSpaceExact
    <2>5. ext'[n].free = 0
      BY <1>1
    <2> QED
      BY <1>4, <2>3, <2>4, <2>5 DEF FreeSpaceExact
  <1>12. ListsExact'
    BY <1>1 DEF DataInv, ListsExact
  <1>13. RecordChain'
    <2>1. \A e \in Extents : ChainOf(e)'
      <3> SUFFICES ASSUME NEW e \in Extents PROVE ChainOf(e)'
        OBVIOUS
      <3>1. ChainOf(e)
        BY DEF DataInv, RecordChain
      <3>2. Live(e)' = Live(e)
        BY <1>1 DEF Live
      <3> QED
        BY <1>1, <3>1, <3>2, ChainSame
    <2>2. ChainOf(n)'
      <3>1. Live(n)' = {}
        BY <1>1, <1>9 DEF Live
      <3>2. Cardinality(Live(n)') = 0
        BY <3>1, FS_EmptySet
      <3>3. ext'[n].recs = 0 /\ ext'[n].first = NoOffset /\ ext'[n].last = NoOffset
        BY <1>1
      <3> QED
        BY <3>1, <3>2, <3>3 DEF ChainOf, Visits
    <2> QED
      BY <1>4, <2>1, <2>2 DEF RecordChain
  <1> QED
    BY <1>7, <1>8, <1>10, <1>11, <1>12, <1>13 DEF DataInv

-----------------------------------------------------------------------------
(* Delete lists d that hold the deleted records of the headers h exactly *)

ListsOK(h, d) ==
  /\ \A r \in DOMAIN h :
       h[r].deleted => \E i \in 1 .. Len(d[SlotOf(h[r].size)]) : d[SlotOf(h[r].size)][i] = r
  /\ \A j \in DelSlot : \A i \in 1 .. Len(d[j]) :
       /\ d[j][i] \in DOMAIN h
       /\ h[d[j][i]].deleted /\ SlotOf(h[d[j][i]].size) = j
       /\ \A k \in 1 .. Len(d[j]) : d[j][k] = d[j][i] => k = i

LEMMA PushType ==
  ASSUME NEW S, NEW d \in [DelSlot -> Seq(S)], NEW r \in S, NEW n \in 1 .. MaxRec
  PROVE  /\ SlotOf(n) \in DelSlot /\ Push(d, r, n) \in [DelSlot -> Seq(S)]
         /\ \A j \in DelSlot \ {SlotOf(n)} : Push(d, r, n)[j] = d[j]
         /\ Push(d, r, n)[SlotOf(n)] = <<r>> \o d[SlotOf(n)]
  <1>1. SlotOf(n) \in DelSlot
    BY SlotType
  <1>2. <<r>> \o d[SlotOf(n)] \in Seq(S)
    BY <1>1
  <1> QED
    BY <1>1, <1>2 DEF Push

LEMMA PushOK ==
  ASSUME NEW S, NEW d \in [DelSlot -> Seq(S)], NEW r \in S, NEW n \in 1 .. MaxRec,
         NEW h, NEW g, ListsOK(h, d), \A x \in DOMAIN h : h[x].size \in 1 .. MaxRec,
         r \notin DOMAIN h, DOMAIN g = DOMAIN h \cup {r}, g[r].deleted, g[r].size = n,
         \A x \in DOMAIN h : /\ g[x].deleted = h[x].deleted
                             /\ h[x].deleted => g[x].size = h[x].size
  PROVE  ListsOK(g, Push(d, r, n))
  <1> DEFINE k == SlotOf(n)
             f == Push(d, r, n)
  <1>1. /\ k \in DelSlot /\ \A j \in DelSlot \ {k} : f[j] = d[j]
        /\ f[k] = <<r>> \o d[k] /\ d[k] \in Seq(S)
    BY PushType
  <1>2. /\ Len(f[k]) = Len(d[k]) + 1 /\ f[k][1] = r /\ Len(d[k]) \in Nat
        /\ \A i \in 1 .. Len(d[k]) : f[k][i + 1] = d[k][i]
        /\ \A i \in 2 .. Len(d[k]) + 1 : f[k][i] = d[k][i - 1]
    BY <1>1, Pushed
  <1> HIDE DEF f, k
  <1>3. ASSUME NEW x \in DOMAIN g, g[x].deleted
        PROVE  \E i \in 1 .. Len(f[SlotOf(g[x].size)]) : f[SlotOf(g[x].size)][i] = x
    <2>1. CASE x = r
      <3>1. SlotOf(g[x].size) = k /\ 1 \in 1 .. Len(f[k])
        BY <1>2, <2>1 DEF k
      <3> QED
        BY <1>2, <2>1, <3>1
    <2>2. CASE x # r
      <3> DEFINE j == SlotOf(h[x].size)
      <3>1. x \in DOMAIN h /\ h[x].deleted /\ g[x].size = h[x].size
        BY <1>3, <2>2
      <3>2. j \in DelSlot
        BY <3>1, SlotType
      <3>3. PICK i \in 1 .. Len(d[j]) : d[j][i] = x
        BY <3>1 DEF ListsOK
      <3> HIDE DEF j
      <3>4. CASE j = k
        <4>1. i + 1 \in 1 .. Len(f[k]) /\ f[k][i + 1] = x
          BY <1>2, <3>3, <3>4
        <4> QED
          BY <3>1, <3>4, <4>1 DEF j
      <3>5. CASE j # k
        <4>1. f[j] = d[j]
          BY <1>1, <3>2, <3>5
        <4> QED
          BY <3>1, <3>3, <4>1 DEF j
      <3> QED
        BY <3>4, <3>5
    <2> QED
      BY <2>1, <2>2
  <1>4. ASSUME NEW j \in DelSlot, NEW i \in 1 .. Len(f[j])
        PROVE  /\ f[j][i] \in DOMAIN g
               /\ g[f[j][i]].deleted /\ SlotOf(g[f[j][i]].size) = j
               /\ \A m \in 1 .. Len(f[j]) : f[j][m] = f[j][i] => m = i
    <2>1. CASE j # k
      <3>1. f[j] = d[j]
        BY <1>1, <2>1
      <3>2. /\ d[j][i] \in DOMAIN h /\ h[d[j][i]].deleted /\ SlotOf(h[d[j][i]].size) = j
            /\ \A m \in 1 .. Len(d[j]) : d[j][m] = d[j][i] => m = i
        BY <3>1 DEF ListsOK
      <3> QED
        BY <3>1, <3>2
    <2>2. CASE j = k
      <3>1. \A m \in 1 .. Len(d[k]) :
              /\ d[k][m] \in DOMAIN h /\ h[d[k][m]].deleted /\ SlotOf(h[d[k][m]].size) = k
              /\ \A q \in 1 .. Len(d[k]) : d[k][q] = d[k][m] => q = m
        BY <1>1 DEF ListsOK
      <3>2. \A m \in 2 .. Len(f[k]) : m - 1 \in 1 .. Len(d[k]) /\ f[k][m] = d[k][m - 1]
        BY <1>2
      <3>3. \A m \in 2 .. Len(f[k]) : f[k][m] \in DOMAIN h /\ f[k][m] # r
        BY <3>1, <3>2
      <3>4. CASE i = 1
        <4>1. f[k][i] = r /\ SlotOf(g[r].size) = k
          BY <1>2, <3>4 DEF k
        <4>2. \A m \in 1 .. Len(f[k]) : m = 1 \/ m \in 2 .. Len(f[k])
          BY <1>2
        <4> QED
          BY <2>2, <3>3, <3>4, <4>1, <4>2
      <3>5. CASE i # 1
        <4>1. i \in 2 .. Len(f[k])
          BY <1>2, <2>2, <3>5
        <4>2. f[k][i] = d[k][i - 1] /\ i - 1 \in 1 .. Len(d[k])
          BY <3>2, <4>1
        <4>3. g[f[k][i]].deleted /\ SlotOf(g[f[k][i]].size) = k /\ f[k][i] \in DOMAIN g
          <5> DEFINE x == d[k][i - 1]
          <5>1. x \in DOMAIN h /\ h[x].deleted /\ SlotOf(h[x].size) = k
            BY <3>1, <4>2
          <5> HIDE DEF x
          <5>2. g[x].deleted /\ g[x].size = h[x].size /\ x \in DOMAIN g
            BY <5>1
          <5>3. f[k][i] = x
            BY <4>2 DEF x
          <5> QED
            BY <5>1, <5>2, <5>3
        <4>4. ASSUME NEW m \in 1 .. Len(f[k]), f[k][m] = f[k][i] PROVE m = i
          <5>1. m # 1
            BY <1>2, <3>3, <4>1, <4>4
          <5>2. m \in 2 .. Len(f[k])
            BY <1>2, <5>1
          <5>3. m - 1 = i - 1
            BY <3>1, <3>2, <4>2, <4>4, <5>2, ZenonT(30)
          <5> QED
            BY <4>1, <5>2, <5>3
        <4> QED
          BY <2>2, <4>3, <4>4
      <3> QED
        BY <3>4, <3>5
    <2> QED
      BY <2>1, <2>2
  <1>5. ListsOK(g, f)
    BY <1>3, <1>4 DEF ListsOK
  <1> QED
    BY <1>5 DEF f

LEMMA CutOK ==
  ASSUME NEW S, NEW d \in [DelSlot -> Seq(S)], NEW j \in DelSlot, NEW i \in 1 .. Len(d[j]),
         NEW h, NEW g, ListsOK(h, d), \A x \in DOMAIN h : h[x].size \in 1 .. MaxRec,
         DOMAIN g = DOMAIN h, ~g[d[j][i]].deleted,
         \A x \in DOMAIN h \ {d[j][i]} : /\ g[x].deleted = h[x].deleted
                                         /\ h[x].deleted => g[x].size = h[x].size
  PROVE  /\ [d EXCEPT ![j] = Remove(@, i)] \in [DelSlot -> Seq(S)]
         /\ ListsOK(g, [d EXCEPT ![j] = Remove(@, i)])
  <1> DEFINE l == d[j]
             c == Remove(l, i)
             f == [d EXCEPT ![j] = c]
             r == l[i]
  <1>1. l \in Seq(S) /\ Len(l) \in Nat
    OBVIOUS
  <1>2. /\ c \in Seq(S) /\ Len(c) = Len(l) - 1
        /\ \A k \in 1 .. i - 1 : c[k] = l[k]
        /\ \A k \in i .. Len(l) - 1 : c[k] = l[k + 1]
    BY <1>1, Removed, ZenonT(30)
  <1> HIDE DEF c
  <1>3. f \in [DelSlot -> Seq(S)] /\ f[j] = c /\ \A k \in DelSlot \ {j} : f[k] = d[k]
    BY <1>2
  <1>4. \A k \in 1 .. Len(l) :
          /\ l[k] \in DOMAIN h /\ h[l[k]].deleted /\ SlotOf(h[l[k]].size) = j
          /\ \A q \in 1 .. Len(l) : l[q] = l[k] => q = k
    BY DEF ListsOK
  <1> DEFINE old(k) == IF k < i THEN k ELSE k + 1
  <1>5. \A k \in 1 .. Len(c) : old(k) \in 1 .. Len(l) /\ old(k) # i /\ c[k] = l[old(k)]
    BY <1>1, <1>2
  <1>6. \A k, q \in 1 .. Len(c) : old(k) = old(q) => k = q
    BY <1>1, <1>2
  <1>7. ASSUME NEW k \in 1 .. Len(l), k # i
        PROVE  \E q \in 1 .. Len(c) : c[q] = l[k]
    <2>1. CASE k < i
      <3>1. k \in 1 .. Len(c) /\ k \in 1 .. i - 1
        BY <1>1, <1>2, <2>1
      <3> QED
        BY <1>2, <3>1
    <2>2. CASE k > i
      <3>1. k - 1 \in 1 .. Len(c) /\ k - 1 \in i .. Len(l) - 1 /\ k - 1 + 1 = k
        BY <1>1, <1>2, <2>2
      <3>2. c[k - 1] = l[k]
        BY <1>2, <3>1
      <3> QED
        BY <3>1, <3>2
    <2> QED
      BY <1>1, <1>7, <2>1, <2>2
  <1> HIDE DEF f, old
  <1>8. ASSUME NEW x \in DOMAIN g, g[x].deleted
        PROVE  \E k \in 1 .. Len(f[SlotOf(g[x].size)]) : f[SlotOf(g[x].size)][k] = x
    <2> DEFINE m == SlotOf(h[x].size)
    <2>1. x # r /\ x \in DOMAIN h
      BY <1>8
    <2>2. h[x].deleted /\ g[x].size = h[x].size
      BY <1>8, <2>1
    <2>3. m \in DelSlot
      BY <2>1, SlotType
    <2>4. PICK k \in 1 .. Len(d[m]) : d[m][k] = x
      BY <2>1, <2>2 DEF ListsOK
    <2> HIDE DEF m
    <2>5. CASE m = j
      <3>1. k \in 1 .. Len(l) /\ l[k] = x /\ k # i
        BY <2>1, <2>4, <2>5
      <3>2. \E q \in 1 .. Len(c) : c[q] = x
        BY <1>7, <3>1
      <3> QED
        BY <1>3, <2>2, <2>5, <3>2 DEF m
    <2>6. CASE m # j
      BY <1>3, <2>2, <2>3, <2>4, <2>6 DEF m
    <2> QED
      BY <2>5, <2>6
  <1>9. ASSUME NEW m \in DelSlot, NEW k \in 1 .. Len(f[m])
        PROVE  /\ f[m][k] \in DOMAIN g
               /\ g[f[m][k]].deleted /\ SlotOf(g[f[m][k]].size) = m
               /\ \A q \in 1 .. Len(f[m]) : f[m][q] = f[m][k] => q = k
    <2>1. CASE m # j
      <3>1. f[m] = d[m]
        BY <1>3, <2>1
      <3>2. /\ d[m][k] \in DOMAIN h /\ h[d[m][k]].deleted /\ SlotOf(h[d[m][k]].size) = m
            /\ \A q \in 1 .. Len(d[m]) : d[m][q] = d[m][k] => q = k
        BY <3>1 DEF ListsOK
      <3>3. SlotOf(h[r].size) = j
        BY <1>4
      <3>4. d[m][k] # r
        BY <2>1, <3>2, <3>3
      <3> QED
        BY <3>1, <3>2, <3>4
    <2>2. CASE m = j
      <3>1. f[m] = c /\ k \in 1 .. Len(c)
        BY <1>3, <2>2
      <3>2. old(k) \in 1 .. Len(l) /\ old(k) # i /\ c[k] = l[old(k)]
        BY <1>5, <3>1
      <3>3. c[k] # r /\ c[k] \in DOMAIN h /\ h[c[k]].deleted /\ SlotOf(h[c[k]].size) = j
        BY <1>4, <3>2
      <3>4. ASSUME NEW q \in 1 .. Len(c), c[q] = c[k] PROVE q = k
        <4>1. old(q) \in 1 .. Len(l) /\ c[q] = l[old(q)]
          BY <1>5
        <4>2. old(q) = old(k)
          BY <1>4, <3>2, <3>4, <4>1
        <4> QED
          BY <1>6, <3>1, <4>2
      <3> QED
        BY <2>2, <3>1, <3>3, <3>4
    <2> QED
      BY <2>1, <2>2
  <1>10. ListsOK(g, f)
    BY <1>8, <1>9 DEF ListsOK
  <1> QED
    BY <1>3, <1>10 DEF f, c

-----------------------------------------------------------------------------
(* A deleted record of a new extent *)

LEMMA PieceIs ==
  ASSUME NEW m \in 1 .. SegmentPages, NEW l \in Nat, l > 0, l + Meta = m * PageSize
  PROVE  /\ Piece(l) \in 1 .. MaxRec /\ Piece(l) <= l
         /\ \/ Piece(l) = l /\ l <= MaxRec
            \/ Piece(l) = MaxRec /\ l > MaxRec
         /\ l - Piece(l) > 0 =>
              \E k \in 1 .. SegmentPages : l - Piece(l) + Meta = k * PageSize
  <1>1. /\ PageSize \in Nat /\ SegmentPages \in Nat /\ Meta \in Nat
        /\ MinRec \in Nat \ {0} /\ PageSize >= Meta + MinRec
        /\ MaxRec \in Nat \ {0} /\ m \in Nat
    BY RecordAssumption
  <1>2. PICK q \in 0 .. MaxRec : MaxRec = q * PageSize
    BY RecordAssumption
  <1>3. q \in Nat
    BY <1>1
  <1>4. CASE l <= MaxRec
    <2>1. Piece(l) = l
      BY <1>1, <1>4 DEF Piece
    <2> QED
      BY <1>1, <1>4, <2>1
  <1>5. CASE l > MaxRec
    <2>1. m > q
      <3>1. m <= q => m * PageSize <= q * PageSize
        BY <1>1, <1>3
      <3> QED
        BY <1>1, <1>2, <1>3, <1>5, <3>1
    <2>2. m - q \in Nat /\ m - q >= 1 /\ m - q <= SegmentPages
      BY <1>1, <1>3, <2>1
    <2>3. (m - q) * PageSize = m * PageSize - q * PageSize /\ (m - q) * PageSize >= PageSize
      BY <1>1, <1>3, <2>2
    <2>4. m * PageSize \in Nat /\ q * PageSize \in Nat
      BY <1>1, <1>3
    <2>5. l >= MaxRec + MinRec /\ l - MaxRec + Meta = (m - q) * PageSize
      BY <1>1, <1>2, <2>3, <2>4
    <2>6. Piece(l) = MaxRec
      BY <2>5 DEF Piece
    <2> QED
      BY <1>1, <1>5, <2>2, <2>5, <2>6
  <1> QED
    BY <1>1, <1>4, <1>5

LEMMA FreeFinite ==
  ASSUME DataType, NEW e \in Extents
  PROVE  IsFiniteSet(FreeBytes(e)) /\ FreeBytes(e) \subseteq Nat
  <1>1. EndOf(e) \in Nat /\ Meta \in Nat
    BY EndIs
  <1>2. IsFiniteSet(Meta .. EndOf(e) - 1)
    BY <1>1, FS_Interval
  <1>3. FreeBytes(e) \in SUBSET (Meta .. EndOf(e) - 1)
    BY DEF FreeBytes
  <1> QED
    BY <1>1, <1>2, <1>3, FS_Subset

(* The record that is cut, at o, and what the step leaves alone. *)
LEMMA MapSteps ==
  ASSUME DataInv, MapExtent
  PROVE  \E e \in Extents, o \in Nat, n \in 1 .. MaxRec :
           /\ e = Len(ext) /\ o = EndOf(e) - left /\ o >= Meta /\ n = Piece(left)
           /\ n <= left /\ left' = left - n /\ left' \in Nat
           /\ MappedEnd(e) = o /\ <<e, o>> \notin DOMAIN heads
           /\ DOMAIN heads' = DOMAIN heads \cup {<<e, o>>}
           /\ heads'[<<e, o>>] = Deleted(n)
           /\ \A x \in DOMAIN heads : heads'[x] = heads[x]
           /\ heads' = [x \in DOMAIN heads \cup {<<e, o>>} |->
                          IF x = <<e, o>> THEN Deleted(n) ELSE heads[x]]
           /\ del' = Push(del, <<e, o>>, n)
           /\ ext' = [ext EXCEPT ![e].free = @ + n]
           /\ left' > 0 => \E m \in 1 .. SegmentPages : left' + Meta = m * PageSize
  <1>1. DataType /\ LeftInv /\ Tiled
    BY DEF DataInv
  <1>2. left \in Nat /\ left > 0 /\ Len(ext) \in Nat
    BY <1>1 DEF MapExtent, DataType
  <1> PICK e \in Nat : e = Len(ext)
    BY <1>2
  <1>3. e \in Extents /\ left + Meta <= EndOf(e)
    BY <1>1, <1>2 DEF LeftInv, Extents
  <1>4. EndOf(e) \in Nat /\ Meta \in Nat
    BY <1>1, <1>3, EndIs
  <1>5. EndOf(e) - left \in Nat /\ EndOf(e) - left >= Meta
    BY <1>2, <1>3, <1>4
  <1> PICK o \in Nat : o = EndOf(e) - left
    BY <1>5
  <1>6. PICK m \in 1 .. SegmentPages : left + Meta = m * PageSize
    BY <1>1, <1>2 DEF LeftInv
  <1>7. /\ Piece(left) \in 1 .. MaxRec /\ Piece(left) <= left
        /\ left - Piece(left) > 0 =>
             \E k \in 1 .. SegmentPages : left - Piece(left) + Meta = k * PageSize
    BY <1>2, <1>6, PieceIs
  <1> PICK n \in 1 .. MaxRec : n = Piece(left)
    BY <1>7
  <1>8. MappedEnd(e) = o
    BY DEF MappedEnd
  <1>9. <<e, o>> \notin DOMAIN heads
    <2> SUFFICES ASSUME <<e, o>> \in DOMAIN heads PROVE FALSE
      OBVIOUS
    <2>1. heads[<<e, o>>].size \in 1 .. MaxRec
      BY <1>1 DEF DataType, HeadRec
    <2>2. o + heads[<<e, o>>].size <= MappedEnd(e)
      BY <1>1 DEF Tiled
    <2> QED
      BY <1>8, <2>1, <2>2, RecordAssumption
  <1>10. /\ heads' = [x \in DOMAIN heads \cup {<<e, o>>} |->
                        IF x = <<e, o>> THEN Deleted(n) ELSE heads[x]]
         /\ del' = Push(del, <<e, o>>, n)
         /\ ext' = [ext EXCEPT ![e].free = @ + n]
         /\ left' = left - n
    BY DEF MapExtent
  <1>11. left' \in Nat
    <2>1. MaxRec \in Nat
      BY RecordAssumption
    <2> QED
      BY <1>2, <1>7, <1>10, <2>1
  <1>12. /\ DOMAIN heads' = DOMAIN heads \cup {<<e, o>>}
         /\ heads'[<<e, o>>] = Deleted(n)
         /\ \A x \in DOMAIN heads : heads'[x] = heads[x]
    BY <1>9, <1>10
  <1>13. left' > 0 => \E k \in 1 .. SegmentPages : left' + Meta = k * PageSize
    BY <1>7, <1>10
  <1>14. n <= left /\ o >= Meta
    BY <1>5, <1>7
  <1> QED
    BY <1>3, <1>8, <1>9, <1>10, <1>11, <1>12, <1>13, <1>14

LEMMA MapData == ASSUME DataInv, MapExtent PROVE DataInv'
  <1>1. PICK e \in Extents, o \in Nat, n \in 1 .. MaxRec :
           /\ e = Len(ext) /\ o = EndOf(e) - left /\ o >= Meta /\ n = Piece(left)
           /\ n <= left /\ left' = left - n /\ left' \in Nat
           /\ MappedEnd(e) = o /\ <<e, o>> \notin DOMAIN heads
           /\ DOMAIN heads' = DOMAIN heads \cup {<<e, o>>}
           /\ heads'[<<e, o>>] = Deleted(n)
           /\ \A x \in DOMAIN heads : heads'[x] = heads[x]
           /\ heads' = [x \in DOMAIN heads \cup {<<e, o>>} |->
                          IF x = <<e, o>> THEN Deleted(n) ELSE heads[x]]
           /\ del' = Push(del, <<e, o>>, n)
           /\ ext' = [ext EXCEPT ![e].free = @ + n]
           /\ left' > 0 => \E m \in 1 .. SegmentPages : left' + Meta = m * PageSize
    BY MapSteps
  <1> DEFINE rid == <<e, o>>
  <1>2. DataType /\ LeftInv /\ Tiled /\ FreeSpaceExact /\ ListsExact /\ RecordChain
    BY DEF DataInv
  <1>3. /\ ext \in Seq(ExtentRec) /\ Len(ext) \in Nat /\ ext[e] \in ExtentRec /\ e \in Nat
        /\ EndOf(e) \in Nat /\ Meta \in Nat /\ left \in Nat
    BY <1>2, EndIs DEF DataType
  <1>4. n \in Nat /\ n > 0 /\ MaxRec \in Nat
    BY RecordAssumption
  <1>5. /\ ext' \in Seq(ExtentRec) /\ Len(ext') = Len(ext)
        /\ ext'[e] = [ext[e] EXCEPT !.free = @ + n]
        /\ \A x \in Extents \ {e} : ext'[x] = ext[x]
    <2>1. [ext[e] EXCEPT !.free = @ + n] \in ExtentRec
      <3>1. ext[e].free + n \in Nat
        BY <1>3, <1>4, SMTT(30) DEF ExtentRec
      <3> QED
        BY <1>3, <3>1 DEF ExtentRec
    <2> QED
      BY <1>1, <1>3, <2>1, SMTT(30) DEF Extents
  <1>6. /\ ext'[e].pages = ext[e].pages /\ ext'[e].first = ext[e].first
        /\ ext'[e].last = ext[e].last /\ ext'[e].recs = ext[e].recs
        /\ ext'[e].free = ext[e].free + n
    BY <1>3, <1>5 DEF ExtentRec
  <1>7. Extents' = Extents /\ \A x \in Extents : EndOf(x)' = EndOf(x)
    BY <1>5, <1>6 DEF Extents, EndOf
  <1>8. \A r \in DOMAIN heads : /\ r[1] \in Extents /\ r[2] \in Nat /\ r = <<r[1], r[2]>>
                                /\ heads[r] \in HeadRec /\ heads[r].size \in 1 .. MaxRec
                                /\ heads[r].size \in Nat /\ heads[r].size > 0
    BY <1>2, HeadIs
  <1>9. rid \in Extents \X Nat /\ rid[1] = e /\ rid[2] = o
    OBVIOUS
  <1>10. /\ heads'[rid].size = n /\ heads'[rid].deleted /\ Deleted(n) \in HeadRec
    BY <1>1, <1>4 DEF Deleted, HeadRec, NoOffset
  <1>11. DataType'
    <2>1. heads' \in [DOMAIN heads' -> HeadRec]
      BY <1>1, <1>8, <1>10
    <2>2. DOMAIN heads' \subseteq Extents' \X Nat
      BY <1>1, <1>2, <1>7, <1>9 DEF DataType
    <2>3. del' \in [DelSlot -> Seq(Extents \X Nat)]
      BY <1>1, <1>2, <1>9, PushType DEF DataType
    <2> QED
      BY <1>1, <1>5, <1>7, <2>1, <2>2, <2>3 DEF DataType
  <1>12. LeftInv'
    <2>1. left' + Meta <= EndOf(e)
      BY <1>1, <1>3, <1>4, SMTT(30)
    <2>2. Len(ext') = e /\ EndOf(e)' = EndOf(e) /\ e > 0
      BY <1>1, <1>5, <1>7 DEF Extents
    <2> QED
      BY <1>1, <2>1, <2>2 DEF LeftInv
  <1>13. MappedEnd(e)' = o + n /\ \A x \in Extents \ {e} : MappedEnd(x)' = MappedEnd(x)
    <2>1. Len(ext') = e /\ EndOf(e)' = EndOf(e)
      BY <1>1, <1>5, <1>7
    <2> QED
      BY <1>1, <1>3, <1>4, <1>7, <2>1, SMTT(30) DEF MappedEnd
  <1>14. \A r \in DOMAIN heads : r[1] = e => /\ r[2] + heads[r].size <= o
                                             /\ r[2] < o /\ heads[r].size \in Nat
    <2>1. \A r \in DOMAIN heads : r[2] + heads[r].size <= MappedEnd(r[1])
      BY <1>2 DEF Tiled
    <2> QED
      BY <1>1, <1>8, <2>1, SMTT(30)
  <1>15. Tiled'
    <2>1. \A x \in Extents' : MappedEnd(x)' = Meta \/ <<x, Meta>> \in DOMAIN heads'
      BY <1>1, <1>2, <1>7, <1>13 DEF Tiled
    <2>2. ASSUME NEW r \in DOMAIN heads
          PROVE  LET end == r[2] + heads'[r].size
                 IN  /\ Meta <= r[2] /\ end <= MappedEnd(r[1])'
                     /\ end = MappedEnd(r[1])' \/ <<r[1], end>> \in DOMAIN heads'
                     /\ \A x \in DOMAIN heads' : x[1] = r[1] => x[2] <= r[2] \/ x[2] >= end
      <3> DEFINE end == r[2] + heads[r].size
      <3>1. /\ Meta <= r[2] /\ end <= MappedEnd(r[1])
            /\ end = MappedEnd(r[1]) \/ <<r[1], end>> \in DOMAIN heads
            /\ \A x \in DOMAIN heads : x[1] = r[1] => x[2] <= r[2] \/ x[2] >= end
        BY <1>2 DEF Tiled
      <3>2. heads'[r].size = heads[r].size /\ heads[r].size \in Nat /\ r[2] \in Nat
        BY <1>1, <1>8
      <3> HIDE DEF end
      <3>3. CASE r[1] = e
        <4>1. end <= o /\ end \in Nat
          BY <1>14, <3>2, <3>3 DEF end
        <4>2. end <= MappedEnd(r[1])'
          BY <1>4, <1>13, <3>3, <4>1
        <4>3. <<r[1], end>> \in DOMAIN heads'
          BY <1>1, <3>1, <3>3
        <4>4. \A x \in DOMAIN heads' : x[1] = r[1] => x[2] <= r[2] \/ x[2] >= end
          BY <1>1, <1>9, <3>1, <4>1
        <4> QED
          BY <3>1, <3>2, <4>2, <4>3, <4>4 DEF end
      <3>4. CASE r[1] # e
        <4>1. MappedEnd(r[1])' = MappedEnd(r[1])
          BY <1>8, <1>13, <3>4
        <4>2. \A x \in DOMAIN heads' : x[1] = r[1] => x[2] <= r[2] \/ x[2] >= end
          BY <1>1, <1>9, <3>1, <3>4
        <4> QED
          BY <1>1, <3>1, <3>2, <4>1, <4>2 DEF end
      <3> QED
        BY <3>3, <3>4
    <2>3. /\ Meta <= rid[2] /\ rid[2] + heads'[rid].size = MappedEnd(rid[1])'
          /\ \A x \in DOMAIN heads' :
               x[1] = rid[1] => x[2] <= rid[2] \/ x[2] >= rid[2] + heads'[rid].size
      BY <1>1, <1>4, <1>8, <1>9, <1>10, <1>13, <1>14, SMTT(30)
    <2>4. MappedEnd(rid[1])' \in Nat
      BY <1>4, <1>13
    <2> QED
      BY <1>1, <2>1, <2>2, <2>3, <2>4, SMTT(30) DEF Tiled
  <1>16. FreeSpaceExact'
    <2> DEFINE F == FreeBytes(e)
               A == o .. o + n - 1
    <2>1. IsFiniteSet(F) /\ F \subseteq Nat
      BY <1>2, FreeFinite
    <2>2. IsFiniteSet(A) /\ Cardinality(A) = n
      BY <1>4, FS_Interval
    <2>3. F \cap A = {}
      <3>1. \A b \in F : b < o
        BY <1>14, <1>8 DEF FreeBytes
      <3> QED
        BY <2>1, <3>1
    <2>4. FreeBytes(e)' = F \cup A
      <3>1. A \subseteq Meta .. EndOf(e) - 1
        <4>1. o >= Meta /\ o + n <= EndOf(e)
          <5>1. o = EndOf(e) - left /\ n <= left /\ o >= Meta
            BY <1>1
          <5> QED
            BY <1>3, <1>4, <5>1, SMTT(30)
        <4> QED
          BY <1>3, <1>4, <4>1
      <3>2. FreeBytes(e)' =
             {b \in Meta .. EndOf(e) - 1 :
                \E r \in DOMAIN heads' : /\ r[1] = e /\ heads'[r].deleted
                                         /\ r[2] <= b /\ b < r[2] + heads'[r].size}
        BY <1>7 DEF FreeBytes
      <3>3. \A b \in Meta .. EndOf(e) - 1 :
              (\E r \in DOMAIN heads' : /\ r[1] = e /\ heads'[r].deleted
                                        /\ r[2] <= b /\ b < r[2] + heads'[r].size)
              <=> \/ \E r \in DOMAIN heads : /\ r[1] = e /\ heads[r].deleted
                                             /\ r[2] <= b /\ b < r[2] + heads[r].size
                  \/ o <= b /\ b < o + n
        BY <1>1, <1>9, <1>10, ZenonT(30)
      <3>4. \A b \in Meta .. EndOf(e) - 1 : b \in A <=> o <= b /\ b < o + n
        BY <1>3, <1>4
      <3> QED
        BY <3>1, <3>2, <3>3, <3>4 DEF FreeBytes
    <2>5. Cardinality(F \cup A) = Cardinality(F) + n
      <3>1. Cardinality(F \cup A) = Cardinality(F) + Cardinality(A) - Cardinality(F \cap A)
        BY <2>1, <2>2, FS_Union
      <3>2. Cardinality(F \cap A) = 0 /\ Cardinality(F) \in Nat
        BY <2>1, <2>3, FS_EmptySet, FS_CardinalityType
      <3> QED
        BY <1>4, <2>2, <3>1, <3>2
    <2>6. ext[e].free = Cardinality(F)
      BY <1>2 DEF FreeSpaceExact
    <2>7. \A x \in Extents \ {e} : ext'[x].free = Cardinality(FreeBytes(x)')
      <3> SUFFICES ASSUME NEW x \in Extents \ {e}
                   PROVE  ext'[x].free = Cardinality(FreeBytes(x)')
        OBVIOUS
      <3>1. FreeBytes(x)' = FreeBytes(x)
        BY <1>1, <1>5, <1>9, FreeSame
      <3> QED
        BY <1>2, <1>5, <3>1 DEF FreeSpaceExact
    <2> QED
      BY <1>6, <1>7, <2>4, <2>5, <2>6, <2>7 DEF FreeSpaceExact
  <1>17. ListsExact'
    <2>1. ListsOK(heads, del)
      BY <1>2 DEF ListsOK, ListsExact
    <2>2. \A x \in DOMAIN heads : heads[x].size \in 1 .. MaxRec
      BY <1>8 DEF HeadRec
    <2>3. del \in [DelSlot -> Seq(Extents \X Nat)]
      BY <1>2 DEF DataType
    <2>4. ListsOK(heads', Push(del, rid, n))
      BY <1>1, <1>9, <1>10, <2>1, <2>2, <2>3, PushOK, ZenonT(30)
    <2>5. ListsOK(heads', del')
      BY <1>1, <2>4
    <2> QED
      BY <2>5 DEF ListsOK, ListsExact
  <1>18. RecordChain'
    <2> SUFFICES ASSUME NEW x \in Extents PROVE ChainOf(x)'
      BY <1>7 DEF RecordChain
    <2>1. ChainOf(x)
      BY <1>2 DEF RecordChain
    <2>2. Live(x)' = Live(x)
      BY <1>1, <1>10 DEF Live
    <2>3. \A r \in Live(x) : heads'[r] = heads[r]
      BY <1>1 DEF Live
    <2>4. /\ ext'[x].first = ext[x].first /\ ext'[x].last = ext[x].last
          /\ ext'[x].recs = ext[x].recs
      BY <1>5, <1>6
    <2> QED
      BY <2>1, <2>2, <2>3, <2>4, ChainSame
  <1> QED
    BY <1>11, <1>12, <1>15, <1>16, <1>17, <1>18 DEF DataInv

-----------------------------------------------------------------------------
(* A record taken out of its list and linked *)

(* What the step does to headers and extents: the deleted record at o of   *)
(* extent e, of size bytes, is used, but for rest bytes from o + n on.     *)
Carves(e, o, n, size, rest) ==
  /\ e \in Extents /\ o \in Nat /\ n \in Nat /\ size \in 1 .. MaxRec /\ size \in Nat
  /\ rest \in Nat
  /\ 0 < n /\ n <= size /\ (rest = 0 \/ rest = size - n)
  /\ <<e, o>> \in DOMAIN heads
  /\ heads[<<e, o>>].deleted /\ heads[<<e, o>>].size = size
  /\ rest > 0 => <<e, o + n>> \notin DOMAIN heads
  /\ DOMAIN heads' = DOMAIN heads \cup (IF rest > 0 THEN {<<e, o + n>>} ELSE {})
  /\ heads'[<<e, o>>] = [size |-> size - rest, deleted |-> FALSE,
                         prev |-> ext[e].last, next |-> NoOffset]
  /\ rest > 0 => heads'[<<e, o + n>>] = Deleted(rest)
  /\ \A x \in DOMAIN heads \ {<<e, o>>} :
       heads'[x] = IF x = <<e, ext[e].last>> THEN [heads[x] EXCEPT !.next = o] ELSE heads[x]
  /\ heads' = [x \in DOMAIN heads' |-> heads'[x]]
  /\ ext' = [ext EXCEPT ![e] = ext'[e]] /\ Len(ext') = Len(ext)
  /\ ext'[e] = [pages |-> ext[e].pages, recs |-> ext[e].recs + 1,
                free |-> ext[e].free - size + rest,
                first |-> IF ext[e].first = NoOffset THEN o ELSE ext[e].first, last |-> o]
  /\ \A x \in Extents \ {e} : ext'[x] = ext[x]
  /\ left' = left

(* No header is inside a record. *)
LEMMA Inside ==
  ASSUME DataType, Tiled, NEW r \in DOMAIN heads, NEW b \in Nat,
         r[2] < b, b < r[2] + heads[r].size
  PROVE  <<r[1], b>> \notin DOMAIN heads
  <1>1. \A x \in DOMAIN heads : x[1] = r[1] => x[2] <= r[2] \/ x[2] >= r[2] + heads[r].size
    BY ZenonT(30) DEF Tiled
  <1>2. r[2] \in Nat /\ heads[r].size \in Nat
    BY HeadIs
  <1> QED
    BY <1>1, <1>2

LEMMA TakeSteps ==
  ASSUME DataInv, NEW j \in DelSlot, NEW i \in 1 .. Len(del[j]), NEW n \in 1 .. MaxRec,
         heads[del[j][i]].size >= n, Take(j, i, n), left' = left
  PROVE  \E e \in Extents, o \in Nat, size \in 1 .. MaxRec, rest \in Nat :
           /\ del[j][i] = <<e, o>> /\ Carves(e, o, n, size, rest)
           /\ del' = IF rest > 0 THEN Push([del EXCEPT ![j] = Remove(@, i)], <<e, o + n>>, rest)
                     ELSE [del EXCEPT ![j] = Remove(@, i)]
  <1> DEFINE r == del[j][i]
  <1>1. DataType /\ Tiled /\ ListsExact
    BY DEF DataInv
  <1>2. r \in DOMAIN heads /\ heads[r].deleted
    BY <1>1 DEF ListsExact
  <1>3. /\ r[1] \in Extents /\ r[2] \in Nat /\ r = <<r[1], r[2]>>
        /\ heads[r].size \in 1 .. MaxRec
    BY <1>1, <1>2, HeadIs
  <1> PICK e \in Extents, o \in Nat, size \in 1 .. MaxRec :
        e = r[1] /\ o = r[2] /\ r = <<e, o>> /\ size = heads[r].size
    BY <1>3
  <1>4. /\ MaxRec \in Nat /\ MinRec \in Nat /\ n \in Nat /\ size \in Nat /\ 0 < n
        /\ n <= size
    BY RecordAssumption, SMTT(30)
  <1>5. Rest(size, n) \in Nat /\ (Rest(size, n) = 0 \/ Rest(size, n) = size - n)
    BY <1>4, SMTT(30) DEF Rest
  <1> PICK rest \in Nat : rest = Rest(size, n)
    BY <1>5
  <1> HIDE DEF r
  <1>6. rest > 0 => <<e, o + n>> \notin DOMAIN heads
    <2> SUFFICES ASSUME rest > 0 PROVE <<e, o + n>> \notin DOMAIN heads
      OBVIOUS
    <2>1. o + n \in Nat /\ o < o + n /\ o + n < o + size
      BY <1>4, <1>5, SMTT(30)
    <2> QED
      BY <1>1, <1>2, <2>1, Inside
  <1> DEFINE split == IF rest > 0 THEN {<<e, o + n>>} ELSE {}
  <1>7. /\ heads' = [x \in DOMAIN heads \cup split |->
                     IF x = <<e, o>>
                       THEN [size |-> heads[x].size - rest, deleted |-> FALSE,
                             prev |-> ext[e].last, next |-> NoOffset]
                     ELSE IF x \in split THEN Deleted(rest)
                     ELSE IF x = <<e, ext[e].last>>
                       THEN [heads[x] EXCEPT !.next = o]
                     ELSE heads[x]]
        /\ ext' = [ext EXCEPT ![e] =
                     [pages |-> ext[e].pages, recs |-> ext[e].recs + 1,
                      free |-> ext[e].free - size + rest,
                      first |-> IF ext[e].first = NoOffset THEN o ELSE ext[e].first,
                      last |-> o]]
        /\ del' = IF rest > 0 THEN Push([del EXCEPT ![j] = Remove(@, i)], <<e, o + n>>, rest)
                  ELSE [del EXCEPT ![j] = Remove(@, i)]
    BY ZenonT(30) DEF Take, LinkRecord, r
  <1>8. /\ DOMAIN heads' = DOMAIN heads \cup split
        /\ heads'[<<e, o>>] = [size |-> size - rest, deleted |-> FALSE,
                               prev |-> ext[e].last, next |-> NoOffset]
    BY <1>2, <1>7
  <1>9. rest > 0 => heads'[<<e, o + n>>] = Deleted(rest)
    BY <1>2, <1>6, <1>7
  <1>10. \A x \in DOMAIN heads \ {<<e, o>>} :
       heads'[x] = IF x = <<e, ext[e].last>> THEN [heads[x] EXCEPT !.next = o] ELSE heads[x]
    BY <1>6, <1>7
  <1>11. ext \in Seq(ExtentRec) /\ ext[e] \in ExtentRec /\ e \in 1 .. Len(ext)
    BY <1>1, EndIs DEF DataType, Extents
  <1> DEFINE y == [pages |-> ext[e].pages, recs |-> ext[e].recs + 1,
                   free |-> ext[e].free - size + rest,
                   first |-> IF ext[e].first = NoOffset THEN o ELSE ext[e].first, last |-> o]
  <1>13. ext' = [ext EXCEPT ![e] = y]
    BY <1>7
  <1> HIDE DEF y
  <1>16. /\ Len(ext') = Len(ext) /\ ext'[e] = y
         /\ \A x \in Extents \ {e} : ext'[x] = ext[x]
    BY <1>11, <1>13 DEF Extents
  <1>17. ext' = [ext EXCEPT ![e] = ext'[e]]
    BY <1>13, <1>16
  <1>14. heads' = [x \in DOMAIN heads' |-> heads'[x]]
    BY <1>7
  <1>15. Carves(e, o, n, size, rest)
    BY <1>2, <1>4, <1>5, <1>6, <1>8, <1>9, <1>10, <1>14, <1>16, <1>17 DEF Carves, y
  <1> QED
    BY <1>7, <1>15, ZenonT(30) DEF r

LEMMA CarveSame ==
  ASSUME DataInv, NEW e, NEW o, NEW n, NEW size, NEW rest, Carves(e, o, n, size, rest)
  PROVE  /\ Extents' = Extents /\ \A x \in Extents : EndOf(x)' = EndOf(x)
         /\ \A x \in Extents : MappedEnd(x)' = MappedEnd(x)
         /\ \A x \in DOMAIN heads \ {<<e, o>>} :
              /\ heads'[x].size = heads[x].size /\ heads'[x].deleted = heads[x].deleted
              /\ heads'[x].prev = heads[x].prev
              /\ x[1] # e => heads'[x] = heads[x]
              /\ x[1] = e /\ x[2] = ext[e].last => heads'[x].next = o
              /\ x[2] # ext[e].last => heads'[x].next = heads[x].next
         /\ DOMAIN heads \subseteq DOMAIN heads'
         /\ \A x \in DOMAIN heads' \ DOMAIN heads : rest > 0 /\ x = <<e, o + n>>
  <1>1. DataType
    BY DEF DataInv
  <1>2. Extents' = Extents /\ \A x \in Extents : EndOf(x)' = EndOf(x)
    <2>1. ext'[e].pages = ext[e].pages /\ Len(ext') = Len(ext)
          /\ \A x \in Extents \ {e} : ext'[x] = ext[x]
      BY DEF Carves
    <2> QED
      BY <2>1 DEF Extents, EndOf
  <1>3. \A x \in Extents : MappedEnd(x)' = MappedEnd(x)
    BY <1>2 DEF MappedEnd, Carves
  <1>4. ASSUME NEW x \in DOMAIN heads \ {<<e, o>>}
        PROVE  /\ heads'[x].size = heads[x].size /\ heads'[x].deleted = heads[x].deleted
               /\ heads'[x].prev = heads[x].prev
               /\ x[1] # e => heads'[x] = heads[x]
               /\ x[1] = e /\ x[2] = ext[e].last => heads'[x].next = o
               /\ x[2] # ext[e].last => heads'[x].next = heads[x].next
    <2>1. heads[x] \in HeadRec /\ x = <<x[1], x[2]>>
      BY <1>1, HeadIs
    <2>2. heads'[x] = IF x = <<e, ext[e].last>> THEN [heads[x] EXCEPT !.next = o] ELSE heads[x]
      BY DEF Carves
    <2>3. /\ [heads[x] EXCEPT !.next = o].size = heads[x].size
          /\ [heads[x] EXCEPT !.next = o].deleted = heads[x].deleted
          /\ [heads[x] EXCEPT !.next = o].prev = heads[x].prev
          /\ [heads[x] EXCEPT !.next = o].next = o
      BY <2>1 DEF HeadRec
    <2>4. CASE x = <<e, ext[e].last>>
      <3>1. x[1] = e /\ x[2] = ext[e].last
        BY <2>4
      <3> QED
        BY <2>2, <2>3, <2>4, <3>1
    <2>5. CASE x # <<e, ext[e].last>>
      <3>1. x[1] # e \/ x[2] # ext[e].last
        BY <2>1, <2>5
      <3> QED
        BY <2>2, <2>5, <3>1
    <2> QED
      BY <2>4, <2>5
  <1>5. /\ DOMAIN heads \subseteq DOMAIN heads'
        /\ \A x \in DOMAIN heads' \ DOMAIN heads : rest > 0 /\ x = <<e, o + n>>
    BY DEF Carves
  <1> QED
    BY <1>2, <1>3, <1>4, <1>5

LEMMA CarveTiled ==
  ASSUME DataInv, NEW e, NEW o, NEW n, NEW size, NEW rest, Carves(e, o, n, size, rest)
  PROVE  Tiled'
  <1> DEFINE rid == <<e, o>>
             new == <<e, o + n>>
  <1>1. DataType /\ Tiled
    BY DEF DataInv
  <1>2. /\ Extents' = Extents /\ \A x \in Extents : MappedEnd(x)' = MappedEnd(x)
        /\ \A x \in DOMAIN heads \ {rid} : heads'[x].size = heads[x].size
        /\ DOMAIN heads \subseteq DOMAIN heads'
        /\ \A x \in DOMAIN heads' \ DOMAIN heads : rest > 0 /\ x = new
    BY CarveSame
  <1>3. /\ e \in Extents /\ o \in Nat /\ n \in Nat /\ size \in Nat /\ rest \in Nat
        /\ 0 < n /\ n <= size /\ (rest = 0 \/ rest = size - n)
        /\ rid \in DOMAIN heads /\ heads[rid].size = size
        /\ rest > 0 => new \in DOMAIN heads'
    BY DEF Carves
  <1>4. /\ rid[1] = e /\ rid[2] = o /\ new[1] = e /\ new[2] = o + n
        /\ heads'[rid].size = size - rest
        /\ rest > 0 => heads'[new].size = rest
    BY DEF Carves, Deleted
  <1>5. \A r \in DOMAIN heads : r[1] \in Extents /\ r[2] \in Nat /\ heads[r].size \in Nat
                                /\ heads[r].size > 0 /\ r = <<r[1], r[2]>>
    BY <1>1, HeadIs
  <1>6. \A r \in DOMAIN heads :
          /\ Meta <= r[2] /\ r[2] + heads[r].size <= MappedEnd(r[1])
          /\ \/ r[2] + heads[r].size = MappedEnd(r[1])
             \/ <<r[1], r[2] + heads[r].size>> \in DOMAIN heads
          /\ \A x \in DOMAIN heads : x[1] = r[1] => x[2] <= r[2] \/ x[2] >= r[2] + heads[r].size
    BY <1>1 DEF Tiled
  <1>7. MappedEnd(e) \in Int /\ Meta \in Nat
    <2>1. EndOf(e) \in Nat /\ Meta \in Nat /\ left \in Nat
      BY <1>1, <1>3, EndIs DEF DataType
    <2> QED
      BY <2>1 DEF MappedEnd
  <1>8. \A x \in Extents' : MappedEnd(x)' = Meta \/ <<x, Meta>> \in DOMAIN heads'
    BY <1>1, <1>2 DEF Tiled
  <1> HIDE DEF rid, new
  <1>9. ASSUME NEW r \in DOMAIN heads \ {rid}
        PROVE  LET end == r[2] + heads'[r].size
               IN  /\ Meta <= r[2] /\ end <= MappedEnd(r[1])'
                   /\ end = MappedEnd(r[1])' \/ <<r[1], end>> \in DOMAIN heads'
                   /\ \A x \in DOMAIN heads' : x[1] = r[1] => x[2] <= r[2] \/ x[2] >= end
    <2> DEFINE end == r[2] + heads[r].size
    <2>1. /\ Meta <= r[2] /\ end <= MappedEnd(r[1])
          /\ end = MappedEnd(r[1]) \/ <<r[1], end>> \in DOMAIN heads
          /\ \A x \in DOMAIN heads : x[1] = r[1] => x[2] <= r[2] \/ x[2] >= end
      BY <1>6
    <2>2. heads'[r].size = heads[r].size /\ MappedEnd(r[1])' = MappedEnd(r[1])
      BY <1>2, <1>5
    <2>3. rest > 0 /\ r[1] = e => o + n <= r[2] \/ o + n >= end
      <3> SUFFICES ASSUME rest > 0, r[1] = e PROVE o + n <= r[2] \/ o + n >= end
        OBVIOUS
      <3>1. r[2] <= o \/ r[2] >= o + size
        BY <1>3, <1>4, <1>6
      <3>2. o <= r[2] \/ o >= end
        BY <1>3, <1>4, <2>1
      <3>3. r[2] # o
        BY <1>5 DEF rid
      <3>4. r[2] \in Nat /\ end \in Nat
        BY <1>5
      <3> HIDE DEF end
      <3> QED
        BY <1>3, <3>1, <3>2, <3>3, <3>4
    <2> HIDE DEF end
    <2>4. \A x \in DOMAIN heads' : x[1] = r[1] => x[2] <= r[2] \/ x[2] >= end
      BY <1>2, <1>4, <2>1, <2>3
    <2> QED
      BY <1>2, <2>1, <2>2, <2>4 DEF end
  <1>10. LET end == rid[2] + heads'[rid].size
         IN  /\ Meta <= rid[2] /\ end <= MappedEnd(rid[1])'
             /\ end = MappedEnd(rid[1])' \/ <<rid[1], end>> \in DOMAIN heads'
             /\ \A x \in DOMAIN heads' : x[1] = rid[1] => x[2] <= rid[2] \/ x[2] >= end
    <2>1. /\ Meta <= o /\ o + size <= MappedEnd(e)
          /\ o + size = MappedEnd(e) \/ <<e, o + size>> \in DOMAIN heads
          /\ \A x \in DOMAIN heads : x[1] = e => x[2] <= o \/ x[2] >= o + size
      BY <1>3, <1>4, <1>6
    <2>2. MappedEnd(e)' = MappedEnd(e)
      BY <1>2, <1>3
    <2>3. CASE rest = 0
      <3>1. heads'[rid].size = size
        BY <1>3, <1>4, <2>3
      <3>2. ~(rest > 0)
        BY <2>3
      <3>3. DOMAIN heads' = DOMAIN heads
        BY <1>2, <3>2
      <3> QED
        BY <1>4, <2>1, <2>2, <3>1, <3>3
    <2>4. CASE rest > 0
      <3>1. heads'[rid].size = n
        BY <1>3, <1>4, <2>4
      <3>2. o + n <= MappedEnd(e) /\ <<e, o + n>> \in DOMAIN heads'
        BY <1>3, <1>7, <2>1, <2>4 DEF new
      <3>3. \A x \in DOMAIN heads' : x[1] = e => x[2] <= o \/ x[2] >= o + n
        <4> SUFFICES ASSUME NEW x \in DOMAIN heads', x[1] = e PROVE x[2] <= o \/ x[2] >= o + n
          OBVIOUS
        <4>1. CASE x \in DOMAIN heads
          <5>1. x[2] \in Nat /\ (x[2] <= o \/ x[2] >= o + size)
            BY <1>5, <2>1, <4>1
          <5> QED
            BY <1>3, <5>1
        <4>2. CASE x \notin DOMAIN heads
          BY <1>2, <1>3, <1>4, <4>2
        <4> QED
          BY <4>1, <4>2
      <3> QED
        BY <1>4, <2>1, <2>2, <3>1, <3>2, <3>3
    <2> QED
      BY <1>3, <2>3, <2>4
  <1>11. ASSUME rest > 0
         PROVE  LET end == new[2] + heads'[new].size
                IN  /\ Meta <= new[2] /\ end <= MappedEnd(new[1])'
                    /\ end = MappedEnd(new[1])' \/ <<new[1], end>> \in DOMAIN heads'
                    /\ \A x \in DOMAIN heads' : x[1] = new[1] => x[2] <= new[2] \/ x[2] >= end
    <2>1. /\ Meta <= o /\ o + size <= MappedEnd(e)
          /\ o + size = MappedEnd(e) \/ <<e, o + size>> \in DOMAIN heads
          /\ \A x \in DOMAIN heads : x[1] = e => x[2] <= o \/ x[2] >= o + size
      BY <1>3, <1>4, <1>6
    <2>2. MappedEnd(e)' = MappedEnd(e)
      BY <1>2, <1>3
    <2>3. new[2] + heads'[new].size = o + size
      BY <1>3, <1>4, <1>11
    <2>4. Meta <= o + n
      BY <1>3, <1>7, <2>1
    <2>5. \A x \in DOMAIN heads' : x[1] = e => x[2] <= o + n \/ x[2] >= o + size
      <3> SUFFICES ASSUME NEW x \in DOMAIN heads', x[1] = e
                   PROVE  x[2] <= o + n \/ x[2] >= o + size
        OBVIOUS
      <3>1. CASE x \in DOMAIN heads
        <4>1. x[2] \in Nat /\ (x[2] <= o \/ x[2] >= o + size)
          BY <1>5, <2>1, <3>1
        <4> QED
          BY <1>3, <4>1
      <3>2. CASE x \notin DOMAIN heads
        BY <1>2, <1>3, <1>4, <3>2
      <3> QED
        BY <3>1, <3>2
    <2> QED
      BY <1>2, <1>4, <2>1, <2>2, <2>3, <2>4, <2>5
  <1>12. \A r \in DOMAIN heads' :
           r \in DOMAIN heads \ {rid} \/ r = rid \/ (rest > 0 /\ r = new)
    BY <1>2
  <1> QED
    BY <1>8, <1>9, <1>10, <1>11, <1>12 DEF Tiled

LEMMA CarveFree ==
  ASSUME DataInv, NEW e, NEW o, NEW n, NEW size, NEW rest, Carves(e, o, n, size, rest)
  PROVE  FreeSpaceExact' /\ ext'[e].free \in Nat
  <1> DEFINE rid == <<e, o>>
             new == <<e, o + n>>
             F == FreeBytes(e)
             G == FreeBytes(e)'
             A == o .. o + (size - rest) - 1
  <1>1. DataType /\ Tiled /\ FreeSpaceExact
    BY DEF DataInv
  <1>2. /\ Extents' = Extents /\ \A x \in Extents : EndOf(x)' = EndOf(x)
        /\ \A x \in DOMAIN heads \ {rid} : /\ heads'[x].size = heads[x].size
                                           /\ heads'[x].deleted = heads[x].deleted
                                           /\ x[1] # e => heads'[x] = heads[x]
        /\ DOMAIN heads \subseteq DOMAIN heads'
        /\ \A x \in DOMAIN heads' \ DOMAIN heads : rest > 0 /\ x = new
    BY CarveSame
  <1>3. /\ e \in Extents /\ o \in Nat /\ n \in Nat /\ size \in Nat /\ rest \in Nat
        /\ 0 < n /\ n <= size /\ (rest = 0 \/ rest = size - n)
        /\ rid \in DOMAIN heads /\ heads[rid].size = size /\ heads[rid].deleted
        /\ rest > 0 => new \in DOMAIN heads'
    BY DEF Carves
  <1>4. /\ rid[1] = e /\ rid[2] = o /\ new[1] = e /\ new[2] = o + n
        /\ ~heads'[rid].deleted
        /\ rest > 0 => heads'[new].size = rest /\ heads'[new].deleted
    BY DEF Carves, Deleted
  <1>5. \A r \in DOMAIN heads : r[1] \in Extents /\ r[2] \in Nat /\ heads[r].size \in Nat
                                /\ r = <<r[1], r[2]>>
    BY <1>1, HeadIs
  <1>6. \A r \in DOMAIN heads :
          /\ Meta <= r[2] /\ r[2] + heads[r].size <= MappedEnd(r[1])
          /\ \A x \in DOMAIN heads : x[1] = r[1] => x[2] <= r[2] \/ x[2] >= r[2] + heads[r].size
    BY <1>1 DEF Tiled
  <1>7. EndOf(e) \in Nat /\ Meta \in Nat /\ MappedEnd(e) <= EndOf(e) /\ MappedEnd(e) \in Int
    <2>1. EndOf(e) \in Nat /\ Meta \in Nat /\ left \in Nat
      BY <1>1, <1>3, EndIs DEF DataType
    <2> QED
      BY <2>1 DEF MappedEnd
  <1>8. A \subseteq Meta .. EndOf(e) - 1
    <2>1. Meta <= o /\ o + size <= MappedEnd(e)
      BY <1>3, <1>4, <1>6
    <2> QED
      BY <1>3, <1>7, <2>1
  <1> DEFINE Old(b) == \E r \in DOMAIN heads : /\ r[1] = e /\ heads[r].deleted
                                               /\ r[2] <= b /\ b < r[2] + heads[r].size
             New(b) == \E r \in DOMAIN heads' : /\ r[1] = e /\ heads'[r].deleted
                                                /\ r[2] <= b /\ b < r[2] + heads'[r].size
  <1>9. F = {b \in Meta .. EndOf(e) - 1 : Old(b)}
    BY DEF FreeBytes
  <1>10. G = {b \in Meta .. EndOf(e) - 1 : New(b)}
    BY <1>2, <1>3 DEF FreeBytes
  <1>11. ASSUME NEW b \in Meta .. EndOf(e) - 1
         PROVE  New(b) <=> Old(b) /\ b \notin A
    <2>1. b \in Nat
      BY <1>7
    <2> HIDE DEF rid, new
    <2>2. ASSUME New(b) PROVE Old(b) /\ b \notin A
      <3>1. PICK r \in DOMAIN heads' : /\ r[1] = e /\ heads'[r].deleted
                                       /\ r[2] <= b /\ b < r[2] + heads'[r].size
        BY <2>2
      <3>2. CASE r \in DOMAIN heads
        <4>1. r # rid
          BY <1>4, <3>1
        <4>2. heads'[r].size = heads[r].size /\ heads[r].deleted
          BY <1>2, <3>1, <3>2, <4>1
        <4>3. r[2] <= o \/ r[2] >= o + size
          BY <1>3, <1>4, <1>6, <3>1, <3>2
        <4>4. o <= r[2] \/ o >= r[2] + heads[r].size
          BY <1>3, <1>4, <1>6, <3>1, <3>2
        <4>5. r[2] # o /\ r[2] \in Nat /\ heads[r].size \in Nat
          BY <1>5, <3>1, <3>2, <4>1 DEF rid
        <4>6. b \notin A
          BY <1>3, <2>1, <3>1, <4>2, <4>3, <4>4, <4>5
        <4> QED
          BY <3>1, <3>2, <4>2, <4>6
      <3>3. CASE r \notin DOMAIN heads
        <4>1. rest > 0 /\ r = new
          BY <1>2, <3>3
        <4>2. o + n <= b /\ b < o + n + rest /\ rest = size - n
          BY <1>3, <1>4, <3>1, <4>1
        <4>3. o <= b /\ b < o + size /\ b \notin A
          BY <1>3, <2>1, <4>2
        <4> QED
          BY <1>3, <1>4, <4>3
      <3> QED
        BY <3>2, <3>3
    <2>3. ASSUME Old(b), b \notin A PROVE New(b)
      <3>1. PICK r \in DOMAIN heads : /\ r[1] = e /\ heads[r].deleted
                                      /\ r[2] <= b /\ b < r[2] + heads[r].size
        BY <2>3
      <3>2. CASE r # rid
        BY <1>2, <3>1, <3>2
      <3>3. CASE r = rid
        <4>1. o <= b /\ b < o + size
          BY <1>3, <1>4, <3>1, <3>3
        <4>2. rest > 0 /\ o + n <= b /\ b < o + n + rest
          BY <1>3, <2>1, <2>3, <4>1
        <4> QED
          BY <1>3, <1>4, <4>2
      <3> QED
        BY <3>2, <3>3
    <2> QED
      BY <2>2, <2>3
  <1>12. \A b \in A : Old(b)
    <2> HIDE DEF rid
    <2>1. \A b \in A : o <= b /\ b < o + size
      BY <1>3
    <2> QED
      BY <1>3, <1>4, <2>1
  <1> HIDE DEF Old, New
  <1>13. F = G \cup A /\ G \cap A = {}
    <2> HIDE DEF A, F, G
    <2> QED
      BY <1>8, <1>9, <1>10, <1>11, <1>12
  <1>14. IsFiniteSet(F)
    BY <1>1, <1>3, FreeFinite
  <1>15. IsFiniteSet(A) /\ Cardinality(A) = size - rest
    <2>1. o \in Int /\ o + (size - rest) - 1 \in Int /\ size - rest > 0
      BY <1>3
    <2> PICK z \in Int : z = o + (size - rest) - 1
      BY <2>1
    <2>2. IsFiniteSet(o .. z) /\ Cardinality(o .. z) = IF o > z THEN 0 ELSE z - o + 1
      BY <2>1, FS_Interval
    <2>3. z - o + 1 = size - rest /\ ~(o > z)
      BY <1>3, <2>1
    <2> QED
      BY <2>2, <2>3
  <1>16. IsFiniteSet(G)
    BY <1>13, <1>14, FS_Subset
  <1> HIDE DEF A, F, G
  <1>17. /\ Cardinality(F) = Cardinality(G) + (size - rest)
         /\ Cardinality(G) \in Nat
    <2>1. Cardinality(F) = Cardinality(G) + Cardinality(A) - Cardinality(G \cap A)
      BY <1>13, <1>15, <1>16, FS_Union
    <2>2. Cardinality(G \cap A) = 0 /\ Cardinality(G) \in Nat
      BY <1>13, <1>16, FS_EmptySet, FS_CardinalityType
    <2> QED
      BY <1>3, <1>15, <2>1, <2>2
  <1>18. ext[e].free = Cardinality(F)
    BY <1>1, <1>3 DEF FreeSpaceExact, F
  <1>19. ext'[e].free = ext[e].free - size + rest
    BY DEF Carves
  <1>20. ext'[e].free = Cardinality(G)
    BY <1>3, <1>17, <1>18, <1>19
  <1>21. ASSUME NEW x \in Extents \ {e} PROVE ext'[x].free = Cardinality(FreeBytes(x)')
    <2>1. ext'[x] = ext[x]
      BY DEF Carves
    <2>2. \A r \in DOMAIN heads \cup DOMAIN heads' :
            r[1] = x => r \in DOMAIN heads /\ r \in DOMAIN heads' /\ heads'[r] = heads[r]
      BY <1>2, <1>4
    <2>3. FreeBytes(x)' = FreeBytes(x)
      BY <2>1, <2>2, FreeSame
    <2> QED
      BY <1>1, <2>1, <2>3 DEF FreeSpaceExact
  <1> QED
    BY <1>2, <1>3, <1>17, <1>20, <1>21 DEF FreeSpaceExact, G

LEMMA LiveFinite ==
  ASSUME DataType, Tiled, NEW e \in Extents
  PROVE  IsFiniteSet(Live(e))
  <1> DEFINE f == [r \in Live(e) |-> r[2]]
  <1>1. EndOf(e) \in Nat /\ Meta \in Nat /\ left \in Nat
    BY EndIs DEF DataType
  <1>2. MappedEnd(e) <= EndOf(e) /\ MappedEnd(e) \in Int
    BY <1>1 DEF MappedEnd
  <1>3. ASSUME NEW r \in Live(e)
        PROVE  r[2] \in 0 .. EndOf(e) /\ r = <<e, r[2]>>
    <2>1. r \in DOMAIN heads /\ r[1] = e
      BY DEF Live
    <2>2. r[2] \in Nat /\ r = <<r[1], r[2]>> /\ heads[r].size \in Nat
      BY <2>1, HeadIs
    <2>3. r[2] + heads[r].size <= MappedEnd(e)
      BY <2>1 DEF Tiled
    <2> QED
      BY <1>1, <1>2, <2>1, <2>2, <2>3
  <1>4. f \in [Live(e) -> 0 .. EndOf(e)]
    BY <1>3
  <1>5. \A r, q \in Live(e) : f[r] = f[q] => r = q
    BY <1>3
  <1> HIDE DEF f
  <1>6. f \in Injection(Live(e), 0 .. EndOf(e))
    BY <1>4, <1>5 DEF Injection, IsInjective
  <1>7. IsFiniteSet(0 .. EndOf(e))
    BY <1>1, FS_Interval
  <1> QED
    BY <1>6, <1>7, FS_Injection

LEMMA CarveLists ==
  ASSUME DataInv, NEW e, NEW o, NEW n, NEW size, NEW rest, Carves(e, o, n, size, rest),
         NEW j \in DelSlot, NEW i \in 1 .. Len(del[j]), del[j][i] = <<e, o>>,
         del' = IF rest > 0 THEN Push([del EXCEPT ![j] = Remove(@, i)], <<e, o + n>>, rest)
                ELSE [del EXCEPT ![j] = Remove(@, i)]
  PROVE  ListsExact' /\ del' \in [DelSlot -> Seq(Extents \X Nat)]
  <1> DEFINE rid == <<e, o>>
             new == <<e, o + n>>
             cut == [del EXCEPT ![j] = Remove(@, i)]
             S   == Extents \X Nat
             g   == [x \in DOMAIN heads |-> heads'[x]]
  <1>1. DataType /\ ListsExact
    BY DEF DataInv
  <1>2. ListsOK(heads, del)
    BY <1>1 DEF ListsOK, ListsExact
  <1>3. \A x \in DOMAIN heads : heads[x].size \in 1 .. MaxRec
    BY <1>1, HeadIs
  <1>4. /\ \A x \in DOMAIN heads \ {rid} : /\ heads'[x].size = heads[x].size
                                           /\ heads'[x].deleted = heads[x].deleted
        /\ DOMAIN heads \subseteq DOMAIN heads'
    BY CarveSame
  <1>5. /\ e \in Extents /\ o \in Nat /\ n \in Nat /\ rest \in Nat /\ rid \in DOMAIN heads
        /\ size \in 1 .. MaxRec /\ size \in Nat /\ 0 < n /\ (rest = 0 \/ rest = size - n)
        /\ DOMAIN heads' = DOMAIN heads \cup (IF rest > 0 THEN {new} ELSE {})
        /\ rest > 0 => new \notin DOMAIN heads
    BY DEF Carves
  <1>6. /\ ~heads'[rid].deleted /\ heads'[rid].size = size - rest
        /\ rest > 0 => heads'[new].size = rest /\ heads'[new].deleted
    BY DEF Carves, Deleted
  <1>7. del \in [DelSlot -> Seq(S)]
    BY <1>1 DEF DataType
  <1>8. DOMAIN g = DOMAIN heads /\ \A x \in DOMAIN heads : g[x] = heads'[x]
    OBVIOUS
  <1> HIDE DEF g, rid, new, S
  <1>9. del[j][i] = rid
    BY DEF rid
  <1>10. cut \in [DelSlot -> Seq(S)] /\ ListsOK(g, cut)
    <2>1. DOMAIN g = DOMAIN heads /\ ~g[del[j][i]].deleted
      BY <1>5, <1>6, <1>8, <1>9
    <2>2. \A x \in DOMAIN heads \ {del[j][i]} : /\ g[x].deleted = heads[x].deleted
                                                /\ heads[x].deleted => g[x].size = heads[x].size
      BY <1>4, <1>8, <1>9, SMTT(30)
    <2> QED
      BY <1>2, <1>3, <1>7, <2>1, <2>2, CutOK
  <1> HIDE DEF cut
  <1>11. CASE rest = 0
    <2>1. DOMAIN heads' = DOMAIN heads
      BY <1>5, <1>11
    <2>2. heads' = g
      BY <2>1 DEF Carves, g
    <2>3. del' = cut
      BY <1>11 DEF cut
    <2>4. ListsOK(heads', del')
      BY <1>10, <2>2, <2>3
    <2> QED
      BY <1>10, <2>3, <2>4 DEF ListsOK, ListsExact, S
  <1>12. CASE rest > 0
    <2>1. new \in S /\ rest \in 1 .. MaxRec
      BY <1>5, <1>12, RecordAssumption DEF S, new
    <2>2. \A x \in DOMAIN g : g[x].size \in 1 .. MaxRec
      <3>1. size - rest \in 1 .. MaxRec
        BY <1>5, <1>12, RecordAssumption
      <3> QED
        BY <1>3, <1>4, <1>6, <1>8, <3>1
    <2>3. DOMAIN heads' = DOMAIN g \cup {new} /\ new \notin DOMAIN g
      BY <1>5, <1>8, <1>12
    <2>4. heads'[new].deleted /\ heads'[new].size = rest
      BY <1>6, <1>12
    <2>5. \A x \in DOMAIN g : heads'[x] = g[x]
      BY <1>8
    <2>6. ListsOK(heads', Push(cut, new, rest))
      BY <1>10, <2>1, <2>2, <2>3, <2>4, <2>5, PushOK
    <2>7. del' = Push(cut, new, rest)
      BY <1>12 DEF cut, new
    <2>8. Push(cut, new, rest) \in [DelSlot -> Seq(S)]
      BY <1>10, <2>1, PushType
    <2>9. ListsOK(heads', del')
      BY <2>6, <2>7
    <2>10. ListsExact'
      BY <2>9 DEF ListsOK, ListsExact
    <2> QED
      BY <2>7, <2>8, <2>10 DEF S
  <1>13. rest = 0 \/ rest > 0
    BY <1>5
  <1> QED
    BY <1>11, <1>12, <1>13, Zenon

LEMMA CarveChain ==
  ASSUME DataInv, NEW e, NEW o, NEW n, NEW size, NEW rest, Carves(e, o, n, size, rest)
  PROVE  RecordChain'
  <1> DEFINE rid == <<e, o>>
             new == <<e, o + n>>
             L   == Live(e)
             M   == L \cup {rid}
  <1>1. DataType /\ Tiled /\ RecordChain
    BY DEF DataInv
  <1>2. /\ Extents' = Extents
        /\ \A x \in DOMAIN heads \ {rid} :
              /\ heads'[x].deleted = heads[x].deleted
              /\ heads'[x].prev = heads[x].prev
              /\ x[1] # e => heads'[x] = heads[x]
              /\ x[1] = e /\ x[2] = ext[e].last => heads'[x].next = o
              /\ x[2] # ext[e].last => heads'[x].next = heads[x].next
        /\ DOMAIN heads \subseteq DOMAIN heads'
        /\ \A x \in DOMAIN heads' \ DOMAIN heads : rest > 0 /\ x = new
    BY CarveSame
  <1>3. /\ e \in Extents /\ o \in Nat /\ n \in Nat /\ rid \in DOMAIN heads
        /\ heads[rid].deleted
    BY DEF Carves
  <1>4. /\ rid[1] = e /\ rid[2] = o /\ new[1] = e
        /\ ~heads'[rid].deleted /\ heads'[rid].prev = ext[e].last
        /\ heads'[rid].next = NoOffset
        /\ rest > 0 => heads'[new].deleted
    BY DEF Carves, Deleted
  <1>5. /\ ext'[e].recs = ext[e].recs + 1 /\ ext'[e].last = o
        /\ ext'[e].first = IF ext[e].first = NoOffset THEN o ELSE ext[e].first
        /\ \A x \in Extents \ {e} : ext'[x] = ext[x]
    BY DEF Carves
  <1>6. \A r \in DOMAIN heads : r[2] \in Nat /\ r = <<r[1], r[2]>>
    BY <1>1, HeadIs
  <1> HIDE DEF rid, new
  <1>7. ASSUME NEW x \in Extents \ {e} PROVE ChainOf(x)'
    <2>1. ChainOf(x) /\ ext'[x] = ext[x]
      BY <1>1, <1>5 DEF RecordChain
    <2>2. \A r \in DOMAIN heads : r[1] = x => r # rid /\ heads'[r] = heads[r]
      BY <1>2, <1>4
    <2>3. \A r \in DOMAIN heads' : r[1] = x => r \in DOMAIN heads
      BY <1>2, <1>4
    <2>4. Live(x)' = Live(x) /\ \A r \in Live(x) : heads'[r] = heads[r]
      BY <1>2, <2>2, <2>3 DEF Live
    <2> QED
      BY <2>1, <2>4, ChainSame
  <1>8. /\ L \subseteq DOMAIN heads /\ rid \notin L
        /\ \A r \in L : r # rid /\ r[1] = e /\ r[2] \in Nat /\ r = <<e, r[2]>> /\ r[2] # o
    BY <1>3, <1>6 DEF Live, rid
  <1>9. Live(e)' = M
    <2>1. \A r \in DOMAIN heads' : (r[1] = e /\ ~heads'[r].deleted) => r \in M
      BY <1>2, <1>4 DEF Live
    <2>2. \A r \in M : r \in DOMAIN heads' /\ r[1] = e /\ ~heads'[r].deleted
      BY <1>2, <1>3, <1>4, <1>8 DEF Live
    <2> QED
      BY <2>1, <2>2 DEF Live
  <1>10. ChainOf(e)
    BY <1>1, <1>3 DEF RecordChain
  <1>11. /\ ext[e].recs = Cardinality(L)
         /\ Visits(e, L) /\ \A S \in SUBSET L : Visits(e, S) => S = L
         /\ ext[e].first = NoOffset <=> L = {}
         /\ ext[e].last = NoOffset <=> L = {}
         /\ ext[e].last # NoOffset => <<e, ext[e].last>> \in L
         /\ \A r \in L :
              /\ heads[r].prev = NoOffset <=> r[2] = ext[e].first
              /\ heads[r].next = NoOffset <=> r[2] = ext[e].last
              /\ heads[r].next # NoOffset => heads[<<e, heads[r].next>>].prev = r[2]
    BY <1>10 DEF ChainOf
  <1>12. Cardinality(M) = Cardinality(L) + 1
    BY <1>1, <1>3, <1>8, LiveFinite, FS_AddElement
  <1> HIDE DEF L, M
  <1>13. o # NoOffset /\ o \in Nat
    BY <1>3 DEF NoOffset
  <1>14. /\ ext[e].first # NoOffset => <<e, ext[e].first>> \in L
         /\ \A r \in L : heads[r].next # NoOffset => <<e, heads[r].next>> \in L
    BY <1>11 DEF Visits
  <1>15. \A r \in L : /\ r \in DOMAIN heads \ {rid} /\ heads'[r].prev = heads[r].prev
                      /\ r[2] = ext[e].last => heads'[r].next = o
                      /\ r[2] # ext[e].last => heads'[r].next = heads[r].next
    BY <1>2, <1>8
  <1>16. rid = <<e, o>>
    BY DEF rid
  <1>18. /\ ext'[e].first # NoOffset => <<e, ext'[e].first>> \in M
         /\ \A r \in M : heads'[r].next # NoOffset => <<e, heads'[r].next>> \in M
    BY <1>4, <1>5, <1>14, <1>15, <1>16 DEF M
  <1>19. ASSUME NEW S \in SUBSET M, Visits(e, S)' PROVE S = M
    <2> DEFINE T == S \ {rid}
    <2>1. /\ ext'[e].first # NoOffset => <<e, ext'[e].first>> \in S
          /\ \A r \in S : heads'[r].next # NoOffset => <<e, heads'[r].next>> \in S
      BY <1>19 DEF Visits
    <2>2. T \in SUBSET L
      BY DEF M
    <2>3. ext[e].first # NoOffset => <<e, ext[e].first>> \in T
      BY <1>5, <1>8, <1>14, <2>1
    <2>4. ASSUME NEW r \in T, heads[r].next # NoOffset PROVE <<e, heads[r].next>> \in T
      <3>1. r \in L /\ r[2] # ext[e].last
        BY <1>11, <2>2, <2>4
      <3>2. heads'[r].next = heads[r].next /\ <<e, heads[r].next>> \in L
        BY <1>14, <1>15, <2>4, <3>1
      <3>3. <<e, heads[r].next>> \in S
        BY <2>1, <2>4, <3>2
      <3> QED
        BY <1>8, <3>2, <3>3
    <2>5. Visits(e, T)
      BY <2>3, <2>4 DEF Visits
    <2>6. T = L
      BY <1>11, <2>2, <2>5
    <2>7. rid \in S
      <3>1. CASE L = {}
        BY <1>5, <1>11, <1>13, <1>16, <2>1, <3>1
      <3>2. CASE L # {}
        <4>1. <<e, ext[e].last>> \in L
          BY <1>11, <3>2
        <4>2. heads'[<<e, ext[e].last>>].next = o
          BY <1>15, <4>1
        <4> QED
          BY <1>13, <1>16, <2>1, <2>6, <4>1, <4>2
      <3> QED
        BY <3>1, <3>2
    <2> QED
      BY <2>6, <2>7 DEF M
  <1>20. ASSUME NEW r \in M
         PROVE  /\ heads'[r].prev = NoOffset <=> r[2] = ext'[e].first
                /\ heads'[r].next = NoOffset <=> r[2] = ext'[e].last
                /\ heads'[r].next # NoOffset => heads'[<<e, heads'[r].next>>].prev = r[2]
    <2>1. CASE r = rid
      <3>1. ext[e].first # NoOffset => ext[e].first # o
        BY <1>8, <1>14, <1>16
      <3> QED
        BY <1>4, <1>5, <1>11, <2>1, <3>1
    <2>2. CASE r # rid
      <3>1. r \in L /\ L # {}
        BY <2>2 DEF M
      <3>2. ext'[e].first = ext[e].first /\ heads'[r].prev = heads[r].prev /\ r[2] # o
        BY <1>5, <1>8, <1>11, <1>15, <3>1
      <3>3. CASE r[2] = ext[e].last
        <4>1. heads'[r].next = o
          BY <1>15, <3>1, <3>3
        <4> QED
          BY <1>4, <1>5, <1>11, <1>13, <1>16, <3>1, <3>2, <3>3, <4>1, ZenonT(30)
      <3>4. CASE r[2] # ext[e].last
        <4>1. heads'[r].next = heads[r].next /\ heads[r].next # NoOffset
          BY <1>11, <1>15, <3>1, <3>4
        <4>2. <<e, heads[r].next>> \in L /\ heads[<<e, heads[r].next>>].prev = r[2]
          BY <1>11, <1>14, <3>1, <4>1
        <4>3. heads'[<<e, heads[r].next>>].prev = r[2]
          BY <1>15, <4>2
        <4> QED
          BY <1>5, <1>11, <3>1, <3>2, <4>1, <4>3
      <3> QED
        BY <3>3, <3>4
    <2> QED
      BY <2>1, <2>2
  <1>21. /\ ext'[e].recs = Cardinality(M)
         /\ ext'[e].first # NoOffset /\ ext'[e].last # NoOffset /\ M # {}
         /\ <<e, ext'[e].last>> \in M
    BY <1>5, <1>11, <1>12, <1>13, <1>16 DEF M
  <1>22. /\ Live(e)' = M
         /\ Visits(e, Live(e))'
    <2>1. /\ ext'[e].first # NoOffset => <<e, ext'[e].first>> \in Live(e)'
          /\ \A r \in Live(e)' : heads'[r].next # NoOffset => <<e, heads'[r].next>> \in Live(e)'
      BY <1>9, <1>18
    <2> QED
      BY <1>9, <2>1 DEF Visits
  <1>23. ChainOf(e)'
    BY <1>19, <1>20, <1>21, <1>22 DEF ChainOf
  <1> QED
    BY <1>2, <1>7, <1>23 DEF RecordChain

LEMMA TakeData ==
  ASSUME DataInv, NEW j \in DelSlot, NEW i \in 1 .. Len(del[j]), NEW n \in 1 .. MaxRec,
         heads[del[j][i]].size >= n, Take(j, i, n), left' = left
  PROVE  DataInv'
  <1>1. PICK e \in Extents, o \in Nat, size \in 1 .. MaxRec, rest \in Nat :
           /\ del[j][i] = <<e, o>> /\ Carves(e, o, n, size, rest)
           /\ del' = IF rest > 0 THEN Push([del EXCEPT ![j] = Remove(@, i)], <<e, o + n>>, rest)
                     ELSE [del EXCEPT ![j] = Remove(@, i)]
    BY TakeSteps
  <1>2. Tiled' /\ FreeSpaceExact' /\ ext'[e].free \in Nat /\ RecordChain'
    BY <1>1, CarveTiled, CarveFree, CarveChain
  <1>3. ListsExact' /\ del' \in [DelSlot -> Seq(Extents \X Nat)]
    BY <1>1, CarveLists
  <1>4. /\ Extents' = Extents /\ \A x \in Extents : EndOf(x)' = EndOf(x)
        /\ \A x \in DOMAIN heads' \ DOMAIN heads : rest > 0 /\ x = <<e, o + n>>
    BY <1>1, CarveSame
  <1>5. DataType /\ LeftInv
    BY DEF DataInv
  <1>6. ext[e] \in ExtentRec /\ ext \in Seq(ExtentRec) /\ e \in 1 .. Len(ext)
    BY <1>5, EndIs DEF DataType, Extents
  <1>7. LeftInv'
    <2>1. Len(ext') = Len(ext) /\ Len(ext) \in Nat
      BY <1>1, <1>6 DEF Carves
    <2>2. Len(ext) > 0 => EndOf(Len(ext))' = EndOf(Len(ext))
      <3> SUFFICES ASSUME Len(ext) > 0 PROVE EndOf(Len(ext))' = EndOf(Len(ext))
        OBVIOUS
      <3> PICK k \in Extents : k = Len(ext)
        BY <2>1 DEF Extents
      <3>1. EndOf(k)' = EndOf(k)
        BY <1>4
      <3> QED
        BY <2>1, <3>1
    <2> QED
      BY <1>5, <2>1, <2>2 DEF LeftInv
  <1>8. ext' \in Seq(ExtentRec)
    <2>1. ext'[e] \in ExtentRec
      <3>1. /\ ext[e].pages \in 1 .. SegmentPages /\ ext[e].recs + 1 \in Nat
            /\ (IF ext[e].first = NoOffset THEN o ELSE ext[e].first) \in Nat \cup {NoOffset}
        <4>1. /\ ext[e].pages \in 1 .. SegmentPages /\ ext[e].recs \in Nat
              /\ ext[e].first \in Nat \cup {NoOffset}
          BY <1>6 DEF ExtentRec
        <4> QED
          BY <4>1
      <3>2. ext'[e] = [pages |-> ext[e].pages, recs |-> ext[e].recs + 1,
                free |-> ext[e].free - size + rest,
                first |-> IF ext[e].first = NoOffset THEN o ELSE ext[e].first, last |-> o]
        BY <1>1 DEF Carves
      <3>3. ext[e].free - size + rest \in Nat
        BY <1>2, <3>2
      <3> QED
        BY <3>1, <3>2, <3>3 DEF ExtentRec
    <2>2. ext' = [ext EXCEPT ![e] = ext'[e]]
      BY <1>1 DEF Carves
    <2> QED
      BY <1>6, <2>1, <2>2
  <1>9. heads' \in [DOMAIN heads' -> HeadRec]
    <2> SUFFICES ASSUME NEW x \in DOMAIN heads' PROVE heads'[x] \in HeadRec
      BY <1>1 DEF Carves
    <2>1. CASE x = <<e, o>>
      <3>1. heads'[x] = [size |-> size - rest, deleted |-> FALSE,
                         prev |-> ext[e].last, next |-> NoOffset]
        BY <1>1, <2>1 DEF Carves
      <3>2. size - rest \in 1 .. MaxRec
        <4>1. MaxRec \in Nat
          BY RecordAssumption
        <4>2. n \in Nat /\ 0 < n /\ n <= size /\ (rest = 0 \/ rest = size - n)
          BY <1>1 DEF Carves
        <4> QED
          BY <4>1, <4>2
      <3>3. ext[e].last \in Nat \cup {NoOffset}
        BY <1>6 DEF ExtentRec
      <3> QED
        BY <3>1, <3>2, <3>3 DEF HeadRec
    <2>2. CASE x \in DOMAIN heads /\ x # <<e, o>>
      <3>1. heads'[x] = IF x = <<e, ext[e].last>> THEN [heads[x] EXCEPT !.next = o] ELSE heads[x]
        BY <1>1, <2>2 DEF Carves
      <3>2. heads[x] \in HeadRec
        BY <1>5, <2>2, HeadIs
      <3>3. [heads[x] EXCEPT !.next = o] \in HeadRec
        BY <3>2 DEF HeadRec
      <3> QED
        BY <3>1, <3>2, <3>3
    <2>3. CASE x \notin DOMAIN heads
      <3>1. heads'[x] = Deleted(rest) /\ rest > 0 /\ n \in Nat /\ 0 < n
            /\ (rest = 0 \/ rest = size - n)
        BY <1>1, <1>4, <2>3 DEF Carves
      <3>2. MaxRec \in Nat
        BY RecordAssumption
      <3>3. rest \in 1 .. MaxRec
        BY <3>1, <3>2
      <3> QED
        BY <3>1, <3>3 DEF Deleted, HeadRec
    <2> QED
      BY <2>1, <2>2, <2>3
  <1>10. DOMAIN heads' \subseteq Extents' \X Nat
    <2> SUFFICES ASSUME NEW x \in DOMAIN heads' PROVE x \in Extents \X Nat
      BY <1>4
    <2>1. CASE x \in DOMAIN heads
      BY <1>5, <2>1 DEF DataType
    <2>2. CASE x \notin DOMAIN heads
      <3>1. x = <<e, o + n>> /\ n \in Nat
        BY <1>1, <1>4, <2>2 DEF Carves
      <3> QED
        BY <3>1
    <2> QED
      BY <2>1, <2>2
  <1>11. DataType'
    BY <1>3, <1>4, <1>5, <1>8, <1>9, <1>10 DEF DataType
  <1> QED
    BY <1>2, <1>3, <1>7, <1>11 DEF DataInv

-----------------------------------------------------------------------------
(* The sessions *)

ControlType ==
  /\ mbLatch \in Inserter \cup {Creator, Nobody}
  /\ pc \in [Inserter -> {"idle", "search", "alloc"}]
  /\ need \in [Inserter -> Sizes \cup {0}] /\ tries \in [Inserter -> Nat]
  /\ newColl \in BOOLEAN

LEMMA RecordParts ==
  /\ RecordInv <=> DataInv /\ ControlType /\ HoldInv /\ TryInv
  /\ RecordInv' <=> DataInv' /\ ControlType' /\ HoldInv' /\ TryInv'
  BY DEF RecordInv, RecordTypeOK, DataInv, DataType, ControlType, ExtentRec, HeadRec

LEMMA DataStays == ASSUME DataInv, UNCHANGED recordData PROVE DataInv'
  <1> USE DEF recordData
  <1>1. DataType'
    BY DEF DataInv, DataType, Extents
  <1>2. LeftInv' /\ Tiled'
    BY DEF DataInv, LeftInv, Tiled, EndOf, Extents, MappedEnd
  <1>3. FreeSpaceExact'
    BY DEF DataInv, FreeSpaceExact, FreeBytes, EndOf, Extents
  <1>4. ListsExact'
    BY DEF DataInv, ListsExact
  <1>5. RecordChain'
    <2> SUFFICES ASSUME NEW e \in Extents PROVE ChainOf(e)'
      BY DEF RecordChain, Extents
    <2>1. ChainOf(e)
      BY DEF DataInv, RecordChain
    <2>2. Live(e)' = Live(e)
      BY DEF Live
    <2> QED
      BY <2>1, <2>2, ChainSame
  <1> QED
    BY <1>1, <1>2, <1>3, <1>4, <1>5 DEF DataInv

LEMMA TryStays ==
  ASSUME TryInv, UNCHANGED recordData,
         \A s \in Inserter : tries'[s] = 1 => tries[s] = 1 /\ need'[s] = need[s]
  PROVE  TryInv'
  BY DEF TryInv, recordData, FitsAt

LEMMA SizeIs ==
  ASSUME NEW n \in Sizes
  PROVE  n \in 1 .. MaxRec /\ n \in Nat /\ n > 0 /\ MaxRec \in Nat
  <1>1. n \in 1 .. MaxRec /\ MaxRec \in Nat
    BY RecordAssumption
  <1> QED
    BY <1>1

LEMMA InitPagesStep ==
  ASSUME RecordInv, NEW p \in 1 .. SegmentPages, InitPages(p)
  PROVE  RecordInv'
  <1>1. DataInv /\ ControlType /\ HoldInv /\ TryInv
    BY RecordParts
  <1>2. /\ mbLatch = Nobody /\ mbLatch' = Creator /\ newColl' = FALSE /\ AddExtent(p)
        /\ pc' = pc /\ need' = need /\ tries' = tries
    BY DEF InitPages
  <1>3. Creator \notin Inserter /\ Nobody \notin Inserter /\ Nobody # Creator
    BY RecordAssumption
  <1>4. left = 0
    BY <1>1, <1>2, <1>3 DEF HoldInv, DataInv, DataType
  <1>5. DataInv'
    BY <1>1, <1>2, <1>4, AddData
  <1>6. \A s \in Inserter : pc[s] # "search"
    BY <1>1, <1>2, <1>3 DEF HoldInv
  <1>7. ControlType' /\ HoldInv'
    BY <1>1, <1>2, <1>3, <1>6 DEF ControlType, HoldInv
  <1>8. TryInv'
    BY <1>1, <1>2, <1>6 DEF HoldInv, TryInv
  <1> QED
    BY <1>5, <1>7, <1>8, RecordParts

LEMMA ReleaseStep == ASSUME RecordInv, ReleaseMBContext PROVE RecordInv'
  <1>1. DataInv /\ ControlType /\ HoldInv /\ TryInv
    BY RecordParts
  <1>2. /\ mbLatch = Creator /\ mbLatch' = Nobody /\ left = 0 /\ newColl' = newColl
        /\ pc' = pc /\ need' = need /\ tries' = tries /\ UNCHANGED recordData
    BY DEF ReleaseMBContext
  <1>3. Creator \notin Inserter /\ Nobody \notin Inserter /\ Nobody # Creator
    BY RecordAssumption
  <1>4. left' = 0
    BY <1>2 DEF recordData
  <1>5. ControlType' /\ HoldInv'
    BY <1>1, <1>2, <1>3, <1>4 DEF ControlType, HoldInv
  <1> QED
    BY <1>1, <1>2, <1>5, DataStays, TryStays, RecordParts

LEMMA InsertStep ==
  ASSUME RecordInv, NEW s \in Inserter, NEW n \in Sizes, InsertRecord(s, n)
  PROVE  RecordInv'
  <1>1. DataInv /\ ControlType /\ HoldInv /\ TryInv
    BY RecordParts
  <1>2. /\ pc[s] = "idle" /\ mbLatch = Nobody /\ mbLatch' = s
        /\ pc' = [pc EXCEPT ![s] = "search"] /\ need' = [need EXCEPT ![s] = n]
        /\ tries' = tries /\ newColl' = newColl /\ UNCHANGED recordData
    BY DEF InsertRecord, StepTo
  <1>3. Creator \notin Inserter /\ Nobody \notin Inserter /\ Nobody # Creator
    BY RecordAssumption
  <1>4. left' = left
    BY <1>2 DEF recordData
  <1>5. tries[s] # 1
    BY <1>1, <1>2 DEF HoldInv
  <1>6. ControlType' /\ HoldInv'
    BY <1>1, <1>2, <1>3, <1>4 DEF ControlType, HoldInv
  <1>7. \A t \in Inserter : tries'[t] = 1 => tries[t] = 1 /\ need'[t] = need[t]
    BY <1>1, <1>2, <1>5 DEF ControlType
  <1> QED
    BY <1>1, <1>2, <1>6, <1>7, DataStays, TryStays, RecordParts

LEMMA NoSpaceStep == ASSUME RecordInv, NEW s \in Inserter, NoSpace(s) PROVE RecordInv'
  <1>1. DataInv /\ ControlType /\ HoldInv /\ TryInv
    BY RecordParts
  <1>2. /\ pc[s] = "alloc" /\ mbLatch \in {s, Nobody} /\ mbLatch' = Nobody
        /\ pc' = [pc EXCEPT ![s] = "idle"] /\ need' = [need EXCEPT ![s] = 0]
        /\ tries' = [tries EXCEPT ![s] = 0] /\ newColl' = newColl /\ UNCHANGED recordData
    BY DEF NoSpace, Return, StepTo
  <1>3. Creator \notin Inserter /\ Nobody \notin Inserter /\ Nobody # Creator
    BY RecordAssumption
  <1>4. left' = left
    BY <1>2 DEF recordData
  <1>5. ControlType' /\ HoldInv'
    BY <1>1, <1>2, <1>3, <1>4 DEF ControlType, HoldInv
  <1>6. \A t \in Inserter : tries'[t] = 1 => tries[t] = 1 /\ need'[t] = need[t]
    BY <1>1, <1>2 DEF ControlType
  <1> QED
    BY <1>1, <1>2, <1>5, <1>6, DataStays, TryStays, RecordParts

LEMMA MissedStep == ASSUME RecordInv, NEW s \in Inserter, Missed(s) PROVE RecordInv'
  <1>1. DataInv /\ ControlType /\ HoldInv /\ TryInv
    BY RecordParts
  <1>2. /\ pc[s] = "search" /\ left = 0 /\ Classes(need[s]) = {} /\ mbLatch' \in {s, Nobody}
        /\ pc' = [pc EXCEPT ![s] = "alloc"] /\ need' = need
        /\ tries' = tries /\ newColl' = newColl /\ UNCHANGED recordData
    BY DEF Missed, StepTo
  <1>3. Creator \notin Inserter /\ Nobody \notin Inserter /\ Nobody # Creator
    BY RecordAssumption
  <1>4. left' = 0
    BY <1>2 DEF recordData
  <1>5. need[s] \in Nat /\ need[s] > 0
    <2>1. need[s] \in Sizes
      BY <1>1, <1>2 DEF HoldInv
    <2> QED
      BY <2>1, SizeIs
  <1>6. tries[s] # 1
    <2> SUFFICES ASSUME tries[s] = 1 PROVE FALSE
      OBVIOUS
    <2>1. \E j \in DelSlot : j >= SlotOf(need[s]) /\ FitsAt(j, need[s]) # {}
      BY <1>1, <1>2, <1>5 DEF TryInv
    <2> QED
      BY <1>2, <2>1 DEF Classes
  <1>7. ControlType' /\ HoldInv'
    BY <1>1, <1>2, <1>3, <1>4, <1>6 DEF ControlType, HoldInv
  <1> QED
    BY <1>1, <1>2, <1>7, DataStays, TryStays, RecordParts

LEMMA AllocateRecStep == ASSUME RecordInv, NEW s \in Inserter, Allocate(s) PROVE RecordInv'
  <1>1. DataInv /\ ControlType /\ HoldInv /\ TryInv
    BY RecordParts
  <1>2. /\ pc[s] = "alloc" /\ mbLatch \in {s, Nobody} /\ mbLatch' = s
        /\ AddExtent(ReqPages(need[s]))
        /\ pc' = [pc EXCEPT ![s] = "search"] /\ need' = need
        /\ tries' = [tries EXCEPT ![s] = @ + 1] /\ newColl' = newColl
    BY DEF Allocate, StepTo
  <1>3. Creator \notin Inserter /\ Nobody \notin Inserter /\ Nobody # Creator
    BY RecordAssumption
  <1>4. left = 0
    BY <1>1, <1>2, <1>3 DEF HoldInv, DataInv, DataType
  <1>5. need[s] \in Sizes
    BY <1>1, <1>2 DEF HoldInv
  <1>6. /\ ReqPages(need[s]) \in 1 .. SegmentPages
        /\ ReqPages(need[s]) * PageSize >= need[s] + Meta
    BY <1>5, PagesFit
  <1>7. DataInv'
    BY <1>1, <1>2, <1>4, <1>6, AddData
  <1>8. left' = ReqPages(need[s]) * PageSize - Meta
    BY <1>1, <1>2, <1>4, <1>6, AddSteps
  <1>9. /\ tries[s] = 0 /\ tries' = [tries EXCEPT ![s] = 1]
        /\ \A t \in Inserter \ {s} : tries[t] # 1 /\ pc[t] # "search"
    <2>1. tries[s] \in {0, 1} /\ tries[s] # 1
      BY <1>1, <1>2 DEF HoldInv
    <2>2. tries[s] = 0 /\ tries[s] + 1 = 1
      BY <2>1
    <2>3. \A t \in Inserter \ {s} : pc[t] # "search"
      BY <1>1, <1>2, <1>3 DEF HoldInv
    <2> QED
      BY <1>1, <1>2, <2>2, <2>3 DEF HoldInv
  <1>10. ControlType' /\ HoldInv'
    BY <1>1, <1>2, <1>3, <1>5, <1>9 DEF ControlType, HoldInv
  <1>11. left' >= need'[s]
    <2>1. need[s] \in Nat
      BY <1>5, SizeIs
    <2>2. ReqPages(need[s]) * PageSize \in Nat /\ Meta \in Nat
      BY <1>6, SpaceOf
    <2> QED
      BY <1>2, <1>6, <1>8, <2>1, <2>2
  <1>12. TryInv'
    <2>1. \A t \in Inserter : tries'[t] = 1 => t = s
      BY <1>1, <1>9 DEF ControlType
    <2> QED
      BY <1>11, <2>1 DEF TryInv
  <1> QED
    BY <1>7, <1>10, <1>12, RecordParts

LEMMA FoundStep == ASSUME RecordInv, NEW s \in Inserter, Found(s) PROVE RecordInv'
  <1>1. DataInv /\ ControlType /\ HoldInv /\ TryInv
    BY RecordParts
  <1>2. /\ pc[s] = "search" /\ left = 0 /\ left' = left /\ mbLatch' = Nobody
        /\ pc' = [pc EXCEPT ![s] = "idle"] /\ need' = [need EXCEPT ![s] = 0]
        /\ tries' = [tries EXCEPT ![s] = 0] /\ newColl' = newColl
    BY DEF Found, Return, StepTo
  <1>3. PICK j \in Classes(need[s]) : \E i \in FitsAt(j, need[s]) : Take(j, i, need[s])
    BY DEF Found
  <1>4. PICK i \in FitsAt(j, need[s]) : Take(j, i, need[s])
    BY <1>3
  <1>5. Creator \notin Inserter /\ Nobody \notin Inserter /\ Nobody # Creator
    BY RecordAssumption
  <1>6. j \in DelSlot /\ i \in 1 .. Len(del[j]) /\ heads[del[j][i]].size >= need[s]
    BY DEF Classes, FitsAt
  <1>7. need[s] \in 1 .. MaxRec
    BY <1>1, <1>2, RecordAssumption DEF HoldInv
  <1>8. DataInv'
    BY <1>1, <1>2, <1>4, <1>6, <1>7, TakeData
  <1>9. \A t \in Inserter \ {s} : tries[t] # 1 /\ pc[t] # "search"
    BY <1>1, <1>2 DEF HoldInv
  <1>10. ControlType' /\ HoldInv'
    BY <1>1, <1>2, <1>5, <1>9 DEF ControlType, HoldInv
  <1>11. TryInv'
    BY <1>1, <1>2, <1>9 DEF TryInv, ControlType
  <1> QED
    BY <1>8, <1>10, <1>11, RecordParts

LEMMA MapStep == ASSUME RecordInv, MapExtent PROVE RecordInv'
  <1>1. DataInv /\ ControlType /\ HoldInv /\ TryInv
    BY RecordParts
  <1>2. /\ UNCHANGED <<mbLatch, pc, need, tries, newColl>> /\ left > 0
    BY DEF MapExtent
  <1>3. PICK e \in Extents, o \in Nat, n \in 1 .. MaxRec :
           /\ n = Piece(left) /\ n <= left /\ left' = left - n /\ left' \in Nat
           /\ <<e, o>> \notin DOMAIN heads
           /\ heads'[<<e, o>>] = Deleted(n)
           /\ \A x \in DOMAIN heads : heads'[x] = heads[x]
           /\ del' = Push(del, <<e, o>>, n)
    BY <1>1, MapSteps, ZenonT(30)
  <1>4. ControlType' /\ HoldInv'
    BY <1>1, <1>2, <1>3 DEF ControlType, HoldInv
  <1>5. DataType /\ left \in Nat /\ LeftInv /\ ListsExact
    BY <1>1 DEF DataInv, DataType
  <1>6. PICK m \in 1 .. SegmentPages : left + Meta = m * PageSize
    BY <1>2, <1>5 DEF LeftInv
  <1>7. \/ n = left /\ left <= MaxRec
        \/ n = MaxRec /\ left > MaxRec
    BY <1>2, <1>3, <1>5, <1>6, PieceIs
  <1> DEFINE k == SlotOf(n)
  <1>8. /\ k \in DelSlot /\ \A j \in DelSlot \ {k} : del'[j] = del[j]
        /\ del'[k] = <<<<e, o>>>> \o del[k] /\ del[k] \in Seq(Extents \X Nat)
    <2> DEFINE S == Extents \X Nat
    <2>1. <<e, o>> \in S /\ del \in [DelSlot -> Seq(S)]
      BY <1>5 DEF DataType
    <2> HIDE DEF S
    <2>2. ASSUME NEW r \in S
          PROVE  /\ k \in DelSlot /\ \A j \in DelSlot \ {k} : Push(del, r, n)[j] = del[j]
                 /\ Push(del, r, n)[k] = <<r>> \o del[k]
      BY <2>1, PushType, SMTT(30)
    <2> HIDE DEF k
    <2> QED
      BY <1>3, <2>1, <2>2 DEF S
  <1>9. /\ Len(del'[k]) = Len(del[k]) + 1 /\ del'[k][1] = <<e, o>> /\ Len(del[k]) \in Nat
        /\ \A i \in 1 .. Len(del[k]) : del'[k][i + 1] = del[k][i]
    BY <1>8, Pushed
  <1>10. MaxSearch \in Nat /\ MaxSearch >= 2 /\ MaxRec \in Nat
    BY RecordAssumption
  <1>11. ASSUME NEW s \in Inserter, tries'[s] = 1, ~(left' >= need'[s])
         PROVE  \E j \in DelSlot : /\ j >= SlotOf(need'[s])
                                   /\ \E i \in FitsAt(j, need[s])' : i = 1 \/ (i = 2 /\ left' = 0)
    <2>1. tries[s] = 1 /\ need'[s] = need[s] /\ need[s] \in Sizes
      BY <1>1, <1>2, <1>11 DEF HoldInv
    <2>2. need[s] \in 1 .. MaxRec
      BY <2>1, RecordAssumption
    <2>3. CASE n >= need[s]
      <3>1. k >= SlotOf(need[s])
        <4>1. n \in need[s] .. MaxRec /\ need[s] \in 1 .. MaxRec
          BY <1>10, <2>2, <2>3
        <4>2. SlotOf(need[s]) <= SlotOf(n)
          BY <4>1, SlotOrder
        <4> QED
          BY <4>2
      <3>2. heads'[del'[k][1]].size = n
        <4>1. heads'[del'[k][1]] = Deleted(n)
          BY <1>3, <1>9
        <4> QED
          BY <4>1 DEF Deleted
      <3>3. 1 \in FitsAt(k, need[s])'
        BY <1>9, <1>10, <2>1, <2>3, <3>2, SMTT(30) DEF FitsAt
      <3> QED
        BY <1>8, <2>1, <3>1, <3>3
    <2>4. CASE n < need[s]
      <3>1. n = left /\ left' = 0
        BY <1>3, <1>5, <1>7, <1>10, <2>2, <2>4
      <3>2. PICK j \in DelSlot : j >= SlotOf(need[s]) /\ 1 \in FitsAt(j, need[s])
        BY <1>1, <1>2, <1>5, <2>1, <2>2, <2>4, <3>1 DEF TryInv
      <3>3. 1 \in 1 .. Len(del[j]) /\ heads[del[j][1]].size >= need[s]
        BY <3>2 DEF FitsAt
      <3>4. heads'[del[j][1]] = heads[del[j][1]]
        BY <1>3, <1>5, <3>3 DEF ListsExact
      <3>5. CASE j = k
        <4>1. del'[j][2] = del[j][1] /\ 2 \in 1 .. Len(del'[j])
          BY <1>9, <3>3, <3>5, SMTT(30)
        <4>2. 2 \in FitsAt(j, need[s])'
          BY <1>10, <2>1, <3>3, <3>4, <4>1 DEF FitsAt
        <4> QED
          BY <2>1, <3>1, <3>2, <4>2
      <3>6. CASE j # k
        <4>1. del'[j] = del[j]
          BY <1>8, <3>6
        <4>2. 1 \in FitsAt(j, need[s])'
          BY <1>10, <2>1, <3>3, <3>4, <4>1 DEF FitsAt
        <4> QED
          BY <2>1, <3>2, <4>2
      <3> QED
        BY <3>5, <3>6
    <2> QED
      BY <1>10, <2>2, <2>3, <2>4
  <1>12. TryInv'
    BY <1>11 DEF TryInv
  <1> QED
    BY <1>1, <1>4, <1>12, MapData, RecordParts

LEMMA RecordStep == ASSUME RecordInv, [RecordNext]_recordVars PROVE RecordInv'
  <1>1. ASSUME NEW p \in 1 .. SegmentPages, InitPages(p) PROVE RecordInv'
    BY <1>1, InitPagesStep
  <1>2. CASE MapExtent
    BY <1>2, MapStep
  <1>3. CASE ReleaseMBContext
    BY <1>3, ReleaseStep
  <1>4. ASSUME NEW s \in Inserter,
               (\E n \in Sizes : InsertRecord(s, n)) \/ Found(s) \/ Missed(s)
               \/ Allocate(s) \/ NoSpace(s)
        PROVE  RecordInv'
    BY <1>4, InsertStep, FoundStep, MissedStep, AllocateRecStep, NoSpaceStep
  <1>5. CASE UNCHANGED recordVars
    <2>1. DataInv /\ ControlType /\ HoldInv /\ TryInv
      BY RecordParts
    <2>2. UNCHANGED recordData /\ UNCHANGED <<mbLatch, pc, need, tries, newColl>>
      BY <1>5 DEF recordVars
    <2>3. left' = left
      BY <2>2 DEF recordData
    <2>4. ControlType' /\ HoldInv'
      BY <2>1, <2>2, <2>3 DEF ControlType, HoldInv
    <2> QED
      BY <2>1, <2>2, <2>4, DataStays, TryStays, RecordParts
  <1> QED
    BY <1>1, <1>2, <1>3, <1>4, <1>5 DEF RecordNext

LEMMA RecordInitInv == ASSUME RecordInit PROVE RecordInv
  <1>1. /\ ext = <<>> /\ heads = <<>> /\ left = 0 /\ mbLatch = Nobody /\ newColl = TRUE
        /\ del = [j \in DelSlot |-> <<>>] /\ pc = [s \in Inserter |-> "idle"]
        /\ need = [s \in Inserter |-> 0] /\ tries = [s \in Inserter |-> 0]
    BY DEF RecordInit
  <1>2. Len(ext) = 0 /\ Extents = {} /\ DOMAIN heads = {}
    BY <1>1 DEF Extents
  <1>3. DataType
    <2>1. heads \in [DOMAIN heads -> HeadRec] /\ DOMAIN heads \subseteq Extents \X Nat
      BY <1>1, <1>2
    <2> QED
      BY <1>1, <2>1 DEF DataType
  <1>4. LeftInv /\ Tiled /\ FreeSpaceExact /\ RecordChain
    BY <1>1, <1>2 DEF LeftInv, Tiled, FreeSpaceExact, RecordChain
  <1>5. ListsExact
    BY <1>1, <1>2 DEF ListsExact
  <1>6. ControlType /\ HoldInv /\ TryInv
    BY <1>1, RecordAssumption DEF ControlType, HoldInv, TryInv
  <1> QED
    BY <1>3, <1>4, <1>5, <1>6, RecordParts DEF DataInv

(* The inductive invariant of the record space: what the mb latch         *)
(* protects, how far _mapExtent2DelList is, and where a record that fits   *)
(* stands in the lists when _allocRecordSpace searches again.              *)
THEOREM RecordInvariance == RecordSpec => []RecordInv
  BY RecordInitInv, RecordStep, PTL DEF RecordSpec

(* Records and free pieces tile the extents, the delete lists and the      *)
(* chains are exact and an insert takes one extent at most, for any sizes  *)
(* and any number of sessions and extents (insertRecord).                  *)
THEOREM RecordsAreExact == RecordSpec => []RecordsExact
  <1>1. RecordInv => RecordsExact
    BY DEF RecordInv, RecordsExact, OneExtentPerInsert, HoldInv
  <1> QED
    BY <1>1, RecordInvariance, PTL
=============================================================================
