------------------------- MODULE StorageUnitProofs -------------------------
(***************************************************************************)
(* A storage unit stays sound through every extension, failure and restart *)
(* of module StorageUnit, for any sessions and collections, any number and *)
(* size of segments, and any number of crashes.                            *)
(***************************************************************************)
EXTENDS StorageUnit, WellFoundedInduction, TLAPS

-----------------------------------------------------------------------------
(***************************************************************************)
(* The inductive invariant.                                                *)
(***************************************************************************)

(* What a session does between Latch and Unlatch, with _segmentLatch held. *)
Holding == {"pause", "check", "grow", "growing", "map", "size", "deposit",
            "header", "resume", "unlatch"}

(* _segmentLatch and the mb latches have exactly the holders the program   *)
(* counters say, and nobody is inside a call of a unit that is not open.   *)
LatchInv ==
  \A s \in Session :
    /\ segLatch = s <=> call[s].pc \in Holding
    /\ call[s].ctx /\ call[s].pc \in Linking => mb[CollOf[s]] = s
    /\ \A c \in Collection :
         mb[c] = s => c = CollOf[s] /\ call[s].ctx /\ call[s].pc \in Linking
    /\ call[s].pc = "lock" => call[s].ctx
    /\ up # "open" => call[s].pc = "idle"

(* How far the one extension has come, if there is one. *)
Stage == IF segLatch = NoSession THEN "none" ELSE call[segLatch].pc

(* The file has been checked and the new segment is not in the header yet. *)
Adding == {"grow", "growing", "map", "size", "deposit"}

(* Between which two stores of _extendSegments header, file, mappings and  *)
(* space manager differ, and by how much.                                  *)
GrowthInv ==
  up = "open" =>
    /\ Len(maps) = IF Stage = "size" THEN unitSize + 1 ELSE unitSize
    /\ unitSize = IF Stage \in {"deposit", "header"} THEN pageNum + 1 ELSE pageNum
    /\ smeSegs = IF Stage = "header" THEN pageNum + 1 ELSE pageNum
    /\ unitSize <= file
    /\ Stage \in {"grow", "growing"} => file = unitSize
    /\ Stage \in {"map", "size"} => file = unitSize + 1
    /\ Stage \in {"grow", "growing", "map"} => call[segLatch].base = unitSize
    /\ Stage \in Adding => used[pageNum] = 0
    /\ Stage \in Adding \cup {"header"} => pageNum < MaxSeg

(* What openStorage has established after each of its steps, and what the  *)
(* header can be when the process left it.                                 *)
OpenInv ==
  /\ up # "open" => maps = <<>>
  /\ up \in {"align", "fit", "map"} => unitSize = pageNum /\ smeSegs = pageNum
  /\ up = "map" => file = unitSize
  /\ up = "down" => unitSize = pageNum \/ torn \/ lost

(* The space manager gives what the SME bitmap says is free, from the      *)
(* moment the bitmap is loaded.                                            *)
OfferInv ==
  up \in {"open", "align", "fit", "map"} =>
    \A g \in SegID : g < smeSegs => free[g] + used[g] = SegPages

(* Only what the space manager has known of is in use. *)
DataInv ==
  ~lost => \A g \in SegID : used[g] > 0 =>
             g < file /\ g < unitSize /\ (up = "open" => g < smeSegs)

(* A miss counts until a segment is added: segments only get fuller. *)
MissInv ==
  up = "open" => \A s \in Session :
    /\ call[s].pc \in Extending => ~Fits(call[s].req)
    /\ call[s].pc = "latch" =>
         call[s].seen <= smeSegs /\ (call[s].seen = smeSegs => ~Fits(call[s].req))

IInv ==
  /\ TypeOK /\ LatchInv /\ GrowthInv /\ OpenInv /\ OfferInv /\ DataInv /\ MissInv
  /\ MappingAligned /\ RefusedOnlyIfTorn

-----------------------------------------------------------------------------
(* Min is what it should be on a set of naturals. *)
LEMMA MinOfNats ==
  ASSUME NEW S \in SUBSET Nat, S # {}
  PROVE  Min(S) \in S /\ \A y \in S : Min(S) <= y
  <1>1. \E x \in S : \A y \in S : ~(<<y, x>> \in OpToRel(<, Nat))
    BY NatLessThanWellFounded, WFMin
  <1>2. \E x \in S : \A y \in S : x <= y
    <2>1. PICK x \in S : \A y \in S : ~(<<y, x>> \in OpToRel(<, Nat))
      BY <1>1
    <2>2. ASSUME NEW y \in S PROVE x <= y
      <3>1. <<y, x>> \in {ss \in Nat \X Nat : ss[1] < ss[2]} <=> y < x
        OBVIOUS
      <3>2. <<y, x>> \notin {ss \in Nat \X Nat : ss[1] < ss[2]}
        BY <2>1 DEF OpToRel
      <3>. QED
        BY <3>1, <3>2
    <2>. QED
      BY <2>2
  <1>. QED
    BY <1>2 DEF Min

-----------------------------------------------------------------------------
(***************************************************************************)
(* How the local variables of a session change.                            *)
(***************************************************************************)

(* Session s goes on to p and no other session moves. *)
Moved(s, p) ==
  /\ call' \in [Session -> Call]
  /\ call'[s].pc = p /\ call'[s].ctx = call[s].ctx /\ call'[s].req = call[s].req
  /\ \A t \in Session : t # s => call'[t] = call[t]

(* A step of _allocateExtent and _findFreeSpace sends the session on. *)
LEMMA GotoMoves ==
  ASSUME call \in [Session -> Call], NEW s \in Session, NEW p \in PC, Goto(s, p)
  PROVE  Moved(s, p) /\ call'[s].base = call[s].base /\ call'[s].seen = call[s].seen
  BY DEF Goto, Moved, Call

(* A failure in _extendSegments sends the session to resume. *)
LEMMA FaultMoves ==
  ASSUME call \in [Session -> Call], NEW s \in Session,
         NEW r \in {"NOSPC", "CORRUPTED_SME", "IO", "MAP"}, Fault(s, r)
  PROVE  Moved(s, "resume")
  BY DEF Fault, Moved, Call, PC

(* The session that extends is the holder of _segmentLatch. *)
LEMMA StageOf ==
  ASSUME TypeOK, LatchInv, NEW s \in Session, call[s].pc \in Holding
  PROVE  segLatch = s /\ Stage = call[s].pc
  BY UnitAssumption DEF LatchInv, Stage

(* Wherever the holder of _segmentLatch goes, that is the stage. *)
LEMMA StageMoves ==
  ASSUME TypeOK, LatchInv, NEW s \in Session, call[s].pc \in Holding,
         NEW p, Moved(s, p), segLatch' = segLatch
  PROVE  segLatch = s /\ Stage = call[s].pc /\ Stage' = p
  BY StageOf, UnitAssumption DEF Stage, Moved

(* A session without _segmentLatch does not disturb the extension. *)
LEMMA StageStays ==
  ASSUME TypeOK, LatchInv, NEW s \in Session, call[s].pc \notin Holding,
         \A t \in Session : t # s => call'[t] = call[t], segLatch' = segLatch
  PROVE  Stage' = Stage /\ (Stage # "none" => call'[segLatch] = call[segLatch])
  BY UnitAssumption DEF TypeOK, LatchInv, Stage

(* A miss of reservePages stays one while no segment is added.             *)
LEMMA MissStays ==
  ASSUME TypeOK, MissInv, up = "open", smeSegs' = smeSegs,
         \A g \in SegID : free'[g] \in Nat /\ free'[g] <= free[g],
         \A t \in Session :
           /\ call'[t].req = call[t].req \/ call'[t].pc \in {"idle", "lock", "reserve"}
           /\ call'[t].pc \in Extending =>
                \/ call[t].pc \in Extending
                \/ call[t].pc = "latch" /\ call[t].seen = smeSegs
           /\ call'[t].pc = "latch" =>
                call[t].pc = "latch" /\ call'[t].seen = call[t].seen
  PROVE  MissInv'
  <1> SUFFICES ASSUME NEW t \in Session,
                      call'[t].pc \in Extending \cup {"latch"}
               PROVE  /\ call'[t].pc \in Extending => ~Fits(call[t].req)'
                      /\ call'[t].pc = "latch" =>
                           /\ call'[t].seen <= smeSegs'
                           /\ call'[t].seen = smeSegs' => ~Fits(call[t].req)'
    BY DEF MissInv
  <1>1. call'[t].req = call[t].req
    BY DEF Extending
  <1>2. ~Fits(call[t].req) => ~Fits(call[t].req)'
    <2> SUFFICES ASSUME NEW g \in SegID, g < smeSegs, free'[g] >= call[t].req
                 PROVE  free[g] >= call[t].req
      BY <1>1 DEF Fits, Fitting, TypeOK
    <2> QED
      BY DEF TypeOK, Call
  <1>3. CASE call'[t].pc \in Extending
    BY <1>2, <1>3 DEF MissInv, Extending
  <1>4. CASE call'[t].pc = "latch"
    BY <1>2, <1>4 DEF MissInv, Extending
  <1> QED
    BY <1>3, <1>4

-----------------------------------------------------------------------------
(***************************************************************************)
(* Steps that change neither the file nor what is known of it.             *)
(***************************************************************************)
Untouched == UNCHANGED <<up, file, unitSize, pageNum, used, maps, smeSegs, free,
                         torn, lost>>

(* Beside an extension: the extending session does not move. *)
LEMMA Beside ==
  ASSUME IInv, Untouched, Stage' = Stage,
         Stage # "none" => call'[segLatch'] = call[segLatch]
  PROVE  /\ GrowthInv' /\ OpenInv' /\ OfferInv' /\ DataInv'
         /\ MappingAligned' /\ RefusedOnlyIfTorn'
  <1>1. GrowthInv'
    BY DEF IInv, Untouched, GrowthInv, Adding
  <1> QED
    BY <1>1 DEF IInv, Untouched, OpenInv, OfferInv, DataInv, MappingAligned,
                RefusedOnlyIfTorn

(* Before or after one: nothing has been added, or all of it. *)
LEMMA Between ==
  ASSUME IInv, Untouched, Stage \notin {"size", "deposit", "header"},
         Stage' \notin Adding \cup {"header"}
  PROVE  /\ GrowthInv' /\ OpenInv' /\ OfferInv' /\ DataInv'
         /\ MappingAligned' /\ RefusedOnlyIfTorn'
  <1>1. GrowthInv'
    BY DEF IInv, Untouched, GrowthInv, Adding
  <1> QED
    BY <1>1 DEF IInv, Untouched, OpenInv, OfferInv, DataInv, MappingAligned,
                RefusedOnlyIfTorn

(* addCollection or an insert asks for an extent. *)
LEMMA BeginIInv ==
  ASSUME IInv, NEW s \in Session, NEW n \in 1 .. SegPages, NEW c \in BOOLEAN,
         Begin(s, n, c)
  PROVE  IInv'
  <1> USE DEF Begin, At, IInv
  <1>1. /\ call' \in [Session -> Call]
        /\ call'[s].pc = (IF c THEN "lock" ELSE "reserve") /\ call'[s].ctx = c
        /\ \A t \in Session : t # s => call'[t] = call[t]
    <2>1. CASE c = TRUE
      BY <2>1, UnitAssumption DEF TypeOK, Idle, Fresh, Call, PC, Linking
    <2>2. CASE c = FALSE
      BY <2>2, UnitAssumption DEF TypeOK, Idle, Fresh, Call, PC, Linking
    <2> QED
      BY <2>1, <2>2
  <1>2. TypeOK'
    BY <1>1 DEF TypeOK, header, memory, latches, media, history
  <1>3. LatchInv'
    BY <1>1 DEF LatchInv, TypeOK, Linking, Holding, latches
  <1>4. MissInv'
    <2>1. \A g \in SegID : free'[g] \in Nat /\ free'[g] <= free[g]
      BY DEF TypeOK, memory
    <2> QED
      BY <1>1, <2>1, MissStays DEF memory, Extending
  <1>5. Stage' = Stage /\ (Stage # "none" => call'[segLatch] = call[segLatch])
    BY <1>1, StageStays DEF Holding, latches
  <1> QED
    BY <1>2, <1>3, <1>4, <1>5, Beside DEF Untouched, header, memory, latches, history

(* mbLock. *)
LEMMA LockIInv ==
  ASSUME IInv, NEW s \in Session, Lock(s)
  PROVE  IInv'
  <1> USE DEF Lock, LockMB, At, IInv
  <1>1. Moved(s, "reserve")
    BY GotoMoves DEF TypeOK, PC, Linking
  <1>2. TypeOK'
    BY <1>1, UnitAssumption DEF TypeOK, Moved, header, memory, media, history
  <1>3. LatchInv'
    <2>1. CollOf[s] \in Collection /\ mb'[CollOf[s]] = s
      BY UnitAssumption DEF TypeOK
    <2>2. \A c \in Collection : c # CollOf[s] => mb'[c] = mb[c]
      BY DEF TypeOK
    <2>3. \A t \in Session : CollOf[t] = CollOf[s] => ~(call[t].ctx /\ call[t].pc \in Linking)
      BY UnitAssumption DEF LatchInv
    <2> HIDE DEF LockMB
    <2> QED
      BY <1>1, <2>1, <2>2, <2>3, UnitAssumption DEF LatchInv, Moved, Linking, Holding
  <1>4. MissInv'
    <2>1. \A g \in SegID : free'[g] \in Nat /\ free'[g] <= free[g]
      BY DEF TypeOK, memory
    <2> QED
      BY <1>1, <2>1, MissStays DEF Moved, memory, Extending
  <1>5. Stage' = Stage /\ (Stage # "none" => call'[segLatch] = call[segLatch])
    BY <1>1, StageStays DEF Moved, Holding
  <1> QED
    BY <1>2, <1>3, <1>4, <1>5, Beside DEF Untouched, header, memory, history

(* reservePages finds nothing. *)
LEMMA ReserveMissIInv ==
  ASSUME IInv, NEW s \in Session, ReserveMiss(s)
  PROVE  IInv'
  <1> USE DEF ReserveMiss, At, IInv
  <1>1. Moved(s, "latch") /\ call'[s].seen = smeSegs
    BY ZenonT(60) DEF TypeOK, Moved, Call, PC, Linking
  <1>2. TypeOK'
    BY <1>1 DEF TypeOK, Moved, header, memory, latches, media, history
  <1>3. LatchInv'
    BY <1>1 DEF LatchInv, Moved, Linking, Holding, latches
  <1>4. MissInv'
    <2> SUFFICES ASSUME NEW t \in Session
                 PROVE  /\ call'[t].pc \in Extending => ~Fits(call[t].req)'
                        /\ call'[t].pc = "latch" =>
                             /\ call'[t].seen <= smeSegs'
                             /\ call'[t].seen = smeSegs' => ~Fits(call[t].req)'
      BY DEF MissInv
    <2>1. call'[t].req = call[t].req /\ UNCHANGED <<smeSegs, free>>
      BY <1>1 DEF Moved, memory
    <2>2. Fits(call[t].req)' <=> Fits(call[t].req)
      BY <2>1 DEF Fits, Fitting
    <2>3. CASE t = s
      BY <1>1, <2>1, <2>2, <2>3 DEF Moved, Extending, TypeOK
    <2>4. CASE t # s
      BY <1>1, <2>1, <2>2, <2>4 DEF Moved, MissInv
    <2> QED
      BY <2>3, <2>4
  <1>5. Stage' = Stage /\ (Stage # "none" => call'[segLatch] = call[segLatch])
    BY <1>1, StageStays DEF Moved, Holding, latches
  <1> QED
    BY <1>2, <1>3, <1>4, <1>5, Beside DEF Untouched, header, memory, latches, history

(* reservePages finds pages in the first segment that has enough of them. *)
LEMMA ReserveHitIInv ==
  ASSUME IInv, NEW s \in Session, ReserveHit(s)
  PROVE  IInv'
  <1> DEFINE n == call[s].req
             g == Min(Fitting(n))
  <1> USE DEF ReserveHit, At, IInv
  <1>1. Moved(s, "finish")
    BY GotoMoves DEF TypeOK, PC, Linking
  <1>2. g \in SegID /\ g < smeSegs /\ free[g] >= n
    <2>1. Fitting(n) \in SUBSET Nat
      BY DEF Fitting, SegID
    <2>2. g \in Fitting(n)
      BY <2>1, MinOfNats DEF Fits
    <2> QED
      BY <2>2 DEF Fitting
  <1>3. n \in Nat /\ free[g] \in Nat /\ used[g] \in Nat /\ free[g] + used[g] = SegPages
    BY <1>2, UnitAssumption DEF TypeOK, Call, OfferInv
  <1>4. /\ free' = [free EXCEPT ![g] = @ - n]
        /\ used' = [used EXCEPT ![g] = @ + n]
    OBVIOUS
  <1>5. TypeOK'
    <2> HIDE DEF n, g, ReserveHit
    <2>1. free' \in [SegID -> 0 .. SegPages]
      BY <1>2, <1>3, <1>4, UnitAssumption DEF TypeOK
    <2>2. used' \in [SegID -> 0 .. SegPages]
      BY <1>2, <1>3, <1>4, UnitAssumption DEF TypeOK
    <2> QED
      BY <1>1, <2>1, <2>2 DEF TypeOK, Moved, ReserveHit, header, latches, media, history
  <1> HIDE DEF g
  <1>6. LatchInv'
    BY <1>1 DEF LatchInv, Moved, Linking, Holding, latches
  <1>7. \A h \in SegID : free'[h] \in Nat /\ free'[h] <= free[h]
    BY <1>2, <1>3, <1>4, UnitAssumption DEF TypeOK
  <1>8. MissInv'
    BY <1>1, <1>7, MissStays DEF Moved, Extending
  <1>9. Stage' = Stage /\ (Stage # "none" => call'[segLatch] = call[segLatch])
    BY <1>1, StageStays DEF Moved, Holding, latches
  <1>10. GrowthInv'
    <2>1. \A h \in SegID : h # g => used'[h] = used[h]
      BY <1>4 DEF TypeOK
    <2>2. Stage \in Adding => pageNum \in SegID /\ pageNum # g
      BY <1>2, UnitAssumption DEF GrowthInv, Adding, SegID, TypeOK
    <2> QED
      BY <1>9, <2>1, <2>2 DEF GrowthInv, Adding, header, latches
  <1>11. OfferInv'
    BY <1>2, <1>3, <1>4, UnitAssumption DEF OfferInv, TypeOK
  <1>12. DataInv'
    <2>1. g < unitSize /\ g < file
      BY <1>2, UnitAssumption DEF GrowthInv, TypeOK, SegID
    <2> QED
      BY <1>2, <1>3, <1>4, <2>1 DEF DataInv, TypeOK, header, history
  <1> QED
    BY <1>5, <1>6, <1>8, <1>10, <1>11, <1>12
    DEF OpenInv, MappingAligned, RefusedOnlyIfTorn, header, history

(* addExtent2Meta, or the end of a call that failed. *)
LEMMA FinishIInv ==
  ASSUME IInv, NEW s \in Session, Finish(s)
  PROVE  IInv'
  <1> USE DEF Finish, At, IInv
  <1>1. /\ call' \in [Session -> Call] /\ call'[s].pc = "idle" /\ ~call'[s].ctx
        /\ \A t \in Session : t # s => call'[t] = call[t]
    BY UnitAssumption DEF TypeOK, Idle, Fresh, Call, PC
  <1>2. TypeOK'
    BY <1>1, UnitAssumption DEF TypeOK, UnlockMB, header, memory, media, history
  <1>3. LatchInv'
    BY <1>1, UnitAssumption DEF LatchInv, TypeOK, UnlockMB, Linking, Holding
  <1>4. MissInv'
    BY <1>1, MissStays DEF TypeOK, memory, Extending
  <1>5. Stage' = Stage /\ (Stage # "none" => call'[segLatch] = call[segLatch])
    BY <1>1, StageStays DEF Holding
  <1> QED
    BY <1>2, <1>3, <1>4, <1>5, Beside DEF Untouched, header, memory, history

-----------------------------------------------------------------------------
(***************************************************************************)
(* _findFreeSpace around the extension.                                    *)
(***************************************************************************)

(* The latch is obtained: somebody has added a segment, or nobody has.     *)
LEMMA LatchIInv ==
  ASSUME IInv, NEW s \in Session, Latch(s)
  PROVE  IInv'
  <1> USE DEF Latch, At, IInv
  <1>1. Moved(s, IF call[s].seen # smeSegs THEN "reserve" ELSE "pause")
    BY GotoMoves DEF TypeOK, PC, Linking
  <1>2. TypeOK'
    BY <1>1 DEF TypeOK, Moved, header, memory, media, history
  <1>3. LatchInv'
    BY <1>1, UnitAssumption DEF LatchInv, Moved, Linking, Holding
  <1>4. MissInv'
    <2>1. \A g \in SegID : free'[g] \in Nat /\ free'[g] <= free[g]
      BY DEF TypeOK, memory
    <2> QED
      BY <1>1, <2>1, MissStays DEF Moved, memory, Extending
  <1>5. Stage = "none" /\ Stage' \in {"none", "pause"}
    BY <1>1, UnitAssumption DEF Stage, Moved
  <1> QED
    BY <1>2, <1>3, <1>4, <1>5, Between DEF Untouched, Adding, header, memory, history

(* The mb latch is given up for the time of the extension. *)
LEMMA PauseIInv ==
  ASSUME IInv, NEW s \in Session, Pause(s)
  PROVE  IInv'
  <1> USE DEF Pause, At, IInv
  <1>1. Moved(s, "check")
    BY GotoMoves DEF TypeOK, PC, DiskIO
  <1>2. TypeOK'
    BY <1>1, UnitAssumption DEF TypeOK, UnlockMB, Moved, header, memory, media, history
  <1>3. LatchInv'
    BY <1>1, UnitAssumption DEF LatchInv, TypeOK, UnlockMB, Moved, Linking, Holding
  <1>4. MissInv'
    <2>1. \A g \in SegID : free'[g] \in Nat /\ free'[g] <= free[g]
      BY DEF TypeOK, memory
    <2> QED
      BY <1>1, <2>1, MissStays DEF Moved, memory, Extending
  <1>5. Stage = "pause" /\ Stage' = "check"
    BY <1>1, StageMoves DEF Holding
  <1> QED
    BY <1>2, <1>3, <1>4, <1>5, Between DEF Untouched, Adding, header, memory, history

(* The mb latch is taken back. *)
LEMMA ResumeIInv ==
  ASSUME IInv, NEW s \in Session, Resume(s)
  PROVE  IInv'
  <1> USE DEF Resume, At, IInv
  <1>1. Moved(s, "unlatch")
    BY GotoMoves DEF TypeOK, PC, Linking
  <1>2. TypeOK'
    BY <1>1, UnitAssumption DEF TypeOK, LockMB, Moved, header, memory, media, history
  <1>3. LatchInv'
    <2>1. CASE ~call[s].ctx
      BY <1>1, <2>1 DEF LatchInv, Moved, Linking, Holding
    <2>2. CASE call[s].ctx
      <3>1. CollOf[s] \in Collection /\ mb'[CollOf[s]] = s
        BY <2>2, UnitAssumption DEF TypeOK, LockMB
      <3>2. \A c \in Collection : c # CollOf[s] => mb'[c] = mb[c]
        BY <2>2 DEF TypeOK, LockMB
      <3>3. \A t \in Session : CollOf[t] = CollOf[s] => ~(call[t].ctx /\ call[t].pc \in Linking)
        BY <2>2, UnitAssumption DEF LatchInv, LockMB
      <3>4. up' = up /\ segLatch' = segLatch /\ LatchInv /\ call[s].pc = "resume"
        OBVIOUS
      <3> HIDE DEF Resume, IInv
      <3>5. ASSUME NEW t \in Session, t # s PROVE LatchInv!(t)'
        BY <1>1, <3>1, <3>2, <3>3, <3>4, <3>5, UnitAssumption DEF LatchInv, Moved
      <3>6. LatchInv!(s)'
        BY <1>1, <2>2, <3>1, <3>2, <3>4, UnitAssumption DEF LatchInv, Moved, Linking, Holding
      <3> QED
        BY <3>5, <3>6 DEF LatchInv
    <2> QED
      BY <2>1, <2>2
  <1>4. MissInv'
    <2>1. \A g \in SegID : free'[g] \in Nat /\ free'[g] <= free[g]
      BY DEF TypeOK, memory
    <2> QED
      BY <1>1, <2>1, MissStays DEF Moved, memory, Extending
  <1>5. Stage = "resume" /\ Stage' = "unlatch"
    BY <1>1, StageMoves DEF Holding
  <1> QED
    BY <1>2, <1>3, <1>4, <1>5, Between DEF Untouched, Adding, header, memory, history

(* _segmentLatch is released. *)
LEMMA UnlatchIInv ==
  ASSUME IInv, NEW s \in Session, Unlatch(s)
  PROVE  IInv'
  <1> USE DEF Unlatch, At, IInv
  <1>1. Moved(s, IF call[s].rc = "OK" THEN "reserve" ELSE "finish")
    BY GotoMoves DEF TypeOK, PC, Linking
  <1>2. TypeOK'
    BY <1>1 DEF TypeOK, Moved, header, memory, media, history
  <1>3. LatchInv'
    BY <1>1, UnitAssumption DEF LatchInv, Moved, Linking, Holding
  <1>4. MissInv'
    <2>1. \A g \in SegID : free'[g] \in Nat /\ free'[g] <= free[g]
      BY DEF TypeOK, memory
    <2> QED
      BY <1>1, <2>1, MissStays DEF Moved, memory, Extending
  <1>5. Stage = "unlatch" /\ Stage' = "none"
    BY StageOf DEF Stage, Holding
  <1> QED
    BY <1>2, <1>3, <1>4, <1>5, Between DEF Untouched, Adding, header, memory, history

-----------------------------------------------------------------------------
(***************************************************************************)
(* _extendSegments.                                                        *)
(***************************************************************************)

(* The extending session goes on: latches and misses are not disturbed.    *)
LEMMA ExtendStep ==
  ASSUME IInv, NEW s \in Session, At(s, call[s].pc), call[s].pc \in Holding \ {"pause", "unlatch"},
         NEW p \in Holding \ {"pause", "unlatch"}, Moved(s, p), segLatch' = segLatch, mb' = mb,
         up' = up
  PROVE  /\ LatchInv'
         /\ segLatch = s /\ Stage = call[s].pc /\ Stage' = p
  <1>1. LatchInv'
    BY DEF IInv, LatchInv, Moved, Linking, Holding, At
  <1> QED
    BY <1>1, StageMoves DEF IInv

(* A step of an extension that adds no segment leaves every miss a miss.   *)
LEMMA ExtendMiss ==
  ASSUME IInv, NEW s \in Session, call[s].pc \in Extending \cup {"header"}, up = "open",
         NEW p \in Holding \ {"unlatch"}, Moved(s, p), UNCHANGED <<smeSegs, free>>,
         p \in Extending => call[s].pc \in Extending
  PROVE  MissInv'
  <1>1. \A g \in SegID : free'[g] \in Nat /\ free'[g] <= free[g]
    BY DEF IInv, TypeOK
  <1> QED
    BY <1>1, MissStays DEF IInv, Moved, Extending, Holding

(* No segment is added. *)
LEMMA CheckRefuseIInv ==
  ASSUME IInv, NEW s \in Session, CheckRefuse(s) \/ CheckTruncateFail(s) \/ MapFail(s)
  PROVE  IInv'
  <1>1. /\ At(s, call[s].pc) /\ call[s].pc \in {"check", "map"}
        /\ UNCHANGED <<up, file, part, header, used, memory, sparse, latches, media, history>>
    BY DEF CheckRefuse, CheckTruncateFail, MapFail, At
  <1>2. Moved(s, "resume")
    BY FaultMoves DEF CheckRefuse, CheckTruncateFail, MapFail, IInv, TypeOK
  <1>3. TypeOK'
    BY <1>1, <1>2 DEF IInv, TypeOK, Moved, header, memory, latches, media, history
  <1>4. LatchInv' /\ Stage = call[s].pc /\ Stage' = "resume"
    BY <1>1, <1>2, ExtendStep DEF Holding, latches
  <1>5. MissInv'
    BY <1>1, <1>2, ExtendMiss DEF Extending, Holding, memory, At
  <1> QED
    BY <1>1, <1>3, <1>4, <1>5, Between DEF IInv, Untouched, Adding, header, memory, history

(* The file is as long as the header says, and the pages to add are free.  *)
LEMMA CheckIInv ==
  ASSUME IInv, NEW s \in Session, Check(s)
  PROVE  IInv'
  <1> USE DEF IInv
  <1>1. At(s, "check") /\ pageNum < MaxSeg /\ used[pageNum] = 0
    BY DEF Check
  <1>2. up = "open" /\ call[s].pc = "check" /\ Stage = "check" /\ segLatch = s
    BY <1>1, StageOf DEF At, Holding
  <1>3. file' = unitSize
    BY <1>2 DEF Check, SetLength, TooLong, GrowthInv, TypeOK
  <1>4. Moved(s, "grow") /\ call'[s].base = file'
    <2>1. call' = [call EXCEPT ![s].pc = "grow", ![s].base = unitSize]
      BY <1>3 DEF Check
    <2> QED
      BY <1>3, <2>1, ZenonT(40) DEF TypeOK, Moved, Call, PC, DiskIO
  <1>5. TypeOK'
    BY <1>3, <1>4 DEF Check, SetLength, TypeOK, Moved, header, memory, latches, history
  <1>6. LatchInv' /\ Stage' = "grow"
    BY <1>2, <1>4, ExtendStep DEF Check, At, Holding, latches
  <1>7. MissInv'
    BY <1>2, <1>4, ExtendMiss DEF Check, Extending, Holding, memory
  <1>8. GrowthInv'
    BY <1>1, <1>2, <1>3, <1>4, <1>6 DEF Check, GrowthInv, Adding, TypeOK, header, memory, latches
  <1>9. DataInv'
    BY <1>3 DEF Check, DataInv, header, memory, history
  <1> QED
    BY <1>2, <1>5, <1>6, <1>7, <1>8, <1>9
    DEF Check, OpenInv, OfferInv, MappingAligned, RefusedOnlyIfTorn, memory, history

(* Part of a segment is there. *)
LEMMA GrowIInv ==
  ASSUME IInv, NEW s \in Session, Grow(s)
  PROVE  IInv'
  <1> USE DEF Grow, IInv
  <1>1. Moved(s, "growing") /\ call'[s].base = call[s].base
    BY GotoMoves DEF TypeOK, PC, DiskIO
  <1>2. TypeOK'
    BY <1>1 DEF TypeOK, Moved, header, memory, latches, media, history
  <1>3. LatchInv' /\ segLatch = s /\ Stage = "grow" /\ Stage' = "growing"
    BY <1>1, ExtendStep DEF At, Holding, latches
  <1>4. MissInv'
    BY <1>1, ExtendMiss DEF At, Extending, Holding, memory
  <1>5. GrowthInv'
    BY <1>1, <1>3 DEF GrowthInv, Adding, header, memory, latches
  <1> QED
    BY <1>2, <1>3, <1>4, <1>5
    DEF OpenInv, OfferInv, DataInv, MappingAligned, RefusedOnlyIfTorn, header, memory, history

(* The whole segment is there. *)
LEMMA GrowEndIInv ==
  ASSUME IInv, NEW s \in Session, GrowEnd(s)
  PROVE  IInv'
  <1> USE DEF GrowEnd, SetLength, IInv
  <1>1. Moved(s, "map") /\ call'[s].base = call[s].base
    BY GotoMoves DEF TypeOK, PC, DiskIO
  <1>2. LatchInv' /\ segLatch = s /\ Stage = "growing" /\ Stage' = "map"
    BY <1>1, ExtendStep DEF At, Holding, latches
  <1>3. file = unitSize /\ unitSize = pageNum /\ pageNum < MaxSeg
    BY <1>2 DEF At, GrowthInv, Adding
  <1>4. TypeOK'
    <2>1. file + 1 \in 0 .. MaxSeg
      BY <1>3, UnitAssumption DEF TypeOK
    <2> QED
      BY <1>1, <2>1 DEF TypeOK, Moved, header, memory, latches, history
  <1>5. MissInv'
    BY <1>1, ExtendMiss DEF At, Extending, Holding, memory
  <1>6. GrowthInv'
    BY <1>1, <1>2, <1>3 DEF GrowthInv, Adding, TypeOK, header, memory, latches
  <1>7. DataInv'
    BY <1>3 DEF DataInv, TypeOK, SegID, header, memory, history
  <1> QED
    BY <1>2, <1>4, <1>5, <1>6, <1>7
    DEF OpenInv, OfferInv, MappingAligned, RefusedOnlyIfTorn, At, header, memory, history

(* What was added is cut off, and once it is tried again without sparse.   *)
LEMMA GrowFailIInv ==
  ASSUME IInv, NEW s \in Session, GrowFail(s)
  PROVE  IInv'
  <1> USE DEF IInv
  <1>1. PICK p \in {"grow", "resume"} :
          Moved(s, p) /\ (p = "grow" => call'[s].base = call[s].base)
    BY GotoMoves, FaultMoves DEF GrowFail, TypeOK, PC, DiskIO
  <1>2. /\ up = "open" /\ call[s].pc \in {"grow", "growing"}
        /\ UNCHANGED <<up, header, used, memory, latches, headers, history>>
        /\ file' = call[s].base /\ part' = FALSE /\ sparse' \in BOOLEAN
        /\ lengths' = IF Power THEN lengths \cup {call[s].base} ELSE lengths
    BY DEF GrowFail, SetLength, At, TypeOK
  <1>3. LatchInv' /\ segLatch = s /\ Stage = call[s].pc /\ Stage' = p
    BY <1>1, <1>2, ExtendStep DEF At, Holding, latches
  <1>4. file = unitSize /\ call[s].base = unitSize /\ used[pageNum] = 0 /\ pageNum < MaxSeg
    BY <1>2, <1>3 DEF GrowthInv, Adding
  <1>5. TypeOK'
    BY <1>1, <1>2, <1>4 DEF TypeOK, Moved, header, memory, latches, history
  <1>6. MissInv'
    BY <1>1, <1>2, ExtendMiss DEF Extending, Holding, memory
  <1>7. GrowthInv'
    BY <1>1, <1>2, <1>3, <1>4 DEF GrowthInv, Adding, header, memory, latches
  <1> QED
    BY <1>2, <1>3, <1>4, <1>5, <1>6, <1>7
    DEF OpenInv, OfferInv, DataInv, MappingAligned, RefusedOnlyIfTorn, header, memory, history

(* The segment is mapped behind the others. *)
LEMMA MapSegIInv ==
  ASSUME IInv, NEW s \in Session, MapSeg(s)
  PROVE  IInv'
  <1> USE DEF MapSeg, IInv
  <1>1. Moved(s, "size")
    BY GotoMoves DEF TypeOK, PC, DiskIO
  <1>2. LatchInv' /\ segLatch = s /\ Stage = "map" /\ Stage' = "size"
    BY <1>1, ExtendStep DEF At, Holding, latches
  <1>3. /\ up = "open" /\ Len(maps) = unitSize /\ unitSize = pageNum /\ pageNum < MaxSeg
        /\ call[s].base = unitSize /\ file = unitSize + 1 /\ used[pageNum] = 0
        /\ smeSegs = pageNum
    BY <1>2 DEF At, GrowthInv, Adding
  <1>4. maps' = Append(maps, unitSize) /\ unitSize \in SegID
    BY <1>3, UnitAssumption DEF TypeOK, SegID
  <1>5. /\ maps' \in Seq(SegID) /\ Len(maps') = Len(maps) + 1
        /\ \A i \in 1 .. Len(maps) : maps'[i] = maps[i]
        /\ maps'[Len(maps) + 1] = unitSize
    BY <1>4 DEF TypeOK
  <1>6. TypeOK'
    BY <1>1, <1>5 DEF TypeOK, Moved, header, latches, media, history
  <1>7. MissInv'
    BY <1>1, ExtendMiss DEF At, Extending, Holding
  <1>8. GrowthInv'
    BY <1>2, <1>3, <1>5 DEF GrowthInv, Adding, header, latches
  <1>9. MappingAligned'
    <2> SUFFICES ASSUME NEW i \in 1 .. Len(maps) + 1
                 PROVE  maps'[i] = i - 1
      BY <1>5 DEF MappingAligned
    <2>1. CASE i = Len(maps) + 1
      BY <1>3, <1>5, <2>1 DEF TypeOK
    <2>2. CASE i \in 1 .. Len(maps)
      BY <1>5, <2>2 DEF MappingAligned
    <2>3. Len(maps) \in Nat
      BY DEF TypeOK
    <2> QED
      BY <2>1, <2>2, <2>3
  <1> QED
    BY <1>2, <1>3, <1>6, <1>7, <1>8, <1>9
    DEF OpenInv, OfferInv, DataInv, RefusedOnlyIfTorn, header, history

(* _storageUnitSize counts the segment. *)
LEMMA SetSizeIInv ==
  ASSUME IInv, NEW s \in Session, SetSize(s)
  PROVE  IInv'
  <1> USE DEF SetSize, SetHeader, IInv
  <1>1. Moved(s, "deposit")
    BY GotoMoves DEF TypeOK, PC, DiskIO
  <1>2. LatchInv' /\ segLatch = s /\ Stage = "size" /\ Stage' = "deposit"
    BY <1>1, ExtendStep DEF At, Holding, latches
  <1>3. /\ up = "open" /\ Len(maps) = unitSize + 1 /\ unitSize = pageNum
        /\ pageNum < MaxSeg /\ file = unitSize + 1 /\ used[pageNum] = 0 /\ smeSegs = pageNum
    BY <1>2 DEF At, GrowthInv, Adding
  <1>4. TypeOK'
    <2>1. unitSize + 1 \in 0 .. MaxSeg
      BY <1>3, UnitAssumption DEF TypeOK
    <2> QED
      BY <1>1, <2>1 DEF TypeOK, Moved, memory, latches, history
  <1>5. MissInv'
    BY <1>1, ExtendMiss DEF At, Extending, Holding, memory
  <1>6. GrowthInv'
    BY <1>2, <1>3 DEF GrowthInv, Adding, TypeOK, memory, latches
  <1>7. DataInv'
    BY <1>3 DEF DataInv, TypeOK, SegID, memory, history
  <1> QED
    BY <1>2, <1>3, <1>4, <1>5, <1>6, <1>7
    DEF OpenInv, OfferInv, MappingAligned, RefusedOnlyIfTorn, memory, history

(* depositASegment: the space manager has the pages. *)
LEMMA DepositIInv ==
  ASSUME IInv, NEW s \in Session, Deposit(s)
  PROVE  IInv'
  <1> USE DEF Deposit, IInv
  <1>1. Moved(s, "header")
    BY GotoMoves DEF TypeOK, PC, DiskIO
  <1>2. LatchInv' /\ segLatch = s /\ Stage = "deposit" /\ Stage' = "header"
    BY <1>1, ExtendStep DEF At, Holding, latches
  <1>3. /\ up = "open" /\ Len(maps) = unitSize /\ unitSize = pageNum + 1
        /\ pageNum < MaxSeg /\ unitSize <= file /\ used[pageNum] = 0 /\ smeSegs = pageNum
    BY <1>2 DEF At, GrowthInv, Adding
  <1>4. pageNum \in SegID /\ smeSegs + 1 \in 0 .. MaxSeg
    BY <1>3, UnitAssumption DEF TypeOK, SegID
  <1>5. TypeOK'
    <2>1. free' \in [SegID -> 0 .. SegPages]
      BY <1>4, UnitAssumption DEF TypeOK
    <2> QED
      BY <1>1, <1>4, <2>1 DEF TypeOK, Moved, header, latches, media, history
  <1>6. MissInv'
    <2>1. ASSUME NEW t \in Session
          PROVE  /\ call'[t].pc \notin Extending
                 /\ call'[t].pc = "latch" => call'[t].seen <= smeSegs
      <3>1. CASE t = s
        BY <1>1, <3>1 DEF Moved, Extending
      <3>2. CASE t # s
        <4>1. call'[t] = call[t] /\ call[t].pc \notin Holding
          BY <1>1, <1>2, <3>2 DEF Moved, LatchInv
        <4> QED
          BY <1>3, <4>1 DEF MissInv, Extending, Holding
      <3> QED
        BY <3>1, <3>2
    <2>2. \A t \in Session : call'[t].seen \in Int
      BY <1>5 DEF TypeOK, Call
    <2>3. smeSegs \in Int /\ smeSegs' = smeSegs + 1
      BY DEF TypeOK
    <2> HIDE DEF Deposit, IInv
    <2> QED
      BY <2>1, <2>2, <2>3 DEF MissInv
  <1>7. GrowthInv'
    BY <1>2, <1>3 DEF GrowthInv, Adding, TypeOK, header, latches
  <1>8. OfferInv'
    <2> SUFFICES ASSUME NEW g \in SegID, g < smeSegs + 1
                 PROVE  free'[g] + used[g] = SegPages
      BY DEF OfferInv
    <2>1. CASE g = pageNum
      BY <1>3, <2>1, UnitAssumption DEF TypeOK
    <2>2. CASE g # pageNum
      <3>1. g < smeSegs /\ free'[g] = free[g]
        BY <1>3, <2>2 DEF TypeOK, SegID
      <3> QED
        BY <1>3, <3>1 DEF OfferInv
    <2> QED
      BY <2>1, <2>2
  <1>9. DataInv'
    BY <1>3 DEF DataInv, TypeOK, SegID, header, history
  <1> QED
    BY <1>2, <1>3, <1>5, <1>6, <1>7, <1>8, <1>9
    DEF OpenInv, MappingAligned, RefusedOnlyIfTorn, header, history

(* _pageNum counts it too. *)
LEMMA HeaderIInv ==
  ASSUME IInv, NEW s \in Session, Header(s)
  PROVE  IInv'
  <1> USE DEF Header, SetHeader, IInv
  <1>1. Moved(s, "resume")
    BY GotoMoves DEF TypeOK, PC
  <1>2. LatchInv' /\ segLatch = s /\ Stage = "header" /\ Stage' = "resume"
    BY <1>1, ExtendStep DEF At, Holding, latches
  <1>3. /\ up = "open" /\ Len(maps) = unitSize /\ unitSize = pageNum + 1
        /\ pageNum < MaxSeg /\ unitSize <= file /\ smeSegs = pageNum + 1
    BY <1>2 DEF At, GrowthInv, Adding
  <1>4. TypeOK'
    <2>1. pageNum + 1 \in 0 .. MaxSeg
      BY <1>3, UnitAssumption DEF TypeOK
    <2> QED
      BY <1>1, <2>1 DEF TypeOK, Moved, memory, latches, history
  <1>5. MissInv'
    BY <1>1, ExtendMiss DEF At, Extending, Holding, memory
  <1>6. GrowthInv'
    BY <1>2, <1>3 DEF GrowthInv, Adding, memory, latches
  <1> QED
    BY <1>2, <1>3, <1>4, <1>5, <1>6
    DEF OpenInv, OfferInv, DataInv, MappingAligned, RefusedOnlyIfTorn, memory, history

-----------------------------------------------------------------------------
(***************************************************************************)
(* The unit goes down and is opened again.                                 *)
(***************************************************************************)

(* In a unit that is down there is nothing in memory to be wrong. *)
LEMMA Down ==
  ASSUME IInv, LoseMemory
  PROVE  /\ call' \in [Session -> Call] /\ maps' \in Seq(SegID) /\ smeSegs' \in 0 .. MaxSeg
         /\ free' \in [SegID -> 0 .. SegPages] /\ crashes' \in 0 .. MaxCrash
         /\ segLatch' = NoSession /\ mb' \in [Collection -> Session \cup {NoSession}]
         /\ up' = "down"
         /\ LatchInv' /\ GrowthInv' /\ OfferInv' /\ MissInv' /\ MappingAligned'
         /\ RefusedOnlyIfTorn' /\ maps' = <<>>
  <1> USE DEF LoseMemory
  <1>1. call' \in [Session -> Call] /\ \A t \in Session : call'[t].pc = "idle"
    BY UnitAssumption DEF Idle, Fresh, Call, PC
  <1>2. /\ maps' \in Seq(SegID) /\ smeSegs' \in 0 .. MaxSeg
        /\ free' \in [SegID -> 0 .. SegPages] /\ crashes' \in 0 .. MaxCrash
    BY UnitAssumption DEF IInv, TypeOK
  <1>3. LatchInv'
    BY <1>1, UnitAssumption DEF LatchInv, Holding, Linking
  <1>4. GrowthInv' /\ OfferInv' /\ MissInv' /\ RefusedOnlyIfTorn'
    BY DEF GrowthInv, OfferInv, MissInv, RefusedOnlyIfTorn
  <1>5. MappingAligned'
    BY DEF MappingAligned
  <1> QED
    BY <1>1, <1>2, <1>3, <1>4, <1>5

(* The process dies; only between two stores of the header this shows.     *)
LEMMA CrashIInv ==
  ASSUME IInv, Crash
  PROVE  IInv'
  <1> USE DEF Crash, IInv
  <1>1. TypeOK'
    BY Down DEF TypeOK, header, media
  <1>2. unitSize = pageNum \/ torn' \/ lost
    <2>1. CASE up = "open"
      <3>1. ASSUME Stage \in {"deposit", "header"} PROVE torn'
        <4>1. segLatch \in Session /\ call[segLatch].pc \in {"deposit", "header"}
          BY <3>1 DEF Stage, TypeOK
        <4> QED
          BY <2>1, <4>1 DEF At
      <3> QED
        BY <2>1, <3>1 DEF GrowthInv
    <2>2. CASE up # "open"
      BY <2>2 DEF OpenInv, TypeOK
    <2> QED
      BY <2>1, <2>2
  <1>3. OpenInv'
    BY <1>2, Down DEF OpenInv, header
  <1>4. DataInv'
    BY Down DEF DataInv, header
  <1> QED
    BY <1>1, <1>3, <1>4, Down

(* The segment cannot be deposited: the header is put back first. *)
LEMMA DepositPanicIInv ==
  ASSUME IInv, NEW s \in Session, DepositPanic(s)
  PROVE  IInv'
  <1> USE DEF DepositPanic, SetHeader, IInv
  <1>1. up = "open" /\ segLatch = s /\ Stage = "deposit"
    BY StageOf DEF At, Holding
  <1>2. unitSize = pageNum + 1 /\ smeSegs = pageNum /\ unitSize - 1 \in 0 .. MaxSeg
    BY <1>1, UnitAssumption DEF GrowthInv, TypeOK
  <1>3. TypeOK'
    BY <1>2, Down, SMTT(30) DEF TypeOK
  <1>4. OpenInv'
    BY <1>2, Down DEF OpenInv, TypeOK
  <1>5. DataInv'
    BY <1>1, <1>2, Down DEF DataInv, TypeOK, SegID
  <1> QED
    BY <1>3, <1>4, <1>5, Down

(* The machine fails: any header and length that may be on the disk.       *)
LEMMA PowerFailIInv ==
  ASSUME IInv, PowerFail
  PROVE  IInv'
  <1> USE DEF PowerFail, IInv
  <1>1. TypeOK'
    <2>1. unitSize' \in 0 .. MaxSeg /\ pageNum' \in 0 .. MaxSeg
      BY DEF TypeOK
    <2>2. headers' \subseteq (0 .. MaxSeg) \X (0 .. MaxSeg)
      BY DEF TypeOK
    <2>3. file' \in 0 .. MaxSeg /\ lengths' \subseteq 0 .. MaxSeg
      BY DEF TypeOK
    <2>4. used' \in [SegID -> 0 .. SegPages]
      OBVIOUS
    <2> QED
      BY <2>1, <2>2, <2>3, <2>4, Down DEF TypeOK
  <1>2. OpenInv' /\ DataInv'
    BY Down DEF OpenInv, DataInv
  <1> QED
    BY <1>1, <1>2, Down

(* The disk is brought up to date. *)
LEMMA WriteBackIInv ==
  ASSUME IInv, WriteBack
  PROVE  IInv'
  <1> USE DEF WriteBack, IInv
  <1>1. TypeOK'
    <2>1. {<<unitSize, pageNum>>} \subseteq (0 .. MaxSeg) \X (0 .. MaxSeg)
      BY DEF TypeOK
    <2> QED
      BY <2>1 DEF TypeOK, header, memory, latches, history
  <1>2. LatchInv'
    BY DEF LatchInv, latches
  <1>3. MissInv'
    BY DEF MissInv, Fits, Fitting, memory
  <1>4. Stage' = Stage
    BY DEF Stage, latches
  <1> QED
    BY <1>1, <1>2, <1>3, <1>4, Beside DEF Untouched, header, memory, latches, history

(* _validateHeader, and the free lists from the SME. *)
LEMMA OpenHeaderIInv ==
  ASSUME IInv, OpenHeader
  PROVE  IInv'
  <1> USE DEF OpenHeader, IInv
  <1>1. TypeOK'
    <2>1. smeSegs' \in 0 .. MaxSeg
      BY DEF TypeOK
    <2>2. free' \in [SegID -> 0 .. SegPages]
      <3>1. CASE unitSize # pageNum
        BY <3>1 DEF TypeOK
      <3>2. CASE unitSize = pageNum
        <4>1. \A g \in SegID : SegPages - used[g] \in 0 .. SegPages
          BY UnitAssumption DEF TypeOK
        <4>2. 0 \in 0 .. SegPages
          BY UnitAssumption
        <4>3. free' = [g \in SegID |-> IF g < pageNum THEN SegPages - used[g] ELSE 0]
          BY <3>2
        <4> HIDE DEF OpenHeader, IInv
        <4> QED
          BY <4>1, <4>2, <4>3
      <3> QED
        BY <3>1, <3>2
    <2> QED
      BY <2>1, <2>2 DEF TypeOK, header, latches, media, history
  <1>2. LatchInv' /\ GrowthInv' /\ MissInv' /\ MappingAligned'
    BY DEF LatchInv, GrowthInv, MissInv, MappingAligned, latches
  <1>3. OpenInv' /\ RefusedOnlyIfTorn'
    BY DEF OpenInv, RefusedOnlyIfTorn, header, history
  <1>4. OfferInv'
    BY UnitAssumption DEF OfferInv, TypeOK, SegID
  <1>5. DataInv'
    BY DEF DataInv, header, history
  <1> QED
    BY <1>1, <1>2, <1>3, <1>4, <1>5

(* The end of the file is aligned, and the file made to fit the header.    *)
LEMMA OpenFileIInv ==
  ASSUME IInv, OpenAlign \/ OpenFit
  PROVE  IInv'
  <1> USE DEF OpenAlign, OpenFit, SetLength, IInv
  <1>1. TypeOK'
    BY DEF TypeOK, header, memory, latches, media, history
  <1>2. LatchInv' /\ GrowthInv' /\ MissInv' /\ MappingAligned' /\ RefusedOnlyIfTorn'
    BY DEF LatchInv, GrowthInv, MissInv, MappingAligned, RefusedOnlyIfTorn, latches, memory
  <1>3. OpenInv' /\ OfferInv' /\ DataInv'
    BY DEF OpenInv, OfferInv, DataInv, header, memory, history
  <1> QED
    BY <1>1, <1>2, <1>3

(* The segments are mapped in their order. *)
LEMMA OpenMapIInv ==
  ASSUME IInv, OpenMap
  PROVE  IInv'
  <1> USE DEF OpenMap, IInv
  <1>1. file \in Nat /\ file <= MaxSeg /\ file = unitSize /\ unitSize = pageNum /\ smeSegs = pageNum
    BY UnitAssumption DEF TypeOK, OpenInv
  <1>2. maps' \in Seq(SegID) /\ Len(maps') = file /\ MappingAligned'
    <2>1. \A i \in 1 .. file : i - 1 \in SegID
      BY <1>1, UnitAssumption DEF SegID
    <2>2. maps' \in [1 .. file -> SegID]
      BY <2>1
    <2> QED
      BY <1>1, <2>2 DEF MappingAligned
  <1>3. TypeOK'
    BY <1>2 DEF TypeOK, header, latches, media, history
  <1>4. LatchInv' /\ MissInv' /\ Stage' = "none"
    <2>1. \A t \in Session : call[t].pc = "idle" /\ segLatch # t
      BY DEF LatchInv, Holding
    <2>2. segLatch = NoSession
      BY <2>1 DEF TypeOK
    <2> QED
      BY <2>1, <2>2 DEF LatchInv, MissInv, Stage, Extending, latches
  <1>5. GrowthInv'
    BY <1>1, <1>2, <1>4 DEF GrowthInv, Adding, header
  <1>6. DataInv'
    BY <1>1 DEF DataInv, header, history
  <1> QED
    BY <1>2, <1>3, <1>4, <1>5, <1>6 DEF OpenInv, OfferInv, RefusedOnlyIfTorn, history

(* A system call of openStorage fails. *)
LEMMA OpenFailIInv ==
  ASSUME IInv, OpenFail
  PROVE  IInv'
  <1> USE DEF OpenFail, SetLength, IInv
  <1>1. file' \in 0 .. MaxSeg /\ file' >= file /\ part' \in BOOLEAN /\ lengths' \subseteq 0 .. MaxSeg
    <2>1. file \in 0 .. MaxSeg /\ unitSize \in 0 .. MaxSeg /\ part \in BOOLEAN
          /\ lengths \subseteq 0 .. MaxSeg
      BY DEF TypeOK
    <2>2. CASE UNCHANGED <<file, part, lengths>>
      BY <2>1, <2>2, UnitAssumption
    <2>3. CASE part' = TRUE /\ \E n \in file .. unitSize - 1 : SetLength(n)
      <3>1. PICK n \in file .. unitSize - 1 : SetLength(n)
        BY <2>3
      <3>2. n \in 0 .. MaxSeg /\ n >= file
        BY <2>1, UnitAssumption
      <3> QED
        BY <2>1, <2>3, <3>1, <3>2
    <2> QED
      BY <2>2, <2>3
  <1>2. TypeOK'
    BY <1>1, Down DEF TypeOK, header
  <1>3. OpenInv'
    BY Down DEF OpenInv, header
  <1>4. DataInv'
    BY <1>1, Down DEF DataInv, TypeOK, SegID, header
  <1> QED
    BY <1>2, <1>3, <1>4, Down

-----------------------------------------------------------------------------
(* A unit that has just been created. *)
LEMMA InitIInv == Init => IInv
  <1> SUFFICES ASSUME Init PROVE IInv
    OBVIOUS
  <1> USE DEF Init
  <1>1. call \in [Session -> Call] /\ \A t \in Session : call[t].pc = "idle"
    BY UnitAssumption DEF Idle, Fresh, Call, PC
  <1>2. TypeOK
    <2>1. 0 \in 0 .. MaxSeg /\ 0 \in 0 .. SegPages /\ 0 \in 0 .. MaxCrash
      BY UnitAssumption
    <2>2. used \in [SegID -> 0 .. SegPages] /\ free \in [SegID -> 0 .. SegPages]
      BY <2>1
    <2>3. headers \subseteq (0 .. MaxSeg) \X (0 .. MaxSeg) /\ lengths \subseteq 0 .. MaxSeg
      BY <2>1
    <2>4. mb \in [Collection -> Session \cup {NoSession}]
      OBVIOUS
    <2>5. maps \in Seq(SegID)
      OBVIOUS
    <2> QED
      BY <1>1, <2>1, <2>2, <2>3, <2>4, <2>5 DEF TypeOK
  <1>3. LatchInv /\ MissInv
    BY <1>1, UnitAssumption DEF LatchInv, MissInv, Holding, Linking, Extending
  <1>4. GrowthInv /\ OpenInv
    BY DEF GrowthInv, OpenInv, Stage, Adding
  <1>5. OfferInv /\ DataInv /\ MappingAligned /\ RefusedOnlyIfTorn
    BY DEF OfferInv, DataInv, MappingAligned, RefusedOnlyIfTorn, SegID
  <1> QED
    BY <1>2, <1>3, <1>4, <1>5 DEF IInv

(* Every step of a session, every failure and every step of openStorage.   *)
LEMMA StepIInv == IInv /\ [Next]_vars => IInv'
  <1> SUFFICES ASSUME IInv, [Next]_vars PROVE IInv'
    OBVIOUS
  <1>1. ASSUME NEW s \in Session, Step(s) PROVE IInv'
    BY <1>1, LockIInv, ReserveHitIInv, ReserveMissIInv, FinishIInv, LatchIInv, PauseIInv,
       ResumeIInv, UnlatchIInv, CheckRefuseIInv, CheckIInv, GrowIInv, GrowEndIInv,
       GrowFailIInv, MapSegIInv, SetSizeIInv, DepositIInv, HeaderIInv
    DEF Step
  <1>2. CASE Open
    BY <1>2, OpenHeaderIInv, OpenFileIInv, OpenMapIInv, OpenFailIInv DEF Open
  <1>3. CASE UNCHANGED vars
    <2> USE <1>3 DEF vars, IInv
    <2>1. TypeOK' /\ LatchInv'
      BY DEF TypeOK, LatchInv
    <2>2. MissInv'
      BY DEF MissInv, Fits, Fitting
    <2>3. Stage' = Stage
      BY DEF Stage
    <2> QED
      BY <2>1, <2>2, <2>3, Beside DEF Untouched
  <1> QED
    BY <1>1, <1>2, <1>3, BeginIInv, DepositPanicIInv, CrashIInv, PowerFailIInv, WriteBackIInv
    DEF Next

(* The invariant holds in every state of a unit. *)
THEOREM Invariance == Spec => []IInv
  BY InitIInv, StepIInv, PTL DEF Spec

(* GrowthSound: while sessions extend the unit and after every failure and *)
(* restart, latches are held as _extendSegments and addExtent2Meta demand, *)
(* mapping g shows segment g, what the space manager offers is mapped and  *)
(* in the file, and nobody extends although there is room.                 *)
THEOREM GrowthIsSound == Spec => []GrowthSound
  <1>1. IInv => GrowthSound
    <2> SUFFICES ASSUME IInv PROVE GrowthSound
      OBVIOUS
    <2>1. LatchDiscipline
      BY DEF IInv, LatchInv, LatchDiscipline, DiskIO, Linking, Holding
    <2>2. SpaceCovered
      BY UnitAssumption DEF IInv, TypeOK, GrowthInv, SpaceCovered
    <2>3. ExtendOnlyWhenFull
      BY DEF IInv, MissInv, ExtendOnlyWhenFull, At
    <2> QED
      BY <2>1, <2>2, <2>3 DEF IInv, GrowthSound
  <1> QED
    BY <1>1, Invariance, PTL

(* DataInsideFile: no truncation, of an extension or of openStorage, cuts  *)
(* off a segment with pages in use, unless the machine failed.             *)
THEOREM DataStaysInside == Spec => []DataInsideFile
  <1>1. IInv => DataInsideFile
    BY DEF IInv, DataInv, DataInsideFile
  <1> QED
    BY <1>1, Invariance, PTL

(* OffersOnlyFree: the space manager never offers a page the SME bitmap    *)
(* marks as allocated, also with an old header after a machine failure.    *)
THEOREM OffersAreFree == Spec => []OffersOnlyFree
  <1>1. IInv => OffersOnlyFree
    BY DEF IInv, OfferInv, OffersOnlyFree
  <1> QED
    BY <1>1, Invariance, PTL

(* RefusedOnlyIfTorn: _validateHeader refuses only what a death between    *)
(* the two stores of the header, or a machine failure, left behind.        *)
THEOREM RefusalIsTorn == Spec => []RefusedOnlyIfTorn
  <1>1. IInv => RefusedOnlyIfTorn
    BY DEF IInv
  <1> QED
    BY <1>1, Invariance, PTL

=============================================================================
