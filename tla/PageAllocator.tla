---------------------------- MODULE PageAllocator ----------------------------
(***************************************************************************)
(* What the space manager promises its callers: a page of the storage unit *)
(* has at most one holder.  A successful reserve hands a run of pages of   *)
(* one segment, all of them free, to one session; a release gives a held   *)
(* run back; the unit grows by whole segments and a page is never moved.   *)
(* A reserve that finds nothing changes nothing.                           *)
(***************************************************************************)
EXTENDS Integers

CONSTANTS Session, SegPages, MaxSeg, InitSeg

VARIABLES held,     \* per session, the extents it holds
          used,     \* per segment, the allocated offsets
          segs      \* number of segments

vars == <<held, used, segs>>

Offset == 0 .. SegPages - 1
SegID  == 0 .. MaxSeg - 1
Run(x) == x.start .. x.start + x.size - 1

Init ==
  /\ segs \in 0 .. InitSeg
  /\ used \in [SegID -> SUBSET Offset]
  /\ \A g \in SegID : g >= segs => used[g] = {}
  /\ held = [s \in Session |-> {}]

Reserve(s, x) ==
  /\ x.seg < segs
  /\ Run(x) \subseteq Offset \ used[x.seg]
  /\ used' = [used EXCEPT ![x.seg] = @ \cup Run(x)]
  /\ held' = [held EXCEPT ![s] = @ \cup {x}]
  /\ UNCHANGED segs

Release(s, x) ==
  /\ x \in held[s]
  /\ used' = [used EXCEPT ![x.seg] = @ \ Run(x)]
  /\ held' = [held EXCEPT ![s] = @ \ {x}]
  /\ UNCHANGED segs

Grow ==
  /\ segs < MaxSeg
  /\ segs' = segs + 1
  /\ UNCHANGED <<held, used>>

Next ==
  \/ \E s \in Session :
       \/ \E g \in SegID, b \in Offset, n \in 1 .. SegPages :
            Reserve(s, [seg |-> g, start |-> b, size |-> n])
       \/ \E x \in held[s] : Release(s, x)
  \/ Grow

Spec == Init /\ [][Next]_vars
=============================================================================
