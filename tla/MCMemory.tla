------------------------------ MODULE MCMemory ------------------------------
(***************************************************************************)
(* Pooled memory: the block pool with two pools of one element size, the   *)
(* same with one pool of each of two sizes, and the lists of two threads   *)
(* in front of it.  The lists take from the pool what it may give at any   *)
(* time, so a behaviour is of one part and the others do not move.         *)
(***************************************************************************)
EXTENDS SegmentPool, TLC

CONSTANTS t1, t2

VARIABLES part,
          mem, asked, cache, cachedSize, poolCached, allocCount, deallocCount,
          copying, attached, maxTC

MCThread == {t1, t2}
MCSmall == {0}
MCSizes == {0, 5}      \* nothing, and two segments

Sized == INSTANCE SegmentPool WITH M <- 2, P <- 1

(* Below the smallest list, just above it, and just above the largest. *)
Cache == INSTANCE MemCache WITH
           Block <- 1 .. 2, Sizes <- {1, 4, 8}, Fill <- 1, Base <- 2,
           Lists <- 2, SmallSize <- 4, MaxTCs <- {8, 16}, MaxCount <- 3

ASSUME Sized!PoolAssumption /\ Cache!CacheAssumption

cacheVars == <<mem, asked, cache, cachedSize, poolCached, allocCount,
               deallocCount, copying, attached, maxTC>>
poolVars == <<begin, numOfObjs, free, used, maxObjs, latch, maint, total,
              maxSize, round, setting, th, held, shrinks, sets>>

MCInit ==
  /\ Cache!Init
  /\ \/ part = "cache" /\ Init /\ maxSize = 0
     \/ part = "pools" /\ Init /\ maxTC = 8 /\ attached = [t \in Thread |-> TRUE]
     \/ part = "sizes" /\ Sized!Init /\ maxTC = 8 /\ attached = [t \in Thread |-> TRUE]

MCNext ==
  \/ part = "pools" /\ Next /\ UNCHANGED <<part, cacheVars>>
  \/ part = "sizes" /\ Sized!Next /\ UNCHANGED <<part, cacheVars>>
  \/ part = "cache" /\ Cache!Next /\ UNCHANGED <<part, poolVars>>

(* A thread in a call goes on, and gets a latch that is free again and    *)
(* again.                                                                  *)
MCSpec ==
  /\ MCInit /\ [][MCNext]_<<part, poolVars, cacheVars>>
  /\ \A t \in Thread : SF_poolVars(part = "pools" /\ Step(t))

(* CacheExact: the lists of _utilMemListPool account for every block.      *)
CacheExact == part = "cache" => Cache!CacheExact

(* CallReturns: acquire and shrink of _utilSegmentPool return although     *)
(* each keeps the other away from a pool.                                  *)
CallsReturn == part = "pools" => CallReturns
=============================================================================
