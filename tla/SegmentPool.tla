----------------------------- MODULE SegmentPool -----------------------------
(***************************************************************************)
(* Pooled memory: _utilMemBlockPool (util/utilMemBlockPool.cpp) with a     *)
(* _utilSegmentManager for each element size and the _utilSegmentPools of  *)
(* each manager (include/utilSegment.hpp).  The block pool is the handler  *)
(* all of them share.                                                      *)
(*                                                                         *)
(* A pool grows by segments of Delta objects and gives segments back when  *)
(* it is shrunk.  Its latch covers each call; the flag _maintaining, the   *)
(* round, the limits and the total of all pools are read without it.       *)
(* Sizes are counted in objects.  _highWatermark is left out: nothing that *)
(* runs reads it.                                                          *)
(***************************************************************************)
EXTENDS Integers, Sequences, FiniteSets, FiniteSetsExt, SequencesExt

CONSTANTS Thread, NoThread,
          M,          \* managers, by element size
          Small,      \* those that keep a free segment while memory is left
          P,          \* _poolNum, a power of 2
          Delta,      \* objects of a segment, a power of 2
          MaxSizes,   \* the values of setMaxSize; init takes one of them
          Share,      \* the part of _maxSize a manager may use: 8
          MaxHeld,    \* bound: objects a thread holds
          MaxShrink,  \* bound: calls of shrink
          MaxSet      \* bound: calls of setMaxSize

ASSUME PoolAssumption ==
  /\ NoThread \notin Thread
  /\ M \in Nat \ {0} /\ Small \subseteq 0 .. M - 1
  /\ P \in Nat \ {0} /\ Delta \in Nat \ {0} /\ Share \in Nat \ {0}
  /\ MaxSizes \subseteq Nat
  /\ MaxHeld \in Nat /\ MaxShrink \in Nat /\ MaxSet \in Nat

Manager == 0 .. M - 1
Pool == 0 .. M * P - 1         \* the pools of manager m are m * P, m * P + 1 ...

VARIABLES
  begin,      \* _begin: the number of objects in use
  numOfObjs,  \* _numOfObjs; there are numOfObjs \div Delta segments
  free,       \* _list from _begin on: <<>> also when _list is NULL
  used,       \* the objects whose flag is ACQUIRED
  maxObjs,    \* _maxNumOfObjs
  latch,      \* _latch
  maint,      \* _maintaining
  total,      \* _totalSize of the handler
  maxSize,    \* _maxSize of the handler
  round,      \* _round of the managers, modulo P
  setting,    \* pools whose limit setMaxSize has still to set
  th,         \* what a thread does
  held,       \* the objects a thread got and has not released
  shrinks, sets

pools == <<begin, numOfObjs, free, used>>
bounds == <<shrinks, sets>>
vars == <<pools, maxObjs, latch, maint, total, maxSize, round, setting, th, held, bounds>>

idle == [at |-> "idle", mgr |-> 0, level |-> 0, pool |-> 0, tries |-> 0,
         full |-> FALSE, rc |-> "OK"]

\* setMaxObjects and init: the pool's part, and at least a segment unless 0.
PoolMax(m) == LET x == (m \div Share) \div P
              IN IF x > 0 /\ x < Delta THEN Delta ELSE x

Init ==
  /\ maxSize \in MaxSizes
  /\ begin = [p \in Pool |-> 0] /\ numOfObjs = [p \in Pool |-> 0]
  /\ free = [p \in Pool |-> <<>>] /\ used = [p \in Pool |-> {}]
  /\ maxObjs = [p \in Pool |-> PoolMax(maxSize)]
  /\ latch = [p \in Pool |-> NoThread] /\ maint = [p \in Pool |-> FALSE]
  /\ total = 0 /\ setting = 0
  /\ round = [m \in Manager |-> 0]
  /\ th = [t \in Thread |-> idle] /\ held = [t \in Thread |-> {}]
  /\ shrinks = 0 /\ sets = 0

At(t, l) == th[t].at = l
InPool(t) == th[t].pool

-----------------------------------------------------------------------------
(* The handler. *)

canAllocSegment == total + Delta < maxSize
isFull == maxSize = 0 \/ total >= maxSize
canShrink(p) == isFull \/ 100 * begin[p] < 85 * numOfObjs[p]

-----------------------------------------------------------------------------
(* alloc, and acquire of a manager *)

alloc(t, m) ==
  /\ At(t, "idle") /\ Cardinality(held[t]) < MaxHeld
  /\ th' = [th EXCEPT ![t] = IF maxSize > 0
                             THEN [idle EXCEPT !.at = "pick", !.mgr = m, !.level = 1]
                             ELSE [idle EXCEPT !.rc = "DYN"]]
  /\ UNCHANGED <<pools, maxObjs, latch, maint, total, maxSize, round, setting, held, bounds>>

\* The next pool of the round that is not being shrunk.
pick(t) ==
  LET m == th[t].mgr
      p == m * P + round[m] IN
  /\ At(t, "pick")
  /\ round' = [round EXCEPT ![m] = (@ + 1) % P]
  /\ \/ maint[p] /\ UNCHANGED th
     \/ /\ ~maint[p]
        /\ th' = [th EXCEPT ![t].at = "latch", ![t].pool = p, ![t].tries = @ + 1]
  /\ UNCHANGED <<pools, maxObjs, latch, maint, total, maxSize, setting, held, bounds>>

\* A pool's answer.  A limit is tried again in the next pool; then the next
\* manager is asked, and then the block comes from malloc.
Refused(t, rc) ==
  /\ th' = [th EXCEPT ![t] =
       IF rc = "LIMIT" /\ @.tries <= P THEN [@ EXCEPT !.at = "pick"]
       ELSE IF @.level < 2 /\ @.mgr + 1 < M
            THEN [idle EXCEPT !.at = "pick", !.mgr = th[t].mgr + 1, !.level = 2]
            ELSE [idle EXCEPT !.rc = "DYN"]]
  /\ UNCHANGED held

\* Take the object at _begin of the list f.
Take(t, p, f) ==
  /\ begin' = [begin EXCEPT ![p] = @ + 1]
  /\ used' = [used EXCEPT ![p] = @ \cup {Head(f)}]
  /\ free' = [free EXCEPT ![p] = Tail(f)]
  /\ held' = [held EXCEPT ![t] = @ \cup {<<p, Head(f)>>}]
  /\ th' = [th EXCEPT ![t] = idle]

needExpand(p) == numOfObjs[p] = 0 \/ numOfObjs[p] - 1 <= begin[p]

\* Under the latch: an object, the limits, or an expansion.
tryAcquire(t) ==
  LET p == InPool(t) IN
  /\ At(t, "latch") /\ latch[p] = NoThread
  /\ \/ /\ ~needExpand(p)
        /\ Take(t, p, free[p])
        /\ UNCHANGED <<latch, numOfObjs>>
     \/ /\ needExpand(p)
        /\ numOfObjs[p] >= maxObjs[p] \/ ~canAllocSegment
        /\ Refused(t, "LIMIT")
        /\ UNCHANGED <<latch, pools>>
     \/ /\ needExpand(p)
        /\ numOfObjs[p] < maxObjs[p] /\ canAllocSegment
        /\ latch' = [latch EXCEPT ![p] = t]
        /\ th' = [th EXCEPT ![t].at = "expand"]
        /\ UNCHANGED <<pools, held>>
  /\ UNCHANGED <<maxObjs, maint, total, maxSize, round, setting, bounds>>

newIndexes(p) == [i \in 1 .. Delta |-> numOfObjs[p] + i - 1]

\* _expandList and onAllocSegment, then the object.
expandList(t) ==
  LET p == InPool(t) IN
  /\ At(t, "expand")
  /\ latch' = [latch EXCEPT ![p] = NoThread]
  /\ \/ /\ numOfObjs[p] + Delta <= maxObjs[p]
        /\ numOfObjs' = [numOfObjs EXCEPT ![p] = @ + Delta]
        /\ total' = total + Delta
        /\ Take(t, p, free[p] \o newIndexes(p))
     \/ /\ numOfObjs[p] + Delta > maxObjs[p]
        /\ Refused(t, "LIMIT")
        /\ UNCHANGED <<pools, total>>
     \/ /\ Refused(t, "OOM")      \* no memory for the segment or the list
        /\ UNCHANGED <<pools, total>>
  /\ UNCHANGED <<maxObjs, maint, maxSize, round, setting, bounds>>

-----------------------------------------------------------------------------
(* release, of an object the thread holds.  When it is refused the caller  *)
(* still has the object.                                                   *)
release(t, o) ==
  LET p == o[1] IN
  /\ At(t, "idle") /\ o \in held[t] /\ latch[p] = NoThread
  /\ IF begin[p] > 0 /\ numOfObjs[p] > begin[p] /\ o[2] \in used[p]
     THEN /\ used' = [used EXCEPT ![p] = @ \ {o[2]}]
          /\ begin' = [begin EXCEPT ![p] = @ - 1]
          /\ free' = [free EXCEPT ![p] = <<o[2]>> \o @]
          /\ held' = [held EXCEPT ![t] = @ \ {o}]
          /\ th' = [th EXCEPT ![t] = idle]
     ELSE /\ th' = [th EXCEPT ![t] = [idle EXCEPT !.rc = "SYS"]]
          /\ UNCHANGED <<used, begin, free, held>>
  /\ UNCHANGED <<numOfObjs, maxObjs, latch, maint, total, maxSize, round, setting, bounds>>

-----------------------------------------------------------------------------
(* shrink: of the handler, which asks each pool in turn. *)

shrink(t) ==
  /\ At(t, "idle") /\ shrinks < MaxShrink /\ shrinks' = shrinks + 1
  /\ th' = [th EXCEPT ![t] = [idle EXCEPT !.at = "shrinkLatch", !.full = isFull]]
  /\ UNCHANGED <<pools, maxObjs, latch, maint, total, maxSize, round, setting, held, sets>>

shrinkLatch(t) ==
  LET p == InPool(t) IN
  /\ At(t, "shrinkLatch") /\ latch[p] = NoThread
  /\ latch' = [latch EXCEPT ![p] = t]
  /\ maint' = [maint EXCEPT ![p] = TRUE]
  /\ th' = [th EXCEPT ![t].at = "shrink"]
  /\ UNCHANGED <<pools, maxObjs, total, maxSize, round, setting, held, bounds>>

\* What the list says is in use: the bits of pUsedList that stay 0.
inUse(p) == (0 .. numOfObjs[p] - 1) \ ToSet(free[p])

\* fault: the segment of the highest object in use is not counted
segInUseShort(p, keep) == IF begin[p] > 0 THEN Max(inUse(p)) \div Delta + keep ELSE keep

\* The segments that stay.
segInUse(p, keep) ==
  IF begin[p] > 0 THEN Max(inUse(p)) \div Delta + 1 + keep ELSE keep

\* The elements of a set of numbers, in order.
Ascending(S) == [i \in 1 .. Cardinality(S) |->
                   CHOOSE x \in S : Cardinality({y \in S : y < x}) = i - 1]

\* The free objects that stay, in order.
keptFree(p, size) == Ascending({i \in ToSet(free[p]) : i < size})

\* A failure ends the loop of its manager; the next manager is shrunk anyway.
nextPool(p, ok) == IF ok THEN p + 1 ELSE (p \div P + 1) * P

\* fault: _maintaining is not reset
ShrinkDoneKept(t, ok) ==
  LET p == InPool(t) IN
  /\ latch' = [latch EXCEPT ![p] = NoThread]
  /\ maint' = [maint EXCEPT ![p] = TRUE]
  /\ th' = [th EXCEPT ![t] = IF nextPool(p, ok) \in Pool
                             THEN [@ EXCEPT !.at = "shrinkLatch", !.pool = nextPool(p, ok)]
                             ELSE idle]

\* The done label.
ShrinkDone(t, ok) ==
  LET p == InPool(t) IN
  /\ latch' = [latch EXCEPT ![p] = NoThread]
  /\ maint' = [maint EXCEPT ![p] = FALSE]
  /\ th' = [th EXCEPT ![t] = IF nextPool(p, ok) \in Pool
                             THEN [@ EXCEPT !.at = "shrinkLatch", !.pool = nextPool(p, ok)]
                             ELSE idle]

\* freeSegToKeep of the pool's manager.
segToKeep(t) == IF InPool(t) \div P \in Small /\ ~th[t].full THEN 1 ELSE 0

Spare(p, keep) ==
  /\ numOfObjs[p] > 0
  /\ ~(begin[p] > 0 /\ numOfObjs[p] = Delta)
  /\ canShrink(p)
  /\ numOfObjs[p] \div Delta > segInUse(p, keep)

shrinkPool(t) ==
  LET p == InPool(t)
      size == segInUse(p, segToKeep(t)) * Delta IN
  /\ At(t, "shrink")
  /\ \/ /\ ~Spare(p, segToKeep(t))
        /\ ShrinkDone(t, TRUE)
        /\ UNCHANGED <<pools, total>>
     \/ /\ Spare(p, segToKeep(t))
        /\ free' = [free EXCEPT ![p] = keptFree(p, size)]
        /\ numOfObjs' = [numOfObjs EXCEPT ![p] = size]
        /\ total' = total - (numOfObjs[p] - size)
        /\ ShrinkDone(t, TRUE)
        /\ UNCHANGED <<begin, used>>
     \/ /\ numOfObjs[p] > 0       \* no memory for the bitmap or the list
        /\ ~(begin[p] > 0 /\ numOfObjs[p] = Delta) /\ canShrink(p)
        /\ begin[p] > 0 \/ (Spare(p, segToKeep(t)) /\ size > 0)
        /\ ShrinkDone(t, FALSE)
        /\ UNCHANGED <<pools, total>>
  /\ UNCHANGED <<maxObjs, maxSize, round, setting, held, bounds>>

-----------------------------------------------------------------------------
(* setMaxSize: the handler's limit, then pool by pool, without a latch. *)

setMaxSize(m) ==
  /\ setting = 0 /\ sets < MaxSet /\ sets' = sets + 1
  /\ maxSize' = m /\ setting' = M * P
  /\ UNCHANGED <<pools, maxObjs, latch, maint, total, round, th, held, shrinks>>

setMaxObjects ==
  /\ setting > 0 /\ setting' = setting - 1
  /\ maxObjs' = [maxObjs EXCEPT ![M * P - setting] = PoolMax(maxSize)]
  /\ UNCHANGED <<pools, latch, maint, total, maxSize, round, th, held, bounds>>

-----------------------------------------------------------------------------
Step(t) == pick(t) \/ tryAcquire(t) \/ expandList(t) \/ shrinkLatch(t) \/ shrinkPool(t)

Next == \/ \E t \in Thread : \/ \E m \in Manager : alloc(t, m)
                             \/ shrink(t) \/ Step(t)
                             \/ \E o \in held[t] : release(t, o)
        \/ \E m \in MaxSizes : setMaxSize(m)
        \/ setMaxObjects

Spec == Init /\ [][Next]_vars

-----------------------------------------------------------------------------
(* Properties *)

Call == [at : {"idle", "pick", "latch", "expand", "shrinkLatch", "shrink"},
         mgr : Manager, level : 0 .. 2, pool : Pool, tries : 0 .. P + 1,
         full : BOOLEAN, rc : {"OK", "DYN", "SYS"}]

\* Variables keep their types; acquire asks P + 1 pools of a manager at most.
TypeOK ==
  /\ begin \in [Pool -> Nat] /\ numOfObjs \in [Pool -> Nat] /\ maxObjs \in [Pool -> Nat]
  /\ free \in [Pool -> Seq(Nat)] /\ used \in [Pool -> SUBSET Nat]
  /\ latch \in [Pool -> Thread \cup {NoThread}] /\ maint \in [Pool -> BOOLEAN]
  /\ total \in Nat /\ maxSize \in MaxSizes /\ round \in [Manager -> 0 .. P - 1]
  /\ setting \in 0 .. M * P /\ shrinks \in Nat /\ sets \in Nat
  /\ th \in [Thread -> Call] /\ held \in [Thread -> SUBSET (Pool \X Nat)]

\* acquire, release, _expandList and shrink: _list from _begin on holds every
\* object that is not in use exactly once, and _begin counts those in use.
ListExact ==
  \A p \in Pool :
    /\ ToSet(free[p]) \cup used[p] = 0 .. numOfObjs[p] - 1
    /\ ToSet(free[p]) \cap used[p] = {}
    /\ IsInjective(free[p])
    /\ begin[p] = Cardinality(used[p])

\* acquire and shrink: an object somebody holds is his alone, is marked as in
\* use, and its segment was not freed.
HeldSafe ==
  /\ \A t, u \in Thread : t # u => held[t] \cap held[u] = {}
  /\ \A t \in Thread : \A o \in held[t] : o[2] \in used[o[1]] /\ o[2] < numOfObjs[o[1]]

\* onAllocSegment and onReleaseSegment: the handler's total is the memory of
\* the pools, whatever was expanded, refused or shrunk.
Objects == UNION {{p} \X (0 .. numOfObjs[p] - 1) : p \in Pool}
TotalExact == total = Cardinality(Objects)

\* canAllocSegment is asked before and onAllocSegment told after an expansion,
\* and each pool has a latch of its own: the pools together outgrow _maxSize
\* by less than a segment for each pool but one, and no pool its own limit,
\* unless _maxSize is lowered.
LimitKept ==
  sets = 0 => /\ total = 0 \/ total < maxSize + (M * P - 1) * Delta
              /\ \A p \in Pool : numOfObjs[p] <= maxObjs[p]

\* The pools and the handler account for every object and every segment, in
\* whatever order threads acquire, release, expand, shrink and set limits.
PoolExact == ListExact /\ HeldSafe /\ TotalExact /\ LimitKept

\* acquire leaves a pool that is being shrunk for the next one and tries each
\* limit a bounded number of times: it returns, and so does shrink.
CallReturns == \A t \in Thread : ~At(t, "idle") ~> At(t, "idle")
=============================================================================
