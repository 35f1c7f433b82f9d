------------------------------ MODULE MemCache ------------------------------
(***************************************************************************)
(* The memory of a thread (util/utilMemListPool.cpp): lists of free blocks *)
(* by size, in front of the block pool.  A thread uses its lists alone,    *)
(* but a block may be released by another thread than the one that got it. *)
(*                                                                         *)
(* What the block pool gives is taken from alloc, realloc and release of   *)
(* util/utilMemBlockPool.cpp: a block of the smallest element size that    *)
(* fits or of the next one, or one of exactly the size from malloc.  Which *)
(* of them, and whether any, depends on its limits (module SegmentPool).   *)
(***************************************************************************)
EXTENDS Integers, Sequences, FiniteSets, FiniteSetsExt, SequencesExt

CONSTANTS Thread, Block,
          Sizes,      \* the sizes callers ask for
          Fill,       \* UTIL_MEM_TOTAL_FILL_LEN
          Base,       \* UTIL_MEM_LIST_BASE_EXPONENT
          Lists,      \* UTIL_MEM_POOL_LIST_NUM; the block pool has one size more
          SmallSize,  \* UTIL_MEM_ELEMENT_256
          MaxTCs,     \* values of g_maxTCCacheSize
          MaxCount    \* bound: calls all lists together count

CacheAssumption ==
  /\ IsFiniteSet(Block) /\ Block \subseteq Nat
  /\ Sizes \subseteq Nat \ {0} /\ MaxTCs \subseteq Nat
  /\ Fill \in Nat /\ Base \in Nat /\ Lists \in Nat \ {0}
  /\ SmallSize \in Nat /\ MaxCount \in Nat
  /\ 2 ^ Base > Fill /\ 4 * Fill >= 2 ^ Base

List == 0 .. Lists - 1
blockSize(c) == 2 ^ (Base + c)
None == -1

VARIABLES
  mem,         \* the blocks: real size and MEMBLOCKPOOL_TYPE_DYN; 0 if not allocated
  asked,       \* the size its user asked for; 0 if no user has the block
  cache,       \* the lists of a thread, from _header on
  cachedSize,  \* _cachedSize of the lists
  poolCached,  \* _cachedSize of the pool
  allocCount, deallocCount,   \* of the lists
  copying,     \* the block whose contents realloc has just copied
  attached,    \* g_thdMemPool is set
  maxTC        \* g_maxTCCacheSize

lists == <<cache, cachedSize, poolCached, allocCount, deallocCount>>
vars == <<mem, asked, lists, copying, attached, maxTC>>

NoBlock == [size |-> 0, dyn |-> FALSE]

Init ==
  /\ mem = [b \in Block |-> NoBlock] /\ asked = [b \in Block |-> 0]
  /\ cache = [t \in Thread |-> [c \in List |-> <<>>]]
  /\ cachedSize = [t \in Thread |-> [c \in List |-> 0]]
  /\ poolCached = [t \in Thread |-> 0]
  /\ allocCount = [t \in Thread |-> [c \in List |-> 0]]
  /\ deallocCount = [t \in Thread |-> [c \in List |-> 0]]
  /\ copying = [t \in Thread |-> None]
  /\ attached \in [Thread -> BOOLEAN]
  /\ maxTC \in MaxTCs

\* ossNextPowerOf2
Square(n) == Min({k \in 0 .. n : 2 ^ k >= n})

-----------------------------------------------------------------------------
(* The block pool. *)

\* _size2MemType and the fall-through of alloc, for n bytes of the user.
PoolBlocks(n) ==
  LET real == n + Fill
      first == Max({Square(real), Base}) IN
  {[size |-> 2 ^ k, dyn |-> FALSE] : k \in {first, first + 1} \cap (Base .. Base + Lists)}
    \cup {[size |-> real, dyn |-> TRUE]}

\* utilPoolAlloc of n bytes for a caller who asked for m, or NULL.
poolAlloc(n, m) ==
  \/ LET b == Min({x \in Block : mem[x] = NoBlock}) IN
     /\ \E x \in Block : mem[x] = NoBlock
     /\ \E new \in PoolBlocks(n) : mem' = [mem EXCEPT ![b] = new]
     /\ asked' = [asked EXCEPT ![b] = m]
  \/ UNCHANGED <<mem, asked>>

\* utilPoolRelease of a set of blocks.
poolRelease(bs) ==
  /\ mem' = [b \in Block |-> IF b \in bs THEN NoBlock ELSE mem[b]]
  /\ asked' = [b \in Block |-> IF b \in bs THEN 0 ELSE asked[b]]

-----------------------------------------------------------------------------
(* A list: _utilMemListItem. *)

Counted == MapThenSumSet(LAMBDA x : allocCount[x[1]][x[2]] + deallocCount[x[1]][x[2]],
                         Thread \X List)

divide(c) == IF blockSize(c) <= SmallSize THEN Lists \div 2 ELSE Lists

\* _canCacheBlock, after dealloc counted itself.
canCacheBlock(t, c) ==
  /\ maxTC # 0
  /\ 4 * allocCount[t][c] >= deallocCount[t][c] + 1
  /\ cachedSize[t][c] + blockSize(c) <= maxTC \div divide(c)
  /\ poolCached[t] + blockSize(c) <= maxTC

\* canAllocBlockSize
canAllocBlockSize(t, c) == blockSize(c) <= SmallSize \/ poolCached[t] + blockSize(c) < maxTC

itemAlloc(t, c, n) ==
  /\ Counted < MaxCount
  /\ allocCount' = [allocCount EXCEPT ![t][c] = @ + 1]
  /\ IF cache[t][c] # <<>>
     THEN /\ cache' = [cache EXCEPT ![t][c] = Tail(@)]
          /\ asked' = [asked EXCEPT ![Head(cache[t][c])] = n]
          /\ cachedSize' = [cachedSize EXCEPT ![t][c] = @ - blockSize(c)]
          /\ poolCached' = [poolCached EXCEPT ![t] = @ - blockSize(c)]
          /\ UNCHANGED mem
     ELSE /\ poolAlloc(IF canAllocBlockSize(t, c) THEN blockSize(c) - Fill ELSE n, n)
          /\ UNCHANGED <<cache, cachedSize, poolCached>>
  /\ UNCHANGED deallocCount

\* fault: the block is put into the list and given back
dealloc2(t, c, b) ==
  /\ Counted < MaxCount
  /\ deallocCount' = [deallocCount EXCEPT ![t][c] = @ + 1]
  /\ IF canCacheBlock(t, c)
     THEN /\ cache' = [cache EXCEPT ![t][c] = <<b>> \o @]
          /\ cachedSize' = [cachedSize EXCEPT ![t][c] = @ + blockSize(c)]
          /\ poolCached' = [poolCached EXCEPT ![t] = @ + blockSize(c)]
     ELSE UNCHANGED <<cache, cachedSize, poolCached>>
  /\ poolRelease({b})
  /\ UNCHANGED allocCount

dealloc(t, c, b) ==
  /\ Counted < MaxCount
  /\ deallocCount' = [deallocCount EXCEPT ![t][c] = @ + 1]
  /\ IF canCacheBlock(t, c)
     THEN /\ cache' = [cache EXCEPT ![t][c] = <<b>> \o @]
          /\ cachedSize' = [cachedSize EXCEPT ![t][c] = @ + blockSize(c)]
          /\ poolCached' = [poolCached EXCEPT ![t] = @ + blockSize(c)]
          /\ asked' = [asked EXCEPT ![b] = 0]
          /\ UNCHANGED mem
     ELSE /\ poolRelease({b})
          /\ UNCHANGED <<cache, cachedSize, poolCached>>
  /\ UNCHANGED allocCount

-----------------------------------------------------------------------------
(* The lists of a thread: _utilMemListPool, or the block pool if it has none. *)

\* The list for n bytes: below the smallest list the smallest.
listOf(n) == Max({Square(n + Fill) - Base, 0})

allocFrom(t, n) ==
  LET i == listOf(n)
      larger == i + 1 \in List /\ cachedSize[t][i + 1] >= n IN
  IF ~attached[t] \/ i \notin List
  THEN poolAlloc(n, n) /\ UNCHANGED lists
  ELSE itemAlloc(t, IF cachedSize[t][i] < n /\ larger THEN i + 1 ELSE i, n)

alloc(t, n) ==
  /\ copying[t] = None
  /\ allocFrom(t, n)
  /\ UNCHANGED <<copying, attached, maxTC>>

InUse == {b \in Block : asked[b] > 0}
userSize(b) == mem[b].size - Fill
listsOf(b) == {c \in List : blockSize(c) = mem[b].size}

releaseTo(t, b) ==
  \/ /\ attached[t]
     /\ \E c \in listsOf(b) : dealloc(t, c, b)
  \/ /\ ~attached[t] \/ listsOf(b) = {}
     /\ poolRelease({b})
     /\ UNCHANGED lists

\* A user releases a block, in any thread.
release(t, b) ==
  /\ copying[t] = None
  /\ b \in InUse /\ \A u \in Thread : copying[u] # b
  /\ releaseTo(t, b)
  /\ UNCHANGED <<copying, attached, maxTC>>

\* realloc: the block itself if it is large enough; a block from malloc is
\* resized by the block pool, in place as far as its user can see; else a new
\* one, and then the old one is released.
realloc(t, b, n) ==
  /\ copying[t] = None
  /\ b \in InUse /\ \A u \in Thread : copying[u] # b
  /\ \/ /\ userSize(b) >= n
        /\ asked' = [asked EXCEPT ![b] = n]
        /\ UNCHANGED <<mem, lists, copying>>
     \/ /\ userSize(b) < n /\ ~attached[t] /\ mem[b].dyn
        /\ mem' = [mem EXCEPT ![b].size = n + Fill]
        /\ asked' = [asked EXCEPT ![b] = n]
        /\ UNCHANGED <<lists, copying>>
     \/ /\ userSize(b) < n /\ (attached[t] \/ ~mem[b].dyn)
        /\ allocFrom(t, n)
        /\ copying' = [copying EXCEPT ![t] = IF asked' = asked THEN None ELSE b]
  /\ UNCHANGED <<attached, maxTC>>

releaseOld(t) ==
  /\ copying[t] # None
  /\ releaseTo(t, copying[t])
  /\ copying' = [copying EXCEPT ![t] = None]
  /\ UNCHANGED <<attached, maxTC>>

ClearLists(t) ==
  /\ poolRelease(UNION {ToSet(cache[t][c]) : c \in List})
  /\ cache' = [cache EXCEPT ![t] = [c \in List |-> <<>>]]
  /\ poolCached' = [poolCached EXCEPT
       ![t] = @ - MapThenSumSet(LAMBDA c : cachedSize[t][c], List)]
  /\ cachedSize' = [cachedSize EXCEPT ![t] = [c \in List |-> 0]]
  /\ allocCount' = [allocCount EXCEPT ![t] = [c \in List |-> 0]]
  /\ deallocCount' = [deallocCount EXCEPT ![t] = [c \in List |-> 0]]

\* utilClearThreadMemPool
clear(t) ==
  /\ attached[t] /\ copying[t] = None
  /\ ClearLists(t)
  /\ UNCHANGED <<copying, attached, maxTC>>

\* The thread ends: its lists are cleared and utilSetThreadMemPool(NULL).
detach(t) ==
  /\ attached[t] /\ copying[t] = None
  /\ ClearLists(t)
  /\ attached' = [attached EXCEPT ![t] = FALSE]
  /\ UNCHANGED <<copying, maxTC>>

\* The first of the lists with the most bytes.
largest(t) == CHOOSE c \in List : \A d \in List :
                \/ cachedSize[t][d] < cachedSize[t][c]
                \/ cachedSize[t][d] = cachedSize[t][c] /\ c <= d

\* shrink: half of the largest list, rounded up to blocks.
shrink(t) ==
  LET c == largest(t)
      k == Min({i \in 0 .. Len(cache[t][c]) :
                  i = Len(cache[t][c]) \/ i * blockSize(c) >= cachedSize[t][c] \div 2}) IN
  /\ attached[t] /\ copying[t] = None /\ cachedSize[t][c] > 0
  /\ poolRelease({cache[t][c][i] : i \in 1 .. k})
  /\ cache' = [cache EXCEPT ![t][c] = SubSeq(@, k + 1, Len(@))]
  /\ cachedSize' = [cachedSize EXCEPT ![t][c] = @ - k * blockSize(c)]
  /\ poolCached' = [poolCached EXCEPT ![t] = @ - k * blockSize(c)]
  /\ UNCHANGED <<allocCount, deallocCount, copying, attached, maxTC>>

\* utilSetMaxTCSize
setMaxTC(m) == /\ maxTC # m /\ maxTC' = m
               /\ UNCHANGED <<mem, asked, lists, copying, attached>>

Next ==
  \/ \E t \in Thread :
       \/ \E n \in Sizes : alloc(t, n)
       \/ \E b \in Block : release(t, b)
       \/ \E b \in Block, n \in Sizes : realloc(t, b, n)
       \/ releaseOld(t) \/ clear(t) \/ detach(t) \/ shrink(t)
  \/ \E m \in MaxTCs : setMaxTC(m)

Spec == Init /\ [][Next]_vars

-----------------------------------------------------------------------------
(* Properties *)

\* Variables keep their types; no count of bytes goes below zero.
TypeOK ==
  /\ mem \in [Block -> [size : Nat, dyn : BOOLEAN]] /\ asked \in [Block -> Nat]
  /\ cache \in [Thread -> [List -> Seq(Block)]]
  /\ cachedSize \in [Thread -> [List -> Nat]] /\ poolCached \in [Thread -> Nat]
  /\ allocCount \in [Thread -> [List -> Nat]] /\ deallocCount \in [Thread -> [List -> Nat]]
  /\ copying \in [Thread -> Block \cup {None}]
  /\ attached \in [Thread -> BOOLEAN] /\ maxTC \in MaxTCs

Places == Thread \X List
inList(x) == ToSet(cache[x[1]][x[2]])

\* alloc, dealloc, realloc, clear and shrink: a block is with a user or in one
\* list of one thread, once; it is allocated as long as it is, and no other is:
\* nothing is lost, nothing is given back twice, whichever thread releases it.
OneOwner ==
  /\ \A x \in Places : IsInjective(cache[x[1]][x[2]]) /\ inList(x) \cap InUse = {}
  /\ \A x, y \in Places : x # y => inList(x) \cap inList(y) = {}
  /\ {b \in Block : mem[b] # NoBlock} = InUse \cup UNION {inList(x) : x \in Places}

\* alloc and realloc: a user has at least the bytes he asked for, though lists
\* hand out blocks by their size alone.
Fits == \A b \in InUse : userSize(b) >= asked[b]

\* onAllocCache, onPushedCache and onReleaseCache: the bytes a list and a pool
\* count are those of the blocks in the lists ("Total cache size must be 0"
\* when a thread gives its pool up), and a list holds blocks of its size only.
CachedExact ==
  \A t \in Thread :
    /\ \A c \in List : /\ cachedSize[t][c] = blockSize(c) * Len(cache[t][c])
                       /\ \A b \in ToSet(cache[t][c]) : mem[b].size = blockSize(c)
    /\ poolCached[t] = MapThenSumSet(LAMBDA c : cachedSize[t][c], List)
    /\ ~attached[t] => poolCached[t] = 0

\* dealloc: a thread that releases what others allocate keeps no more than four
\* times the blocks it asked for itself.
NoHoarding == \A t \in Thread, c \in List : Len(cache[t][c]) <= 4 * allocCount[t][c]

\* The lists of the threads account for every block, and give out none twice
\* and none too small.
CacheExact == TypeOK /\ OneOwner /\ Fits /\ CachedExact /\ NoHoarding
=============================================================================
