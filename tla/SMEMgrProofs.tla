---------------------------- MODULE SMEMgrProofs ----------------------------
(***************************************************************************)
(* The space manager, for any number of sessions, segments and pages per   *)
(* segment: first what reserving from and releasing into one segment       *)
(* space preserves, for every list; then type correctness and the safety   *)
(* of the manager.                                                         *)
(***************************************************************************)
EXTENDS SMEMgr, SequenceTheorems, FiniteSetTheorems, WellFoundedInduction,
        TLAPS

(* Min and Max are what they should be on sets of naturals. *)
LEMMA MinOfNats ==
  ASSUME NEW S \in SUBSET Nat, S # {}
  PROVE  Min(S) \in S /\ \A y \in S : Min(S) <= y
  <1>1. \E x \in S : \A y \in S : ~(<<y, x>> \in OpToRel(<, Nat))
    BY NatLessThanWellFounded, WFMin
  <1>2. \E x \in S : \A y \in S : x <= y
    <2>1. PICK x \in S : \A y \in S : ~(<<y, x>> \in OpToRel(<, Nat))
      BY <1>1
    <2>2. ASSUME NEW y \in S PROVE x <= y
      <3>1. <<y, x>> \in {ss \in Nat \X Nat : ss[1] < ss[2]} <=> y < x
        OBVIOUS
      <3>2. <<y, x>> \notin {ss \in Nat \X Nat : ss[1] < ss[2]}
        BY <2>1 DEF OpToRel
      <3>. QED
        BY <3>1, <3>2
    <2>. QED
      BY <2>2
  <1>. QED
    BY <1>2 DEF Min

LEMMA MaxOfNats ==
  ASSUME NEW S \in SUBSET Nat, S # {}, NEW b \in Nat, \A x \in S : x <= b
  PROVE  Max(S) \in S /\ \A y \in S : y <= Max(S)
  <1> DEFINE T == {b - x : x \in S}
  <1>1. T \in SUBSET Nat /\ T # {}
    <2>1. \A x \in S : b - x \in Nat
      OBVIOUS
    <2>. QED
      BY <2>1
  <1>2. Min(T) \in T /\ \A y \in T : Min(T) <= y
    BY <1>1, MinOfNats
  <1>3. PICK m \in S : Min(T) = b - m
    BY <1>2
  <1>4. \A y \in S : b - m <= b - y
    BY <1>2, <1>3
  <1>5. \A y \in S : m >= y
    BY <1>4
  <1>. QED
    BY <1>5 DEF Max

-----------------------------------------------------------------------------
(* r is the sequence l without its i-th element. *)
Removed(r, l, i) ==
  /\ Len(r) = Len(l) - 1
  /\ \A j \in 1 .. Len(l) - 1 : r[j] = IF j < i THEN l[j] ELSE l[j + 1]

(* A sequence with one element removed, and one with a stretch replaced.   *)
LEMMA RemoveProperties ==
  ASSUME NEW S, NEW l \in Seq(S), NEW i \in 1 .. Len(l),
         NEW r, r = SubSeq(l, 1, i - 1) \o SubSeq(l, i + 1, Len(l))
  PROVE  r \in Seq(S) /\ Removed(r, l, i)
  <1> DEFINE a == SubSeq(l, 1, i - 1)
             c == SubSeq(l, i + 1, Len(l))
  <1>0. Len(l) \in Nat /\ \A j \in 1 .. Len(l) : l[j] \in S
    BY LenProperties, ElementOfSeq
  <1>1. /\ a \in Seq(S) /\ Len(a) = i - 1
        /\ \A j \in 1 .. i - 1 : a[j] = l[j]
    <2>1. \A j \in 1 .. i - 1 : l[j] \in S
      BY <1>0
    <2>. QED
      BY <1>0, <2>1, SubSeqProperties
  <1>2. /\ c \in Seq(S) /\ Len(c) = Len(l) - i
        /\ \A j \in 1 .. Len(l) - i : c[j] = l[i + j]
    <2>1. \A j \in i + 1 .. Len(l) : l[j] \in S
      BY <1>0
    <2>2. /\ c \in Seq(S)
          /\ Len(c) = IF i + 1 <= Len(l) THEN Len(l) - (i + 1) + 1 ELSE 0
          /\ \A j \in 1 .. Len(l) - (i + 1) + 1 : c[j] = l[i + 1 + j - 1]
      BY <1>0, <2>1, SubSeqProperties
    <2>. QED
      BY <1>0, <2>2
  <1>3. /\ r \in Seq(S) /\ Len(r) = Len(a) + Len(c)
        /\ \A j \in 1 .. Len(a) + Len(c) :
             r[j] = IF j <= Len(a) THEN a[j] ELSE c[j - Len(a)]
    BY <1>1, <1>2, ConcatProperties
  <1> HIDE DEF a, c
  <1>4. r \in Seq(S) /\ Len(r) = Len(l) - 1
    BY ONLY i \in 1 .. Len(l), <1>0, <1>1, <1>2, <1>3
  <1>5. ASSUME NEW j \in 1 .. Len(l) - 1
        PROVE  r[j] = IF j < i THEN l[j] ELSE l[j + 1]
    <2>1. j \in 1 .. Len(a) + Len(c)
      BY <1>0, <1>1, <1>2
    <2>2. r[j] = IF j <= Len(a) THEN a[j] ELSE c[j - Len(a)]
      BY <1>3, <2>1
    <2>3. CASE j < i
      <3>1. j \in 1 .. i - 1 /\ j <= Len(a)
        BY <1>0, <1>1, <2>3
      <3>2. a[j] = l[j]
        BY ONLY <1>1, <3>1
      <3>3. r[j] = a[j]
        BY ONLY <2>2, <3>1
      <3>. QED
        BY ONLY <2>3, <3>2, <3>3
    <2>4. CASE ~(j < i)
      <3>0. Len(a) = i - 1
        BY ONLY <1>1
      <3>1. j - Len(a) \in 1 .. Len(l) - i /\ ~(j <= Len(a))
        BY ONLY i \in 1 .. Len(l), Len(l) \in Nat, <1>0, <2>4, <3>0,
                j \in 1 .. Len(l) - 1
      <3>2. c[j - Len(a)] = l[i + (j - Len(a))]
        BY ONLY <1>2, <3>1
      <3>3. i + (j - Len(a)) = j + 1
        BY <1>0, <1>1
      <3>4. r[j] = c[j - Len(a)]
        BY ONLY <2>2, <3>1
      <3>. QED
        BY ONLY <2>4, <3>2, <3>3, <3>4
    <2>. QED
      BY <2>3, <2>4
  <1>. QED
    BY ONLY <1>4, <1>5 DEF Removed

LEMMA SpliceProperties ==
  ASSUME NEW S, NEW l \in Seq(S), NEW e \in S,
         NEW p \in 0 .. Len(l), NEW q \in p + 1 .. Len(l) + 1
  PROVE  LET r == Splice(l, p, e, q)
         IN  /\ r \in Seq(S) /\ Len(r) = p + 1 + (Len(l) - q + 1)
             /\ \A j \in 1 .. Len(r) :
                  r[j] = IF j <= p THEN l[j]
                         ELSE IF j = p + 1 THEN e ELSE l[q + (j - p - 2)]
  <1> DEFINE r == Splice(l, p, e, q)
  <1> DEFINE a == SubSeq(l, 1, p)
             c == SubSeq(l, q, Len(l))
             b == a \o <<e>>
  <1>0. Len(l) \in Nat /\ \A j \in 1 .. Len(l) : l[j] \in S
    BY LenProperties, ElementOfSeq
  <1>1. /\ a \in Seq(S) /\ Len(a) = p
        /\ \A j \in 1 .. p : a[j] = l[j]
    <2>1. \A j \in 1 .. p : l[j] \in S
      BY <1>0
    <2>2. /\ a \in Seq(S) /\ Len(a) = IF 1 <= p THEN p - 1 + 1 ELSE 0
          /\ \A j \in 1 .. p - 1 + 1 : a[j] = l[1 + j - 1]
      BY <1>0, <2>1, SubSeqProperties
    <2>. QED
      BY <1>0, <2>2
  <1>2. /\ c \in Seq(S) /\ Len(c) = Len(l) - q + 1
        /\ \A j \in 1 .. Len(l) - q + 1 : c[j] = l[q + j - 1]
    <2>1. \A j \in q .. Len(l) : l[j] \in S
      BY <1>0
    <2>2. /\ c \in Seq(S)
          /\ Len(c) = IF q <= Len(l) THEN Len(l) - q + 1 ELSE 0
          /\ \A j \in 1 .. Len(l) - q + 1 : c[j] = l[q + j - 1]
      BY <1>0, <2>1, SubSeqProperties
    <2>. QED
      BY <1>0, <2>2
  <1>3. <<e>> \in Seq(S) /\ Len(<<e>>) = 1 /\ <<e>>[1] = e
    OBVIOUS
  <1>4. /\ b \in Seq(S) /\ Len(b) = Len(a) + 1
        /\ \A j \in 1 .. Len(a) + 1 :
             b[j] = IF j <= Len(a) THEN a[j] ELSE <<e>>[j - Len(a)]
    <2> HIDE DEF a
    <2>. QED
      BY <1>1, <1>3, ConcatProperties
  <1>5. /\ r \in Seq(S) /\ Len(r) = Len(b) + Len(c)
        /\ \A j \in 1 .. Len(b) + Len(c) :
             r[j] = IF j <= Len(b) THEN b[j] ELSE c[j - Len(b)]
    <2>1. r = b \o c
      BY DEF Splice
    <2>2. c \in Seq(S) /\ b \in Seq(S)
      BY <1>2, <1>4
    <2> HIDE DEF a, b, c
    <2>3. /\ b \o c \in Seq(S) /\ Len(b \o c) = Len(b) + Len(c)
          /\ \A j \in 1 .. Len(b) + Len(c) :
               (b \o c)[j] = IF j <= Len(b) THEN b[j] ELSE c[j - Len(b)]
      BY ONLY <2>2, ConcatProperties
    <2>. QED
      BY ONLY <2>1, <2>3
  <1>6. \A j \in 1 .. p + 1 : b[j] = IF j <= p THEN l[j] ELSE e
    <2> HIDE DEF a, b
    <2>. QED
      BY <1>1, <1>3, <1>4
  <1> HIDE DEF a, b, c, r
  <1>7. r \in Seq(S) /\ Len(r) = p + 1 + (Len(l) - q + 1) /\ Len(b) = p + 1
    BY <1>0, <1>1, <1>2, <1>4, <1>5
  <1>8. ASSUME NEW j \in 1 .. Len(r)
        PROVE  r[j] = IF j <= p THEN l[j]
                      ELSE IF j = p + 1 THEN e ELSE l[q + (j - p - 2)]
    <2>1. j \in 1 .. Len(b) + Len(c)
      BY <1>5
    <2>2. r[j] = IF j <= Len(b) THEN b[j] ELSE c[j - Len(b)]
      BY <1>5, <2>1
    <2>3. CASE j <= p + 1
      <3>1. j \in 1 .. p + 1 /\ j <= Len(b)
        BY <1>0, <1>7, <2>3
      <3>2. b[j] = IF j <= p THEN l[j] ELSE e
        BY <1>6, <3>1
      <3>. QED
        BY ONLY p \in Int, <2>2, <2>3, <3>1, <3>2
    <2>4. CASE ~(j <= p + 1)
      <3>1. j - Len(b) \in 1 .. Len(l) - q + 1 /\ ~(j <= Len(b))
        BY <1>0, <1>2, <1>7, <2>1, <2>4
      <3>2. c[j - Len(b)] = l[q + (j - Len(b)) - 1]
        BY <1>2, <3>1
      <3>3. q + (j - Len(b)) - 1 = q + (j - p - 2)
        BY <1>0, <1>7
      <3>. QED
        BY SMTT(40), <2>2, <2>4, <3>1, <3>2, <3>3
    <2>. QED
      BY <2>3, <2>4
  <1>. QED
    BY <1>7, <1>8 DEF r

-----------------------------------------------------------------------------
(***************************************************************************)
(* The invariant of a segment space: an ordered list of separated nodes    *)
(* inside the segment, its largest size and its number of pages.           *)
(***************************************************************************)
GoodList(l) ==
  /\ l \in Seq(Node)
  /\ Separated(l)
  /\ \A i \in 1 .. Len(l) : l[i].start + l[i].size <= SegPages

MaxExact(l, m) ==
  /\ m \in 0 .. SegPages
  /\ \A i \in 1 .. Len(l) : l[i].size <= m
  /\ m # 0 => \E i \in 1 .. Len(l) : l[i].size = m

SpaceOK(sp) ==
  /\ sp \in [list : Seq(Node), maxNode : 0 .. SegPages, totalFree : 0 .. SegPages]
  /\ GoodList(sp.list)
  /\ MaxExact(sp.list, sp.maxNode)
  /\ sp.totalFree = Cardinality(ListPages(sp.list))

LEMMA NodeTypes ==
  ASSUME NEW l \in Seq(Node)
  PROVE  /\ Len(l) \in Nat /\ DOMAIN l = 1 .. Len(l)
         /\ \A i \in 1 .. Len(l) :
              /\ l[i] \in Node
              /\ l[i].start \in Nat /\ l[i].start < SegPages
              /\ l[i].size \in Nat /\ 1 <= l[i].size /\ l[i].size <= SegPages
  <1>1. Len(l) \in Nat /\ DOMAIN l = 1 .. Len(l)
    BY LenProperties
  <1>2. \A i \in 1 .. Len(l) : l[i] \in Node
    BY ElementOfSeq
  <1>3. \A nd \in Node : /\ nd.start \in Nat /\ nd.start < SegPages
                         /\ nd.size \in Nat /\ 1 <= nd.size /\ nd.size <= SegPages
    BY SegPagesAssumption DEF Node, Offset
  <1>. QED
    BY <1>1, <1>2, <1>3

LEMMA InListPages ==
  ASSUME NEW l \in Seq(Node), NEW x
  PROVE  x \in ListPages(l) <=>
           \E i \in 1 .. Len(l) : /\ x \in Int /\ l[i].start <= x
                                  /\ x < l[i].start + l[i].size
  <1>1. x \in ListPages(l) <=>
          \E i \in DOMAIN l : x \in l[i].start .. l[i].start + l[i].size - 1
    BY DEF ListPages, NodePages
  <1>2. DOMAIN l = 1 .. Len(l) /\ \A i \in 1 .. Len(l) : l[i].start \in Nat /\ l[i].size \in Nat
    BY NodeTypes
  <1>. QED
    BY <1>1, <1>2

(* The pages of a good list are offsets of the segment, finitely many. *)
LEMMA ListPagesFinite ==
  ASSUME NEW l, GoodList(l)
  PROVE  /\ ListPages(l) \subseteq Offset
         /\ IsFiniteSet(ListPages(l))
         /\ Cardinality(ListPages(l)) \in 0 .. SegPages
  <1>0. l \in Seq(Node)
    BY DEF GoodList
  <1>1. ListPages(l) \subseteq Offset
    <2> SUFFICES ASSUME NEW x \in ListPages(l) PROVE x \in Offset
      OBVIOUS
    <2>1. PICK i \in 1 .. Len(l) : /\ x \in Int /\ l[i].start <= x
                                  /\ x < l[i].start + l[i].size
      BY <1>0, InListPages
    <2>2. l[i].start \in Nat /\ l[i].size \in Nat /\ l[i].start + l[i].size <= SegPages
      BY <1>0, NodeTypes DEF GoodList
    <2>. QED
      BY <2>1, <2>2, SegPagesAssumption DEF Offset
  <1>2. IsFiniteSet(Offset) /\ Cardinality(Offset) = SegPages
    BY FS_Interval, SegPagesAssumption DEF Offset
  <1>3. /\ IsFiniteSet(ListPages(l))
        /\ Cardinality(ListPages(l)) <= SegPages
    BY <1>1, <1>2, FS_Subset
  <1>4. Cardinality(ListPages(l)) \in Nat
    BY <1>3, FS_CardinalityType
  <1>. QED
    BY <1>1, <1>3, <1>4, SegPagesAssumption

-----------------------------------------------------------------------------
(* Taking n pages off the front of node i takes exactly these pages out of *)
(* the list and leaves a good list.                                        *)
LEMMA TakeFrontProperties ==
  ASSUME NEW l, GoodList(l), NEW i \in 1 .. Len(l), NEW n \in 1 .. SegPages,
         n <= l[i].size
  PROVE  /\ GoodList(TakeFront(l, i, n))
         /\ ListPages(TakeFront(l, i, n)) =
              ListPages(l) \ (l[i].start .. l[i].start + n - 1)
         /\ \A j \in 1 .. Len(TakeFront(l, i, n)) :
              \E k \in 1 .. Len(l) : TakeFront(l, i, n)[j].size <= l[k].size
         /\ \A k \in 1 .. Len(l) : k # i =>
              \E j \in 1 .. Len(TakeFront(l, i, n)) :
                TakeFront(l, i, n)[j] = l[k]
  <1> DEFINE r == TakeFront(l, i, n)
             bits == l[i].start .. l[i].start + n - 1
  <1>0. l \in Seq(Node) /\ n \in Nat /\ 1 <= n
    BY SegPagesAssumption DEF GoodList
  <1>1. /\ Len(l) \in Nat /\ DOMAIN l = 1 .. Len(l)
        /\ \A k \in 1 .. Len(l) :
             /\ l[k] \in Node
             /\ l[k].start \in Nat /\ l[k].start < SegPages
             /\ l[k].size \in Nat /\ 1 <= l[k].size /\ l[k].size <= SegPages
    BY <1>0, NodeTypes
  <1>2. /\ \A j, k \in 1 .. Len(l) : j < k => l[j].start + l[j].size < l[k].start
        /\ \A k \in 1 .. Len(l) : l[k].start + l[k].size <= SegPages
    BY <1>1 DEF GoodList, Separated
  <1>3. CASE l[i].size = n
    <2>1. r = SubSeq(l, 1, i - 1) \o SubSeq(l, i + 1, Len(l))
      BY <1>3 DEF TakeFront
    <2>2. /\ r \in Seq(Node) /\ Len(r) = Len(l) - 1
          /\ \A j \in 1 .. Len(l) - 1 : r[j] = IF j < i THEN l[j] ELSE l[j + 1]
      <3>1. l \in Seq(Node) /\ i \in 1 .. Len(l)
        BY <1>0
      <3>2. r \in Seq(Node)
        BY ONLY <2>1, <3>1, RemoveProperties
      <3>3. Removed(r, l, i)
        BY ONLY <2>1, <3>1, RemoveProperties
      <3>. QED
        BY ONLY <3>2, <3>3 DEF Removed
    <2>3. DOMAIN r = 1 .. Len(r)
      BY <2>2, LenProperties
    <2> HIDE DEF r
    <2>4. Separated(r)
      <3> SUFFICES ASSUME NEW j \in 1 .. Len(r), NEW k \in 1 .. Len(r), j < k
                   PROVE  r[j].start + r[j].size < r[k].start
        BY <2>3 DEF Separated
      <3> DEFINE jj == IF j < i THEN j ELSE j + 1
                 kk == IF k < i THEN k ELSE k + 1
      <3>1. jj \in 1 .. Len(l) /\ kk \in 1 .. Len(l) /\ jj < kk
        BY <1>1, <2>2
      <3>2. r[j] = l[jj] /\ r[k] = l[kk]
        BY <1>1, <2>2
      <3> HIDE DEF jj, kk
      <3>. QED
        BY <1>2, <3>1, <3>2
    <2>5. \A j \in 1 .. Len(r) : r[j].start + r[j].size <= SegPages
      BY <1>1, <1>2, <2>2
    <2>6. ASSUME NEW x PROVE x \in ListPages(r) <=> x \in ListPages(l) \ bits
      <3>1. x \in ListPages(l) <=>
              \E k \in 1 .. Len(l) : /\ x \in Int /\ l[k].start <= x
                                     /\ x < l[k].start + l[k].size
        BY <1>0, InListPages
      <3>2. x \in ListPages(r) <=>
              \E k \in 1 .. Len(r) : /\ x \in Int /\ r[k].start <= x
                                     /\ x < r[k].start + r[k].size
        BY <2>2, InListPages
      <3>3. x \in bits <=> x \in Int /\ l[i].start <= x /\ x < l[i].start + l[i].size
        BY <1>1, <1>3
      <3>4. ASSUME x \in ListPages(r) PROVE x \in ListPages(l) \ bits
        <4>1. PICK j \in 1 .. Len(r) : /\ x \in Int /\ r[j].start <= x
                                      /\ x < r[j].start + r[j].size
          BY <3>2, <3>4
        <4>2. PICK k \in 1 .. Len(l) : k # i /\ r[j] = l[k]
          <5>0. /\ j \in 1 .. Len(l) - 1 /\ j \in 1 .. Len(l) /\ j + 1 \in 1 .. Len(l)
                /\ i \in 1 .. Len(l) /\ Len(l) \in Nat
            BY <1>1, <2>2
          <5>1. CASE j < i
            <6>1. r[j] = l[j] /\ j # i
              BY ONLY <2>2, <5>0, <5>1
            <6>. QED
              BY ONLY <5>0, <6>1
          <5>2. CASE ~(j < i)
            <6>1. r[j] = l[j + 1]
              BY ONLY <2>2, <5>0, <5>2
            <6>2. j + 1 # i
              BY ONLY <5>0, <5>2
            <6>. QED
              BY ONLY <5>0, <6>1, <6>2
          <5>. QED
            BY <5>1, <5>2
        <4>3. k < i \/ i < k
          BY <1>1, <4>2
        <4>4. x \notin bits
          BY SMTT(40), <1>1, <1>2, <3>3, <4>1, <4>2, <4>3
        <4>. QED
          BY <3>1, <4>1, <4>2, <4>4
      <3>5. ASSUME x \in ListPages(l) \ bits PROVE x \in ListPages(r)
        <4>1. PICK k \in 1 .. Len(l) : /\ x \in Int /\ l[k].start <= x
                                      /\ x < l[k].start + l[k].size
          BY <3>1, <3>5
        <4>2. k # i
          BY <3>3, <3>5, <4>1
        <4>3. PICK j \in 1 .. Len(r) : r[j] = l[k]
          <5>1. CASE k < i
            <6>1. k \in 1 .. Len(r) /\ k \in 1 .. Len(l) - 1
              BY <1>1, <2>2, <5>1
            <6>. QED
              BY <2>2, <5>1, <6>1
          <5>2. CASE k > i
            <6>1. k - 1 \in 1 .. Len(r) /\ ~(k - 1 < i) /\ (k - 1) + 1 = k
              BY <1>1, <2>2, <5>2
            <6>. QED
              BY <2>2, <6>1
          <5>. QED
            BY <1>1, <4>2, <5>1, <5>2
        <4>. QED
          BY <3>2, <4>1, <4>3
      <3>. QED
        BY <3>4, <3>5
    <2>7. ASSUME NEW k \in 1 .. Len(l), k # i
          PROVE  \E j \in 1 .. Len(r) : r[j] = l[k]
      <3>1. CASE k < i
        <4>1. k \in 1 .. Len(r) /\ k \in 1 .. Len(l) - 1
          BY <1>1, <2>2, <3>1
        <4>. QED
          BY <2>2, <3>1, <4>1
      <3>2. CASE k > i
        <4>1. k - 1 \in 1 .. Len(r) /\ ~(k - 1 < i) /\ (k - 1) + 1 = k
          BY <1>1, <2>2, <3>2
        <4>. QED
          BY <2>2, <4>1
      <3>. QED
        BY <1>1, <2>7, <3>1, <3>2
    <2>8. ASSUME NEW j \in 1 .. Len(r)
          PROVE  \E k \in 1 .. Len(l) : r[j].size <= l[k].size
      <3>1. CASE j < i
        BY <1>1, <2>2, <3>1
      <3>2. CASE ~(j < i)
        <4>1. j + 1 \in 1 .. Len(l) /\ r[j] = l[j + 1]
          BY <1>1, <2>2, <3>2
        <4>2. r[j].size <= l[j + 1].size
          BY <1>1, <4>1
        <4>. QED
          BY <4>1, <4>2
      <3>. QED
        BY <3>1, <3>2
    <2>. QED
      BY <2>2, <2>4, <2>5, <2>6, <2>7, <2>8 DEF GoodList, r
  <1>4. CASE l[i].size # n
    <2> DEFINE e == [start |-> l[i].start + n, size |-> l[i].size - n]
    <2>1. r = [l EXCEPT ![i] = e]
      BY <1>4 DEF TakeFront
    <2>2. e \in Node /\ e.start = l[i].start + n /\ e.size = l[i].size - n
      <3>1. l[i].start + n \in 0 .. SegPages - 1 /\ l[i].size - n \in 1 .. SegPages
        BY <1>0, <1>1, <1>2, <1>4, SegPagesAssumption
      <3>. QED
        BY <3>1 DEF Node, Offset
    <2> HIDE DEF e
    <2>3. /\ r \in Seq(Node) /\ Len(r) = Len(l)
          /\ \A j \in 1 .. Len(l) : r[j] = IF j = i THEN e ELSE l[j]
      BY <1>0, <2>1, <2>2, ExceptSeq
    <2>4. DOMAIN r = 1 .. Len(r)
      BY <2>3, LenProperties
    <2> HIDE DEF r
    <2>5. Separated(r)
      <3> SUFFICES ASSUME NEW j \in 1 .. Len(r), NEW k \in 1 .. Len(r), j < k
                   PROVE  r[j].start + r[j].size < r[k].start
        BY <2>4 DEF Separated
      <3>1. j \in 1 .. Len(l) /\ k \in 1 .. Len(l)
        BY <2>3
      <3>2. l[j].start + l[j].size < l[k].start
        BY <1>2, <3>1
      <3>3. /\ r[j].start + r[j].size = l[j].start + l[j].size
            /\ l[k].start <= r[k].start
        <4>1. e.start + e.size = l[i].start + l[i].size /\ l[i].start <= e.start
          BY <1>0, <1>1, <2>2
        <4>2. l[k].start \in Nat /\ l[j].start \in Nat
          BY <1>1, <3>1
        <4>. QED
          BY <2>3, <3>1, <4>1, <4>2
      <3>4. r[k].start \in Nat /\ l[k].start \in Nat /\ l[j].start \in Nat /\ l[j].size \in Nat
        BY <1>1, <2>3, <3>1, NodeTypes
      <3>. QED
        BY SMTT(40), <3>2, <3>3, <3>4
    <2>6. \A j \in 1 .. Len(r) : r[j].start + r[j].size <= SegPages
      BY <1>0, <1>1, <1>2, <2>2, <2>3
    <2>7. ASSUME NEW x PROVE x \in ListPages(r) <=> x \in ListPages(l) \ bits
      <3>1. x \in ListPages(l) <=>
              \E k \in 1 .. Len(l) : /\ x \in Int /\ l[k].start <= x
                                     /\ x < l[k].start + l[k].size
        BY <1>0, InListPages
      <3>2. x \in ListPages(r) <=>
              \E k \in 1 .. Len(r) : /\ x \in Int /\ r[k].start <= x
                                     /\ x < r[k].start + r[k].size
        BY <2>3, InListPages
      <3>3. x \in bits <=> x \in Int /\ l[i].start <= x /\ x < l[i].start + n
        BY <1>0, <1>1
      <3>4. ASSUME x \in ListPages(r) PROVE x \in ListPages(l) \ bits
        <4>1. PICK j \in 1 .. Len(r) : /\ x \in Int /\ r[j].start <= x
                                      /\ x < r[j].start + r[j].size
          BY <3>2, <3>4
        <4>2. CASE j = i
          BY SMTT(40), <1>0, <1>1, <2>2, <2>3, <3>1, <3>3, <4>1, <4>2
        <4>3. CASE j # i
          <5>1. j < i \/ i < j
            BY <1>1, <2>3, <4>3
          <5>. QED
            <6>1. j \in 1 .. Len(l) /\ r[j] = l[j]
              BY <2>3, <4>3
            <6>2. x \in ListPages(l)
              BY <3>1, <4>1, <6>1
            <6>3. CASE j < i
              <7>1. l[j].start + l[j].size < l[i].start
                BY <1>2, <6>1, <6>3
              <7>2. x < l[i].start
                BY <1>1, <4>1, <6>1, <7>1
              <7>. QED
                BY <1>1, <3>3, <6>2, <7>2
            <6>4. CASE i < j
              <7>1. l[i].start + l[i].size < l[j].start
                BY <1>2, <6>1, <6>4
              <7>2. l[i].start + n <= x
                BY SMTT(40), <1>0, <1>1, <4>1, <6>1, <7>1
              <7>. QED
                BY <1>0, <1>1, <3>3, <6>2, <7>2
            <6>. QED
              BY <5>1, <6>3, <6>4
        <4>. QED
          BY <4>2, <4>3
      <3>5. ASSUME x \in ListPages(l) \ bits PROVE x \in ListPages(r)
        <4>1. PICK k \in 1 .. Len(l) : /\ x \in Int /\ l[k].start <= x
                                      /\ x < l[k].start + l[k].size
          BY <3>1, <3>5
        <4>2. /\ k \in 1 .. Len(r) /\ r[k].start <= x
              /\ x < r[k].start + r[k].size
          <5>1. k \in 1 .. Len(r) /\ r[k] = IF k = i THEN e ELSE l[k]
            BY <2>3
          <5>2. CASE k = i
            <6>1. l[i].start + n <= x
              BY <1>0, <1>1, <3>3, <3>5, <4>1, <5>2
            <6>2. e.start + e.size = l[i].start + l[i].size
              BY <1>0, <1>1, <2>2
            <6>. QED
              BY <2>2, <4>1, <5>1, <5>2, <6>1, <6>2
          <5>3. CASE k # i
            BY <4>1, <5>1, <5>3
          <5>. QED
            BY <5>2, <5>3
        <4>. QED
          BY <3>2, <4>1, <4>2
      <3>. QED
        BY <3>4, <3>5
    <2>8. ASSUME NEW j \in 1 .. Len(r) PROVE r[j].size <= l[j].size
      <3>1. j \in 1 .. Len(l) /\ r[j] = IF j = i THEN e ELSE l[j]
        BY <2>3
      <3>2. e.size <= l[i].size
        BY <1>0, <1>1, <2>2
      <3>. QED
        BY <1>1, <3>1, <3>2
    <2>. QED
      BY <2>3, <2>5, <2>6, <2>7, <2>8 DEF GoodList, r
  <1>. QED
    BY <1>3, <1>4

LEMMA ResetMaxProperties ==
  ASSUME NEW l, GoodList(l)
  PROVE  MaxExact(l, ResetMax(l))
  <1> DEFINE S == {l[i].size : i \in DOMAIN l} \cup {0}
  <1>0. l \in Seq(Node)
    BY DEF GoodList
  <1>1. /\ DOMAIN l = 1 .. Len(l)
        /\ \A i \in 1 .. Len(l) : l[i].size \in Nat /\ l[i].size <= SegPages
    BY <1>0, NodeTypes
  <1>2. S \in SUBSET Nat /\ S # {} /\ \A x \in S : x <= SegPages
    BY <1>1, SegPagesAssumption
  <1>3. Max(S) \in S /\ \A y \in S : y <= Max(S)
    BY <1>2, SegPagesAssumption, MaxOfNats
  <1>4. ResetMax(l) = Max(S)
    BY DEF ResetMax
  <1>5. Max(S) \in 0 .. SegPages
    BY <1>2, <1>3, SegPagesAssumption
  <1>6. \A i \in 1 .. Len(l) : l[i].size <= Max(S)
    BY <1>1, <1>3
  <1>7. Max(S) # 0 => \E i \in 1 .. Len(l) : l[i].size = Max(S)
    BY <1>1, <1>3
  <1> HIDE DEF S
  <1>. QED
    BY <1>4, <1>5, <1>6, <1>7 DEF MaxExact

(***************************************************************************)
(* reservePages on a good space: it finds pages exactly when some node has *)
(* them (the branch marked "should never hit here" is never taken), takes  *)
(* free pages of the segment, and leaves a good space without them.        *)
(***************************************************************************)
THEOREM ReserveInCorrect ==
  ASSUME NEW sp, SpaceOK(sp), NEW n \in 1 .. SegPages
  PROVE  LET r    == ReserveIn(sp, n)
             bits == r.start .. r.start + n - 1
         IN  /\ r.rc \in {"OK", "NOSPC"}
             /\ r.rc = "OK" <=> \E i \in 1 .. Len(sp.list) : sp.list[i].size >= n
             /\ r.rc = "OK" =>
                  /\ SpaceOK(r.space)
                  /\ r.start \in Offset /\ r.start + n <= SegPages
                  /\ bits \subseteq ListPages(sp.list)
                  /\ ListPages(r.space.list) = ListPages(sp.list) \ bits
                  /\ r.space.totalFree = sp.totalFree - n
                  /\ r.space.maxNode # SegPages
  <1> DEFINE l    == sp.list
             i    == Min(Fits(l, n))
             rest == TakeFront(l, i, n)
             r    == ReserveIn(sp, n)
             bits == l[i].start .. l[i].start + n - 1
  <1>0. /\ GoodList(l) /\ MaxExact(l, sp.maxNode) /\ l \in Seq(Node)
        /\ sp.maxNode \in Nat /\ sp.totalFree \in Nat /\ n \in Nat /\ 1 <= n
        /\ sp.totalFree = Cardinality(ListPages(l))
    BY SegPagesAssumption DEF SpaceOK, GoodList
  <1>1. /\ Len(l) \in Nat /\ DOMAIN l = 1 .. Len(l)
        /\ \A k \in 1 .. Len(l) :
             /\ l[k] \in Node
             /\ l[k].start \in Nat /\ l[k].start < SegPages
             /\ l[k].size \in Nat /\ 1 <= l[k].size /\ l[k].size <= SegPages
    BY <1>0, NodeTypes
  <1>2. n <= sp.maxNode <=> \E k \in 1 .. Len(l) : l[k].size >= n
    <2>1. ASSUME n <= sp.maxNode PROVE \E k \in 1 .. Len(l) : l[k].size >= n
      BY <1>0, <2>1 DEF MaxExact
    <2>2. ASSUME NEW k \in 1 .. Len(l), l[k].size >= n PROVE n <= sp.maxNode
      BY <1>0, <1>1, <2>2 DEF MaxExact
    <2>. QED
      BY <2>1, <2>2
  <1>3. Fits(l, n) # {} <=> \E k \in 1 .. Len(l) : l[k].size >= n
    BY <1>1 DEF Fits
  <1>4. CASE n > sp.maxNode
    <2>1. r.rc = "NOSPC"
      BY <1>4 DEF ReserveIn
    <2>2. ~(\E k \in 1 .. Len(l) : l[k].size >= n)
      BY <1>0, <1>2, <1>4
    <2>. QED
      BY <2>1, <2>2
  <1>5. CASE n <= sp.maxNode
    <2>1. Fits(l, n) # {} /\ Fits(l, n) \in SUBSET Nat
      BY <1>1, <1>2, <1>3, <1>5 DEF Fits
    <2>2. i \in Fits(l, n)
      BY <2>1, MinOfNats
    <2>3. i \in 1 .. Len(l) /\ n <= l[i].size
      BY <1>1, <2>2 DEF Fits
    <2>4. ~(n > sp.maxNode)
      BY <1>0, <1>5
    <2>5. r = [rc    |-> "OK",
               start |-> l[i].start,
               space |-> [list      |-> rest,
                          maxNode   |-> IF l[i].size = sp.maxNode
                                        THEN ResetMax(rest) ELSE sp.maxNode,
                          totalFree |-> sp.totalFree - n]]
      BY <1>5, <2>1, <2>4 DEF ReserveIn
    <2> HIDE DEF i, r, rest
    <2>6. /\ GoodList(rest) /\ ListPages(rest) = ListPages(l) \ bits
          /\ \A j \in 1 .. Len(rest) : \E k \in 1 .. Len(l) : rest[j].size <= l[k].size
          /\ \A k \in 1 .. Len(l) : k # i => \E j \in 1 .. Len(rest) : rest[j] = l[k]
      <3> HIDE DEF l, bits
      <3>1. n \in 1 .. SegPages
        OBVIOUS
      <3>2. GoodList(l) /\ i \in 1 .. Len(l) /\ n <= l[i].size
        BY <1>0, <2>3
      <3>3. GoodList(TakeFront(l, i, n))
        BY ONLY <3>1, <3>2, TakeFrontProperties
      <3>4. ListPages(TakeFront(l, i, n)) = ListPages(l) \ (l[i].start .. l[i].start + n - 1)
        BY ONLY <3>1, <3>2, TakeFrontProperties
      <3>5. \A j \in 1 .. Len(TakeFront(l, i, n)) :
              \E k \in 1 .. Len(l) : TakeFront(l, i, n)[j].size <= l[k].size
        BY ONLY <3>1, <3>2, TakeFrontProperties
      <3>6. \A k \in 1 .. Len(l) : k # i =>
              \E j \in 1 .. Len(TakeFront(l, i, n)) : TakeFront(l, i, n)[j] = l[k]
        BY ONLY <3>1, <3>2, TakeFrontProperties
      <3>. QED
        BY <3>3, <3>4, <3>5, <3>6 DEF rest, bits
    <2>7. bits \subseteq ListPages(l)
      <3> SUFFICES ASSUME NEW x \in bits PROVE x \in ListPages(l)
        OBVIOUS
      <3>1. x \in Int /\ l[i].start <= x /\ x < l[i].start + l[i].size
        BY <1>0, <1>1, <2>3
      <3>. QED
        BY <1>0, <2>3, <3>1, InListPages
    <2>8. Cardinality(ListPages(rest)) = sp.totalFree - n
      <3>1. IsFiniteSet(ListPages(l))
        BY <1>0, ListPagesFinite
      <3>2. Cardinality(bits) = n
        <4>1. l[i].start \in Nat
          BY <1>1, <2>3
        <4> DEFINE a == l[i].start
        <4> HIDE DEF a
        <4>2. a \in Int /\ a + n - 1 \in Int /\ ~(a > a + n - 1) /\ (a + n - 1) - a + 1 = n
          BY <1>0, <4>1, SMTT(30) DEF a
        <4>3. Cardinality(a .. a + n - 1) = n
          BY ONLY <4>2, FS_Interval
        <4>. QED
          BY <4>3 DEF a
      <3>3. ListPages(l) \cap bits = bits
        BY <2>7
      <3>. QED
        <4> HIDE DEF bits
        <4>1. Cardinality(ListPages(l) \ bits) =
                Cardinality(ListPages(l)) - Cardinality(ListPages(l) \cap bits)
          BY <3>1, FS_Difference
        <4>. QED
          BY <1>0, <2>6, <3>2, <3>3, <4>1
    <2>9. MaxExact(rest, r.space.maxNode)
      <3>1. CASE l[i].size = sp.maxNode
        BY <2>5, <2>6, <3>1, ResetMaxProperties
      <3>2. CASE l[i].size # sp.maxNode
        <4>1. r.space.maxNode = sp.maxNode
          BY <2>5, <3>2
        <4>2. PICK k \in 1 .. Len(l) : l[k].size = sp.maxNode
          BY <1>0, <1>5 DEF MaxExact
        <4>3. PICK j \in 1 .. Len(rest) : rest[j] = l[k]
          BY <2>6, <3>2, <4>2
        <4>4. rest \in Seq(Node)
          BY <2>6 DEF GoodList
        <4>5. \A m \in 1 .. Len(rest) : rest[m].size <= sp.maxNode
          <5> SUFFICES ASSUME NEW m \in 1 .. Len(rest) PROVE rest[m].size <= sp.maxNode
            OBVIOUS
          <5>1. PICK q \in 1 .. Len(l) : rest[m].size <= l[q].size
            BY <2>6
          <5>2. l[q].size <= sp.maxNode /\ rest[m].size \in Nat
            BY <1>0, <4>4, NodeTypes DEF MaxExact
          <5>. QED
            BY SMTT(40), <1>0, <1>1, <5>1, <5>2
        <4>. QED
          BY <1>0, <4>1, <4>2, <4>3, <4>5 DEF MaxExact
      <3>. QED
        BY <3>1, <3>2
    <2>10. Cardinality(ListPages(rest)) \in 0 .. SegPages
      BY <2>6, ListPagesFinite
    <2>11. SpaceOK(r.space)
      <3>1. r.space.list = rest /\ r.space.totalFree = sp.totalFree - n
        BY <2>5
      <3>2. /\ r.space \in [list : Seq(Node), maxNode : 0 .. SegPages,
                            totalFree : 0 .. SegPages]
        <4>1. rest \in Seq(Node) /\ sp.totalFree - n \in 0 .. SegPages
          BY <2>6, <2>8, <2>10 DEF GoodList
        <4>2. r.space.maxNode \in 0 .. SegPages
          BY <2>9 DEF MaxExact
        <4>3. r.space = [list |-> rest, maxNode |-> r.space.maxNode,
                         totalFree |-> sp.totalFree - n]
          BY <2>5
        <4>. QED
          BY <4>1, <4>2, <4>3
      <3>. QED
        BY <2>6, <2>8, <2>9, <3>1, <3>2 DEF SpaceOK
    <2>12. r.space.maxNode # SegPages
      <3> SUFFICES ASSUME r.space.maxNode = SegPages PROVE FALSE
        OBVIOUS
      <3>1. PICK j \in 1 .. Len(rest) : rest[j].size = SegPages
        BY <2>9, SegPagesAssumption DEF MaxExact
      <3>2. rest \in Seq(Node) /\ rest[j].start + rest[j].size <= SegPages
        BY <2>6 DEF GoodList
      <3>3. rest[j].start = 0
        BY <3>1, <3>2, NodeTypes, SegPagesAssumption
      <3>4. \A x \in Offset : x \in ListPages(rest)
        BY <3>1, <3>2, <3>3, InListPages, SegPagesAssumption DEF Offset
      <3>5. l[i].start \in Offset /\ l[i].start \in bits
        BY <1>0, <1>1, <2>3, SegPagesAssumption DEF Offset
      <3>. QED
        BY <2>6, <3>4, <3>5
    <2>13. r.rc = "OK" /\ r.start = l[i].start /\ r.space.list = rest
           /\ r.space.totalFree = sp.totalFree - n
      BY <2>5
    <2>14. l[i].start \in Offset /\ l[i].start + n <= SegPages
      <3>1. l[i].start + l[i].size <= SegPages
        BY <1>0, <2>3 DEF GoodList
      <3>. QED
        BY <1>0, <1>1, <2>3, <3>1, SegPagesAssumption DEF Offset
    <2>. QED
      BY <1>2, <1>5, <2>6, <2>7, <2>11, <2>12, <2>13, <2>14 DEF r
  <1>. QED
    BY <1>0, <1>4, <1>5

-----------------------------------------------------------------------------
(* Node e covers the nodes p+1 .. q-1 of l and the pages in bits, and      *)
(* touches no other node of l.                                             *)
Replaces(l, p, e, q, bits) ==
  /\ e.start + e.size <= SegPages
  /\ \A i \in 1 .. p : l[i].start + l[i].size < e.start
  /\ \A i \in q .. Len(l) : e.start + e.size < l[i].start
  /\ \A x \in Int : e.start <= x /\ x < e.start + e.size <=>
       \/ x \in bits
       \/ \E i \in p + 1 .. q - 1 :
            l[i].start <= x /\ x < l[i].start + l[i].size
  /\ bits \subseteq Int

(* What putting such a node in their place gives. *)
SpliceResult(r, l, p, e, q, bits) ==
  /\ GoodList(r)
  /\ ListPages(r) = ListPages(l) \cup bits
  /\ \E j \in 1 .. Len(r) : r[j] = e
  /\ \A j \in 1 .. Len(r) : r[j] = e \/ \E i \in 1 .. Len(l) : r[j] = l[i]
  /\ \A i \in 1 .. Len(l) : i \in p + 1 .. q - 1
                            \/ \E j \in 1 .. Len(r) : r[j] = l[i]

(* A list whose nodes p+1 .. q-1 are replaced by one node that covers them *)
(* and the pages in bits, and touches no other.                            *)
LEMMA SpliceGood ==
  ASSUME NEW l, GoodList(l), NEW e \in Node, NEW bits,
         NEW p \in 0 .. Len(l), NEW q \in p + 1 .. Len(l) + 1,
         Replaces(l, p, e, q, bits),
         NEW r, r = Splice(l, p, e, q)
  PROVE  SpliceResult(r, l, p, e, q, bits)
  <1> USE DEF Replaces
  <1>0. l \in Seq(Node)
    BY DEF GoodList
  <1>1. /\ Len(l) \in Nat /\ DOMAIN l = 1 .. Len(l)
        /\ \A i \in 1 .. Len(l) : l[i].start \in Nat /\ l[i].size \in Nat
    BY <1>0, NodeTypes
  <1>2. /\ \A i, j \in 1 .. Len(l) : i < j => l[i].start + l[i].size < l[j].start
        /\ \A i \in 1 .. Len(l) : l[i].start + l[i].size <= SegPages
    BY <1>1 DEF GoodList, Separated
  <1>3. e.start \in Nat /\ e.size \in Nat
    BY SegPagesAssumption DEF Node, Offset
  <1>4. /\ r \in Seq(Node) /\ Len(r) = p + 1 + (Len(l) - q + 1)
        /\ \A j \in 1 .. Len(r) :
             r[j] = IF j <= p THEN l[j]
                    ELSE IF j = p + 1 THEN e ELSE l[q + (j - p - 2)]
    <2>1. /\ e \in Node /\ p \in 0 .. Len(l) /\ q \in p + 1 .. Len(l) + 1
          /\ r = Splice(l, p, e, q)
      OBVIOUS
    <2>2. r \in Seq(Node)
      BY ONLY <1>0, <2>1, SpliceProperties
    <2>3. Len(r) = p + 1 + (Len(l) - q + 1)
      <3>1. Len(Splice(l, p, e, q)) = p + 1 + (Len(l) - q + 1)
        <4>1. ASSUME NEW S, NEW ll \in Seq(S), NEW ee \in S, NEW pp \in 0 .. Len(ll),
                     NEW qq \in pp + 1 .. Len(ll) + 1
              PROVE  Len(Splice(ll, pp, ee, qq)) = pp + 1 + (Len(ll) - qq + 1)
          BY SpliceProperties
        <4>. QED
          BY ONLY <1>0, <2>1, <4>1
      <3>. QED
        BY ONLY <2>1, <3>1
    <2>4. \A j \in 1 .. Len(r) :
            r[j] = IF j <= p THEN l[j]
                   ELSE IF j = p + 1 THEN e ELSE l[q + (j - p - 2)]
      BY ONLY <1>0, <2>1, SpliceProperties
    <2>. QED
      BY ONLY <2>2, <2>3, <2>4
  <1>5. Len(r) \in Nat /\ DOMAIN r = 1 .. Len(r) /\ p \in Nat /\ q \in Nat
    <2>1. Len(r) \in Nat /\ DOMAIN r = 1 .. Len(r)
      BY ONLY <1>4, LenProperties
    <2>. QED
      BY ONLY <1>1, <2>1, p \in 0 .. Len(l), q \in p + 1 .. Len(l) + 1
  <1>6. \A j \in 1 .. Len(r) : j > p + 1 =>
          q + (j - p - 2) \in q .. Len(l) /\ q + (j - p - 2) \in 1 .. Len(l)
    BY ONLY <1>1, <1>4, <1>5, q \in p + 1 .. Len(l) + 1
  <1>7. p + 1 \in 1 .. Len(r) /\ r[p + 1] = e
    <2>1. p + 1 \in 1 .. Len(r) /\ ~(p + 1 <= p)
      BY ONLY <1>1, <1>4, <1>5, q \in p + 1 .. Len(l) + 1
    <2>. QED
      BY ONLY <1>4, <2>1
  <1>a. Len(r) = p + 1 + (Len(l) - q + 1)
    BY ONLY <1>4
  <1>b. \A j \in 1 .. Len(r) : j <= p => r[j] = l[j]
    BY ONLY <1>4
  <1>c. \A j \in 1 .. Len(r) : j > p + 1 => r[j] = l[q + (j - p - 2)]
    <2> SUFFICES ASSUME NEW j \in 1 .. Len(r), j > p + 1
                 PROVE  r[j] = l[q + (j - p - 2)]
      OBVIOUS
    <2>1. ~(j <= p) /\ j # p + 1 /\ j \in 1 .. Len(r)
      BY ONLY <1>5, j \in 1 .. Len(r), j > p + 1
    <2>. QED
      BY ONLY <1>4, <2>1
  <1>8. Separated(r)
    <2> SUFFICES ASSUME NEW i \in 1 .. Len(r), NEW j \in 1 .. Len(r), i < j
                 PROVE  r[i].start + r[i].size < r[j].start
      BY <1>5 DEF Separated
    <2> DEFINE ii == q + (i - p - 2)
               jj == q + (j - p - 2)
    <2>1. CASE j <= p
      <3>1. i \in 1 .. Len(l) /\ j \in 1 .. Len(l) /\ r[i] = l[i] /\ r[j] = l[j]
        <4>1. i \in 1 .. Len(l) /\ j \in 1 .. Len(l) /\ i <= p
          BY ONLY <1>1, <1>5, <2>1, p \in 0 .. Len(l), i \in 1 .. Len(r),
                  j \in 1 .. Len(r), i < j
        <4>. QED
          BY ONLY <1>b, <2>1, <4>1, i \in 1 .. Len(r), j \in 1 .. Len(r)
      <3>. QED
        BY <1>2, <3>1
    <2>2. CASE i <= p /\ j = p + 1
      <3>1. i \in 1 .. p /\ r[i] = l[i] /\ r[j] = e
        BY ONLY <1>b, <1>5, <1>7, <2>2, i \in 1 .. Len(r)
      <3>. QED
        BY <3>1
    <2>3. CASE i <= p /\ j > p + 1
      <3>1. i \in 1 .. p /\ r[i] = l[i] /\ r[j] = l[jj]
        BY ONLY <1>b, <1>c, <1>5, <2>3, i \in 1 .. Len(r), j \in 1 .. Len(r)
      <3>2. jj \in 1 .. Len(l) /\ i \in 1 .. Len(l) /\ i < jj
        BY ONLY <1>1, <1>5, <1>6, <2>3, i \in 1 .. Len(r), j \in 1 .. Len(r),
                p \in 0 .. Len(l), q \in p + 1 .. Len(l) + 1
      <3> HIDE DEF jj
      <3>. QED
        BY <1>2, <3>1, <3>2
    <2>4. CASE i = p + 1
      <3>1. r[i] = e /\ r[j] = l[jj] /\ jj \in q .. Len(l)
        <4>1. j > p + 1
          BY ONLY <1>5, <2>4, i < j, j \in 1 .. Len(r)
        <4>. QED
          BY ONLY <1>c, <1>6, <1>7, <2>4, <4>1, j \in 1 .. Len(r)
      <3> HIDE DEF jj
      <3>. QED
        BY <3>1
    <2>5. CASE i > p + 1
      <3>1. r[i] = l[ii] /\ r[j] = l[jj]
        <4>1. j > p + 1
          BY ONLY <1>5, <2>5, i < j, i \in 1 .. Len(r), j \in 1 .. Len(r)
        <4>. QED
          BY ONLY <1>c, <2>5, <4>1, i \in 1 .. Len(r), j \in 1 .. Len(r)
      <3>2. ii \in 1 .. Len(l) /\ jj \in 1 .. Len(l) /\ ii < jj
        BY ONLY <1>1, <1>5, <1>6, <2>5, i < j, i \in 1 .. Len(r), j \in 1 .. Len(r), SMTT(30)
      <3> HIDE DEF ii, jj
      <3>. QED
        BY <1>2, <3>1, <3>2
    <2>. QED
      BY ONLY <1>5, <2>1, <2>2, <2>3, <2>4, <2>5, i < j,
              i \in 1 .. Len(r), j \in 1 .. Len(r)
  <1>9. \A j \in 1 .. Len(r) : r[j] = e \/ \E i \in 1 .. Len(l) : r[j] = l[i]
    <2> SUFFICES ASSUME NEW j \in 1 .. Len(r)
                 PROVE  r[j] = e \/ \E i \in 1 .. Len(l) : r[j] = l[i]
      OBVIOUS
    <2>1. CASE j <= p
      BY ONLY <1>1, <1>4, <1>5, <2>1, p \in 0 .. Len(l), j \in 1 .. Len(r)
    <2>2. CASE j > p + 1
      <3>1. r[j] = l[q + (j - p - 2)]
        BY ONLY <1>4, <1>5, <2>2, j \in 1 .. Len(r)
      <3>. QED
        BY <1>6, <2>2, <3>1
    <2>3. CASE j = p + 1
      BY <1>7, <2>3
    <2>. QED
      BY ONLY <1>5, <2>1, <2>2, <2>3, j \in 1 .. Len(r)
  <1>10. ASSUME NEW i \in 1 .. Len(l)
         PROVE  i \in p + 1 .. q - 1 \/ \E j \in 1 .. Len(r) : r[j] = l[i]
    <2>1. CASE i <= p
      <3>1. i \in 1 .. Len(r) /\ r[i] = l[i]
        <4>1. i \in 1 .. Len(r)
          BY ONLY <1>1, <1>a, <1>5, <2>1, q \in p + 1 .. Len(l) + 1, i \in 1 .. Len(l)
        <4>. QED
          BY ONLY <1>b, <2>1, <4>1
      <3>. QED
        BY <3>1
    <2>2. CASE i >= q
      <3> DEFINE j == i - q + p + 2
      <3>1. j \in 1 .. Len(r) /\ j > p + 1 /\ q + (j - p - 2) = i
        BY ONLY <1>1, <1>a, <1>5, <2>2, q \in p + 1 .. Len(l) + 1, i \in 1 .. Len(l)
      <3> HIDE DEF j
      <3>2. r[j] = l[i]
        BY ONLY <1>c, <3>1
      <3>. QED
        BY <3>1, <3>2
    <2>3. CASE p < i /\ i < q
      BY ONLY <1>1, <1>5, <2>3, i \in 1 .. Len(l)
    <2>. QED
      BY ONLY <1>1, <1>5, <2>1, <2>2, <2>3, i \in 1 .. Len(l)
  <1>11. ASSUME NEW x PROVE x \in ListPages(r) <=> x \in ListPages(l) \cup bits
    <2>1. x \in ListPages(l) <=>
            \E k \in 1 .. Len(l) : /\ x \in Int /\ l[k].start <= x
                                   /\ x < l[k].start + l[k].size
      BY <1>0, InListPages
    <2>2. x \in ListPages(r) <=>
            \E k \in 1 .. Len(r) : /\ x \in Int /\ r[k].start <= x
                                   /\ x < r[k].start + r[k].size
      BY <1>4, InListPages
    <2>3. ASSUME x \in ListPages(r) PROVE x \in ListPages(l) \cup bits
      <3>1. PICK k \in 1 .. Len(r) : /\ x \in Int /\ r[k].start <= x
                                    /\ x < r[k].start + r[k].size
        BY <2>2, <2>3
      <3>2. CASE r[k] = e
        <4>1. x \in bits \/ \E i \in p + 1 .. q - 1 :
                               l[i].start <= x /\ x < l[i].start + l[i].size
          BY <3>1, <3>2
        <4>2. \A i \in p + 1 .. q - 1 : i \in 1 .. Len(l)
          BY <1>1, <1>5
        <4>. QED
          BY <2>1, <3>1, <4>1, <4>2
      <3>3. CASE \E i \in 1 .. Len(l) : r[k] = l[i]
        BY <2>1, <3>1, <3>3
      <3>. QED
        BY <1>9, <3>2, <3>3
    <2>4. ASSUME x \in bits PROVE x \in ListPages(r)
      <3>1. x \in Int /\ e.start <= x /\ x < e.start + e.size
        BY <2>4
      <3>. QED
        BY <1>7, <2>2, <3>1
    <2>5. ASSUME x \in ListPages(l) PROVE x \in ListPages(r)
      <3>1. PICK i \in 1 .. Len(l) : /\ x \in Int /\ l[i].start <= x
                                    /\ x < l[i].start + l[i].size
        BY <2>1, <2>5
      <3>2. CASE i \in p + 1 .. q - 1
        <4>1. e.start <= x /\ x < e.start + e.size
          BY <3>1, <3>2
        <4>. QED
          BY <1>7, <2>2, <3>1, <4>1
      <3>3. CASE \E j \in 1 .. Len(r) : r[j] = l[i]
        BY <2>2, <3>1, <3>3
      <3>. QED
        BY <1>10, <3>2, <3>3
    <2>. QED
      BY <2>3, <2>4, <2>5
  <1>12. \A j \in 1 .. Len(r) : r[j].start + r[j].size <= SegPages
    BY <1>2, <1>9
  <1>13. GoodList(r)
    BY <1>4, <1>7, <1>8, <1>9, <1>10, <1>11, <1>12 DEF GoodList
  <1>14. ListPages(r) = ListPages(l) \cup bits
    BY ONLY <1>11
  <1>15. \E j \in 1 .. Len(r) : r[j] = e
    BY ONLY <1>7
  <1>16. \A i \in 1 .. Len(l) : i \in p + 1 .. q - 1
                                 \/ \E j \in 1 .. Len(r) : r[j] = l[i]
    BY ONLY <1>10
  <1>. QED
    BY ONLY <1>9, <1>13, <1>14, <1>15, <1>16 DEF SpliceResult

(***************************************************************************)
(* Where the scan of releasePages stops, for a range that is not free.     *)
(***************************************************************************)
LEMMA ScanStopProperties ==
  ASSUME NEW l, GoodList(l), NEW start \in Offset, NEW n \in 1 .. SegPages,
         (start .. start + n - 1) \cap ListPages(l) = {}
  PROVE  LET k == ScanStop(l, start)
         IN  /\ k \in 1 .. Len(l) + 1
             /\ \A i \in 1 .. k - 1 : l[i].start + l[i].size <= start
             /\ \A i \in k .. Len(l) : start + n <= l[i].start
  <1> DEFINE S == {i \in DOMAIN l : l[i].start > start} \cup {Len(l) + 1}
             k == ScanStop(l, start)
  <1>0. l \in Seq(Node)
    BY DEF GoodList
  <1>1. /\ Len(l) \in Nat /\ DOMAIN l = 1 .. Len(l)
        /\ \A i \in 1 .. Len(l) : l[i].start \in Nat /\ l[i].size \in Nat /\ 1 <= l[i].size
    BY <1>0, NodeTypes
  <1>2. start \in Nat /\ n \in Nat /\ 1 <= n
    BY SegPagesAssumption DEF Offset
  <1>3. S \in SUBSET Nat /\ S # {}
    BY <1>1
  <1>4. k \in S /\ \A y \in S : k <= y
    BY <1>3, MinOfNats DEF ScanStop
  <1>5. k \in 1 .. Len(l) + 1
    BY <1>1, <1>4
  <1>6. ASSUME NEW i \in 1 .. Len(l), NEW x \in start .. start + n - 1
        PROVE  ~(l[i].start <= x /\ x < l[i].start + l[i].size)
    <2>1. x \in Int /\ x \notin ListPages(l)
      BY <1>2
    <2>. QED
      BY <1>0, <2>1, InListPages
  <1> HIDE DEF k
  <1>7. ASSUME NEW i \in 1 .. k - 1 PROVE l[i].start + l[i].size <= start
    <2>1. i \in 1 .. Len(l) /\ i < k
      BY <1>1, <1>5
    <2>2. ~(l[i].start > start)
      BY <1>1, <1>4, <1>5, <2>1
    <2>3. start \in start .. start + n - 1
      BY <1>2
    <2>. QED
      BY <1>1, <1>2, <1>6, <2>1, <2>2, <2>3
  <1>8. ASSUME NEW i \in k .. Len(l) PROVE start + n <= l[i].start
    <2>1. i \in 1 .. Len(l) /\ k \in 1 .. Len(l) /\ k <= i
      BY <1>1, <1>5
    <2>2. l[k].start > start
      BY <1>1, <1>4, <2>1
    <2>3. start + n <= l[k].start
      <3>1. l[k].start \notin start .. start + n - 1
        BY <1>1, <1>6, <2>1
      <3>. QED
        BY <1>1, <1>2, <2>1, <2>2, <3>1
    <2>4. k < i => l[k].start + l[k].size < l[i].start
      BY <1>1, <2>1 DEF GoodList, Separated
    <2>. QED
      BY <1>1, <1>2, <2>1, <2>3, <2>4
  <1>. QED
    BY <1>5, <1>7, <1>8 DEF k

(***************************************************************************)
(* releasePages on a good space, for pages that are not free: it succeeds  *)
(* (no overlap is reported) and leaves a good space with these pages.      *)
(***************************************************************************)
THEOREM ReleaseInCorrect ==
  ASSUME NEW sp, SpaceOK(sp), NEW start \in Offset, NEW n \in 1 .. SegPages,
         start + n <= SegPages,
         (start .. start + n - 1) \cap ListPages(sp.list) = {}
  PROVE  LET r == ReleaseIn(sp, start, n)
         IN  /\ r.rc = "OK" /\ SpaceOK(r.space)
             /\ ListPages(r.space.list) =
                  ListPages(sp.list) \cup (start .. start + n - 1)
             /\ r.space.totalFree = sp.totalFree + n
  <1> DEFINE l    == sp.list
             bits == start .. start + n - 1
             k    == ScanStop(l, start)
             mp   == MergesPrev(l, start)
             mn   == MergesNext(l, start, n)
             e    == MergedNode(l, start, n)
             p    == IF mp THEN k - 2 ELSE k - 1
             q    == IF mn THEN k + 1 ELSE k
             m    == Merge(l, start, n)
             r    == ReleaseIn(sp, start, n)
  <1>0. /\ GoodList(l) /\ MaxExact(l, sp.maxNode) /\ l \in Seq(Node)
        /\ sp.maxNode \in Nat /\ sp.totalFree \in Nat
        /\ sp.totalFree = Cardinality(ListPages(l))
    BY SegPagesAssumption DEF SpaceOK, GoodList
  <1>1. /\ Len(l) \in Nat /\ DOMAIN l = 1 .. Len(l)
        /\ \A i \in 1 .. Len(l) :
             /\ l[i].start \in Nat
             /\ l[i].size \in Nat /\ 1 <= l[i].size /\ l[i].size <= SegPages
    BY <1>0, NodeTypes
  <1>2. start \in Nat /\ n \in Nat /\ 1 <= n /\ SegPages \in Nat
    BY SegPagesAssumption DEF Offset
  <1>3. /\ k \in 1 .. Len(l) + 1
        /\ \A i \in 1 .. k - 1 : l[i].start + l[i].size <= start
        /\ \A i \in k .. Len(l) : start + n <= l[i].start
    <2>1. bits \cap ListPages(l) = {}
      OBVIOUS
    <2> HIDE DEF l, k
    <2>. QED
      BY <1>0, <2>1, ScanStopProperties DEF k
  <1>4. mp <=> k > 1 /\ l[k - 1].start + l[k - 1].size = start
    BY DEF MergesPrev
  <1>5. mn <=> k <= Len(l) /\ start + n = l[k].start
    BY DEF MergesNext
  <1>6. /\ e.start = IF mp THEN start - l[k - 1].size ELSE start - 0
        /\ e.size = (IF mp THEN l[k - 1].size ELSE 0) + n + (IF mn THEN l[k].size ELSE 0)
        /\ e = [start |-> e.start, size |-> e.size]
    BY DEF MergedNode
  <1>7. m = Splice(l, p, e, q)
    BY DEF Merge
  <1>8. ~Overlap(l, start, n)
    <2>1. \A i \in 1 .. k - 1 : ~(l[i].start + l[i].size > start)
      BY SMTT(40), <1>1, <1>2, <1>3
    <2>2. k <= Len(l) => ~(start + n > l[k].start)
      BY <1>1, <1>2, <1>3
    <2>. QED
      BY <2>1, <2>2 DEF Overlap
  <1>9. r = [rc    |-> "OK",
             space |-> [list      |-> m,
                        maxNode   |-> IF e.size > sp.maxNode THEN e.size ELSE sp.maxNode,
                        totalFree |-> sp.totalFree + n]]
    <2>1. ~(start + n > SegPages) /\ n # 0
      BY <1>2
    <2>. QED
      BY <1>8, <2>1 DEF ReleaseIn
  <1> HIDE DEF l, k, mp, mn, e, m, r
  <1>10. /\ \A i, j \in 1 .. Len(l) : i < j => l[i].start + l[i].size < l[j].start
         /\ \A i \in 1 .. Len(l) : l[i].start + l[i].size <= SegPages
    BY <1>0, <1>1 DEF GoodList, Separated
  <1>11. p \in 0 .. Len(l) /\ q \in p + 1 .. Len(l) + 1
    BY <1>1, <1>3, <1>4, <1>5
  <1>12. /\ mp => k - 1 \in 1 .. Len(l) /\ l[k - 1].start + l[k - 1].size = start
                  /\ p = k - 2 /\ e.start = l[k - 1].start
         /\ ~mp => p = k - 1 /\ e.start = start
    BY <1>1, <1>2, <1>3, <1>4, <1>6, SMTT(30)
  <1>13. /\ mn => k \in 1 .. Len(l) /\ start + n = l[k].start /\ q = k + 1
                  /\ e.start + e.size = l[k].start + l[k].size
         /\ ~mn => q = k /\ e.start + e.size = start + n
    <2>1. mp => k - 1 \in 1 .. Len(l)
      BY <1>12
    <2>. QED
      BY SMTT(40), <1>1, <1>2, <1>3, <1>5, <1>6, <2>1
  <1>14. /\ e.start \in Nat /\ e.size \in Nat /\ e.start <= start
         /\ start + n <= e.start + e.size /\ e.start + e.size <= SegPages /\ n <= e.size
    <2>1. /\ mp => l[k - 1].size \in Nat /\ l[k - 1].start \in Nat
          /\ mn => l[k].size \in Nat /\ l[k].start \in Nat /\ l[k].start + l[k].size <= SegPages
      BY <1>1, <1>10, <1>12, <1>13
    <2>. QED
      BY SMTT(40), <1>2, <1>6, <1>12, <1>13, <2>1
  <1>15. e \in Node
    <2>1. e.start \in 0 .. SegPages - 1 /\ e.size \in 1 .. SegPages
      BY <1>2, <1>14
    <2>. QED
      BY <1>6, <2>1 DEF Node, Offset
  <1>16. ASSUME NEW i \in 1 .. p PROVE l[i].start + l[i].size < e.start
    <2>1. i \in 1 .. Len(l) /\ i \in 1 .. k - 1
      BY <1>1, <1>3, <1>11, <1>12
    <2>2. CASE mp
      <3>1. i < k - 1
        BY <1>3, <1>12, <2>2
      <3>. QED
        BY <1>10, <1>12, <2>1, <2>2, <3>1
    <2>3. CASE ~mp
      <3>1. l[i].start + l[i].size <= start /\ k > 1
        BY <1>3, <2>1
      <3>2. k - 1 \in 1 .. Len(l) /\ l[k - 1].start + l[k - 1].size < start
        <4>1. k - 1 \in 1 .. Len(l) /\ k - 1 \in 1 .. k - 1
          BY <1>1, <1>3, <3>1
        <4>2. l[k - 1].start + l[k - 1].size # start
          BY <1>4, <2>3, <3>1
        <4>3. l[k - 1].start + l[k - 1].size <= start
          BY <1>3, <4>1
        <4>. QED
          BY <1>1, <1>2, <4>1, <4>2, <4>3
      <3>3. CASE i = k - 1
        BY <1>12, <2>3, <3>2, <3>3
      <3>4. CASE i # k - 1
        <4>1. i < k - 1
          BY <1>3, <2>1, <3>4
        <4>2. l[i].start + l[i].size < l[k - 1].start
          BY <1>10, <2>1, <3>2, <4>1
        <4>. QED
          BY SMTT(40), <1>1, <1>2, <1>12, <2>1, <2>3, <3>2, <4>2
      <3>. QED
        BY <3>3, <3>4
    <2>. QED
      BY <2>2, <2>3
  <1>17. ASSUME NEW i \in q .. Len(l) PROVE e.start + e.size < l[i].start
    <2>1. i \in 1 .. Len(l) /\ i \in k .. Len(l)
      BY <1>1, <1>3, <1>11, <1>13
    <2>2. CASE mn
      <3>1. k < i
        BY <1>3, <1>13, <2>2
      <3>. QED
        BY <1>10, <1>13, <2>1, <2>2, <3>1
    <2>3. CASE ~mn
      <3>1. k \in 1 .. Len(l) /\ start + n < l[k].start
        <4>1. k \in 1 .. Len(l) /\ k <= Len(l) /\ k \in k .. Len(l)
          BY <1>1, <1>3, <2>1
        <4>2. start + n # l[k].start
          BY <1>5, <2>3, <4>1
        <4>3. start + n <= l[k].start
          BY <1>3, <4>1
        <4>4. start + n \in Nat /\ l[k].start \in Nat
          BY <1>1, <1>2, <4>1
        <4>. QED
          BY ONLY <4>1, <4>2, <4>3, <4>4
      <3>2. CASE i = k
        BY <1>13, <2>3, <3>1, <3>2
      <3>3. CASE i # k
        <4>1. k < i
          BY <1>3, <2>1, <3>3
        <4>2. l[k].start + l[k].size < l[i].start
          BY <1>10, <2>1, <3>1, <4>1
        <4>. QED
          BY <1>1, <1>2, <1>13, <2>1, <2>3, <3>1, <4>2
      <3>. QED
        BY <3>2, <3>3
    <2>. QED
      BY <2>2, <2>3
  <1>18. ASSUME NEW x \in Int
         PROVE  e.start <= x /\ x < e.start + e.size <=>
                  \/ x \in bits
                  \/ \E i \in p + 1 .. q - 1 :
                       l[i].start <= x /\ x < l[i].start + l[i].size
    <2>1. x \in bits <=> start <= x /\ x < start + n
      BY <1>2
    <2>2. (\E i \in p + 1 .. q - 1 : l[i].start <= x /\ x < l[i].start + l[i].size)
            <=> \/ mp /\ l[k - 1].start <= x /\ x < l[k - 1].start + l[k - 1].size
                \/ mn /\ l[k].start <= x /\ x < l[k].start + l[k].size
      <3>1. \A i \in Int : i \in p + 1 .. q - 1 <=> (mp /\ i = k - 1) \/ (mn /\ i = k)
        BY <1>3, <1>12, <1>13
      <3>2. k \in Int /\ k - 1 \in Int /\ \A i \in p + 1 .. q - 1 : i \in Int
        BY <1>3
      <3>. QED
        BY <3>1, <3>2
    <2>3. /\ mp => l[k - 1].size \in Nat /\ l[k - 1].start \in Nat
          /\ mn => l[k].size \in Nat /\ l[k].start \in Nat
      BY <1>1, <1>12, <1>13
    <2>4. e.start <= x /\ x < start <=>
            mp /\ l[k - 1].start <= x /\ x < l[k - 1].start + l[k - 1].size
      <3>1. CASE mp
        BY <1>12, <3>1
      <3>2. CASE ~mp
        BY <1>2, <1>12, <3>2
      <3>. QED
        BY <3>1, <3>2
    <2>5. start + n <= x /\ x < e.start + e.size <=>
            mn /\ l[k].start <= x /\ x < l[k].start + l[k].size
      <3>1. CASE mn
        BY <1>13, <3>1
      <3>2. CASE ~mn
        BY <1>2, <1>13, <3>2
      <3>. QED
        BY <3>1, <3>2
    <2>6. e.start <= x /\ x < e.start + e.size <=>
            \/ start <= x /\ x < start + n
            \/ e.start <= x /\ x < start
            \/ start + n <= x /\ x < e.start + e.size
      BY <1>2, <1>14
    <2> HIDE DEF bits, p, q
    <2>. QED
      BY <2>1, <2>2, <2>4, <2>5, <2>6, Zenon
  <1>19. /\ GoodList(m) /\ ListPages(m) = ListPages(l) \cup bits
         /\ \E j \in 1 .. Len(m) : m[j] = e
         /\ \A j \in 1 .. Len(m) : m[j] = e \/ \E i \in 1 .. Len(l) : m[j] = l[i]
         /\ \A i \in 1 .. Len(l) : i \in p + 1 .. q - 1
                                   \/ \E j \in 1 .. Len(m) : m[j] = l[i]
    <2>1. bits \subseteq Int
      BY <1>2
    <2>2. e.start + e.size <= SegPages
      BY <1>14
    <2> HIDE DEF bits, p, q
    <2>3. GoodList(l) /\ m = Splice(l, p, e, q)
      BY <1>0, <1>7
    <2>a. \A i \in 1 .. p : l[i].start + l[i].size < e.start
      BY <1>16
    <2>b. \A i \in q .. Len(l) : e.start + e.size < l[i].start
      BY <1>17
    <2>c. \A x \in Int :
            e.start <= x /\ x < e.start + e.size <=>
              \/ x \in bits
              \/ \E i \in p + 1 .. q - 1 :
                   l[i].start <= x /\ x < l[i].start + l[i].size
      BY <1>18
    <2>4. SpliceResult(m, l, p, e, q, bits)
      <3>1. p \in 0 .. Len(l) /\ q \in p + 1 .. Len(l) + 1 /\ e \in Node
        BY <1>11, <1>15
      <3>2. Replaces(l, p, e, q, bits)
        BY ONLY <2>1, <2>2, <2>a, <2>b, <2>c DEF Replaces
      <3>. QED
        BY ONLY <2>3, <3>1, <3>2, SpliceGood
    <2>. QED
      BY ONLY <2>4 DEF SpliceResult
  <1>20. MaxExact(m, r.space.maxNode)
    <2>1. r.space.maxNode = IF e.size > sp.maxNode THEN e.size ELSE sp.maxNode
      BY <1>9
    <2>2. e.size \in 0 .. SegPages /\ sp.maxNode \in 0 .. SegPages
      BY <1>0, <1>2, <1>14 DEF MaxExact
    <2>3. \A j \in 1 .. Len(m) : m[j].size <= r.space.maxNode
      <3> SUFFICES ASSUME NEW j \in 1 .. Len(m) PROVE m[j].size <= r.space.maxNode
        OBVIOUS
      <3>1. CASE m[j] = e
        BY <1>0, <1>14, <2>1, <3>1
      <3>2. ASSUME NEW i \in 1 .. Len(l), m[j] = l[i] PROVE m[j].size <= r.space.maxNode
        <4>1. l[i].size <= sp.maxNode /\ l[i].size \in Nat
          BY <1>0, <1>1 DEF MaxExact
        <4>. QED
          BY <1>0, <1>14, <2>1, <3>2, <4>1
      <3>. QED
        BY <1>19, <3>1, <3>2
    <2>4. \E j \in 1 .. Len(m) : m[j].size = r.space.maxNode
      <3>1. CASE e.size > sp.maxNode
        BY <1>19, <2>1, <3>1
      <3>2. CASE ~(e.size > sp.maxNode)
        <4>1. e.size <= sp.maxNode /\ sp.maxNode # 0 /\ r.space.maxNode = sp.maxNode
          BY <1>0, <1>2, <1>14, <2>1, <3>2
        <4>2. PICK i \in 1 .. Len(l) : l[i].size = sp.maxNode
          BY <1>0, <4>1 DEF MaxExact
        <4>3. CASE i \in p + 1 .. q - 1
          <5>1. l[i].size < e.size
            <6>1. (mp /\ i = k - 1) \/ (mn /\ i = k)
              BY <1>3, <1>12, <1>13, <4>3
            <6>2. /\ mp => l[k - 1].size \in Nat
                  /\ mn => l[k].size \in Nat
              BY <1>1, <1>12, <1>13
            <6>3. /\ mp => e.size = l[k - 1].size + n + (IF mn THEN l[k].size ELSE 0)
                  /\ mn => e.size = (IF mp THEN l[k - 1].size ELSE 0) + n + l[k].size
              BY <1>6
            <6>4. CASE mp /\ i = k - 1
              <7>1. (IF mn THEN l[k].size ELSE 0) \in Nat
                BY <6>2
              <7>. QED
                BY <1>2, <6>2, <6>3, <6>4, <7>1, SMTT(30)
            <6>5. CASE mn /\ i = k
              <7>1. (IF mp THEN l[k - 1].size ELSE 0) \in Nat
                BY <6>2
              <7>. QED
                BY <1>2, <6>2, <6>3, <6>5, <7>1
            <6>. QED
              BY <6>1, <6>4, <6>5
          <5>. QED
            BY <1>0, <1>14, <4>1, <4>2, <5>1
        <4>4. CASE \E j \in 1 .. Len(m) : m[j] = l[i]
          BY <4>1, <4>2, <4>4
        <4>. QED
          BY <1>19, <4>3, <4>4
      <3>. QED
        BY <3>1, <3>2
    <2>. QED
      BY <2>1, <2>2, <2>3, <2>4 DEF MaxExact
  <1>21. Cardinality(ListPages(m)) = sp.totalFree + n
    <2>1. IsFiniteSet(ListPages(l))
      BY <1>0, ListPagesFinite
    <2>2. IsFiniteSet(bits) /\ Cardinality(bits) = n
      <3>1. start \in Int /\ start + n - 1 \in Int /\ ~(start > start + n - 1)
            /\ (start + n - 1) - start + 1 = n
        BY <1>2
      <3>. QED
        BY <3>1, FS_Interval
    <2>3. ListPages(l) \cap bits = {}
      BY DEF l
    <2> HIDE DEF bits
    <2>4. Cardinality(ListPages(l) \cup bits) =
            Cardinality(ListPages(l)) + Cardinality(bits) - Cardinality(ListPages(l) \cap bits)
      BY <2>1, <2>2, FS_Union
    <2>. QED
      <3>1. Cardinality(ListPages(l) \cap bits) = 0
        BY <2>3, FS_EmptySet
      <3>2. Cardinality(ListPages(l) \cup bits) = sp.totalFree + n - 0
        BY <1>0, <2>2, <2>4, <3>1
      <3>. QED
        BY <1>0, <1>2, <1>19, <3>2
  <1>22. SpaceOK(r.space)
    <2>1. r.space.list = m /\ r.space.totalFree = sp.totalFree + n
      BY <1>9
    <2>2. r.space \in [list : Seq(Node), maxNode : 0 .. SegPages,
                      totalFree : 0 .. SegPages]
      <3>1. m \in Seq(Node) /\ sp.totalFree + n \in 0 .. SegPages
        <4>1. m \in Seq(Node)
          BY ONLY <1>19 DEF GoodList
        <4>2. Cardinality(ListPages(m)) \in 0 .. SegPages
          BY ONLY <1>19, ListPagesFinite
        <4>. QED
          BY ONLY <1>21, <4>1, <4>2
      <3>2. r.space.maxNode \in 0 .. SegPages
        BY <1>20 DEF MaxExact
      <3>3. r.space = [list |-> m, maxNode |-> r.space.maxNode,
                       totalFree |-> sp.totalFree + n]
        BY <1>9
      <3>. QED
        BY <3>1, <3>2, <3>3
    <2>. QED
      BY <1>19, <1>20, <1>21, <2>1, <2>2 DEF SpaceOK
  <1>23. r.rc = "OK" /\ r.space.list = m /\ r.space.totalFree = sp.totalFree + n
    BY <1>9
  <1>. QED
    BY <1>19, <1>22, <1>23 DEF r, l

-----------------------------------------------------------------------------
(* The manager *)

(***************************************************************************)
(* The inductive invariant.  While init runs, the segment being read and   *)
(* the end of the part of it already read are CurSeg and CurEnd: the pages *)
(* before CurEnd are in the list, or are in the run open since begin.      *)
(***************************************************************************)
CurSeg == IF loader.off = 0 THEN loader.seg - 1 ELSE loader.seg
CurEnd == IF loader.off = 0 THEN SegPages ELSE loader.off

Exact(g, e) == ListPages(spaces[g].list) = (0 .. e - 1) \ sme[g]

(* The spaces: each one is well formed, and there is none beyond segNum. *)
SpacesInv ==
  /\ \A g \in SegID : SpaceOK(spaces[g])
  /\ \A g \in SegID : g >= segNum => spaces[g] = EmptySpace
  /\ \A g \in SegID : g >= (IF Loading THEN loader.segs ELSE segNum) => sme[g] = {}

(* init has read every page before CurEnd of CurSeg. *)
LoadInv ==
  /\ freePos = 0
  /\ \A s \in Session : pc[s] = "idle" /\ held[s] = {}
  /\ loader.seg <= loader.segs
  /\ loader.seg = loader.segs => loader.off = 0
  /\ segNum = CurSeg + 1
  /\ \A g \in 0 .. CurSeg - 1 : Exact(g, SegPages)
  /\ CurSeg >= 0 =>
       /\ loader.inUse <=> CurEnd - 1 \in sme[CurSeg]
       /\ loader.inUse => Exact(CurSeg, CurEnd)
       /\ ~loader.inUse =>
            /\ loader.begin < CurEnd
            /\ (loader.begin .. CurEnd - 1) \cap sme[CurSeg] = {}
            /\ Exact(CurSeg, loader.begin)

(* The calls in progress: what a session knows about its own step. *)
CallInv ==
  \A s \in Session :
    /\ pc[s] = "scan" => req[s] \in 1 .. SegPages
    /\ pc[s] = "swap" => pos[s] < segNum

IndInv ==
  /\ TypeOK
  /\ SpacesInv
  /\ Loading => LoadInv
  /\ FreeListExact
  /\ CallInv
  /\ NoSharedPage
  /\ FreePosSound
  /\ NoInternalError

-----------------------------------------------------------------------------
(* The constructor's space is well formed. *)
LEMMA EmptySpaceOK == SpaceOK(EmptySpace) /\ ListPages(EmptySpace.list) = {}
  <1>1. EmptySpace.list = <<>> /\ EmptySpace.maxNode = 0 /\ EmptySpace.totalFree = 0
    BY DEF EmptySpace
  <1>2. ListPages(<<>>) = {}
    BY DEF ListPages
  <1>3. EmptySpace \in [list : Seq(Node), maxNode : 0 .. SegPages,
                        totalFree : 0 .. SegPages]
    BY SegPagesAssumption DEF EmptySpace
  <1>4. GoodList(<<>>) /\ MaxExact(<<>>, 0)
    BY SegPagesAssumption DEF GoodList, Separated, MaxExact
  <1>5. Cardinality({}) = 0
    BY FS_EmptySet
  <1>. QED
    BY <1>1, <1>2, <1>3, <1>4, <1>5 DEF SpaceOK

(* Initially nothing is read and no session runs. *)
LEMMA InitIndInv == Init => IndInv
  <1> SUFFICES ASSUME Init PROVE IndInv
    OBVIOUS
  <1>1. PICK n \in 0 .. InitSeg :
          /\ loader = [mode |-> "loading", segs |-> n, seg |-> 0, off |-> 0,
                       begin |-> 0, inUse |-> FALSE]
          /\ sme \in [SegID -> SUBSET Offset]
          /\ \A g \in SegID : g >= n => sme[g] = {}
    BY DEF Init
  <1>2. /\ spaces = [g \in SegID |-> EmptySpace]
        /\ segNum = 0 /\ freePos = 0 /\ totalFree = 0
        /\ pc = [s \in Session |-> "idle"]
        /\ pos = [s \in Session |-> 0]
        /\ req = [s \in Session |-> 0]
        /\ held = [s \in Session |-> {}]
        /\ err = "none"
    BY DEF Init
  <1>3. n \in Nat /\ SegPages \in Nat /\ 0 < SegPages /\ MaxSeg \in Nat /\ InitSeg \in Nat
    BY SegPagesAssumption, MaxSegAssumption
  <1>4. Loading
    BY <1>1 DEF Loading
  <1>5. TypeOK
    <2>1. 0 \in Offset /\ 0 \in 0 .. MaxSeg /\ 0 \in 0 .. InitSeg /\ 0 \in 0 .. SegPages
      BY <1>3 DEF Offset
    <2>2. EmptySpace \in [list : Seq(Node), maxNode : 0 .. SegPages,
                          totalFree : 0 .. SegPages]
      BY EmptySpaceOK DEF SpaceOK
    <2>3. loader \in [mode : {"loading", "running"}, segs : 0 .. InitSeg,
                      seg : 0 .. InitSeg, off : Offset, begin : Offset,
                      inUse : BOOLEAN]
      BY <1>1, <2>1
    <2>. QED
      BY <1>1, <1>2, <1>3, <2>1, <2>2, <2>3 DEF TypeOK
  <1>6. SpacesInv
    BY <1>1, <1>2, <1>3, <1>4, EmptySpaceOK DEF SpacesInv
  <1>7. LoadInv
    BY <1>1, <1>2, <1>3 DEF LoadInv, CurSeg
  <1>8. FreeListExact /\ CallInv /\ NoSharedPage /\ FreePosSound /\ NoInternalError
    BY <1>2, <1>4 DEF FreeListExact, CallInv, NoSharedPage, FreePosSound, NoInternalError
  <1>. QED
    BY <1>5, <1>6, <1>7, <1>8 DEF IndInv

(* The bounds are natural numbers. *)
LEMMA Bounds ==
  /\ SegPages \in Nat /\ 0 < SegPages /\ MaxSeg \in Nat
  /\ InitSeg \in Nat /\ InitSeg <= MaxSeg
  BY SegPagesAssumption, MaxSegAssumption

(* A release of init succeeds when the run is free and not in the list. *)
LEMMA LoadReleaseCorrect ==
  ASSUME IndInv, NEW run, LoadRelease(run), run.seg \in SegID,
         run.start \in Offset, run.size \in 0 .. SegPages,
         run.start + run.size <= SegPages,
         (run.start .. run.start + run.size - 1)
           \cap ListPages(spaces[run.seg].list) = {}
  PROVE  /\ err' = err /\ totalFree' \in Int
         /\ spaces' \in [SegID -> [list : Seq(Node), maxNode : 0 .. SegPages,
                                   totalFree : 0 .. SegPages]]
         /\ SpaceOK(spaces'[run.seg])
         /\ ListPages(spaces'[run.seg].list) =
              ListPages(spaces[run.seg].list)
                \cup (run.start .. run.start + run.size - 1)
         /\ \A h \in SegID : h # run.seg => spaces'[h] = spaces[h]
  <1> DEFINE r == ReleaseIn(spaces[run.seg], run.start, run.size)
             bits == run.start .. run.start + run.size - 1
             SpaceSet == [list : Seq(Node), maxNode : 0 .. SegPages,
                          totalFree : 0 .. SegPages]
  <1>1. /\ spaces' = [spaces EXCEPT ![run.seg] = r.space]
        /\ totalFree' = totalFree + run.size
        /\ err' = IF r.rc = "OK" THEN err ELSE r.rc
    BY DEF LoadRelease
  <1>2. SpaceOK(spaces[run.seg])
    BY DEF IndInv, SpacesInv
  <1>3. /\ r.rc = "OK" /\ SpaceOK(r.space)
        /\ ListPages(r.space.list) = ListPages(spaces[run.seg].list) \cup bits
    <2>1. CASE run.size = 0
      <3>1. r = [rc |-> "OK", space |-> spaces[run.seg]]
        <4>1. ~(run.start + run.size > SegPages)
          BY <2>1, Bounds DEF Offset
        <4>. QED
          BY <2>1, <4>1 DEF ReleaseIn
      <3>2. bits = {}
        BY <2>1 DEF Offset
      <3>. QED
        BY <1>2, <3>1, <3>2
    <2>2. CASE run.size # 0
      <3>1. run.size \in 1 .. SegPages
        BY <2>2, Bounds
      <3> HIDE DEF r, bits
      <3>2. bits \cap ListPages(spaces[run.seg].list) = {}
        BY DEF bits
      <3>3. /\ run.start \in Offset /\ run.start + run.size <= SegPages
            /\ SpaceOK(spaces[run.seg])
        BY <1>2
      <3>4. r.rc = "OK"
        BY ONLY <3>1, <3>2, <3>3, ReleaseInCorrect DEF r, bits
      <3>5. SpaceOK(r.space)
        BY ONLY <3>1, <3>2, <3>3, ReleaseInCorrect DEF r, bits
      <3>6. ListPages(r.space.list) = ListPages(spaces[run.seg].list) \cup bits
        BY ONLY <3>1, <3>2, <3>3, ReleaseInCorrect DEF r, bits
      <3>. QED
        BY ONLY <3>4, <3>5, <3>6
    <2>. QED
      BY <2>1, <2>2
  <1> HIDE DEF r, bits
  <1>4. spaces \in [SegID -> SpaceSet] /\ totalFree \in Int
    BY DEF IndInv, TypeOK
  <1>5. r.space \in SpaceSet
    BY <1>3 DEF SpaceOK
  <1> HIDE DEF SpaceSet
  <1>6. /\ spaces' \in [SegID -> SpaceSet]
        /\ spaces'[run.seg] = r.space
        /\ \A h \in SegID : h # run.seg => spaces'[h] = spaces[h]
    BY <1>1, <1>4, <1>5
  <1>7. totalFree' \in Int
    BY <1>1, <1>4, Bounds
  <1>. QED
    BY <1>1, <1>3, <1>6, <1>7 DEF bits, SpaceSet

(* While init runs, what does not concern the lists holds trivially. *)
LEMMA LoadingQuiet ==
  ASSUME IndInv, Loading, UNCHANGED <<disk, local, freePos>>, err' = err
  PROVE  CallInv' /\ NoSharedPage' /\ FreePosSound' /\ NoInternalError'
  <1>1. /\ freePos' = 0 /\ err' = "none" /\ held' = held
        /\ \A s \in Session : pc'[s] = "idle" /\ held'[s] = {}
    BY DEF IndInv, LoadInv, NoInternalError, disk, local
  <1>. QED
    BY <1>1 DEF CallInv, NoSharedPage, FreePosSound, NoInternalError

(* init reads one page. *)
LEMMA LoadPageInv == IndInv /\ LoadPage => IndInv'
  <1> SUFFICES ASSUME IndInv, LoadPage PROVE IndInv'
    OBVIOUS
  <1> DEFINE g == loader.seg
             o == loader.off
             b == loader.begin
             run == ClosedRun
  <1>1. /\ Loading /\ g < loader.segs
        /\ LoadRelease(run)
        /\ segNum' = IF o = 0 THEN segNum + 1 ELSE segNum
        /\ UNCHANGED <<disk, freePos, local>>
        /\ sme' = sme
    BY DEF LoadPage, disk
  <1>2. /\ loader \in [mode : {"loading", "running"}, segs : 0 .. InitSeg,
                       seg : 0 .. InitSeg, off : Offset, begin : Offset,
                       inUse : BOOLEAN]
        /\ sme \in [SegID -> SUBSET Offset]
    BY DEF IndInv, TypeOK
  <1>3. /\ loader'.mode = "loading" /\ loader'.segs = loader.segs
        /\ o = SegPages - 1 => loader'.seg = g + 1 /\ loader'.off = 0
        /\ o # SegPages - 1 => loader'.seg = g /\ loader'.off = o + 1
        /\ loader'.begin = CASE o = 0 -> 0
                             [] o > 0 /\ o \notin sme[g] /\ loader.inUse -> o
                             [] OTHER -> b
        /\ loader'.inUse = (o \in sme[g])
        /\ loader' = [mode |-> loader'.mode, segs |-> loader'.segs,
                      seg |-> loader'.seg, off |-> loader'.off,
                      begin |-> loader'.begin, inUse |-> loader'.inUse]
    BY <1>1, <1>2 DEF LoadPage, Loading
  <1>4. /\ g \in Nat /\ o \in Nat /\ o < SegPages /\ b \in Nat /\ b < SegPages
        /\ g + 1 \in 0 .. InitSeg /\ loader.segs \in 0 .. InitSeg /\ g \in SegID
        /\ loader.inUse \in BOOLEAN
    BY <1>1, <1>2, Bounds DEF Offset, SegID
  <1>5. LoadInv /\ SpacesInv
    BY <1>1 DEF IndInv
  <1>6. CurSeg' = g /\ CurEnd' = o + 1 /\ Loading'
    BY <1>3, <1>4, Bounds DEF CurSeg, CurEnd, Loading
  <1>7. segNum' = g + 1
    BY <1>1, <1>4, <1>5 DEF LoadInv, CurSeg
  <1>8. o = 0 => ListPages(spaces[g].list) = {}
    <2>1. o = 0 => g >= segNum
      BY <1>4, <1>5 DEF LoadInv, CurSeg
    <2>. QED
      BY <1>4, <1>5, <2>1, EmptySpaceOK DEF SpacesInv
  <1>9. /\ \A h \in 0 .. g - 2 : ListPages(spaces[h].list) = (0 .. SegPages - 1) \ sme[h]
        /\ o = 0 /\ g > 0 /\ ~loader.inUse =>
             /\ (b .. SegPages - 1) \cap sme[g - 1] = {}
             /\ ListPages(spaces[g - 1].list) = (0 .. b - 1) \ sme[g - 1]
        /\ o = 0 /\ g > 0 /\ loader.inUse =>
             ListPages(spaces[g - 1].list) = (0 .. SegPages - 1) \ sme[g - 1]
        /\ o > 0 => \A h \in 0 .. g - 1 :
                      ListPages(spaces[h].list) = (0 .. SegPages - 1) \ sme[h]
        /\ o > 0 /\ ~loader.inUse =>
             /\ b < o /\ (b .. o - 1) \cap sme[g] = {}
             /\ ListPages(spaces[g].list) = (0 .. b - 1) \ sme[g]
        /\ o > 0 /\ loader.inUse => ListPages(spaces[g].list) = (0 .. o - 1) \ sme[g]
    <2>1. o = 0 => CurSeg = g - 1 /\ CurEnd = SegPages
      BY DEF CurSeg, CurEnd
    <2>2. o > 0 => CurSeg = g /\ CurEnd = o
      BY <1>4 DEF CurSeg, CurEnd
    <2>. QED
      BY <1>4, <1>5, <2>1, <2>2 DEF LoadInv, Exact
  <1> DEFINE closes == o = 0 /\ g > 0 /\ ~loader.inUse
             ends   == o > 0 /\ o \in sme[g] /\ ~loader.inUse
  <1>10. /\ closes => run = [seg |-> g - 1, start |-> b, size |-> SegPages - b]
         /\ ends => run = [seg |-> g, start |-> b, size |-> o - b]
         /\ ~closes /\ ~ends => run = [seg |-> g, start |-> o, size |-> 0]
    <2>1. CASE closes
      BY <1>4, <2>1 DEF ClosedRun
    <2>2. CASE ends
      BY <1>4, <2>2 DEF ClosedRun
    <2>3. CASE ~closes /\ ~ends
      BY <2>3 DEF ClosedRun
    <2>. QED
      BY <1>4, <2>1, <2>2, <2>3
  <1> HIDE DEF run
  <1>11. /\ run.seg \in SegID /\ run.start \in Offset /\ run.size \in 0 .. SegPages
         /\ run.start + run.size <= SegPages
         /\ (run.start .. run.start + run.size - 1)
              \cap ListPages(spaces[run.seg].list) = {}
    <2>1. CASE closes
      BY <1>4, <1>9, <1>10, <2>1, Bounds DEF SegID, Offset
    <2>2. CASE ends
      BY <1>4, <1>9, <1>10, <2>2, Bounds DEF SegID, Offset
    <2>3. CASE ~closes /\ ~ends
      BY <1>4, <1>10, <2>3, Bounds DEF SegID, Offset
    <2>. QED
      BY <2>1, <2>2, <2>3
  <1>12. /\ err' = err /\ totalFree' \in Int
         /\ spaces' \in [SegID -> [list : Seq(Node), maxNode : 0 .. SegPages,
                                   totalFree : 0 .. SegPages]]
         /\ SpaceOK(spaces'[run.seg])
         /\ ListPages(spaces'[run.seg].list) =
              ListPages(spaces[run.seg].list)
                \cup (run.start .. run.start + run.size - 1)
         /\ \A h \in SegID : h # run.seg => spaces'[h] = spaces[h]
    BY <1>1, <1>11, LoadReleaseCorrect
  <1>13. \A h \in 0 .. g - 1 : ListPages(spaces'[h].list) = (0 .. SegPages - 1) \ sme[h]
    <2> SUFFICES ASSUME NEW h \in 0 .. g - 1
                 PROVE  ListPages(spaces'[h].list) = (0 .. SegPages - 1) \ sme[h]
      OBVIOUS
    <2>1. h \in SegID
      BY <1>4, Bounds DEF SegID
    <2>2. CASE closes
      <3>1. CASE h = g - 1
        <4>1. /\ run.seg = h /\ run.start = b /\ run.start + run.size - 1 = SegPages - 1
              /\ (b .. SegPages - 1) \cap sme[h] = {}
              /\ ListPages(spaces[h].list) = (0 .. b - 1) \ sme[h]
          BY <1>4, <1>9, <1>10, <2>2, <3>1, Bounds
        <4>2. (0 .. b - 1) \cup (b .. SegPages - 1) = 0 .. SegPages - 1
          BY <1>4, Bounds
        <4>3. ListPages(spaces'[h].list) =
                ((0 .. b - 1) \ sme[h]) \cup (b .. SegPages - 1)
          BY <1>12, <4>1
        <4>. QED
          BY ONLY <4>1, <4>2, <4>3
      <3>2. CASE h # g - 1
        <4>1. h # run.seg /\ h \in 0 .. g - 2
          BY <1>4, <1>10, <2>2, <3>2
        <4>. QED
          BY <1>9, <1>12, <2>1, <4>1
      <3>. QED
        BY <3>1, <3>2
    <2>3. CASE ~closes
      <3>1. run.seg = g
        BY <1>10, <2>3
      <3>2. spaces'[h] = spaces[h]
        BY <1>4, <1>12, <2>1, <3>1
      <3>3. g > 0 /\ (h = g - 1 \/ h \in 0 .. g - 2)
        BY <1>4
      <3>. QED
        BY <1>4, <1>9, <2>3, <3>2, <3>3
    <2>. QED
      BY <2>2, <2>3
  <1>14. /\ o = 0 => ListPages(spaces'[g].list) = {}
         /\ o > 0 /\ loader.inUse => ListPages(spaces'[g].list) = (0 .. o - 1) \ sme[g]
         /\ ends => ListPages(spaces'[g].list) = (0 .. o - 1) \ sme[g]
         /\ o > 0 /\ o \notin sme[g] /\ ~loader.inUse =>
              ListPages(spaces'[g].list) = (0 .. b - 1) \ sme[g]
    <2>1. ASSUME ends PROVE ListPages(spaces'[g].list) = (0 .. o - 1) \ sme[g]
      <3>1. /\ run.seg = g /\ run.start = b /\ run.start + run.size - 1 = o - 1
            /\ b < o /\ (b .. o - 1) \cap sme[g] = {}
            /\ ListPages(spaces[g].list) = (0 .. b - 1) \ sme[g]
        BY <1>4, <1>9, <1>10, <2>1
      <3>2. ListPages(spaces'[g].list) = ((0 .. b - 1) \ sme[g]) \cup (b .. o - 1)
        BY <1>12, <3>1
      <3>3. (0 .. b - 1) \cup (b .. o - 1) = 0 .. o - 1
        BY <1>4, <3>1
      <3>. QED
        BY ONLY <3>1, <3>2, <3>3
    <2>2. ASSUME ~ends PROVE ListPages(spaces'[g].list) = ListPages(spaces[g].list)
      <3>1. CASE closes
        BY SMTT(40), <1>4, <1>10, <1>12, <3>1
      <3>2. CASE ~closes
        <4>1. run.seg = g /\ run.start = o /\ run.size = 0
          BY <1>10, <2>2, <3>2
        <4>2. o .. o + 0 - 1 = {}
          BY <1>4
        <4>. QED
          BY <1>12, <4>1, <4>2
      <3>. QED
        BY <3>1, <3>2
    <2>. QED
      BY <1>8, <1>9, <2>1, <2>2
  <1>15. SpacesInv'
    <2>1. \A h \in SegID : SpaceOK(spaces'[h])
      BY <1>5, <1>12 DEF SpacesInv
    <2>2. \A h \in SegID : h >= g + 1 => spaces'[h] = EmptySpace
      <3> SUFFICES ASSUME NEW h \in SegID, h >= g + 1 PROVE spaces'[h] = EmptySpace
        OBVIOUS
      <3>1. run.seg \in {g, g - 1} /\ segNum \in {g, g + 1}
        BY <1>4, <1>5, <1>10 DEF LoadInv, CurSeg
      <3>2. h # run.seg /\ h >= segNum
        BY <1>4, <3>1, Bounds DEF SegID
      <3>. QED
        BY <1>5, <1>12, <3>2 DEF SpacesInv
    <2>3. \A h \in SegID : h >= loader.segs => sme[h] = {}
      BY <1>1, <1>5 DEF SpacesInv
    <2>. QED
      BY <1>1, <1>3, <1>6, <1>7, <2>1, <2>2, <2>3 DEF SpacesInv
  <1>16. LoadInv'
    <2>1. /\ freePos' = 0 /\ \A s \in Session : pc'[s] = "idle" /\ held'[s] = {}
      BY <1>1, <1>5 DEF LoadInv, disk, local
    <2>2. /\ loader'.seg <= loader'.segs
          /\ loader'.seg = loader'.segs => loader'.off = 0
      BY <1>1, <1>3, <1>4
    <2>3. \A h \in 0 .. g - 1 : Exact(h, SegPages)'
      BY <1>1, <1>13 DEF Exact
    <2>4. o \in sme[g] => ListPages(spaces'[g].list) = (0 .. o) \ sme[g]
      <3>1. CASE o = 0
        BY <1>4, <1>14, <3>1
      <3>2. ASSUME o > 0, o \in sme[g] PROVE ListPages(spaces'[g].list) = (0 .. o) \ sme[g]
        <4>1. ListPages(spaces'[g].list) = (0 .. o - 1) \ sme[g]
          BY <1>4, <1>14, <3>2
        <4>2. 0 .. o = (0 .. o - 1) \cup {o}
          BY <1>4
        <4>. QED
          BY ONLY <3>2, <4>1, <4>2
      <3>. QED
        BY <1>4, <3>1, <3>2
    <2>5. o \notin sme[g] =>
            /\ loader'.begin \in Nat /\ loader'.begin < o + 1
            /\ (loader'.begin .. o) \cap sme[g] = {}
            /\ ListPages(spaces'[g].list) = (0 .. loader'.begin - 1) \ sme[g]
      <3>1. CASE o = 0
        BY <1>3, <1>4, <1>14, <3>1
      <3>2. ASSUME o > 0, loader.inUse, o \notin sme[g]
            PROVE  /\ loader'.begin = o
                   /\ ListPages(spaces'[g].list) = (0 .. o - 1) \ sme[g]
        BY <1>3, <1>4, <1>14, <3>2
      <3>3. ASSUME o > 0, ~loader.inUse, o \notin sme[g]
            PROVE  /\ loader'.begin = b /\ b < o /\ (b .. o - 1) \cap sme[g] = {}
                   /\ ListPages(spaces'[g].list) = (0 .. b - 1) \ sme[g]
        BY <1>3, <1>4, <1>9, <1>14, <3>3
      <3>4. b .. o = (b .. o - 1) \cup {o} \/ b > o
        BY <1>4
      <3>5. o .. o = {o}
        BY <1>4
      <3>. QED
        BY <1>4, <3>1, <3>2, <3>3, <3>4, <3>5
    <2>6. (o + 1) - 1 = o /\ g >= 0
      BY <1>4
    <2>. QED
      BY <1>1, <1>3, <1>6, <1>7, <2>1, <2>2, <2>3, <2>4, <2>5, <2>6 DEF LoadInv, Exact
  <1>17. TypeOK'
    <2>1. /\ g + 1 \in 0 .. MaxSeg /\ 0 \in 0 .. g + 1 /\ 0 \in Offset
          /\ o # SegPages - 1 => o + 1 \in Offset
      BY <1>4, Bounds DEF Offset
    <2>2. loader'.begin \in Offset /\ loader'.inUse \in BOOLEAN
      <3>1. CASE o = 0
        BY <1>3, <2>1, <3>1
      <3>2. CASE o # 0
        BY <1>2, <1>3, <1>4, <3>2
      <3>. QED
        BY <3>1, <3>2
    <2>3. /\ loader'.mode \in {"loading", "running"} /\ loader'.segs \in 0 .. InitSeg
          /\ loader'.seg \in 0 .. InitSeg /\ loader'.off \in Offset
      BY <1>2, <1>3, <1>4, <2>1
    <2>4. loader' \in [mode : {"loading", "running"}, segs : 0 .. InitSeg,
                       seg : 0 .. InitSeg, off : Offset, begin : Offset,
                       inUse : BOOLEAN]
      BY <1>3, <2>2, <2>3
    <2>5. freePos' = 0
      BY <1>1, <1>5 DEF LoadInv
    <2>. QED
      BY <1>1, <1>7, <1>12, <2>1, <2>4, <2>5 DEF IndInv, TypeOK, disk, local
  <1>18. FreeListExact'
    BY <1>6 DEF FreeListExact
  <1>. QED
    BY <1>1, <1>12, <1>15, <1>16, <1>17, <1>18, LoadingQuiet DEF IndInv

(* init ends: every segment of the file is in the lists. *)
LEMMA LoadEndInv == IndInv /\ LoadEnd => IndInv'
  <1> SUFFICES ASSUME IndInv, LoadEnd PROVE IndInv'
    OBVIOUS
  <1> DEFINE n == loader.segs
             b == loader.begin
             last == [seg |-> n - 1, start |-> b, size |-> SegPages - b]
             open == n > 0 /\ SegPages - 1 \notin sme[n - 1]
  <1>1. /\ Loading /\ loader.seg = n /\ loader' = Running
        /\ UNCHANGED <<disk, segNum, freePos, local>> /\ sme' = sme
        /\ open => LoadRelease(last)
        /\ ~open => UNCHANGED <<spaces, totalFree, err>>
    BY DEF LoadEnd, disk
  <1>2. /\ n \in 0 .. InitSeg /\ b \in Nat /\ b < SegPages
        /\ loader.inUse \in BOOLEAN
    BY Bounds DEF IndInv, TypeOK, Offset
  <1>3. LoadInv /\ SpacesInv
    BY <1>1 DEF IndInv
  <1>4. CurSeg = n - 1 /\ CurEnd = SegPages /\ segNum = n
    BY <1>1, <1>2, <1>3 DEF LoadInv, CurSeg, CurEnd
  <1>5. /\ \A g \in 0 .. n - 2 : ListPages(spaces[g].list) = (0 .. SegPages - 1) \ sme[g]
        /\ open => /\ (b .. SegPages - 1) \cap sme[n - 1] = {}
                   /\ ListPages(spaces[n - 1].list) = (0 .. b - 1) \ sme[n - 1]
        /\ n > 0 /\ ~open =>
             ListPages(spaces[n - 1].list) = (0 .. SegPages - 1) \ sme[n - 1]
    BY <1>2, <1>3, <1>4 DEF LoadInv, Exact
  <1>6. ~Loading'
    BY <1>1 DEF Loading, Running
  <1>7. ASSUME open
        PROVE  /\ err' = err /\ totalFree' \in Int
               /\ spaces' \in [SegID -> [list : Seq(Node), maxNode : 0 .. SegPages,
                                         totalFree : 0 .. SegPages]]
               /\ SpaceOK(spaces'[n - 1])
               /\ ListPages(spaces'[n - 1].list) =
                    ListPages(spaces[n - 1].list) \cup (b .. SegPages - 1)
               /\ \A h \in SegID : h # n - 1 => spaces'[h] = spaces[h]
    <2>1. /\ last.seg \in SegID /\ last.start \in Offset /\ last.size \in 0 .. SegPages
          /\ last.start + last.size <= SegPages
      BY <1>2, <1>7, Bounds DEF SegID, Offset
    <2>2. last.seg = n - 1 /\ last.start = b /\ last.start + last.size - 1 = SegPages - 1
      BY <1>2, Bounds
    <2>3. (last.start .. last.start + last.size - 1)
             \cap ListPages(spaces[last.seg].list) = {}
      <3>1. (b .. SegPages - 1) \cap (0 .. b - 1) = {}
        BY <1>2, Bounds
      <3>. QED
        BY <1>5, <1>7, <2>2, <3>1
    <2>4. LoadRelease(last)
      BY <1>1, <1>7
    <2> HIDE DEF last
    <2>. QED
      BY <2>1, <2>2, <2>3, <2>4, LoadReleaseCorrect
  <1>8. /\ err' = err /\ totalFree' \in Int
        /\ spaces' \in [SegID -> [list : Seq(Node), maxNode : 0 .. SegPages,
                                  totalFree : 0 .. SegPages]]
    BY <1>1, <1>7 DEF IndInv, TypeOK
  <1>9. \A g \in 0 .. n - 1 : ListPages(spaces'[g].list) = (0 .. SegPages - 1) \ sme[g]
    <2> SUFFICES ASSUME NEW g \in 0 .. n - 1
                 PROVE  ListPages(spaces'[g].list) = (0 .. SegPages - 1) \ sme[g]
      OBVIOUS
    <2>1. n > 0 /\ g \in SegID /\ (g = n - 1 \/ g \in 0 .. n - 2)
      BY <1>2, Bounds DEF SegID
    <2>2. CASE ~open
      BY <1>1, <1>5, <2>1, <2>2
    <2>3. CASE open /\ g # n - 1
      BY <1>5, <1>7, <2>1, <2>3
    <2>4. CASE open /\ g = n - 1
      <3>1. (0 .. b - 1) \cup (b .. SegPages - 1) = 0 .. SegPages - 1
        BY <1>2, Bounds
      <3>. QED
        BY <1>5, <1>7, <2>4, <3>1
    <2>. QED
      BY <2>2, <2>3, <2>4
  <1>10. SpacesInv'
    <2>1. \A g \in SegID : SpaceOK(spaces'[g])
      BY <1>1, <1>3, <1>7 DEF SpacesInv
    <2>2. ASSUME NEW g \in SegID, g >= n PROVE spaces'[g] = EmptySpace /\ sme[g] = {}
      <3>1. spaces[g] = EmptySpace /\ sme[g] = {}
        BY <1>1, <1>3, <1>4, <2>2 DEF SpacesInv
      <3>2. g # n - 1
        BY <1>2, <2>2, Bounds DEF SegID
      <3>. QED
        BY <1>1, <1>7, <3>1, <3>2
    <2>. QED
      BY <1>1, <1>4, <1>6, <2>1, <2>2 DEF SpacesInv
  <1>11. TypeOK'
    <2>1. loader' \in [mode : {"loading", "running"}, segs : 0 .. InitSeg,
                       seg : 0 .. InitSeg, off : Offset, begin : Offset,
                       inUse : BOOLEAN]
      BY <1>1, Bounds DEF Running, Offset
    <2>. QED
      BY <1>1, <1>8, <2>1 DEF IndInv, TypeOK, disk, local
  <1>12. FreeListExact'
    BY <1>1, <1>4, <1>9 DEF FreeListExact, Offset
  <1>13. CallInv' /\ NoSharedPage' /\ FreePosSound' /\ NoInternalError'
    BY <1>1, <1>8, LoadingQuiet
  <1>. QED
    BY <1>6, <1>10, <1>11, <1>12, <1>13 DEF IndInv

-----------------------------------------------------------------------------
(* A new segment is one node of free pages. *)
LEMMA DepositInv == IndInv /\ DepositASegment => IndInv'
  <1> SUFFICES ASSUME IndInv, DepositASegment PROVE IndInv'
    OBVIOUS
  <1> DEFINE r == ReleaseIn(EmptySpace, 0, SegPages)
  <1>1. /\ ~Loading /\ segNum < MaxSeg
        /\ \A s \in Session : pc[s] = "idle"
        /\ spaces' = [spaces EXCEPT ![segNum] = r.space]
        /\ segNum' = segNum + 1
        /\ totalFree' = totalFree + SegPages
        /\ err' = IF r.rc = "OK" THEN err ELSE r.rc
        /\ sme' = sme /\ held' = held /\ freePos' = freePos /\ loader' = loader
        /\ pc' = pc /\ pos' = pos /\ req' = req
    BY DEF DepositASegment, disk, local
  <1>2. /\ r.rc = "OK" /\ SpaceOK(r.space)
        /\ ListPages(r.space.list) = 0 .. SegPages - 1
    <2>1. /\ SpaceOK(EmptySpace) /\ 0 \in Offset /\ SegPages \in 1 .. SegPages
          /\ 0 + SegPages <= SegPages /\ 0 + SegPages - 1 = SegPages - 1
          /\ (0 .. 0 + SegPages - 1) \cap ListPages(EmptySpace.list) = {}
      BY EmptySpaceOK, Bounds DEF Offset
    <2>2. r.rc = "OK"
      BY ONLY <2>1, ReleaseInCorrect
    <2>3. SpaceOK(r.space)
      BY ONLY <2>1, ReleaseInCorrect
    <2>4. ListPages(r.space.list) =
            ListPages(EmptySpace.list) \cup (0 .. 0 + SegPages - 1)
      BY ONLY <2>1, ReleaseInCorrect
    <2>. QED
      BY <2>1, <2>2, <2>3, <2>4, EmptySpaceOK
  <1> HIDE DEF r
  <1>3. /\ segNum \in SegID /\ segNum + 1 \in 0 .. MaxSeg /\ segNum \in Nat
        /\ freePos \in 0 .. segNum /\ freePos \in 0 .. segNum + 1
        /\ totalFree + SegPages \in Int
    BY <1>1, Bounds DEF IndInv, TypeOK, SegID
  <1>4. /\ spaces'[segNum] = r.space
        /\ \A h \in SegID : h # segNum => spaces'[h] = spaces[h]
        /\ spaces' \in [SegID -> [list : Seq(Node), maxNode : 0 .. SegPages,
                                  totalFree : 0 .. SegPages]]
    <2>1. r.space \in [list : Seq(Node), maxNode : 0 .. SegPages,
                       totalFree : 0 .. SegPages]
      BY <1>2 DEF SpaceOK
    <2>. QED
      BY <1>1, <1>3, <2>1 DEF IndInv, TypeOK
  <1>5. ~Loading'
    BY <1>1 DEF Loading
  <1>6. TypeOK'
    BY <1>1, <1>2, <1>3, <1>4 DEF IndInv, TypeOK
  <1>7. SpacesInv'
    <2>1. \A h \in SegID : SpaceOK(spaces'[h])
      BY <1>2, <1>4 DEF IndInv, SpacesInv
    <2>2. ASSUME NEW h \in SegID, h >= segNum + 1
          PROVE  spaces'[h] = EmptySpace /\ sme[h] = {}
      <3>1. h >= segNum /\ h # segNum
        BY <1>3, <2>2, Bounds DEF SegID
      <3>. QED
        BY <1>1, <1>4, <3>1 DEF IndInv, SpacesInv
    <2>. QED
      BY <1>1, <1>5, <2>1, <2>2 DEF SpacesInv
  <1>8. FreeListExact'
    <2> SUFFICES ASSUME NEW g \in 0 .. segNum
                 PROVE  ListPages(spaces'[g].list) = Offset \ sme[g]
      BY <1>1, <1>3 DEF FreeListExact
    <2>1. CASE g = segNum
      <3>1. sme[g] = {}
        BY <1>1, <1>3, <2>1 DEF IndInv, SpacesInv
      <3>. QED
        BY <1>2, <1>4, <2>1, <3>1 DEF Offset
    <2>2. CASE g # segNum
      <3>1. g \in 0 .. segNum - 1 /\ g \in SegID
        BY <1>3, <2>2, Bounds DEF SegID
      <3>. QED
        BY <1>1, <1>4, <2>2, <3>1 DEF IndInv, FreeListExact
    <2>. QED
      BY <2>1, <2>2
  <1>9. CallInv' /\ NoSharedPage' /\ NoInternalError'
    <2>1. \A s \in Session : pc'[s] = "idle"
      BY <1>1
    <2>. QED
      BY <1>1, <1>2, <2>1 DEF IndInv, CallInv, NoSharedPage, NoInternalError
  <1>10. FreePosSound'
    <2>1. \A h \in 0 .. freePos - 1 : h \in SegID /\ h # segNum
      BY <1>3, Bounds DEF SegID
    <2>. QED
      BY <1>1, <1>4, <2>1 DEF IndInv, FreePosSound
  <1>. QED
    BY <1>5, <1>6, <1>7, <1>8, <1>9, <1>10 DEF IndInv

(* Steps that change neither the lists nor the bitmap: the beginning of a  *)
(* reserve, a miss, a reserve that finds nothing, the swap of a release.   *)
LEMMA LocalStepInv ==
  ASSUME IndInv, ~Loading, NEW s \in Session,
         UNCHANGED <<disk, spaces, segNum, totalFree, loader, err>>,
         pc' \in [Session -> {"idle", "scan", "swap"}],
         pos' \in [Session -> 0 .. MaxSeg], req' \in [Session -> 0 .. SegPages],
         freePos' \in 0 .. segNum,
         CallInv', FreePosSound'
  PROVE  IndInv'
  <1>1. /\ sme' = sme /\ held' = held /\ spaces' = spaces /\ segNum' = segNum
        /\ totalFree' = totalFree /\ loader' = loader /\ err' = err
    BY DEF disk
  <1>2. ~Loading'
    BY <1>1 DEF Loading
  <1>3. TypeOK'
    BY <1>1 DEF IndInv, TypeOK
  <1>4. SpacesInv' /\ FreeListExact' /\ NoSharedPage' /\ NoInternalError'
    BY <1>1, <1>2 DEF IndInv, SpacesInv, FreeListExact, NoSharedPage, NoInternalError
  <1>. QED
    BY <1>2, <1>3, <1>4 DEF IndInv

(* reservePages reads _freePos. *)
LEMMA ReserveBeginInv ==
  ASSUME IndInv, NEW s \in Session, NEW n \in 1 .. SegPages, ReserveBegin(s, n)
  PROVE  IndInv'
  <1>1. /\ ~Loading /\ pc[s] = "idle"
        /\ pc' = [pc EXCEPT ![s] = "scan"]
        /\ req' = [req EXCEPT ![s] = n]
        /\ pos' = [pos EXCEPT ![s] = freePos]
        /\ freePos' = freePos /\ spaces' = spaces /\ segNum' = segNum
        /\ UNCHANGED <<disk, spaces, segNum, totalFree, loader, err>>
    BY DEF ReserveBegin, mgr
  <1>2. /\ pc \in [Session -> {"idle", "scan", "swap"}]
        /\ pos \in [Session -> 0 .. MaxSeg] /\ req \in [Session -> 0 .. SegPages]
        /\ freePos \in 0 .. segNum /\ freePos \in 0 .. MaxSeg /\ n \in 0 .. SegPages
    BY Bounds DEF IndInv, TypeOK
  <1>3. CallInv'
    BY <1>1, <1>2 DEF IndInv, CallInv
  <1>4. FreePosSound'
    <2>1. \A t \in Session : pc[t] = "swap" => pc'[t] = "swap" /\ pos'[t] = pos[t]
      BY <1>1, <1>2
    <2>. QED
      BY <1>1, <2>1 DEF IndInv, FreePosSound
  <1>. QED
    BY <1>1, <1>2, <1>3, <1>4, LocalStepInv

(* A segment does not have the pages. *)
LEMMA ReserveMissInv ==
  ASSUME IndInv, NEW s \in Session, ReserveMiss(s)
  PROVE  IndInv'
  <1>1. /\ pc[s] = "scan" /\ pos[s] < segNum
        /\ freePos' = FreePosAfter(pos[s])
        /\ pos' = [pos EXCEPT ![s] = pos[s] + 1]
        /\ pc' = pc /\ req' = req /\ spaces' = spaces /\ segNum' = segNum
        /\ UNCHANGED <<disk, spaces, segNum, totalFree, loader, err>>
    BY DEF ReserveMiss
  <1>2. ~Loading
    BY <1>1 DEF IndInv, LoadInv
  <1>3. /\ pc \in [Session -> {"idle", "scan", "swap"}]
        /\ pos \in [Session -> 0 .. MaxSeg] /\ req \in [Session -> 0 .. SegPages]
        /\ freePos \in 0 .. segNum /\ segNum \in 0 .. MaxSeg
    BY DEF IndInv, TypeOK
  <1>4. pos[s] + 1 \in 0 .. segNum /\ pos[s] + 1 \in 0 .. MaxSeg /\ pos[s] \in Nat
    BY <1>1, <1>3, Bounds
  <1>5. freePos' \in 0 .. segNum
    BY <1>1, <1>3, <1>4 DEF FreePosAfter
  <1>6. CallInv'
    BY <1>1, <1>3 DEF IndInv, CallInv
  <1>7. FreePosSound'
    <2>1. \A t \in Session : pc[t] = "swap" => pc'[t] = "swap" /\ pos'[t] = pos[t]
      BY <1>1, <1>3
    <2>2. ASSUME NEW g \in 0 .. freePos' - 1
          PROVE  g \in 0 .. freePos - 1 \/ spaces[g].totalFree = 0
      BY <1>1, <1>3, <1>4 DEF FreePosAfter
    <2>. QED
      BY <1>1, <2>1, <2>2 DEF IndInv, FreePosSound
  <1>. QED
    BY <1>1, <1>2, <1>3, <1>4, <1>5, <1>6, <1>7, LocalStepInv

(* No segment has the pages. *)
LEMMA ReserveNoneInv ==
  ASSUME IndInv, NEW s \in Session, ReserveNone(s)
  PROVE  IndInv'
  <1>1. /\ pc[s] = "scan"
        /\ pc' = [pc EXCEPT ![s] = "idle"]
        /\ pos' = [pos EXCEPT ![s] = 0] /\ req' = [req EXCEPT ![s] = 0]
        /\ freePos' = freePos /\ spaces' = spaces /\ segNum' = segNum
        /\ UNCHANGED <<disk, spaces, segNum, totalFree, loader, err>>
    BY DEF ReserveNone, Return, mgr
  <1>2. ~Loading
    BY <1>1 DEF IndInv, LoadInv
  <1>3. /\ pc \in [Session -> {"idle", "scan", "swap"}]
        /\ pos \in [Session -> 0 .. MaxSeg] /\ req \in [Session -> 0 .. SegPages]
        /\ freePos \in 0 .. segNum /\ 0 \in 0 .. MaxSeg /\ 0 \in 0 .. SegPages
    BY Bounds DEF IndInv, TypeOK
  <1>4. CallInv'
    BY <1>1, <1>3 DEF IndInv, CallInv
  <1>5. FreePosSound'
    <2>1. \A t \in Session : pc[t] = "swap" => pc'[t] = "swap" /\ pos'[t] = pos[t]
      BY <1>1, <1>3
    <2>. QED
      BY <1>1, <2>1 DEF IndInv, FreePosSound
  <1>. QED
    BY <1>1, <1>2, <1>3, <1>4, <1>5, LocalStepInv

(* A release lowers _freePos to its segment. *)
LEMMA ReleaseSwapInv ==
  ASSUME IndInv, NEW s \in Session, ReleaseSwap(s)
  PROVE  IndInv'
  <1>1. /\ pc[s] = "swap"
        /\ freePos' = IF pos[s] < freePos THEN pos[s] ELSE freePos
        /\ pc' = [pc EXCEPT ![s] = "idle"]
        /\ pos' = [pos EXCEPT ![s] = 0] /\ req' = [req EXCEPT ![s] = 0]
        /\ spaces' = spaces /\ segNum' = segNum
        /\ UNCHANGED <<disk, spaces, segNum, totalFree, loader, err>>
    BY DEF ReleaseSwap, Return
  <1>2. ~Loading
    BY <1>1 DEF IndInv, LoadInv
  <1>3. /\ pc \in [Session -> {"idle", "scan", "swap"}]
        /\ pos \in [Session -> 0 .. MaxSeg] /\ req \in [Session -> 0 .. SegPages]
        /\ freePos \in 0 .. segNum /\ 0 \in 0 .. MaxSeg /\ 0 \in 0 .. SegPages
        /\ segNum \in 0 .. MaxSeg
    BY Bounds DEF IndInv, TypeOK
  <1>4. pos[s] \in Nat /\ freePos \in Nat /\ freePos' \in 0 .. segNum
    BY <1>1, <1>3, Bounds
  <1>5. CallInv'
    BY <1>1, <1>3 DEF IndInv, CallInv
  <1>6. FreePosSound'
    <2> SUFFICES ASSUME NEW g \in 0 .. freePos' - 1
                 PROVE  \/ spaces[g].totalFree = 0
                        \/ \E t \in Session : pc'[t] = "swap" /\ pos'[t] <= g
      BY <1>1 DEF FreePosSound
    <2>1. g \in 0 .. freePos - 1 /\ ~(pos[s] <= g)
      BY <1>1, <1>4
    <2>2. CASE spaces[g].totalFree = 0
      BY <2>2
    <2>3. ASSUME NEW t \in Session, pc[t] = "swap", pos[t] <= g
          PROVE  pc'[t] = "swap" /\ pos'[t] <= g
      <3>1. t # s
        BY <2>1, <2>3
      <3>. QED
        BY <1>1, <1>3, <2>3, <3>1
    <2>. QED
      BY <2>1, <2>2, <2>3 DEF IndInv, FreePosSound
  <1>. QED
    BY <1>1, <1>2, <1>3, <1>4, <1>5, <1>6, LocalStepInv

-----------------------------------------------------------------------------
(* What a session holds is allocated, and inside its segment. *)
LEMMA HeldInSegment ==
  ASSUME IndInv, ~Loading, NEW s \in Session, NEW x \in held[s]
  PROVE  /\ x \in Extent /\ x.seg \in SegID /\ x.start \in Offset
         /\ x.size \in 1 .. SegPages
         /\ x.start + x.size <= SegPages /\ x.seg < segNum
         /\ NodePages(x) \subseteq sme[x.seg]
  <1>1. x \in Extent /\ sme \in [SegID -> SUBSET Offset] /\ segNum \in 0 .. MaxSeg
    BY DEF IndInv, TypeOK
  <1>2. x.seg \in SegID /\ x.start \in Offset /\ x.size \in 1 .. SegPages
    BY <1>1 DEF Extent
  <1>3. NodePages(x) \subseteq sme[x.seg]
    BY DEF IndInv, NoSharedPage
  <1>4. x.start + x.size - 1 \in NodePages(x)
    BY <1>2, Bounds DEF NodePages, Offset
  <1>5. x.start + x.size - 1 \in 0 .. SegPages - 1
    BY <1>1, <1>2, <1>3, <1>4 DEF Offset
  <1>6. x.seg < segNum
    <2>1. sme[x.seg] # {}
      BY <1>3, <1>4
    <2>2. ~(x.seg >= segNum)
      BY <1>2, <2>1 DEF IndInv, SpacesInv
    <2>. QED
      BY <1>1, <1>2, <2>2, Bounds DEF SegID
  <1>7. x.start + x.size <= SegPages
    BY <1>2, <1>5, Bounds DEF Offset
  <1>. QED
    BY <1>1, <1>2, <1>3, <1>6, <1>7

(* What a reserve does: the pages it takes were free, and neither SDB_SYS   *)
(* nor an assertion is met.                                                *)
LEMMA ReserveHitEffect ==
  ASSUME IndInv, NEW s \in Session, ReserveHit(s)
  PROVE  LET g == pos[s]
             n == req[s]
             r == ReserveIn(spaces[g], n)
             bits == r.start .. r.start + n - 1
             x == [seg |-> g, start |-> r.start, size |-> n]
         IN  /\ pc[s] = "scan" /\ g < segNum /\ ~Loading
             /\ n \in 1 .. SegPages /\ g \in Nat /\ g \in SegID
             /\ g \in 0 .. segNum - 1 /\ SpaceOK(spaces[g])
             /\ r.rc = "OK" /\ SpaceOK(r.space)
             /\ r.start \in Offset /\ r.start + n <= SegPages
             /\ bits \subseteq Offset \ sme[g]
             /\ ListPages(r.space.list) = (Offset \ sme[g]) \ bits
             /\ r.space.totalFree = spaces[g].totalFree - n
             /\ freePos' = FreePosAfter(g)
             /\ spaces' = [spaces EXCEPT ![g] = r.space]
             /\ sme' = [sme EXCEPT ![g] = @ \cup bits]
             /\ totalFree' = totalFree - n
             /\ held' = [held EXCEPT ![s] = @ \cup {x}]
             /\ pc' = [pc EXCEPT ![s] = "idle"]
             /\ pos' = [pos EXCEPT ![s] = 0] /\ req' = [req EXCEPT ![s] = 0]
             /\ segNum' = segNum /\ loader' = loader /\ err' = err
  <1> DEFINE g == pos[s]
             n == req[s]
             r == ReserveIn(spaces[g], n)
             bits == r.start .. r.start + n - 1
             x == [seg |-> g, start |-> r.start, size |-> n]
  <1>1. pc[s] = "scan" /\ g < segNum /\ r.rc # "NOSPC"
    BY DEF ReserveHit
  <1>2. ~Loading
    BY <1>1 DEF IndInv, LoadInv
  <1>3. /\ pc \in [Session -> {"idle", "scan", "swap"}]
        /\ pos \in [Session -> 0 .. MaxSeg] /\ req \in [Session -> 0 .. SegPages]
        /\ freePos \in 0 .. segNum /\ segNum \in 0 .. MaxSeg
        /\ sme \in [SegID -> SUBSET Offset]
        /\ spaces \in [SegID -> [list : Seq(Node), maxNode : 0 .. SegPages,
                                 totalFree : 0 .. SegPages]]
        /\ held \in [Session -> SUBSET Extent] /\ totalFree \in Int
    BY DEF IndInv, TypeOK
  <1>4. n \in 1 .. SegPages /\ g \in Nat /\ g \in SegID /\ g \in 0 .. segNum - 1
    BY <1>1, <1>3, Bounds DEF IndInv, CallInv, SegID
  <1>5. SpaceOK(spaces[g]) /\ ListPages(spaces[g].list) = Offset \ sme[g]
    BY <1>2, <1>4 DEF IndInv, SpacesInv, FreeListExact
  <1>6. /\ r.rc = "OK" /\ SpaceOK(r.space)
        /\ r.start \in Offset /\ r.start + n <= SegPages
        /\ bits \subseteq Offset \ sme[g]
        /\ ListPages(r.space.list) = (Offset \ sme[g]) \ bits
        /\ r.space.totalFree = spaces[g].totalFree - n
        /\ r.space.maxNode # SegPages
    <2>1. SpaceOK(spaces[g]) /\ n \in 1 .. SegPages
      BY <1>4, <1>5
    <2>2. r.rc = "OK"
      BY ONLY <1>1, <2>1, ReserveInCorrect
    <2>3. SpaceOK(r.space)
      BY ONLY <2>1, <2>2, ReserveInCorrect
    <2>4. r.start \in Offset /\ r.start + n <= SegPages
      BY ONLY <2>1, <2>2, ReserveInCorrect
    <2>5. bits \subseteq ListPages(spaces[g].list)
      BY ONLY <2>1, <2>2, ReserveInCorrect
    <2>6. ListPages(r.space.list) = ListPages(spaces[g].list) \ bits
      BY ONLY <2>1, <2>2, ReserveInCorrect
    <2>7. r.space.totalFree = spaces[g].totalFree - n
      BY ONLY <2>1, <2>2, ReserveInCorrect
    <2>8. r.space.maxNode # SegPages
      BY ONLY <2>1, <2>2, ReserveInCorrect
    <2> HIDE DEF r, bits
    <2>. QED
      BY <1>5, <2>2, <2>3, <2>4, <2>5, <2>6, <2>7, <2>8
  <1>7. /\ freePos' = FreePosAfter(g)
        /\ spaces' = [spaces EXCEPT ![g] = r.space]
        /\ sme' = [sme EXCEPT ![g] = @ \cup bits]
        /\ totalFree' = totalFree - n
        /\ held' = [held EXCEPT ![s] = @ \cup {x}]
        /\ pc' = [pc EXCEPT ![s] = "idle"]
        /\ pos' = [pos EXCEPT ![s] = 0] /\ req' = [req EXCEPT ![s] = 0]
        /\ segNum' = segNum /\ loader' = loader
    BY <1>6 DEF ReserveHit, Return
  <1>8. err' = err
    <2>1. bits \cap sme[g] = {} /\ r.space.maxNode # SegPages /\ r.rc = "OK"
      BY <1>6
    <2>2. err' = CASE r.rc # "OK" -> "SYS"
                   [] r.rc = "OK" /\ (bits \cap sme[g] # {} \/ r.space.maxNode = SegPages)
                        -> "ASSERT"
                   [] OTHER -> err
      BY <1>6 DEF ReserveHit
    <2> HIDE DEF r, bits
    <2>. QED
      BY ONLY <2>1, <2>2
  <1> HIDE DEF r, bits, x
  <1>. QED
    BY <1>1, <1>2, <1>4, <1>5, <1>6, <1>7, <1>8 DEF r, bits, x

(* A reserve preserves the invariant. *)
LEMMA ReserveHitInv ==
  ASSUME IndInv, NEW s \in Session, ReserveHit(s)
  PROVE  IndInv'
  <1> DEFINE g == pos[s]
             n == req[s]
             r == ReserveIn(spaces[g], n)
             bits == r.start .. r.start + n - 1
             x == [seg |-> g, start |-> r.start, size |-> n]
  <1> HIDE DEF r, bits, x
  <1>1. pc[s] = "scan" /\ g < segNum
    BY ReserveHitEffect DEF r, bits, x
  <1>2. ~Loading
    BY ReserveHitEffect DEF r, bits, x
  <1>3. /\ pc \in [Session -> {"idle", "scan", "swap"}]
        /\ pos \in [Session -> 0 .. MaxSeg] /\ req \in [Session -> 0 .. SegPages]
        /\ freePos \in 0 .. segNum /\ segNum \in 0 .. MaxSeg
        /\ sme \in [SegID -> SUBSET Offset]
        /\ spaces \in [SegID -> [list : Seq(Node), maxNode : 0 .. SegPages,
                                 totalFree : 0 .. SegPages]]
        /\ held \in [Session -> SUBSET Extent] /\ totalFree \in Int
    BY DEF IndInv, TypeOK
  <1>4. n \in 1 .. SegPages /\ g \in Nat /\ g \in SegID /\ g \in 0 .. segNum - 1
    BY ReserveHitEffect DEF r, bits, x
  <1>5. SpaceOK(spaces[g])
    BY ReserveHitEffect DEF r, bits, x
  <1>6. /\ r.rc = "OK" /\ SpaceOK(r.space)
        /\ r.start \in Offset /\ r.start + n <= SegPages
        /\ bits \subseteq Offset \ sme[g]
        /\ ListPages(r.space.list) = (Offset \ sme[g]) \ bits
        /\ r.space.totalFree = spaces[g].totalFree - n
    BY ReserveHitEffect DEF r, bits, x
  <1>7. /\ freePos' = FreePosAfter(g)
        /\ spaces' = [spaces EXCEPT ![g] = r.space]
        /\ sme' = [sme EXCEPT ![g] = @ \cup bits]
        /\ totalFree' = totalFree - n
        /\ held' = [held EXCEPT ![s] = @ \cup {x}]
        /\ pc' = [pc EXCEPT ![s] = "idle"]
        /\ pos' = [pos EXCEPT ![s] = 0] /\ req' = [req EXCEPT ![s] = 0]
        /\ segNum' = segNum /\ loader' = loader
    BY ReserveHitEffect DEF r, bits, x
  <1>8. err' = err
    BY ReserveHitEffect DEF r, bits, x
  <1>9. freePos' = freePos
    <2>1. r.space.totalFree \in 0 .. SegPages /\ spaces[g].totalFree \in 0 .. SegPages
      BY <1>5, <1>6 DEF SpaceOK
    <2>2. spaces[g].totalFree # 0
      BY <1>4, <1>6, <2>1, Bounds
    <2>. QED
      BY <1>7, <2>2 DEF FreePosAfter
  <1>10. /\ spaces'[g] = r.space /\ sme'[g] = sme[g] \cup bits
         /\ \A h \in SegID : h # g => spaces'[h] = spaces[h] /\ sme'[h] = sme[h]
         /\ \A h \in SegID : sme[h] \subseteq sme'[h]
    BY <1>3, <1>4, <1>7
  <1>11. /\ held'[s] = held[s] \cup {x}
         /\ \A t \in Session : t # s => held'[t] = held[t]
         /\ \A t \in Session : held'[t] \subseteq held[t] \cup {x}
    BY <1>3, <1>7
  <1>12. x \in Extent /\ x.seg = g /\ NodePages(x) = bits
    <2>1. x.seg = g /\ x.start = r.start /\ x.size = n
      BY DEF x
    <2>2. x \in Extent
      BY <1>4, <1>6 DEF x, Extent
    <2>. QED
      BY <2>1, <2>2 DEF NodePages, bits
  <1>13. ~Loading'
    BY <1>2, <1>7 DEF Loading
  <1>14. TypeOK'
    <2>1. r.space \in [list : Seq(Node), maxNode : 0 .. SegPages,
                       totalFree : 0 .. SegPages]
      BY <1>6 DEF SpaceOK
    <2>2. /\ spaces' \in [SegID -> [list : Seq(Node), maxNode : 0 .. SegPages,
                                    totalFree : 0 .. SegPages]]
      BY <1>3, <1>7, <2>1
    <2>3. sme' \in [SegID -> SUBSET Offset]
      BY <1>3, <1>6, <1>7
    <2>4. held' \in [Session -> SUBSET Extent]
      BY <1>3, <1>7, <1>12
    <2>5. totalFree' \in Int
      BY <1>3, <1>4, <1>7, Bounds
    <2>6. /\ pc' \in [Session -> {"idle", "scan", "swap"}]
          /\ pos' \in [Session -> 0 .. MaxSeg] /\ req' \in [Session -> 0 .. SegPages]
      BY <1>3, <1>7, Bounds
    <2>. QED
      BY <1>7, <1>8, <1>9, <2>2, <2>3, <2>4, <2>5, <2>6 DEF IndInv, TypeOK
  <1>15. SpacesInv'
    <2>1. \A h \in SegID : SpaceOK(spaces'[h])
      BY <1>6, <1>10 DEF IndInv, SpacesInv
    <2>2. ASSUME NEW h \in SegID, h >= segNum
          PROVE  spaces'[h] = EmptySpace /\ sme'[h] = {}
      <3>1. h # g
        BY <1>1, <1>3, <1>4, <2>2, Bounds DEF SegID
      <3>. QED
        BY <1>2, <1>10, <2>2, <3>1 DEF IndInv, SpacesInv
    <2>. QED
      BY <1>7, <1>13, <2>1, <2>2 DEF SpacesInv
  <1>16. FreeListExact'
    <2> SUFFICES ASSUME NEW h \in 0 .. segNum - 1
                 PROVE  ListPages(spaces'[h].list) = Offset \ sme'[h]
      BY <1>7 DEF FreeListExact
    <2>1. CASE h = g
      BY <1>6, <1>10, <2>1
    <2>2. CASE h # g
      <3>1. h \in SegID
        BY <1>3, Bounds DEF SegID
      <3>. QED
        BY <1>2, <1>10, <2>2, <3>1 DEF IndInv, FreeListExact
    <2>. QED
      BY <2>1, <2>2
  <1>17. CallInv'
    BY <1>3, <1>7 DEF IndInv, CallInv
  <1>18. NoSharedPage'
    <2>1. ASSUME NEW t \in Session, NEW y \in held[t]
          PROVE  /\ y.seg \in SegID /\ NodePages(y) \subseteq sme[y.seg]
                 /\ y.seg = g => NodePages(y) \cap bits = {}
      <3>1. y.seg \in SegID /\ NodePages(y) \subseteq sme[y.seg]
        BY <1>2, <2>1, HeldInSegment
      <3>. QED
        BY <1>6, <3>1
    <2> SUFFICES ASSUME NEW t \in Session, NEW u \in Session,
                        NEW y \in held'[t], NEW z \in held'[u]
                 PROVE  /\ NodePages(y) \subseteq sme'[y.seg]
                        /\ <<t, y>> # <<u, z>> /\ y.seg = z.seg
                             => NodePages(y) \cap NodePages(z) = {}
      BY DEF NoSharedPage
    <2>2. NodePages(y) \subseteq sme'[y.seg]
      <3>1. CASE y = x
        BY <1>10, <1>12, <3>1
      <3>2. CASE y \in held[t]
        BY <1>10, <2>1, <3>2
      <3>. QED
        BY <1>11, <3>1, <3>2
    <2>3. x \notin held[s]
      <3>1. bits # {}
        BY <1>4, <1>6, Bounds DEF bits, Offset
      <3>. QED
        BY <1>12, <2>1, <3>1
    <2>4. ASSUME <<t, y>> # <<u, z>>, y.seg = z.seg
          PROVE  NodePages(y) \cap NodePages(z) = {}
      <3>1. CASE y \in held[t] /\ z \in held[u]
        BY <2>4, <3>1 DEF IndInv, NoSharedPage
      <3>2. CASE y \in held[t] /\ z \notin held[u]
        <4>1. z = x
          BY <1>11, <3>2
        <4>. QED
          BY <1>12, <2>1, <2>4, <3>2, <4>1
      <3>3. CASE y \notin held[t] /\ z \in held[u]
        <4>1. y = x
          BY <1>11, <3>3
        <4>. QED
          BY <1>12, <2>1, <2>4, <3>3, <4>1
      <3>4. CASE y \notin held[t] /\ z \notin held[u]
        <4>1. t = s /\ u = s /\ y = x /\ z = x
          BY <1>11, <3>4
        <4>. QED
          BY <2>4, <4>1
      <3>. QED
        BY <3>1, <3>2, <3>3, <3>4
    <2>. QED
      BY <2>2, <2>4
  <1>19. FreePosSound'
    <2> SUFFICES ASSUME NEW h \in 0 .. freePos - 1
                 PROVE  \/ spaces'[h].totalFree = 0
                        \/ \E t \in Session : pc'[t] = "swap" /\ pos'[t] <= h
      BY <1>9 DEF FreePosSound
    <2>1. h \in SegID
      BY <1>3, Bounds DEF SegID
    <2>2. ASSUME NEW t \in Session, pc[t] = "swap"
          PROVE  pc'[t] = "swap" /\ pos'[t] = pos[t]
      BY <1>1, <1>3, <1>7, <2>2
    <2>3. CASE spaces[h].totalFree = 0
      <3>1. h # g
        <4>1. r.space.totalFree \in 0 .. SegPages
          BY <1>6 DEF SpaceOK
        <4>. QED
          BY <1>4, <1>6, <2>3, <4>1, Bounds
      <3>. QED
        BY <1>10, <2>1, <2>3, <3>1
    <2>. QED
      BY <2>2, <2>3 DEF IndInv, FreePosSound
  <1>20. NoInternalError'
    BY <1>8 DEF IndInv, NoInternalError
  <1>. QED
    BY <1>13, <1>14, <1>15, <1>16, <1>17, <1>18, <1>19, <1>20 DEF IndInv

(* What a release does: the pages were held, so nothing in the list        *)
(* overlaps them and their SME bits were set.                              *)
LEMMA ReleaseStepEffect ==
  ASSUME IndInv, NEW s \in Session, NEW x \in held[s], ReleaseStep(s, x)
  PROVE  LET g == x.seg
             r == ReleaseIn(spaces[g], x.start, x.size)
             bits == x.start .. x.start + x.size - 1
         IN  /\ ~Loading /\ pc[s] = "idle"
             /\ x \in Extent /\ g \in SegID /\ x.start \in Offset
             /\ x.size \in 1 .. SegPages
             /\ x.start + x.size <= SegPages /\ g < segNum
             /\ bits \subseteq sme[g] /\ NodePages(x) = bits
             /\ g \in Nat /\ g \in 0 .. segNum - 1 /\ g \in 0 .. MaxSeg
             /\ SpaceOK(r.space)
             /\ ListPages(r.space.list) = Offset \ (sme[g] \ bits)
             /\ held' = [held EXCEPT ![s] = @ \ {x}]
             /\ spaces' = [spaces EXCEPT ![g] = r.space]
             /\ sme' = [sme EXCEPT ![g] = @ \ bits]
             /\ totalFree' = totalFree + x.size
             /\ pc' = [pc EXCEPT ![s] = "swap"] /\ pos' = [pos EXCEPT ![s] = g]
             /\ req' = req /\ segNum' = segNum /\ freePos' = freePos /\ loader' = loader
             /\ err' = err
  <1> DEFINE g == x.seg
             r == ReleaseIn(spaces[g], x.start, x.size)
             bits == x.start .. x.start + x.size - 1
  <1>1. ~Loading /\ pc[s] = "idle"
    BY DEF ReleaseStep
  <1>2. /\ x \in Extent /\ g \in SegID /\ x.start \in Offset
        /\ x.size \in 1 .. SegPages
        /\ x.start + x.size <= SegPages /\ g < segNum
        /\ bits \subseteq sme[g] /\ NodePages(x) = bits
    <2>1. NodePages(x) = bits
      BY DEF NodePages
    <2> HIDE DEF bits
    <2>. QED
      BY <1>1, <2>1, HeldInSegment
  <1>3. /\ pc \in [Session -> {"idle", "scan", "swap"}]
        /\ pos \in [Session -> 0 .. MaxSeg] /\ req \in [Session -> 0 .. SegPages]
        /\ freePos \in 0 .. segNum /\ segNum \in 0 .. MaxSeg
        /\ sme \in [SegID -> SUBSET Offset]
        /\ spaces \in [SegID -> [list : Seq(Node), maxNode : 0 .. SegPages,
                                 totalFree : 0 .. SegPages]]
        /\ held \in [Session -> SUBSET Extent] /\ totalFree \in Int
    BY DEF IndInv, TypeOK
  <1>4. g \in Nat /\ g \in 0 .. segNum - 1 /\ g \in 0 .. MaxSeg
    BY SMTT(40), <1>2, <1>3, Bounds DEF SegID
  <1>5. SpaceOK(spaces[g]) /\ ListPages(spaces[g].list) = Offset \ sme[g]
    BY <1>1, <1>2, <1>4 DEF IndInv, SpacesInv, FreeListExact
  <1>6. /\ r.rc = "OK" /\ SpaceOK(r.space)
        /\ ListPages(r.space.list) = Offset \ (sme[g] \ bits)
    <2>1. /\ SpaceOK(spaces[g]) /\ x.start \in Offset /\ x.size \in 1 .. SegPages
          /\ x.start + x.size <= SegPages
          /\ (x.start .. x.start + x.size - 1) \cap ListPages(spaces[g].list) = {}
      BY <1>2, <1>5
    <2>2. r.rc = "OK"
      BY ONLY <2>1, ReleaseInCorrect
    <2>3. SpaceOK(r.space)
      BY ONLY <2>1, ReleaseInCorrect
    <2>4. ListPages(r.space.list) = ListPages(spaces[g].list) \cup bits
      BY ONLY <2>1, ReleaseInCorrect
    <2> HIDE DEF r, bits
    <2>5. bits \subseteq Offset
      BY <1>2, <1>3
    <2>. QED
      BY <1>5, <2>2, <2>3, <2>4, <2>5
  <1>7. /\ held' = [held EXCEPT ![s] = @ \ {x}]
        /\ spaces' = [spaces EXCEPT ![g] = r.space]
        /\ sme' = [sme EXCEPT ![g] = @ \ bits]
        /\ totalFree' = totalFree + x.size
        /\ pc' = [pc EXCEPT ![s] = "swap"] /\ pos' = [pos EXCEPT ![s] = g]
        /\ req' = req /\ segNum' = segNum /\ freePos' = freePos /\ loader' = loader
    BY <1>2, <1>6 DEF ReleaseStep
  <1>8. err' = err
    <2>1. bits \subseteq sme[g] /\ g < segNum /\ r.rc = "OK"
      BY <1>2, <1>6
    <2>2. err' = CASE ~(g < segNum /\ r.rc = "OK") -> "SYS"
                   [] (g < segNum /\ r.rc = "OK") /\ ~(bits \subseteq sme[g]) -> "ASSERT"
                   [] OTHER -> err
      BY <1>2, <1>6 DEF ReleaseStep
    <2> HIDE DEF r, bits, g
    <2>. QED
      BY ONLY <2>1, <2>2
  <1> HIDE DEF r, bits
  <1>. QED
    BY <1>1, <1>2, <1>4, <1>6, <1>7, <1>8 DEF r, bits

(* A release preserves the invariant. *)
LEMMA ReleaseStepInv ==
  ASSUME IndInv, NEW s \in Session, NEW x \in held[s], ReleaseStep(s, x)
  PROVE  IndInv'
  <1> DEFINE g == x.seg
             r == ReleaseIn(spaces[g], x.start, x.size)
             bits == x.start .. x.start + x.size - 1
  <1> HIDE DEF r, bits
  <1>1. ~Loading /\ pc[s] = "idle"
    BY ReleaseStepEffect DEF r, bits
  <1>2. /\ x \in Extent /\ g \in SegID /\ x.start \in Offset
        /\ x.size \in 1 .. SegPages
        /\ x.start + x.size <= SegPages /\ g < segNum
        /\ bits \subseteq sme[g] /\ NodePages(x) = bits
    BY ReleaseStepEffect DEF r, bits
  <1>3. /\ pc \in [Session -> {"idle", "scan", "swap"}]
        /\ pos \in [Session -> 0 .. MaxSeg] /\ req \in [Session -> 0 .. SegPages]
        /\ freePos \in 0 .. segNum /\ segNum \in 0 .. MaxSeg
        /\ sme \in [SegID -> SUBSET Offset]
        /\ spaces \in [SegID -> [list : Seq(Node), maxNode : 0 .. SegPages,
                                 totalFree : 0 .. SegPages]]
        /\ held \in [Session -> SUBSET Extent] /\ totalFree \in Int
    BY DEF IndInv, TypeOK
  <1>4. g \in Nat /\ g \in 0 .. segNum - 1 /\ g \in 0 .. MaxSeg
    BY ReleaseStepEffect DEF r, bits
  <1>6. /\ SpaceOK(r.space)
        /\ ListPages(r.space.list) = Offset \ (sme[g] \ bits)
    BY ReleaseStepEffect DEF r, bits
  <1>7. /\ held' = [held EXCEPT ![s] = @ \ {x}]
        /\ spaces' = [spaces EXCEPT ![g] = r.space]
        /\ sme' = [sme EXCEPT ![g] = @ \ bits]
        /\ totalFree' = totalFree + x.size
        /\ pc' = [pc EXCEPT ![s] = "swap"] /\ pos' = [pos EXCEPT ![s] = g]
        /\ req' = req /\ segNum' = segNum /\ freePos' = freePos /\ loader' = loader
    BY ReleaseStepEffect DEF r, bits
  <1>8. err' = err
    BY ReleaseStepEffect DEF r, bits
  <1>9. /\ spaces'[g] = r.space /\ sme'[g] = sme[g] \ bits
        /\ \A h \in SegID : h # g => spaces'[h] = spaces[h] /\ sme'[h] = sme[h]
    BY <1>2, <1>3, <1>7
  <1>10. /\ held'[s] = held[s] \ {x}
         /\ \A t \in Session : t # s => held'[t] = held[t]
         /\ \A t \in Session : held'[t] \subseteq held[t]
    BY <1>3, <1>7
  <1>11. ~Loading'
    BY <1>1, <1>7 DEF Loading
  <1>12. TypeOK'
    <2>1. r.space \in [list : Seq(Node), maxNode : 0 .. SegPages,
                       totalFree : 0 .. SegPages]
      BY <1>6 DEF SpaceOK
    <2>2. spaces' \in [SegID -> [list : Seq(Node), maxNode : 0 .. SegPages,
                                 totalFree : 0 .. SegPages]]
      BY <1>3, <1>7, <2>1
    <2>3. sme' \in [SegID -> SUBSET Offset]
      BY <1>3, <1>7
    <2>4. held' \in [Session -> SUBSET Extent]
      BY <1>3, <1>7
    <2>5. totalFree' \in Int
      BY <1>2, <1>3, <1>7, Bounds
    <2>6. /\ pc' \in [Session -> {"idle", "scan", "swap"}]
          /\ pos' \in [Session -> 0 .. MaxSeg]
      BY <1>3, <1>4, <1>7
    <2>. QED
      BY <1>7, <1>8, <2>2, <2>3, <2>4, <2>5, <2>6 DEF IndInv, TypeOK
  <1>13. SpacesInv'
    <2>1. \A h \in SegID : SpaceOK(spaces'[h])
      BY <1>6, <1>9 DEF IndInv, SpacesInv
    <2>2. ASSUME NEW h \in SegID, h >= segNum
          PROVE  spaces'[h] = EmptySpace /\ sme'[h] = {}
      <3>1. h # g
        BY <1>2, <1>3, <1>4, <2>2, Bounds DEF SegID
      <3>. QED
        BY <1>1, <1>9, <2>2, <3>1 DEF IndInv, SpacesInv
    <2>. QED
      BY <1>7, <1>11, <2>1, <2>2 DEF SpacesInv
  <1>14. FreeListExact'
    <2> SUFFICES ASSUME NEW h \in 0 .. segNum - 1
                 PROVE  ListPages(spaces'[h].list) = Offset \ sme'[h]
      BY <1>7 DEF FreeListExact
    <2>1. CASE h = g
      BY <1>6, <1>9, <2>1
    <2>2. CASE h # g
      <3>1. h \in SegID
        BY <1>3, Bounds DEF SegID
      <3>. QED
        BY <1>1, <1>9, <2>2, <3>1 DEF IndInv, FreeListExact
    <2>. QED
      BY <2>1, <2>2
  <1>15. CallInv'
    BY <1>2, <1>3, <1>7 DEF IndInv, CallInv
  <1>16. NoSharedPage'
    <2> SUFFICES ASSUME NEW t \in Session, NEW u \in Session,
                        NEW y \in held'[t], NEW z \in held'[u]
                 PROVE  /\ NodePages(y) \subseteq sme'[y.seg]
                        /\ <<t, y>> # <<u, z>> /\ y.seg = z.seg
                             => NodePages(y) \cap NodePages(z) = {}
      BY DEF NoSharedPage
    <2>1. y \in held[t] /\ z \in held[u] /\ <<t, y>> # <<s, x>>
      BY <1>10
    <2>2. y.seg \in SegID /\ NodePages(y) \subseteq sme[y.seg]
      BY <1>1, <2>1, HeldInSegment
    <2>3. y.seg = g => NodePages(y) \cap bits = {}
      BY <1>2, <2>1 DEF IndInv, NoSharedPage
    <2>4. NodePages(y) \subseteq sme'[y.seg]
      BY <1>9, <2>2, <2>3
    <2>5. <<t, y>> # <<u, z>> /\ y.seg = z.seg => NodePages(y) \cap NodePages(z) = {}
      BY <2>1 DEF IndInv, NoSharedPage
    <2>. QED
      BY <2>4, <2>5
  <1>17. FreePosSound'
    <2> SUFFICES ASSUME NEW h \in 0 .. freePos - 1
                 PROVE  \/ spaces'[h].totalFree = 0
                        \/ \E t \in Session : pc'[t] = "swap" /\ pos'[t] <= h
      BY <1>7 DEF FreePosSound
    <2>1. h \in SegID
      BY <1>3, Bounds DEF SegID
    <2>2. CASE h = g
      <3>1. pc'[s] = "swap" /\ pos'[s] = g /\ g <= h
        BY <1>3, <1>4, <1>7, <2>2
      <3>. QED
        BY <3>1
    <2>3. CASE h # g
      <3>1. spaces'[h] = spaces[h]
        BY <1>9, <2>1, <2>3
      <3>2. \A t \in Session : pc[t] = "swap" => pc'[t] = "swap" /\ pos'[t] = pos[t]
        BY <1>1, <1>3, <1>7
      <3>. QED
        BY <3>1, <3>2 DEF IndInv, FreePosSound
    <2>. QED
      BY <2>2, <2>3
  <1>18. NoInternalError'
    BY <1>8 DEF IndInv, NoInternalError
  <1>. QED
    BY <1>11, <1>12, <1>13, <1>14, <1>15, <1>16, <1>17, <1>18 DEF IndInv

(* A stuttering step changes nothing the invariant speaks of. *)
LEMMA StutterInv == IndInv /\ UNCHANGED vars => IndInv'
  <1> SUFFICES ASSUME IndInv, UNCHANGED vars PROVE IndInv'
    OBVIOUS
  <1>1. /\ sme' = sme /\ spaces' = spaces /\ segNum' = segNum /\ freePos' = freePos
        /\ totalFree' = totalFree /\ loader' = loader /\ pc' = pc /\ pos' = pos
        /\ req' = req /\ held' = held /\ err' = err
    BY DEF vars
  <1>2. TypeOK' /\ SpacesInv' /\ (Loading => LoadInv)' /\ FreeListExact'
    BY <1>1 DEF IndInv, TypeOK, SpacesInv, LoadInv, Loading, CurSeg, CurEnd, Exact,
                FreeListExact
  <1>3. CallInv' /\ NoSharedPage' /\ FreePosSound' /\ NoInternalError'
    BY <1>1 DEF IndInv, CallInv, NoSharedPage, FreePosSound, NoInternalError
  <1>. QED
    BY <1>2, <1>3 DEF IndInv

(* Every step preserves the invariant. *)
LEMMA NextIndInv == IndInv /\ [Next]_vars => IndInv'
  <1> SUFFICES ASSUME IndInv, [Next]_vars PROVE IndInv'
    OBVIOUS
  <1>1. CASE LoadPage
    BY <1>1, LoadPageInv
  <1>2. CASE LoadEnd
    BY <1>2, LoadEndInv
  <1>3. CASE DepositASegment
    BY <1>3, DepositInv
  <1>4. ASSUME NEW s \in Session, SessionNext(s) PROVE IndInv'
    <2>1. ASSUME NEW n \in 1 .. SegPages, ReserveBegin(s, n) PROVE IndInv'
      BY <2>1, ReserveBeginInv
    <2>2. CASE ReserveMiss(s)
      BY <2>2, ReserveMissInv
    <2>3. CASE ReserveHit(s)
      BY <2>3, ReserveHitInv
    <2>4. CASE ReserveNone(s)
      BY <2>4, ReserveNoneInv
    <2>5. ASSUME NEW x \in held[s], ReleaseStep(s, x) PROVE IndInv'
      BY <2>5, ReleaseStepInv
    <2>6. CASE ReleaseSwap(s)
      BY <2>6, ReleaseSwapInv
    <2>. QED
      BY <1>4, <2>1, <2>2, <2>3, <2>4, <2>5, <2>6 DEF SessionNext
  <1>5. CASE UNCHANGED vars
    BY <1>5, StutterInv
  <1>. QED
    BY <1>1, <1>2, <1>3, <1>4, <1>5 DEF Next

(* The inductive invariant holds in every state. *)
LEMMA AlwaysIndInv == Spec => []IndInv
  BY InitIndInv, NextIndInv, PTL DEF Spec

-----------------------------------------------------------------------------
(* Every variable keeps its type, for any number of sessions and segments: *)
(* in particular _freePos never runs past the number of segments.          *)
THEOREM TypeCorrect == Spec => []TypeOK
  <1>1. IndInv => TypeOK
    BY DEF IndInv
  <1>. QED
    BY <1>1, AlwaysIndInv, PTL

(* reservePages never hands one page to two callers, and what it handed    *)
(* out is marked in the SME.                                               *)
THEOREM PagesAreExclusive == Spec => []NoSharedPage
  <1>1. IndInv => NoSharedPage
    BY DEF IndInv
  <1>. QED
    BY <1>1, AlwaysIndInv, PTL

(* The free lists and the SME bitmap agree on every page of the unit, from *)
(* the end of init on.                                                     *)
THEOREM ListsMatchBitmap == Spec => []FreeListExact
  <1>1. IndInv => FreeListExact
    BY DEF IndInv
  <1>. QED
    BY <1>1, AlwaysIndInv, PTL

(* Free nodes never touch: releasePages always merges on both sides. *)
THEOREM ListsAreCoalesced == Spec => []Coalesced
  <1>1. IndInv => Coalesced
    BY DEF IndInv, SpacesInv, SpaceOK, GoodList, Coalesced
  <1>. QED
    BY <1>1, AlwaysIndInv, PTL

(* The window between a release and its swapLesserThan is the only time a  *)
(* segment below _freePos has free pages.                                  *)
THEOREM FreePosIsSound == Spec => []FreePosSound
  <1>1. IndInv => FreePosSound
    BY DEF IndInv
  <1>. QED
    BY <1>1, AlwaysIndInv, PTL

(* The SDB_SYS branches and the assertions on the SME bits of reservePages *)
(* and releasePages are unreachable.                                       *)
THEOREM NoSysBranch == Spec => []NoInternalError
  <1>1. IndInv => NoInternalError
    BY DEF IndInv
  <1>. QED
    BY <1>1, AlwaysIndInv, PTL

-----------------------------------------------------------------------------
(***************************************************************************)
(* The manager's _totalFree.  It is kept by its own updates, apart from    *)
(* the counters of the segments: that it stays their total follows because *)
(* every step changes one segment, by the number of pages it counts.       *)
(***************************************************************************)
FreeIn(sp) == {p \in SegID \X Offset : p[2] \in ListPages(sp[p[1]].list)}

(* If only segment g changes, the number of free pages changes as its      *)
(* _totalFree does.                                                        *)
LEMMA OneSegment ==
  ASSUME NEW sp, NEW sq, NEW g \in SegID,
         \A h \in SegID : SpaceOK(sp[h]) /\ SpaceOK(sq[h]),
         \A h \in SegID : h # g => sq[h] = sp[h]
  PROVE  /\ Cardinality(FreeIn(sp)) \in Nat
         /\ Cardinality(FreeIn(sq)) =
              Cardinality(FreeIn(sp)) + sq[g].totalFree - sp[g].totalFree
  <1> DEFINE Rest == {p \in SegID \X Offset : p[1] # g /\ p[2] \in ListPages(sp[p[1]].list)}
  <1>1. IsFiniteSet(SegID \X Offset)
    <2>1. IsFiniteSet(SegID) /\ IsFiniteSet(Offset)
      BY Bounds, FS_Interval DEF SegID, Offset
    <2>. QED
      BY <2>1, FS_Product
  <1>2. IsFiniteSet(Rest) /\ Cardinality(Rest) \in Nat
    <2>1. Rest \in SUBSET (SegID \X Offset)
      OBVIOUS
    <2>2. IsFiniteSet(Rest)
      BY ONLY <1>1, <2>1, FS_Subset
    <2>. QED
      BY <2>2, FS_CardinalityType
  <1>3. ASSUME NEW st, SpaceOK(st[g]), \A h \in SegID : h # g => st[h] = sp[h]
        PROVE  /\ Cardinality(FreeIn(st)) = st[g].totalFree + Cardinality(Rest)
               /\ st[g].totalFree \in Nat
    <2> DEFINE L == ListPages(st[g].list)
               One == {g} \X L
    <2>1. /\ IsFiniteSet(L) /\ L \subseteq Offset /\ Cardinality(L) = st[g].totalFree
          /\ Cardinality(L) \in Nat
      <3>1. GoodList(st[g].list) /\ st[g].totalFree = Cardinality(L)
        BY <1>3 DEF SpaceOK
      <3> HIDE DEF L
      <3>2. L \subseteq Offset /\ IsFiniteSet(L)
        BY <3>1, ListPagesFinite DEF L
      <3>. QED
        BY <3>1, <3>2, FS_CardinalityType
    <2>2. FreeIn(st) = One \cup Rest
      <3>1. ASSUME NEW p \in FreeIn(st) PROVE p \in One \cup Rest
        <4>1. p \in SegID \X Offset /\ p[2] \in ListPages(st[p[1]].list)
          BY <3>1 DEF FreeIn
        <4>2. CASE p[1] = g
          <5>1. p = <<g, p[2]>> /\ p[2] \in L
            BY <4>1, <4>2
          <5>. QED
            BY <5>1
        <4>3. CASE p[1] # g
          BY <1>3, <4>1, <4>3
        <4>. QED
          BY <4>2, <4>3
      <3>2. ASSUME NEW p \in One PROVE p \in FreeIn(st)
        <4>1. p[1] = g /\ p[2] \in L /\ p = <<p[1], p[2]>>
          OBVIOUS
        <4>. QED
          BY <2>1, <4>1 DEF FreeIn
      <3>3. ASSUME NEW p \in Rest PROVE p \in FreeIn(st)
        BY <1>3, <3>3 DEF FreeIn
      <3>. QED
        BY <3>1, <3>2, <3>3
    <2>3. One \cap Rest = {}
      OBVIOUS
    <2>4. IsFiniteSet(One) /\ Cardinality(One) = Cardinality(L)
      <3>1. IsFiniteSet({g}) /\ Cardinality({g}) = 1
        BY FS_Singleton
      <3> HIDE DEF L
      <3>2. IsFiniteSet({g} \X L) /\ Cardinality({g} \X L) = Cardinality({g}) * Cardinality(L)
        BY ONLY <2>1, <3>1, FS_Product
      <3>. QED
        BY <2>1, <3>1, <3>2
    <2>5. Cardinality({}) = 0
      BY FS_EmptySet
    <2> HIDE DEF One, Rest, L
    <2>6. Cardinality(One \cup Rest) = Cardinality(One) + Cardinality(Rest) - Cardinality(One \cap Rest)
      BY <1>2, <2>4, FS_Union
    <2>7. Cardinality(FreeIn(st)) = Cardinality(L) + Cardinality(Rest) - 0
      BY <2>2, <2>3, <2>4, <2>5, <2>6
    <2>. QED
      BY <1>2, <2>1, <2>7
  <1> HIDE DEF Rest
  <1>4. /\ Cardinality(FreeIn(sp)) = sp[g].totalFree + Cardinality(Rest)
        /\ sp[g].totalFree \in Nat
    BY <1>3
  <1>5. /\ Cardinality(FreeIn(sq)) = sq[g].totalFree + Cardinality(Rest)
        /\ sq[g].totalFree \in Nat
    BY <1>3
  <1>. QED
    BY <1>2, <1>4, <1>5

TotalInv == totalFree = Cardinality(FreeIn(spaces))

(* A step that gives one segment d pages more, or less, and counts them. *)
LEMMA OneSegmentTotal ==
  ASSUME IndInv, IndInv', TotalInv, NEW g \in SegID, NEW d \in Int, NEW space,
         spaces' = [spaces EXCEPT ![g] = space],
         space.totalFree = spaces[g].totalFree + d,
         totalFree' = totalFree + d
  PROVE  TotalInv'
  <1>1. /\ \A h \in SegID : SpaceOK(spaces[h]) /\ SpaceOK(spaces'[h])
        /\ spaces'[g] = space /\ \A h \in SegID : h # g => spaces'[h] = spaces[h]
        /\ spaces[g].totalFree \in Int
    BY Bounds DEF IndInv, SpacesInv, TypeOK
  <1>2. Cardinality(FreeIn(spaces)) \in Nat
        /\ Cardinality(FreeIn(spaces')) =
             Cardinality(FreeIn(spaces)) + spaces'[g].totalFree - spaces[g].totalFree
    BY <1>1, OneSegment
  <1>3. Cardinality(FreeIn(spaces')) = Cardinality(FreeIn(spaces)) + d
    BY <1>1, <1>2
  <1>. QED
    BY <1>3 DEF TotalInv, FreeIn

(* A release that succeeds gives the segment n pages more. *)
LEMMA ReleaseCounts ==
  ASSUME NEW sp, sp.totalFree \in Int, NEW start, NEW n \in Int,
         ReleaseIn(sp, start, n).rc = "OK"
  PROVE  ReleaseIn(sp, start, n).space.totalFree = sp.totalFree + n
  BY DEF ReleaseIn

(* A release of init. *)
LEMMA LoadReleaseTotal ==
  ASSUME IndInv, IndInv', TotalInv, NEW run, LoadRelease(run),
         run.seg \in SegID, run.size \in Int
  PROVE  TotalInv'
  <1> DEFINE r == ReleaseIn(spaces[run.seg], run.start, run.size)
  <1>1. /\ spaces' = [spaces EXCEPT ![run.seg] = r.space]
        /\ totalFree' = totalFree + run.size
        /\ err' = IF r.rc = "OK" THEN err ELSE r.rc
    BY DEF LoadRelease
  <1>2. r.rc = "OK"
    <2>1. r.rc \in {"OK", "SYS"}
      BY DEF ReleaseIn
    <2>. QED
      BY <1>1, <2>1 DEF IndInv, NoInternalError
  <1>3. spaces[run.seg].totalFree \in Int
    BY Bounds DEF IndInv, TypeOK
  <1>4. r.space.totalFree = spaces[run.seg].totalFree + run.size
    BY <1>2, <1>3, ReleaseCounts
  <1> HIDE DEF r
  <1>. QED
    BY <1>1, <1>4, OneSegmentTotal

(* Every step keeps the total. *)
LEMMA NextTotalInv == IndInv /\ IndInv' /\ TotalInv /\ [Next]_vars => TotalInv'
  <1> SUFFICES ASSUME IndInv, IndInv', TotalInv, [Next]_vars PROVE TotalInv'
    OBVIOUS
  <1>1. ASSUME spaces' = spaces, totalFree' = totalFree PROVE TotalInv'
    BY <1>1 DEF TotalInv, FreeIn
  <1>2. CASE LoadPage
    <2>1. LoadRelease(ClosedRun) /\ Loading /\ loader.seg < loader.segs
      BY <1>2 DEF LoadPage
    <2>2. /\ loader.seg \in Nat /\ loader.segs \in Nat /\ loader.segs <= MaxSeg
          /\ loader.off \in Nat /\ loader.begin \in Nat
      BY Bounds DEF IndInv, TypeOK, Offset
    <2>3. ClosedRun.seg \in SegID /\ ClosedRun.size \in Int
      BY <2>1, <2>2, Bounds DEF ClosedRun, SegID
    <2>. QED
      BY <2>1, <2>3, LoadReleaseTotal
  <1>3. CASE LoadEnd
    <2> DEFINE last == [seg   |-> loader.segs - 1, start |-> loader.begin,
                        size  |-> SegPages - loader.begin]
    <2>1. CASE loader.segs > 0 /\ (SegPages - 1) \notin sme[loader.segs - 1]
      <3>1. LoadRelease(last)
        BY <1>3, <2>1 DEF LoadEnd
      <3>2. last.seg \in SegID /\ last.size \in Int
        <4>1. loader.segs \in 0 .. InitSeg /\ loader.begin \in Int
          BY Bounds DEF IndInv, TypeOK, Offset
        <4>. QED
          BY <2>1, <4>1, Bounds DEF SegID
      <3> HIDE DEF last
      <3>. QED
        BY <3>1, <3>2, LoadReleaseTotal
    <2>2. CASE ~(loader.segs > 0 /\ (SegPages - 1) \notin sme[loader.segs - 1])
      BY <1>1, <1>3, <2>2 DEF LoadEnd
    <2>. QED
      BY <2>1, <2>2
  <1>4. CASE DepositASegment
    <2> DEFINE r == ReleaseIn(EmptySpace, 0, SegPages)
    <2>1. /\ spaces' = [spaces EXCEPT ![segNum] = r.space]
          /\ totalFree' = totalFree + SegPages /\ segNum < MaxSeg /\ ~Loading
          /\ err' = IF r.rc = "OK" THEN err ELSE r.rc
      BY <1>4 DEF DepositASegment
    <2>2. segNum \in SegID /\ spaces[segNum] = EmptySpace
      <3>1. segNum \in SegID
        BY <2>1, Bounds DEF IndInv, TypeOK, SegID
      <3>. QED
        BY <3>1 DEF IndInv, TypeOK, SpacesInv
    <2>3. r.rc = "OK"
      <3>1. r.rc \in {"OK", "SYS"}
        BY DEF ReleaseIn
      <3>. QED
        BY <2>1, <3>1 DEF IndInv, NoInternalError
    <2>4. EmptySpace.totalFree \in Int
      BY DEF EmptySpace
    <2>5. r.space.totalFree = spaces[segNum].totalFree + SegPages
      BY <2>2, <2>3, <2>4, Bounds, ReleaseCounts
    <2> HIDE DEF r
    <2>6. SegPages \in Int
      BY Bounds
    <2>. QED
      BY ONLY IndInv, IndInv', TotalInv, <2>1, <2>2, <2>5, <2>6, OneSegmentTotal
  <1>5. ASSUME NEW s \in Session, ReserveHit(s) PROVE TotalInv'
    <2> DEFINE g == pos[s]
               n == req[s]
               r == ReserveIn(spaces[g], n)
    <2>1. /\ pc[s] = "scan" /\ g < segNum /\ r.rc # "NOSPC"
          /\ spaces' = [spaces EXCEPT ![g] = r.space]
          /\ totalFree' = IF r.rc = "OK" THEN totalFree - n ELSE totalFree
      BY <1>5 DEF ReserveHit
    <2>2. g \in SegID /\ n \in 1 .. SegPages /\ n \in Int /\ SpaceOK(spaces[g])
      BY <2>1, Bounds DEF IndInv, TypeOK, CallInv, SpacesInv, SegID
    <2> HIDE DEF g, n
    <2>3. r.rc = "OK" /\ r.space.totalFree = spaces[g].totalFree - n
      BY <2>1, <2>2, ReserveInCorrect
    <2>4. spaces[g].totalFree \in Int /\ totalFree \in Int
      BY <2>2, Bounds DEF IndInv, TypeOK
    <2> HIDE DEF r
    <2>5. /\ -n \in Int /\ totalFree' = totalFree + (-n)
          /\ r.space.totalFree = spaces[g].totalFree + (-n)
      BY <2>1, <2>2, <2>3, <2>4
    <2>. QED
      BY <2>1, <2>2, <2>5, OneSegmentTotal
  <1>6. ASSUME NEW s \in Session, NEW x \in held[s], ReleaseStep(s, x) PROVE TotalInv'
    <2> DEFINE g == x.seg
               r == ReleaseIn(spaces[g], x.start, x.size)
               ok == g < segNum /\ r.rc = "OK"
    <2>1. /\ spaces' = IF ok THEN [spaces EXCEPT ![g] = r.space] ELSE spaces
          /\ totalFree' = IF ok THEN totalFree + x.size ELSE totalFree
      BY <1>6 DEF ReleaseStep
    <2>2. g \in SegID /\ x.size \in Int /\ spaces[g].totalFree \in Int
      <3>1. x \in Extent
        BY <1>6 DEF IndInv, TypeOK
      <3>2. g \in SegID /\ x.size \in Int
        BY <3>1, Bounds DEF Extent
      <3>. QED
        BY <3>2, Bounds DEF IndInv, TypeOK
    <2>3. CASE ok
      <3>1. r.space.totalFree = spaces[g].totalFree + x.size
        BY <2>2, <2>3, ReleaseCounts
      <3>2. spaces' = [spaces EXCEPT ![g] = r.space] /\ totalFree' = totalFree + x.size
        BY <2>1, <2>3
      <3> HIDE DEF g, r, ok
      <3>. QED
        BY <2>2, <3>1, <3>2, OneSegmentTotal
    <2>4. CASE ~ok
      BY <1>1, <2>1, <2>4
    <2>. QED
      BY <2>3, <2>4
  <1>7. ASSUME NEW s \in Session, SessionNext(s) PROVE TotalInv'
    <2>1. CASE \E n \in 1 .. SegPages : ReserveBegin(s, n)
      BY <1>1, <2>1 DEF ReserveBegin, mgr
    <2>2. CASE ReserveMiss(s)
      BY <1>1, <2>2 DEF ReserveMiss
    <2>3. CASE ReserveNone(s)
      BY <1>1, <2>3 DEF ReserveNone, mgr
    <2>4. CASE ReleaseSwap(s)
      BY <1>1, <2>4 DEF ReleaseSwap
    <2>. QED
      BY <1>5, <1>6, <1>7, <2>1, <2>2, <2>3, <2>4 DEF SessionNext
  <1>8. CASE UNCHANGED vars
    BY <1>1, <1>8 DEF vars
  <1>. QED
    BY <1>2, <1>3, <1>4, <1>7, <1>8 DEF Next

(* No page is in a list before init has read the bitmap. *)
LEMMA InitTotalInv == Init => TotalInv
  <1> SUFFICES ASSUME Init PROVE TotalInv
    OBVIOUS
  <1>1. FreeIn(spaces) = {}
    <2>1. \A g \in SegID : ListPages(spaces[g].list) = {}
      BY EmptySpaceOK DEF Init
    <2>. QED
      BY <2>1 DEF FreeIn
  <1>. QED
    BY <1>1, FS_EmptySet DEF Init, TotalInv

(* Books: lists merged on both sides, _maxNode the largest node, every     *)
(* _totalFree the number of free pages it stands for, _freePos sound and   *)
(* no error branch met, between any two steps of any sessions.             *)
THEOREM BooksAreKept == Spec => []Books
  <1>1. IndInv /\ TotalInv => Books
    <2> SUFFICES ASSUME IndInv, TotalInv PROVE Books
      OBVIOUS
    <2>1. totalFree = Cardinality(FreePages)
      BY DEF TotalInv, FreeIn, FreePages
    <2>2. ASSUME NEW g \in SegID
          PROVE  /\ spaces[g].maxNode =
                      Max({spaces[g].list[i].size : i \in DOMAIN spaces[g].list} \cup {0})
                 /\ spaces[g].totalFree = Cardinality(ListPages(spaces[g].list))
      <3> DEFINE l == spaces[g].list
                 m == spaces[g].maxNode
      <3>1. GoodList(l) /\ MaxExact(l, m) /\ spaces[g].totalFree = Cardinality(ListPages(l))
        BY DEF IndInv, SpacesInv, SpaceOK
      <3> HIDE DEF l, m
      <3>2. MaxExact(l, ResetMax(l))
        BY <3>1, ResetMaxProperties
      <3>3. m = ResetMax(l)
        <4>1. /\ m \in Nat /\ ResetMax(l) \in Nat
              /\ \A i \in 1 .. Len(l) : l[i].size \in Nat /\ 1 <= l[i].size
          BY <3>1, <3>2, NodeTypes DEF GoodList, MaxExact
        <4>. QED
          BY <3>1, <3>2, <4>1 DEF MaxExact
      <3>. QED
        BY <3>1, <3>3 DEF ResetMax, l, m
    <2>3. CountersExact
      BY <2>1, <2>2 DEF CountersExact
    <2>4. Coalesced
      BY DEF IndInv, SpacesInv, SpaceOK, GoodList, Coalesced
    <2>. QED
      BY <2>3, <2>4 DEF IndInv, Books
  <1>2. Spec => []TotalInv
    <2>1. IndInv /\ IndInv' /\ TotalInv /\ [Next]_vars => TotalInv'
      BY NextTotalInv
    <2>. QED
      BY <2>1, InitTotalInv, AlwaysIndInv, PTL DEF Spec
  <1>. QED
    BY <1>1, <1>2, AlwaysIndInv, PTL

-----------------------------------------------------------------------------
(* A run of free pages lies inside one node of a coalesced list. *)
LEMMA RunInOneNode ==
  ASSUME NEW l, GoodList(l), NEW b \in Nat, NEW n \in Nat, 1 <= n,
         b .. b + n - 1 \subseteq ListPages(l)
  PROVE  \E i \in 1 .. Len(l) : l[i].size >= n
  <1>1. l \in Seq(Node)
    BY DEF GoodList
  <1>2. /\ DOMAIN l = 1 .. Len(l) /\ Len(l) \in Nat
        /\ \A i \in 1 .. Len(l) : l[i].start \in Nat /\ l[i].size \in Nat
    BY <1>1, NodeTypes
  <1>3. \A y \in b .. b + n - 1 : \E i \in 1 .. Len(l) :
          l[i].start <= y /\ y < l[i].start + l[i].size
    <2> SUFFICES ASSUME NEW y \in b .. b + n - 1
                 PROVE  \E i \in 1 .. Len(l) : l[i].start <= y /\ y < l[i].start + l[i].size
      OBVIOUS
    <2>1. y \in Int /\ y \in ListPages(l)
      OBVIOUS
    <2>. QED
      BY <1>1, <2>1, InListPages
  <1>4. b \in b .. b + n - 1
    OBVIOUS
  <1>5. PICK i \in 1 .. Len(l) : l[i].start <= b /\ b < l[i].start + l[i].size
    BY <1>3, <1>4
  <1>6. ASSUME l[i].size < n PROVE FALSE
    <2>1. l[i].start + l[i].size \in b .. b + n - 1
      BY <1>2, <1>5, <1>6
    <2>2. PICK j \in 1 .. Len(l) : /\ l[j].start <= l[i].start + l[i].size
                                   /\ l[i].start + l[i].size < l[j].start + l[j].size
      BY <1>3, <2>1
    <2>3. /\ i < j => l[i].start + l[i].size < l[j].start
          /\ j < i => l[j].start + l[j].size < l[i].start
      BY <1>2 DEF GoodList, Separated
    <2>4. CASE i < j
      BY <1>2, <2>2, <2>3, <2>4
    <2>5. CASE j < i
      BY <1>2, <2>2, <2>3, <2>5
    <2>6. CASE i = j
      BY <1>2, <2>2, <2>6
    <2>. QED
      BY <2>4, <2>5, <2>6
  <1>. QED
    BY <1>2, <1>6

(* Space that is free is found: once no call is in progress, a search from *)
(* _freePos succeeds whenever some segment has that many contiguous pages. *)
THEOREM FreeSpaceIsFound == Spec => []NoHiddenSpace
  <1>1. IndInv => NoHiddenSpace
    <2> SUFFICES ASSUME IndInv, ~Loading, \A s \in Session : pc[s] = "idle",
                        NEW g \in 0 .. segNum - 1, NEW b \in Offset,
                        NEW n \in 1 .. SegPages, b + n <= SegPages,
                        b .. b + n - 1 \subseteq Offset \ sme[g]
                 PROVE  \E h \in freePos .. segNum - 1 :
                          ReserveIn(spaces[h], n).rc = "OK"
      BY DEF NoHiddenSpace
    <2>1. /\ segNum \in 0 .. MaxSeg /\ freePos \in 0 .. segNum
          /\ b \in Nat /\ n \in Nat /\ 1 <= n
      BY Bounds DEF IndInv, TypeOK, Offset
    <2>2. g \in SegID
      BY <2>1, Bounds DEF SegID
    <2>3. SpaceOK(spaces[g]) /\ GoodList(spaces[g].list)
      BY <2>2 DEF IndInv, SpacesInv, SpaceOK
    <2>4. b .. b + n - 1 \subseteq ListPages(spaces[g].list)
      BY DEF IndInv, FreeListExact
    <2>5. \E i \in 1 .. Len(spaces[g].list) : spaces[g].list[i].size >= n
      BY <2>1, <2>3, <2>4, RunInOneNode
    <2>6. ReserveIn(spaces[g], n).rc = "OK"
      BY ONLY <2>3, <2>5, n \in 1 .. SegPages, ReserveInCorrect
    <2>7. spaces[g].totalFree # 0
      <3>1. b \in ListPages(spaces[g].list)
        BY <2>1, <2>4
      <3>2. IsFiniteSet(ListPages(spaces[g].list))
        BY <2>3, ListPagesFinite
      <3>3. Cardinality(ListPages(spaces[g].list)) # 0
        BY <3>1, <3>2, FS_EmptySet
      <3>. QED
        BY <2>3, <3>3 DEF SpaceOK
    <2>8. ~(g \in 0 .. freePos - 1)
      BY <2>7 DEF IndInv, FreePosSound
    <2>9. g \in freePos .. segNum - 1
      BY <2>1, <2>8
    <2>. QED
      BY <2>6, <2>9
  <1>. QED
    BY <1>1, AlwaysIndInv, PTL

-----------------------------------------------------------------------------
(* A step of the manager is a step of the allocator, or changes nothing    *)
(* the allocator's callers see.                                            *)
LEMMA StepImplements == IndInv /\ [Next]_vars => [Allocator!Next]_(Allocator!vars)
  <1> SUFFICES ASSUME IndInv, [Next]_vars
               PROVE  Allocator!Next \/ UNCHANGED Allocator!vars
    OBVIOUS
  <1> USE DEF Allocator!vars
  <1>1. CASE LoadPage
    <2>1. /\ sme' = sme /\ held' = held /\ Loading /\ Loading'
          /\ loader'.segs = loader.segs
      BY <1>1 DEF LoadPage, disk, Loading, IndInv, TypeOK
    <2>. QED
      BY <2>1
  <1>2. CASE LoadEnd
    <2>1. /\ sme' = sme /\ held' = held /\ Loading /\ ~Loading'
          /\ loader.seg = loader.segs /\ segNum' = segNum
      BY <1>2 DEF LoadEnd, disk, Loading, Running
    <2>2. segNum = loader.segs
      BY <2>1 DEF IndInv, LoadInv, CurSeg, TypeOK
    <2>. QED
      BY <2>1, <2>2
  <1>3. CASE DepositASegment
    <2>1. /\ sme' = sme /\ held' = held /\ ~Loading /\ ~Loading'
          /\ segNum < MaxSeg /\ segNum' = segNum + 1
      BY <1>3 DEF DepositASegment, disk, Loading
    <2>2. Allocator!Grow
      BY <2>1 DEF Allocator!Grow
    <2>. QED
      BY <2>2 DEF Allocator!Next
  <1>4. ASSUME NEW s \in Session, SessionNext(s)
        PROVE  Allocator!Next \/ UNCHANGED Allocator!vars
    <2>0. loader' = loader /\ segNum' = segNum
      BY <1>4 DEF SessionNext, ReserveBegin, ReserveMiss, ReserveHit, ReserveNone,
                  ReleaseStep, ReleaseSwap, mgr
    <2>1. ASSUME NEW n \in 1 .. SegPages, ReserveBegin(s, n) PROVE UNCHANGED Allocator!vars
      BY <2>0, <2>1 DEF ReserveBegin, disk, Loading
    <2>2. CASE ReserveMiss(s)
      BY <2>0, <2>2 DEF ReserveMiss, disk, Loading
    <2>3. CASE ReserveHit(s)
      <3> DEFINE g == pos[s]
                 n == req[s]
                 r == ReserveIn(spaces[g], n)
                 bits == r.start .. r.start + n - 1
                 x == [seg |-> g, start |-> r.start, size |-> n]
      <3> HIDE DEF r, bits, x
      <3>1. /\ ~Loading /\ g < segNum /\ g \in SegID /\ n \in 1 .. SegPages
            /\ r.start \in Offset /\ bits \subseteq Offset \ sme[g]
        BY <2>3, ReserveHitEffect DEF r, bits, x
      <3>2. /\ sme' = [sme EXCEPT ![g] = @ \cup bits]
            /\ held' = [held EXCEPT ![s] = @ \cup {x}]
        BY <2>3, ReserveHitEffect DEF r, bits, x
      <3>3. x.seg = g /\ Allocator!Run(x) = bits
        BY DEF x, bits, Allocator!Run
      <3>4. ~Loading'
        BY <2>0, <3>1 DEF Loading
      <3>5. Allocator!Reserve(s, x)
        BY <2>0, <3>1, <3>2, <3>3, <3>4 DEF Allocator!Reserve, Allocator!Offset, Offset
      <3>. QED
        BY <3>1, <3>5 DEF Allocator!Next, Allocator!SegID, Allocator!Offset, SegID,
                          Offset, x
    <2>4. CASE ReserveNone(s)
      BY <2>0, <2>4 DEF ReserveNone, disk, Loading
    <2>5. ASSUME NEW x \in held[s], ReleaseStep(s, x) PROVE Allocator!Next
      <3> DEFINE g == x.seg
                 r == ReleaseIn(spaces[g], x.start, x.size)
                 bits == x.start .. x.start + x.size - 1
      <3> HIDE DEF r, bits
      <3>1. /\ ~Loading /\ sme' = [sme EXCEPT ![g] = @ \ bits]
            /\ held' = [held EXCEPT ![s] = @ \ {x}]
        BY <2>5, ReleaseStepEffect DEF r, bits
      <3>2. Allocator!Run(x) = bits
        BY DEF bits, Allocator!Run
      <3>3. ~Loading'
        BY <2>0, <3>1 DEF Loading
      <3>4. Allocator!Release(s, x)
        BY <2>0, <2>5, <3>1, <3>2, <3>3 DEF Allocator!Release
      <3>. QED
        BY <3>4 DEF Allocator!Next
    <2>6. CASE ReleaseSwap(s)
      BY <2>0, <2>6 DEF ReleaseSwap, disk, Loading
    <2>. QED
      BY <1>4, <2>1, <2>2, <2>3, <2>4, <2>5, <2>6, SMTT(30) DEF SessionNext
  <1>5. CASE UNCHANGED vars
    BY <1>5 DEF vars, Loading
  <1>. QED
    BY <1>1, <1>2, <1>3, <1>4, <1>5 DEF Next

(* The manager with its free lists, its search position and its concurrent *)
(* calls implements the page allocator.                                    *)
THEOREM ImplementsAllocator == Spec => AllocatorSpec
  <1>1. Init => Allocator!Init
    <2> SUFFICES ASSUME Init PROVE Allocator!Init
      OBVIOUS
    <2>1. PICK n \in 0 .. InitSeg :
            /\ loader = [mode |-> "loading", segs |-> n, seg |-> 0, off |-> 0,
                         begin |-> 0, inUse |-> FALSE]
            /\ sme \in [SegID -> SUBSET Offset]
            /\ \A g \in SegID : g >= n => sme[g] = {}
      BY DEF Init
    <2>2. Loading /\ loader.segs = n
      BY <2>1 DEF Loading
    <2>3. held = [s \in Session |-> {}]
      BY DEF Init
    <2>. QED
      BY <2>1, <2>2, <2>3 DEF Allocator!Init, Allocator!SegID, Allocator!Offset,
                              SegID, Offset
  <1>2. IndInv /\ [Next]_vars => [Allocator!Next]_(Allocator!vars)
    BY StepImplements
  <1>. QED
    BY <1>1, <1>2, AlwaysIndInv, PTL DEF Spec, AllocatorSpec, Allocator!Spec

=============================================================================
