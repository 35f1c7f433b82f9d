-------------------------- MODULE SegmentPoolProofs --------------------------
(***************************************************************************)
(* What is true of the block pool and its segment pools for any threads,   *)
(* managers, pools and segment size: lists, flags and counters of a pool   *)
(* agree after every acquire, release, expansion and shrink, objects in    *)
(* use are never freed, and the handler's total and limit are kept.        *)
(***************************************************************************)
EXTENDS SegmentPool, FiniteSetTheorems, SequenceTheorems,
        WellFoundedInduction, TLAPS

(* Who expands or shrinks a pool has its latch, and a latch is held across *)
(* steps by nobody else.                                                   *)
Inside == {"expand", "shrink"}
LatchInv ==
  /\ \A t \in Thread : th[t].at \in Inside => latch[th[t].pool] = t
  /\ \A p \in Pool : latch[p] # NoThread =>
       th[latch[p]].at \in Inside /\ th[latch[p]].pool = p

(* acquire has tries left when it picks a pool. *)
TriesInv == \A t \in Thread : th[t].at = "pick" => th[t].tries <= P

(* The handler's total, with what makes the number of objects a number. *)
TotalInv == IsFiniteSet(Objects) /\ TotalExact

(* The pools that passed canAllocSegment and have not told onAllocSegment. *)
Expanding == {p \in Pool : latch[p] # NoThread /\ th[latch[p]].at = "expand"}

(* Each of them may bring another segment beyond the limit: that much is   *)
(* counted already when it passes.                                         *)
LimitInv ==
  sets = 0 =>
    /\ setting = 0
    /\ \A p \in Pool : numOfObjs[p] <= maxObjs[p]
    /\ \/ total = 0 /\ Expanding = {}
       \/ total + Cardinality(Expanding) * Delta < maxSize + (M * P - 1) * Delta

IInv == TypeOK /\ LatchInv /\ TriesInv /\ ListExact /\ HeldSafe /\ TotalInv /\ LimitInv

-----------------------------------------------------------------------------
(* A nonempty set of numbers below a bound has a greatest element: what is *)
(* left of the bound has a least one.                                      *)
LEMMA MaxOfNats ==
  ASSUME NEW S \in SUBSET Nat, S # {}, NEW n \in Nat, \A x \in S : x < n
  PROVE  Max(S) \in S /\ \A y \in S : y <= Max(S)
  <1> DEFINE U == {u \in Nat : \E x \in S : u = n - x}
  <1>1. U # {} /\ U \subseteq Nat
    <2>1. PICK x \in S : TRUE
      OBVIOUS
    <2>2. n - x \in U
      OBVIOUS
    <2> QED
      BY <2>2
  <1>2. PICK u \in U : \A v \in U : ~(<<v, u>> \in OpToRel(<, Nat))
    <2> HIDE DEF U
    <2> QED
      BY <1>1, NatLessThanWellFounded, WFMin
  <1>3. ASSUME NEW v \in U PROVE u <= v
    <2>1. <<v, u>> \in {ss \in Nat \X Nat : ss[1] < ss[2]} <=> v < u
      OBVIOUS
    <2>2. <<v, u>> \notin {ss \in Nat \X Nat : ss[1] < ss[2]}
      BY <1>2 DEF OpToRel
    <2> QED
      BY <2>1, <2>2
  <1>4. PICK m \in S : u = n - m
    OBVIOUS
  <1>5. ASSUME NEW y \in S PROVE m >= y
    <2>1. n - y \in U
      OBVIOUS
    <2>2. u <= n - y
      BY <2>1, <1>3
    <2> QED
      BY <2>2, <1>4
  <1> QED
    BY <1>5 DEF Max

(* Ascending lists a finite set of numbers, each element once: the rank of *)
(* an element is injective, and so takes every value.                      *)
LEMMA AscendingLists ==
  ASSUME NEW S \in SUBSET Nat, IsFiniteSet(S)
  PROVE  /\ Ascending(S) \in Seq(Nat)
         /\ ToSet(Ascending(S)) = S
         /\ IsInjective(Ascending(S))
  <1> DEFINE below(x) == {y \in S : y < x}
             n == Cardinality(S)
             r == [x \in S |-> Cardinality(below(x)) + 1]
  <1>1. n \in Nat
    BY FS_CardinalityType
  <1>2. ASSUME NEW x \in S
        PROVE  /\ IsFiniteSet(below(x)) /\ Cardinality(below(x)) \in Nat
               /\ Cardinality(below(x)) + 1 <= n
    <2>1. below(x) \in SUBSET (S \ {x})
      OBVIOUS
    <2>2. IsFiniteSet(S \ {x}) /\ Cardinality(S \ {x}) = n - 1
      BY FS_RemoveElement
    <2>3. IsFiniteSet(below(x)) /\ Cardinality(below(x)) <= n - 1
      BY <2>1, <2>2, FS_Subset
    <2>4. Cardinality(below(x)) \in Nat
      BY <2>3, FS_CardinalityType
    <2> QED
      BY <2>3, <2>4, <1>1
  <1>3. ASSUME NEW x \in S, NEW z \in S, x < z
        PROVE  Cardinality(below(x)) < Cardinality(below(z))
    <2>1. below(x) \cup {x} \in SUBSET below(z) /\ x \notin below(x)
      <3>1. x \in Nat /\ z \in Nat /\ ~(x < x)
        OBVIOUS
      <3>2. \A y \in S : y < x => y < z
        BY <1>3
      <3> QED
        BY <3>1, <3>2, <1>3
    <2>2. Cardinality(below(x) \cup {x}) = Cardinality(below(x)) + 1
      BY <1>2, <2>1, FS_AddElement
    <2>3. Cardinality(below(x) \cup {x}) <= Cardinality(below(z))
      BY <1>2, <2>1, FS_Subset
    <2> QED
      BY <2>2, <2>3, <1>2
  <1>4. \A x, z \in S : Cardinality(below(x)) = Cardinality(below(z)) => x = z
    BY <1>2, <1>3
  <1>5. r \in Injection(S, 1 .. n)
    <2>1. r \in [S -> 1 .. n]
      BY <1>1, <1>2
    <2>2. \A x, z \in S : r[x] = r[z] => x = z
      BY <1>2, <1>4, SMTT(30)
    <2> HIDE DEF r
    <2> QED
      BY <2>1, <2>2 DEF Injection, IsInjective
  <1>6. IsFiniteSet(1 .. n) /\ Cardinality(1 .. n) = n
    BY <1>1, FS_Interval
  <1>7. r \in Surjection(S, 1 .. n)
    <2> HIDE DEF r
    <2> QED
      BY <1>5, <1>6, FS_Injection
  <1>8. \A i \in 1 .. n : \E x \in S : Cardinality(below(x)) = i - 1
    <2>1. \A i \in 1 .. n : \E x \in S : r[x] = i
      <3> HIDE DEF r
      <3> QED
        BY <1>7 DEF Surjection
    <2>2. \A x \in S : r[x] = Cardinality(below(x)) + 1
      OBVIOUS
    <2> HIDE DEF r, below
    <2> QED
      BY <2>1, <2>2, <1>1, <1>2
  <1> DEFINE a == Ascending(S)
  <1>9. /\ DOMAIN a = 1 .. n
        /\ \A i \in 1 .. n : a[i] \in S /\ Cardinality(below(a[i])) = i - 1
    BY <1>8 DEF Ascending
  <1>10. a \in Seq(Nat) /\ Len(a) = n
    <2>1. a = [i \in 1 .. n |-> a[i]]
      BY SMTT(30) DEF Ascending
    <2> HIDE DEF a
    <2>2. a \in [1 .. n -> Nat]
      BY <2>1, <1>9
    <2> QED
      BY <2>2, <1>1, SeqDef, LenProperties
  <1>11. ToSet(a) = S
    <2>1. ToSet(a) \subseteq S
      BY <1>9 DEF ToSet
    <2>2. ASSUME NEW x \in S PROVE x \in ToSet(a)
      <3>1. Cardinality(below(x)) + 1 \in 1 .. n
        BY <1>1, <1>2
      <3> DEFINE i == Cardinality(below(x)) + 1
      <3> HIDE DEF a
      <3>2. a[i] = x
        <4>1. i \in 1 .. n /\ Cardinality(below(x)) = i - 1
          BY <3>1, <1>2
        <4> HIDE DEF i, below
        <4>2. a[i] \in S /\ Cardinality(below(a[i])) = Cardinality(below(x))
          BY <4>1, <1>9
        <4> QED
          BY <4>2, <1>4
      <3> QED
        BY <3>1, <3>2, <1>9 DEF ToSet
    <2> QED
      BY <2>1, <2>2
  <1>12. IsInjective(a)
    <2> HIDE DEF a
    <2>1. ASSUME NEW i \in 1 .. n, NEW j \in 1 .. n, a[i] = a[j]
          PROVE  i = j
      <3>1. Cardinality(below(a[i])) = i - 1 /\ Cardinality(below(a[j])) = j - 1
        BY <1>9
      <3> HIDE DEF below
      <3> QED
        BY <3>1, <2>1, <1>1
    <2> QED
      BY <2>1, <1>9 DEF IsInjective
  <1> QED
    BY <1>10, <1>11, <1>12

-----------------------------------------------------------------------------
(* ListExact of one pool: its list from _begin on, its objects in use, and *)
(* the two counters.                                                       *)
Exact(f, u, b, n) ==
  /\ f \in Seq(Nat) /\ n \in Nat
  /\ ToSet(f) \cup u = 0 .. n - 1 /\ ToSet(f) \cap u = {}
  /\ IsInjective(f) /\ b = Cardinality(u)

LEMMA ListExactByPool ==
  ASSUME TypeOK
  PROVE  ListExact <=> \A p \in Pool : Exact(free[p], used[p], begin[p], numOfObjs[p])
  BY DEF TypeOK, ListExact, Exact

LEMMA UsedFinite ==
  ASSUME NEW f, NEW u, NEW b, NEW n, Exact(f, u, b, n)
  PROVE  /\ IsFiniteSet(u) /\ b \in Nat /\ u \in SUBSET Nat
         /\ \A x \in u : x < n
         /\ b > 0 <=> u # {}
         /\ b <= n
         /\ b < n => f # <<>>
  <1>1. u \in SUBSET (0 .. n - 1) /\ n \in Nat
    BY DEF Exact
  <1>2. IsFiniteSet(0 .. n - 1) /\ Cardinality(0 .. n - 1) = n
    <2>1. n - 1 \in Int /\ 0 \in Int /\ (0 > n - 1 <=> n = 0)
      BY <1>1
    <2>2. /\ IsFiniteSet(0 .. n - 1)
          /\ Cardinality(0 .. n - 1) = IF 0 > n - 1 THEN 0 ELSE (n - 1) - 0 + 1
      BY <2>1, FS_Interval
    <2> QED
      BY <2>1, <2>2, <1>1
  <1>3. IsFiniteSet(u) /\ Cardinality(u) <= n
    BY <1>1, <1>2, FS_Subset
  <1>4. Cardinality(u) \in Nat /\ (Cardinality(u) = 0 <=> u = {})
    BY <1>3, FS_CardinalityType, FS_EmptySet
  <1>5. ASSUME f = <<>> PROVE b = n
    <2>1. ToSet(f) = {}
      BY <1>5 DEF ToSet
    <2> QED
      BY <2>1, <1>2 DEF Exact
  <1> QED
    BY <1>1, <1>3, <1>4, <1>5 DEF Exact

(* acquire takes the first object of the list. *)
LEMMA TakeExact ==
  ASSUME NEW f, NEW u, NEW b, NEW n, Exact(f, u, b, n), f # <<>>
  PROVE  /\ Exact(Tail(f), u \cup {Head(f)}, b + 1, n)
         /\ Head(f) \in Nat /\ Head(f) \notin u /\ Head(f) < n
  <1>1. f \in Seq(Nat) /\ Len(f) \in Nat /\ Len(f) > 0 /\ DOMAIN f = 1 .. Len(f)
    BY DEF Exact
  <1>2. /\ Tail(f) \in Seq(Nat) /\ DOMAIN Tail(f) = 1 .. Len(f) - 1
        /\ \A i \in 1 .. Len(f) - 1 : Tail(f)[i] = f[i + 1]
    BY <1>1
  <1>3. Head(f) = f[1] /\ f[1] \in ToSet(f) /\ f[1] \in Nat
    BY <1>1 DEF ToSet
  <1>4. \A i, j \in 1 .. Len(f) : f[i] = f[j] => i = j
    BY <1>1 DEF Exact, IsInjective
  <1>5. ToSet(Tail(f)) = ToSet(f) \ {f[1]}
    <2>1. ASSUME NEW x \in ToSet(Tail(f)) PROVE x \in ToSet(f) \ {f[1]}
      <3>1. PICK i \in 1 .. Len(f) - 1 : x = f[i + 1]
        BY <1>2 DEF ToSet
      <3>2. i + 1 \in 1 .. Len(f) /\ i + 1 # 1
        BY <1>1
      <3> QED
        BY <3>1, <3>2, <1>1, <1>4 DEF ToSet
    <2>2. ASSUME NEW x \in ToSet(f) \ {f[1]} PROVE x \in ToSet(Tail(f))
      <3>1. PICK i \in 1 .. Len(f) : x = f[i]
        BY <1>1 DEF ToSet
      <3>2. i - 1 \in 1 .. Len(f) - 1 /\ Tail(f)[i - 1] = x
        BY <3>1, <2>2, <1>1, <1>2
      <3> QED
        BY <3>2, <1>2 DEF ToSet
    <2> QED
      BY <2>1, <2>2
  <1>6. IsInjective(Tail(f))
    <2>1. \A i, j \in 1 .. Len(f) - 1 : f[i + 1] = f[j + 1] => i = j
      BY <1>1, <1>4
    <2> QED
      BY <2>1, <1>2 DEF IsInjective
  <1>7. f[1] \notin u /\ f[1] < n
    BY <1>3 DEF Exact
  <1>8. Cardinality(u \cup {f[1]}) = b + 1
    BY <1>7, UsedFinite, FS_AddElement DEF Exact
  <1> QED
    BY <1>2, <1>3, <1>5, <1>6, <1>7, <1>8 DEF Exact

(* release puts an object in front of the list. *)
LEMMA PutExact ==
  ASSUME NEW f, NEW u, NEW b, NEW n, Exact(f, u, b, n), NEW x \in u
  PROVE  Exact(<<x>> \o f, u \ {x}, b - 1, n)
  <1> DEFINE g == <<x>> \o f
  <1>1. f \in Seq(Nat) /\ Len(f) \in Nat /\ DOMAIN f = 1 .. Len(f) /\ x \in Nat
    BY UsedFinite DEF Exact
  <1>2. /\ g \in Seq(Nat) /\ DOMAIN g = 1 .. Len(f) + 1
        /\ g[1] = x /\ \A i \in 1 .. Len(f) : g[i + 1] = f[i]
    BY <1>1
  <1> HIDE DEF g
  <1>3. x \notin ToSet(f)
    BY DEF Exact
  <1>4. ToSet(g) = ToSet(f) \cup {x}
    <2>1. ASSUME NEW y \in ToSet(g) PROVE y \in ToSet(f) \cup {x}
      <3>1. PICK i \in 1 .. Len(f) + 1 : y = g[i]
        BY <1>2 DEF ToSet
      <3>2. CASE i = 1
        BY <3>1, <3>2, <1>2
      <3>3. CASE i # 1
        <4>1. i - 1 \in 1 .. Len(f) /\ y = f[i - 1]
          BY <3>1, <3>3, <1>1, <1>2
        <4> QED
          BY <4>1, <1>1 DEF ToSet
      <3> QED
        BY <3>2, <3>3
    <2>2. x \in ToSet(g)
      <3>1. 1 \in DOMAIN g
        BY <1>1, <1>2
      <3> QED
        BY <3>1, <1>2 DEF ToSet
    <2>3. ASSUME NEW y \in ToSet(f) PROVE y \in ToSet(g)
      <3>1. PICK i \in 1 .. Len(f) : y = f[i]
        BY <1>1 DEF ToSet
      <3>2. i + 1 \in 1 .. Len(f) + 1 /\ y = g[i + 1]
        BY <3>1, <1>1, <1>2
      <3> QED
        BY <3>2, <1>2 DEF ToSet
    <2> QED
      BY <2>1, <2>2, <2>3
  <1>5. IsInjective(g)
    <2>1. \A i \in 1 .. Len(f) : f[i] # x
      BY <1>1, <1>3 DEF ToSet
    <2>2. \A i, j \in 1 .. Len(f) : f[i] = f[j] => i = j
      BY <1>1 DEF Exact, IsInjective
    <2>3. ASSUME NEW i \in 1 .. Len(f) + 1, i # 1
          PROVE  i - 1 \in 1 .. Len(f) /\ g[i] = f[i - 1]
      <3>1. i - 1 \in 1 .. Len(f) /\ (i - 1) + 1 = i
        BY <1>1, <2>3
      <3> QED
        BY <3>1, <1>2
    <2>4. ASSUME NEW i \in 1 .. Len(f) + 1, NEW j \in 1 .. Len(f) + 1, g[i] = g[j]
          PROVE  i = j
      <3>1. CASE i = 1 \/ j = 1
        BY <3>1, <2>1, <2>3, <2>4, <1>2
      <3>2. CASE i # 1 /\ j # 1
        <4>1. i - 1 = j - 1
          BY <3>2, <2>2, <2>3, <2>4
        <4> QED
          BY <4>1, <1>1
      <3> QED
        BY <3>1, <3>2
    <2> QED
      BY <2>4, <1>2 DEF IsInjective
  <1>6. Cardinality(u \ {x}) = b - 1
    BY UsedFinite, FS_RemoveElement DEF Exact
  <1> QED
    BY <1>2, <1>4, <1>5, <1>6 DEF Exact, g

(* _expandList appends the objects of a new segment. *)
LEMMA GrowExact ==
  ASSUME NEW f, NEW u, NEW b, NEW n, Exact(f, u, b, n), NEW d \in Nat \ {0}
  PROVE  LET g == f \o [i \in 1 .. d |-> n + i - 1]
         IN  Exact(g, u, b, n + d) /\ g # <<>>
  <1> DEFINE h == [i \in 1 .. d |-> n + i - 1]
             g == f \o h
  <1>1. f \in Seq(Nat) /\ Len(f) \in Nat /\ DOMAIN f = 1 .. Len(f) /\ n \in Nat
    BY DEF Exact
  <1>2. h \in Seq(Nat) /\ Len(h) = d /\ \A i \in 1 .. d : h[i] = n + i - 1
    <2>1. h \in [1 .. d -> Nat] /\ d \in Nat
      BY <1>1
    <2>2. \A i \in 1 .. d : h[i] = n + i - 1
      OBVIOUS
    <2> HIDE DEF h
    <2> QED
      BY <2>1, <2>2, SeqDef, LenProperties
  <1> HIDE DEF h
  <1>3. /\ g \in Seq(Nat) /\ DOMAIN g = 1 .. Len(f) + d
        /\ \A i \in 1 .. Len(f) : g[i] = f[i]
        /\ \A i \in 1 .. Len(f) + d : i > Len(f) => g[i] = n + (i - Len(f)) - 1
    <2>1. g \in Seq(Nat) /\ Len(g) = Len(f) + d /\ DOMAIN g = 1 .. Len(f) + d
      BY <1>1, <1>2
    <2>2. \A i \in 1 .. Len(f) : g[i] = f[i]
      BY <1>1, <1>2
    <2>3. ASSUME NEW i \in 1 .. Len(f) + d, i > Len(f)
          PROVE  g[i] = n + (i - Len(f)) - 1
      <3>1. g[i] = h[i - Len(f)] /\ i - Len(f) \in 1 .. d
        BY <2>3, <1>1, <1>2
      <3> QED
        BY <3>1, <1>2
    <2> QED
      BY <2>1, <2>2, <2>3
  <1> HIDE DEF g
  <1>4. \A x \in ToSet(f) : x \in 0 .. n - 1
    BY DEF Exact
  <1>5. ToSet(g) = ToSet(f) \cup (n .. n + d - 1)
    <2>1. ASSUME NEW x \in ToSet(g) PROVE x \in ToSet(f) \cup (n .. n + d - 1)
      <3>1. PICK i \in 1 .. Len(f) + d : x = g[i]
        BY <1>3 DEF ToSet
      <3>2. CASE i <= Len(f)
        <4>1. i \in DOMAIN f /\ x = f[i]
          BY <3>1, <3>2, <1>1, <1>3
        <4> QED
          BY <4>1 DEF ToSet
      <3>3. CASE i > Len(f)
        BY <3>1, <3>3, <1>1, <1>3
      <3> QED
        BY <3>2, <3>3, <1>1
    <2>2. ASSUME NEW x \in ToSet(f) PROVE x \in ToSet(g)
      <3>1. PICK i \in 1 .. Len(f) : x = f[i]
        BY <1>1 DEF ToSet
      <3>2. i \in 1 .. Len(f) + d /\ x = g[i]
        BY <3>1, <1>1, <1>3
      <3> QED
        BY <3>2, <1>3 DEF ToSet
    <2>3. ASSUME NEW x \in n .. n + d - 1 PROVE x \in ToSet(g)
      <3> DEFINE i == Len(f) + (x - n) + 1
      <3>1. i \in 1 .. Len(f) + d /\ i > Len(f) /\ n + (i - Len(f)) - 1 = x
        BY <1>1
      <3> HIDE DEF i
      <3>2. x = g[i]
        BY <3>1, <1>3
      <3> QED
        BY <3>1, <3>2, <1>3 DEF ToSet
    <2> QED
      BY <2>1, <2>2, <2>3
  <1>6. IsInjective(g)
    <2>1. ASSUME NEW i \in 1 .. Len(f) + d, NEW j \in 1 .. Len(f) + d, g[i] = g[j]
          PROVE  i = j
      <3>1. \A k \in 1 .. Len(f) : f[k] \in 0 .. n - 1
        BY <1>1, <1>4 DEF ToSet
      <3>2. CASE i <= Len(f) /\ j <= Len(f)
        <4>1. i \in 1 .. Len(f) /\ j \in 1 .. Len(f) /\ f[i] = f[j]
          BY <3>2, <2>1, <1>1, <1>3
        <4> QED
          BY <4>1, <1>1 DEF Exact, IsInjective
      <3>3. CASE i > Len(f) /\ j > Len(f)
        <4>1. n + (i - Len(f)) - 1 = n + (j - Len(f)) - 1
          BY <3>3, <2>1, <1>3
        <4> QED
          BY <4>1, <1>1
      <3>4. \A k, l \in 1 .. Len(f) + d : k <= Len(f) /\ l > Len(f) => g[k] # g[l]
        <4> SUFFICES ASSUME NEW k \in 1 .. Len(f) + d, NEW l \in 1 .. Len(f) + d,
                            k <= Len(f), l > Len(f)
                     PROVE  g[k] # g[l]
          OBVIOUS
        <4>1. g[k] \in 0 .. n - 1
          <5>1. k \in 1 .. Len(f)
            BY <1>1
          <5> QED
            BY <5>1, <3>1, <1>3
        <4>2. g[l] = n + (l - Len(f)) - 1
          BY <1>3
        <4> QED
          BY <4>1, <4>2, <1>1
      <3> QED
        BY <3>2, <3>3, <3>4, <2>1, <1>1
    <2> QED
      BY <2>1, <1>3 DEF IsInjective
  <1>7. ToSet(g) \cup u = 0 .. (n + d) - 1 /\ ToSet(g) \cap u = {}
    <2>1. \A x \in u : x \in 0 .. n - 1
      BY DEF Exact
    <2>2. 0 .. (n + d) - 1 = (0 .. n - 1) \cup (n .. n + d - 1)
      BY <1>1
    <2>3. (n .. n + d - 1) \cap (0 .. n - 1) = {}
      BY <1>1
    <2> QED
      BY <2>1, <2>2, <2>3, <1>5 DEF Exact
  <1>8. g # <<>>
    <2>1. 1 \in DOMAIN g
      BY <1>1, <1>3
    <2> QED
      BY <2>1
  <1>9. Exact(g, u, b, n + d)
    BY <1>1, <1>3, <1>6, <1>7 DEF Exact
  <1> QED
    BY <1>8, <1>9 DEF g, h

(* shrink keeps the free objects below the new size. *)
LEMMA ShrinkExact ==
  ASSUME NEW f, NEW u, NEW b, NEW n, Exact(f, u, b, n),
         NEW m \in Nat, m <= n, \A x \in u : x < m
  PROVE  Exact(Ascending({i \in ToSet(f) : i < m}), u, b, m)
  <1> DEFINE S == {i \in ToSet(f) : i < m}
  <1>1. ToSet(f) \cup u = 0 .. n - 1 /\ n \in Nat
    BY DEF Exact
  <1>2. S \in SUBSET (0 .. n - 1) /\ S \in SUBSET Nat
    BY <1>1
  <1>3. IsFiniteSet(S)
    <2>1. IsFiniteSet(0 .. n - 1)
      <3>1. n - 1 \in Int /\ 0 \in Int
        BY <1>1
      <3> QED
        BY <3>1, FS_Interval
    <2> QED
      BY <2>1, <1>2, FS_Subset
  <1>4. S \cup u = 0 .. m - 1 /\ S \cap u = {}
    <2>1. \A x \in 0 .. n - 1 : x < m <=> x \in 0 .. m - 1
      BY <1>1
    <2>2. 0 .. m - 1 \subseteq 0 .. n - 1
      BY <1>1
    <2> QED
      BY <2>1, <2>2, <1>1 DEF Exact
  <1>5. /\ Ascending(S) \in Seq(Nat) /\ ToSet(Ascending(S)) = S
        /\ IsInjective(Ascending(S))
    BY <1>2, <1>3, AscendingLists
  <1> QED
    BY <1>4, <1>5 DEF Exact

-----------------------------------------------------------------------------
(* The constants, and the arithmetic the limits need. *)
LEMMA Constants ==
  /\ M * P \in Nat \ {0} /\ 0 \in Pool /\ 0 \in Manager /\ Pool \subseteq Nat
  /\ IsFiniteSet(Pool) /\ Cardinality(Pool) = M * P
  /\ \A m \in Manager : \A i \in 0 .. P - 1 : m * P + i \in Pool
  <1>1. M \in Nat \ {0} /\ P \in Nat \ {0}
    BY PoolAssumption
  <1>2. M * P \in Nat \ {0}
    BY <1>1
  <1>3. IsFiniteSet(Pool) /\ Cardinality(Pool) = M * P
    <2>1. M * P - 1 \in Int /\ 0 \in Int /\ ~(0 > M * P - 1)
      BY <1>2
    <2>2. /\ IsFiniteSet(0 .. M * P - 1)
          /\ Cardinality(0 .. M * P - 1) = (M * P - 1) - 0 + 1
      BY <2>1, FS_Interval
    <2> QED
      BY <2>2, <1>2 DEF Pool
  <1>4. ASSUME NEW m \in Manager, NEW i \in 0 .. P - 1 PROVE m * P + i \in Pool
    <2>1. m \in Nat /\ M - 1 - m \in Nat
      BY <1>1 DEF Manager
    <2>2. (M - 1 - m) * P \in Nat /\ m * P \in Nat
      BY <2>1, <1>1
    <2>3. (M - 1 - m) * P = M * P - P - m * P
      BY <2>1, <1>1
    <2> QED
      BY <2>2, <2>3, <1>1, <1>2 DEF Pool
  <1>5. 0 \in Pool /\ 0 \in Manager /\ Pool \subseteq Nat
    BY <1>1, <1>2 DEF Pool, Manager
  <1> QED
    BY <1>2, <1>3, <1>4, <1>5

LEMMA Multiples ==
  ASSUME NEW k \in Nat, NEW d \in Nat
  PROVE  /\ k * d \in Nat
         /\ (k + 1) * d = k * d + d
         /\ \A n \in Nat : k <= n => k * d <= n * d
  <1>1. k * d \in Nat /\ (k + 1) * d = k * d + d
    OBVIOUS
  <1>2. ASSUME NEW n \in Nat, k <= n PROVE k * d <= n * d
    <2>1. PICK j \in Nat : n = k + j
      <3>1. n - k \in Nat /\ n = k + (n - k)
        BY <1>2
      <3> QED
        BY <3>1
    <2>2. j * d \in Nat /\ k * d \in Nat /\ (k + j) * d = k * d + j * d
      OBVIOUS
    <2> QED
      BY <2>1, <2>2
  <1> QED
    BY <1>1, <1>2

-----------------------------------------------------------------------------
(* The objects of all pools when one of them grows. *)
Obj(f) == UNION {{p} \X (0 .. f[p] - 1) : p \in Pool}

LEMMA ObjectsGrow ==
  ASSUME NEW f \in [Pool -> Nat], NEW p \in Pool, NEW n \in Nat, f[p] <= n
  PROVE  LET g == [f EXCEPT ![p] = n]
         IN  /\ IsFiniteSet(Obj(g)) <=> IsFiniteSet(Obj(f))
             /\ IsFiniteSet(Obj(f)) =>
                  /\ Cardinality(Obj(f)) \in Nat
                  /\ Cardinality(Obj(g)) = Cardinality(Obj(f)) + (n - f[p])
  <1> DEFINE g == [f EXCEPT ![p] = n]
             D == {p} \X (f[p] .. n - 1)
  <1>1. g \in [Pool -> Nat] /\ g[p] = n /\ \A q \in Pool : q # p => g[q] = f[q]
    OBVIOUS
  <1>2. 0 .. n - 1 = (0 .. f[p] - 1) \cup (f[p] .. n - 1)
    OBVIOUS
  <1>3. (0 .. f[p] - 1) \cap (f[p] .. n - 1) = {}
    OBVIOUS
  <1> HIDE DEF g
  <1>4. \A o : o \in Obj(f) <=> \E q \in Pool : \E i \in 0 .. f[q] - 1 : o = <<q, i>>
    BY DEF Obj
  <1>5. \A o : o \in Obj(g) <=> \E q \in Pool : \E i \in 0 .. g[q] - 1 : o = <<q, i>>
    BY DEF Obj
  <1>6. \A o : o \in D <=> \E i \in f[p] .. n - 1 : o = <<p, i>>
    OBVIOUS
  <1> HIDE DEF D
  <1>7. Obj(g) = Obj(f) \cup D
    <2>1. ASSUME NEW o \in Obj(g) PROVE o \in Obj(f) \cup D
      <3>0. PICK q \in Pool : \E i \in 0 .. g[q] - 1 : o = <<q, i>>
        BY <1>5
      <3>1. PICK i \in 0 .. g[q] - 1 : o = <<q, i>>
        BY <3>0
      <3>2. CASE q # p
        BY <3>1, <3>2, <1>1, <1>4
      <3>3. CASE q = p /\ i \in 0 .. f[p] - 1
        BY <3>1, <3>3, <1>4
      <3>4. CASE q = p /\ i \in f[p] .. n - 1
        BY <3>1, <3>4, <1>6
      <3> QED
        BY <3>1, <3>2, <3>3, <3>4, <1>1, <1>2
    <2>2. ASSUME NEW o \in Obj(f) PROVE o \in Obj(g)
      <3>0. PICK q \in Pool : \E i \in 0 .. f[q] - 1 : o = <<q, i>>
        BY <1>4
      <3>1. PICK i \in 0 .. f[q] - 1 : o = <<q, i>>
        BY <3>0
      <3>2. i \in 0 .. g[q] - 1
        BY <1>1, <1>2
      <3> QED
        BY <3>1, <3>2, <1>5
    <2>3. ASSUME NEW o \in D PROVE o \in Obj(g)
      <3>1. PICK i \in f[p] .. n - 1 : o = <<p, i>>
        BY <1>6
      <3>2. i \in 0 .. g[p] - 1
        BY <1>1, <1>2
      <3> QED
        BY <3>1, <3>2, <1>5
    <2> QED
      BY <2>1, <2>2, <2>3
  <1>8. Obj(f) \cap D = {}
    <2> SUFFICES ASSUME NEW o \in Obj(f), o \in D PROVE FALSE
      OBVIOUS
    <2>0. PICK q \in Pool : \E i \in 0 .. f[q] - 1 : o = <<q, i>>
      BY <1>4
    <2>1. PICK i \in 0 .. f[q] - 1 : o = <<q, i>>
      BY <2>0
    <2>2. PICK j \in f[p] .. n - 1 : o = <<p, j>>
      BY <1>6
    <2>3. q = p /\ i = j
      BY <2>1, <2>2
    <2> QED
      BY <2>3, <1>3
  <1>9. IsFiniteSet(D) /\ Cardinality(D) = n - f[p]
    <2>1. /\ IsFiniteSet(f[p] .. n - 1)
          /\ Cardinality(f[p] .. n - 1) = n - f[p]
      <3>1. f[p] \in Int /\ n - 1 \in Int /\ (f[p] > n - 1 <=> f[p] = n)
        OBVIOUS
      <3>2. /\ IsFiniteSet(f[p] .. n - 1)
            /\ Cardinality(f[p] .. n - 1) = IF f[p] > n - 1 THEN 0 ELSE (n - 1) - f[p] + 1
        BY <3>1, FS_Interval
      <3> QED
        BY <3>1, <3>2
    <2>2. IsFiniteSet({p}) /\ Cardinality({p}) = 1
      BY FS_Singleton
    <2>3. IsFiniteSet(D) /\ Cardinality(D) = Cardinality({p}) * Cardinality(f[p] .. n - 1)
      BY <2>1, <2>2, FS_Product DEF D
    <2> QED
      BY <2>1, <2>2, <2>3
  <1>10. IsFiniteSet(Obj(g)) => IsFiniteSet(Obj(f))
    BY <1>7, FS_Subset
  <1>11. ASSUME IsFiniteSet(Obj(f))
         PROVE  /\ IsFiniteSet(Obj(g)) /\ Cardinality(Obj(f)) \in Nat
                /\ Cardinality(Obj(g)) = Cardinality(Obj(f)) + (n - f[p])
    <2>1. /\ IsFiniteSet(Obj(f) \cup D)
          /\ Cardinality(Obj(f) \cup D)
               = Cardinality(Obj(f)) + Cardinality(D) - Cardinality(Obj(f) \cap D)
      BY <1>9, <1>11, FS_Union
    <2>2. Cardinality(Obj(f) \cap D) = 0
      BY <1>8, FS_EmptySet
    <2>3. Cardinality(Obj(f)) \in Nat
      BY <1>11, FS_CardinalityType
    <2> QED
      BY <2>1, <2>2, <2>3, <1>7, <1>9
  <1> QED
    BY <1>10, <1>11 DEF g

-----------------------------------------------------------------------------
(* What the steps of a thread do to the latches and to Expanding. *)
LEMMA IdleCall == idle \in Call /\ idle.at = "idle"
  BY Constants, PoolAssumption DEF idle, Call

Moved(t, c) == c \in Call /\ th' = [th EXCEPT ![t] = c]
              /\ (c.at = "pick" => c.tries <= P)

LEMMA MovedThread ==
  ASSUME TypeOK, TriesInv, NEW t \in Thread, NEW c, Moved(t, c)
  PROVE  /\ th' \in [Thread -> Call] /\ TriesInv'
         /\ th'[t] = c /\ \A u \in Thread : u # t => th'[u] = th[u]
  BY DEF TypeOK, TriesInv, Moved

LEMMA LatchTypes ==
  ASSUME TypeOK
  PROVE  \A p \in Pool : latch[p] # NoThread => latch[p] \in Thread
  BY DEF TypeOK

(* Outside a pool, or waiting for its latch. *)
LEMMA OutsideStep ==
  ASSUME IInv, NEW t \in Thread, NEW c, Moved(t, c), latch' = latch,
         th[t].at \notin Inside, c.at \notin Inside
  PROVE  LatchInv' /\ Expanding' = Expanding
  <1>1. /\ th'[t] = c /\ \A u \in Thread : u # t => th'[u] = th[u]
    BY MovedThread DEF IInv
  <1>2. \A p \in Pool : latch[p] # NoThread => latch[p] \in Thread /\ latch[p] # t
    BY LatchTypes DEF IInv, LatchInv
  <1>3. LatchInv'
    BY <1>1, <1>2 DEF IInv, LatchInv
  <1>4. Expanding' = Expanding
    BY <1>1, <1>2 DEF Expanding
  <1> QED
    BY <1>3, <1>4

(* Out of pool p, whose latch is given up. *)
LEMMA LeaveStep ==
  ASSUME IInv, NEW t \in Thread, NEW c, Moved(t, c), NEW p \in Pool,
         th[t].at \in Inside, th[t].pool = p, c.at \notin Inside,
         latch' = [latch EXCEPT ![p] = NoThread]
  PROVE  LatchInv' /\ Expanding' = Expanding \ {p} /\ latch[p] = t
  <1>1. /\ th'[t] = c /\ \A u \in Thread : u # t => th'[u] = th[u]
    BY MovedThread DEF IInv
  <1>2. latch[p] = t /\ latch' \in [Pool -> Thread \cup {NoThread}]
    BY DEF IInv, LatchInv, TypeOK
  <1>3. latch'[p] = NoThread /\ \A q \in Pool : q # p => latch'[q] = latch[q]
    BY DEF IInv, TypeOK
  <1>4. \A q \in Pool : q # p /\ latch[q] # NoThread => latch[q] \in Thread /\ latch[q] # t
    BY LatchTypes DEF IInv, LatchInv
  <1>5. LatchInv'
    <2>1. ASSUME NEW u \in Thread, th'[u].at \in Inside
          PROVE  latch'[th'[u].pool] = u
      <3>1. u # t /\ th[u].at \in Inside /\ latch[th[u].pool] = u /\ th[u].pool \in Pool
        BY <2>1, <1>1 DEF IInv, LatchInv, TypeOK, Call
      <3> QED
        BY <3>1, <1>1, <1>2, <1>3
    <2>2. ASSUME NEW q \in Pool, latch'[q] # NoThread
          PROVE  th'[latch'[q]].at \in Inside /\ th'[latch'[q]].pool = q
      BY <2>2, <1>1, <1>3, <1>4 DEF IInv, LatchInv
    <2> QED
      BY <2>1, <2>2 DEF LatchInv
  <1>6. Expanding' = Expanding \ {p}
    <2>1. ASSUME NEW q \in Pool PROVE q \in Expanding' <=> q \in Expanding \ {p}
      BY <1>1, <1>3, <1>4 DEF Expanding
    <2>2. Expanding' \subseteq Pool /\ Expanding \subseteq Pool
      BY DEF Expanding
    <2> QED
      BY <2>1, <2>2
  <1> QED
    BY <1>2, <1>5, <1>6

(* Into pool p, whose latch was free. *)
LEMMA EnterStep ==
  ASSUME IInv, NEW t \in Thread, NEW c, Moved(t, c), NEW p \in Pool,
         th[t].at \notin Inside, c.at \in Inside, c.pool = p,
         latch[p] = NoThread, latch' = [latch EXCEPT ![p] = t]
  PROVE  /\ LatchInv'
         /\ Expanding' = IF c.at = "expand" THEN Expanding \cup {p} ELSE Expanding
         /\ p \notin Expanding
  <1>1. /\ th'[t] = c /\ \A u \in Thread : u # t => th'[u] = th[u]
    BY MovedThread DEF IInv
  <1>2. t # NoThread
    BY PoolAssumption
  <1>3. latch'[p] = t /\ \A q \in Pool : q # p => latch'[q] = latch[q]
    BY DEF IInv, TypeOK
  <1>4. \A q \in Pool : latch[q] # NoThread => latch[q] \in Thread /\ latch[q] # t
    BY LatchTypes DEF IInv, LatchInv
  <1>5. LatchInv'
    <2>1. ASSUME NEW u \in Thread, th'[u].at \in Inside
          PROVE  latch'[th'[u].pool] = u
      <3>1. CASE u = t
        BY <3>1, <1>1, <1>3
      <3>2. CASE u # t
        <4>1. th[u].at \in Inside /\ latch[th[u].pool] = u /\ th[u].pool \in Pool
          BY <2>1, <3>2, <1>1 DEF IInv, LatchInv, TypeOK, Call
        <4>2. u # NoThread
          BY PoolAssumption
        <4> QED
          BY <4>1, <4>2, <3>2, <1>1, <1>3
      <3> QED
        BY <3>1, <3>2
    <2>2. ASSUME NEW q \in Pool, latch'[q] # NoThread
          PROVE  th'[latch'[q]].at \in Inside /\ th'[latch'[q]].pool = q
      <3>1. CASE q = p
        BY <3>1, <1>1, <1>3
      <3>2. CASE q # p
        BY <2>2, <3>2, <1>1, <1>3, <1>4 DEF IInv, LatchInv
      <3> QED
        BY <3>1, <3>2
    <2> QED
      BY <2>1, <2>2 DEF LatchInv
  <1>6. ASSUME NEW q \in Pool
        PROVE  q \in Expanding' <=> q \in Expanding \/ (c.at = "expand" /\ q = p)
    <2>1. CASE q = p
      BY <2>1, <1>1, <1>2, <1>3 DEF Expanding
    <2>2. CASE q # p
      BY <2>2, <1>1, <1>3, <1>4 DEF Expanding
    <2> QED
      BY <2>1, <2>2
  <1>7. Expanding' \subseteq Pool /\ Expanding \subseteq Pool /\ p \notin Expanding
    BY DEF Expanding
  <1> QED
    BY <1>5, <1>6, <1>7


-----------------------------------------------------------------------------
(* What a step leaves alone. *)
LEMMA PoolsSame ==
  ASSUME IInv, UNCHANGED <<begin, numOfObjs, free, used, total, held>>
  PROVE  ListExact' /\ HeldSafe' /\ TotalInv'
  <1>1. ListExact'
    BY DEF IInv, ListExact
  <1>2. HeldSafe'
    BY DEF IInv, HeldSafe
  <1>3. TotalInv'
    BY DEF IInv, TotalInv, TotalExact, Objects
  <1> QED
    BY <1>1, <1>2, <1>3

(* Who is expanding are at most all the pools. *)
LEMMA ExpandingFinite ==
  /\ IsFiniteSet(Expanding) /\ Cardinality(Expanding) \in Nat
  /\ Cardinality(Expanding) <= M * P
  /\ Cardinality(Expanding) = 0 => Expanding = {}
  <1>1. Expanding \in SUBSET Pool
    BY DEF Expanding
  <1>2. IsFiniteSet(Expanding) /\ Cardinality(Expanding) <= M * P
    BY <1>1, Constants, FS_Subset
  <1> QED
    BY <1>2, FS_CardinalityType, FS_EmptySet

(* The limit is kept by a step that does not raise the sum of the total    *)
(* and what is being expanded.                                             *)
LEMMA LimitStep ==
  ASSUME IInv, UNCHANGED <<maxObjs, maxSize, sets, setting>>, total' \in Nat,
         sets = 0 => \A p \in Pool : numOfObjs'[p] <= maxObjs[p],
         IsFiniteSet(Expanding'), Cardinality(Expanding') \in Nat,
         total' + Cardinality(Expanding') * Delta <= total + Cardinality(Expanding) * Delta
  PROVE  LimitInv'
  <1> SUFFICES ASSUME sets = 0 PROVE LimitInv'
    BY DEF LimitInv
  <1> DEFINE e == Cardinality(Expanding)
             f == Cardinality(Expanding')
  <1>1. Delta \in Nat \ {0} /\ e \in Nat /\ f \in Nat
    BY PoolAssumption, ExpandingFinite
  <1>2. e * Delta \in Nat /\ f * Delta \in Nat
    BY <1>1, Multiples
  <1>3. total \in Nat /\ maxSize \in Nat /\ M * P - 1 \in Nat /\ (M * P - 1) * Delta \in Nat
    <2>1. M * P - 1 \in Nat
      BY Constants
    <2> QED
      BY <2>1, <1>1, Multiples, PoolAssumption DEF IInv, TypeOK
  <1>4. CASE total = 0 /\ Expanding = {}
    <2>1. e = 0
      BY <1>4, FS_EmptySet
    <2>2. e * Delta = 0
      BY <2>1, <1>1
    <2>3. total' = 0 /\ f * Delta = 0
      BY <2>2, <1>2, <1>4
    <2>4. f = 0
      <3>1. CASE f >= 1
        <4>1. 1 * Delta <= f * Delta
          BY <3>1, <1>1, Multiples
        <4> QED
          BY <4>1, <2>3, <1>1
      <3> QED
        BY <3>1, <1>1
    <2>5. Expanding' = {}
      BY <2>4, FS_EmptySet
    <2> QED
      BY <2>3, <2>5 DEF IInv, LimitInv
  <1>5. CASE ~(total = 0 /\ Expanding = {})
    <2>1. total + e * Delta < maxSize + (M * P - 1) * Delta
      BY <1>5 DEF IInv, LimitInv
    <2>2. total' + f * Delta < maxSize + (M * P - 1) * Delta
      BY <2>1, <1>2, <1>3
    <2> QED
      BY <2>2 DEF IInv, LimitInv
  <1> QED
    BY <1>4, <1>5

(* The same when only what is being expanded may shrink. *)
LEMMA LimitSame ==
  ASSUME IInv, UNCHANGED <<numOfObjs, maxObjs, total, maxSize, sets, setting>>,
         Expanding' \subseteq Expanding
  PROVE  LimitInv'
  <1> DEFINE e == Cardinality(Expanding)
             f == Cardinality(Expanding')
  <1>1. IsFiniteSet(Expanding') /\ f \in Nat /\ f <= e /\ e \in Nat
    <2>1. IsFiniteSet(Expanding') /\ f <= e
      BY ExpandingFinite, FS_Subset
    <2> QED
      BY <2>1, FS_CardinalityType, ExpandingFinite
  <1>2. e * Delta \in Nat /\ f * Delta \in Nat /\ f * Delta <= e * Delta
    BY <1>1, Multiples, PoolAssumption
  <1>3. total \in Nat
    BY DEF IInv, TypeOK
  <1>4. total' + f * Delta <= total + e * Delta
    BY <1>2, <1>3
  <1>5. sets = 0 => \A p \in Pool : numOfObjs'[p] <= maxObjs[p]
    BY DEF IInv, LimitInv
  <1> QED
    BY <1>1, <1>3, <1>4, <1>5, LimitStep

-----------------------------------------------------------------------------
(* The initial states. *)
LEMMA PoolMaxType == ASSUME NEW m \in Nat PROVE PoolMax(m) \in Nat
  <1>1. Share \in Nat \ {0} /\ P \in Nat \ {0} /\ Delta \in Nat
    BY PoolAssumption
  <1>2. m \div Share \in Nat
    BY <1>1
  <1>3. (m \div Share) \div P \in Nat
    BY <1>1, <1>2
  <1> QED
    BY <1>1, <1>3 DEF PoolMax

LEMMA InitInv == Init => IInv
  <1> SUFFICES ASSUME Init PROVE IInv
    OBVIOUS
  <1>1. PoolMax(maxSize) \in Nat
    BY PoolMaxType, PoolAssumption DEF Init
  <1>2. P \in Nat \ {0} /\ M * P \in Nat
    BY PoolAssumption, Constants
  <1>3. TypeOK
    <2>1. th \in [Thread -> Call]
      BY IdleCall DEF Init
    <2>2. round \in [Manager -> 0 .. P - 1]
      BY <1>2 DEF Init
    <2> QED
      BY <2>1, <2>2, <1>1, <1>2 DEF Init, TypeOK
  <1>4. LatchInv /\ TriesInv /\ Expanding = {}
    BY IdleCall DEF Init, LatchInv, TriesInv, Expanding, Inside
  <1>5. ListExact
    <2>1. ToSet(<<>>) = {} /\ IsInjective(<<>>)
      BY DEF ToSet, IsInjective
    <2>2. Cardinality({}) = 0 /\ 0 .. 0 - 1 = {}
      BY FS_EmptySet
    <2> QED
      BY <2>1, <2>2 DEF Init, ListExact
  <1>6. HeldSafe
    BY DEF Init, HeldSafe
  <1>7. TotalInv
    <2>1. \A p \in Pool : 0 .. numOfObjs[p] - 1 = {}
      BY DEF Init
    <2>2. Objects = {}
      BY <2>1 DEF Objects
    <2>3. total = 0
      BY DEF Init
    <2> QED
      BY <2>2, <2>3, FS_EmptySet DEF TotalInv, TotalExact
  <1>8. LimitInv
    BY <1>1, <1>4 DEF Init, LimitInv
  <1> QED
    BY <1>3, <1>4, <1>5, <1>6, <1>7, <1>8 DEF IInv

-----------------------------------------------------------------------------
(* The steps that touch no object. *)
LEMMA AllocStep ==
  ASSUME IInv, NEW t \in Thread, NEW m \in Manager, alloc(t, m)
  PROVE  IInv'
  <1> DEFINE c == IF maxSize > 0
                  THEN [idle EXCEPT !.at = "pick", !.mgr = m, !.level = 1]
                  ELSE [idle EXCEPT !.rc = "DYN"]
  <1>1. c \in Call /\ c.at \in {"pick", "idle"} /\ c.tries = 0
    <2>1. CASE maxSize > 0
      <3>1. c = [at |-> "pick", mgr |-> m, level |-> 1, pool |-> 0, tries |-> 0,
                 full |-> FALSE, rc |-> "OK"]
        BY <2>1 DEF idle
      <3>2. 0 \in Pool /\ 0 \in 0 .. P + 1 /\ 1 \in 0 .. 2
        BY Constants, PoolAssumption
      <3> HIDE DEF c
      <3> QED
        BY <3>1, <3>2 DEF Call
    <2>2. CASE ~(maxSize > 0)
      BY <2>2, IdleCall DEF Call, idle
    <2> QED
      BY <2>1, <2>2
  <1>2. Moved(t, c)
    BY <1>1, PoolAssumption DEF alloc, Moved
  <1>3. th[t].at \notin Inside /\ c.at \notin Inside
    BY <1>1 DEF alloc, At, Inside
  <1> HIDE DEF c
  <1>4. th' \in [Thread -> Call] /\ TriesInv'
    BY <1>2, MovedThread DEF IInv
  <1>5. LatchInv' /\ Expanding' = Expanding
    BY <1>2, <1>3, OutsideStep DEF alloc
  <1>6. TypeOK'
    BY <1>4 DEF IInv, TypeOK, alloc, pools, bounds
  <1>7. ListExact' /\ HeldSafe' /\ TotalInv'
    BY PoolsSame DEF alloc, pools
  <1>8. LimitInv'
    BY <1>5, LimitSame DEF alloc, pools, bounds
  <1> QED
    BY <1>4, <1>5, <1>6, <1>7, <1>8 DEF IInv

LEMMA PickStep ==
  ASSUME IInv, NEW t \in Thread, pick(t)
  PROVE  IInv'
  <1> DEFINE m == th[t].mgr
             p == m * P + round[m]
  <1>1. /\ m \in Manager /\ th[t] \in Call /\ th[t].tries <= P /\ th[t].tries \in Nat
        /\ P \in Nat \ {0}
    <2>1. th[t] \in Call /\ th[t].tries <= P
      BY DEF IInv, TypeOK, TriesInv, pick, At
    <2>2. P \in Nat \ {0}
      BY PoolAssumption
    <2>3. th[t].mgr \in Manager /\ th[t].tries \in 0 .. P + 1
      BY <2>1 DEF Call
    <2> QED
      BY <2>1, <2>2, <2>3
  <1>2. p \in Pool /\ round[m] \in 0 .. P - 1
    <2>1. round[m] \in 0 .. P - 1
      BY <1>1 DEF IInv, TypeOK
    <2> QED
      BY <2>1, <1>1, Constants
  <1>3. round' \in [Manager -> 0 .. P - 1]
    <2>1. (round[m] + 1) % P \in 0 .. P - 1
      BY <1>1, <1>2
    <2>2. round' = [round EXCEPT ![m] = (round[m] + 1) % P]
      BY DEF pick
    <2> QED
      BY <2>1, <2>2 DEF IInv, TypeOK
  <1>4. UNCHANGED <<begin, numOfObjs, free, used, maxObjs, latch, maint, total, maxSize,
                    setting, held, shrinks, sets>>
    BY DEF pick, pools, bounds
  <1>5. /\ th' \in [Thread -> Call] /\ TriesInv' /\ LatchInv' /\ Expanding' = Expanding
    <2>1. CASE th' = th
      BY <2>1, <1>4 DEF IInv, TypeOK, TriesInv, LatchInv, Expanding
    <2>2. CASE th' = [th EXCEPT ![t].at = "latch", ![t].pool = p, ![t].tries = @ + 1]
      <3> DEFINE c == [th[t] EXCEPT !.at = "latch", !.pool = p, !.tries = th[t].tries + 1]
      <3>1. c \in Call /\ c.at = "latch"
        <4>1. th[t].tries + 1 \in 0 .. P + 1
          BY <1>1
        <4> HIDE DEF p
        <4> QED
          BY <4>1, <1>1, <1>2 DEF Call
      <3>2. th' = [th EXCEPT ![t] = c]
        BY <2>2, <1>1 DEF IInv, TypeOK, Call
      <3> HIDE DEF c
      <3>3. Moved(t, c) /\ c.at \notin Inside /\ th[t].at \notin Inside
        BY <3>1, <3>2 DEF Moved, Inside, pick, At
      <3> QED
        BY <3>3, <1>4, MovedThread, OutsideStep DEF IInv
    <2> QED
      BY <2>1, <2>2 DEF pick
  <1>6. TypeOK'
    BY <1>3, <1>4, <1>5 DEF IInv, TypeOK
  <1>7. ListExact' /\ HeldSafe' /\ TotalInv'
    BY <1>4, PoolsSame
  <1>8. LimitInv'
    BY <1>4, <1>5, LimitSame
  <1> QED
    BY <1>5, <1>6, <1>7, <1>8 DEF IInv

LEMMA ShrinkCallStep ==
  ASSUME IInv, NEW t \in Thread, shrink(t)
  PROVE  IInv'
  <1> DEFINE c == [idle EXCEPT !.at = "shrinkLatch", !.full = isFull]
  <1>0. isFull \in BOOLEAN
    BY DEF isFull
  <1>1. c \in Call /\ c.at = "shrinkLatch"
    BY <1>0, IdleCall DEF Call, idle
  <1>2. Moved(t, c)
    BY <1>1 DEF shrink, Moved
  <1>3. th[t].at \notin Inside /\ c.at \notin Inside
    BY <1>1 DEF shrink, At, Inside
  <1> HIDE DEF c
  <1>4. th' \in [Thread -> Call] /\ TriesInv'
    BY <1>2, MovedThread DEF IInv
  <1>5. LatchInv' /\ Expanding' = Expanding
    BY <1>2, <1>3, OutsideStep DEF shrink
  <1>6. TypeOK'
    BY <1>4 DEF IInv, TypeOK, shrink, pools
  <1>7. ListExact' /\ HeldSafe' /\ TotalInv'
    BY PoolsSame DEF shrink, pools
  <1>8. LimitInv'
    BY <1>5, LimitSame DEF shrink, pools
  <1> QED
    BY <1>4, <1>5, <1>6, <1>7, <1>8 DEF IInv

LEMMA ShrinkLatchStep ==
  ASSUME IInv, NEW t \in Thread, shrinkLatch(t)
  PROVE  IInv'
  <1> DEFINE p == th[t].pool
             c == [th[t] EXCEPT !.at = "shrink"]
  <1>1. c \in Call /\ c.at = "shrink" /\ c.pool = p /\ p \in Pool
    BY DEF IInv, TypeOK, Call
  <1>2. th' = [th EXCEPT ![t] = c]
    BY DEF shrinkLatch, IInv, TypeOK, Call
  <1>3. /\ latch[p] = NoThread /\ latch' = [latch EXCEPT ![p] = t]
        /\ maint' = [maint EXCEPT ![p] = TRUE]
        /\ UNCHANGED <<begin, numOfObjs, free, used, maxObjs, total, maxSize, round,
                       setting, held, shrinks, sets>>
    BY DEF shrinkLatch, InPool, pools, bounds
  <1> HIDE DEF c
  <1>4. Moved(t, c) /\ c.at \in Inside /\ th[t].at \notin Inside
    BY <1>1, <1>2 DEF Moved, Inside, shrinkLatch, At
  <1>5. th' \in [Thread -> Call] /\ TriesInv'
    BY <1>4, MovedThread DEF IInv
  <1>6. LatchInv' /\ Expanding' = Expanding
    BY <1>1, <1>3, <1>4, EnterStep
  <1>7. TypeOK'
    BY <1>3, <1>5 DEF IInv, TypeOK
  <1>8. ListExact' /\ HeldSafe' /\ TotalInv'
    BY <1>3, PoolsSame
  <1>9. LimitInv'
    BY <1>3, <1>6, LimitSame
  <1> QED
    BY <1>5, <1>6, <1>7, <1>8, <1>9 DEF IInv

(* The limits are set by whoever configures the program, under no latch. *)
LEMMA SetStep ==
  ASSUME IInv, (\E m \in MaxSizes : setMaxSize(m)) \/ setMaxObjects
  PROVE  IInv'
  <1>1. UNCHANGED <<begin, numOfObjs, free, used, latch, maint, total, round, th, held, shrinks>>
    BY DEF setMaxSize, setMaxObjects, pools, bounds
  <1>2. LatchInv' /\ TriesInv'
    BY <1>1 DEF IInv, LatchInv, TriesInv
  <1>3. ListExact' /\ HeldSafe' /\ TotalInv'
    BY <1>1, PoolsSame
  <1>4. CASE \E m \in MaxSizes : setMaxSize(m)
    <2>1. /\ sets' = sets + 1 /\ setting' = M * P /\ maxSize' \in MaxSizes
          /\ maxObjs' = maxObjs
      BY <1>4 DEF setMaxSize
    <2>2. TypeOK'
      BY <2>1, <1>1, Constants DEF IInv, TypeOK
    <2>3. sets' # 0
      BY <2>1 DEF IInv, TypeOK
    <2> QED
      BY <2>2, <2>3, <1>2, <1>3 DEF IInv, LimitInv
  <1>5. CASE setMaxObjects
    <2>1. PoolMax(maxSize) \in Nat
      BY PoolMaxType, PoolAssumption DEF IInv, TypeOK
    <2>2. /\ sets' = sets /\ setting' = setting - 1 /\ setting > 0 /\ maxSize' = maxSize
          /\ maxObjs' = [maxObjs EXCEPT ![M * P - setting] = PoolMax(maxSize)]
      BY <1>5 DEF setMaxObjects, bounds
    <2>3. TypeOK'
      <3>1. setting' \in 0 .. M * P
        BY <2>2, Constants DEF IInv, TypeOK
      <3>2. maxObjs' \in [Pool -> Nat]
        BY <2>1, <2>2 DEF IInv, TypeOK
      <3> QED
        BY <3>1, <3>2, <2>2, <1>1 DEF IInv, TypeOK
    <2>4. sets' # 0
      BY <2>2 DEF IInv, LimitInv
    <2> QED
      BY <2>3, <2>4, <1>2, <1>3 DEF IInv, LimitInv
  <1> QED
    BY <1>4, <1>5

-----------------------------------------------------------------------------
(* An answer without an object: the call goes on or is over. *)
LEMMA RefusedMoves ==
  ASSUME IInv, NEW t \in Thread, NEW rc, Refused(t, rc)
  PROVE  \E c : Moved(t, c) /\ c.at \notin Inside
  <1> DEFINE d == [th[t] EXCEPT !.at = "pick"]
             e == [idle EXCEPT !.at = "pick", !.mgr = th[t].mgr + 1, !.level = 2]
             i == [idle EXCEPT !.rc = "DYN"]
  <1>1. th[t] \in Call /\ th[t].mgr \in Manager /\ M \in Nat /\ P \in Nat
    BY PoolAssumption DEF IInv, TypeOK, Call
  <1>2. CASE rc = "LIMIT" /\ th[t].tries <= P
    <2>1. th' = [th EXCEPT ![t] = d]
      BY <1>2 DEF Refused, IInv, TypeOK
    <2>2. d \in Call /\ d.at = "pick" /\ d.tries = th[t].tries
      BY <1>1 DEF Call
    <2> QED
      BY <2>1, <2>2, <1>2 DEF Moved, Inside
  <1>3. CASE ~(rc = "LIMIT" /\ th[t].tries <= P) /\ th[t].level < 2 /\ th[t].mgr + 1 < M
    <2>1. th' = [th EXCEPT ![t] = e]
      BY <1>3 DEF Refused, IInv, TypeOK
    <2>2. th[t].mgr + 1 \in Manager
      BY <1>1, <1>3 DEF Manager
    <2>3. idle.tries = 0
      BY DEF idle
    <2>4. e \in Call /\ e.at = "pick" /\ e.tries = 0
      <3>1. ASSUME NEW i0 \in Call, NEW k \in Manager
            PROVE  LET f == [i0 EXCEPT !.at = "pick", !.mgr = k, !.level = 2]
                   IN  f \in Call /\ f.at = "pick" /\ f.tries = i0.tries
        <4> DEFINE f1 == [i0 EXCEPT !.at = "pick"]
                   f2 == [f1 EXCEPT !.mgr = k]
                   f3 == [f2 EXCEPT !.level = 2]
        <4>1. f1 \in Call /\ f1.at = "pick" /\ f1.tries = i0.tries
          BY DEF Call
        <4> HIDE DEF f1
        <4>2. f2 \in Call /\ f2.at = "pick" /\ f2.tries = i0.tries
          BY <4>1 DEF Call
        <4> HIDE DEF f2
        <4>3. f3 \in Call /\ f3.at = "pick" /\ f3.tries = i0.tries
          BY <4>2 DEF Call
        <4> QED
          BY <4>3, Zenon DEF f1, f2
      <3> QED
        BY <3>1, <2>2, <2>3, IdleCall
    <2>5. e.tries <= P
      BY <2>4, <1>1
    <2>6. Moved(t, e) /\ e.at \notin Inside
      BY <2>1, <2>4, <2>5 DEF Moved, Inside
    <2> QED
      BY <2>6
  <1>4. CASE ~(rc = "LIMIT" /\ th[t].tries <= P) /\ ~(th[t].level < 2 /\ th[t].mgr + 1 < M)
    <2>1. th' = [th EXCEPT ![t] = i]
      BY <1>4 DEF Refused, IInv, TypeOK
    <2>2. i \in Call /\ i.at = "idle"
      BY IdleCall DEF Call, idle
    <2> QED
      BY <2>1, <2>2 DEF Moved, Inside
  <1> QED
    BY <1>2, <1>3, <1>4

(* Take, of a list that matches the flags and the counters of pool p. *)
LEMMA TakeObject ==
  ASSUME IInv, NEW t \in Thread, NEW p \in Pool, NEW f, NEW n,
         Exact(f, used[p], begin[p], n), f # <<>>, numOfObjs[p] <= n,
         Take(t, p, f), numOfObjs' = [numOfObjs EXCEPT ![p] = n]
  PROVE  /\ begin' \in [Pool -> Nat] /\ numOfObjs' \in [Pool -> Nat]
         /\ free' \in [Pool -> Seq(Nat)] /\ used' \in [Pool -> SUBSET Nat]
         /\ held' \in [Thread -> SUBSET (Pool \X Nat)]
         /\ ListExact' /\ HeldSafe' /\ Moved(t, idle)
  <1> DEFINE h == Head(f)
  <1>1. /\ Exact(Tail(f), used[p] \cup {h}, begin[p] + 1, n)
        /\ h \in Nat /\ h \notin used[p] /\ h < n
    BY TakeExact
  <1>2. n \in Nat /\ Tail(f) \in Seq(Nat)
    BY <1>1 DEF Exact
  <1> HIDE DEF h
  <1>3. /\ begin' = [begin EXCEPT ![p] = begin[p] + 1]
        /\ used' = [used EXCEPT ![p] = used[p] \cup {h}]
        /\ free' = [free EXCEPT ![p] = Tail(f)]
        /\ held' = [held EXCEPT ![t] = held[t] \cup {<<p, h>>}]
        /\ th' = [th EXCEPT ![t] = idle]
    BY DEF Take, h
  <1>4. /\ begin' \in [Pool -> Nat] /\ numOfObjs' \in [Pool -> Nat]
        /\ free' \in [Pool -> Seq(Nat)] /\ used' \in [Pool -> SUBSET Nat]
    BY <1>1, <1>2, <1>3 DEF IInv, TypeOK
  <1>5. held' \in [Thread -> SUBSET (Pool \X Nat)]
    BY <1>1, <1>3 DEF IInv, TypeOK
  <1>6. /\ begin'[p] = begin[p] + 1 /\ used'[p] = used[p] \cup {h}
        /\ free'[p] = Tail(f) /\ numOfObjs'[p] = n
        /\ \A q \in Pool : q # p => /\ begin'[q] = begin[q] /\ used'[q] = used[q]
                                    /\ free'[q] = free[q] /\ numOfObjs'[q] = numOfObjs[q]
    BY <1>3 DEF IInv, TypeOK
  <1>7. ListExact'
    BY <1>1, <1>6 DEF IInv, ListExact, Exact
  <1>8. HeldSafe'
    <2>1. /\ held'[t] = held[t] \cup {<<p, h>>}
          /\ \A u \in Thread : u # t => held'[u] = held[u]
      BY <1>3 DEF IInv, TypeOK
    <2>2. \A u \in Thread : <<p, h>> \notin held[u]
      BY <1>1 DEF IInv, HeldSafe
    <2>3. \A u, v \in Thread : u # v => held'[u] \cap held'[v] = {}
      BY <2>1, <2>2 DEF IInv, HeldSafe
    <2>4. ASSUME NEW u \in Thread, NEW o \in held'[u]
          PROVE  o[2] \in used'[o[1]] /\ o[2] < numOfObjs'[o[1]]
      <3>1. CASE o \in held[u]
        <4>1. /\ o[1] \in Pool /\ o[2] \in Nat
              /\ o[2] \in used[o[1]] /\ o[2] < numOfObjs[o[1]]
          BY <3>1 DEF IInv, HeldSafe, TypeOK
        <4>2. CASE o[1] = p
          <5>1. numOfObjs[p] \in Nat
            BY DEF IInv, TypeOK
          <5>2. o[2] < n
            BY <5>1, <4>1, <4>2, <1>2
          <5> QED
            BY <5>2, <4>1, <4>2, <1>6
        <4>3. CASE o[1] # p
          BY <4>1, <4>3, <1>6
        <4> QED
          BY <4>2, <4>3
      <3>2. CASE o \notin held[u]
        <4>1. o = <<p, h>>
          BY <3>2, <2>1, <2>4
        <4> QED
          BY <4>1, <1>1, <1>6
      <3> QED
        BY <3>1, <3>2
    <2> QED
      BY <2>3, <2>4 DEF HeldSafe
  <1>9. Moved(t, idle)
    BY <1>3, IdleCall DEF Moved
  <1> QED
    BY <1>4, <1>5, <1>7, <1>8, <1>9

(* tryAcquire, its three outcomes. *)
LEMMA TryAcquireStep ==
  ASSUME IInv, NEW t \in Thread, tryAcquire(t)
  PROVE  IInv'
  <1> DEFINE p == th[t].pool
  <1>1. /\ th[t] \in Call /\ p \in Pool /\ th[t].at = "latch" /\ th[t].at \notin Inside
        /\ latch[p] = NoThread
    BY DEF IInv, TypeOK, Call, tryAcquire, At, InPool, Inside
  <1>2. UNCHANGED <<maxObjs, maint, total, maxSize, round, setting, shrinks, sets>>
    BY DEF tryAcquire, bounds
  <1>3. Exact(free[p], used[p], begin[p], numOfObjs[p])
    BY <1>1, ListExactByPool DEF IInv
  <1>4. CASE ~needExpand(p) /\ Take(t, p, free[p]) /\ UNCHANGED <<latch, numOfObjs>>
    <2>1. free[p] # <<>>
      <3>1. begin[p] \in Nat /\ numOfObjs[p] \in Nat
        BY <1>1 DEF IInv, TypeOK
      <3>2. begin[p] < numOfObjs[p]
        BY <3>1, <1>4 DEF needExpand
      <3> QED
        BY <3>2, <1>3, UsedFinite
    <2>2. numOfObjs' = [numOfObjs EXCEPT ![p] = numOfObjs[p]] /\ numOfObjs[p] <= numOfObjs[p]
      BY <1>1, <1>4 DEF IInv, TypeOK
    <2> HIDE DEF p
    <2>3. /\ begin' \in [Pool -> Nat] /\ numOfObjs' \in [Pool -> Nat]
          /\ free' \in [Pool -> Seq(Nat)] /\ used' \in [Pool -> SUBSET Nat]
          /\ held' \in [Thread -> SUBSET (Pool \X Nat)]
          /\ ListExact' /\ HeldSafe' /\ Moved(t, idle)
      BY <2>1, <2>2, <1>1, <1>3, <1>4, TakeObject
    <2>4. th' \in [Thread -> Call] /\ TriesInv'
      BY <2>3, MovedThread DEF IInv
    <2>5. LatchInv' /\ Expanding' = Expanding
      BY <2>3, <1>1, <1>4, OutsideStep, IdleCall DEF Inside
    <2>6. TypeOK'
      BY <2>3, <2>4, <1>2, <1>4 DEF IInv, TypeOK
    <2>7. TotalInv'
      BY <1>2, <1>4 DEF IInv, TotalInv, TotalExact, Objects
    <2>8. LimitInv'
      BY <2>5, <1>2, <1>4, LimitSame
    <2> QED
      BY <2>3, <2>4, <2>5, <2>6, <2>7, <2>8 DEF IInv
  <1>5. CASE Refused(t, "LIMIT") /\ UNCHANGED <<latch, pools>>
    <2>1. PICK c : Moved(t, c) /\ c.at \notin Inside
      BY <1>5, RefusedMoves
    <2>2. th' \in [Thread -> Call] /\ TriesInv'
      BY <2>1, MovedThread DEF IInv
    <2>3. LatchInv' /\ Expanding' = Expanding
      BY <2>1, <1>1, <1>5, OutsideStep
    <2>4. UNCHANGED <<begin, numOfObjs, free, used, held>>
      BY <1>5 DEF Refused, pools
    <2>5. TypeOK'
      BY <2>2, <2>4, <1>2, <1>5 DEF IInv, TypeOK
    <2>6. ListExact' /\ HeldSafe' /\ TotalInv'
      BY <2>4, <1>2, PoolsSame
    <2>7. LimitInv'
      BY <2>3, <2>4, <1>2, LimitSame
    <2> QED
      BY <2>2, <2>3, <2>5, <2>6, <2>7 DEF IInv
  <1>6. CASE /\ canAllocSegment
             /\ latch' = [latch EXCEPT ![p] = t]
             /\ th' = [th EXCEPT ![t].at = "expand"]
             /\ UNCHANGED <<pools, held>>
    <2> DEFINE c == [th[t] EXCEPT !.at = "expand"]
               e == Cardinality(Expanding)
    <2>1. c \in Call /\ c.at = "expand" /\ c.pool = p
      BY <1>1 DEF Call
    <2>2. th' = [th EXCEPT ![t] = c]
      BY <1>1, <1>6 DEF IInv, TypeOK, Call
    <2> HIDE DEF c
    <2>3. Moved(t, c) /\ c.at \in Inside
      BY <2>1, <2>2 DEF Moved, Inside
    <2>4. th' \in [Thread -> Call] /\ TriesInv'
      BY <2>3, MovedThread DEF IInv
    <2>5. LatchInv' /\ Expanding' = Expanding \cup {p} /\ p \notin Expanding
      BY <2>1, <2>3, <1>1, <1>6, EnterStep
    <2>6. UNCHANGED <<begin, numOfObjs, free, used, held>>
      BY <1>6 DEF pools
    <2>7. TypeOK'
      <3>1. latch' \in [Pool -> Thread \cup {NoThread}]
        BY <1>1, <1>6 DEF IInv, TypeOK
      <3> QED
        BY <3>1, <2>4, <2>6, <1>2 DEF IInv, TypeOK
    <2>8. ListExact' /\ HeldSafe' /\ TotalInv'
      BY <2>6, <1>2, PoolsSame
    <2>9. LimitInv'
      <3>1. Cardinality(Expanding') = e + 1 /\ e \in Nat
        BY <2>5, ExpandingFinite, FS_AddElement
      <3>2. e + 1 <= M * P
        <4>1. Expanding' \in SUBSET Pool
          BY <2>5, <1>1 DEF Expanding
        <4>2. Cardinality(Expanding') <= Cardinality(Pool)
          BY <4>1, Constants, FS_Subset
        <4> QED
          BY <4>2, <3>1, Constants
      <3>3. (e + 1) * Delta <= (M * P - 1) * Delta + Delta
        <4>1. M * P - 1 \in Nat /\ Delta \in Nat /\ e <= M * P - 1
          BY <3>1, <3>2, Constants, PoolAssumption
        <4>2. e * Delta <= (M * P - 1) * Delta /\ (e + 1) * Delta = e * Delta + Delta
          BY <4>1, <3>1, Multiples
        <4>3. e * Delta \in Nat /\ (M * P - 1) * Delta \in Nat
          BY <4>1, <3>1, Multiples
        <4> QED
          BY <4>1, <4>2, <4>3
      <3>4. /\ total \in Nat /\ maxSize \in Nat /\ Delta \in Nat
            /\ (e + 1) * Delta \in Nat /\ (M * P - 1) * Delta \in Nat
        <4>1. M * P - 1 \in Nat /\ Delta \in Nat /\ e + 1 \in Nat
          BY <3>1, Constants, PoolAssumption
        <4> QED
          BY <4>1, Multiples, PoolAssumption DEF IInv, TypeOK
      <3>5. total + (e + 1) * Delta < maxSize + (M * P - 1) * Delta
        <4>1. total + Delta < maxSize
          BY <1>6 DEF canAllocSegment
        <4> QED
          BY <4>1, <3>3, <3>4
      <3> HIDE DEF e
      <3> QED
        BY <3>1, <3>5, <2>6, <1>2 DEF IInv, LimitInv
    <2> QED
      BY <2>4, <2>5, <2>7, <2>8, <2>9 DEF IInv
  <1> QED
    BY <1>4, <1>5, <1>6 DEF tryAcquire, InPool, pools

(* expandList: a segment and an object of it, or a refusal. *)
LEMMA ExpandListStep ==
  ASSUME IInv, NEW t \in Thread, expandList(t)
  PROVE  IInv'
  <1> DEFINE p == th[t].pool
             n == numOfObjs[p]
  <1>1. /\ th[t] \in Call /\ p \in Pool /\ th[t].at = "expand" /\ th[t].at \in Inside
    BY DEF IInv, TypeOK, Call, expandList, At, Inside
  <1>2. /\ UNCHANGED <<maxObjs, maint, maxSize, round, setting, shrinks, sets>>
        /\ latch' = [latch EXCEPT ![p] = NoThread]
    BY DEF expandList, bounds, InPool
  <1>3. Exact(free[p], used[p], begin[p], n) /\ n \in Nat
    BY <1>1, ListExactByPool DEF IInv, TypeOK
  <1>4. latch' \in [Pool -> Thread \cup {NoThread}]
    BY <1>2 DEF IInv, TypeOK
  <1>5. p \in Expanding
    BY <1>1, PoolAssumption DEF IInv, LatchInv, Expanding
  <1>6. CASE /\ n + Delta <= maxObjs[p]
             /\ numOfObjs' = [numOfObjs EXCEPT ![p] = n + Delta]
             /\ total' = total + Delta
             /\ Take(t, p, free[p] \o newIndexes(p))
    <2> DEFINE f == free[p] \o newIndexes(p)
    <2>1. Delta \in Nat \ {0} /\ n + Delta \in Nat /\ n <= n + Delta
      BY <1>3, PoolAssumption
    <2>2. Exact(f, used[p], begin[p], n + Delta) /\ f # <<>>
      BY <2>1, <1>3, GrowExact DEF newIndexes
    <2> HIDE DEF p, f
    <2>3. /\ begin' \in [Pool -> Nat] /\ numOfObjs' \in [Pool -> Nat]
          /\ free' \in [Pool -> Seq(Nat)] /\ used' \in [Pool -> SUBSET Nat]
          /\ held' \in [Thread -> SUBSET (Pool \X Nat)]
          /\ ListExact' /\ HeldSafe' /\ Moved(t, idle)
      <3>1. Take(t, p, f) /\ numOfObjs[p] <= n + Delta
        BY <1>6, <2>1 DEF f
      <3> HIDE DEF n
      <3> QED
        BY <3>1, <2>2, <1>1, <1>6, TakeObject
    <2>4. th' \in [Thread -> Call] /\ TriesInv'
      BY <2>3, MovedThread DEF IInv
    <2>5. LatchInv' /\ Expanding' = Expanding \ {p}
      <3>1. th[t].pool = p /\ idle.at \notin Inside
        BY IdleCall DEF Inside, p
      <3> QED
        BY <3>1, <2>3, <1>1, <1>2, LeaveStep
    <2>6. TypeOK'
      <3>1. total' \in Nat
        BY <2>1, <1>6 DEF IInv, TypeOK
      <3> QED
        BY <3>1, <2>3, <2>4, <1>2, <1>4 DEF IInv, TypeOK
    <2>7. TotalInv'
      <3>1. numOfObjs \in [Pool -> Nat] /\ IsFiniteSet(Obj(numOfObjs))
            /\ total = Cardinality(Obj(numOfObjs))
        BY DEF IInv, TypeOK, TotalInv, TotalExact, Objects, Obj
      <3>2. /\ IsFiniteSet(Obj(numOfObjs'))
            /\ Cardinality(Obj(numOfObjs')) = Cardinality(Obj(numOfObjs)) + ((n + Delta) - n)
        <4>1. numOfObjs[p] = n
          OBVIOUS
        <4> HIDE DEF n
        <4> DEFINE g == [numOfObjs EXCEPT ![p] = n + Delta]
        <4>2. /\ IsFiniteSet(Obj(g))
              /\ Cardinality(Obj(g)) = Cardinality(Obj(numOfObjs)) + ((n + Delta) - n)
          BY <4>1, <3>1, <2>1, <1>1, ObjectsGrow
        <4>3. numOfObjs' = g
          BY <1>6
        <4> HIDE DEF g
        <4>4. Obj(numOfObjs') = Obj(g)
          BY <4>3 DEF Obj
        <4> QED
          BY <4>2, <4>4, Zenon
      <3>3. Cardinality(Obj(numOfObjs')) = total'
        BY <3>1, <3>2, <2>1, <1>3, <1>6
      <3> QED
        BY <3>2, <3>3 DEF TotalInv, TotalExact, Objects, Obj
    <2>8. LimitInv'
      <3> DEFINE e == Cardinality(Expanding)
      <3>1. e \in Nat /\ e - 1 \in Nat /\ Cardinality(Expanding') = e - 1 /\ IsFiniteSet(Expanding')
        <4>1. e \in Nat /\ IsFiniteSet(Expanding)
          BY ExpandingFinite
        <4>2. Cardinality(Expanding') = e - 1 /\ IsFiniteSet(Expanding')
          BY <4>1, <2>5, <1>5, FS_RemoveElement
        <4>3. Cardinality(Expanding') \in Nat
          BY <4>2, FS_CardinalityType
        <4> QED
          BY <4>1, <4>2, <4>3
      <3>2. (e - 1) * Delta \in Nat /\ e * Delta = (e - 1) * Delta + Delta
        <4>1. (e - 1) * Delta \in Nat /\ ((e - 1) + 1) * Delta = (e - 1) * Delta + Delta
          BY <3>1, <2>1, Multiples
        <4>2. (e - 1) + 1 = e
          BY <3>1
        <4> QED
          BY <4>1, <4>2
      <3>3. total \in Nat /\ total' \in Nat
        BY <2>6 DEF IInv, TypeOK
      <3>4. total' + Cardinality(Expanding') * Delta <= total + e * Delta
        <4> HIDE DEF e
        <4>1. total' + (e - 1) * Delta = total + e * Delta
          BY <3>2, <3>3, <2>1, <1>6
        <4>2. total + e * Delta \in Int
          BY <3>2, <3>3, <2>1
        <4> QED
          BY <4>1, <4>2, <3>1
      <3>5. sets = 0 => \A q \in Pool : numOfObjs'[q] <= maxObjs[q]
        BY <1>6 DEF IInv, LimitInv, TypeOK
      <3> QED
        BY <3>1, <3>3, <3>4, <3>5, <1>2, LimitStep
    <2> QED
      BY <2>3, <2>4, <2>5, <2>6, <2>7, <2>8 DEF IInv
  <1>7. CASE (\E rc \in {"LIMIT", "OOM"} : Refused(t, rc)) /\ UNCHANGED <<pools, total>>
    <2>1. PICK c : Moved(t, c) /\ c.at \notin Inside
      BY <1>7, RefusedMoves
    <2>2. th' \in [Thread -> Call] /\ TriesInv'
      BY <2>1, MovedThread DEF IInv
    <2>3. LatchInv' /\ Expanding' \subseteq Expanding
      BY <2>1, <1>1, <1>2, LeaveStep
    <2>4. UNCHANGED <<begin, numOfObjs, free, used, held, total>>
      BY <1>7 DEF Refused, pools
    <2>5. TypeOK'
      BY <2>2, <2>4, <1>2, <1>4 DEF IInv, TypeOK
    <2>6. ListExact' /\ HeldSafe' /\ TotalInv'
      BY <2>4, PoolsSame
    <2>7. LimitInv'
      BY <2>3, <2>4, <1>2, LimitSame
    <2> QED
      BY <2>2, <2>3, <2>5, <2>6, <2>7 DEF IInv
  <1> QED
    BY <1>6, <1>7 DEF expandList, InPool

(* release: only the holder can give an object back. *)
LEMMA ReleaseStep ==
  ASSUME IInv, NEW t \in Thread, NEW o \in held[t], release(t, o)
  PROVE  IInv'
  <1> DEFINE p == o[1]
             x == o[2]
  <1>1. o \in Pool \X Nat /\ p \in Pool /\ x \in Nat /\ o = <<p, x>>
    BY DEF IInv, TypeOK
  <1>2. /\ UNCHANGED <<numOfObjs, maxObjs, latch, maint, total, maxSize, round, setting,
                       shrinks, sets>>
        /\ th[t].at \notin Inside
    BY DEF release, bounds, At, Inside
  <1>3. Exact(free[p], used[p], begin[p], numOfObjs[p])
    BY <1>1, ListExactByPool DEF IInv
  <1>4. CASE /\ begin[p] > 0 /\ numOfObjs[p] > begin[p] /\ x \in used[p]
             /\ used' = [used EXCEPT ![p] = @ \ {x}]
             /\ begin' = [begin EXCEPT ![p] = @ - 1]
             /\ free' = [free EXCEPT ![p] = <<x>> \o @]
             /\ held' = [held EXCEPT ![t] = @ \ {o}]
             /\ th' = [th EXCEPT ![t] = idle]
    <2>1. Exact(<<x>> \o free[p], used[p] \ {x}, begin[p] - 1, numOfObjs[p])
      BY <1>3, <1>4, PutExact
    <2>2. begin[p] - 1 \in Nat /\ <<x>> \o free[p] \in Seq(Nat)
      <3>1. begin[p] \in Nat
        BY <1>1 DEF IInv, TypeOK
      <3> QED
        BY <3>1, <2>1, <1>4 DEF Exact
    <2>3. /\ begin' \in [Pool -> Nat] /\ free' \in [Pool -> Seq(Nat)]
          /\ used' \in [Pool -> SUBSET Nat]
      BY <2>2, <1>1, <1>4 DEF IInv, TypeOK
    <2>4. held' \in [Thread -> SUBSET (Pool \X Nat)]
      BY <1>4 DEF IInv, TypeOK
    <2>5. Moved(t, idle)
      BY <1>4, IdleCall DEF Moved
    <2>6. th' \in [Thread -> Call] /\ TriesInv'
      BY <2>5, MovedThread DEF IInv
    <2>7. LatchInv' /\ Expanding' = Expanding
      BY <2>5, <1>2, OutsideStep, IdleCall DEF Inside
    <2>8. TypeOK'
      BY <2>3, <2>4, <2>6, <1>2 DEF IInv, TypeOK
    <2>9. /\ begin'[p] = begin[p] - 1 /\ used'[p] = used[p] \ {x}
          /\ free'[p] = <<x>> \o free[p]
          /\ \A q \in Pool : q # p => /\ begin'[q] = begin[q] /\ used'[q] = used[q]
                                      /\ free'[q] = free[q]
      BY <1>1, <1>4 DEF IInv, TypeOK
    <2>10. ListExact'
      BY <2>1, <2>9, <1>2 DEF IInv, ListExact, Exact
    <2>11. HeldSafe'
      <3>1. held'[t] = held[t] \ {o} /\ \A u \in Thread : u # t => held'[u] = held[u]
        BY <1>4 DEF IInv, TypeOK
      <3>2. \A u, v \in Thread : u # v => held'[u] \cap held'[v] = {}
        BY <3>1 DEF IInv, HeldSafe
      <3>3. ASSUME NEW u \in Thread, NEW w \in held'[u]
            PROVE  w[2] \in used'[w[1]] /\ w[2] < numOfObjs'[w[1]]
        <4>1. w \in held[u] /\ w # o
          BY <3>1, <3>3 DEF IInv, HeldSafe
        <4>2. w \in Pool \X Nat /\ w[1] \in Pool /\ w = <<w[1], w[2]>>
          BY <4>1 DEF IInv, TypeOK
        <4>3. w[2] \in used[w[1]] /\ w[2] < numOfObjs[w[1]]
          BY <4>1 DEF IInv, HeldSafe
        <4>4. CASE w[1] = p
          <5>1. w[2] # x
            BY <4>1, <4>2, <4>4, <1>1
          <5> QED
            BY <5>1, <4>3, <4>4, <2>9, <1>2
        <4>5. CASE w[1] # p
          BY <4>2, <4>3, <4>5, <2>9, <1>2
        <4> QED
          BY <4>4, <4>5
      <3> QED
        BY <3>2, <3>3 DEF HeldSafe
    <2>12. TotalInv'
      BY <1>2 DEF IInv, TotalInv, TotalExact, Objects
    <2>13. LimitInv'
      BY <2>7, <1>2, LimitSame
    <2> QED
      BY <2>6, <2>7, <2>8, <2>10, <2>11, <2>12, <2>13 DEF IInv
  <1>5. CASE /\ th' = [th EXCEPT ![t] = [idle EXCEPT !.rc = "SYS"]]
             /\ UNCHANGED <<used, begin, free, held>>
    <2> DEFINE c == [idle EXCEPT !.rc = "SYS"]
    <2>1. c \in Call /\ c.at = "idle"
      BY IdleCall DEF Call, idle
    <2> HIDE DEF c
    <2>2. Moved(t, c) /\ c.at \notin Inside
      BY <2>1, <1>5 DEF Moved, Inside, c
    <2>3. th' \in [Thread -> Call] /\ TriesInv'
      BY <2>2, MovedThread DEF IInv
    <2>4. LatchInv' /\ Expanding' = Expanding
      BY <2>2, <1>2, OutsideStep
    <2>5. TypeOK'
      BY <2>3, <1>2, <1>5 DEF IInv, TypeOK
    <2>6. ListExact' /\ HeldSafe' /\ TotalInv'
      BY <1>2, <1>5, PoolsSame
    <2>7. LimitInv'
      BY <2>4, <1>2, LimitSame
    <2> QED
      BY <2>3, <2>4, <2>5, <2>6, <2>7 DEF IInv
  <1> QED
    BY <1>4, <1>5 DEF release

-----------------------------------------------------------------------------
(* Whole segments. *)
LEMMA WholeSegments ==
  ASSUME NEW m \in Nat, NEW d \in Nat \ {0}
  PROVE  m \div d \in Nat /\ (m \div d) * d <= m /\ m < (m \div d) * d + d
  OBVIOUS

(* What shrink keeps: the whole segments up to the highest object in use. *)
LEMMA SegmentsKept ==
  ASSUME IInv, NEW p \in Pool, NEW keep \in Nat,
         numOfObjs[p] \div Delta > segInUse(p, keep)
  PROVE  LET size == segInUse(p, keep) * Delta
         IN  size \in Nat /\ size <= numOfObjs[p] /\ \A x \in used[p] : x < size
  <1> DEFINE s == segInUse(p, keep)
             n == numOfObjs[p]
  <1>1. Exact(free[p], used[p], begin[p], n) /\ n \in Nat /\ Delta \in Nat \ {0}
    BY ListExactByPool, PoolAssumption DEF IInv, TypeOK
  <1>2. inUse(p) = used[p]
    BY <1>1 DEF inUse, Exact
  <1>3. /\ used[p] \in SUBSET Nat /\ (begin[p] > 0 <=> used[p] # {})
        /\ \A x \in used[p] : x < n
    BY <1>1, UsedFinite
  <1>4. s \in Nat /\ \A x \in used[p] : x < s * Delta
    <2>1. CASE begin[p] > 0
      <3> DEFINE m == Max(used[p])
                 q == m \div Delta
      <3>1. m \in Nat /\ \A x \in used[p] : x <= m
        BY <2>1, <1>1, <1>3, MaxOfNats
      <3> HIDE DEF m
      <3>2. q \in Nat /\ m < q * Delta + Delta
        BY <3>1, <1>1, WholeSegments
      <3> HIDE DEF q
      <3>3. s = q + 1 + keep
        BY <2>1, <1>2 DEF segInUse, q, m
      <3>4. (q + 1) * Delta = q * Delta + Delta /\ (q + 1) * Delta <= s * Delta
        BY <3>2, <3>3, <1>1, Multiples
      <3>5. s \in Nat /\ q * Delta \in Nat /\ s * Delta \in Nat
        BY <3>2, <3>3, <1>1, Multiples
      <3> HIDE DEF s
      <3> QED
        BY <3>1, <3>2, <3>4, <3>5, <1>1, <1>3
    <2>2. CASE ~(begin[p] > 0)
      BY <2>2, <1>3 DEF segInUse
    <2> QED
      BY <2>1, <2>2
  <1> HIDE DEF s
  <1>5. s * Delta \in Nat /\ s * Delta <= n
    <2> DEFINE k == n \div Delta
    <2>1. k \in Nat /\ k * Delta <= n
      BY <1>1, WholeSegments
    <2>2. k > s
      BY DEF s
    <2> HIDE DEF k, n
    <2>3. s * Delta \in Nat /\ k * Delta \in Nat /\ s * Delta <= k * Delta
      BY <2>1, <2>2, <1>1, <1>4, Multiples
    <2> QED
      BY <2>1, <2>2, <2>3, <1>1
  <1> QED
    BY <1>4, <1>5 DEF s

(* The done label: the latch is given up, for the next pool or for good. *)
LEMMA ShrinkDoneMoves ==
  ASSUME IInv, NEW t \in Thread, th[t].at = "shrink", NEW ok \in BOOLEAN, ShrinkDone(t, ok)
  PROVE  /\ th' \in [Thread -> Call] /\ TriesInv' /\ LatchInv'
         /\ Expanding' \subseteq Expanding
         /\ latch' \in [Pool -> Thread \cup {NoThread}] /\ maint' \in [Pool -> BOOLEAN]
  <1> DEFINE p == th[t].pool
             q == nextPool(p, ok)
             d == [th[t] EXCEPT !.at = "shrinkLatch", !.pool = q]
             c == IF q \in Pool THEN d ELSE idle
  <1>1. th[t] \in Call /\ p \in Pool
    BY DEF IInv, TypeOK, Call
  <1>2. /\ latch' = [latch EXCEPT ![p] = NoThread] /\ maint' = [maint EXCEPT ![p] = FALSE]
        /\ th' = [th EXCEPT ![t] = c]
    BY DEF ShrinkDone, InPool, IInv, TypeOK
  <1>3. c \in Call /\ c.at \in {"shrinkLatch", "idle"}
    <2>1. ASSUME q \in Pool PROVE d \in Call /\ d.at = "shrinkLatch"
      <3> HIDE DEF q
      <3> QED
        BY <2>1, <1>1 DEF Call
    <2> HIDE DEF d, q
    <2> QED
      BY <2>1, IdleCall
  <1> HIDE DEF c
  <1>4. Moved(t, c) /\ c.at \notin Inside /\ th[t].at \in Inside
    BY <1>2, <1>3 DEF Moved, Inside
  <1>5. th' \in [Thread -> Call] /\ TriesInv'
    BY <1>4, MovedThread DEF IInv
  <1>6. LatchInv' /\ Expanding' \subseteq Expanding
    BY <1>1, <1>2, <1>4, LeaveStep
  <1>7. latch' \in [Pool -> Thread \cup {NoThread}] /\ maint' \in [Pool -> BOOLEAN]
    BY <1>2 DEF IInv, TypeOK
  <1> QED
    BY <1>5, <1>6, <1>7

LEMMA ShrinkPoolStep ==
  ASSUME IInv, NEW t \in Thread, shrinkPool(t)
  PROVE  IInv'
  <1> DEFINE p == th[t].pool
             n == numOfObjs[p]
             size == segInUse(p, segToKeep(t)) * Delta
  <1>1. th[t].at = "shrink" /\ p \in Pool
    BY DEF shrinkPool, At, IInv, TypeOK, Call
  <1>2. UNCHANGED <<maxObjs, maxSize, round, setting, held, shrinks, sets>>
    BY DEF shrinkPool, bounds
  <1>3. \E ok \in BOOLEAN : ShrinkDone(t, ok)
    BY DEF shrinkPool
  <1>4. /\ th' \in [Thread -> Call] /\ TriesInv' /\ LatchInv'
        /\ Expanding' \subseteq Expanding
        /\ latch' \in [Pool -> Thread \cup {NoThread}] /\ maint' \in [Pool -> BOOLEAN]
    BY <1>1, <1>3, ShrinkDoneMoves
  <1>5. CASE UNCHANGED <<pools, total>>
    <2>1. UNCHANGED <<begin, numOfObjs, free, used, total>>
      BY <1>5 DEF pools
    <2>2. TypeOK'
      BY <2>1, <1>2, <1>4 DEF IInv, TypeOK
    <2>3. ListExact' /\ HeldSafe' /\ TotalInv'
      BY <2>1, <1>2, PoolsSame
    <2>4. LimitInv'
      BY <2>1, <1>2, <1>4, LimitSame
    <2> QED
      BY <2>2, <2>3, <2>4, <1>4 DEF IInv
  <1>6. CASE /\ Spare(p, segToKeep(t))
             /\ free' = [free EXCEPT ![p] = keptFree(p, size)]
             /\ numOfObjs' = [numOfObjs EXCEPT ![p] = size]
             /\ total' = total - (n - size)
             /\ UNCHANGED <<begin, used>>
    <2>1. segToKeep(t) \in Nat
      BY DEF segToKeep
    <2>2. size \in Nat /\ size <= n /\ \A x \in used[p] : x < size
      BY <2>1, <1>1, <1>6, SegmentsKept DEF Spare
    <2> HIDE DEF size, p
    <2>3. n \in Nat /\ Exact(free[p], used[p], begin[p], n)
      BY <1>1, ListExactByPool DEF IInv, TypeOK
    <2>4. Exact(keptFree(p, size), used[p], begin[p], size)
      BY <2>2, <2>3, ShrinkExact DEF keptFree
    <2>5. /\ free'[p] = keptFree(p, size) /\ numOfObjs'[p] = size
          /\ \A q \in Pool : q # p => free'[q] = free[q] /\ numOfObjs'[q] = numOfObjs[q]
      BY <1>1, <1>6 DEF IInv, TypeOK
    <2>6. free' \in [Pool -> Seq(Nat)] /\ numOfObjs' \in [Pool -> Nat]
      <3>1. keptFree(p, size) \in Seq(Nat)
        BY <2>4 DEF Exact
      <3> QED
        BY <3>1, <2>2, <1>1, <1>6 DEF IInv, TypeOK
    <2>7. ListExact'
      BY <2>4, <2>5, <1>6 DEF IInv, ListExact, Exact
    <2>8. HeldSafe'
      <3>1. ASSUME NEW u \in Thread, NEW o \in held[u]
            PROVE  o[2] \in used[o[1]] /\ o[2] < numOfObjs'[o[1]]
        <4>1. o[1] \in Pool /\ o[2] \in used[o[1]] /\ o[2] < numOfObjs[o[1]]
          BY DEF IInv, HeldSafe, TypeOK
        <4> QED
          BY <4>1, <2>2, <2>5
      <3> QED
        BY <3>1, <1>2, <1>6 DEF IInv, HeldSafe
    <2>9. TotalInv' /\ total' \in Nat /\ total \in Nat
      <3>1. /\ IsFiniteSet(Obj(numOfObjs)) /\ total = Cardinality(Obj(numOfObjs))
        BY DEF IInv, TotalInv, TotalExact, Objects, Obj
      <3>2. numOfObjs = [numOfObjs' EXCEPT ![p] = n]
        BY <1>1, <1>6 DEF IInv, TypeOK
      <3> HIDE DEF n
      <3> DEFINE g == [numOfObjs' EXCEPT ![p] = n]
      <3>3. /\ IsFiniteSet(Obj(g)) <=> IsFiniteSet(Obj(numOfObjs'))
            /\ IsFiniteSet(Obj(numOfObjs')) =>
                 /\ Cardinality(Obj(numOfObjs')) \in Nat
                 /\ Cardinality(Obj(g)) = Cardinality(Obj(numOfObjs')) + (n - numOfObjs'[p])
        BY <2>2, <2>3, <2>5, <2>6, <1>1, ObjectsGrow
      <3> HIDE DEF g
      <3>4. /\ IsFiniteSet(Obj(numOfObjs')) /\ Cardinality(Obj(numOfObjs')) \in Nat
            /\ total = Cardinality(Obj(numOfObjs')) + (n - size)
        <4>1. g = numOfObjs
          BY <3>2 DEF g
        <4> QED
          BY <4>1, <3>1, <3>3, <2>5
      <3>5. total' = Cardinality(Obj(numOfObjs')) /\ total' \in Nat
        <4>1. ASSUME NEW a \in Int, NEW b \in Nat, NEW k \in Nat, NEW m \in Nat,
                     a = b + (k - m)
              PROVE  a - (k - m) = b
          BY <4>1
        <4>2. total - (n - size) = Cardinality(Obj(numOfObjs'))
          <5>1. total \in Int
            BY DEF IInv, TypeOK
          <5> HIDE DEF Obj
          <5> QED
            BY <4>1, <5>1, <3>4, <2>2, <2>3
        <4> QED
          BY <4>2, <3>4, <1>6, Zenon
      <3>6. total \in Nat
        BY DEF IInv, TypeOK
      <3> QED
        BY <3>4, <3>5, <3>6 DEF TotalInv, TotalExact, Objects, Obj
    <2>10. TypeOK'
      BY <2>6, <2>9, <1>2, <1>4, <1>6 DEF IInv, TypeOK
    <2>11. LimitInv'
      <3> DEFINE e == Cardinality(Expanding)
                 f == Cardinality(Expanding')
      <3>1. IsFiniteSet(Expanding') /\ f \in Nat /\ f <= e /\ e \in Nat
        <4>1. IsFiniteSet(Expanding') /\ f <= e
          BY <1>4, ExpandingFinite, FS_Subset
        <4> QED
          BY <4>1, FS_CardinalityType, ExpandingFinite
      <3>2. e * Delta \in Nat /\ f * Delta \in Nat /\ f * Delta <= e * Delta
        BY <3>1, Multiples, PoolAssumption
      <3>3. total' <= total
        BY <2>2, <2>3, <2>9, <1>6
      <3>4. total' + f * Delta <= total + e * Delta
        BY <3>2, <3>3, <2>9
      <3>5. sets = 0 => \A q \in Pool : numOfObjs'[q] <= maxObjs[q]
        <4> SUFFICES ASSUME sets = 0, NEW q \in Pool PROVE numOfObjs'[q] <= maxObjs[q]
          OBVIOUS
        <4>1. numOfObjs[q] <= maxObjs[q] /\ numOfObjs[q] \in Nat /\ maxObjs[q] \in Nat
          BY DEF IInv, LimitInv, TypeOK
        <4> QED
          BY <4>1, <2>2, <2>5
      <3> QED
        BY <3>1, <3>4, <3>5, <2>9, <1>2, LimitStep
    <2> QED
      BY <2>7, <2>8, <2>9, <2>10, <2>11, <1>4 DEF IInv
  <1> QED
    BY <1>5, <1>6 DEF shrinkPool, InPool

-----------------------------------------------------------------------------
(* Every step keeps the invariant. *)
LEMMA StepInv == IInv /\ [Next]_vars => IInv'
  <1> SUFFICES ASSUME IInv, [Next]_vars PROVE IInv'
    OBVIOUS
  <1>1. ASSUME NEW t \in Thread, NEW m \in Manager, alloc(t, m) PROVE IInv'
    BY <1>1, AllocStep
  <1>2. ASSUME NEW t \in Thread, shrink(t) PROVE IInv'
    BY <1>2, ShrinkCallStep
  <1>3. ASSUME NEW t \in Thread, Step(t) PROVE IInv'
    BY <1>3, PickStep, TryAcquireStep, ExpandListStep, ShrinkLatchStep, ShrinkPoolStep
       DEF Step
  <1>4. ASSUME NEW t \in Thread, NEW o \in held[t], release(t, o) PROVE IInv'
    BY <1>4, ReleaseStep
  <1>5. CASE (\E m \in MaxSizes : setMaxSize(m)) \/ setMaxObjects
    BY <1>5, SetStep
  <1>6. CASE UNCHANGED vars
    <2>1. UNCHANGED <<begin, numOfObjs, free, used, maxObjs, latch, maint, total, maxSize,
                      round, setting, th, held, shrinks, sets>>
      BY <1>6 DEF vars, pools, bounds
    <2>2. TypeOK' /\ LatchInv' /\ TriesInv' /\ Expanding' = Expanding
      BY <2>1 DEF IInv, TypeOK, LatchInv, TriesInv, Expanding
    <2>3. ListExact' /\ HeldSafe' /\ TotalInv'
      BY <2>1, PoolsSame
    <2>4. LimitInv'
      BY <2>1, <2>2, LimitSame
    <2> QED
      BY <2>2, <2>3, <2>4 DEF IInv
  <1> QED
    BY <1>1, <1>2, <1>3, <1>4, <1>5, <1>6 DEF Next

(* The invariant of the block pool, for any threads, managers, pools of a  *)
(* manager, segment size and limits: who expands or shrinks a pool has its *)
(* latch, lists and flags agree, and the total counts what the limit must. *)
THEOREM Invariance == Spec => []IInv
  <1> QED
    BY InitInv, StepInv, PTL DEF Spec

(* Type correctness: acquire asks at most P + 1 pools of a manager.        *)
THEOREM TypeCorrect == Spec => []TypeOK
  <1>1. IInv => TypeOK
    BY DEF IInv
  <1> QED
    BY <1>1, Invariance, PTL

(* acquire, release, _expandList and shrink keep the accounts exact: every *)
(* object is in the list once or in use, an object somebody holds is his   *)
(* alone and its segment stays, the handler's total is the memory of the   *)
(* pools, and as long as setMaxSize is not called the pools outgrow        *)
(* _maxSize by less than a segment for each pool but one.                  *)
THEOREM PoolIsExact == Spec => []PoolExact
  <1>1. IInv => PoolExact
    <2> SUFFICES ASSUME IInv PROVE PoolExact
      OBVIOUS
    <2>1. ASSUME sets = 0 PROVE total = 0 \/ total < maxSize + (M * P - 1) * Delta
      <3> DEFINE e == Cardinality(Expanding)
      <3>1. e \in Nat /\ Delta \in Nat /\ M * P - 1 \in Nat
        BY ExpandingFinite, Constants, PoolAssumption
      <3>2. e * Delta \in Nat /\ (M * P - 1) * Delta \in Nat
        BY <3>1, Multiples
      <3>3. total \in Nat /\ maxSize \in Nat
        BY PoolAssumption DEF IInv, TypeOK
      <3>4. total = 0 \/ total + e * Delta < maxSize + (M * P - 1) * Delta
        BY <2>1 DEF IInv, LimitInv
      <3> HIDE DEF e
      <3> QED
        BY <3>2, <3>3, <3>4
    <2>2. LimitKept
      BY <2>1 DEF IInv, LimitInv, LimitKept
    <2> QED
      BY <2>2 DEF IInv, TotalInv, PoolExact
  <1> QED
    BY <1>1, Invariance, PTL
=============================================================================
