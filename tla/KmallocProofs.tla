---------------------------- MODULE KmallocProofs ----------------------------
(***************************************************************************)
(* The kernel heap, for any zone, any sizes and any slabs, as long as only *)
(* blocks of the first size are freed: the counters of slabs and caches    *)
(* say what the bitmaps say, no block is lost, and none is handed out      *)
(* twice.                                                                  *)
(*                                                                         *)
(* kmalloc of a large size calls itself between taking a page and putting  *)
(* it into a list, so the invariant is stated of a heap h and of the pages *)
(* that are under way, and each part of a call has its lemma.              *)
(***************************************************************************)
EXTENDS Kmalloc, FiniteSetTheorems, SequenceTheorems, WellFoundedInduction, TLAPS

-----------------------------------------------------------------------------
(* Least and greatest naturals. *)

LessThan == OpToRel(<, Nat)

LEMMA LessThanWellFounded == IsWellFoundedOn(LessThan, Nat)
BY NatLessThanWellFounded, Zenon DEF LessThan

LEMMA LessThanIs == \A i, j \in Nat : i < j => <<i, j>> \in LessThan
BY DEF LessThan, OpToRel

\* A set of naturals that has an element has a least one.
LEMMA LeastNatural ==
  ASSUME NEW S, S \subseteq Nat, S # {}
  PROVE  \E i \in S : \A j \in S : i <= j
<1>1. PICK i \in S : \A j \in S : <<j, i>> \notin LessThan
  BY LessThanWellFounded, WFMin
<1>2. ASSUME NEW j \in S PROVE i <= j
  <2>1. i \in Nat /\ j \in Nat /\ ~(j < i)
    BY <1>1, LessThanIs
  <2> QED
    BY <2>1
<1> QED
  BY <1>2

\* A set that has 0, and the successor of each natural it has, has them all.
LEMMA AllNaturals ==
  ASSUME NEW S, 0 \in S, \A k \in Nat : k \in S => k + 1 \in S
  PROVE  Nat \subseteq S
<1> DEFINE Rest0 == Nat \ S
<1> SUFFICES ASSUME Rest0 # {} PROVE FALSE
  OBVIOUS
<1>1. PICK i \in Rest0 : \A j \in Rest0 : i <= j
  BY LeastNatural
<1>2. i \in Nat /\ i # 0
  BY <1>1
<1>3. i - 1 \in Nat /\ (i - 1) + 1 = i /\ ~(i <= i - 1)
  BY <1>2
<1>4. i - 1 \in S
  BY <1>1, <1>3
<1> QED
  BY <1>1, <1>3, <1>4

\* A finite set of naturals that has an element has a greatest one.
LEMMA GreatestNatural ==
  ASSUME NEW S, S \subseteq Nat, S # {}, IsFiniteSet(S)
  PROVE  \E i \in S : \A j \in S : j <= i
<1> DEFINE Good(n) == \A T : /\ IsFiniteSet(T) /\ T \subseteq Nat
                             /\ Cardinality(T) = n + 1
                             => \E i \in T : \A j \in T : j <= i
<1> DEFINE G == {n \in Nat : Good(n)}
<1>1. ASSUME NEW n \in Nat, n = 0 \/ (n - 1 \in Nat /\ Good(n - 1)) PROVE Good(n)
  <2> SUFFICES ASSUME NEW T, IsFiniteSet(T), T \subseteq Nat, Cardinality(T) = n + 1
               PROVE  \E i \in T : \A j \in T : j <= i
    OBVIOUS
  <2>1. PICK x \in T : TRUE
    <3>1. Cardinality(T) # 0
      OBVIOUS
    <3>2. T # {}
      BY <3>1, FS_EmptySet, Zenon
    <3> QED
      BY <3>2
  <2> DEFINE U == T \ {x}
  <2>2. IsFiniteSet(U) /\ Cardinality(U) = n /\ x \in Nat
    <3>1. /\ IsFiniteSet(T \ {x})
          /\ Cardinality(T \ {x}) = IF x \in T THEN Cardinality(T) - 1 ELSE Cardinality(T)
      BY FS_RemoveElement
    <3> QED
      BY <3>1
  <2>3. CASE n = 0
    <3>1. U = {}
      BY <2>2, <2>3, FS_EmptySet
    <3> QED
      BY <2>1, <2>2, <3>1
  <2>4. CASE n # 0
    <3>1. n - 1 \in Nat /\ (n - 1) + 1 = n /\ Good(n - 1)
      BY <1>1, <2>4
    <3>2. PICK i \in U : \A j \in U : j <= i
      <4> HIDE DEF U
      <4>1. U \subseteq Nat
        BY DEF U
      <4> QED
        BY <2>2, <3>1, <4>1
    <3>3. CASE x <= i
      BY <2>1, <3>2, <3>3
    <3>4. CASE ~(x <= i)
      <4>1. \A j \in T : j <= x
        BY <2>2, <3>2, <3>4
      <4> QED
        BY <2>1, <4>1
    <3> QED
      BY <3>3, <3>4
  <2> QED
    BY <2>3, <2>4
<1>2. 0 \in G
  <2>1. Good(0)
    BY <1>1
  <2> QED
    BY <2>1
<1>3. ASSUME NEW k \in Nat, k \in G PROVE k + 1 \in G
  <2>1. k + 1 \in Nat /\ (k + 1) - 1 = k /\ Good(k)
    BY <1>3
  <2>2. Good(k + 1)
    <3> HIDE DEF Good
    <3> QED
      BY <1>1, <2>1
  <2> QED
    BY <2>1, <2>2
<1>4. Nat \subseteq G
  <2> HIDE DEF G
  <2> QED
    BY <1>2, <1>3, AllNaturals
<1>5. Cardinality(S) \in Nat /\ Cardinality(S) # 0
  BY FS_CardinalityType, FS_EmptySet
<1>6. Cardinality(S) - 1 \in Nat /\ (Cardinality(S) - 1) + 1 = Cardinality(S)
  BY <1>5
<1> QED
  BY <1>4, <1>6

-----------------------------------------------------------------------------
(* Sums. *)

SumOf(g, S) == MapThenSumSet(LAMBDA p : g[p], S)

\* As many things as the sum counts.
Units(g, S) == UNION {{p} \X (1 .. g[p]) : p \in S}

\* A set without one of its elements.
LEMMA OneLess ==
  ASSUME NEW T, IsFiniteSet(T), NEW x \in T, NEW n \in Nat, Cardinality(T) = n + 1
  PROVE  Cardinality(T \ {x}) = n
<1>1. Cardinality(T \ {x}) = IF x \in T THEN Cardinality(T) - 1 ELSE Cardinality(T)
  BY FS_RemoveElement
<1> QED
  BY <1>1

LEMMA Singleton == ASSUME NEW x PROVE IsFiniteSet({x}) /\ Cardinality({x}) = 1
<1>1. IsFiniteSet({}) /\ Cardinality({}) = 0 /\ {} \cup {x} = {x} /\ x \notin {}
  BY FS_EmptySet
<1>2. /\ IsFiniteSet({} \cup {x})
      /\ Cardinality({} \cup {x}) = IF x \in {} THEN Cardinality({}) ELSE Cardinality({}) + 1
  BY <1>1, FS_AddElement
<1> QED
  BY <1>1, <1>2

LEMMA UnitsOne ==
  ASSUME NEW p, NEW g, g[p] \in Nat
  PROVE  IsFiniteSet({p} \X (1 .. g[p])) /\ Cardinality({p} \X (1 .. g[p])) = g[p]
<1>1. IsFiniteSet({p}) /\ Cardinality({p}) = 1
  BY Singleton
<1>2. IsFiniteSet(1 .. g[p]) /\ Cardinality(1 .. g[p]) = g[p]
  BY FS_Interval
<1>3. /\ IsFiniteSet({p} \X (1 .. g[p]))
      /\ Cardinality({p} \X (1 .. g[p])) = Cardinality({p}) * Cardinality(1 .. g[p])
  BY <1>1, <1>2, FS_Product
<1>4. 1 * g[p] = g[p]
  OBVIOUS
<1> QED
  BY <1>1, <1>2, <1>3, <1>4

LEMMA UnitsAdd ==
  ASSUME NEW g, NEW S, NEW x, x \notin S, g[x] \in Nat, IsFiniteSet(Units(g, S))
  PROVE  /\ IsFiniteSet(Units(g, S \cup {x}))
         /\ Cardinality(Units(g, S \cup {x})) = g[x] + Cardinality(Units(g, S))
<1> DEFINE X == {x} \X (1 .. g[x])
<1>1. IsFiniteSet(X) /\ Cardinality(X) = g[x]
  BY UnitsOne
<1>2. Units(g, S \cup {x}) = Units(g, S) \cup X
  BY DEF Units
<1>3. Units(g, S) \cap X = {}
  BY DEF Units
<1> HIDE DEF X
<1>4. /\ IsFiniteSet(Units(g, S) \cup X)
      /\ Cardinality(Units(g, S) \cup X) =
           Cardinality(Units(g, S)) + Cardinality(X) - Cardinality(Units(g, S) \cap X)
  BY <1>1, FS_Union
<1>5. Cardinality(Units(g, S) \cap X) = 0
  BY <1>3, FS_EmptySet
<1>6. Cardinality(Units(g, S)) \in Nat
  BY FS_CardinalityType
<1>7. Cardinality(Units(g, S) \cup X) = g[x] + Cardinality(Units(g, S))
  BY <1>1, <1>4, <1>5, <1>6
<1> QED
  BY <1>2, <1>4, <1>7, Zenon

LEMMA UnitsNone == ASSUME NEW g PROVE IsFiniteSet(Units(g, {})) /\ Cardinality(Units(g, {})) = 0
<1>1. Units(g, {}) = {}
  BY DEF Units
<1> QED
  BY <1>1, FS_EmptySet

LEMMA UnitsFinite ==
  ASSUME NEW g, NEW S, IsFiniteSet(S), \A p \in S : g[p] \in Nat
  PROVE  IsFiniteSet(Units(g, S))
<1> DEFINE G == {n \in Nat : \A T \in SUBSET S : Cardinality(T) = n => IsFiniteSet(Units(g, T))}
<1>1. 0 \in G
  <2>1. ASSUME NEW T \in SUBSET S, Cardinality(T) = 0 PROVE IsFiniteSet(Units(g, T))
    <3>1. T = {}
      BY <2>1, FS_Subset, FS_EmptySet
    <3> QED
      BY <3>1, UnitsNone
  <2> QED
    BY <2>1
<1>2. ASSUME NEW n \in Nat, n \in G PROVE n + 1 \in G
  <2>1. ASSUME NEW T \in SUBSET S, Cardinality(T) = n + 1 PROVE IsFiniteSet(Units(g, T))
    <3>1. IsFiniteSet(T) /\ T # {}
      <4>1. n + 1 # 0
        OBVIOUS
      <4> QED
        BY <2>1, <4>1, FS_Subset, FS_EmptySet
    <3>2. PICK x \in T : TRUE
      BY <3>1
    <3>3. Cardinality(T \ {x}) = n /\ T \ {x} \in SUBSET S
      BY <2>1, <3>1, <3>2, OneLess
    <3>4. IsFiniteSet(Units(g, T \ {x}))
      BY <1>2, <3>3
    <3>5. (T \ {x}) \cup {x} = T /\ x \notin T \ {x} /\ g[x] \in Nat
      BY <3>2
    <3>6. IsFiniteSet(Units(g, (T \ {x}) \cup {x}))
      BY <3>4, <3>5, UnitsAdd
    <3> QED
      BY <3>5, <3>6
  <2> QED
    BY <2>1
<1>3. Nat \subseteq G
  <2> HIDE DEF G
  <2> QED
    BY <1>1, <1>2, AllNaturals
<1> QED
  BY <1>3, FS_CardinalityType

\* One turn of the fold.
SumStep(g, S, f) ==
  [s \in SUBSET S |-> IF s = {} THEN 0
                      ELSE LET x == CHOOSE y \in s : TRUE IN g[x] + f[s \ {x}]]

LEMMA SumOfIs == ASSUME NEW g, NEW S PROVE SumOf(g, S) = (CHOOSE f : f = SumStep(g, S, f))[S]
BY Zenon DEF SumOf, MapThenSumSet, MapThenFoldSet, SumStep

\* The fold sums up, in whatever order it takes the elements.
LEMMA SumCounts ==
  ASSUME NEW g, NEW S, IsFiniteSet(S), \A p \in S : g[p] \in Nat
  PROVE  SumOf(g, S) = Cardinality(Units(g, S))
<1> DEFINE c == [s \in SUBSET S |-> Cardinality(Units(g, s))]
<1>1. ASSUME NEW s \in SUBSET S, s # {}, NEW x \in s
      PROVE  c[s] = g[x] + c[s \ {x}]
  <2>1. s \ {x} \in SUBSET S /\ IsFiniteSet(s \ {x}) /\ \A p \in s \ {x} : g[p] \in Nat
    BY FS_Subset
  <2>2. IsFiniteSet(Units(g, s \ {x}))
    BY <2>1, UnitsFinite
  <2>3. (s \ {x}) \cup {x} = s /\ x \notin s \ {x} /\ g[x] \in Nat
    OBVIOUS
  <2>4. Cardinality(Units(g, (s \ {x}) \cup {x})) = g[x] + Cardinality(Units(g, s \ {x}))
    BY <2>2, <2>3, UnitsAdd
  <2> QED
    BY <2>1, <2>3, <2>4
<1>2. c[{}] = 0
  BY UnitsNone
<1> HIDE DEF c
<1>3. \A s \in SUBSET S : s # {} => (CHOOSE y \in s : TRUE) \in s
  OBVIOUS
<1>4. c = SumStep(g, S, c)
  <2>1. c = [s \in SUBSET S |-> c[s]]
    BY DEF c
  <2>2. ASSUME NEW s \in SUBSET S
        PROVE  c[s] = IF s = {} THEN 0
                      ELSE LET x == CHOOSE y \in s : TRUE IN g[x] + c[s \ {x}]
    BY <1>1, <1>2, <1>3
  <2> QED
    BY <2>1, <2>2, Zenon DEF SumStep
<1> DEFINE f == CHOOSE h : h = SumStep(g, S, h)
<1>5. f = SumStep(g, S, f)
  BY <1>4, Zenon
<1>6. SumOf(g, S) = f[S]
  BY SumOfIs
<1> HIDE DEF f
<1>7. f[{}] = 0
  BY <1>5 DEF SumStep
<1>8. ASSUME NEW s \in SUBSET S, s # {} PROVE \E x \in s : f[s] = g[x] + f[s \ {x}]
  <2> DEFINE x == CHOOSE y \in s : TRUE
  <2>1. x \in s
    BY <1>3, <1>8
  <2>2. f[s] = g[x] + f[s \ {x}]
    BY <1>5, <1>8, Zenon DEF SumStep
  <2> HIDE DEF x
  <2> QED
    BY <2>1, <2>2
<1> DEFINE G == {n \in Nat : \A s \in SUBSET S : Cardinality(s) = n => f[s] = c[s]}
<1>9. 0 \in G
  <2>1. ASSUME NEW s \in SUBSET S, Cardinality(s) = 0 PROVE s = {}
    BY <2>1, FS_Subset, FS_EmptySet
  <2> QED
    BY <1>2, <1>7, <2>1
<1>10. ASSUME NEW n \in Nat, n \in G PROVE n + 1 \in G
  <2>1. ASSUME NEW s \in SUBSET S, Cardinality(s) = n + 1 PROVE f[s] = c[s]
    <3>1. IsFiniteSet(s) /\ s # {}
      <4>1. n + 1 # 0
        OBVIOUS
      <4> QED
        BY <2>1, <4>1, FS_Subset, FS_EmptySet
    <3>2. PICK x \in s : f[s] = g[x] + f[s \ {x}]
      BY <1>8, <3>1
    <3>3. Cardinality(s \ {x}) = n /\ s \ {x} \in SUBSET S
      BY <2>1, <3>1, <3>2, OneLess
    <3> QED
      BY <1>1, <1>10, <3>1, <3>2, <3>3
  <2> QED
    BY <2>1
<1>11. Nat \subseteq G
  <2> HIDE DEF G
  <2> QED
    BY <1>9, <1>10, AllNaturals
<1>12. f[S] = c[S]
  BY <1>11, FS_CardinalityType
<1> QED
  BY <1>6, <1>12 DEF c

\* A sum, taken apart; a sum of the same numbers; a sum of nothing.
LEMMA SumTakes ==
  ASSUME NEW g, NEW S, IsFiniteSet(S), \A p \in S : g[p] \in Nat, NEW x \in S
  PROVE  SumOf(g, S) = g[x] + SumOf(g, S \ {x}) /\ SumOf(g, S \ {x}) \in Nat
<1>1. IsFiniteSet(S \ {x}) /\ \A p \in S \ {x} : g[p] \in Nat
  BY FS_Subset
<1>2. IsFiniteSet(Units(g, S \ {x}))
  BY <1>1, UnitsFinite
<1>3. (S \ {x}) \cup {x} = S /\ x \notin S \ {x} /\ g[x] \in Nat
  OBVIOUS
<1>4. Cardinality(Units(g, (S \ {x}) \cup {x})) = g[x] + Cardinality(Units(g, S \ {x}))
  BY <1>2, <1>3, UnitsAdd
<1> QED
  BY <1>1, <1>2, <1>3, <1>4, SumCounts, FS_CardinalityType

LEMMA SumSame ==
  ASSUME NEW g, NEW h, NEW S, IsFiniteSet(S), \A p \in S : g[p] \in Nat /\ h[p] = g[p]
  PROVE  SumOf(h, S) = SumOf(g, S)
<1>1. Units(h, S) = Units(g, S)
  BY DEF Units
<1> QED
  BY <1>1, SumCounts

LEMMA SumNone == ASSUME NEW g PROVE SumOf(g, {}) = 0
BY SumCounts, UnitsNone, FS_EmptySet

LEMMA SumOne ==
  ASSUME NEW g, NEW x, g[x] \in Nat
  PROVE  SumOf(g, {x}) = g[x]
<1>1. IsFiniteSet({x}) /\ {x} \ {x} = {}
  BY Singleton
<1>2. SumOf(g, {x}) = g[x] + SumOf(g, {x} \ {x})
  BY <1>1, SumTakes
<1> QED
  BY <1>1, <1>2, SumNone

-----------------------------------------------------------------------------
(* The heap. *)

HeapRec == [bits_map : SUBSET Page, total_pages_link : Nat, page_free_count : Nat,
            pool : [Sizes -> Seq(Page)],
            color_count : [Page -> Nat], color_map : [Page -> SUBSET Slots],
            free_count : [Page -> Nat], using_count : [Page -> Nat],
            total_free : [Sizes -> Nat], total_using : [Sizes -> Nat]]

SlabsOf(h, s) == Range(h.pool[s])
AllSlabs(h) == UNION {SlabsOf(h, s) : s \in Sizes}
BlocksOf(h) == {b \in Block : /\ b.page \in SlabsOf(h, b.size)
                              /\ b.index \in h.color_map[b.page]}

\* The pages in use are those of the slabs and those under way, X.
PagesSound(h, X) ==
  /\ h.bits_map = AllSlabs(h) \cup X /\ AllSlabs(h) \cap X = {}
  /\ h.page_free_count = Cardinality(Page \ h.bits_map)
  /\ h.total_pages_link = Cardinality(h.bits_map)
  /\ \A s \in Sizes : IsInjective(h.pool[s])
  /\ \A s, t \in Sizes : s # t => SlabsOf(h, s) \cap SlabsOf(h, t) = {}

SlabSound(h, p) ==
  /\ h.color_map[p] \subseteq 0 .. (h.color_count[p] - 1)
  /\ h.using_count[p] = Cardinality(h.color_map[p])
  /\ h.free_count[p] = h.color_count[p] - h.using_count[p]

MapsSound(h) ==
  \A s \in Sizes : \A p \in SlabsOf(h, s) : SlabSound(h, p) /\ h.color_count[p] <= BootCount[s]

SumsSound(h) ==
  \A s \in Sizes : /\ h.total_free[s] = SumOf(h.free_count, SlabsOf(h, s))
                   /\ h.total_using[s] = SumOf(h.using_count, SlabsOf(h, s))

HeapSound(h, X) == h \in HeapRec /\ PagesSound(h, X) /\ MapsSound(h) /\ SumsSound(h)

\* The slots of a slab are slots.
LEMMA SlotsAre ==
  \A s \in Sizes : \A n \in Nat : n <= BootCount[s] => n \in Slots
<1> DEFINE S == {BootCount[s] : s \in Sizes}
<1>1. Size32 \in Sizes /\ \A s \in Sizes : BootCount[s] \in Nat
  BY KmallocAssumption DEF Sizes
<1>2. IsFiniteSet(Sizes)
  <2>1. BootSlab \in Injection(Sizes, Page) /\ IsFiniteSet(Page)
    BY KmallocAssumption DEF Injection, IsInjective
  <2> QED
    BY <2>1, FS_Injection
<1>3. IsFiniteSet(S)
  <2>1. [s \in Sizes |-> BootCount[s]] \in Surjection(Sizes, S)
    BY DEF Surjection
  <2> QED
    BY <1>2, <2>1, FS_Surjection
<1>4. S # {} /\ S \subseteq Nat
  BY <1>1
<1>5. PICK i \in S : \A j \in S : j <= i
  <2> HIDE DEF S
  <2> QED
    BY <1>3, <1>4, GreatestNatural
<1> DEFINE top == CHOOSE n \in S : \A s \in Sizes : BootCount[s] <= n
<1>6. top \in S /\ \A s \in Sizes : BootCount[s] <= top
  <2>1. \A s \in Sizes : BootCount[s] <= i
    BY <1>5
  <2> HIDE DEF S
  <2> QED
    BY <1>5, <2>1, Zenon
<1>7. Slots = 0 .. top
  BY Zenon DEF Slots
<1>8. top \in Nat
  BY <1>4, <1>6
<1> HIDE DEF top
<1> QED
  BY <1>1, <1>6, <1>7, <1>8

\* Two heaps agree in every field but one.
SameBut(g, h, field) ==
  /\ field # "bits_map" => g.bits_map = h.bits_map
  /\ field # "total_pages_link" => g.total_pages_link = h.total_pages_link
  /\ field # "page_free_count" => g.page_free_count = h.page_free_count
  /\ field # "pool" => g.pool = h.pool
  /\ field # "color_count" => g.color_count = h.color_count
  /\ field # "color_map" => g.color_map = h.color_map
  /\ field # "free_count" => g.free_count = h.free_count
  /\ field # "using_count" => g.using_count = h.using_count
  /\ field # "total_free" => g.total_free = h.total_free
  /\ field # "total_using" => g.total_using = h.total_using

\* An update of one field.
Updated(g, h, field, v) == g \in HeapRec /\ g[field] = v /\ SameBut(g, h, field)

\* An update of a function at one place.
At(g, e, x, v) == g = [e EXCEPT ![x] = v]

LEMMA Update ==
  ASSUME NEW h \in HeapRec
  PROVE  /\ \A v \in SUBSET Page : Updated([h EXCEPT !.bits_map = v], h, "bits_map", v)
         /\ \A v \in Nat : Updated([h EXCEPT !.total_pages_link = v], h, "total_pages_link", v)
         /\ \A v \in Nat : Updated([h EXCEPT !.page_free_count = v], h, "page_free_count", v)
         /\ \A v \in [Sizes -> Seq(Page)] : Updated([h EXCEPT !.pool = v], h, "pool", v)
         /\ \A v \in [Page -> Nat] : Updated([h EXCEPT !.color_count = v], h, "color_count", v)
         /\ \A v \in [Page -> SUBSET Slots] :
               Updated([h EXCEPT !.color_map = v], h, "color_map", v)
         /\ \A v \in [Page -> Nat] : Updated([h EXCEPT !.free_count = v], h, "free_count", v)
         /\ \A v \in [Page -> Nat] : Updated([h EXCEPT !.using_count = v], h, "using_count", v)
         /\ \A v \in [Sizes -> Nat] : Updated([h EXCEPT !.total_free = v], h, "total_free", v)
         /\ \A v \in [Sizes -> Nat] : Updated([h EXCEPT !.total_using = v], h, "total_using", v)
BY DEF Updated, SameBut, HeapRec

\* What each part of a call does to the fields.
LEMMA TakePageIs ==
  ASSUME NEW h \in HeapRec, NEW p \in Page, h.page_free_count >= 1,
         NEW g, g = TakePage(h, p)
  PROVE  /\ g \in HeapRec
         /\ g.bits_map = h.bits_map \cup {p}
         /\ g.page_free_count = h.page_free_count - 1
         /\ g.total_pages_link = h.total_pages_link + 1
         /\ g.pool = h.pool
         /\ g.color_count = h.color_count /\ g.color_map = h.color_map
         /\ g.free_count = h.free_count /\ g.using_count = h.using_count
         /\ g.total_free = h.total_free /\ g.total_using = h.total_using
<1> DEFINE a == [h EXCEPT !.bits_map = @ \cup {p}]
           b == [a EXCEPT !.page_free_count = @ - 1]
           c == [b EXCEPT !.total_pages_link = @ + 1]
<1>1. Updated(a, h, "bits_map", h.bits_map \cup {p})
  <2>1. h.bits_map \cup {p} \in SUBSET Page
    BY DEF HeapRec
  <2> QED
    BY <2>1, Update
<1>2. g = c
  BY DEF TakePage
<1> HIDE DEF a
<1>3. Updated(b, a, "page_free_count", a.page_free_count - 1)
  <2>1. a \in HeapRec /\ a.page_free_count - 1 \in Nat
    BY <1>1 DEF Updated, SameBut, HeapRec
  <2> QED
    BY <2>1, Update
<1> HIDE DEF b
<1>4. Updated(c, b, "total_pages_link", b.total_pages_link + 1)
  <2>1. b \in HeapRec /\ b.total_pages_link + 1 \in Nat
    BY <1>3 DEF Updated, HeapRec
  <2> QED
    BY <2>1, Update
<1> HIDE DEF c
<1> QED
  BY <1>1, <1>2, <1>3, <1>4 DEF Updated, SameBut

LEMMA AddSlabIs ==
  ASSUME NEW h \in HeapRec, NEW s \in Sizes, NEW p \in Page,
         NEW g, g = AddSlab(h, s, p)
  PROVE  /\ g \in HeapRec
         /\ g.bits_map = h.bits_map
         /\ g.page_free_count = h.page_free_count
         /\ g.total_pages_link = h.total_pages_link
         /\ At(g.pool, h.pool, s, Append(h.pool[s], p))
         /\ At(g.color_count, h.color_count, p, Count[s])
         /\ At(g.color_map, h.color_map, p, {})
         /\ At(g.free_count, h.free_count, p, Count[s])
         /\ At(g.using_count, h.using_count, p, 0)
         /\ At(g.total_free, h.total_free, s, h.total_free[s] + Count[s])
         /\ g.total_using = h.total_using
<1> DEFINE h1 == [h EXCEPT !.pool[s] = Append(@, p)]
           h2 == [h1 EXCEPT !.color_count[p] = Count[s]]
           h3 == [h2 EXCEPT !.color_map[p] = {}]
           h4 == [h3 EXCEPT !.free_count[p] = Count[s]]
           h5 == [h4 EXCEPT !.using_count[p] = 0]
           h6 == [h5 EXCEPT !.total_free[s] = @ + Count[s]]
<1>1. g = h6
  BY DEF AddSlab
<1>2. Updated(h1, h, "pool", [h.pool EXCEPT ![s] = Append(h.pool[s], p)])
  <2>1. [h.pool EXCEPT ![s] = Append(h.pool[s], p)] \in [Sizes -> Seq(Page)]
    BY AppendProperties DEF HeapRec
  <2> QED
    BY <2>1, Update
<1> HIDE DEF h1
<1>3. Updated(h2, h1, "color_count", [h.color_count EXCEPT ![p] = Count[s]])
  <2>1. h1 \in HeapRec /\ h1.color_count = h.color_count
    BY <1>2 DEF Updated, SameBut
  <2>2. [h.color_count EXCEPT ![p] = Count[s]] \in [Page -> Nat]
    BY KmallocAssumption DEF HeapRec
  <2> QED
    BY <2>1, <2>2, Update
<1> HIDE DEF h2
<1>4. Updated(h3, h2, "color_map", [h.color_map EXCEPT ![p] = {}])
  <2>1. h2 \in HeapRec /\ h2.color_map = h.color_map
    BY <1>2, <1>3 DEF Updated, SameBut
  <2>2. [h.color_map EXCEPT ![p] = {}] \in [Page -> SUBSET Slots]
    BY DEF HeapRec
  <2> QED
    BY <2>1, <2>2, Update
<1> HIDE DEF h3
<1>5. Updated(h4, h3, "free_count", [h.free_count EXCEPT ![p] = Count[s]])
  <2>1. h3 \in HeapRec /\ h3.free_count = h.free_count
    BY <1>2, <1>3, <1>4 DEF Updated, SameBut
  <2>2. [h.free_count EXCEPT ![p] = Count[s]] \in [Page -> Nat]
    BY KmallocAssumption DEF HeapRec
  <2> QED
    BY <2>1, <2>2, Update
<1> HIDE DEF h4
<1>6. Updated(h5, h4, "using_count", [h.using_count EXCEPT ![p] = 0])
  <2>1. h4 \in HeapRec /\ h4.using_count = h.using_count
    BY <1>2, <1>3, <1>4, <1>5 DEF Updated, SameBut
  <2>2. [h.using_count EXCEPT ![p] = 0] \in [Page -> Nat]
    BY DEF HeapRec
  <2> QED
    BY <2>1, <2>2, Update
<1> HIDE DEF h5
<1>7. Updated(h6, h5, "total_free", [h.total_free EXCEPT ![s] = h.total_free[s] + Count[s]])
  <2>1. h5 \in HeapRec /\ h5.total_free = h.total_free
    BY <1>2, <1>3, <1>4, <1>5, <1>6 DEF Updated, SameBut
  <2>2. [h.total_free EXCEPT ![s] = h.total_free[s] + Count[s]] \in [Sizes -> Nat]
    BY KmallocAssumption DEF HeapRec
  <2> QED
    BY <2>1, <2>2, Update
<1> HIDE DEF h6
<1> QED
  BY <1>1, <1>2, <1>3, <1>4, <1>5, <1>6, <1>7 DEF Updated, SameBut, At

LEMMA TakeBlockIs ==
  ASSUME NEW h \in HeapRec, NEW s \in Sizes, NEW p \in Page, NEW i \in Slots,
         h.free_count[p] >= 1, h.total_free[s] >= 1,
         NEW g, g = TakeBlock(h, s, p, i)
  PROVE  /\ g \in HeapRec
         /\ g.bits_map = h.bits_map
         /\ g.page_free_count = h.page_free_count
         /\ g.total_pages_link = h.total_pages_link
         /\ g.pool = h.pool
         /\ g.color_count = h.color_count
         /\ At(g.color_map, h.color_map, p, h.color_map[p] \cup {i})
         /\ At(g.free_count, h.free_count, p, h.free_count[p] - 1)
         /\ At(g.using_count, h.using_count, p, h.using_count[p] + 1)
         /\ At(g.total_free, h.total_free, s, h.total_free[s] - 1)
         /\ At(g.total_using, h.total_using, s, h.total_using[s] + 1)
<1> DEFINE h1 == [h EXCEPT !.color_map[p] = @ \cup {i}]
           h2 == [h1 EXCEPT !.using_count[p] = @ + 1]
           h3 == [h2 EXCEPT !.free_count[p] = @ - 1]
           h4 == [h3 EXCEPT !.total_free[s] = @ - 1]
           h5 == [h4 EXCEPT !.total_using[s] = @ + 1]
<1>1. g = h5
  BY DEF TakeBlock
<1>2. Updated(h1, h, "color_map", [h.color_map EXCEPT ![p] = h.color_map[p] \cup {i}])
  <2>1. [h.color_map EXCEPT ![p] = h.color_map[p] \cup {i}] \in [Page -> SUBSET Slots]
    BY DEF HeapRec
  <2> QED
    BY <2>1, Update
<1> HIDE DEF h1
<1>3. Updated(h2, h1, "using_count", [h.using_count EXCEPT ![p] = h.using_count[p] + 1])
  <2>1. h1 \in HeapRec /\ h1.using_count = h.using_count
    BY <1>2 DEF Updated, SameBut
  <2>2. [h.using_count EXCEPT ![p] = h.using_count[p] + 1] \in [Page -> Nat]
    BY DEF HeapRec
  <2> QED
    BY <2>1, <2>2, Update
<1> HIDE DEF h2
<1>4. Updated(h3, h2, "free_count", [h.free_count EXCEPT ![p] = h.free_count[p] - 1])
  <2>1. h2 \in HeapRec /\ h2.free_count = h.free_count
    BY <1>2, <1>3 DEF Updated, SameBut
  <2>2. [h.free_count EXCEPT ![p] = h.free_count[p] - 1] \in [Page -> Nat]
    BY DEF HeapRec
  <2> QED
    BY <2>1, <2>2, Update
<1> HIDE DEF h3
<1>5. Updated(h4, h3, "total_free", [h.total_free EXCEPT ![s] = h.total_free[s] - 1])
  <2>1. h3 \in HeapRec /\ h3.total_free = h.total_free
    BY <1>2, <1>3, <1>4 DEF Updated, SameBut
  <2>2. [h.total_free EXCEPT ![s] = h.total_free[s] - 1] \in [Sizes -> Nat]
    BY DEF HeapRec
  <2> QED
    BY <2>1, <2>2, Update
<1> HIDE DEF h4
<1>6. Updated(h5, h4, "total_using", [h.total_using EXCEPT ![s] = h.total_using[s] + 1])
  <2>1. h4 \in HeapRec /\ h4.total_using = h.total_using
    BY <1>2, <1>3, <1>4, <1>5 DEF Updated, SameBut
  <2>2. [h.total_using EXCEPT ![s] = h.total_using[s] + 1] \in [Sizes -> Nat]
    BY DEF HeapRec
  <2> QED
    BY <2>1, <2>2, Update
<1> HIDE DEF h5
<1> QED
  BY <1>1, <1>2, <1>3, <1>4, <1>5, <1>6 DEF Updated, SameBut, At

\* The two parts of kfree, for a block i of slab p that is in use.
PutBlock(h, p, i) ==
  [h EXCEPT !.color_map[p] = @ \ {i},
            !.free_count[p] = @ + 1, !.using_count[p] = @ - 1,
            !.total_free[Size32] = @ + 1, !.total_using[Size32] = @ - 1]

DropSlab(h, p) ==
  ReturnPage([h EXCEPT !.pool[Size32] = RemoveFirst(@, p),
                       !.total_free[Size32] = @ - h.color_count[p],
                       !.color_count[p] = 0, !.free_count[p] = 0],
             p)

LEMMA PutBlockIs ==
  ASSUME NEW h \in HeapRec, NEW p \in Page, NEW i, Size32 \in Sizes,
         h.using_count[p] >= 1, h.total_using[Size32] >= 1,
         NEW g, g = PutBlock(h, p, i)
  PROVE  /\ g \in HeapRec
         /\ g.bits_map = h.bits_map
         /\ g.page_free_count = h.page_free_count
         /\ g.total_pages_link = h.total_pages_link
         /\ g.pool = h.pool
         /\ g.color_count = h.color_count
         /\ At(g.color_map, h.color_map, p, h.color_map[p] \ {i})
         /\ At(g.free_count, h.free_count, p, h.free_count[p] + 1)
         /\ At(g.using_count, h.using_count, p, h.using_count[p] - 1)
         /\ At(g.total_free, h.total_free, Size32, h.total_free[Size32] + 1)
         /\ At(g.total_using, h.total_using, Size32, h.total_using[Size32] - 1)
<1> DEFINE h1 == [h EXCEPT !.color_map[p] = @ \ {i}]
           h2 == [h1 EXCEPT !.free_count[p] = @ + 1]
           h3 == [h2 EXCEPT !.using_count[p] = @ - 1]
           h4 == [h3 EXCEPT !.total_free[Size32] = @ + 1]
           h5 == [h4 EXCEPT !.total_using[Size32] = @ - 1]
<1>1. g = h5
  BY DEF PutBlock
<1>2. Updated(h1, h, "color_map", [h.color_map EXCEPT ![p] = h.color_map[p] \ {i}])
  <2>1. [h.color_map EXCEPT ![p] = h.color_map[p] \ {i}] \in [Page -> SUBSET Slots]
    BY DEF HeapRec
  <2> QED
    BY <2>1, Update
<1> HIDE DEF h1
<1>3. Updated(h2, h1, "free_count", [h.free_count EXCEPT ![p] = h.free_count[p] + 1])
  <2>1. h1 \in HeapRec /\ h1.free_count = h.free_count
    BY <1>2 DEF Updated, SameBut
  <2>2. [h.free_count EXCEPT ![p] = h.free_count[p] + 1] \in [Page -> Nat]
    BY DEF HeapRec
  <2> QED
    BY <2>1, <2>2, Update
<1> HIDE DEF h2
<1>4. Updated(h3, h2, "using_count", [h.using_count EXCEPT ![p] = h.using_count[p] - 1])
  <2>1. h2 \in HeapRec /\ h2.using_count = h.using_count
    BY <1>2, <1>3 DEF Updated, SameBut
  <2>2. [h.using_count EXCEPT ![p] = h.using_count[p] - 1] \in [Page -> Nat]
    BY DEF HeapRec
  <2> QED
    BY <2>1, <2>2, Update
<1> HIDE DEF h3
<1>5. Updated(h4, h3, "total_free", [h.total_free EXCEPT ![Size32] = h.total_free[Size32] + 1])
  <2>1. h3 \in HeapRec /\ h3.total_free = h.total_free
    BY <1>2, <1>3, <1>4 DEF Updated, SameBut
  <2>2. [h.total_free EXCEPT ![Size32] = h.total_free[Size32] + 1] \in [Sizes -> Nat]
    BY DEF HeapRec
  <2> QED
    BY <2>1, <2>2, Update
<1> HIDE DEF h4
<1>6. Updated(h5, h4, "total_using",
              [h.total_using EXCEPT ![Size32] = h.total_using[Size32] - 1])
  <2>1. h4 \in HeapRec /\ h4.total_using = h.total_using
    BY <1>2, <1>3, <1>4, <1>5 DEF Updated, SameBut
  <2>2. [h.total_using EXCEPT ![Size32] = h.total_using[Size32] - 1] \in [Sizes -> Nat]
    BY DEF HeapRec
  <2> QED
    BY <2>1, <2>2, Update
<1> HIDE DEF h5
<1> QED
  BY <1>1, <1>2, <1>3, <1>4, <1>5, <1>6 DEF Updated, SameBut, At

LEMMA DropSlabIs ==
  ASSUME NEW h \in HeapRec, NEW p \in Page, Size32 \in Sizes,
         RemoveFirst(h.pool[Size32], p) \in Seq(Page),
         h.total_free[Size32] >= h.color_count[p], h.total_pages_link >= 1,
         NEW g, g = DropSlab(h, p)
  PROVE  /\ g \in HeapRec
         /\ g.bits_map = h.bits_map \ {p}
         /\ g.page_free_count = h.page_free_count + 1
         /\ g.total_pages_link = h.total_pages_link - 1
         /\ At(g.pool, h.pool, Size32, RemoveFirst(h.pool[Size32], p))
         /\ At(g.color_count, h.color_count, p, 0)
         /\ g.color_map = h.color_map
         /\ At(g.free_count, h.free_count, p, 0)
         /\ g.using_count = h.using_count
         /\ At(g.total_free, h.total_free, Size32, h.total_free[Size32] - h.color_count[p])
         /\ g.total_using = h.total_using
<1> DEFINE h1 == [h EXCEPT !.pool[Size32] = RemoveFirst(@, p)]
           h2 == [h1 EXCEPT !.total_free[Size32] = @ - h.color_count[p]]
           h3 == [h2 EXCEPT !.color_count[p] = 0]
           h4 == [h3 EXCEPT !.free_count[p] = 0]
           h5 == [h4 EXCEPT !.bits_map = @ \ {p}]
           h6 == [h5 EXCEPT !.page_free_count = @ + 1]
           h7 == [h6 EXCEPT !.total_pages_link = @ - 1]
<1>1. g = h7
  BY DEF DropSlab, ReturnPage
<1>2. Updated(h1, h, "pool", [h.pool EXCEPT ![Size32] = RemoveFirst(h.pool[Size32], p)])
  <2>1. [h.pool EXCEPT ![Size32] = RemoveFirst(h.pool[Size32], p)] \in [Sizes -> Seq(Page)]
    BY DEF HeapRec
  <2> QED
    BY <2>1, Update
<1> HIDE DEF h1
<1>3. Updated(h2, h1, "total_free",
              [h.total_free EXCEPT ![Size32] = h.total_free[Size32] - h.color_count[p]])
  <2>1. h1 \in HeapRec /\ h1.total_free = h.total_free
    BY <1>2 DEF Updated, SameBut
  <2>2. [h.total_free EXCEPT ![Size32] = h.total_free[Size32] - h.color_count[p]]
          \in [Sizes -> Nat]
    BY DEF HeapRec
  <2> QED
    BY <2>1, <2>2, Update
<1> HIDE DEF h2
<1>4. Updated(h3, h2, "color_count", [h.color_count EXCEPT ![p] = 0])
  <2>1. h2 \in HeapRec /\ h2.color_count = h.color_count
    BY <1>2, <1>3 DEF Updated, SameBut
  <2>2. [h.color_count EXCEPT ![p] = 0] \in [Page -> Nat]
    BY DEF HeapRec
  <2> QED
    BY <2>1, <2>2, Update
<1> HIDE DEF h3
<1>5. Updated(h4, h3, "free_count", [h.free_count EXCEPT ![p] = 0])
  <2>1. h3 \in HeapRec /\ h3.free_count = h.free_count
    BY <1>2, <1>3, <1>4 DEF Updated, SameBut
  <2>2. [h.free_count EXCEPT ![p] = 0] \in [Page -> Nat]
    BY DEF HeapRec
  <2> QED
    BY <2>1, <2>2, Update
<1> HIDE DEF h4
<1>6. Updated(h5, h4, "bits_map", h.bits_map \ {p})
  <2>1. h4 \in HeapRec /\ h4.bits_map = h.bits_map
    BY <1>2, <1>3, <1>4, <1>5 DEF Updated, SameBut
  <2>2. h.bits_map \ {p} \in SUBSET Page
    BY DEF HeapRec
  <2> QED
    BY <2>1, <2>2, Update
<1> HIDE DEF h5
<1>7. Updated(h6, h5, "page_free_count", h.page_free_count + 1)
  <2>1. h5 \in HeapRec /\ h5.page_free_count = h.page_free_count
    BY <1>2, <1>3, <1>4, <1>5, <1>6 DEF Updated, SameBut
  <2>2. h.page_free_count + 1 \in Nat
    BY DEF HeapRec
  <2> QED
    BY <2>1, <2>2, Update
<1> HIDE DEF h6
<1>8. Updated(h7, h6, "total_pages_link", h.total_pages_link - 1)
  <2>1. h6 \in HeapRec /\ h6.total_pages_link = h.total_pages_link
    BY <1>2, <1>3, <1>4, <1>5, <1>6, <1>7 DEF Updated, SameBut
  <2>2. h.total_pages_link - 1 \in Nat
    BY DEF HeapRec
  <2> QED
    BY <2>1, <2>2, Update
<1> HIDE DEF h7
<1> QED
  BY <1>1, <1>2, <1>3, <1>4, <1>5, <1>6, <1>7, <1>8 DEF Updated, SameBut, At

-----------------------------------------------------------------------------
(* Sums over the slabs of a cache. *)

LEMMA SlabsFinite ==
  ASSUME NEW h \in HeapRec, NEW s \in Sizes
  PROVE  SlabsOf(h, s) \subseteq Page /\ IsFiniteSet(SlabsOf(h, s))
<1>1. SlabsOf(h, s) \subseteq Page
  <2>1. h.pool[s] \in Seq(Page)
    BY DEF HeapRec
  <2> QED
    BY <2>1 DEF SlabsOf, Range
<1> QED
  BY <1>1, KmallocAssumption, FS_Subset

\* The types of the fields.
LEMMA FieldTypes ==
  ASSUME NEW h \in HeapRec
  PROVE  /\ h.bits_map \subseteq Page
         /\ h.total_pages_link \in Nat /\ h.page_free_count \in Nat
         /\ h.pool \in [Sizes -> Seq(Page)]
         /\ h.color_count \in [Page -> Nat] /\ h.color_map \in [Page -> SUBSET Slots]
         /\ h.free_count \in [Page -> Nat] /\ h.using_count \in [Page -> Nat]
         /\ h.total_free \in [Sizes -> Nat] /\ h.total_using \in [Sizes -> Nat]
BY DEF HeapRec

LEMMA SumZero ==
  ASSUME NEW g, NEW S, IsFiniteSet(S), \A p \in S : g[p] = 0
  PROVE  SumOf(g, S) = 0
<1>1. \A p \in S : g[p] \in Nat /\ 1 .. g[p] = {}
  OBVIOUS
<1>2. Units(g, S) = {}
  BY <1>1 DEF Units
<1> QED
  BY <1>1, <1>2, SumCounts, FS_EmptySet

LEMMA SumPuts ==
  ASSUME NEW g, NEW S, IsFiniteSet(S), \A p \in S : g[p] \in Nat,
         NEW x, x \notin S, g[x] \in Nat
  PROVE  SumOf(g, S \cup {x}) = g[x] + SumOf(g, S) /\ SumOf(g, S) \in Nat
<1>1. IsFiniteSet(S \cup {x}) /\ \A p \in S \cup {x} : g[p] \in Nat
  BY FS_AddElement
<1>2. (S \cup {x}) \ {x} = S /\ x \in S \cup {x}
  OBVIOUS
<1>3. /\ SumOf(g, S \cup {x}) = g[x] + SumOf(g, (S \cup {x}) \ {x})
      /\ SumOf(g, (S \cup {x}) \ {x}) \in Nat
  <2> DEFINE T == S \cup {x}
  <2> HIDE DEF T
  <2>1. IsFiniteSet(T) /\ (\A p \in T : g[p] \in Nat) /\ x \in T
    BY <1>1, <1>2 DEF T
  <2>2. SumOf(g, T) = g[x] + SumOf(g, T \ {x}) /\ SumOf(g, T \ {x}) \in Nat
    BY <2>1, SumTakes
  <2> QED
    BY <2>2 DEF T
<1> QED
  BY <1>2, <1>3

\* One number changes.
LEMMA SumChange ==
  ASSUME NEW e \in [Page -> Nat], NEW g \in [Page -> Nat], NEW p \in Page,
         \A q \in Page : q # p => g[q] = e[q],
         NEW S \in SUBSET Page
  PROVE  /\ p \notin S => SumOf(g, S) = SumOf(e, S)
         /\ p \in S => /\ SumOf(g, S) = (SumOf(e, S) - e[p]) + g[p]
                       /\ SumOf(e, S) >= e[p]
         /\ SumOf(e, S) \in Nat
<1>1. IsFiniteSet(S) /\ IsFiniteSet(S \ {p})
  BY KmallocAssumption, FS_Subset
<1>2. \A q \in S : e[q] \in Nat /\ g[q] \in Nat
  OBVIOUS
<1>3. \A q \in S \ {p} : e[q] \in Nat /\ g[q] = e[q]
  OBVIOUS
<1>4. ASSUME p \notin S PROVE SumOf(g, S) = SumOf(e, S)
  <2>1. \A q \in S : e[q] \in Nat /\ g[q] = e[q]
    BY <1>4
  <2> QED
    BY <1>1, <2>1, SumSame
<1>5. ASSUME p \in S
      PROVE  SumOf(g, S) = (SumOf(e, S) - e[p]) + g[p] /\ SumOf(e, S) >= e[p]
  <2>1. SumOf(e, S) = e[p] + SumOf(e, S \ {p}) /\ SumOf(e, S \ {p}) \in Nat
    BY <1>1, <1>2, <1>5, SumTakes
  <2>2. SumOf(g, S) = g[p] + SumOf(g, S \ {p})
    BY <1>1, <1>2, <1>5, SumTakes
  <2>3. SumOf(g, S \ {p}) = SumOf(e, S \ {p})
    BY <1>1, <1>3, SumSame
  <2>4. g[p] \in Nat /\ e[p] \in Nat
    OBVIOUS
  <2> QED
    BY <2>1, <2>2, <2>3, <2>4
<1>6. SumOf(e, S) \in Nat
  <2>1. IsFiniteSet(Units(e, S))
    BY <1>1, <1>2, UnitsFinite
  <2> QED
    BY <1>1, <1>2, <2>1, SumCounts, FS_CardinalityType
<1> QED
  BY <1>4, <1>5, <1>6

-----------------------------------------------------------------------------
(* The parts of kmalloc. *)

\* alloc_pages gives a page that was free.
LEMMA TakePageSound ==
  ASSUME NEW h, NEW X, HeapSound(h, X), ~OutOfPages(h),
         NEW p, p = LowestFree(h), NEW g, g = TakePage(h, p)
  PROVE  /\ p \in Page /\ p \notin h.bits_map
         /\ HeapSound(g, X \cup {p})
         /\ BlocksOf(g) = BlocksOf(h)
         /\ g.total_free = h.total_free
<1> USE DEF HeapSound
<1>1. /\ h \in HeapRec /\ h.page_free_count \in Nat /\ h.page_free_count >= 1
      /\ h.page_free_count = Cardinality(Page \ h.bits_map)
      /\ h.total_pages_link = Cardinality(h.bits_map)
      /\ h.bits_map \subseteq Page
  BY DEF OutOfPages, HeapRec, PagesSound
<1>2. p \in Page \ h.bits_map
  <2> DEFINE S == Page \ h.bits_map
  <2>1. S # {}
    BY <1>1, FS_EmptySet
  <2>2. S \subseteq Nat
    BY KmallocAssumption
  <2> HIDE DEF S
  <2>3. PICK m \in S : \A j \in S : m <= j
    BY <2>1, <2>2, LeastNatural
  <2>4. (CHOOSE i \in S : \A j \in S : i <= j) \in S
    BY <2>3, Zenon
  <2> QED
    BY <2>4, Zenon DEF LowestFree, S
<1>3. /\ g \in HeapRec
      /\ g.bits_map = h.bits_map \cup {p}
      /\ g.page_free_count = h.page_free_count - 1
      /\ g.total_pages_link = h.total_pages_link + 1
      /\ g.pool = h.pool
      /\ g.color_count = h.color_count /\ g.color_map = h.color_map
      /\ g.free_count = h.free_count /\ g.using_count = h.using_count
      /\ g.total_free = h.total_free /\ g.total_using = h.total_using
  BY <1>1, <1>2, TakePageIs
<1>4. /\ \A s : SlabsOf(g, s) = SlabsOf(h, s)
      /\ AllSlabs(g) = AllSlabs(h) /\ BlocksOf(g) = BlocksOf(h)
  BY <1>3 DEF SlabsOf, AllSlabs, BlocksOf
<1>5. PagesSound(g, X \cup {p})
  <2>1. g.bits_map = AllSlabs(g) \cup (X \cup {p}) /\ AllSlabs(g) \cap (X \cup {p}) = {}
    BY <1>2, <1>3, <1>4 DEF PagesSound
  <2>2. IsFiniteSet(Page \ h.bits_map) /\ IsFiniteSet(h.bits_map)
    BY <1>1, KmallocAssumption, FS_Subset
  <2>3. Cardinality(h.bits_map \cup {p}) = Cardinality(h.bits_map) + 1
    <3>1. Cardinality(h.bits_map \cup {p}) =
            IF p \in h.bits_map THEN Cardinality(h.bits_map) ELSE Cardinality(h.bits_map) + 1
      BY <2>2, FS_AddElement
    <3> QED
      BY <1>2, <3>1
  <2>4. Cardinality((Page \ h.bits_map) \ {p}) = Cardinality(Page \ h.bits_map) - 1
    <3>1. Cardinality((Page \ h.bits_map) \ {p}) =
            IF p \in Page \ h.bits_map THEN Cardinality(Page \ h.bits_map) - 1
            ELSE Cardinality(Page \ h.bits_map)
      BY <2>2, FS_RemoveElement
    <3> QED
      BY <1>2, <3>1
  <2>5. Page \ g.bits_map = (Page \ h.bits_map) \ {p}
    BY <1>3
  <2> QED
    BY <1>1, <1>3, <1>4, <2>1, <2>3, <2>4, <2>5 DEF PagesSound
<1>6. MapsSound(g) /\ SumsSound(g)
  BY <1>3, <1>4 DEF MapsSound, SumsSound, SlabSound
<1> QED
  BY <1>2, <1>3, <1>4, <1>5, <1>6

\* What is at the end of a list of slabs.
LEMMA AppendIs ==
  ASSUME NEW l \in Seq(Page), NEW p \in Page
  PROVE  /\ Range(Append(l, p)) = Range(l) \cup {p}
         /\ IsInjective(l) /\ p \notin Range(l) => IsInjective(Append(l, p))
<1> DEFINE m == Append(l, p)
<1>1. /\ Len(l) \in Nat /\ DOMAIN l = 1 .. Len(l)
      /\ m \in Seq(Page) /\ DOMAIN m = 1 .. (Len(l) + 1)
      /\ m[Len(l) + 1] = p
      /\ \A i \in 1 .. Len(l) : m[i] = l[i]
  OBVIOUS
<1> HIDE DEF m
<1>2. Range(m) = Range(l) \cup {p}
  <2>1. ASSUME NEW x \in Range(m) PROVE x \in Range(l) \cup {p}
    <3>1. PICK i \in 1 .. (Len(l) + 1) : x = m[i]
      BY <1>1, <2>1 DEF Range
    <3>2. CASE i = Len(l) + 1
      BY <1>1, <3>1, <3>2
    <3>3. CASE i # Len(l) + 1
      <4>1. i \in 1 .. Len(l)
        BY <1>1, <3>3
      <4> QED
        BY <1>1, <3>1, <4>1 DEF Range
    <3> QED
      BY <3>2, <3>3
  <2>2. ASSUME NEW x \in Range(l) PROVE x \in Range(m)
    <3>1. PICK i \in 1 .. Len(l) : x = l[i]
      BY <1>1, <2>2 DEF Range
    <3>2. i \in DOMAIN m /\ m[i] = x
      BY <1>1, <3>1
    <3> QED
      BY <3>2 DEF Range
  <2>3. p \in Range(m)
    <3>1. Len(l) + 1 \in DOMAIN m
      BY <1>1
    <3> QED
      BY <1>1, <3>1 DEF Range
  <2> QED
    BY <2>1, <2>2, <2>3
<1>3. ASSUME IsInjective(l), p \notin Range(l) PROVE IsInjective(m)
  <2>1. \A i \in 1 .. Len(l) : l[i] # p
    BY <1>1, <1>3 DEF Range
  <2>2. \A i, j \in 1 .. Len(l) : l[i] = l[j] => i = j
    BY <1>1, <1>3 DEF IsInjective
  <2> SUFFICES ASSUME NEW i \in 1 .. (Len(l) + 1), NEW j \in 1 .. (Len(l) + 1), m[i] = m[j]
               PROVE  i = j
    BY <1>1 DEF IsInjective
  <2>3. (i \in 1 .. Len(l) \/ i = Len(l) + 1) /\ (j \in 1 .. Len(l) \/ j = Len(l) + 1)
    BY <1>1
  <2> QED
    BY <1>1, <2>1, <2>2, <2>3
<1> QED
  BY <1>2, <1>3 DEF m

\* A page under way becomes an empty slab.
LEMMA AddSlabSound ==
  ASSUME NEW h, NEW X, HeapSound(h, X), NEW s \in Sizes, NEW p \in X,
         NEW g, g = AddSlab(h, s, p)
  PROVE  /\ HeapSound(g, X \ {p})
         /\ BlocksOf(g) = BlocksOf(h)
         /\ g.total_free[s] # 0
<1> USE DEF HeapSound
<1>1. /\ h \in HeapRec /\ h.bits_map \subseteq Page /\ p \in Page /\ p \notin AllSlabs(h)
      /\ Count[s] \in Nat /\ Count[s] # 0 /\ Count[s] <= BootCount[s]
      /\ h.pool \in [Sizes -> Seq(Page)]
  BY KmallocAssumption, FieldTypes DEF PagesSound
<1>0. /\ h.color_count \in [Page -> Nat] /\ h.color_map \in [Page -> SUBSET Slots]
      /\ h.free_count \in [Page -> Nat] /\ h.using_count \in [Page -> Nat]
      /\ h.total_free \in [Sizes -> Nat] /\ h.total_using \in [Sizes -> Nat]
  BY <1>1, FieldTypes
<1>2. /\ g \in HeapRec
      /\ g.bits_map = h.bits_map
      /\ g.page_free_count = h.page_free_count
      /\ g.total_pages_link = h.total_pages_link
      /\ At(g.pool, h.pool, s, Append(h.pool[s], p))
      /\ At(g.color_count, h.color_count, p, Count[s])
      /\ At(g.color_map, h.color_map, p, {})
      /\ At(g.free_count, h.free_count, p, Count[s])
      /\ At(g.using_count, h.using_count, p, 0)
      /\ At(g.total_free, h.total_free, s, h.total_free[s] + Count[s])
      /\ g.total_using = h.total_using
  <2>1. h \in HeapRec /\ p \in Page
    BY <1>1
  <2> QED
    BY <2>1, AddSlabIs
<1>3. /\ SlabsOf(g, s) = SlabsOf(h, s) \cup {p}
      /\ \A t \in Sizes : t # s => SlabsOf(g, t) = SlabsOf(h, t) /\ g.pool[t] = h.pool[t]
  <2>1. h.pool[s] \in Seq(Page)
    BY <1>1
  <2>2. g.pool[s] = Append(h.pool[s], p) /\ \A t \in Sizes : t # s => g.pool[t] = h.pool[t]
    BY <1>1, <1>2 DEF At
  <2>3. Range(Append(h.pool[s], p)) = Range(h.pool[s]) \cup {p}
    BY <2>1, <1>1, AppendIs
  <2> QED
    BY <2>2, <2>3 DEF SlabsOf
<1>4. \A t \in Sizes : p \notin SlabsOf(h, t) /\ SlabsOf(h, t) \subseteq Page
  BY <1>1, SlabsFinite DEF AllSlabs
<1>5. PagesSound(g, X \ {p})
  <2>1. AllSlabs(g) = AllSlabs(h) \cup {p}
    BY <1>3 DEF AllSlabs
  <2>2. g.bits_map = AllSlabs(g) \cup (X \ {p}) /\ AllSlabs(g) \cap (X \ {p}) = {}
    BY <1>2, <2>1 DEF PagesSound
  <2>3. ASSUME NEW t \in Sizes PROVE IsInjective(g.pool[t])
    <3>1. CASE t = s
      <4>1. h.pool[s] \in Seq(Page) /\ IsInjective(h.pool[s])
        BY <1>1 DEF PagesSound
      <4>2. p \notin Range(h.pool[s])
        BY <1>4 DEF SlabsOf
      <4>3. IsInjective(Append(h.pool[s], p))
        BY <1>1, <4>1, <4>2, AppendIs
      <4> QED
        BY <1>1, <1>2, <3>1, <4>3 DEF At
    <3>2. CASE t # s
      BY <1>3, <3>2 DEF PagesSound
    <3> QED
      BY <3>1, <3>2
  <2>4. \A t, u \in Sizes : t # u => SlabsOf(g, t) \cap SlabsOf(g, u) = {}
    BY <1>3, <1>4 DEF PagesSound
  <2> QED
    BY <1>2, <2>2, <2>3, <2>4 DEF PagesSound
<1>6. MapsSound(g)
  <2> SUFFICES ASSUME NEW t \in Sizes, NEW q \in SlabsOf(g, t)
               PROVE  SlabSound(g, q) /\ g.color_count[q] <= BootCount[t]
    BY DEF MapsSound
  <2>1. CASE q = p
    <3>1. t = s
      BY <1>3, <1>4, <2>1
    <3>2. /\ g.color_count[p] = Count[s] /\ g.color_map[p] = {}
          /\ g.free_count[p] = Count[s] /\ g.using_count[p] = 0
      BY <1>0, <1>1, <1>2 DEF At
    <3>3. Cardinality({}) = 0 /\ Count[s] = Count[s] - 0
      BY <1>1, FS_EmptySet
    <3> QED
      BY <1>1, <2>1, <3>1, <3>2, <3>3 DEF SlabSound
  <2>2. CASE q # p
    <3>1. q \in SlabsOf(h, t) /\ q \in Page
      BY <1>3, <1>4, <2>2
    <3>2. /\ g.color_count[q] = h.color_count[q] /\ g.color_map[q] = h.color_map[q]
          /\ g.free_count[q] = h.free_count[q] /\ g.using_count[q] = h.using_count[q]
      BY <1>0, <1>1, <1>2, <2>2, <3>1 DEF At
    <3> QED
      BY <3>1, <3>2 DEF MapsSound, SlabSound
  <2> QED
    BY <2>1, <2>2
<1>7. SumsSound(g)
  <2> SUFFICES ASSUME NEW t \in Sizes
               PROVE  /\ g.total_free[t] = SumOf(g.free_count, SlabsOf(g, t))
                      /\ g.total_using[t] = SumOf(g.using_count, SlabsOf(g, t))
    BY DEF SumsSound
  <2>1. /\ h.total_free[t] = SumOf(h.free_count, SlabsOf(h, t))
        /\ h.total_using[t] = SumOf(h.using_count, SlabsOf(h, t))
    BY DEF SumsSound
  <2>2. /\ g.free_count \in [Page -> Nat] /\ g.using_count \in [Page -> Nat]
        /\ h.free_count \in [Page -> Nat] /\ h.using_count \in [Page -> Nat]
        /\ \A q \in Page : q # p => /\ g.free_count[q] = h.free_count[q]
                                    /\ g.using_count[q] = h.using_count[q]
    BY <1>0, <1>1, <1>2 DEF At
  <2>3. /\ SumOf(g.free_count, SlabsOf(h, t)) = h.total_free[t]
        /\ SumOf(g.using_count, SlabsOf(h, t)) = h.total_using[t]
    <3>1. /\ IsFiniteSet(SlabsOf(h, t))
          /\ \A q \in SlabsOf(h, t) : /\ h.free_count[q] \in Nat /\ h.using_count[q] \in Nat
                                      /\ g.free_count[q] = h.free_count[q]
                                      /\ g.using_count[q] = h.using_count[q]
      BY <1>1, <1>4, <2>2, SlabsFinite
    <3>2. SumOf(g.free_count, SlabsOf(h, t)) = SumOf(h.free_count, SlabsOf(h, t))
      BY <3>1, SumSame
    <3>3. SumOf(g.using_count, SlabsOf(h, t)) = SumOf(h.using_count, SlabsOf(h, t))
      BY <3>1, SumSame
    <3> QED
      BY <2>1, <3>2, <3>3
  <2>4. CASE t # s
    <3>1. SlabsOf(g, t) = SlabsOf(h, t) /\ g.total_free[t] = h.total_free[t]
      BY <1>0, <1>1, <1>2, <1>3, <2>4 DEF At
    <3> QED
      BY <1>2, <2>3, <3>1
  <2>5. CASE t = s
    <3>1. IsFiniteSet(SlabsOf(h, t)) /\ p \notin SlabsOf(h, t)
      BY <1>1, <1>4, SlabsFinite
    <3>2. /\ \A q \in SlabsOf(h, t) : g.free_count[q] \in Nat /\ g.using_count[q] \in Nat
          /\ g.free_count[p] = Count[s] /\ g.using_count[p] = 0
          /\ g.total_free[s] = h.total_free[s] + Count[s]
          /\ h.total_free[s] \in Nat /\ h.total_using[s] \in Nat
      BY <1>0, <1>1, <1>2, <1>4 DEF At
    <3>3. SumOf(g.free_count, SlabsOf(h, t) \cup {p})
            = g.free_count[p] + SumOf(g.free_count, SlabsOf(h, t))
      BY <1>1, <3>1, <3>2, SumPuts
    <3>4. SumOf(g.using_count, SlabsOf(h, t) \cup {p})
            = g.using_count[p] + SumOf(g.using_count, SlabsOf(h, t))
      BY <3>1, <3>2, SumPuts
    <3>5. /\ SumOf(g.free_count, SlabsOf(g, s)) = Count[s] + h.total_free[s]
          /\ SumOf(g.using_count, SlabsOf(g, s)) = 0 + h.total_using[s]
      BY <1>3, <2>3, <2>5, <3>2, <3>3, <3>4
    <3>6. g.total_using[s] = h.total_using[s]
      BY <1>2
    <3> QED
      BY <1>1, <2>5, <3>2, <3>5, <3>6
  <2> QED
    BY <2>4, <2>5
<1>8. BlocksOf(g) = BlocksOf(h)
  <2>1. ASSUME NEW b \in Block
        PROVE  b.page \in SlabsOf(g, b.size) /\ b.index \in g.color_map[b.page]
                 <=> b.page \in SlabsOf(h, b.size) /\ b.index \in h.color_map[b.page]
    <3>1. b.size \in Sizes /\ b.page \in Page
      BY DEF Block
    <3>2. CASE b.page = p
      <4>1. g.color_map[p] = {} /\ p \notin SlabsOf(h, b.size)
        BY <1>0, <1>1, <1>2, <1>4, <3>1 DEF At
      <4> QED
        BY <3>2, <4>1
    <3>3. CASE b.page # p
      <4>1. g.color_map[b.page] = h.color_map[b.page]
        BY <1>0, <1>1, <1>2, <3>1, <3>3 DEF At
      <4>2. b.page \in SlabsOf(g, b.size) <=> b.page \in SlabsOf(h, b.size)
        BY <1>3, <3>1, <3>3
      <4> QED
        BY <4>1, <4>2
    <3> QED
      BY <3>2, <3>3
  <2> QED
    BY <2>1 DEF BlocksOf
<1>9. g.total_free[s] # 0
  BY <1>0, <1>1, <1>2 DEF At
<1> QED
  BY <1>2, <1>5, <1>6, <1>7, <1>8, <1>9

\* A cache counts at least what one of its slabs counts.
LEMMA CountsAtLeast ==
  ASSUME NEW h \in HeapRec, SumsSound(h), NEW s \in Sizes, NEW p \in SlabsOf(h, s)
  PROVE  h.total_free[s] >= h.free_count[p] /\ h.total_using[s] >= h.using_count[p]
<1>1. SlabsOf(h, s) \in SUBSET Page /\ p \in Page
  BY SlabsFinite
<1>2. h.free_count \in [Page -> Nat] /\ h.using_count \in [Page -> Nat]
  BY FieldTypes
<1>3. SumOf(h.free_count, SlabsOf(h, s)) >= h.free_count[p]
  BY <1>1, <1>2, SumChange
<1>4. SumOf(h.using_count, SlabsOf(h, s)) >= h.using_count[p]
  BY <1>1, <1>2, SumChange
<1> QED
  BY <1>3, <1>4 DEF SumsSound

\* One slab changes, and the totals of its cache with it.
LEMMA SlabChange ==
  ASSUME NEW h, NEW X, HeapSound(h, X), NEW g \in HeapRec,
         NEW s \in Sizes, NEW p \in SlabsOf(h, s),
         g.bits_map = h.bits_map, g.page_free_count = h.page_free_count,
         g.total_pages_link = h.total_pages_link, g.pool = h.pool,
         g.color_count = h.color_count,
         \A q \in Page : q # p => /\ g.color_map[q] = h.color_map[q]
                                  /\ g.free_count[q] = h.free_count[q]
                                  /\ g.using_count[q] = h.using_count[q],
         SlabSound(g, p),
         \A t \in Sizes : t # s => /\ g.total_free[t] = h.total_free[t]
                                   /\ g.total_using[t] = h.total_using[t],
         g.total_free[s] = (h.total_free[s] - h.free_count[p]) + g.free_count[p],
         g.total_using[s] = (h.total_using[s] - h.using_count[p]) + g.using_count[p]
  PROVE  HeapSound(g, X)
<1>1. h \in HeapRec /\ PagesSound(h, X) /\ MapsSound(h) /\ SumsSound(h)
  BY DEF HeapSound
<1>2. \A t : SlabsOf(g, t) = SlabsOf(h, t)
  BY DEF SlabsOf
<1>3. PagesSound(g, X)
  BY <1>1, <1>2 DEF PagesSound, AllSlabs
<1>4. \A t \in Sizes : t # s => p \notin SlabsOf(h, t)
  BY <1>1 DEF PagesSound
<1>5. \A t \in Sizes : SlabsOf(h, t) \subseteq Page /\ IsFiniteSet(SlabsOf(h, t))
  BY <1>1, SlabsFinite
<1>6. MapsSound(g)
  <2> SUFFICES ASSUME NEW t \in Sizes, NEW q \in SlabsOf(h, t)
               PROVE  SlabSound(g, q) /\ g.color_count[q] <= BootCount[t]
    BY <1>2 DEF MapsSound
  <2>1. SlabSound(h, q) /\ h.color_count[q] <= BootCount[t] /\ q \in Page
    BY <1>1, <1>5 DEF MapsSound
  <2>2. CASE q = p
    BY <2>1, <2>2
  <2>3. CASE q # p
    BY <2>1, <2>3 DEF SlabSound
  <2> QED
    BY <2>2, <2>3
<1>7. ASSUME NEW t \in Sizes
      PROVE  /\ g.total_free[t] = SumOf(g.free_count, SlabsOf(h, t))
             /\ g.total_using[t] = SumOf(g.using_count, SlabsOf(h, t))
  <2>1. /\ h.total_free[t] = SumOf(h.free_count, SlabsOf(h, t))
        /\ h.total_using[t] = SumOf(h.using_count, SlabsOf(h, t))
    BY <1>1 DEF SumsSound
  <2>2. /\ h.free_count \in [Page -> Nat] /\ h.using_count \in [Page -> Nat]
        /\ g.free_count \in [Page -> Nat] /\ g.using_count \in [Page -> Nat]
    BY <1>1, FieldTypes
  <2>3. CASE t # s
    <3>1. \A q \in SlabsOf(h, t) : /\ h.free_count[q] \in Nat /\ h.using_count[q] \in Nat
                                   /\ g.free_count[q] = h.free_count[q]
                                   /\ g.using_count[q] = h.using_count[q]
      BY <1>4, <1>5, <2>2, <2>3
    <3>2. IsFiniteSet(SlabsOf(h, t))
      BY <1>5
    <3>3. SumOf(g.free_count, SlabsOf(h, t)) = SumOf(h.free_count, SlabsOf(h, t))
      BY <3>1, <3>2, SumSame
    <3>4. SumOf(g.using_count, SlabsOf(h, t)) = SumOf(h.using_count, SlabsOf(h, t))
      BY <3>1, <3>2, SumSame
    <3> QED
      BY <2>1, <2>3, <3>3, <3>4
  <2>4. CASE t = s
    <3>1. SlabsOf(h, t) \in SUBSET Page /\ p \in SlabsOf(h, t) /\ p \in Page
      BY <1>5, <2>4
    <3>2. SumOf(g.free_count, SlabsOf(h, t))
            = (SumOf(h.free_count, SlabsOf(h, t)) - h.free_count[p]) + g.free_count[p]
      BY <2>2, <3>1, SumChange
    <3>3. SumOf(g.using_count, SlabsOf(h, t))
            = (SumOf(h.using_count, SlabsOf(h, t)) - h.using_count[p]) + g.using_count[p]
      BY <2>2, <3>1, SumChange
    <3> QED
      BY <2>1, <2>4, <3>2, <3>3
  <2> QED
    BY <2>3, <2>4
<1>8. SumsSound(g)
  BY <1>2, <1>7 DEF SumsSound
<1> QED
  BY <1>3, <1>6, <1>8 DEF HeapSound

\* A cache that counts a free block has a slab with one, which is found.
LEMMA SlabForIs ==
  ASSUME NEW h, NEW X, HeapSound(h, X), NEW s \in Sizes, h.total_free[s] # 0,
         NEW p, p = SlabFor(h, s)
  PROVE  p \in SlabsOf(h, s) /\ h.free_count[p] # 0
<1> DEFINE l == h.pool[s]
           S == {i \in 1 .. Len(l) : h.free_count[l[i]] # 0}
<1>1. h \in HeapRec /\ SumsSound(h) /\ l \in Seq(Page) /\ Len(l) \in Nat
  BY FieldTypes DEF HeapSound
<1>2. S # {}
  <2>1. PICK q \in SlabsOf(h, s) : h.free_count[q] # 0
    <3>1. IsFiniteSet(SlabsOf(h, s))
      BY <1>1, SlabsFinite
    <3>2. SumOf(h.free_count, SlabsOf(h, s)) # 0
      BY <1>1 DEF SumsSound
    <3> QED
      BY <3>1, <3>2, SumZero
  <2>2. PICK i \in 1 .. Len(l) : q = l[i]
    BY <1>1, <2>1 DEF SlabsOf, Range
  <2> QED
    BY <2>1, <2>2
<1>3. PICK i \in S : \A j \in S : i <= j
  <2>1. S \subseteq Nat
    OBVIOUS
  <2> HIDE DEF S
  <2> QED
    BY <1>2, <2>1, LeastNatural
<1> DEFINE Is(k) == h.free_count[l[k]] # 0 /\ \A j \in 1 .. (k - 1) : h.free_count[l[j]] = 0
           k == CHOOSE i0 \in 1 .. Len(l) : Is(i0)
<1>4. i \in 1 .. Len(l) /\ Is(i)
  <2>1. i \in 1 .. Len(l) /\ h.free_count[l[i]] # 0
    OBVIOUS
  <2>2. ASSUME NEW j \in 1 .. (i - 1), h.free_count[l[j]] # 0 PROVE FALSE
    <3>1. j \in 1 .. Len(l) /\ ~(i <= j)
      BY <1>1, <2>1
    <3>2. j \in S
      BY <2>2, <3>1
    <3> QED
      BY <1>3, <3>1, <3>2
  <2> QED
    BY <2>1, <2>2
<1>5. k \in 1 .. Len(l) /\ Is(k)
  <2> HIDE DEF Is
  <2> QED
    BY <1>4, Zenon
<1>6. p = l[k]
  BY Zenon DEF SlabFor
<1> HIDE DEF k
<1>7. l[k] \in Range(l)
  BY <1>1, <1>5 DEF Range
<1> QED
  BY <1>5, <1>6, <1>7 DEF SlabsOf

\* A slab that counts a free block has a clear bit.
LEMMA SlotForIs ==
  ASSUME NEW h, NEW X, HeapSound(h, X), NEW s \in Sizes, NEW p \in SlabsOf(h, s),
         h.free_count[p] # 0, NEW j, j = SlotFor(h, p)
  PROVE  /\ j \in 0 .. (h.color_count[p] - 1) /\ j \in Slots
         /\ j \notin h.color_map[p]
<1> DEFINE all == 0 .. (h.color_count[p] - 1)
           S == all \ h.color_map[p]
<1>1. /\ p \in Page /\ h.color_count[p] \in Nat /\ h.color_count[p] <= BootCount[s]
      /\ h.color_map[p] \subseteq all
      /\ h.free_count[p] = h.color_count[p] - Cardinality(h.color_map[p])
      /\ BootCount[s] \in Nat
  <2>1. h \in HeapRec /\ MapsSound(h)
    BY DEF HeapSound
  <2>2. p \in Page
    BY <2>1, SlabsFinite
  <2> QED
    BY <2>1, <2>2, FieldTypes, KmallocAssumption DEF MapsSound, SlabSound
<1>2. S # {}
  <2>1. IsFiniteSet(all) /\ Cardinality(all) = h.color_count[p]
    <3>1. PICK n \in Int : n = h.color_count[p] - 1
      BY <1>1
    <3>2. \A a \in Int : /\ IsFiniteSet(a .. n)
                         /\ Cardinality(a .. n) = IF a > n THEN 0 ELSE n - a + 1
      BY <3>1, FS_Interval, Zenon
    <3>3. IsFiniteSet(all) /\ Cardinality(all) = IF 0 > n THEN 0 ELSE n - 0 + 1
      BY <3>1, <3>2
    <3> QED
      BY <1>1, <3>1, <3>3
  <2>2. h.color_map[p] # all
    <3> HIDE DEF all
    <3> QED
      BY <1>1, <2>1
  <2> QED
    BY <1>1, <2>2
<1>3. PICK i \in S : \A k \in S : i <= k
  <2>1. S \subseteq Nat
    BY <1>1
  <2> HIDE DEF S
  <2> QED
    BY <1>2, <2>1, LeastNatural
<1> DEFINE Is(k) == k \notin h.color_map[p] /\ \A i0 \in 0 .. (k - 1) : i0 \in h.color_map[p]
<1>4. i \in all /\ Is(i)
  <2>1. i \in all /\ i \notin h.color_map[p]
    OBVIOUS
  <2>2. ASSUME NEW k \in 0 .. (i - 1), k \notin h.color_map[p] PROVE FALSE
    <3>1. k \in all /\ ~(i <= k)
      BY <1>1, <2>1
    <3>2. k \in S
      BY <2>2, <3>1
    <3> QED
      BY <1>3, <3>1, <3>2
  <2> QED
    BY <2>1, <2>2
<1>5. j \in all /\ Is(j)
  <2>1. j = CHOOSE k \in all : Is(k)
    BY Zenon DEF SlotFor
  <2> HIDE DEF Is, all
  <2> QED
    BY <1>4, <2>1, Zenon
<1>6. j \in Slots
  <2>1. j \in Nat /\ j <= BootCount[s]
    BY <1>1, <1>5
  <2> QED
    BY <2>1, SlotsAre
<1> QED
  BY <1>5, <1>6

LEMMA NoBlockIsNone == ASSUME NEW b \in Block PROVE b # NoBlock
<1>1. b.size \in Sizes /\ 0 \notin Sizes /\ NoBlock.size = 0
  BY KmallocAssumption DEF Block, NoBlock
<1> QED
  BY <1>1

\* An outcome o that hands out block b of the cache of size s.
Gives(h, X, s, o, b) ==
  /\ HeapSound(o.heap, X)
  /\ b \in Block /\ b.size = s /\ b \notin BlocksOf(h)
  /\ BlocksOf(o.heap) = BlocksOf(h) \cup {b}
  /\ o.block = b /\ ~o.bad

LEMMA FromCacheSound ==
  ASSUME NEW h, NEW X, HeapSound(h, X), NEW s \in Sizes, h.total_free[s] # 0, NEW m,
         NEW o, o = FromCache(h, s, m)
  PROVE  (\E b : Gives(h, X, s, o, b)) /\ o.meta = m
<1> DEFINE p == SlabFor(h, s)
           j == SlotFor(h, p)
           b == [size |-> s, page |-> p, index |-> j]
           g == TakeBlock(h, s, p, j)
<1>1. o.heap = g /\ o.block = b /\ o.meta = m /\ o.bad = FALSE
  BY DEF FromCache, Outcome
<1>2. p \in SlabsOf(h, s) /\ h.free_count[p] # 0
  BY SlabForIs
<1> HIDE DEF p
<1>3. j \in 0 .. (h.color_count[p] - 1) /\ j \in Slots /\ j \notin h.color_map[p]
  BY <1>2, SlotForIs
<1> HIDE DEF j
<1>4. h \in HeapRec /\ MapsSound(h) /\ PagesSound(h, X) /\ p \in Page
  BY <1>2, SlabsFinite DEF HeapSound
<1>5. /\ h.color_count \in [Page -> Nat] /\ h.color_map \in [Page -> SUBSET Slots]
      /\ h.free_count \in [Page -> Nat] /\ h.using_count \in [Page -> Nat]
      /\ h.total_free \in [Sizes -> Nat] /\ h.total_using \in [Sizes -> Nat]
  BY <1>4, FieldTypes
<1>6. h.free_count[p] >= 1 /\ h.total_free[s] >= 1
  BY <1>2, <1>4, <1>5
<1> HIDE DEF g
<1>7. /\ g \in HeapRec
      /\ g.bits_map = h.bits_map
      /\ g.page_free_count = h.page_free_count
      /\ g.total_pages_link = h.total_pages_link
      /\ g.pool = h.pool
      /\ g.color_count = h.color_count
      /\ At(g.color_map, h.color_map, p, h.color_map[p] \cup {j})
      /\ At(g.free_count, h.free_count, p, h.free_count[p] - 1)
      /\ At(g.using_count, h.using_count, p, h.using_count[p] + 1)
      /\ At(g.total_free, h.total_free, s, h.total_free[s] - 1)
      /\ At(g.total_using, h.total_using, s, h.total_using[s] + 1)
  BY <1>3, <1>4, <1>6, TakeBlockIs DEF g
<1>8. /\ g.color_map[p] = h.color_map[p] \cup {j}
      /\ g.free_count[p] = h.free_count[p] - 1
      /\ g.using_count[p] = h.using_count[p] + 1
      /\ \A q \in Page : q # p => /\ g.color_map[q] = h.color_map[q]
                                  /\ g.free_count[q] = h.free_count[q]
                                  /\ g.using_count[q] = h.using_count[q]
  BY <1>4, <1>5, <1>7 DEF At
<1>9. /\ g.total_free[s] = h.total_free[s] - 1
      /\ g.total_using[s] = h.total_using[s] + 1
      /\ \A t \in Sizes : t # s => /\ g.total_free[t] = h.total_free[t]
                                   /\ g.total_using[t] = h.total_using[t]
  BY <1>5, <1>7 DEF At
<1>10. SlabSound(g, p)
  <2>1. SlabSound(h, p)
    BY <1>2, <1>4 DEF MapsSound
  <2>2. g.color_map[p] \subseteq 0 .. (h.color_count[p] - 1)
    BY <1>3, <1>8, <2>1 DEF SlabSound
  <2>3. IsFiniteSet(h.color_map[p])
    <3>1. \A a, c \in Int : IsFiniteSet(a .. c)
      BY FS_Interval, Zenon
    <3>2. h.color_count[p] - 1 \in Int
      BY <1>4, <1>5
    <3>3. IsFiniteSet(0 .. (h.color_count[p] - 1))
      BY <3>1, <3>2
    <3> QED
      BY <2>1, <3>3, FS_Subset DEF SlabSound
  <2>4. Cardinality(h.color_map[p] \cup {j}) = Cardinality(h.color_map[p]) + 1
    <3>1. Cardinality(h.color_map[p] \cup {j}) =
            IF j \in h.color_map[p] THEN Cardinality(h.color_map[p])
            ELSE Cardinality(h.color_map[p]) + 1
      BY <2>3, FS_AddElement
    <3> QED
      BY <1>3, <3>1
  <2>5. /\ h.free_count[p] \in Nat /\ h.using_count[p] \in Nat /\ h.color_count[p] \in Nat
        /\ h.free_count[p] = h.color_count[p] - h.using_count[p]
        /\ h.using_count[p] = Cardinality(h.color_map[p])
    BY <1>4, <1>5, <2>1 DEF SlabSound
  <2> QED
    BY <1>7, <1>8, <2>2, <2>4, <2>5 DEF SlabSound
<1>11. HeapSound(g, X)
  <2>1. /\ g.total_free[s] = (h.total_free[s] - h.free_count[p]) + g.free_count[p]
        /\ g.total_using[s] = (h.total_using[s] - h.using_count[p]) + g.using_count[p]
    BY <1>4, <1>5, <1>8, <1>9
  <2> QED
    BY <1>2, <1>7, <1>8, <1>9, <1>10, <2>1, SlabChange
<1>12. b \in Block /\ b.size = s /\ b \notin BlocksOf(h)
  BY <1>3, <1>4 DEF Block, BlocksOf
<1>13. BlocksOf(g) = BlocksOf(h) \cup {b}
  <2>1. ASSUME NEW c \in Block
        PROVE  c.page \in SlabsOf(g, c.size) /\ c.index \in g.color_map[c.page]
                 <=> \/ c.page \in SlabsOf(h, c.size) /\ c.index \in h.color_map[c.page]
                     \/ c = b
    <3>1. c.size \in Sizes /\ c.page \in Page /\ SlabsOf(g, c.size) = SlabsOf(h, c.size)
      BY <1>7 DEF Block, SlabsOf
    <3>2. CASE c.page # p
      BY <1>8, <3>1, <3>2
    <3>3. CASE c.page = p
      <4>1. c.page \in SlabsOf(h, c.size) <=> c.size = s
        BY <1>2, <1>4, <3>1, <3>3 DEF PagesSound
      <4>2. c.index \in g.color_map[c.page]
              <=> c.index \in h.color_map[c.page] \/ c.index = j
        BY <1>8, <3>3
      <4>3. c = b <=> c.size = s /\ c.index = j
        BY <3>3 DEF Block
      <4> QED
        BY <3>1, <4>1, <4>2, <4>3
    <3> QED
      BY <3>2, <3>3
  <2> QED
    BY <1>12, <2>1 DEF BlocksOf
<1> QED
  BY <1>1, <1>11, <1>12, <1>13 DEF Gives

\* kmalloc of a small size.
LEMMA KmallocSmallSound ==
  ASSUME NEW h, NEW X, HeapSound(h, X), NEW s \in Sizes, NEW o, o = KmallocSmall(h, s)
  PROVE  /\ o.meta = {} /\ o.bad = FALSE
         /\ \/ o.heap = h /\ o.block = NoBlock
            \/ \E b : Gives(h, X, s, o, b)
<1>1. CASE h.total_free[s] # 0
  <2>1. o = FromCache(h, s, {})
    BY <1>1 DEF KmallocSmall
  <2>2. o.bad = FALSE
    BY <2>1 DEF FromCache, Outcome
  <2> QED
    BY <1>1, <2>1, <2>2, FromCacheSound
<1>2. CASE h.total_free[s] = 0 /\ OutOfPages(h)
  BY <1>2 DEF KmallocSmall, Outcome
<1>3. CASE h.total_free[s] = 0 /\ ~OutOfPages(h)
  <2> DEFINE p == LowestFree(h)
             a == TakePage(h, p)
             c == AddSlab(a, s, p)
  <2>1. o = FromCache(c, s, {})
    BY <1>3 DEF KmallocSmall
  <2>2. o.bad = FALSE
    BY <2>1 DEF FromCache, Outcome
  <2> HIDE DEF p
  <2>3. /\ p \notin h.bits_map /\ HeapSound(a, X \cup {p}) /\ BlocksOf(a) = BlocksOf(h)
    BY <1>3, TakePageSound DEF p
  <2> HIDE DEF a
  <2>4. /\ HeapSound(c, (X \cup {p}) \ {p}) /\ BlocksOf(c) = BlocksOf(a)
        /\ c.total_free[s] # 0
    <3>1. p \in X \cup {p}
      OBVIOUS
    <3> QED
      BY <2>3, <3>1, AddSlabSound
  <2> HIDE DEF c
  <2>5. (X \cup {p}) \ {p} = X
    BY <2>3 DEF HeapSound, PagesSound
  <2>6. HeapSound(c, X)
    BY <2>4, <2>5
  <2>7. (\E b : Gives(c, X, s, o, b)) /\ o.meta = {}
    BY <2>1, <2>4, <2>6, FromCacheSound
  <2> QED
    BY <2>2, <2>3, <2>4, <2>7 DEF Gives
<1> QED
  BY <1>1, <1>2, <1>3

\* An outcome that changes nothing, or hands out blocks that were free.
Unchanged(h, o) == o.heap = h /\ o.block = NoBlock /\ o.meta = {}

HandsOut(h, o) ==
  /\ HeapSound(o.heap, {})
  /\ o.block \in Block /\ o.block \notin BlocksOf(h)
  /\ o.meta \subseteq Block /\ o.meta \cap BlocksOf(h) = {} /\ o.block \notin o.meta
  /\ BlocksOf(o.heap) = BlocksOf(h) \cup {o.block} \cup o.meta

\* kmalloc of a large size: the pages and blocks of the inner calls are taken
\* from the outer call's heap.
LEMMA KmallocLargeSound ==
  ASSUME NEW h, HeapSound(h, {}), NEW s \in Sizes, NEW o, o = KmallocLarge(h, s)
  PROVE  o.bad \in BOOLEAN /\ (Unchanged(h, o) \/ HandsOut(h, o))
<1>1. CASE h.total_free[s] # 0
  <2>1. o = FromCache(h, s, {})
    BY <1>1 DEF KmallocLarge
  <2>2. o.bad = FALSE
    BY <2>1 DEF FromCache, Outcome
  <2>3. (\E b : Gives(h, {}, s, o, b)) /\ o.meta = {}
    BY <1>1, <2>1, FromCacheSound
  <2> QED
    BY <2>2, <2>3 DEF Gives, HandsOut
<1>2. CASE h.total_free[s] = 0 /\ OutOfPages(h)
  BY <1>2 DEF KmallocLarge, Outcome, Unchanged
<1>3. CASE h.total_free[s] = 0 /\ ~OutOfPages(h)
  <2> DEFINE p == LowestFree(h)
             a == TakePage(h, p)
             slab == KmallocSmall(a, Size64)
             map == KmallocSmall(slab.heap, Size32)
             none == slab.block = NoBlock \/ map.block = NoBlock
             c == AddSlab(map.heap, s, p)
             m == {slab.block, map.block}
  <2>1. o = IF none THEN Outcome(h, NoBlock, {}, TRUE) ELSE FromCache(c, s, m)
    BY <1>3, Zenon DEF KmallocLarge
  <2>2. CASE none
    <3> HIDE DEF none, m, c
    <3> QED
      BY <2>1, <2>2 DEF Outcome, Unchanged
  <2>3. CASE ~none
    <3>1. o = FromCache(c, s, m) /\ slab.block # NoBlock /\ map.block # NoBlock
      BY <2>1, <2>3, Zenon
    <3> HIDE DEF none, p
    <3>2. p \notin h.bits_map /\ HeapSound(a, {p}) /\ BlocksOf(a) = BlocksOf(h)
      <4>1. {} \cup {p} = {p}
        OBVIOUS
      <4>2. p \notin h.bits_map /\ HeapSound(a, {} \cup {p}) /\ BlocksOf(a) = BlocksOf(h)
        BY <1>3, TakePageSound DEF p
      <4> QED
        BY <4>1, <4>2
    <3>3. Size32 \in Sizes /\ Size64 \in Sizes /\ Size32 # Size64
      BY KmallocAssumption DEF Sizes
    <3> HIDE DEF a
    <3>4. PICK x : Gives(a, {p}, Size64, slab, x)
      BY <3>1, <3>2, <3>3, KmallocSmallSound
    <3> HIDE DEF slab
    <3>5. HeapSound(slab.heap, {p})
      BY <3>4 DEF Gives
    <3>6. PICK y : Gives(slab.heap, {p}, Size32, map, y)
      BY <3>1, <3>3, <3>5, KmallocSmallSound
    <3> HIDE DEF map
    <3>7. HeapSound(map.heap, {p}) /\ p \in {p} /\ {p} \ {p} = {}
      BY <3>6 DEF Gives
    <3>8. HeapSound(c, {p} \ {p}) /\ BlocksOf(c) = BlocksOf(map.heap) /\ c.total_free[s] # 0
      BY <3>7, AddSlabSound
    <3> HIDE DEF c, m
    <3>9. HeapSound(c, {})
      BY <3>7, <3>8
    <3>10. PICK b : Gives(c, {}, s, o, b) /\ o.meta = m
      BY <3>1, <3>8, <3>9, FromCacheSound
    <3>11. /\ slab.block = x /\ map.block = y /\ m = {x, y}
           /\ x \in Block /\ x \notin BlocksOf(h)
           /\ y \in Block /\ y \notin BlocksOf(h) \cup {x}
           /\ BlocksOf(c) = BlocksOf(h) \cup {x} \cup {y}
      BY <3>2, <3>4, <3>6, <3>8 DEF Gives, m
    <3>12. HandsOut(h, o)
      BY <3>10, <3>11 DEF Gives, HandsOut
    <3>13. o.bad = FALSE
      BY <3>1 DEF FromCache, Outcome
    <3> QED
      BY <3>12, <3>13
  <2> QED
    BY <2>2, <2>3
<1> QED
  BY <1>1, <1>2, <1>3

LEMMA KmallocSound ==
  ASSUME NEW h, HeapSound(h, {}), NEW s \in Sizes, NEW o, o = Kmalloc(h, s)
  PROVE  o.bad \in BOOLEAN /\ (Unchanged(h, o) \/ HandsOut(h, o))
<1>1. CASE s \in Large
  BY <1>1, KmallocLargeSound DEF Kmalloc
<1>2. CASE s \notin Large
  <2>1. o = KmallocSmall(h, s)
    BY <1>2 DEF Kmalloc
  <2>2. /\ o.meta = {} /\ o.bad = FALSE
        /\ (o.heap = h /\ o.block = NoBlock) \/ \E b : Gives(h, {}, s, o, b)
    BY <2>1, KmallocSmallSound
  <2> QED
    BY <2>2 DEF Unchanged, HandsOut, Gives
<1> QED
  BY <1>1, <1>2

-----------------------------------------------------------------------------
(* kfree of a block of the first size. *)

\* A list without one of its slabs.
LEMMA RemoveFirstIs ==
  ASSUME NEW l \in Seq(Page), IsInjective(l), NEW p \in Range(l),
         NEW m, m = RemoveFirst(l, p)
  PROVE  m \in Seq(Page) /\ Range(m) = Range(l) \ {p} /\ IsInjective(m)
<1> DEFINE n == Len(l)
           I == {i \in 1 .. n : l[i] = p}
           k == SelectInSeq(l, LAMBDA v : v = p)
<1>1. n \in Nat /\ DOMAIN l = 1 .. n
  OBVIOUS
<1>2. PICK i \in 1 .. n : l[i] = p
  BY <1>1 DEF Range
<1>3. I = {i}
  <2>1. \A j \in 1 .. n : l[j] = p => j = i
    BY <1>1, <1>2 DEF IsInjective
  <2> QED
    BY <1>2, <2>1
<1>4. k = i
  <2>1. k = IF I # {} THEN Min(I) ELSE 0
    BY Zenon DEF SelectInSeq
  <2>2. Min({i}) = i
    BY <1>2 DEF Min
  <2> QED
    BY <1>3, <2>1, <2>2
<1>5. m = RemoveAt(l, i)
  <2>1. m = RemoveAt(l, k)
    BY <1>2, Zenon DEF RemoveFirst
  <2> QED
    BY <1>4, <2>1
<1>6. m = SubSeq(l, 1, i - 1) \o SubSeq(l, i + 1, n)
  BY <1>5 DEF RemoveAt
<1> HIDE DEF I, k
<1>7. /\ m \in Seq(Page) /\ Len(m) = n - 1 /\ n - 1 \in Nat /\ DOMAIN m = 1 .. (n - 1)
      /\ \A j \in 1 .. (n - 1) : m[j] = IF j < i THEN l[j] ELSE l[j + 1]
  <2> DEFINE u == SubSeq(l, 1, i - 1)
             v == SubSeq(l, i + 1, n)
  <2>1. i \in Int /\ 1 <= i /\ i <= n
    BY <1>1, <1>2
  <2>2. /\ u \in Seq(Page) /\ Len(u) = i - 1 /\ i - 1 \in Nat
        /\ \A j \in 1 .. (i - 1) : u[j] = l[j]
    BY <1>1, <2>1, SubSeqProperties
  <2>3. /\ v \in Seq(Page) /\ Len(v) = n - i /\ n - i \in Nat
        /\ \A j \in 1 .. (n - i) : v[j] = l[i + j]
    <3>1. \A k2 \in (i + 1) .. n : l[k2] \in Page
      BY <1>1, <2>1
    <3>2. i + 1 \in Int /\ n \in Int
      BY <1>1, <2>1
    <3>3. /\ v \in Seq(Page)
          /\ Len(v) = IF i + 1 <= n THEN n - (i + 1) + 1 ELSE 0
          /\ \A j \in 1 .. (n - (i + 1) + 1) : v[j] = l[(i + 1) + j - 1]
      BY <3>1, <3>2, SubSeqProperties
    <3> HIDE DEF v
    <3> HIDE DEF n
    <3>5. ASSUME NEW j \in 1 .. (n - i) PROVE v[j] = l[i + j]
      <4>1. j \in 1 .. (n - (i + 1) + 1) /\ (i + 1) + j - 1 = i + j
        BY <1>1, <2>1
      <4> QED
        BY <3>3, <4>1
    <3>6. Len(v) = n - i /\ n - i \in Nat
      <4>1. CASE i + 1 <= n
        BY <1>1, <2>1, <3>3, <4>1
      <4>2. CASE ~(i + 1 <= n)
        BY <1>1, <2>1, <3>3, <4>2
      <4> QED
        BY <4>1, <4>2
    <3> QED
      BY <3>3, <3>5, <3>6
  <2> HIDE DEF u, v
  <2>4. m = u \o v
    BY <1>6 DEF u, v
  <2>5. /\ m \in Seq(Page) /\ Len(m) = (i - 1) + (n - i)
        /\ \A j \in 1 .. (i - 1) : m[j] = u[j]
        /\ \A j \in 1 .. (n - i) : m[(i - 1) + j] = v[j]
    <3>1. Len(u \o v) = Len(u) + Len(v) /\ u \o v \in Seq(Page)
      BY <2>2, <2>3, ConcatProperties
    <3>2. \A j \in 1 .. (i - 1) : (u \o v)[j] = u[j]
      BY <2>1, <2>2, <2>3
    <3>3. \A j \in 1 .. (n - i) : (u \o v)[(i - 1) + j] = v[j]
      BY <1>1, <2>1, <2>2, <2>3
    <3> QED
      BY <2>2, <2>3, <2>4, <3>1, <3>2, <3>3
  <2>6. Len(m) = n - 1 /\ n - 1 \in Nat /\ DOMAIN m = 1 .. (n - 1)
    BY <1>1, <2>1, <2>5
  <2>7. ASSUME NEW j \in 1 .. (n - 1) PROVE m[j] = IF j < i THEN l[j] ELSE l[j + 1]
    <3>1. CASE j < i
      BY <1>1, <2>1, <2>2, <2>5, <3>1
    <3>2. CASE ~(j < i)
      <4>1. PICK d \in 1 .. (n - i) : (i - 1) + d = j /\ i + d = j + 1
        <5>1. /\ j - (i - 1) \in 1 .. (n - i)
              /\ (i - 1) + (j - (i - 1)) = j /\ i + (j - (i - 1)) = j + 1
          BY <1>1, <2>1, <3>2
        <5> QED
          BY <5>1
      <4>2. m[(i - 1) + d] = v[d] /\ v[d] = l[i + d]
        BY <2>3, <2>5
      <4> QED
        BY <3>2, <4>1, <4>2
    <3> QED
      BY <3>1, <3>2
  <2> QED
    BY <2>5, <2>6, <2>7
<1>8. Range(m) = Range(l) \ {p}
  <2>1. ASSUME NEW x \in Range(m) PROVE x \in Range(l) /\ x # p
    <3>1. PICK j \in 1 .. (n - 1) : x = m[j]
      BY <1>7, <2>1 DEF Range
    <3>2. PICK j2 \in 1 .. n : x = l[j2] /\ j2 # i
      <4>1. CASE j < i
        BY <1>1, <1>2, <1>7, <3>1, <4>1
      <4>2. CASE ~(j < i)
        <5>1. j + 1 \in 1 .. n /\ j + 1 # i /\ x = l[j + 1]
          BY <1>1, <1>2, <1>7, <3>1, <4>2
        <5> QED
          BY <5>1
      <4> QED
        BY <4>1, <4>2
    <3>3. x # p
      BY <1>1, <1>2, <3>2 DEF IsInjective
    <3> QED
      BY <1>1, <3>2, <3>3 DEF Range
  <2>2. ASSUME NEW x \in Range(l), x # p PROVE x \in Range(m)
    <3>1. PICK j \in 1 .. n : x = l[j]
      BY <1>1, <2>2 DEF Range
    <3>2. j # i
      BY <1>2, <2>2, <3>1
    <3>3. CASE j < i
      <4>1. j \in 1 .. (n - 1) /\ m[j] = x
        BY <1>1, <1>2, <1>7, <3>1, <3>3
      <4> QED
        BY <1>7, <4>1 DEF Range
    <3>4. CASE ~(j < i)
      <4>1. j - 1 \in 1 .. (n - 1) /\ m[j - 1] = x
        <5>1. j - 1 \in 1 .. (n - 1) /\ ~(j - 1 < i) /\ (j - 1) + 1 = j
          BY <1>1, <1>2, <3>1, <3>2, <3>4
        <5> QED
          BY <1>7, <3>1, <5>1
      <4> QED
        BY <1>7, <4>1 DEF Range
    <3> QED
      BY <3>3, <3>4
  <2> QED
    BY <2>1, <2>2
<1>9. IsInjective(m)
  <2> DEFINE At1(j) == IF j < i THEN j ELSE j + 1
  <2> SUFFICES ASSUME NEW j1 \in 1 .. (n - 1), NEW j2 \in 1 .. (n - 1), m[j1] = m[j2]
               PROVE  j1 = j2
    BY <1>7 DEF IsInjective
  <2>1. /\ At1(j1) \in 1 .. n /\ m[j1] = l[At1(j1)]
        /\ At1(j2) \in 1 .. n /\ m[j2] = l[At1(j2)]
    BY <1>1, <1>2, <1>7
  <2>2. At1(j1) = At1(j2)
    <3> HIDE DEF At1
    <3> QED
      BY <1>1, <2>1 DEF IsInjective
  <2> QED
    BY <1>1, <1>2, <2>2
<1> QED
  BY <1>7, <1>8, <1>9

\* A bit is cleared that was set.
LEMMA PutBlockSound ==
  ASSUME NEW h, HeapSound(h, {}), NEW b \in BlocksOf(h), b.size = Size32,
         NEW g, g = PutBlock(h, b.page, b.index)
  PROVE  HeapSound(g, {}) /\ BlocksOf(g) = BlocksOf(h) \ {b} /\ g.pool = h.pool
<1> DEFINE p == b.page
           j == b.index
<1>1. /\ b \in Block /\ p \in SlabsOf(h, Size32) /\ j \in h.color_map[p]
      /\ Size32 \in Sizes
  BY KmallocAssumption DEF BlocksOf, Sizes
<1>2. /\ h \in HeapRec /\ MapsSound(h) /\ PagesSound(h, {}) /\ SumsSound(h)
      /\ p \in Page
  BY <1>1, SlabsFinite DEF HeapSound
<1>3. /\ h.color_count \in [Page -> Nat] /\ h.color_map \in [Page -> SUBSET Slots]
      /\ h.free_count \in [Page -> Nat] /\ h.using_count \in [Page -> Nat]
      /\ h.total_free \in [Sizes -> Nat] /\ h.total_using \in [Sizes -> Nat]
  BY <1>2, FieldTypes
<1>4. SlabSound(h, p)
  BY <1>1, <1>2 DEF MapsSound
<1>5. IsFiniteSet(h.color_map[p])
  <2>1. \A a, c \in Int : IsFiniteSet(a .. c)
    BY FS_Interval, Zenon
  <2>2. h.color_count[p] - 1 \in Int
    BY <1>2, <1>3
  <2>3. IsFiniteSet(0 .. (h.color_count[p] - 1))
    BY <2>1, <2>2
  <2> QED
    BY <1>4, <2>3, FS_Subset DEF SlabSound
<1>6. /\ h.using_count[p] = Cardinality(h.color_map[p]) /\ h.using_count[p] >= 1
      /\ Cardinality(h.color_map[p] \ {j}) = h.using_count[p] - 1
  <2>1. Cardinality(h.color_map[p] \ {j}) =
          IF j \in h.color_map[p] THEN Cardinality(h.color_map[p]) - 1
          ELSE Cardinality(h.color_map[p])
    BY <1>5, FS_RemoveElement
  <2>2. Cardinality(h.color_map[p]) # 0 /\ Cardinality(h.color_map[p]) \in Nat
    BY <1>1, <1>5, FS_EmptySet, FS_CardinalityType
  <2> QED
    BY <1>1, <1>4, <2>1, <2>2 DEF SlabSound
<1>7. h.total_using[Size32] >= 1
  <2>1. h.total_using[Size32] >= h.using_count[p]
    BY <1>1, <1>2, CountsAtLeast
  <2> QED
    BY <1>1, <1>2, <1>3, <1>6, <2>1
<1>8. /\ g \in HeapRec
      /\ g.bits_map = h.bits_map
      /\ g.page_free_count = h.page_free_count
      /\ g.total_pages_link = h.total_pages_link
      /\ g.pool = h.pool
      /\ g.color_count = h.color_count
      /\ At(g.color_map, h.color_map, p, h.color_map[p] \ {j})
      /\ At(g.free_count, h.free_count, p, h.free_count[p] + 1)
      /\ At(g.using_count, h.using_count, p, h.using_count[p] - 1)
      /\ At(g.total_free, h.total_free, Size32, h.total_free[Size32] + 1)
      /\ At(g.total_using, h.total_using, Size32, h.total_using[Size32] - 1)
  BY <1>1, <1>2, <1>6, <1>7, PutBlockIs
<1>9. /\ g.color_map[p] = h.color_map[p] \ {j}
      /\ g.free_count[p] = h.free_count[p] + 1
      /\ g.using_count[p] = h.using_count[p] - 1
      /\ \A q \in Page : q # p => /\ g.color_map[q] = h.color_map[q]
                                  /\ g.free_count[q] = h.free_count[q]
                                  /\ g.using_count[q] = h.using_count[q]
  BY <1>2, <1>3, <1>8 DEF At
<1>10. /\ g.total_free[Size32] = h.total_free[Size32] + 1
       /\ g.total_using[Size32] = h.total_using[Size32] - 1
       /\ \A t \in Sizes : t # Size32 => /\ g.total_free[t] = h.total_free[t]
                                         /\ g.total_using[t] = h.total_using[t]
  BY <1>1, <1>3, <1>8 DEF At
<1>11. SlabSound(g, p)
  <2>1. h.free_count[p] \in Nat /\ h.using_count[p] \in Nat /\ h.color_count[p] \in Nat
    BY <1>2, <1>3
  <2> QED
    BY <1>4, <1>6, <1>8, <1>9, <2>1 DEF SlabSound
<1>12. HeapSound(g, {})
  <2>1. /\ g.total_free[Size32] = (h.total_free[Size32] - h.free_count[p]) + g.free_count[p]
        /\ g.total_using[Size32]
             = (h.total_using[Size32] - h.using_count[p]) + g.using_count[p]
    BY <1>1, <1>2, <1>3, <1>9, <1>10
  <2> QED
    BY <1>1, <1>8, <1>9, <1>10, <1>11, <2>1, SlabChange
<1>13. BlocksOf(g) = BlocksOf(h) \ {b}
  <2>1. ASSUME NEW c \in Block
        PROVE  c.page \in SlabsOf(g, c.size) /\ c.index \in g.color_map[c.page]
                 <=> /\ c.page \in SlabsOf(h, c.size) /\ c.index \in h.color_map[c.page]
                     /\ c # b
    <3>1. c.size \in Sizes /\ c.page \in Page /\ SlabsOf(g, c.size) = SlabsOf(h, c.size)
      BY <1>8 DEF Block, SlabsOf
    <3>2. CASE c.page # p
      BY <1>9, <3>1, <3>2
    <3>3. CASE c.page = p
      <4>1. c.page \in SlabsOf(h, c.size) <=> c.size = Size32
        BY <1>1, <1>2, <3>1, <3>3 DEF PagesSound
      <4>2. c.index \in g.color_map[c.page] <=> c.index \in h.color_map[c.page] /\ c.index # j
        BY <1>9, <3>3
      <4>3. c = b <=> c.size = Size32 /\ c.index = j
        BY <1>1, <3>3 DEF Block
      <4> QED
        BY <3>1, <4>1, <4>2, <4>3
    <3> QED
      BY <3>2, <3>3
  <2> QED
    BY <2>1 DEF BlocksOf
<1> QED
  BY <1>8, <1>12, <1>13

\* An empty slab is given back to the zone.
LEMMA DropSlabSound ==
  ASSUME NEW h, HeapSound(h, {}), NEW p \in SlabsOf(h, Size32), h.using_count[p] = 0,
         NEW g, g = DropSlab(h, p)
  PROVE  HeapSound(g, {}) /\ BlocksOf(g) = BlocksOf(h)
<1> DEFINE l == h.pool[Size32]
           m == RemoveFirst(l, p)
<1>1. /\ h \in HeapRec /\ MapsSound(h) /\ PagesSound(h, {}) /\ SumsSound(h)
      /\ Size32 \in Sizes /\ p \in Page
  BY KmallocAssumption, SlabsFinite DEF HeapSound, Sizes
<1>2. /\ h.color_count \in [Page -> Nat] /\ h.color_map \in [Page -> SUBSET Slots]
      /\ h.free_count \in [Page -> Nat] /\ h.using_count \in [Page -> Nat]
      /\ h.total_free \in [Sizes -> Nat] /\ h.total_using \in [Sizes -> Nat]
      /\ h.pool \in [Sizes -> Seq(Page)] /\ h.bits_map \subseteq Page
      /\ h.total_pages_link \in Nat /\ h.page_free_count \in Nat
  BY <1>1, FieldTypes
<1>3. m \in Seq(Page) /\ Range(m) = Range(l) \ {p} /\ IsInjective(m)
  <2>1. l \in Seq(Page) /\ IsInjective(l) /\ p \in Range(l)
    BY <1>1, <1>2 DEF PagesSound, SlabsOf
  <2> QED
    BY <2>1, RemoveFirstIs
<1> HIDE DEF m
<1>4. h.color_map[p] = {} /\ h.free_count[p] = h.color_count[p]
  <2>1. SlabSound(h, p)
    BY <1>1 DEF MapsSound
  <2>2. IsFiniteSet(h.color_map[p])
    <3>1. \A a, c \in Int : IsFiniteSet(a .. c)
      BY FS_Interval, Zenon
    <3>2. h.color_count[p] - 1 \in Int
      BY <1>1, <1>2
    <3>3. IsFiniteSet(0 .. (h.color_count[p] - 1))
      BY <3>1, <3>2
    <3> QED
      BY <2>1, <3>3, FS_Subset DEF SlabSound
  <2>3. h.color_map[p] = {}
    BY <2>1, <2>2, FS_EmptySet DEF SlabSound
  <2> QED
    BY <1>1, <1>2, <2>1, <2>3 DEF SlabSound
<1>5. h.total_free[Size32] >= h.color_count[p]
  BY <1>1, <1>4, CountsAtLeast
<1>6. p \in h.bits_map /\ h.bits_map = AllSlabs(h)
  BY <1>1 DEF PagesSound, AllSlabs
<1>7. /\ h.total_pages_link >= 1
      /\ Cardinality(h.bits_map \ {p}) = h.total_pages_link - 1
      /\ Cardinality(Page \ (h.bits_map \ {p})) = h.page_free_count + 1
  <2>1. /\ h.total_pages_link = Cardinality(h.bits_map)
        /\ h.page_free_count = Cardinality(Page \ h.bits_map)
    BY <1>1 DEF PagesSound
  <2>2. IsFiniteSet(h.bits_map) /\ IsFiniteSet(Page \ h.bits_map)
    BY <1>2, KmallocAssumption, FS_Subset
  <2>3. Cardinality(h.bits_map) # 0
    BY <1>6, <2>2, FS_EmptySet
  <2>4. Cardinality(h.bits_map \ {p}) =
          IF p \in h.bits_map THEN Cardinality(h.bits_map) - 1 ELSE Cardinality(h.bits_map)
    BY <2>2, FS_RemoveElement
  <2>5. Cardinality((Page \ h.bits_map) \cup {p}) =
          IF p \in Page \ h.bits_map THEN Cardinality(Page \ h.bits_map)
          ELSE Cardinality(Page \ h.bits_map) + 1
    BY <2>2, FS_AddElement
  <2>6. Page \ (h.bits_map \ {p}) = (Page \ h.bits_map) \cup {p}
    BY <1>1
  <2>7. Cardinality(Page \ (h.bits_map \ {p})) = h.page_free_count + 1
    BY <1>6, <2>1, <2>5, <2>6
  <2>8. Cardinality(h.bits_map \ {p}) = h.total_pages_link - 1
    BY <1>6, <2>1, <2>4
  <2>9. h.total_pages_link >= 1
    BY <1>2, <2>1, <2>3
  <2> QED
    BY <2>7, <2>8, <2>9
<1>8. /\ g \in HeapRec
      /\ g.bits_map = h.bits_map \ {p}
      /\ g.page_free_count = h.page_free_count + 1
      /\ g.total_pages_link = h.total_pages_link - 1
      /\ At(g.pool, h.pool, Size32, m)
      /\ At(g.color_count, h.color_count, p, 0)
      /\ g.color_map = h.color_map
      /\ At(g.free_count, h.free_count, p, 0)
      /\ g.using_count = h.using_count
      /\ At(g.total_free, h.total_free, Size32, h.total_free[Size32] - h.color_count[p])
      /\ g.total_using = h.total_using
  BY <1>1, <1>3, <1>5, <1>7, DropSlabIs DEF m
<1>9. /\ g.pool[Size32] = m
      /\ \A t \in Sizes : t # Size32 => g.pool[t] = h.pool[t]
      /\ \A q \in Page : q # p => /\ g.color_count[q] = h.color_count[q]
                                  /\ g.free_count[q] = h.free_count[q]
      /\ g.total_free[Size32] = h.total_free[Size32] - h.color_count[p]
      /\ \A t \in Sizes : t # Size32 => g.total_free[t] = h.total_free[t]
  BY <1>1, <1>2, <1>8 DEF At
<1>10. /\ SlabsOf(g, Size32) = SlabsOf(h, Size32) \ {p}
       /\ \A t \in Sizes : t # Size32 => SlabsOf(g, t) = SlabsOf(h, t)
  BY <1>3, <1>9 DEF SlabsOf
<1>11. \A t \in Sizes : /\ p \notin SlabsOf(g, t) /\ SlabsOf(g, t) \subseteq SlabsOf(h, t)
                        /\ SlabsOf(h, t) \subseteq Page /\ IsFiniteSet(SlabsOf(h, t))
  BY <1>1, <1>10, SlabsFinite DEF PagesSound
<1>12. PagesSound(g, {})
  <2>1. AllSlabs(g) = AllSlabs(h) \ {p}
    BY <1>1, <1>10, <1>11 DEF AllSlabs
  <2>2. \A t \in Sizes : IsInjective(g.pool[t])
    BY <1>1, <1>3, <1>9 DEF PagesSound
  <2>3. \A t, u \in Sizes : t # u => SlabsOf(g, t) \cap SlabsOf(g, u) = {}
    BY <1>1, <1>11 DEF PagesSound
  <2> QED
    BY <1>6, <1>7, <1>8, <2>1, <2>2, <2>3 DEF PagesSound
<1>13. MapsSound(g)
  <2> SUFFICES ASSUME NEW t \in Sizes, NEW q \in SlabsOf(g, t)
               PROVE  SlabSound(g, q) /\ g.color_count[q] <= BootCount[t]
    BY DEF MapsSound
  <2>1. q \in SlabsOf(h, t) /\ q # p /\ q \in Page
    BY <1>11
  <2> QED
    BY <1>1, <1>8, <1>9, <2>1 DEF MapsSound, SlabSound
<1>14. ASSUME NEW t \in Sizes
       PROVE  /\ g.total_free[t] = SumOf(g.free_count, SlabsOf(g, t))
              /\ g.total_using[t] = SumOf(g.using_count, SlabsOf(g, t))
  <2>1. /\ h.total_free[t] = SumOf(h.free_count, SlabsOf(h, t))
        /\ h.total_using[t] = SumOf(h.using_count, SlabsOf(h, t))
    BY <1>1 DEF SumsSound
  <2>2. /\ \A q \in SlabsOf(h, t) : h.free_count[q] \in Nat /\ h.using_count[q] \in Nat
        /\ \A q \in SlabsOf(g, t) : g.free_count[q] = h.free_count[q] /\ h.free_count[q] \in Nat
        /\ IsFiniteSet(SlabsOf(h, t)) /\ IsFiniteSet(SlabsOf(g, t))
    BY <1>2, <1>9, <1>11, FS_Subset
  <2>3. SumOf(g.free_count, SlabsOf(g, t)) = SumOf(h.free_count, SlabsOf(g, t))
    BY <2>2, SumSame
  <2>4. CASE t # Size32
    BY <1>8, <1>9, <1>10, <2>1, <2>3, <2>4
  <2>5. CASE t = Size32
    <3>1. p \in SlabsOf(h, t) /\ SlabsOf(g, t) = SlabsOf(h, t) \ {p}
      BY <1>10, <2>5
    <3>2. /\ SumOf(h.free_count, SlabsOf(h, t))
               = h.free_count[p] + SumOf(h.free_count, SlabsOf(h, t) \ {p})
          /\ SumOf(h.free_count, SlabsOf(h, t) \ {p}) \in Nat
      BY <2>2, <3>1, SumTakes
    <3>3. /\ SumOf(h.using_count, SlabsOf(h, t))
               = h.using_count[p] + SumOf(h.using_count, SlabsOf(h, t) \ {p})
          /\ SumOf(h.using_count, SlabsOf(h, t) \ {p}) \in Nat
      BY <2>2, <3>1, SumTakes
    <3>4. h.free_count[p] \in Nat
      BY <1>1, <1>2
    <3> QED
      BY <1>4, <1>8, <1>9, <2>1, <2>3, <2>5, <3>1, <3>2, <3>3, <3>4
  <2> QED
    BY <2>4, <2>5
<1>15. BlocksOf(g) = BlocksOf(h)
  <2>1. ASSUME NEW c \in Block
        PROVE  c.page \in SlabsOf(g, c.size) /\ c.index \in g.color_map[c.page]
                 <=> c.page \in SlabsOf(h, c.size) /\ c.index \in h.color_map[c.page]
    <3>1. c.size \in Sizes
      BY DEF Block
    <3>2. CASE c.page = p
      BY <1>4, <1>8, <3>2
    <3>3. CASE c.page # p
      BY <1>8, <1>10, <3>1, <3>3
    <3> QED
      BY <3>2, <3>3
  <2> QED
    BY <2>1 DEF BlocksOf
<1> QED
  BY <1>8, <1>12, <1>13, <1>14, <1>15 DEF HeapSound, SumsSound

\* kfree finds the block's slab, clears its bit, and may give up the slab.
LEMMA KfreeSound ==
  ASSUME NEW h, HeapSound(h, {}), NEW b \in BlocksOf(h), b.size = Size32
  PROVE  HeapSound(Kfree(h, b), {}) /\ BlocksOf(Kfree(h, b)) = BlocksOf(h) \ {b}
<1> DEFINE p == b.page
           g == PutBlock(h, p, b.index)
<1>1. p \in SlabsOf(h, Size32) /\ b.index \in h.color_map[p]
  BY DEF BlocksOf
<1>2. Found(h, p) = p
  BY <1>1 DEF Found, SlabsOf
<1>3. Flip(h.color_map[p], b.index) = h.color_map[p] \ {b.index}
  BY <1>1 DEF Flip
<1>4. Kfree(h, b) = IF GiveUp(g, p) THEN DropSlab(g, p) ELSE g
  BY <1>2, <1>3 DEF Kfree, PutBlock, DropSlab
<1>5. HeapSound(g, {}) /\ BlocksOf(g) = BlocksOf(h) \ {b} /\ p \in SlabsOf(g, Size32)
  BY <1>1, PutBlockSound DEF SlabsOf
<1> HIDE DEF g
<1>6. CASE GiveUp(g, p)
  <2>1. g.using_count[p] = 0
    BY <1>6 DEF GiveUp
  <2> QED
    BY <1>4, <1>5, <1>6, <2>1, DropSlabSound
<1>7. CASE ~GiveUp(g, p)
  BY <1>4, <1>5, <1>7
<1> QED
  BY <1>6, <1>7

-----------------------------------------------------------------------------
(* The specification. *)

HeapInv ==
  /\ HeapSound(heap, {})
  /\ BlocksOf(heap) = live \cup meta
  /\ live \cap meta = {} /\ live \subseteq Block /\ meta \subseteq Block
  /\ halted \in BOOLEAN

LEMMA HeapInitInv == ASSUME HeapInit PROVE HeapInv
<1> DEFINE pages == {BootSlab[s] : s \in Sizes}
           SizeOf(p) == CHOOSE s \in Sizes : BootSlab[s] = p
           cc == [p \in Page |-> IF p \in pages THEN BootCount[SizeOf(p)] ELSE 0]
           none == [p \in Page |-> 0]
           maps == [p \in Page |-> {}]
           l == [s \in Sizes |-> <<BootSlab[s]>>]
           zero == [s \in Sizes |-> 0]
<1>1. /\ heap.bits_map = pages
      /\ heap.total_pages_link = Cardinality(pages)
      /\ heap.page_free_count = Cardinality(Page \ pages)
      /\ heap.pool = l
      /\ heap.color_count = cc /\ heap.free_count = cc
      /\ heap.color_map = maps /\ heap.using_count = none
      /\ heap.total_free = BootCount /\ heap.total_using = zero
  BY Zenon DEF HeapInit
<1>2. live = {} /\ meta = {} /\ halted = FALSE
  BY DEF HeapInit
<1>3. \A s \in Sizes : /\ BootSlab[s] \in Page /\ BootSlab[s] \in pages
                       /\ SizeOf(BootSlab[s]) = s
                       /\ BootCount[s] \in Nat
  <2> TAKE s \in Sizes
  <2>1. \A t \in Sizes : BootSlab[t] = BootSlab[s] => t = s
    BY KmallocAssumption
  <2>2. SizeOf(BootSlab[s]) = s
    BY <2>1
  <2> QED
    BY <2>2, KmallocAssumption
<1>4. \A p \in pages : SizeOf(p) \in Sizes
  BY <1>3
<1>5. \A s \in Sizes : cc[BootSlab[s]] = BootCount[s]
  BY <1>3
<1>6. cc \in [Page -> Nat]
  <2> HIDE DEF pages, SizeOf
  <2>1. \A p \in Page : (IF p \in pages THEN BootCount[SizeOf(p)] ELSE 0) \in Nat
    BY <1>3, <1>4
  <2> QED
    BY <2>1
<1> HIDE DEF cc, SizeOf
<1>7. pages \subseteq Page /\ IsFiniteSet(pages) /\ IsFiniteSet(Page \ pages)
  <2>1. pages \subseteq Page
    BY <1>3
  <2> HIDE DEF pages
  <2> QED
    BY <2>1, KmallocAssumption, FS_Subset
<1>8. heap \in HeapRec
  <2>1. /\ pages \in SUBSET Page /\ Cardinality(pages) \in Nat
        /\ Cardinality(Page \ pages) \in Nat
    BY <1>7, FS_CardinalityType
  <2>2. l \in [Sizes -> Seq(Page)]
    BY <1>3
  <2>3. /\ none \in [Page -> Nat] /\ maps \in [Page -> SUBSET Slots]
        /\ BootCount \in [Sizes -> Nat] /\ zero \in [Sizes -> Nat]
    BY KmallocAssumption
  <2>4. heap = [bits_map |-> pages,
                total_pages_link |-> Cardinality(pages),
                page_free_count |-> Cardinality(Page \ pages),
                pool |-> l, color_count |-> cc, color_map |-> maps,
                free_count |-> cc, using_count |-> none,
                total_free |-> BootCount, total_using |-> zero]
    BY Zenon DEF HeapInit, cc, SizeOf
  <2> HIDE DEF pages, l, none, maps, zero
  <2> QED
    BY <1>6, <2>1, <2>2, <2>3, <2>4 DEF HeapRec
<1>9. \A s \in Sizes : SlabsOf(heap, s) = {BootSlab[s]}
  BY <1>1, <1>3 DEF SlabsOf, Range
<1>10. PagesSound(heap, {})
  <2>1. AllSlabs(heap) = pages
    BY <1>9 DEF AllSlabs
  <2>2. \A s \in Sizes : IsInjective(heap.pool[s])
    BY <1>1 DEF IsInjective
  <2>3. \A s, t \in Sizes : s # t => SlabsOf(heap, s) \cap SlabsOf(heap, t) = {}
    BY <1>9, KmallocAssumption
  <2> QED
    BY <1>1, <2>1, <2>2, <2>3 DEF PagesSound
<1>11. MapsSound(heap)
  <2> SUFFICES ASSUME NEW s \in Sizes
               PROVE  SlabSound(heap, BootSlab[s])
                      /\ heap.color_count[BootSlab[s]] <= BootCount[s]
    BY <1>9 DEF MapsSound
  <2>1. /\ heap.color_map[BootSlab[s]] = {} /\ heap.using_count[BootSlab[s]] = 0
        /\ heap.color_count[BootSlab[s]] = BootCount[s]
        /\ heap.free_count[BootSlab[s]] = BootCount[s]
        /\ BootCount[s] \in Nat /\ Cardinality({}) = 0
    BY <1>1, <1>3, <1>5, FS_EmptySet
  <2> QED
    BY <2>1 DEF SlabSound
<1>12. SumsSound(heap)
  <2> SUFFICES ASSUME NEW s \in Sizes
               PROVE  /\ heap.total_free[s] = SumOf(heap.free_count, {BootSlab[s]})
                      /\ heap.total_using[s] = SumOf(heap.using_count, {BootSlab[s]})
    BY <1>9 DEF SumsSound
  <2>1. /\ heap.free_count[BootSlab[s]] = BootCount[s] /\ BootCount[s] \in Nat
        /\ heap.using_count[BootSlab[s]] = 0
        /\ heap.total_free[s] = BootCount[s] /\ heap.total_using[s] = 0
    BY <1>1, <1>3, <1>5
  <2>2. SumOf(heap.free_count, {BootSlab[s]}) = heap.free_count[BootSlab[s]]
    BY <2>1, SumOne
  <2>3. SumOf(heap.using_count, {BootSlab[s]}) = heap.using_count[BootSlab[s]]
    <3>1. heap.using_count[BootSlab[s]] \in Nat
      BY <2>1
    <3> QED
      BY <3>1, SumOne
  <2> QED
    BY <2>1, <2>2, <2>3
<1>13. BlocksOf(heap) = {}
  <2>1. \A b \in Block : b.page \in Page
    BY DEF Block
  <2> QED
    BY <1>1, <2>1 DEF BlocksOf
<1> QED
  BY <1>2, <1>8, <1>10, <1>11, <1>12, <1>13 DEF HeapInv, HeapSound

\* What a step does to the blocks in use.
Steps ==
  \/ live' \cup meta' \subseteq live \cup meta
  \/ \E B \in SUBSET Block : /\ B \cap (live \cup meta) = {}
                             /\ live' \cup meta' = (live \cup meta) \cup B

LEMMA HeapStepInv ==
  ASSUME Freed \subseteq {Size32}, HeapInv, [HeapNext]_heapVars
  PROVE  HeapInv' /\ Steps
<1>1. ASSUME NEW s \in Sizes, kmalloc(s) PROVE HeapInv' /\ Steps
  <2> DEFINE o == Kmalloc(heap, s)
  <2>1. /\ heap' = o.heap /\ halted' = o.bad /\ meta' = meta \cup o.meta
        /\ live' = IF o.block = NoBlock THEN live ELSE live \cup {o.block}
    BY <1>1 DEF kmalloc
  <2>2. o.bad \in BOOLEAN /\ (Unchanged(heap, o) \/ HandsOut(heap, o))
    BY KmallocSound DEF HeapInv
  <2> HIDE DEF o
  <2>3. CASE Unchanged(heap, o)
    <3>1. heap' = heap /\ live' = live /\ meta' = meta /\ halted' \in BOOLEAN
      BY <2>1, <2>2, <2>3 DEF Unchanged
    <3> QED
      BY <3>1 DEF HeapInv, Steps
  <2>4. CASE HandsOut(heap, o)
    <3>1. o.block # NoBlock
      BY <2>4, NoBlockIsNone DEF HandsOut
    <3>2. live' = live \cup {o.block}
      BY <2>1, <3>1
    <3>3. HeapInv'
      <4>1. HeapSound(heap', {}) /\ BlocksOf(heap') = BlocksOf(heap) \cup {o.block} \cup o.meta
        BY <2>1, <2>4 DEF HandsOut
      <4>2. BlocksOf(heap') = live' \cup meta' /\ live' \cap meta' = {}
            /\ live' \subseteq Block /\ meta' \subseteq Block
        BY <2>1, <2>4, <3>2, <4>1 DEF HandsOut, HeapInv
      <4> QED
        BY <2>1, <2>2, <4>1, <4>2 DEF HeapInv
    <3>4. Steps
      <4>1. {o.block} \cup o.meta \in SUBSET Block
        BY <2>4 DEF HandsOut
      <4>2. ({o.block} \cup o.meta) \cap (live \cup meta) = {}
        BY <2>4 DEF HandsOut, HeapInv
      <4>3. live' \cup meta' = (live \cup meta) \cup ({o.block} \cup o.meta)
        BY <2>1, <3>2
      <4> QED
        BY <4>1, <4>2, <4>3 DEF Steps
    <3> QED
      BY <3>3, <3>4
  <2> QED
    BY <2>2, <2>3, <2>4
<1>2. ASSUME NEW b \in live, kfree(b) PROVE HeapInv' /\ Steps
  <2>1. /\ heap' = Kfree(heap, b) /\ live' = live \ {b} /\ meta' = meta /\ halted' = halted
        /\ b.size = Size32
    BY <1>2 DEF kfree
  <2>2. HeapSound(heap, {}) /\ b \in BlocksOf(heap)
    BY DEF HeapInv
  <2>3. HeapSound(heap', {}) /\ BlocksOf(heap') = BlocksOf(heap) \ {b}
    BY <2>1, <2>2, KfreeSound
  <2>4. HeapInv'
    BY <2>1, <2>3 DEF HeapInv
  <2> QED
    BY <2>1, <2>4 DEF Steps
<1>3. CASE UNCHANGED heapVars
  BY <1>3 DEF heapVars, HeapInv, Steps
<1> QED
  BY <1>1, <1>2, <1>3 DEF HeapNext

\* The invariant, of a heap whose first cache is the only one that gets its
\* blocks back.
THEOREM HeapInvariant ==
  ASSUME Freed \subseteq {Size32}
  PROVE  HeapSpec => []HeapInv
<1>1. HeapInit => HeapInv
  BY HeapInitInv
<1>2. HeapInv /\ [HeapNext]_heapVars => HeapInv'
  BY HeapStepInv
<1> QED
  BY <1>1, <1>2, PTL DEF HeapSpec

\* Counters and bitmaps agree: kmalloc, which trusts the totals of a cache,
\* then the counters of a slab, then the bitmap, never finds nothing where it
\* was told there is something.
THEOREM HeapCountersMatch ==
  ASSUME Freed \subseteq {Size32}
  PROVE  HeapSpec => []CountersMatchMaps
<1>1. ASSUME HeapInv PROVE CountersMatchMaps
  <2>1. /\ heap \in HeapRec /\ PagesSound(heap, {}) /\ MapsSound(heap) /\ SumsSound(heap)
    BY <1>1 DEF HeapInv, HeapSound
  <2>2. HeapTypeOK
    <3>1. /\ heap.bits_map \subseteq Page
          /\ heap.total_pages_link \in Nat /\ heap.page_free_count \in Nat
          /\ heap.pool \in [Sizes -> Seq(Page)]
          /\ heap.color_count \in [Page -> Nat] /\ heap.color_map \in [Page -> SUBSET Slots]
          /\ heap.free_count \in [Page -> Nat] /\ heap.using_count \in [Page -> Nat]
          /\ heap.total_free \in [Sizes -> Nat] /\ heap.total_using \in [Sizes -> Nat]
      BY <2>1, FieldTypes
    <3> QED
      BY <1>1, <3>1 DEF HeapTypeOK, HeapInv
  <2>3. PagesAccounted
    BY <2>1 DEF PagesSound, PagesAccounted, Slabs, SlabsOf, AllSlabs
  <2>4. ASSUME NEW s \in Sizes
        PROVE  /\ \A p \in Slabs(s) : SlabSound(heap, p)
               /\ heap.total_free[s]
                    = MapThenSumSet(LAMBDA p : heap.free_count[p], Slabs(s))
               /\ heap.total_using[s]
                    = MapThenSumSet(LAMBDA p : heap.using_count[p], Slabs(s))
    <3>1. /\ \A p \in SlabsOf(heap, s) : SlabSound(heap, p)
          /\ heap.total_free[s] = SumOf(heap.free_count, SlabsOf(heap, s))
          /\ heap.total_using[s] = SumOf(heap.using_count, SlabsOf(heap, s))
      BY <2>1 DEF MapsSound, SumsSound
    <3>2. Slabs(s) = SlabsOf(heap, s)
      BY DEF Slabs, SlabsOf
    <3> QED
      BY <3>1, <3>2, Zenon DEF SumOf
  <2> QED
    BY <2>2, <2>3, <2>4 DEF CountersMatchMaps, SlabSound
<1> QED
  BY <1>1, HeapInvariant, PTL

\* No block is lost, and none is marked that nobody holds.
THEOREM HeapNoLeak ==
  ASSUME Freed \subseteq {Size32}
  PROVE  HeapSpec => []NoLeak
<1>1. ASSUME HeapInv PROVE NoLeak
  <2>1. BlocksOf(heap) = {b \in Block : b.page \in Slabs(b.size)
                                         /\ b.index \in heap.color_map[b.page]}
    BY DEF BlocksOf, Slabs, SlabsOf
  <2> QED
    BY <1>1, <2>1 DEF HeapInv, NoLeak
<1> QED
  BY <1>1, HeapInvariant, PTL

\* The heap implements the allocator: blocks that are handed out overlap
\* neither one in use nor each other.
THEOREM HeapIsAllocator ==
  ASSUME Freed \subseteq {Size32}
  PROVE  HeapSpec => ImplementsAllocator
<1>1. HeapInit => Allocator!Init
  BY DEF HeapInit, Allocator!Init
<1>2. ASSUME HeapInv, HeapInv', [HeapNext]_heapVars
      PROVE  [Allocator!Next]_(live \cup meta)
  <2>1. Steps
    BY <1>2, HeapStepInv
  <2>2. CASE live' \cup meta' \subseteq live \cup meta
    BY <2>2 DEF Allocator!Next, Allocator!Free
  <2>3. CASE \E B \in SUBSET Block : /\ B \cap (live \cup meta) = {}
                                     /\ live' \cup meta' = (live \cup meta) \cup B
    <3>1. live \cup meta \subseteq live' \cup meta' /\ live' \cup meta' \subseteq Block
      BY <1>2, <2>3 DEF HeapInv
    <3>2. ASSUME NEW a \in live' \cup meta', NEW b \in live' \cup meta', a # b
          PROVE  ~Allocator!Overlap(a, b)
      <4>1. a \in BlocksOf(heap') /\ b \in BlocksOf(heap')
        BY <1>2 DEF HeapInv
      <4>2. /\ a \in Block /\ a.page \in SlabsOf(heap', a.size)
            /\ b \in Block /\ b.page \in SlabsOf(heap', b.size)
        BY <4>1 DEF BlocksOf
      <4>3. a.page = b.page => a.size = b.size
        BY <1>2, <4>2 DEF HeapInv, HeapSound, PagesSound, Block
      <4>4. a.page = b.page /\ a.size = b.size => a.index # b.index
        BY <3>2, <4>2 DEF Block
      <4> QED
        BY <4>3, <4>4 DEF Allocator!Overlap
    <3>3. Allocator!Allocate
      BY <3>1, <3>2 DEF Allocator!Allocate
    <3> QED
      BY <3>3 DEF Allocator!Next
  <2> QED
    BY <2>1, <2>2, <2>3 DEF Steps
<1> QED
  BY <1>1, <1>2, HeapInvariant, PTL DEF HeapSpec, ImplementsAllocator, Allocator!Spec
=============================================================================
