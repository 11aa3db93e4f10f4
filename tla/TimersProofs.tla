----------------------------- MODULE TimersProofs -----------------------------
(***************************************************************************)
(* The kernel's timer list, for any number of timers, any delays and any   *)
(* number of ticks: next and prev stay inverse along a ring through the    *)
(* head that holds exactly the timers added and not yet deleted or fired,  *)
(* and the list implements TimerService.                                   *)
(*                                                                         *)
(* The invariant names the ring: a function r that numbers the listed      *)
(* nodes, the head being 0.  An insertion or a removal renumbers the nodes *)
(* after it.  What Chain, which follows the pointers, reaches is then read *)
(* off the numbering.                                                      *)
(*                                                                         *)
(* Then the touch screen driver, which uses one of the timers, for any     *)
(* delay, any number of samples and any points.  The reader never gets     *)
(* parts of two reports, and the driver never waits for something that     *)
(* cannot come: neither needs to know that the timer list is sound, so     *)
(* both hold for a stylus that bounces, too.  When it does not bounce, and *)
(* a report takes more than one sample, the list stays sound although the  *)
(* driver deletes its timer whether or not it is in the list.              *)
(***************************************************************************)
EXTENDS TouchScreen, WellFoundedInduction, FiniteSetTheorems, TLAPS

-----------------------------------------------------------------------------
(* Induction on sets of naturals. *)

LessThan == OpToRel(<, Nat)

LEMMA LessThanWellFounded == IsWellFoundedOn(LessThan, Nat)
BY NatLessThanWellFounded, Zenon DEF LessThan

LEMMA LessThanIs == \A i, j \in Nat : i < j => <<i, j>> \in LessThan
BY DEF LessThan, OpToRel

\* A set of naturals that has an element has a least one.
LEMMA LeastNatural ==
  ASSUME NEW S, S \subseteq Nat, S # {}
  PROVE  \E i \in S : \A j \in S : i <= j
<1>1. PICK i \in S : \A j \in S : <<j, i>> \notin LessThan
  BY LessThanWellFounded, WFMin
<1>2. ASSUME NEW j \in S PROVE i <= j
  <2>1. i \in Nat /\ j \in Nat /\ ~(j < i)
    BY <1>1, LessThanIs
  <2> QED
    BY <2>1
<1> QED
  BY <1>2

\* A set that has 0, and the successor of each natural it has, has them all.
LEMMA AllNaturals ==
  ASSUME NEW S, 0 \in S, \A k \in Nat : k \in S => k + 1 \in S
  PROVE  Nat \subseteq S
<1> DEFINE Rest == Nat \ S
<1> SUFFICES ASSUME Rest # {} PROVE FALSE
  OBVIOUS
<1>1. PICK i \in Rest : \A j \in Rest : i <= j
  BY LeastNatural
<1>2. i \in Nat /\ i # 0
  BY <1>1
<1>3. i - 1 \in Nat /\ (i - 1) + 1 = i /\ ~(i <= i - 1)
  BY <1>2
<1>4. i - 1 \in S
  BY <1>1, <1>3
<1> QED
  BY <1>1, <1>3, <1>4

-----------------------------------------------------------------------------
(* The ring. *)

\* The number after i, on a ring of the numbers 0 to n.
Up(i, n) == IF i = n THEN 0 ELSE i + 1

\* r numbers the head, as 0, and the nodes of L in the order of the pointers.
Ring(nx, pv, L, n, r) ==
  /\ r[0] = head
  /\ \A i, j \in 0 .. n : r[i] = r[j] => i = j
  /\ \A i \in 0 .. n : r[i] \in L \cup {head}
  /\ \A x \in L : \E i \in 0 .. n : r[i] = x
  /\ \A i \in 0 .. n : nx[r[i]] = r[Up(i, n)] /\ pv[r[Up(i, n)]] = r[i]

OnRing(nx, pv, L) == \E n \in Nat : \E r \in [0 .. n -> Node] : Ring(nx, pv, L, n, r)

\* A timer that is not listed and points to itself does so both ways, so
\* deleting it changes nothing.
LoneTimers == \A t \in Timer \ linked : next[t] = t => prev[t] = t

TimersInv == TimersTypeOK /\ OnRing(next, prev, linked) /\ LoneTimers

\* The nodes of the ring are the listed timers and the head, and each has its
\* neighbours on the ring.
LEMMA Neighbours ==
  ASSUME NEW nx, NEW pv, NEW L, L \subseteq Timer, OnRing(nx, pv, L),
         NEW x \in L \cup {head}
  PROVE  /\ nx[x] \in L \cup {head} /\ pv[x] \in L \cup {head}
         /\ pv[nx[x]] = x /\ nx[pv[x]] = x
         /\ x \in L => nx[x] # x
<1>0. PICK n \in Nat : \E r \in [0 .. n -> Node] : Ring(nx, pv, L, n, r)
  BY DEF OnRing
<1>1. PICK r \in [0 .. n -> Node] : Ring(nx, pv, L, n, r)
  BY <1>0
<1>2. PICK i \in 0 .. n : r[i] = x
  BY <1>1 DEF Ring
<1>3. Up(i, n) \in 0 .. n
  BY DEF Up
<1>4. PICK j \in 0 .. n : Up(j, n) = i
  <2>1. i = 0 => Up(n, n) = i
    BY DEF Up
  <2>2. i # 0 => i - 1 \in 0 .. n /\ Up(i - 1, n) = i
    BY DEF Up
  <2> QED
    BY <2>1, <2>2
<1>5. x \in L => Up(i, n) # i
  <2>1. x \in L => i # 0
    BY <1>1, <1>2, TimersAssumption DEF Ring
  <2> QED
    BY <2>1 DEF Up
<1> QED
  BY <1>1, <1>2, <1>3, <1>4, <1>5 DEF Ring

\* list_add_to_behind keeps the ring, one node longer.
LEMMA RingGrows ==
  ASSUME NEW nx \in [Node -> Node], NEW pv \in [Node -> Node], NEW L, L \subseteq Timer,
         OnRing(nx, pv, L),
         NEW e \in L \cup {head}, NEW x \in Timer \ L,
         NEW nx2, nx2 = [nx EXCEPT ![x] = nx[e], ![e] = x],
         NEW pv2, pv2 = [pv EXCEPT ![x] = e, ![nx[e]] = x]
  PROVE  OnRing(nx2, pv2, L \cup {x})
<1>0. PICK n \in Nat : \E r \in [0 .. n -> Node] : Ring(nx, pv, L, n, r)
  BY DEF OnRing
<1>1. PICK r \in [0 .. n -> Node] : Ring(nx, pv, L, n, r)
  BY <1>0
<1>2. PICK m \in 0 .. n : r[m] = e
  BY <1>1 DEF Ring
<1> DEFINE s == [i \in 0 .. n + 1 |->
                   IF i <= m THEN r[i] ELSE IF i = m + 1 THEN x ELSE r[i - 1]]
<1>3. x \in Node /\ e \in Node /\ x # e /\ \A i \in 0 .. n : r[i] # x
  BY <1>1, TimersAssumption DEF Ring, Node
<1>4. s \in [0 .. n + 1 -> Node]
  BY <1>3
<1>5. /\ \A i \in 0 .. m : s[i] = r[i]
      /\ s[m + 1] = x
      /\ \A i \in m + 2 .. n + 1 : s[i] = r[i - 1]
  OBVIOUS
<1>6. nx[e] = r[Up(m, n)] /\ nx[e] \in Node /\ nx[e] # x /\ Up(m, n) \in 0 .. n
  BY <1>1, <1>2, <1>3 DEF Ring, Up
<1>7. /\ nx2[x] = r[Up(m, n)] /\ nx2[e] = x
      /\ \A y \in Node \ {x, e} : nx2[y] = nx[y]
  BY <1>3, <1>6
<1>8. /\ pv2[x] = e /\ pv2[r[Up(m, n)]] = x
      /\ \A y \in Node \ {x, r[Up(m, n)]} : pv2[y] = pv[y]
  BY <1>3, <1>6
<1> HIDE DEF s
<1>9. s[0] = head
  BY <1>1, <1>5 DEF Ring
<1>10. ASSUME NEW i \in 0 .. n + 1, NEW j \in 0 .. n + 1, s[i] = s[j] PROVE i = j
  <2> DEFINE Old(k) == IF k <= m THEN k ELSE k - 1
  <2>1. ASSUME NEW k \in 0 .. n + 1, k # m + 1
        PROVE  Old(k) \in 0 .. n /\ s[k] = r[Old(k)] /\ s[k] # x
    <3>1. k \in 0 .. m \/ (k \in m + 2 .. n + 1 /\ ~(k <= m) /\ k - 1 \in 0 .. n)
      BY <2>1
    <3> QED
      BY <1>3, <1>5, <3>1
  <2>2. \A k, l \in 0 .. n + 1 : k # m + 1 /\ l # m + 1 /\ Old(k) = Old(l) => k = l
    OBVIOUS
  <2>3. CASE i = m + 1 \/ j = m + 1
    BY <1>5, <1>10, <2>1, <2>3
  <2>4. CASE i # m + 1 /\ j # m + 1
    <3> HIDE DEF Old
    <3>1. Old(i) = Old(j)
      BY <1>1, <1>10, <2>1, <2>4 DEF Ring
    <3> QED
      BY <2>2, <2>4, <3>1
  <2> QED
    BY <2>3, <2>4
<1>11. \A i \in 0 .. n + 1 : s[i] \in (L \cup {x}) \cup {head}
  <2>1. \A k \in 0 .. n + 1 : \/ k \in 0 .. m
                              \/ k = m + 1
                              \/ k \in m + 2 .. n + 1 /\ k - 1 \in 0 .. n
    OBVIOUS
  <2> QED
    BY <1>1, <1>5, <2>1 DEF Ring
<1>12. \A y \in L \cup {x} : \E i \in 0 .. n + 1 : s[i] = y
  <2>1. s[m + 1] = x /\ m + 1 \in 0 .. n + 1
    BY <1>5
  <2>2. ASSUME NEW y \in L PROVE \E i \in 0 .. n + 1 : s[i] = y
    <3>1. PICK i \in 0 .. n : r[i] = y
      BY <1>1 DEF Ring
    <3>2. CASE i <= m
      BY <1>5, <3>1, <3>2
    <3>3. CASE i > m
      <4>1. i + 1 \in m + 2 .. n + 1 /\ (i + 1) - 1 = i
        BY <3>3
      <4>2. s[i + 1] = r[i]
        BY <1>5, <4>1
      <4> QED
        BY <3>1, <4>1, <4>2
    <3> QED
      BY <3>2, <3>3
  <2> QED
    BY <2>1, <2>2
<1>13. ASSUME NEW i \in 0 .. n + 1
       PROVE  nx2[s[i]] = s[Up(i, n + 1)] /\ pv2[s[Up(i, n + 1)]] = s[i]
  <2>1. CASE i = m
    <3>1. Up(i, n + 1) = m + 1
      BY <2>1 DEF Up
    <3>2. s[i] = e /\ s[m + 1] = x
      BY <1>2, <1>5, <2>1
    <3> QED
      BY <1>7, <1>8, <3>1, <3>2
  <2>2. CASE i = m + 1
    <3>1. s[Up(i, n + 1)] = r[Up(m, n)]
      <4>1. CASE m = n
        BY <1>5, <2>2, <4>1 DEF Up
      <4>2. CASE m # n
        <5>1. Up(i, n + 1) = m + 2 /\ m + 2 \in m + 2 .. n + 1 /\ (m + 2) - 1 = m + 1
              /\ Up(m, n) = m + 1
          BY <2>2, <4>2 DEF Up
        <5> QED
          BY <1>5, <5>1
      <4> QED
        BY <4>1, <4>2
    <3> QED
      BY <1>2, <1>5, <1>7, <1>8, <2>2, <3>1
  <2>3. CASE i \notin {m, m + 1}
    <3>1. PICK k \in 0 .. n : k # m /\ s[i] = r[k] /\ s[Up(i, n + 1)] = r[Up(k, n)]
      <4>1. CASE i < m
        <5>1. i \in 0 .. n /\ Up(i, n + 1) = i + 1 /\ Up(i, n) = i + 1 /\ i + 1 \in 0 .. m
          BY <4>1 DEF Up
        <5> QED
          BY <1>5, <4>1, <5>1
      <4>2. CASE i > m + 1
        <5>1. i - 1 \in 0 .. n /\ i - 1 # m /\ i \in m + 2 .. n + 1
          BY <4>2
        <5>2. CASE i = n + 1
          <6>1. Up(i, n + 1) = 0 /\ Up(i - 1, n) = 0
            BY <5>2 DEF Up
          <6> QED
            BY <1>5, <5>1, <6>1
        <5>3. CASE i # n + 1
          <6>1. Up(i, n + 1) = i + 1 /\ Up(i - 1, n) = i /\ i + 1 \in m + 2 .. n + 1
                /\ (i + 1) - 1 = i
            BY <4>2, <5>3 DEF Up
          <6> QED
            BY <1>5, <5>1, <6>1
        <5> QED
          BY <5>2, <5>3
      <4> QED
        BY <2>3, <4>1, <4>2
    <3>2. Up(k, n) \in 0 .. n /\ Up(k, n) # Up(m, n)
      BY <3>1 DEF Up
    <3>3. /\ r[k] \in Node \ {x, e}
          /\ r[Up(k, n)] \in Node \ {x, r[Up(m, n)]}
      BY <1>1, <1>2, <1>3, <1>6, <3>1, <3>2 DEF Ring
    <3> QED
      BY <1>1, <1>7, <1>8, <3>1, <3>3 DEF Ring
  <2> QED
    BY <2>1, <2>2, <2>3
<1>14. Ring(nx2, pv2, L \cup {x}, n + 1, s)
  BY <1>9, <1>10, <1>11, <1>12, <1>13 DEF Ring
<1> QED
  BY <1>4, <1>14 DEF OnRing

\* list_del keeps the ring, one node shorter.
LEMMA RingShrinks ==
  ASSUME NEW nx \in [Node -> Node], NEW pv \in [Node -> Node], NEW L, L \subseteq Timer,
         OnRing(nx, pv, L),
         NEW x \in L,
         NEW nx2, nx2 = [nx EXCEPT ![pv[x]] = nx[x]],
         NEW pv2, pv2 = [pv EXCEPT ![nx[x]] = pv[x]]
  PROVE  OnRing(nx2, pv2, L \ {x})
<1>0. PICK n \in Nat : \E r \in [0 .. n -> Node] : Ring(nx, pv, L, n, r)
  BY DEF OnRing
<1>1. PICK r \in [0 .. n -> Node] : Ring(nx, pv, L, n, r)
  BY <1>0
<1>2. PICK m \in 0 .. n : r[m] = x
  BY <1>1 DEF Ring
<1>3. x # head /\ m \in 1 .. n /\ n - 1 \in Nat
  BY <1>1, <1>2, TimersAssumption DEF Ring
<1> DEFINE Old(i) == IF i < m THEN i ELSE i + 1
<1> DEFINE s == [i \in 0 .. n - 1 |-> r[Old(i)]]
<1>4. /\ \A i \in 0 .. n - 1 : Old(i) \in 0 .. n /\ Old(i) # m
      /\ \A i, j \in 0 .. n - 1 : Old(i) = Old(j) => i = j
      /\ \A k \in 0 .. n : k # m => \E i \in 0 .. n - 1 : Old(i) = k
      /\ Old(0) = 0
  <2>1. ASSUME NEW k \in 0 .. n, k # m PROVE \E i \in 0 .. n - 1 : Old(i) = k
    <3>1. CASE k < m
      <4>1. k \in 0 .. n - 1 /\ Old(k) = k
        BY <1>3, <3>1
      <4> QED
        BY <4>1
    <3>2. CASE k > m
      <4>1. k - 1 \in 0 .. n - 1 /\ Old(k - 1) = k
        BY <1>3, <3>2
      <4> QED
        BY <4>1
    <3> QED
      BY <2>1, <3>1, <3>2
  <2> QED
    BY <1>3, <2>1
<1>5. s \in [0 .. n - 1 -> Node] /\ \A i \in 0 .. n - 1 : s[i] = r[Old(i)]
  BY <1>4
<1>6. /\ pv[x] = r[m - 1] /\ m - 1 \in 0 .. n /\ Up(m - 1, n) = m
      /\ nx[x] = r[Up(m, n)] /\ Up(m, n) \in 0 .. n
  <2>1. m - 1 \in 0 .. n /\ Up(m - 1, n) = m /\ Up(m, n) \in 0 .. n
    BY <1>3 DEF Up
  <2> QED
    BY <1>1, <1>2, <2>1 DEF Ring
<1>7. /\ nx2[r[m - 1]] = r[Up(m, n)]
      /\ \A k \in 0 .. n : k # m - 1 => nx2[r[k]] = nx[r[k]]
  BY <1>1, <1>6 DEF Ring
<1>8. /\ pv2[r[Up(m, n)]] = r[m - 1]
      /\ \A k \in 0 .. n : k # Up(m, n) => pv2[r[k]] = pv[r[k]]
  BY <1>1, <1>6 DEF Ring
\* The successors on the shorter ring.
<1>9. ASSUME NEW i \in 0 .. n - 1
      PROVE  /\ Up(i, n - 1) \in 0 .. n - 1
             /\ i = m - 1 => Old(i) = m - 1 /\ Old(Up(i, n - 1)) = Up(m, n)
             /\ i # m - 1 => /\ Old(i) # m - 1 /\ Old(Up(i, n - 1)) = Up(Old(i), n)
                             /\ Up(Old(i), n) # Up(m, n)
  <2>1. Up(i, n - 1) \in 0 .. n - 1
    BY DEF Up
  <2>2. CASE i = m - 1
    BY <1>3, <2>1, <2>2 DEF Up
  <2>3. CASE i # m - 1
    BY <1>3, <2>1, <2>3 DEF Up
  <2> QED
    BY <2>1, <2>2, <2>3
<1> HIDE DEF Old, s
<1>10. s[0] = head
  BY <1>1, <1>3, <1>4, <1>5 DEF Ring
<1>11. ASSUME NEW i \in 0 .. n - 1, NEW j \in 0 .. n - 1, s[i] = s[j] PROVE i = j
  BY <1>1, <1>4, <1>5, <1>11 DEF Ring
<1>12. \A i \in 0 .. n - 1 : s[i] \in (L \ {x}) \cup {head}
  BY <1>1, <1>2, <1>4, <1>5 DEF Ring
<1>13. \A y \in L \ {x} : \E i \in 0 .. n - 1 : s[i] = y
  BY <1>1, <1>2, <1>4, <1>5 DEF Ring
<1>14. ASSUME NEW i \in 0 .. n - 1
       PROVE  nx2[s[i]] = s[Up(i, n - 1)] /\ pv2[s[Up(i, n - 1)]] = s[i]
  <2>1. CASE i = m - 1
    <3>1. s[i] = r[m - 1] /\ s[Up(i, n - 1)] = r[Up(m, n)]
      BY <1>5, <1>9, <2>1
    <3> QED
      BY <1>7, <1>8, <3>1
  <2>2. CASE i # m - 1
    <3>1. /\ s[i] = r[Old(i)] /\ s[Up(i, n - 1)] = r[Up(Old(i), n)]
          /\ Old(i) \in 0 .. n /\ Up(Old(i), n) \in 0 .. n
      <4>1. Up(i, n - 1) \in 0 .. n - 1 /\ Old(Up(i, n - 1)) = Up(Old(i), n)
        BY <1>9, <2>2
      <4>2. Old(i) \in 0 .. n /\ Old(Up(i, n - 1)) \in 0 .. n
        BY <1>4, <4>1
      <4> QED
        BY <1>5, <4>1, <4>2
    <3>2. /\ nx2[r[Old(i)]] = nx[r[Old(i)]]
          /\ pv2[r[Up(Old(i), n)]] = pv[r[Up(Old(i), n)]]
      BY <1>7, <1>8, <1>9, <2>2, <3>1
    <3> QED
      BY <1>1, <3>1, <3>2 DEF Ring
  <2> QED
    BY <2>1, <2>2
<1>15. Ring(nx2, pv2, L \ {x}, n - 1, s)
  BY <1>10, <1>11, <1>12, <1>13, <1>14 DEF Ring
<1> QED
  BY <1>3, <1>5, <1>15 DEF OnRing

\* A ring does not depend on the pointers of the nodes that are not on it.
LEMMA RingElsewhere ==
  ASSUME NEW nx, NEW pv, NEW L, L \subseteq Timer, OnRing(nx, pv, L),
         NEW nx2, NEW pv2,
         \A y \in L \cup {head} : nx2[y] = nx[y] /\ pv2[y] = pv[y]
  PROVE  OnRing(nx2, pv2, L)
<1>0. PICK n \in Nat : \E r \in [0 .. n -> Node] : Ring(nx, pv, L, n, r)
  BY DEF OnRing
<1>1. PICK r \in [0 .. n -> Node] : Ring(nx, pv, L, n, r)
  BY <1>0
<1>2. \A i \in 0 .. n : Up(i, n) \in 0 .. n
  BY DEF Up
<1>3. Ring(nx2, pv2, L, n, r)
  BY <1>1, <1>2 DEF Ring
<1> QED
  BY <1>3 DEF OnRing

-----------------------------------------------------------------------------
(* What Chain reaches. *)

LEMMA DivMod ==
  ASSUME NEW a \in Nat, NEW b \in Nat \ {0}
  PROVE  a \div b \in Nat /\ a = b * (a \div b) + (a % b) /\ a % b \in 0 .. b - 1
OBVIOUS

LEMMA ModUnique ==
  ASSUME NEW q \in Nat, NEW r \in Nat, NEW b \in Nat \ {0}, r < b
  PROVE  (b * q + r) % b = r
OBVIOUS

\* Counting up goes round the ring.
LEMMA ModUp ==
  ASSUME NEW a \in Nat, NEW n \in Nat
  PROVE  a % (n + 1) \in 0 .. n /\ (a + 1) % (n + 1) = Up(a % (n + 1), n)
<1>1. PICK b \in Nat \ {0} : b = n + 1
  OBVIOUS
<1>2. PICK q \in Nat, r \in 0 .. b - 1 : a = b * q + r /\ a % b = r
  BY DivMod
<1>3. CASE r < n
  <2>1. a + 1 = b * q + (r + 1) /\ r + 1 \in Nat /\ r + 1 < b
    BY <1>1, <1>2, <1>3
  <2>2. (b * q + (r + 1)) % b = r + 1
    BY <2>1, ModUnique
  <2>3. (a + 1) % b = r + 1
    BY <2>1, <2>2, Zenon
  <2> QED
    BY <1>1, <1>2, <1>3, <2>3 DEF Up
<1>4. CASE r = n
  <2>1. a + 1 = b * (q + 1) + 0 /\ q + 1 \in Nat /\ 0 \in Nat /\ 0 < b
    BY <1>1, <1>2, <1>4
  <2>2. (b * (q + 1) + 0) % b = 0
    BY <2>1, ModUnique
  <2>3. (a + 1) % b = 0
    BY <2>1, <2>2, Zenon
  <2> QED
    BY <1>1, <1>2, <1>4, <2>3 DEF Up
<1> QED
  BY <1>1, <1>2, <1>3, <1>4

\* One turn of the recursion of Chain.
Follow(f) == [k \in Nat |-> IF k = 0 THEN next[head] ELSE next[f[k - 1]]]

\* On a ring the recursion has a solution, so Chain is one.
LEMMA ChainFollows ==
  ASSUME OnRing(next, prev, linked)
  PROVE  Chain[0] = next[head] /\ \A k \in Nat : Chain[k + 1] = next[Chain[k]]
<1>0. PICK n \in Nat : \E r \in [0 .. n -> Node] : Ring(next, prev, linked, n, r)
  BY DEF OnRing
<1>1. PICK r \in [0 .. n -> Node] : Ring(next, prev, linked, n, r)
  BY <1>0
<1> DEFINE g == [k \in Nat |-> r[(k + 1) % (n + 1)]]
<1>2. 0 % (n + 1) = 0
  <2>1. 0 = (n + 1) * 0 + 0 /\ 0 < n + 1
    OBVIOUS
  <2>2. ((n + 1) * 0 + 0) % (n + 1) = 0
    BY <2>1, ModUnique
  <2> QED
    BY <2>1, <2>2, Zenon
<1>3. \A a \in Nat : next[r[a % (n + 1)]] = r[(a + 1) % (n + 1)]
  BY <1>1, ModUp DEF Ring
<1>4. g = Follow(g)
  <2>1. ASSUME NEW k \in Nat
        PROVE  g[k] = IF k = 0 THEN next[head] ELSE next[g[k - 1]]
    <3>1. CASE k = 0
      <4>1. next[r[0 % (n + 1)]] = r[(0 + 1) % (n + 1)]
        BY <1>3
      <4> QED
        BY <1>1, <1>2, <3>1, <4>1 DEF Ring
    <3>2. CASE k # 0
      <4>1. k - 1 \in Nat /\ (k - 1) + 1 = k
        BY <3>2
      <4>2. g[k - 1] = r[k % (n + 1)] /\ g[k] = r[(k + 1) % (n + 1)]
        BY <4>1
      <4> QED
        BY <1>3, <3>2, <4>2
    <3> QED
      BY <3>1, <3>2
  <2> HIDE DEF g
  <2>2. g = [k \in Nat |-> g[k]]
    BY DEF g
  <2> QED
    BY <2>1, <2>2 DEF Follow
<1>5. Chain = CHOOSE f : f = Follow(f)
  BY Zenon DEF Chain, Follow
<1>6. Chain = Follow(Chain)
  <2> HIDE DEF g
  <2> QED
    BY <1>4, <1>5, Zenon
<1> QED
  <2>1. \A k \in Nat : Chain[k] = IF k = 0 THEN next[head] ELSE next[Chain[k - 1]]
    BY <1>6, Zenon DEF Follow
  <2>2. \A k \in Nat : k + 1 \in Nat /\ k + 1 # 0 /\ (k + 1) - 1 = k
    OBVIOUS
  <2> QED
    BY <2>1, <2>2

\* Chain goes through the listed timers in at most as many steps as there are
\* timers, and never leaves the ring.
LEMMA ChainReaches ==
  ASSUME OnRing(next, prev, linked), linked \subseteq Timer
  PROVE  /\ Cardinality(Timer) \in Nat
         /\ \E k \in 0 .. Cardinality(Timer) : Chain[k] = head
         /\ \A x \in linked : \E k \in 0 .. Cardinality(Timer) : Chain[k] = x
         /\ \A k \in Nat : Chain[k] \in linked \cup {head}
<1>0. PICK n \in Nat : \E r \in [0 .. n -> Node] : Ring(next, prev, linked, n, r)
  BY DEF OnRing
<1>1. PICK r \in [0 .. n -> Node] : Ring(next, prev, linked, n, r)
  BY <1>0
<1>2. Chain[0] = next[head] /\ \A k \in Nat : Chain[k + 1] = next[Chain[k]]
  BY ChainFollows
<1>3. \A k \in 0 .. n : Chain[k] = r[Up(k, n)]
  <2> DEFINE S == {k \in Nat : k <= n => Chain[k] = r[Up(k, n)]}
  <2>1. 0 \in S
    BY <1>1, <1>2 DEF Ring
  <2>2. ASSUME NEW k \in Nat, k \in S PROVE k + 1 \in S
    <3> SUFFICES ASSUME k + 1 <= n PROVE Chain[k + 1] = r[Up(k + 1, n)]
      OBVIOUS
    <3>1. Chain[k] = r[k + 1] /\ k + 1 \in 0 .. n
      BY <2>2 DEF Up
    <3>2. Chain[k + 1] = next[Chain[k]]
      BY <1>2
    <3>3. next[r[k + 1]] = r[Up(k + 1, n)]
      BY <1>1, <3>1 DEF Ring
    <3> QED
      BY <3>1, <3>2, <3>3
  <2>3. Nat \subseteq S
    <3> HIDE DEF S
    <3> QED
      BY <2>1, <2>2, AllNaturals
  <2> QED
    BY <2>3
<1>4. \A k \in Nat : Chain[k] \in linked \cup {head}
  <2> DEFINE S == {k \in Nat : Chain[k] \in linked \cup {head}}
  <2>1. 0 \in S
    BY <1>2, Neighbours
  <2>2. ASSUME NEW k \in Nat, k \in S PROVE k + 1 \in S
    <3>1. Chain[k] \in linked \cup {head}
      BY <2>2
    <3>2. next[Chain[k]] \in linked \cup {head}
      BY <3>1, Neighbours
    <3>3. Chain[k + 1] = next[Chain[k]]
      BY <1>2
    <3>4. k + 1 \in Nat
      OBVIOUS
    <3> QED
      BY <3>2, <3>3, <3>4
  <2>3. Nat \subseteq S
    <3> HIDE DEF S
    <3> QED
      BY <2>1, <2>2, AllNaturals
  <2> QED
    BY <2>3
<1>5. Cardinality(Timer) \in Nat /\ n <= Cardinality(Timer)
  <2> DEFINE h == [i \in 1 .. n |-> r[i]]
  <2>1. \A i \in 1 .. n : i \in 0 .. n /\ r[i] \in Timer
    BY <1>1 DEF Ring
  <2>2. h \in Injection(1 .. n, Timer)
    BY <1>1, <2>1 DEF Ring, Injection, IsInjective
  <2>3. IsFiniteSet(Timer)
    BY TimersAssumption
  <2>4. Cardinality(1 .. n) <= Cardinality(Timer)
    <3> HIDE DEF h
    <3> QED
      BY <2>2, <2>3, FS_Injection
  <2>5. Cardinality(1 .. n) = n
    BY FS_Interval
  <2> QED
    BY <2>3, <2>4, <2>5, FS_CardinalityType
<1>6. Chain[n] = head /\ n \in 0 .. Cardinality(Timer)
  <2>1. Up(n, n) = 0 /\ n \in 0 .. n
    BY DEF Up
  <2> QED
    BY <1>1, <1>3, <1>5, <2>1 DEF Ring
<1>7. ASSUME NEW x \in linked PROVE \E k \in 0 .. Cardinality(Timer) : Chain[k] = x
  <2>1. PICK i \in 0 .. n : r[i] = x
    BY <1>1 DEF Ring
  <2>2. i # 0
    BY <1>1, <2>1, TimersAssumption DEF Ring
  <2>3. i - 1 \in 0 .. n /\ Up(i - 1, n) = i /\ i - 1 \in 0 .. Cardinality(Timer)
    BY <1>5, <2>2 DEF Up
  <2> QED
    BY <1>3, <2>1, <2>3
<1> QED
  BY <1>4, <1>5, <1>6, <1>7

\* The walk of add_timer stops on the ring.
LEMMA AddPointOnRing ==
  ASSUME OnRing(next, prev, linked), linked \subseteq Timer, NEW t \in Timer
  PROVE  AddPoint(t) \in linked \cup {head}
<1> DEFINE Stop(n) == n = head \/ expire[n] >= expire[t]
<1> DEFINE First(i) == Stop(Chain[i]) /\ \A j \in 0 .. (i - 1) : ~Stop(Chain[j])
<1> DEFINE S == {i \in 0 .. Cardinality(Timer) : Stop(Chain[i])}
<1>1. Cardinality(Timer) \in Nat
  BY ChainReaches
<1>2. S # {} /\ S \subseteq Nat
  BY ChainReaches
<1>3. PICK i \in S : \A j \in S : i <= j
  <2> HIDE DEF S
  <2> QED
    BY <1>2, LeastNatural
<1>4. i \in 0 .. Cardinality(Timer) /\ First(i)
  <2>1. ASSUME NEW j \in 0 .. (i - 1) PROVE ~Stop(Chain[j])
    <3>1. j \in 0 .. Cardinality(Timer) /\ ~(i <= j)
      BY <1>1, <1>3
    <3> QED
      BY <1>3, <3>1
  <2> QED
    BY <1>3, <2>1
<1> DEFINE k == CHOOSE c \in 0 .. Cardinality(Timer) : First(c)
<1>5. k \in 0 .. Cardinality(Timer)
  <2> HIDE DEF First
  <2> QED
    BY <1>4, Zenon
<1>6. AddPoint(t) = Chain[k]
  BY Zenon DEF AddPoint
<1> HIDE DEF k
<1>7. k \in Nat
  BY <1>1, <1>5
<1> QED
  BY <1>6, <1>7, ChainReaches

-----------------------------------------------------------------------------
(* The list is sound. *)

LEMMA TimersInvImplies == TimersInv => ListSound
<1> SUFFICES ASSUME TimersInv PROVE ListSound
  OBVIOUS
<1>1. TimersTypeOK /\ OnRing(next, prev, linked) /\ linked \subseteq Timer
  BY DEF TimersInv, TimersTypeOK
<1>2. Closed
  BY <1>1, ChainReaches DEF Closed
<1>3. Listed = linked
  <2>1. Listed \subseteq linked
    <3>1. 0 .. Cardinality(Timer) \subseteq Nat
      BY <1>1, ChainReaches
    <3> QED
      BY <1>1, <3>1, ChainReaches DEF Listed
  <2>2. linked \subseteq Listed
    BY <1>1, ChainReaches, TimersAssumption DEF Listed
  <2> QED
    BY <2>1, <2>2
<1>4. \A n \in linked \cup {head} : prev[next[n]] = n /\ next[prev[n]] = n
  BY <1>1, Neighbours
<1> QED
  BY <1>1, <1>2, <1>3, <1>4 DEF ListSound

\* A head that points to itself is a ring.
LEMMA LoneRing ==
  ASSUME next[head] = head, prev[head] = head
  PROVE  OnRing(next, prev, {})
<1> DEFINE r == [i \in 0 .. 0 |-> head]
<1>1. \A i \in 0 .. 0 : i = 0 /\ r[i] = head /\ Up(i, 0) = 0
  BY DEF Up
<1>2. 0 \in 0 .. 0 /\ 0 \in Nat
  OBVIOUS
<1>3. r \in [0 .. 0 -> Node]
  BY DEF Node
<1> HIDE DEF r
<1>4. Ring(next, prev, {}, 0, r)
  BY <1>1, <1>2 DEF Ring
<1> QED
  BY <1>2, <1>3, <1>4 DEF OnRing

LEMMA TimersInvInit == TimersInit => TimersInv
<1> SUFFICES ASSUME TimersInit PROVE TimersInv
  OBVIOUS
<1>1. TimersTypeOK /\ LoneTimers
  BY DEF TimersInit, TimersTypeOK, LoneTimers, Node
<1>2. next[head] = head /\ prev[head] = head /\ linked = {}
  BY DEF TimersInit, Node
<1> QED
  BY <1>1, <1>2, LoneRing DEF TimersInv

\* The calls on the list, of a timer that is not in it, or is.
LEMMA AddKeeps ==
  ASSUME TimersInv, NEW t \in Timer \ linked, NEW e \in linked \cup {head},
         ListAddToBehind(e, t), linked' = linked \cup {t}
  PROVE  /\ next' \in [Node -> Node] /\ prev' \in [Node -> Node]
         /\ OnRing(next, prev, linked)'
         /\ LoneTimers'
<1>1. /\ next \in [Node -> Node] /\ prev \in [Node -> Node] /\ linked \subseteq Timer
      /\ OnRing(next, prev, linked)
  BY DEF TimersInv, TimersTypeOK
<1>2. /\ next' = [next EXCEPT ![t] = next[e], ![e] = t]
      /\ prev' = [prev EXCEPT ![t] = e, ![next[e]] = t]
  BY DEF ListAddToBehind
<1>3. next[e] \in linked \cup {head}
  BY <1>1, Neighbours
<1>4. OnRing(next', prev', linked \cup {t})
  BY <1>1, <1>2, RingGrows
<1>5. ASSUME NEW u \in Timer \ linked', next'[u] = u PROVE prev'[u] = u
  <2>1. u # t /\ u # e /\ u # next[e] /\ u \in Node /\ u \in Timer \ linked
    BY <1>3, TimersAssumption DEF Node
  <2>2. next'[u] = next[u] /\ prev'[u] = prev[u]
    BY <1>1, <1>2, <2>1
  <2> QED
    BY <1>5, <2>1, <2>2 DEF TimersInv, LoneTimers
<1>6. next' \in [Node -> Node] /\ prev' \in [Node -> Node]
  <2>1. t \in Node /\ e \in Node /\ next[e] \in Node
    BY <1>1, <1>3 DEF Node
  <2> QED
    BY <1>1, <1>2, <2>1
<1> QED
  BY <1>4, <1>5, <1>6 DEF LoneTimers

LEMMA DelKeeps ==
  ASSUME TimersInv, NEW t \in Timer, t \in linked \/ next[t] = t,
         ListDel(t), linked' = linked \ {t}
  PROVE  /\ next' \in [Node -> Node] /\ prev' \in [Node -> Node]
         /\ OnRing(next, prev, linked)'
         /\ LoneTimers'
<1>1. /\ next \in [Node -> Node] /\ prev \in [Node -> Node] /\ linked \subseteq Timer
      /\ OnRing(next, prev, linked)
  BY DEF TimersInv, TimersTypeOK
<1>2. /\ next' = [next EXCEPT ![prev[t]] = next[t]]
      /\ prev' = [prev EXCEPT ![next[t]] = prev[t]]
  BY DEF ListDel
<1>3. t \in Node
  BY DEF Node
<1>4. next' \in [Node -> Node] /\ prev' \in [Node -> Node]
  BY <1>1, <1>2, <1>3
<1>5. CASE t \in linked
  <2>1. OnRing(next', prev', linked \ {t})
    BY <1>1, <1>2, <1>5, RingShrinks
  <2>2. /\ next[t] \in linked \cup {head} /\ prev[t] \in linked \cup {head}
        /\ next[t] # t
    BY <1>1, <1>5, Neighbours
  <2>3. ASSUME NEW u \in Timer \ linked', next'[u] = u PROVE prev'[u] = u
    <3>1. u \in Node /\ u # head
      BY TimersAssumption DEF Node
    <3>2. CASE u = t
      <4>1. prev[t] # t
        BY <1>1, <1>5, <2>2, Neighbours
      <4> QED
        BY <1>1, <1>2, <2>2, <2>3, <3>1, <3>2, <4>1
    <3>3. CASE u # t
      <4>1. u \in Timer \ linked /\ u # next[t] /\ u # prev[t]
        BY <2>2, <3>1, <3>3
      <4>2. next'[u] = next[u] /\ prev'[u] = prev[u]
        BY <1>1, <1>2, <3>1, <4>1
      <4> QED
        BY <2>3, <4>1, <4>2 DEF TimersInv, LoneTimers
    <3> QED
      BY <3>2, <3>3
  <2> QED
    BY <1>4, <2>1, <2>3 DEF LoneTimers
<1>6. CASE t \notin linked
  <2>1. next[t] = t /\ prev[t] = t
    BY <1>6 DEF TimersInv, LoneTimers
  <2>2. next' = next /\ prev' = prev
    BY <1>1, <1>2, <1>3, <2>1
  <2>3. linked' = linked
    BY <1>6
  <2> QED
    BY <1>1, <1>4, <2>2, <2>3 DEF TimersInv, LoneTimers
<1> QED
  BY <1>5, <1>6

LEMMA TimersInvStep == TimersInv /\ [TimersNext]_timerVars => TimersInv'
<1> SUFFICES ASSUME TimersInv, [TimersNext]_timerVars PROVE TimersInv'
  OBVIOUS
<1>1. TimersTypeOK /\ OnRing(next, prev, linked) /\ linked \subseteq Timer
  BY DEF TimersInv, TimersTypeOK
<1>2. ASSUME NEW t \in Timer, NEW d \in Delays, InitTimer(t, d) PROVE TimersInv'
  <2>1. /\ t \notin linked /\ t \in Node /\ t # head
        /\ next' = [next EXCEPT ![t] = t] /\ prev' = [prev EXCEPT ![t] = t]
        /\ expire' = [expire EXCEPT ![t] = jiffies + d]
        /\ UNCHANGED <<jiffies, softirq, linked, fired>>
    BY <1>2, TimersAssumption DEF InitTimer, ListInit, Expiry, Node
  <2>2. d \in Nat
    BY TimersAssumption
  <2>3. TimersTypeOK'
    BY <1>1, <2>1, <2>2 DEF TimersTypeOK
  <2>4. \A y \in linked \cup {head} : next'[y] = next[y] /\ prev'[y] = prev[y]
    BY <1>1, <2>1 DEF TimersTypeOK, Node
  <2>5. OnRing(next', prev', linked)
    BY <1>1, <2>4, RingElsewhere
  <2>6. LoneTimers'
    BY <1>1, <2>1 DEF TimersInv, TimersTypeOK, LoneTimers, Node
  <2> QED
    BY <2>1, <2>3, <2>5, <2>6 DEF TimersInv
<1>3. ASSUME NEW t \in Timer, AddTimer(t) PROVE TimersInv'
  <2>1. /\ t \in Timer \ linked /\ ListAddToBehind(AddPoint(t), t)
        /\ linked' = linked \cup {t} /\ fired' = fired \ {t}
        /\ UNCHANGED <<expire, jiffies, softirq>>
    BY <1>3 DEF AddTimer
  <2>2. AddPoint(t) \in linked \cup {head}
    BY <1>1, AddPointOnRing
  <2>3. /\ next' \in [Node -> Node] /\ prev' \in [Node -> Node]
        /\ OnRing(next, prev, linked)' /\ LoneTimers'
    BY <2>1, <2>2, AddKeeps
  <2> QED
    BY <1>1, <2>1, <2>3 DEF TimersInv, TimersTypeOK
<1>4. ASSUME NEW t \in Timer, DelTimer(t) PROVE TimersInv'
  <2>1. /\ t \in linked \/ next[t] = t
        /\ ListDel(t) /\ linked' = linked \ {t}
        /\ UNCHANGED <<expire, jiffies, softirq, fired>>
    BY <1>4 DEF DelTimer
  <2>2. /\ next' \in [Node -> Node] /\ prev' \in [Node -> Node]
        /\ OnRing(next, prev, linked)' /\ LoneTimers'
    BY <2>1, DelKeeps
  <2> QED
    BY <1>1, <2>1, <2>2 DEF TimersInv, TimersTypeOK
<1>5. ASSUME NEW t \in Timer, Fire(t) PROVE TimersInv'
  <2>1. /\ t = next[head]
        /\ ListDel(t) /\ linked' = linked \ {t} /\ fired' = fired \cup {t}
        /\ UNCHANGED <<expire, jiffies, softirq>>
    BY <1>5 DEF Fire
  <2>2. t \in linked
    BY <1>1, <2>1, Neighbours, TimersAssumption
  <2>3. /\ next' \in [Node -> Node] /\ prev' \in [Node -> Node]
        /\ OnRing(next, prev, linked)' /\ LoneTimers'
    BY <2>1, <2>2, DelKeeps
  <2> QED
    BY <1>1, <2>1, <2>3 DEF TimersInv, TimersTypeOK
<1>6. CASE TimerTick
  BY <1>6 DEF TimersInv, TimersTypeOK, LoneTimers, TimerTick, Due
<1>7. CASE DoTimerEnds
  BY <1>7 DEF TimersInv, TimersTypeOK, LoneTimers, DoTimerEnds
<1>8. CASE UNCHANGED timerVars
  BY <1>8 DEF TimersInv, TimersTypeOK, LoneTimers, timerVars
<1> QED
  BY <1>2, <1>3, <1>4, <1>5, <1>6, <1>7, <1>8 DEF TimersNext

\* The numbering of the ring is an invariant of the list.
THEOREM TimersInvariant == TimersSpec => []TimersInv
BY TimersInvInit, TimersInvStep, PTL DEF TimersSpec

\* Whatever timers are added, deleted and fired, in whatever order of expiry,
\* next and prev stay inverse along a list that holds exactly those added and
\* not yet deleted or fired: list_add_to_behind and list_del, as add_timer,
\* del_timer and do_timer call them, neither lose a timer nor leave one behind.
THEOREM ListStaysSound == TimersSpec => []ListSound
BY TimersInvariant, TimersInvImplies, PTL

-----------------------------------------------------------------------------
(* The list implements the service. *)

LEMMA ServiceInit == TimersInit => Service!Init
<1> SUFFICES ASSUME TimersInit PROVE Service!Init
  OBVIOUS
<1>1. Listed = linked
  BY TimersInvInit, TimersInvImplies DEF ListSound
<1> QED
  BY <1>1 DEF TimersInit, Service!Init

LEMMA ServiceStep ==
  TimersInv /\ ListSound /\ ListSound' /\ [TimersNext]_timerVars
  => [Service!Next]_Service!serviceVars
<1> SUFFICES ASSUME TimersInv, ListSound, ListSound', [TimersNext]_timerVars
             PROVE  Service!Next \/ UNCHANGED Service!serviceVars
  BY DEF Service!serviceVars
<1>1. Listed = linked /\ Listed' = linked'
  BY DEF ListSound
<1>2. ASSUME NEW t \in Timer, NEW d \in Delays, InitTimer(t, d)
      PROVE  Service!Prepare(t, d)
  BY <1>1, <1>2 DEF InitTimer, Expiry, Service!Prepare
<1>3. ASSUME NEW t \in Timer, AddTimer(t) PROVE Service!Add(t)
  BY <1>1, <1>3 DEF AddTimer, Service!Add
<1>4. ASSUME NEW t \in Timer, DelTimer(t) PROVE Service!Cancel(t)
  BY <1>1, <1>4 DEF DelTimer, Service!Cancel
<1>5. ASSUME NEW t \in Timer, Fire(t) PROVE Service!Fire(t)
  <2>1. t \in linked
    BY <1>5, Neighbours, TimersAssumption DEF Fire, TimersInv, TimersTypeOK
  <2> QED
    BY <1>1, <1>5, <2>1 DEF Fire, Due, Service!Fire
<1>6. CASE TimerTick
  BY <1>1, <1>6 DEF TimerTick, Service!Next, Service!Advance
<1>7. CASE DoTimerEnds
  BY <1>1, <1>7 DEF DoTimerEnds, Service!serviceVars
<1>8. CASE UNCHANGED timerVars
  BY <1>1, <1>8 DEF timerVars, Service!serviceVars
<1> QED
  BY <1>2, <1>3, <1>4, <1>5, <1>6, <1>7, <1>8 DEF TimersNext, Service!Next

\* The list of kernel/timer.c does what its clients expect: a timer fires only
\* when it was added and not deleted, never before its expiry, and once for
\* each time it is added.  Every step of the list is a step of the service, or
\* none that the clients see.
THEOREM ListIsService == TimersSpec => ImplementsService
<1>1. Service!Init /\ [][Service!Next]_Service!serviceVars => Service!Spec
  BY DEF Service!Spec
<1> QED
  BY <1>1, ServiceInit, ServiceStep, TimersInvariant, ListStaysSound, PTL DEF TimersSpec, ImplementsService

-----------------------------------------------------------------------------
(* The driver is never deaf. *)

\* The driver always waits for something that will come: the end of a
\* conversion, or its timer if it waits for the stylus to go up.
NeverDeaf == /\ mode = "auto" => conv \/ adcPending
             /\ mode = "up" => ts \in linked

\* NeverDeaf holds when init_Ts has returned.
LEMMA DeafInit == TsInit => NeverDeaf
BY DEF TsInit, NeverDeaf

\* Every step keeps it: the property is inductive as it stands.
LEMMA DeafStep == NeverDeaf /\ [TsNext]_tsVars => NeverDeaf'
<1> SUFFICES ASSUME NeverDeaf, [TsNext]_tsVars PROVE NeverDeaf'
  OBVIOUS
<1>1. CASE Pen \/ RaiseTc
  BY <1>1 DEF NeverDeaf, Pen, RaiseTc, timerVars
<1>2. CASE EndConversion
  BY <1>2 DEF NeverDeaf, EndConversion, timerVars
<1>3. CASE Isr_Tc
  BY <1>3 DEF NeverDeaf, Isr_Tc, StylusUp, StartConversion, timerVars
<1>4. CASE Isr_Adc
  BY <1>4 DEF NeverDeaf, Isr_Adc, StylusUp, StartConversion, add_ts, timerVars
<1>5. CASE TsTick
  BY <1>5 DEF NeverDeaf, TsTick, device
<1>6. CASE timer_handle
  BY <1>6 DEF NeverDeaf, timer_handle, StartConversion
<1>7. CASE TsTimerEnds
  BY <1>7 DEF NeverDeaf, TsTimerEnds, DoTimerEnds, device
<1>8. CASE ts_read_raw
  BY <1>8 DEF NeverDeaf, ts_read_raw, timerVars, device
<1>9. CASE UNCHANGED tsVars
  BY <1>9 DEF NeverDeaf, tsVars, timerVars, device
<1> QED
  BY <1>1, <1>2, <1>3, <1>4, <1>5, <1>6, <1>7, <1>8, <1>9 DEF TsNext

\* While it converts, a conversion runs or its interrupt is pending; while it
\* waits for the stylus to go up, its timer is in the list: no branch of
\* Isr_Tc, Isr_Adc or timer_handle leaves the driver waiting for nothing.
THEOREM DriverNeverDeaf == TsSpec => []NeverDeaf
BY DeafInit, DeafStep, PTL DEF TsSpec

-----------------------------------------------------------------------------
(* No torn read. *)

\* A report, or what the words hold before the first.
Words == [x : Int, y : Int, pressure : {0, 1}]

ReadTypes == /\ g_ts \in Words /\ copy \in Words
             /\ valid \in BOOLEAN
             /\ pc \in {"wait", "x", "y", "pressure", "clear"}

\* The program is between its copies only while the report is held, the words
\* are then those of the last report, and those copied so far are among them.
Copied == /\ pc # "wait" => valid
          /\ valid => g_ts = reported
          /\ pc \in {"y", "pressure", "clear"} => copy.x = g_ts.x
          /\ pc \in {"pressure", "clear"} => copy.y = g_ts.y
          /\ pc = "clear" => copy.pressure = g_ts.pressure

ReadInv == ReadTypes /\ Copied

\* Two sets of words that agree in each word are the same.
LEMMA SameWords ==
  ASSUME NEW a \in Words, NEW b \in Words,
         a.x = b.x, a.y = b.y, a.pressure = b.pressure
  PROVE  a = b
BY DEF Words

\* ReadInv is what NoTornRead needs.
LEMMA ReadInvImplies == ReadInv => NoTornRead
<1> SUFFICES ASSUME ReadInv, pc = "clear" PROVE copy = reported
  BY DEF NoTornRead
<1>1. g_ts = reported
  BY DEF ReadInv, Copied
<1>2. copy = g_ts
  BY SameWords DEF ReadInv, ReadTypes, Copied
<1> QED BY <1>1, <1>2

LEMMA ReadInit == TsInit => ReadInv
<1> SUFFICES ASSUME TsInit PROVE ReadInv
  OBVIOUS
<1>1. g_ts \in Words /\ copy \in Words
  BY DEF TsInit, Words
<1>2. pc = "wait" /\ valid = FALSE
  BY DEF TsInit
<1> QED BY <1>1, <1>2, Zenon DEF ReadInv, ReadTypes, Copied

\* A report that comes while the program copies is dropped.
LEMMA ReportKeeps ==
  ASSUME ReadInv, UNCHANGED reader, NEW r \in Words, report_ts_xy(r)
  PROVE  ReadInv'
<1>1. CASE valid
  <2>1. UNCHANGED <<reports, reader>>
    BY <1>1 DEF report_ts_xy
  <2> QED BY <2>1, Zenon DEF ReadInv, ReadTypes, Copied, reports, reader
<1>2. CASE ~valid
  <2>1. g_ts' = r /\ valid' = TRUE /\ reported' = r /\ pc' = pc /\ copy' = copy
    BY <1>2 DEF report_ts_xy, reader
  <2>2. pc = "wait"
    BY <1>2 DEF ReadInv, Copied
  <2> QED BY <2>1, <2>2 DEF ReadInv, ReadTypes, Copied
<1> QED BY <1>1, <1>2

\* What a handler can report.
LEMMA ReportsAreWords == UpReport \in Words /\ Report \subseteq Words
<1>1. UpReport \in Words
  BY DEF UpReport, Words
<1>2. ASSUME NEW r \in Report PROVE r \in Words
  <2>1. /\ r = [x |-> r.x, y |-> r.y, pressure |-> r.pressure]
        /\ r.x \in Point /\ r.y \in Point /\ r.pressure = 1
    BY <1>2 DEF Report
  <2>2. r.x \in Int /\ r.y \in Int
    BY <2>1, TouchScreenAssumption
  <2> QED BY <2>1, <2>2 DEF Words
<1> QED BY <1>1, <1>2

\* Every step of the handlers, the devices and the reader keeps ReadInv.
LEMMA ReadStep == ReadInv /\ [TsNext]_tsVars => ReadInv'
<1> SUFFICES ASSUME ReadInv, [TsNext]_tsVars PROVE ReadInv'
  OBVIOUS
<1>a. ASSUME UNCHANGED <<reports, reader>> PROVE ReadInv'
  BY <1>a, Zenon DEF ReadInv, ReadTypes, Copied, reports, reader
<1>1. CASE Isr_Tc
  <2>1. UNCHANGED reader
    BY <1>1 DEF Isr_Tc
  <2>2. CASE report_ts_xy(UpReport)
    BY <2>1, <2>2, ReportKeeps, ReportsAreWords
  <2>3. CASE UNCHANGED reports
    BY <1>a, <2>1, <2>3
  <2> QED BY <1>1, <2>2, <2>3 DEF Isr_Tc, StylusUp
<1>2. CASE Isr_Adc
  <2>1. UNCHANGED reader
    BY <1>2 DEF Isr_Adc
  <2>2. ASSUME NEW r \in Words, report_ts_xy(r) PROVE ReadInv'
    BY <2>1, <2>2, ReportKeeps
  <2>3. CASE UNCHANGED reports
    BY <1>a, <2>1, <2>3
  <2> QED BY <1>2, <2>2, <2>3, ReportsAreWords DEF Isr_Adc, StylusUp
<1>3. CASE ts_read_raw
  <2> USE DEF reports
  <2>1. CASE pc = "wait" /\ valid /\ pc' = "x" /\ UNCHANGED <<copy, reports>>
    BY <2>1, Zenon DEF ReadInv, ReadTypes, Copied
  <2>2. CASE CopyWord("x", "x", "y")
    BY <2>2 DEF CopyWord, ReadInv, ReadTypes, Copied, Words
  <2>3. CASE CopyWord("y", "y", "pressure")
    BY <2>3 DEF CopyWord, ReadInv, ReadTypes, Copied, Words
  <2>4. CASE CopyWord("pressure", "pressure", "clear")
    BY <2>4 DEF CopyWord, ReadInv, ReadTypes, Copied, Words
  <2>5. CASE /\ pc' = "wait" /\ valid' = FALSE
             /\ UNCHANGED <<copy, g_ts, reported>>
    BY <2>5, Zenon DEF ReadInv, ReadTypes, Copied
  <2> QED BY <1>3, <2>1, <2>2, <2>3, <2>4, <2>5 DEF ts_read_raw
<1>4. CASE Pen \/ RaiseTc \/ EndConversion
  BY <1>4, <1>a, Zenon DEF Pen, RaiseTc, EndConversion
<1>5. CASE TsTick \/ timer_handle \/ TsTimerEnds
  BY <1>5, <1>a, Zenon DEF TsTick, timer_handle, TsTimerEnds
<1>6. CASE UNCHANGED tsVars
  BY <1>6, <1>a, Zenon DEF tsVars
<1> QED
  BY <1>1, <1>2, <1>3, <1>4, <1>5, <1>6 DEF TsNext

\* What ts_read_raw returns is one report, never a mix of two.
THEOREM ReadsAreWhole == TsSpec => []NoTornRead
<1>1. TsSpec => []ReadInv
  BY ReadInit, ReadStep, PTL DEF TsSpec
<1> QED BY <1>1, ReadInvImplies, PTL

-----------------------------------------------------------------------------
(* The driver and the timer list. *)

\* While ts_timer is not in the list, its pointers are those init_timer left,
\* or both still point to the head, where it was last.
Pointers == ts \notin linked => next[ts] = prev[ts] /\ next[ts] \in {ts, head}

\* What can be under way in each mode of the driver.
Modes ==
  /\ adc_cnt \in Nat
  /\ mode \in {"down", "auto", "up"}
  /\ mode = "up" => linked = {ts} /\ ~conv /\ ~adcPending /\ (tcPending => ~pen)
  /\ mode # "up" => linked = {}
  /\ mode # "auto" => adc_cnt = 0
  /\ mode = "down" => (tcPending => pen) /\ ~(conv /\ adcPending)
  /\ mode = "auto" =>
       /\ tcPending => ~pen /\ adc_cnt = 0 /\ ~(conv /\ adcPending)
       /\ conv /\ adcPending => adc_cnt = 0

\* The invariant, as long as the stylus has not bounced.
ListInv == ~bounced => TimersInv /\ Pointers /\ Modes

LEMMA ListInvImplies == ListInv => TsListSound
BY TimersInvImplies DEF ListInv, TsListSound

LEMMA ListInvInit == TsInit => ListInv
<1> SUFFICES ASSUME TsInit PROVE TimersInv /\ Pointers /\ Modes
  BY DEF ListInv
<1>1. Delay \in Nat /\ Timer = {ts} /\ ts \in Node /\ head \in Node
  BY TouchScreenAssumption, TimersAssumption DEF Node
<1>2. TimersTypeOK /\ LoneTimers
  BY <1>1 DEF TsInit, TimersTypeOK, LoneTimers, Node
<1>3. OnRing(next, prev, linked)
  BY <1>1, LoneRing DEF TsInit
<1>4. Pointers /\ Modes
  BY <1>1 DEF TsInit, Pointers, Modes
<1> QED
  BY <1>2, <1>3, <1>4 DEF TimersInv

\* Outside the list the pointers are these, so del_timer changes nothing, and
\* neighbours in the list are the head.
LEMMA OneTimer ==
  ASSUME TimersInv, Pointers
  PROVE  /\ Timer = {ts} /\ ts # head /\ Node = {ts, head}
         /\ next \in [Node -> Node] /\ prev \in [Node -> Node]
         /\ linked \in {{}, {ts}} /\ OnRing(next, prev, linked)
         /\ linked = {} => next[head] = head /\ prev[head] = head
         /\ linked = {ts} => next[ts] = head /\ prev[ts] = head
<1>1. Timer = {ts} /\ ts # head /\ Node = {ts, head}
  BY TouchScreenAssumption, TimersAssumption DEF Node
<1>2. /\ next \in [Node -> Node] /\ prev \in [Node -> Node] /\ linked \subseteq Timer
      /\ OnRing(next, prev, linked)
  BY DEF TimersInv, TimersTypeOK
<1>3. linked = {} \/ linked = {ts}
  BY <1>1, <1>2
<1>4. linked = {} => next[head] = head /\ prev[head] = head
  BY <1>2, Neighbours
<1>5. CASE linked = {ts}
  <2>1. next[ts] \in {ts, head} /\ prev[ts] \in {ts, head} /\ next[ts] # ts /\ next[prev[ts]] = ts
    BY <1>2, <1>5, Neighbours
  <2> QED
    BY <1>1, <1>2, <1>3, <1>4, <1>5, <2>1
<1> QED
  BY <1>1, <1>2, <1>3, <1>4, <1>5

\* del_timer, of the timer in the list or not.
LEMMA DelAnyway ==
  ASSUME TimersInv, Pointers, del_ts
  PROVE  TimersInv' /\ Pointers' /\ linked' = {}
<1>1. /\ ListDel(ts) /\ linked' = linked \ {ts}
      /\ UNCHANGED <<expire, jiffies, softirq, fired>>
  BY DEF del_ts
<1>2. CASE linked = {ts}
  <2>1. /\ next' \in [Node -> Node] /\ prev' \in [Node -> Node]
        /\ OnRing(next, prev, linked)' /\ LoneTimers'
    BY <1>1, <1>2, OneTimer, DelKeeps
  <2>2. TimersInv'
    BY <1>1, <1>2, <2>1, OneTimer DEF TimersInv, TimersTypeOK
  <2>3. next'[ts] = head /\ prev'[ts] = head
    BY <1>1, <1>2, OneTimer DEF ListDel
  <2> QED
    BY <1>1, <1>2, <2>2, <2>3 DEF Pointers
<1>3. CASE linked = {}
  <2>1. ts \notin linked /\ linked' = linked
    BY <1>1, <1>3
  <2>2. next' = next /\ prev' = prev
    <3>1. CASE next[ts] = ts
      BY <1>1, <2>1, <3>1, OneTimer DEF ListDel, Pointers
    <3>2. CASE next[ts] = head
      BY <1>1, <1>3, <2>1, <3>2, OneTimer DEF ListDel, Pointers
    <3> QED
      BY <2>1, <3>1, <3>2 DEF Pointers
  <2> QED
    BY <1>1, <1>3, <2>1, <2>2 DEF TimersInv, TimersTypeOK, LoneTimers, Pointers
<1> QED
  BY <1>2, <1>3, OneTimer

\* add_timer, of the timer that is not in the list.
LEMMA AddOnce ==
  ASSUME TimersInv, Pointers, linked = {}, add_ts
  PROVE  TimersInv' /\ Pointers' /\ linked' = {ts}
<1>1. /\ ListAddToBehind(AddPoint(ts), ts)
      /\ linked' = linked \cup {ts} /\ fired' = fired \ {ts}
      /\ UNCHANGED <<expire, jiffies, softirq>>
  BY DEF add_ts
<1>2. ts \in Timer \ linked /\ linked \subseteq Timer /\ OnRing(next, prev, linked)
  BY OneTimer
<1>3. AddPoint(ts) \in linked \cup {head}
  BY <1>2, AddPointOnRing
<1>4. /\ next' \in [Node -> Node] /\ prev' \in [Node -> Node]
      /\ OnRing(next, prev, linked)' /\ LoneTimers'
  BY <1>1, <1>2, <1>3, AddKeeps
<1> QED
  BY <1>1, <1>2, <1>4 DEF TimersInv, TimersTypeOK, Pointers

\* do_timer's own deletion.
LEMMA FireTakes ==
  ASSUME TimersInv, Pointers, Fire(ts)
  PROVE  TimersInv' /\ Pointers' /\ linked = {ts} /\ linked' = {}
<1>1. /\ ts = next[head] /\ ListDel(ts)
      /\ linked' = linked \ {ts} /\ fired' = fired \cup {ts}
      /\ UNCHANGED <<expire, jiffies, softirq>>
  BY DEF Fire
<1>2. linked = {ts}
  BY <1>1, OneTimer
<1>3. /\ next' \in [Node -> Node] /\ prev' \in [Node -> Node]
      /\ OnRing(next, prev, linked)' /\ LoneTimers'
  BY <1>1, <1>2, OneTimer, DelKeeps
<1>4. next'[ts] = head /\ prev'[ts] = head
  BY <1>1, <1>2, OneTimer DEF ListDel
<1> QED
  BY <1>1, <1>2, <1>3, <1>4, OneTimer DEF TimersInv, TimersTypeOK, Pointers

\* Steps that do not touch the list, nor the last event of the hardware.
LEMMA ListKeeps ==
  ASSUME TimersInv, Pointers,
         UNCHANGED <<next, prev, expire, linked, fired>>, jiffies' \in Nat, softirq' \in BOOLEAN
  PROVE  TimersInv' /\ Pointers'
BY DEF TimersInv, TimersTypeOK, LoneTimers, Pointers

LEMMA ListInvStep ==
  ASSUME NSamples # 1
  PROVE  ListInv /\ [TsNext]_tsVars => ListInv'
<1> SUFFICES ASSUME ListInv, [TsNext]_tsVars, ~bounced' PROVE (TimersInv /\ Pointers /\ Modes)'
  BY DEF ListInv
<1>1. ~bounced /\ TimersInv /\ Pointers /\ Modes
  <2>1. ~bounced
    BY DEF TsNext, tsVars, Pen, RaiseTc, EndConversion, Isr_Tc, Isr_Adc, TsTick, timer_handle,
           TsTimerEnds, ts_read_raw
  <2> QED
    BY <2>1 DEF ListInv
<1>2. jiffies \in Nat /\ softirq \in BOOLEAN /\ MaxJiffies \in Nat
  BY <1>1, TimersAssumption DEF TimersInv, TimersTypeOK
<1>3. linked = {} \/ linked = {ts}
  BY <1>1, OneTimer
<1>4. CASE Pen
  <2>1. TimersInv' /\ Pointers'
    BY <1>1, <1>2, <1>4, ListKeeps DEF Pen, timerVars
  <2>2. Modes'
    BY <1>1, <1>4 DEF Pen, Modes, timerVars
  <2> QED
    BY <2>1, <2>2
<1>5. CASE RaiseTc
  <2>1. TimersInv' /\ Pointers'
    BY <1>1, <1>2, <1>5, ListKeeps DEF RaiseTc, timerVars
  <2>2. Modes'
    BY <1>1, <1>5 DEF RaiseTc, Modes, timerVars
  <2> QED
    BY <2>1, <2>2
<1>6. CASE EndConversion
  <2>1. TimersInv' /\ Pointers'
    BY <1>1, <1>2, <1>6, ListKeeps DEF EndConversion, timerVars
  <2>2. Modes'
    BY <1>1, <1>6 DEF EndConversion, Modes, timerVars
  <2> QED
    BY <2>1, <2>2
<1>7. CASE Isr_Tc
  <2>1. CASE StylusUp
    <3>1. TimersInv' /\ Pointers' /\ linked' = {}
      BY <1>1, <2>1, DelAnyway DEF StylusUp
    <3>2. mode # "down"
      BY <1>1, <1>7, <2>1 DEF Isr_Tc, BitUp, StylusUp, StartConversion, Modes, timerVars
    <3>3. Modes'
      BY <1>1, <1>7, <2>1, <3>1, <3>2 DEF Isr_Tc, StylusUp, Modes
    <3> QED
      BY <3>1, <3>3
  <2>2. CASE StartConversion /\ UNCHANGED <<timerVars, reports>>
    <3>1. TimersInv' /\ Pointers'
      BY <1>1, <1>2, <2>2, ListKeeps DEF timerVars
    <3>2. ASSUME mode = "up" PROVE FALSE
      <4>1. ~pen /\ mode # "auto"
        BY <1>1, <1>7, <3>2 DEF Isr_Tc, Modes
      <4>2. BitUp = {TRUE}
        BY <4>1 DEF BitUp
      <4>3. StylusUp
        BY <1>7, <4>2 DEF Isr_Tc
      <4> QED
        BY <2>2, <4>3 DEF StylusUp, StartConversion
    <3>3. Modes'
      BY <1>1, <1>7, <2>2, <3>2 DEF Isr_Tc, StartConversion, Modes, timerVars
    <3> QED
      BY <3>1, <3>3
  <2> QED
    BY <1>7, <2>1, <2>2 DEF Isr_Tc
<1>8. CASE Isr_Adc
  <2>1. mode # "up" /\ linked = {} /\ adcPending /\ ~adcPending' /\ ~tcPending /\ tcPending' = tcPending
        /\ pen' = pen
    BY <1>1, <1>8 DEF Isr_Adc, Modes
  <2>2. CASE ~pen /\ adc_cnt' = 0 /\ StylusUp
    <3>1. TimersInv' /\ Pointers' /\ linked' = {}
      BY <1>1, <2>2, DelAnyway DEF StylusUp
    <3>2. Modes'
      BY <2>1, <2>2, <3>1 DEF StylusUp, Modes
    <3> QED
      BY <3>1, <3>2
  <2>3. CASE /\ pen /\ ~LastSample /\ adc_cnt' = adc_cnt + 1
             /\ StartConversion /\ UNCHANGED <<timerVars, reports>>
    <3>1. TimersInv' /\ Pointers'
      BY <1>1, <1>2, <2>3, ListKeeps DEF timerVars
    <3>2. Modes'
      BY <1>1, <2>1, <2>3 DEF StartConversion, Modes, timerVars
    <3> QED
      BY <3>1, <3>2
  <2>4. CASE pen /\ LastSample /\ adc_cnt' = 0 /\ mode' = "up" /\ add_ts /\ UNCHANGED conv
    <3>1. TimersInv' /\ Pointers' /\ linked' = {ts}
      BY <1>1, <2>1, <2>4, AddOnce
    <3>2. adc_cnt # 0
      BY <1>1, <2>4, TouchScreenAssumption DEF LastSample
    <3>3. mode = "auto" /\ ~conv
      BY <1>1, <2>1, <3>2 DEF Modes
    <3>4. Modes'
      BY <2>1, <2>4, <3>1, <3>3 DEF Modes
    <3> QED
      BY <3>1, <3>4
  <2> QED
    BY <1>8, <2>2, <2>3, <2>4 DEF Isr_Adc
<1>9. CASE TsTick
  <2>1. jiffies' \in Nat /\ softirq' \in BOOLEAN
    BY <1>2, <1>9 DEF TsTick, Due
  <2>2. TimersInv' /\ Pointers'
    BY <1>1, <1>9, <2>1, ListKeeps DEF TsTick
  <2>3. Modes'
    BY <1>1, <1>9 DEF TsTick, Modes, device
  <2> QED
    BY <2>2, <2>3
<1>10. CASE timer_handle
  <2>1. TimersInv' /\ Pointers' /\ linked = {ts} /\ linked' = {}
    BY <1>1, <1>10, FireTakes DEF timer_handle
  <2>2. Modes'
    BY <1>1, <1>10, <2>1 DEF timer_handle, StartConversion, Modes
  <2> QED
    BY <2>1, <2>2
<1>11. CASE TsTimerEnds
  <2>1. TimersInv' /\ Pointers'
    BY <1>1, <1>2, <1>11, ListKeeps DEF TsTimerEnds, DoTimerEnds
  <2>2. Modes'
    BY <1>1, <1>11 DEF TsTimerEnds, DoTimerEnds, Modes, device
  <2> QED
    BY <2>1, <2>2
<1>12. CASE ts_read_raw \/ UNCHANGED tsVars
  <2>1. UNCHANGED <<timerVars, device, adc_cnt>>
    BY <1>12 DEF ts_read_raw, tsVars
  <2>2. TimersInv' /\ Pointers'
    BY <1>1, <1>2, <2>1, ListKeeps DEF timerVars
  <2>3. Modes'
    BY <1>1, <2>1 DEF Modes, timerVars, device
  <2> QED
    BY <2>2, <2>3
<1> QED
  BY <1>4, <1>5, <1>6, <1>7, <1>8, <1>9, <1>10, <1>11, <1>12 DEF TsNext

\* As long as the stylus does not bounce, the driver's timer is in the list
\* when the driver waits for it and not otherwise, and the list is sound: the
\* deletions of a timer that is not in it do no harm.  With one sample to a
\* report this is not so: a conversion started twice would add the timer twice.
THEOREM TouchListSound ==
  ASSUME NSamples # 1
  PROVE  TsSpec => []TsListSound
<1>1. TsSpec => []ListInv
  BY ListInvInit, ListInvStep, PTL DEF TsSpec
<1> QED
  BY <1>1, ListInvImplies, PTL
=============================================================================
