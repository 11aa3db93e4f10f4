--------------------------- MODULE SchedulerProofs ---------------------------
(***************************************************************************)
(* Proofs about Scheduler, for any finite or infinite set of threads, any  *)
(* priorities and any number of ticks.                                     *)
(*                                                                         *)
(* The argument rests on what one call of schedule() does to the queue     *)
(* (lemma ScheduleEffect), which rests on what insert_task_queue does      *)
(* (lemmas InsertionPointExists, InsertShape and InsertOrdered).           *)
(***************************************************************************)
EXTENDS Scheduler, SequenceTheorems, FiniteSetTheorems, WellFoundedInduction, TLAPS

-----------------------------------------------------------------------------
\* The loop of insert_task_queue always stops: at the list head at the latest.
LEMMA InsertionPointExists ==
    ASSUME NEW q \in Seq(Thread), NEW vr \in [Task -> Nat], NEW t \in Thread
    PROVE  LET i == InsertionPoint(t, q, vr) IN
           /\ i \in 1..(Len(q) + 1)
           /\ i <= Len(q) => vr[q[i]] >= vr[t]
           /\ \A j \in 1..(i - 1) : vr[q[j]] < vr[t]
<1> DEFINE S == {i \in 1..(Len(q) + 1) : i <= Len(q) => vr[q[i]] >= vr[t]}
<1>1. Len(q) \in Nat /\ \A j \in 1..Len(q) : vr[q[j]] \in Nat
  BY LenProperties, ElementOfSeq DEF Task
<1>2. vr[t] \in Nat
  BY DEF Task
<1>3. Len(q) + 1 \in S
  BY <1>1
<1>4. PICK i \in S : \A j \in S : i <= j
  <2> DEFINE R == OpToRel(<, Nat)
  <2>1. S \subseteq Nat /\ S # {}
    BY <1>1, <1>3
  <2>2. IsWellFoundedOn(R, Nat)
    BY NatLessThanWellFounded
  <2>3. PICK i \in S : \A j \in S : ~(<<j, i>> \in R)
    <3> HIDE DEF R, S
    <3> QED
      BY <2>1, <2>2, WFMin
  <2>4. \A j \in S : ~(j < i)
    BY <2>1, <2>3 DEF OpToRel
  <2> QED
    BY <2>1, <2>4
<1>5. \A j \in 1..(i - 1) : vr[q[j]] < vr[t]
  <2> SUFFICES ASSUME NEW j \in 1..(i - 1), ~(vr[q[j]] < vr[t]) PROVE FALSE
    OBVIOUS
  <2>1. j \in 1..Len(q)
    BY <1>1
  <2>2. vr[q[j]] \in Nat
    BY <1>1, <2>1
  <2>3. j \in S
    BY <1>1, <1>2, <2>1, <2>2
  <2> QED
    BY <1>4, <2>3
<1>6. i \in 1..(Len(q) + 1) /\ (i <= Len(q) => vr[q[i]] >= vr[t])
  OBVIOUS
<1> QED
  BY <1>5, <1>6, Zenon DEF InsertionPoint

\* What inserting t at position i of q gives, element by element.
LEMMA InsertShape ==
    ASSUME NEW q \in Seq(Thread), NEW t \in Thread, NEW i \in 1..(Len(q) + 1)
    PROVE  LET r == InsertAt(q, i, t) IN
           /\ r \in Seq(Thread)
           /\ Len(r) = Len(q) + 1
           /\ \A k \in 1..(Len(q) + 1) :
                 r[k] = IF k < i THEN q[k] ELSE IF k = i THEN t ELSE q[k - 1]
           /\ Range(r) = Range(q) \cup {t}
<1> DEFINE a   == SubSeq(q, 1, i - 1)
           b   == SubSeq(q, i, Len(q))
           one == <<t>>
           ab  == a \o one
           r   == InsertAt(q, i, t)
<1>1. /\ Len(q) \in Nat /\ DOMAIN q = 1..Len(q)
      /\ \A j \in 1..Len(q) : q[j] \in Thread
  BY LenProperties, ElementOfSeq
<1>2. /\ a \in Seq(Thread) /\ Len(a) = i - 1
      /\ \A k \in 1..(i - 1) : a[k] = q[k]
  <2>1. \A j \in 1..(i - 1) : q[j] \in Thread
    BY <1>1
  <2>2. /\ a \in Seq(Thread)
        /\ Len(a) = IF 1 <= i - 1 THEN (i - 1) - 1 + 1 ELSE 0
        /\ \A k \in 1..((i - 1) - 1 + 1) : a[k] = q[1 + k - 1]
    BY <1>1, <2>1, SubSeqProperties
  <2> HIDE DEF a
  <2> QED
    BY <1>1, <2>2
<1>3. /\ b \in Seq(Thread) /\ Len(b) = Len(q) - i + 1
      /\ \A k \in 1..(Len(q) - i + 1) : b[k] = q[i + k - 1]
  <2>1. \A j \in i..Len(q) : q[j] \in Thread
    BY <1>1
  <2>2. /\ b \in Seq(Thread)
        /\ Len(b) = IF i <= Len(q) THEN Len(q) - i + 1 ELSE 0
        /\ \A k \in 1..(Len(q) - i + 1) : b[k] = q[i + k - 1]
    BY <1>1, <2>1, SubSeqProperties
  <2> HIDE DEF b
  <2> QED
    BY <1>1, <2>2
<1>4. one \in Seq(Thread) /\ Len(one) = 1 /\ one[1] = t
  OBVIOUS
<1>5. r = ab \o b
  BY DEF InsertAt
<1> HIDE DEF a, b, one, r
<1>6. /\ ab \in Seq(Thread) /\ Len(ab) = i
      /\ \A k \in 1..i : ab[k] = IF k < i THEN q[k] ELSE t
  <2>1. /\ ab \in Seq(Thread)
        /\ Len(ab) = Len(a) + Len(one)
        /\ \A k \in 1..(Len(a) + Len(one)) :
              ab[k] = IF k <= Len(a) THEN a[k] ELSE one[k - Len(a)]
    BY <1>2, <1>4, ConcatProperties
  <2> HIDE DEF ab
  <2> QED
    BY <1>1, <1>2, <1>4, <2>1
<1> HIDE DEF ab
<1>7. /\ r \in Seq(Thread) /\ Len(r) = Len(q) + 1
      /\ \A k \in 1..(Len(q) + 1) : r[k] = IF k <= i THEN ab[k] ELSE b[k - i]
  <2>1. /\ r \in Seq(Thread)
        /\ Len(r) = Len(ab) + Len(b)
        /\ \A k \in 1..(Len(ab) + Len(b)) :
              r[k] = IF k <= Len(ab) THEN ab[k] ELSE b[k - Len(ab)]
    BY <1>3, <1>5, <1>6, ConcatProperties
  <2> QED
    BY <1>1, <1>3, <1>6, <2>1
<1>8. \A k \in 1..(Len(q) + 1) :
         r[k] = IF k < i THEN q[k] ELSE IF k = i THEN t ELSE q[k - 1]
  <2> SUFFICES ASSUME NEW k \in 1..(Len(q) + 1)
               PROVE  r[k] = IF k < i THEN q[k] ELSE IF k = i THEN t ELSE q[k - 1]
    OBVIOUS
  <2>1. CASE k <= i
    BY <2>1, <1>1, <1>6, <1>7
  <2>2. CASE k > i
    <3>1. b[k - i] = q[i + (k - i) - 1] /\ i + (k - i) - 1 = k - 1
      BY <2>2, <1>1, <1>3
    <3> QED
      BY <2>2, <3>1, <1>1, <1>7
  <2> QED
    BY <1>1, <2>1, <2>2
<1>9. Range(r) = Range(q) \cup {t}
  <2>1. DOMAIN r = 1..(Len(q) + 1)
    BY <1>7, LenProperties
  <2>2. ASSUME NEW k \in DOMAIN r PROVE r[k] \in Range(q) \cup {t}
    <3>1. k > i => k - 1 \in DOMAIN q
      BY <1>1, <2>1
    <3>2. k < i => k \in DOMAIN q
      BY <1>1, <2>1
    <3>3. k = i \/ k < i \/ k > i
      BY <1>1, <2>1
    <3> QED
      BY <1>1, <1>8, <2>1, <3>1, <3>2, <3>3 DEF Range
  <2>3. t \in Range(r)
    <3>1. i \in DOMAIN r /\ r[i] = t
      BY <1>1, <1>8, <2>1
    <3> QED
      BY <3>1 DEF Range
  <2>4. ASSUME NEW j \in DOMAIN q PROVE q[j] \in Range(r)
    <3>1. CASE j < i
      <4>1. j \in DOMAIN r /\ r[j] = q[j]
        BY <3>1, <1>1, <1>8, <2>1
      <4> QED
        BY <4>1 DEF Range
    <3>2. CASE j >= i
      <4>1. j + 1 \in 1..(Len(q) + 1) /\ j + 1 > i /\ (j + 1) - 1 = j
        BY <3>2, <1>1
      <4>2. r[j + 1] = q[j]
        BY <4>1, <1>1, <1>8
      <4> QED
        BY <4>1, <4>2, <2>1 DEF Range
    <3> QED
      BY <1>1, <3>1, <3>2
  <2> QED
    BY <2>2, <2>3, <2>4 DEF Range
<1> USE DEF r
<1> QED
  BY <1>7, <1>8, <1>9

\* insert_task_queue keeps an ordered queue ordered and without duplicates.
LEMMA InsertOrdered ==
    ASSUME NEW q \in Seq(Thread), NEW vr \in [Task -> Nat], NEW t \in Thread,
           Ordered(q, vr), IsInjective(q), t \notin Range(q)
    PROVE  LET r == Insert(t, q, vr) IN
           /\ r \in Seq(Thread)
           /\ Len(r) = Len(q) + 1
           /\ Range(r) = Range(q) \cup {t}
           /\ Ordered(r, vr)
           /\ IsInjective(r)
<1> DEFINE i == InsertionPoint(t, q, vr)
           r == InsertAt(q, i, t)
<1>1. /\ Len(q) \in Nat /\ DOMAIN q = 1..Len(q)
      /\ \A j \in 1..Len(q) : q[j] \in Thread /\ vr[q[j]] \in Nat
      /\ vr[t] \in Nat
  BY LenProperties, ElementOfSeq DEF Task
<1>2. /\ i \in 1..(Len(q) + 1)
      /\ i <= Len(q) => vr[q[i]] >= vr[t]
      /\ \A j \in 1..(i - 1) : vr[q[j]] < vr[t]
  BY InsertionPointExists
<1> HIDE DEF i
<1>3. /\ r \in Seq(Thread)
      /\ Len(r) = Len(q) + 1
      /\ \A k \in 1..(Len(q) + 1) :
            r[k] = IF k < i THEN q[k] ELSE IF k = i THEN t ELSE q[k - 1]
      /\ Range(r) = Range(q) \cup {t}
  BY <1>2, InsertShape
<1>4. Insert(t, q, vr) = r
  BY SchedAssumption DEF Insert, i
<1> HIDE DEF r
<1>5. DOMAIN r = 1..(Len(q) + 1)
  BY <1>3, LenProperties
<1>6. \A k \in 1..(i - 1) : k \in DOMAIN q /\ r[k] = q[k] /\ vr[r[k]] < vr[t]
  BY <1>1, <1>2, <1>3
<1>7. \A k \in (i + 1)..(Len(q) + 1) :
         k - 1 \in DOMAIN q /\ k - 1 >= i /\ r[k] = q[k - 1]
  BY <1>1, <1>2, <1>3
<1>8. r[i] = t
  BY <1>1, <1>2, <1>3
<1>9. \A k \in i..Len(q) : vr[q[k]] >= vr[t]
  <2> SUFFICES ASSUME NEW k \in i..Len(q) PROVE vr[q[k]] >= vr[t]
    OBVIOUS
  <2>1. i \in DOMAIN q /\ k \in DOMAIN q /\ vr[q[i]] >= vr[t]
    BY <1>1, <1>2
  <2>2. vr[q[i]] <= vr[q[k]]
    BY <1>1, <2>1 DEF Ordered
  <2> QED
    BY <1>1, <2>1, <2>2
<1>10. Ordered(r, vr)
  <2> SUFFICES ASSUME NEW j \in DOMAIN r, NEW k \in DOMAIN r, j < k
               PROVE  vr[r[j]] <= vr[r[k]]
    BY DEF Ordered
  <2>0. i \in Nat /\ j \in Nat /\ k \in Nat /\ j \in 1..(Len(q) + 1) /\ k \in 1..(Len(q) + 1)
    BY <1>1, <1>2, <1>5
  <2>1. CASE k < i
    BY <2>0, <2>1, <1>1, <1>6 DEF Ordered
  <2>2. CASE k = i
    BY <2>0, <2>2, <1>1, <1>6, <1>8
  <2>3. CASE k > i /\ j < i
    <3>1. vr[r[j]] < vr[t] /\ r[k] = q[k - 1] /\ k - 1 \in i..Len(q)
          /\ r[j] = q[j] /\ j \in DOMAIN q /\ k - 1 \in DOMAIN q
      BY <2>0, <2>3, <1>1, <1>2, <1>6, <1>7
    <3>2. vr[q[k - 1]] >= vr[t]
      BY <3>1, <1>9
    <3> QED
      BY <3>1, <3>2, <1>1
  <2>4. CASE k > i /\ j = i
    <3>1. r[k] = q[k - 1] /\ k - 1 \in i..Len(q) /\ k - 1 \in DOMAIN q
      BY <2>0, <2>4, <1>1, <1>2, <1>7
    <3>2. vr[q[k - 1]] >= vr[t]
      BY <3>1, <1>9
    <3> QED
      BY <3>1, <3>2, <2>4, <1>1, <1>8
  <2>5. CASE k > i /\ j > i
    <3>1. r[k] = q[k - 1] /\ r[j] = q[j - 1] /\ k - 1 \in DOMAIN q
          /\ j - 1 \in DOMAIN q /\ j - 1 < k - 1
      BY <2>0, <2>5, <1>1, <1>2, <1>7
    <3> QED
      BY <3>1 DEF Ordered
  <2> QED
    BY <2>0, <2>1, <2>2, <2>3, <2>4, <2>5
<1>11. IsInjective(r)
  <2> SUFFICES ASSUME NEW j \in DOMAIN r, NEW k \in DOMAIN r, r[j] = r[k], j < k
               PROVE  FALSE
    <3>1. \A j, k \in DOMAIN r : r[j] = r[k] /\ j < k => FALSE
      OBVIOUS
    <3>2. \A j, k \in DOMAIN r : j = k \/ j < k \/ k < j
      BY <1>1, <1>5
    <3> QED
      BY <3>1, <3>2 DEF IsInjective
  <2>0. i \in Nat /\ j \in Nat /\ k \in Nat /\ j \in 1..(Len(q) + 1) /\ k \in 1..(Len(q) + 1)
    BY <1>1, <1>2, <1>5
  <2>1. \A n \in DOMAIN q : q[n] # t
    BY DEF Range
  <2>2. CASE k < i
    BY <2>0, <2>2, <1>1, <1>6 DEF IsInjective
  <2>3. CASE k = i
    BY <2>0, <2>1, <2>3, <1>1, <1>6, <1>8
  <2>4. CASE k > i /\ j < i
    <3>1. r[k] = q[k - 1] /\ k - 1 \in DOMAIN q /\ r[j] = q[j] /\ j \in DOMAIN q
          /\ j # k - 1
      BY <2>0, <2>4, <1>1, <1>2, <1>6, <1>7
    <3> QED
      BY <3>1 DEF IsInjective
  <2>5. CASE k > i /\ j = i
    <3>1. r[k] = q[k - 1] /\ k - 1 \in DOMAIN q
      BY <2>0, <2>5, <1>1, <1>2, <1>7
    <3> QED
      BY <3>1, <2>1, <2>5, <1>8
  <2>6. CASE k > i /\ j > i
    <3>1. r[k] = q[k - 1] /\ r[j] = q[j - 1] /\ k - 1 \in DOMAIN q
          /\ j - 1 \in DOMAIN q /\ j - 1 # k - 1
      BY <2>0, <2>6, <1>1, <1>2, <1>7
    <3> QED
      BY <3>1 DEF IsInjective
  <2> QED
    BY <2>0, <2>2, <2>3, <2>4, <2>5, <2>6
<1> QED
  BY <1>3, <1>4, <1>10, <1>11

\* Putting back the task that was just taken out restores the queue: it goes
\* before every task that has run as long as it has, and so to the head.
LEMMA PutBackRestores ==
    ASSUME NEW q \in Seq(Thread), NEW vr \in [Task -> Nat], Ordered(q, vr), q # <<>>
    PROVE  Insert(Head(q), Tail(q), vr) = q
<1> DEFINE h == Head(q)
           b == Tail(q)
           i == InsertionPoint(h, b, vr)
           r == InsertAt(b, i, h)
<1>1. /\ Len(q) \in Nat \ {0} /\ DOMAIN q = 1..Len(q)
      /\ \A j \in 1..Len(q) : q[j] \in Thread /\ vr[q[j]] \in Nat
  BY LenProperties, ElementOfSeq, EmptySeq DEF Task
<1>2. /\ h \in Thread /\ h = q[1] /\ b \in Seq(Thread) /\ Len(b) = Len(q) - 1
      /\ \A j \in 1..Len(b) : b[j] = q[j + 1]
  BY HeadTailProperties
<1>3. Insert(h, b, vr) = r
  BY <1>2, SchedAssumption DEF Insert
<1> HIDE DEF h, b
<1>4. /\ i \in 1..(Len(b) + 1)
      /\ \A j \in 1..(i - 1) : vr[b[j]] < vr[h]
  BY <1>2, InsertionPointExists
<1> HIDE DEF i
<1>5. i = 1
  <2> SUFFICES ASSUME i # 1 PROVE FALSE
    OBVIOUS
  <2>1. 1 \in 1..(i - 1) /\ 1 \in 1..Len(b) /\ 1 \in DOMAIN q /\ 2 \in DOMAIN q
    BY <1>1, <1>2, <1>4
  <2>2. vr[b[1]] < vr[h] /\ b[1] = q[2] /\ vr[q[1]] <= vr[q[2]]
    BY <1>2, <1>4, <2>1 DEF Ordered
  <2> QED
    BY <1>1, <1>2, <2>1, <2>2
<1>6. /\ r \in Seq(Thread) /\ Len(r) = Len(b) + 1
      /\ \A k \in 1..(Len(b) + 1) :
            r[k] = IF k < i THEN b[k] ELSE IF k = i THEN h ELSE b[k - 1]
      /\ Range(r) = Range(b) \cup {h}
  <2>1. b \in Seq(Thread) /\ h \in Thread /\ i \in 1..(Len(b) + 1)
    BY <1>2, <1>4
  <2> QED
    BY <2>1, InsertShape
<1> HIDE DEF r
<1>7. ASSUME NEW k \in 1..Len(q) PROVE r[k] = q[k]
  <2>1. CASE k = 1
    BY <2>1, <1>1, <1>2, <1>5, <1>6
  <2>2. CASE k # 1
    <3>1. r[k] = b[k - 1] /\ k - 1 \in 1..Len(b) /\ (k - 1) + 1 = k
      BY <2>2, <1>1, <1>2, <1>5, <1>6
    <3> QED
      BY <3>1, <1>2
  <2> QED
    BY <2>1, <2>2
<1>8. r = q
  <2>1. Len(r) = Len(q)
    BY <1>1, <1>2, <1>6
  <2> QED
    BY <2>1, <1>6, <1>7, SeqEqual
<1> QED
  BY <1>3, <1>8 DEF h, b

\* The tail of an ordered queue without duplicates, and its head.
LEMMA TakeHead ==
    ASSUME NEW q \in Seq(Thread), NEW vr \in [Task -> Nat],
           Ordered(q, vr), IsInjective(q), q # <<>>
    PROVE  /\ Head(q) \in Thread
           /\ Tail(q) \in Seq(Thread)
           /\ Len(Tail(q)) = Len(q) - 1
           /\ Ordered(Tail(q), vr)
           /\ IsInjective(Tail(q))
           /\ Head(q) \notin Range(Tail(q))
           /\ Range(q) = {Head(q)} \cup Range(Tail(q))
           /\ \A t \in Range(q) : vr[Head(q)] <= vr[t]
<1> DEFINE h == Head(q)
           b == Tail(q)
<1>1. Len(q) \in Nat \ {0} /\ DOMAIN q = 1..Len(q) /\ 1 \in DOMAIN q
  BY LenProperties, EmptySeq
<1>2. /\ h \in Thread /\ h = q[1] /\ b \in Seq(Thread) /\ Len(b) = Len(q) - 1
      /\ \A j \in 1..Len(b) : b[j] = q[j + 1]
  BY HeadTailProperties
<1> HIDE DEF h, b
<1>3. /\ DOMAIN b = 1..Len(b)
      /\ \A j \in DOMAIN b : j + 1 \in DOMAIN q /\ b[j] = q[j + 1] /\ j + 1 # 1
      /\ \A j \in DOMAIN q : j # 1 => j - 1 \in DOMAIN b /\ b[j - 1] = q[j]
  <2>1. DOMAIN b = 1..Len(b)
    BY <1>2, LenProperties
  <2>2. \A j \in DOMAIN q : j # 1 => j - 1 \in 1..Len(b) /\ (j - 1) + 1 = j
    BY <1>1, <1>2
  <2> QED
    BY <1>1, <1>2, <2>1, <2>2
<1>4. Ordered(b, vr)
  <2> SUFFICES ASSUME NEW j \in DOMAIN b, NEW k \in DOMAIN b, j < k
               PROVE  vr[b[j]] <= vr[b[k]]
    BY DEF Ordered
  <2>1. j + 1 < k + 1
    BY <1>1, <1>2, <1>3
  <2> QED
    BY <2>1, <1>3 DEF Ordered
<1>5. IsInjective(b)
  <2> SUFFICES ASSUME NEW j \in DOMAIN b, NEW k \in DOMAIN b, b[j] = b[k]
               PROVE  j = k
    BY DEF IsInjective
  <2>1. j + 1 = k + 1
    BY <1>3 DEF IsInjective
  <2> QED
    BY <2>1, <1>1, <1>2, <1>3
<1>6. h \notin Range(b)
  <2> SUFFICES ASSUME NEW j \in DOMAIN b, b[j] = h PROVE FALSE
    BY DEF Range
  <2> QED
    BY <1>1, <1>2, <1>3 DEF IsInjective
<1>7. Range(q) = {h} \cup Range(b)
  <2>1. h \in Range(q)
    BY <1>1, <1>2 DEF Range
  <2>2. Range(b) \subseteq Range(q)
    BY <1>3 DEF Range
  <2>3. ASSUME NEW j \in DOMAIN q PROVE q[j] \in {h} \cup Range(b)
    BY <1>2, <1>3 DEF Range
  <2> QED
    BY <2>1, <2>2, <2>3 DEF Range
<1>8. \A t \in Range(q) : vr[h] <= vr[t]
  <2> SUFFICES ASSUME NEW j \in DOMAIN q PROVE vr[q[1]] <= vr[q[j]]
    BY <1>2 DEF Range
  <2>1. CASE j = 1
    <3>1. vr[q[1]] \in Nat
      BY <1>1, ElementOfSeq DEF Task
    <3> QED
      BY <2>1, <3>1
  <2>2. CASE j # 1
    <3>1. 1 < j
      BY <2>2, <1>1
    <3> QED
      BY <3>1, <1>1 DEF Ordered
  <2> QED
    BY <2>1, <2>2
<1> QED
  BY <1>2, <1>4, <1>5, <1>6, <1>7, <1>8 DEF h, b

-----------------------------------------------------------------------------
\* What schedule() does when it is entered by an interrupt: the same tasks
\* stay runnable, and the one it leaves on the CPU is a least-run one.
LEMMA ScheduleEffect ==
    ASSUME NEW vr \in [Task -> Nat], NEW ex \in Int,
           TypeOK, CountMatchesQueue, Ordered(queue, vr), IsInjective(queue),
           current \notin Range(queue), state[current] = "RUNNING",
           Schedule(vr, ex)
    PROVE  /\ queue' \in Seq(Thread)
           /\ current' \in Task
           /\ count' = 1 + Len(queue')
           /\ exec' \in Int
           /\ Ordered(queue', vr)
           /\ IsInjective(queue')
           /\ current' \notin Range(queue')
           /\ Range(queue') \cup ({current'} \ {initTask})
                 = Range(queue) \cup ({current} \ {initTask})
           /\ \A t \in Range(queue') : vr[current'] <= vr[t]
           /\ current' = initTask /\ current # initTask => queue = <<>>
<1> DEFINE next   == NextTask(queue)
           n      == IF queue = <<>> THEN count ELSE count - 1
           switch == vr[current] >= vr[next]
           put    == IF switch THEN current ELSE next
<1>1. /\ queue \in Seq(Thread) /\ current \in Task
      /\ Len(queue) \in Nat /\ count = 1 + Len(queue)
      /\ queue # <<>> => Len(queue) # 0
      /\ queue = <<>> => Len(queue) = 0 /\ Range(queue) = {}
  BY LenProperties, EmptySeq DEF TypeOK, CountMatchesQueue, Range
<1>2. /\ exec'    = IF ex = 0 THEN Slice(next, n) ELSE ex
      /\ queue'   = Insert(put, Rest(queue), vr)
      /\ count'   = n + Counted(put)
      /\ current' = IF switch THEN next ELSE current
  BY DEF Schedule
<1>3. exec' \in Int
  <2>1. n \in Nat \ {0}
    BY <1>1
  <2> HIDE DEF n, next
  <2>2. 4 \div n \in Int
    BY <2>1
  <2> QED
    BY <1>2, <2>2 DEF Slice
<1>4. CASE queue = <<>>
  <2>1. next = initTask /\ Rest(queue) = <<>> /\ n = count
    BY <1>4 DEF NextTask, Rest
  <2>2. CASE ~switch
    <3>1. put = initTask /\ queue' = <<>> /\ count' = 1 /\ current' = current
      BY <1>1, <1>2, <1>4, <2>1, <2>2 DEF Insert, Counted
    <3> QED
      BY <1>1, <1>3, <1>4, <3>1
  <2>3. CASE switch /\ current = initTask
    <3>1. put = initTask /\ queue' = <<>> /\ count' = 1 /\ current' = current
      BY <1>1, <1>2, <1>4, <2>1, <2>3 DEF Insert, Counted
    <3> QED
      BY <1>1, <1>3, <1>4, <3>1
  <2>4. CASE switch /\ current # initTask
    <3>1. /\ put = current /\ current \in Thread /\ current' = initTask
          /\ queue' = Insert(current, <<>>, vr) /\ count' = 2
      BY <1>1, <1>2, <1>4, <2>1, <2>4 DEF Counted, Task
    <3>2. <<>> \in Seq(Thread) /\ Range(<<>>) = {} /\ Ordered(<<>>, vr) /\ IsInjective(<<>>)
          /\ Len(<<>>) = 0
      BY EmptySeq DEF Range, Ordered, IsInjective
    <3>3. /\ queue' \in Seq(Thread) /\ Len(queue') = Len(<<>>) + 1
          /\ Range(queue') = Range(<<>>) \cup {current}
          /\ Ordered(queue', vr) /\ IsInjective(queue')
      BY <3>1, <3>2, InsertOrdered
    <3>4. /\ Len(queue') = 1 /\ Range(queue') = {current}
          /\ vr[initTask] <= vr[current]
      BY <1>1, <2>1, <2>4, <3>2, <3>3 DEF Task
    <3>5. initTask \in Task /\ initTask # current
      BY <2>4 DEF Task
    <3>6. count' = 1 + Len(queue')
      <4>1. count' = 2
        BY <3>1
      <4>2. Len(queue') = 1
        BY <3>4
      <4> QED
        BY <4>1, <4>2
    <3>7. /\ current' \in Task /\ current' \notin Range(queue')
          /\ Range(queue') \cup ({current'} \ {initTask})
                = Range(queue) \cup ({current} \ {initTask})
          /\ \A t \in Range(queue') : vr[current'] <= vr[t]
      BY <1>1, <1>4, <3>1, <3>4, <3>5
    <3> QED
      BY <1>3, <1>4, <3>3, <3>6, <3>7
  <2> QED
    BY <2>2, <2>3, <2>4
<1>5. CASE queue # <<>>
  <2> DEFINE b == Tail(queue)
  <2>1. next = Head(queue) /\ Rest(queue) = b /\ n = Len(queue)
    BY <1>1, <1>5 DEF NextTask, Rest
  <2>2. /\ next \in Thread /\ b \in Seq(Thread) /\ Len(b) = Len(queue) - 1
        /\ Ordered(b, vr) /\ IsInjective(b) /\ next \notin Range(b)
        /\ Range(queue) = {next} \cup Range(b)
        /\ \A t \in Range(queue) : vr[next] <= vr[t]
    BY <1>1, <1>5, <2>1, TakeHead
  <2>3. next # initTask /\ next \in Task
    BY <2>2, SchedAssumption DEF Task
  <2>4. /\ vr[next] \in Nat /\ vr[current] \in Nat
        /\ \A t \in Range(queue) : t \in Task /\ vr[t] \in Nat
    BY <1>1, <2>3, RangeOfSeq DEF Task
  <2> HIDE DEF next, b
  <2>5. CASE ~switch
    <3>1. /\ put = next /\ current' = current /\ count' = Len(queue) + 1
          /\ queue' = Insert(next, b, vr)
      BY <1>2, <2>1, <2>3, <2>5 DEF Counted
    <3>2. queue' = queue
      BY <1>1, <1>5, <2>1, <3>1, PutBackRestores DEF next, b
    <3>3. \A t \in Range(queue) : vr[current] <= vr[t]
      BY <2>2, <2>4, <2>5
    <3> QED
      BY <1>1, <1>3, <3>1, <3>2, <3>3
  <2>6. CASE switch /\ current = initTask
    <3>1. /\ put = initTask /\ current' = next /\ count' = Len(queue)
          /\ queue' = b
      BY <1>1, <1>2, <2>1, <2>6 DEF Counted, Insert
    <3> QED
      BY <1>1, <1>3, <2>2, <2>3, <2>6, <3>1
  <2>7. CASE switch /\ current # initTask
    <3>1. /\ put = current /\ current \in Thread /\ current' = next
          /\ count' = Len(queue) + 1 /\ queue' = Insert(current, b, vr)
      BY <1>1, <1>2, <2>1, <2>7 DEF Counted, Task
    <3>2. current \notin Range(b) /\ current # next
      BY <2>2
    <3>3. /\ queue' \in Seq(Thread) /\ Len(queue') = Len(b) + 1
          /\ Range(queue') = Range(b) \cup {current}
          /\ Ordered(queue', vr) /\ IsInjective(queue')
      BY <2>2, <3>1, <3>2, InsertOrdered
    <3>4. \A t \in Range(queue') : vr[next] <= vr[t]
      BY <2>2, <2>4, <2>7, <3>3
    <3> QED
      BY <1>1, <1>3, <2>2, <2>3, <2>7, <3>1, <3>2, <3>3, <3>4
  <2> QED
    BY <2>5, <2>6, <2>7
<1> QED
  BY <1>4, <1>5

-----------------------------------------------------------------------------
(***************************************************************************)
(* The inductive invariant.  Beside the invariants TLC checks it says that *)
(* a thread that runs has run no more than any queued one, which is what   *)
(* bounds the lead it can take in one tick, and that main() boots as task  *)
(* 0 with all run times zero, which is what makes the threads start even.  *)
(***************************************************************************)
RunnerLeast ==
    current # initTask => \A t \in Range(queue) : vrun[current] <= vrun[t]

BootState ==
    IF irqOn THEN state[initTask] = "RUNNING"
             ELSE current = initTask /\ \A t \in Task : vrun[t] = 0

SchedInv ==
    /\ TypeOK
    /\ CountMatchesQueue
    /\ QueueSorted
    /\ EachRunnableOnce
    /\ FairShare
    /\ RunnerLeast
    /\ BootState

\* At boot only task 0 exists and the queue is empty.
LEMMA InitInv == Init => SchedInv
<1> SUFFICES ASSUME Init PROVE SchedInv
  OBVIOUS
<1>1. queue = <<>> /\ queue \in Seq(Thread) /\ Len(queue) = 0 /\ DOMAIN queue = {}
      /\ Range(queue) = {}
  BY EmptySeq DEF Init, Range
<1>2. TypeOK
  <2>1. state \in [Task -> TaskState] /\ vrun \in [Task -> Nat] /\ current \in Task
    BY DEF Init, Task, TaskState
  <2>2. count = 1 /\ exec = 4 /\ irqOn = FALSE /\ ticks = 0
    BY Zenon DEF Init
  <2>3. count \in Int /\ exec \in Int /\ ticks \in Nat
    BY <2>2
  <2>4. irqOn \in BOOLEAN
    BY <2>2, Zenon
  <2>5. queue \in Seq(Thread)
    BY <1>1
  <2> QED
    BY <2>1, <2>3, <2>4, <2>5, Zenon DEF TypeOK
<1>3. CountMatchesQueue /\ QueueSorted /\ RunnerLeast /\ BootState
  BY <1>1 DEF Init, CountMatchesQueue, QueueSorted, Ordered, RunnerLeast, BootState
<1>4. EachRunnableOnce
  BY <1>1, SchedAssumption DEF Init, EachRunnableOnce, IsInjective, Task
<1>5. FairShare
  BY <1>1 DEF Init, FairShare
<1> QED
  BY <1>2, <1>3, <1>4, <1>5 DEF SchedInv

\* A thread created at boot joins the queue, where all run times are zero.
LEMMA ForkInv ==
    ASSUME SchedInv, NEW t \in Thread, Fork(t)
    PROVE  SchedInv'
<1>1. /\ t \in Task /\ t # initTask
      /\ TypeOK /\ QueueSorted /\ EachRunnableOnce
      /\ vrun' = [vrun EXCEPT ![t] = 0] /\ state' = [state EXCEPT ![t] = "RUNNING"]
      /\ queue' = Insert(t, queue, vrun')
      /\ count' = count + 1 /\ ~irqOn /\ current = initTask
      /\ UNCHANGED <<exec, current, irqOn, ticks>>
      /\ state[t] = "NONE" /\ \A u \in Task : vrun[u] = 0
  BY SchedAssumption DEF SchedInv, Fork, Counted, Task, BootState
<1>2. vrun' \in [Task -> Nat] /\ \A u \in Task : vrun'[u] = 0
  BY <1>1 DEF TypeOK
<1>3. t \notin Range(queue) /\ IsInjective(queue) /\ queue \in Seq(Thread)
  BY <1>1 DEF EachRunnableOnce, TypeOK
<1>4. Range(queue) \subseteq Thread
  BY <1>3, RangeOfSeq
<1>5. Ordered(queue, vrun')
  BY <1>1, <1>2, <1>4 DEF Ordered, Range, Task
<1>6. /\ queue' \in Seq(Thread)
      /\ Len(queue') = Len(queue) + 1
      /\ Range(queue') = Range(queue) \cup {t}
      /\ Ordered(queue', vrun')
      /\ IsInjective(queue')
  BY <1>1, <1>2, <1>3, <1>5, InsertOrdered
<1>7. TypeOK'
  BY <1>1, <1>2, <1>6 DEF TypeOK, TaskState
<1>8. CountMatchesQueue' /\ QueueSorted'
  <2>1. Len(queue) \in Nat /\ count = 1 + Len(queue)
    BY <1>3, LenProperties DEF SchedInv, CountMatchesQueue
  <2> QED
    BY <1>1, <1>6, <2>1 DEF CountMatchesQueue, QueueSorted
<1>9. EachRunnableOnce'
  BY <1>1, <1>4, <1>6, SchedAssumption DEF EachRunnableOnce, TypeOK, Task
<1>10. FairShare' /\ RunnerLeast' /\ BootState'
  <2>1. Range(queue') \cup ({current'} \ {initTask}) \subseteq Task
    BY <1>1, <1>4, <1>6 DEF Task
  <2>2. FairShare'
    BY <1>2, <2>1 DEF FairShare
  <2>3. RunnerLeast'
    BY <1>1 DEF RunnerLeast
  <2>4. BootState'
    BY <1>1, <1>2 DEF BootState
  <2> QED
    BY <2>2, <2>3, <2>4
<1> QED
  BY <1>7, <1>8, <1>9, <1>10 DEF SchedInv

\* The end of task_init changes the state of task 0 only, which is not queued.
LEMMA EnableIrqInv ==
    ASSUME SchedInv, EnableIrq
    PROVE  SchedInv'
<1>1. /\ state' = [state EXCEPT ![initTask] = "RUNNING"]
      /\ irqOn' = TRUE
      /\ UNCHANGED <<queue, count, exec, current, vrun, ticks>>
      /\ TypeOK /\ initTask \in Task
  BY DEF EnableIrq, SchedInv, Task
<1>2. TypeOK' /\ BootState'
  BY <1>1 DEF TypeOK, BootState, TaskState
<1>3. EachRunnableOnce'
  BY <1>1, SchedAssumption DEF SchedInv, EachRunnableOnce, TypeOK, Task
<1>4. CountMatchesQueue' /\ QueueSorted' /\ FairShare' /\ RunnerLeast'
  BY <1>1 DEF SchedInv, CountMatchesQueue, QueueSorted, FairShare, RunnerLeast
<1> QED
  BY <1>2, <1>3, <1>4 DEF SchedInv

-----------------------------------------------------------------------------
\* Every interrupt charges the running task c at most 2 before schedule(), so
\* the tick and the other interrupts preserve the invariant alike.
LEMMA IrqInv ==
    ASSUME SchedInv, irqOn,
           NEW c \in {0, 1, 2},
           vrun' = [vrun EXCEPT ![current] = @ + c],
           Schedule(vrun', exec - c),
           ticks' \in Nat,
           UNCHANGED <<state, irqOn>>
    PROVE  /\ SchedInv'
           /\ \A t \in Range(queue') : vrun'[current'] <= vrun'[t]
           /\ current' = initTask /\ current # initTask => queue = <<>>
           /\ Range(queue') \cup ({current'} \ {initTask})
                 = Range(queue) \cup ({current} \ {initTask})
<1> DEFINE R == Range(queue) \cup ({current} \ {initTask})
<1>1. /\ TypeOK /\ CountMatchesQueue /\ QueueSorted /\ EachRunnableOnce
      /\ FairShare /\ RunnerLeast /\ BootState
      /\ current \in Task /\ vrun \in [Task -> Nat] /\ exec \in Int
  BY DEF SchedInv, TypeOK
<1>2. Range(queue) \subseteq Thread /\ R \subseteq Thread
  <2>1. Range(queue) \subseteq Thread
    BY <1>1, RangeOfSeq DEF TypeOK
  <2> QED
    BY <2>1, <1>1 DEF Task
<1>3. /\ vrun' \in [Task -> Nat] /\ exec - c \in Int
      /\ vrun'[current] = vrun[current] + c
      /\ \A t \in Task : t # current => vrun'[t] = vrun[t]
  BY <1>1
<1>4. state[current] = "RUNNING"
  BY <1>1 DEF EachRunnableOnce, BootState, Task
<1>5. IsInjective(queue) /\ current \notin Range(queue)
  BY <1>1 DEF EachRunnableOnce
<1>6. Ordered(queue, vrun')
  <2>1. \A i \in DOMAIN queue : queue[i] \in Task /\ queue[i] # current
    BY <1>2, <1>5 DEF Range, Task
  <2> QED
    BY <1>1, <1>3, <2>1 DEF QueueSorted, Ordered
<1>7. /\ queue' \in Seq(Thread)
      /\ current' \in Task
      /\ count' = 1 + Len(queue')
      /\ exec' \in Int
      /\ Ordered(queue', vrun')
      /\ IsInjective(queue')
      /\ current' \notin Range(queue')
      /\ Range(queue') \cup ({current'} \ {initTask})
            = Range(queue) \cup ({current} \ {initTask})
      /\ \A t \in Range(queue') : vrun'[current'] <= vrun'[t]
      /\ current' = initTask /\ current # initTask => queue = <<>>
  BY <1>1, <1>3, <1>4, <1>5, <1>6, ScheduleEffect
<1>8. TypeOK'
  BY <1>1, <1>3, <1>7 DEF TypeOK
<1>9. CountMatchesQueue' /\ QueueSorted' /\ RunnerLeast' /\ BootState'
  BY <1>1, <1>7 DEF CountMatchesQueue, QueueSorted, RunnerLeast, BootState
<1>10. EachRunnableOnce'
  <2>1. ASSUME NEW t \in Thread
        PROVE  t \in Range(queue') \cup {current'} <=> t \in Range(queue) \cup {current}
    <3>1. t # initTask
      BY SchedAssumption
    <3>2. t \in Range(queue') \cup {current'} <=> t \in Range(queue') \cup ({current'} \ {initTask})
      BY <3>1
    <3>3. t \in Range(queue) \cup {current} <=> t \in Range(queue) \cup ({current} \ {initTask})
      BY <3>1
    <3> QED
      BY <1>7, <3>2, <3>3
  <2> QED
    BY <1>1, <1>7, <2>1 DEF EachRunnableOnce
<1>11. FairShare'
  <2> SUFFICES ASSUME NEW t \in R, NEW u \in R PROVE vrun'[t] <= vrun'[u] + 2
    BY <1>7 DEF FairShare
  <2>1. /\ t \in Task /\ u \in Task /\ vrun[t] \in Nat /\ vrun[u] \in Nat
        /\ vrun[current] \in Nat
    BY <1>1, <1>2 DEF Task
  <2>2. vrun[t] <= vrun[u] + 2
    BY <1>1 DEF FairShare
  <2>3. CASE t = current
    <3>1. current # initTask
      BY <2>3, <1>2, SchedAssumption
    <3>2. u = current \/ vrun[current] <= vrun[u]
      BY <1>1, <3>1 DEF RunnerLeast
    <3> QED
      BY <2>1, <2>3, <3>2, <1>3
  <2>4. CASE t # current /\ u = current
    BY <2>1, <2>2, <2>4, <1>3
  <2>5. CASE t # current /\ u # current
    BY <2>1, <2>2, <2>5, <1>3
  <2> QED
    BY <2>3, <2>4, <2>5
<1> QED
  BY <1>7, <1>8, <1>9, <1>10, <1>11 DEF SchedInv

\* The tick charges the running task, which is not queued, and no more than
\* the two units by which it may lead.
LEMMA TickStep ==
    ASSUME SchedInv, Tick
    PROVE  /\ SchedInv'
           /\ \A t \in Range(queue') : vrun'[current'] <= vrun'[t]
           /\ current' = initTask /\ current # initTask => queue = <<>>
<1> DEFINE c == Charge(current)
<1>1. c \in {0, 1, 2}
  BY DEF Charge
<1>2. /\ irqOn /\ vrun' = [vrun EXCEPT ![current] = @ + c]
      /\ Schedule(vrun', exec - c) /\ UNCHANGED <<state, irqOn>>
  BY DEF Tick
<1>3. ticks' \in Nat
  BY DEF Tick, SchedInv, TypeOK
<1> HIDE DEF c
<1> QED
  BY <1>1, <1>2, <1>3, IrqInv

\* Any other interrupt calls schedule() with nothing charged.
LEMMA OtherIrqStep ==
    ASSUME SchedInv, OtherIrq
    PROVE  /\ SchedInv'
           /\ \A t \in Range(queue') : vrun'[current'] <= vrun'[t]
           /\ current' = initTask /\ current # initTask => queue = <<>>
<1>1. vrun \in [Task -> Nat] /\ current \in Task /\ exec \in Int /\ ticks \in Nat
  BY DEF SchedInv, TypeOK
<1>2. vrun' = [vrun EXCEPT ![current] = @ + 0]
  BY <1>1 DEF OtherIrq
<1>3. vrun' = vrun /\ exec - 0 = exec
  BY <1>1 DEF OtherIrq
<1>4. irqOn /\ Schedule(vrun', exec - 0) /\ UNCHANGED <<state, irqOn>> /\ ticks' \in Nat
  BY <1>1, <1>3 DEF OtherIrq
<1>5. 0 \in {0, 1, 2}
  OBVIOUS
<1> QED
  BY <1>2, <1>4, <1>5, IrqInv

\* Every step preserves the invariant.
LEMMA NextInv == SchedInv /\ [Next]_schedVars => SchedInv'
<1> SUFFICES ASSUME SchedInv, [Next]_schedVars PROVE SchedInv'
  OBVIOUS
<1>1. ASSUME NEW t \in Thread, Fork(t) PROVE SchedInv'
  BY <1>1, ForkInv
<1>2. CASE EnableIrq
  BY <1>2, EnableIrqInv
<1>3. CASE Tick
  BY <1>3, TickStep
<1>4. CASE OtherIrq
  BY <1>4, OtherIrqStep
<1>5. CASE UNCHANGED schedVars
  BY <1>5 DEF schedVars, SchedInv, TypeOK, CountMatchesQueue, QueueSorted, Ordered,
              EachRunnableOnce, FairShare, RunnerLeast, BootState
<1> QED
  BY <1>1, <1>2, <1>3, <1>4, <1>5 DEF Next

-----------------------------------------------------------------------------
\* The inductive invariant holds in every reachable state.
THEOREM SchedulerInvariant == Spec => []SchedInv
BY InitInv, NextInv, PTL DEF Spec

\* kernel/schedule.c and kernel/task.c keep their data well typed.
THEOREM SchedulerTypes == Spec => []TypeOK
<1>1. SchedInv => TypeOK
  BY DEF SchedInv
<1> QED
  BY <1>1, SchedulerInvariant, PTL

\* schedule() never divides by zero: running_task_count tracks the queue.
THEOREM NoDivisionByZero == Spec => []CountMatchesQueue
<1>1. SchedInv => CountMatchesQueue
  BY DEF SchedInv
<1> QED
  BY <1>1, SchedulerInvariant, PTL

\* The run queue is always in order, whatever is inserted and taken out.
THEOREM QueueStaysSorted == Spec => []QueueSorted
<1>1. SchedInv => QueueSorted
  BY DEF SchedInv
<1> QED
  BY <1>1, SchedulerInvariant, PTL

\* No runnable thread is lost or queued twice, for any number of threads.
THEOREM NoThreadLost == Spec => []EachRunnableOnce
<1>1. SchedInv => EachRunnableOnce
  BY DEF SchedInv
<1> QED
  BY <1>1, SchedulerInvariant, PTL

\* No runnable thread ever leads another one by more than one tick's charge.
THEOREM ThreadsShareFairly == Spec => []FairShare
<1>1. SchedInv => FairShare
  BY DEF SchedInv
<1> QED
  BY <1>1, SchedulerInvariant, PTL

\* After every interrupt the CPU is with a least-run task.
THEOREM LeastRunIsChosen == Spec => LeastRunFirst
<1>1. SchedInv /\ [Next]_schedVars
        => [irqOn => \A t \in Range(queue') : vrun'[current'] <= vrun'[t]]_schedVars
  BY TickStep, OtherIrqStep DEF Next, Fork, EnableIrq
<1> QED
  BY <1>1, SchedulerInvariant, PTL DEF Spec, LeastRunFirst

\* Task 0 takes the CPU from a thread only when no other thread waits.
THEOREM ShellIsIdleTask == Spec => InitOnlyWhenIdle
<1>1. SchedInv /\ [Next]_schedVars
        => [current' = initTask /\ current # initTask => queue = <<>>]_schedVars
  BY TickStep, OtherIrqStep DEF Next, Fork, EnableIrq
<1> QED
  BY <1>1, SchedulerInvariant, PTL DEF Spec, InitOnlyWhenIdle

-----------------------------------------------------------------------------
(* The time slices of at most three threads of priority 2. *)

\* A sequence without repetitions is no longer than a set that holds it.
LEMMA QueueFits ==
    ASSUME NEW q \in Seq(Thread), IsInjective(q),
           NEW T, Range(q) \subseteq T, IsFiniteSet(T)
    PROVE  Len(q) \in Nat /\ Len(q) <= Cardinality(T)
<1>1. Len(q) \in Nat /\ q \in [1 .. Len(q) -> Thread]
  BY LenProperties
<1>2. q \in [1 .. Len(q) -> T]
  <2>1. \A i \in 1 .. Len(q) : q[i] \in Range(q)
    BY <1>1 DEF Range
  <2> QED
    BY <1>1, <2>1
<1>3. q \in Injection(1 .. Len(q), T)
  BY <1>2 DEF Injection
<1>4. Cardinality(1 .. Len(q)) <= Cardinality(T)
  BY <1>3, FS_Injection
<1>5. \A n \in Nat : Cardinality(1 .. n) = n
  <2> TAKE n \in Nat
  <2>1. 1 \in Int /\ n \in Int
    OBVIOUS
  <2>2. Cardinality(1 .. n) = IF 1 > n THEN 0 ELSE n - 1 + 1
    BY <2>1, FS_Interval
  <2> QED
    BY <2>2
<1> QED
  BY <1>1, <1>4, <1>5

FewThreads == /\ IsFiniteSet(Thread) /\ Cardinality(Thread) <= 3
              /\ \A t \in Task : Priority[t] = 2

\* A slice of 3 would be granted with three threads queued, which happens only
\* before the first interrupt has given one of them the CPU.
SliceInv ==
    /\ exec \in {2, 4, 6, 8, 10, 12}
    /\ ~irqOn => exec = 4
    /\ Len(queue) >= 3 => exec = 4 /\ \A t \in Task : vrun[t] = 0

LEMMA SliceInit == Init => SliceInv
BY DEF Init, SliceInv

LEMMA IrqSlice ==
    ASSUME FewThreads, SchedInv, SliceInv, irqOn,
           NEW c \in {0, 2},
           vrun' = [vrun EXCEPT ![current] = @ + c],
           Schedule(vrun', exec - c),
           ticks' \in Nat,
           UNCHANGED <<state, irqOn>>
    PROVE  SliceInv'
<1> DEFINE next == NextTask(queue)
           n    == IF queue = <<>> THEN count ELSE count - 1
<1>0. /\ SchedInv' /\ irqOn'
      /\ current' = initTask /\ current # initTask => queue = <<>>
      /\ Range(queue') \cup ({current'} \ {initTask})
            = Range(queue) \cup ({current} \ {initTask})
  BY IrqInv
<1>1. /\ queue \in Seq(Thread) /\ queue' \in Seq(Thread) /\ IsInjective(queue')
      /\ current' \notin Range(queue') /\ current \in Task /\ current' \in Task
      /\ vrun \in [Task -> Nat] /\ count = 1 + Len(queue) /\ Len(queue) \in Nat
  BY <1>0, LenProperties DEF SchedInv, TypeOK, EachRunnableOnce, CountMatchesQueue
<1>2. /\ Range(queue) \subseteq Thread /\ Range(queue') \subseteq Thread
      /\ initTask \notin Thread /\ IsFiniteSet(Thread) /\ Cardinality(Thread) <= 3
      /\ Cardinality(Thread) \in Nat
  BY <1>1, RangeOfSeq, SchedAssumption, FS_CardinalityType DEF FewThreads
<1>3. Len(queue) <= 3
  <2>1. IsInjective(queue)
    BY DEF SchedInv, EachRunnableOnce
  <2>2. Len(queue) <= Cardinality(Thread)
    BY <1>1, <1>2, <2>1, QueueFits
  <2> QED
    BY <1>1, <1>2, <2>2
<1>4. /\ exec' = IF exec - c = 0 THEN Slice(next, n) ELSE exec - c
      /\ current' = IF vrun'[current] >= vrun'[next] THEN next ELSE current
  BY DEF Schedule
<1>5. next \in Task /\ (queue # <<>> => next \in Thread)
  BY <1>1, <1>2, HeadTailProperties DEF NextTask, Task
<1>6. exec' \in {2, 4, 6, 8, 10, 12}
  <2>1. CASE exec - c # 0
    BY <1>4, <2>1 DEF SliceInv
  <2>2. CASE exec - c = 0
    <3>1. exec = 2 /\ Len(queue) \in 0 .. 2
      <4>1. exec = 2
        BY <2>2 DEF SliceInv
      <4>2. ~(Len(queue) >= 3)
        BY <4>1 DEF SliceInv
      <4>3. PICK l \in Nat : l = Len(queue)
        BY <1>1
      <4>4. ~(l >= 3)
        BY <4>2, <4>3, Zenon
      <4>5. l \in 0 .. 2
        BY <4>4
      <4> QED
        BY <4>1, <4>3, <4>5
    <3>2. n \in {1, 2}
      <4>1. CASE queue = <<>>
        BY <1>1, <4>1
      <4>2. CASE queue # <<>>
        <5>1. Len(queue) # 0
          BY <1>1, <4>2, EmptySeq
        <5> QED
          BY <1>1, <3>1, <4>2, <5>1
      <4> QED
        BY <4>1, <4>2
    <3>3. Priority[next] = 2
      BY <1>5 DEF FewThreads
    <3> HIDE DEF n, next
    <3>4. Slice(next, n) = (4 \div n) * 3
      BY <3>3 DEF Slice
    <3>5. Slice(next, n) \in {6, 12}
      BY <3>2, <3>4
    <3> QED
      BY <1>4, <2>2, <3>5
  <2> QED
    BY <2>1, <2>2
<1>7. Len(queue') \in Nat /\ Len(queue') <= 2
  <2>1. CASE current' # initTask
    <3> DEFINE T == Thread \ {current'}
    <3>1. current' \in Thread
      BY <1>1, <2>1 DEF Task
    <3>2. IsFiniteSet(T) /\ Cardinality(T) = Cardinality(Thread) - 1
      BY <1>2, <3>1, FS_RemoveElement
    <3>3. Range(queue') \subseteq T
      BY <1>1, <1>2
    <3> HIDE DEF T
    <3>4. Len(queue') \in Nat /\ Len(queue') <= Cardinality(T)
      BY <1>1, <3>2, <3>3, QueueFits
    <3> QED
      BY <1>2, <3>2, <3>4
  <2>2. CASE current' = initTask /\ current # initTask
    <3>1. queue = <<>> /\ Range(queue) = {}
      BY <1>0, <2>2 DEF Range
    <3>2. Range(queue') \subseteq {current}
      BY <1>0, <2>2, <3>1
    <3>3. IsFiniteSet({current}) /\ Cardinality({current}) = 1
      BY FS_Singleton
    <3>4. Len(queue') \in Nat /\ Len(queue') <= Cardinality({current})
      BY <1>1, <3>2, <3>3, QueueFits
    <3> QED
      BY <3>3, <3>4
  <2>3. CASE current' = initTask /\ current = initTask
    <3>1. CASE queue = <<>>
      <4>1. Range(queue') \subseteq {}
        BY <1>0, <2>3, <3>1 DEF Range
      <4>2. IsFiniteSet({}) /\ Cardinality({}) = 0
        BY FS_EmptySet
      <4>3. Len(queue') \in Nat /\ Len(queue') <= Cardinality({})
        BY <1>1, <4>1, <4>2, QueueFits
      <4> QED
        BY <4>2, <4>3
    <3>2. CASE queue # <<>>
      <4>1. next \in Thread /\ next # initTask /\ next \in Task
        BY <1>2, <1>5, <3>2
      <4>2. ~(vrun'[current] >= vrun'[next])
        BY <1>4, <2>3, <4>1
      <4>3. Len(queue) <= 2
        <5> SUFFICES ASSUME ~(Len(queue) <= 2) PROVE FALSE
          OBVIOUS
        <5>1. \A t \in Task : vrun[t] = 0
          BY <1>1 DEF SliceInv
        <5>2. vrun'[current] = 0 + c /\ vrun'[next] = 0
          BY <1>1, <2>3, <4>1, <5>1
        <5> QED
          BY <4>2, <5>2
      <4>4. count' = count - 1 + Counted(next)
        BY <3>2, <4>2 DEF Schedule
      <4>5. count' = count /\ count' = 1 + Len(queue') /\ Len(queue') \in Nat
        BY <1>0, <1>1, <4>1, <4>4, LenProperties DEF Counted, SchedInv, CountMatchesQueue
      <4> QED
        BY <1>1, <4>3, <4>5
    <3> QED
      BY <3>1, <3>2
  <2> QED
    BY <2>1, <2>2, <2>3
<1> QED
  BY <1>0, <1>6, <1>7 DEF SliceInv

LEMMA SliceStep ==
    ASSUME FewThreads, SchedInv, SliceInv, [Next]_schedVars
    PROVE  SliceInv'
<1>1. ASSUME NEW t \in Thread, Fork(t) PROVE SliceInv'
  <2>1. /\ ~irqOn /\ exec' = exec /\ vrun' = [vrun EXCEPT ![t] = 0]
        /\ vrun \in [Task -> Nat] /\ \A u \in Task : vrun[u] = 0
    BY <1>1 DEF Fork, SchedInv, BootState, TypeOK
  <2>2. \A u \in Task : vrun'[u] = 0
    BY <2>1
  <2> QED
    BY <2>1, <2>2 DEF SliceInv
<1>2. CASE EnableIrq
  BY <1>2 DEF EnableIrq, SliceInv
<1>3. CASE Tick
  <2>1. Charge(current) = 2
    BY DEF FewThreads, Charge, SchedInv, TypeOK
  <2>2. /\ irqOn /\ vrun' = [vrun EXCEPT ![current] = @ + 2]
        /\ Schedule(vrun', exec - 2) /\ UNCHANGED <<state, irqOn>> /\ ticks' \in Nat
    BY <1>3, <2>1 DEF Tick, SchedInv, TypeOK
  <2> QED
    BY <2>2, IrqSlice
<1>4. CASE OtherIrq
  <2>1. vrun \in [Task -> Nat] /\ current \in Task /\ exec \in Int /\ ticks \in Nat
    BY DEF SchedInv, TypeOK
  <2>2. vrun' = [vrun EXCEPT ![current] = @ + 0]
    BY <1>4, <2>1 DEF OtherIrq
  <2>3. vrun' = vrun /\ exec - 0 = exec
    BY <1>4, <2>1 DEF OtherIrq
  <2>4. irqOn /\ Schedule(vrun', exec - 0) /\ UNCHANGED <<state, irqOn>> /\ ticks' \in Nat
    BY <1>4, <2>1, <2>3 DEF OtherIrq
  <2> QED
    BY <2>2, <2>4, IrqSlice
<1>5. CASE UNCHANGED schedVars
  BY <1>5 DEF schedVars, SliceInv
<1> QED
  BY <1>1, <1>2, <1>3, <1>4, <1>5 DEF Next

\* With the priority that do_fork gives, and no more than three threads, the
\* slice never passes below zero, however forks, ticks and other interrupts
\* interleave: a slice of 3, which is odd, is never granted.
THEOREM SlicesAreUsedUp ==
    ASSUME IsFiniteSet(Thread)
    PROVE  Spec => []SliceUsedUpExactly
<1>1. CASE FewThreads
  <2>1. SchedInv /\ SliceInv /\ [Next]_schedVars => SliceInv'
    BY <1>1, SliceStep
  <2>2. SliceInv => SliceUsedUpExactly
    BY DEF SliceInv, SliceUsedUpExactly
  <2> QED
    BY <2>1, <2>2, SliceInit, SchedulerInvariant, PTL DEF Spec
<1>2. CASE ~FewThreads
  <2>1. SliceUsedUpExactly
    BY <1>2 DEF FewThreads, SliceUsedUpExactly
  <2> QED
    BY <2>1, PTL
<1> QED
  BY <1>1, <1>2
=============================================================================
