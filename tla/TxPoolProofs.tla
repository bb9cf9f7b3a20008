---------------------------- MODULE TxPoolProofs ----------------------------
(* Theorems about TxPool, for every set of packages, every number of block  *)
(* threads and every value of the other constants.                          *)
EXTENDS TxPool, TLAPS, SequenceTheorems, WellFoundedInduction

LEMMA FirstIsFirst ==
  ASSUME NEW T \in SUBSET Nat, T # {}
  PROVE  First(T) \in T /\ \A j \in T : First(T) <= j
<1>1. PICK x \in T : \A y \in T : ~(<<y, x>> \in OpToRel(<, Nat))
  BY NatLessThanWellFounded, WFMin
<1>2. \A y \in T : ~(y < x)
  BY <1>1 DEF OpToRel
<1>3. \A y \in T : x <= y
  BY <1>2
<1> QED BY <1>3 DEF First

-----------------------------------------------------------------------------
(* Removal and insertion in a sequence.                                     *)

LEMMA RemoveAtIs ==
  ASSUME NEW S, NEW s \in Seq(S), NEW i \in 1..Len(s)
  PROVE  /\ RemoveAt(s, i) \in Seq(S)
         /\ Len(RemoveAt(s, i)) = Len(s) - 1
         /\ \A k \in 1..(Len(s) - 1) : RemoveAt(s, i)[k] = s[IF k < i THEN k ELSE k + 1]
<1> DEFINE a == SubSeq(s, 1, i - 1)  b == SubSeq(s, i + 1, Len(s))
<1>1. Len(s) \in Nat /\ i \in Nat /\ 1 <= i /\ i <= Len(s)
  OBVIOUS
<1>2. a \in Seq(S) /\ Len(a) = i - 1 /\ \A k \in 1..(i - 1) : a[k] = s[k]
  BY <1>1
<1>3. b \in Seq(S) /\ Len(b) = Len(s) - i /\ \A k \in 1..(Len(s) - i) : b[k] = s[i + k]
  BY <1>1
<1>4. RemoveAt(s, i) = a \o b
  BY DEF RemoveAt
<1> HIDE DEF a, b
<1>5. /\ a \o b \in Seq(S) /\ Len(a \o b) = Len(s) - 1
      /\ \A k \in 1..(Len(s) - 1) : (a \o b)[k] = IF k <= i - 1 THEN a[k] ELSE b[k - (i - 1)]
  <2>1. /\ a \o b \in Seq(S) /\ Len(a \o b) = Len(a) + Len(b)
        /\ \A k \in 1..(Len(a) + Len(b)) :
             (a \o b)[k] = IF k <= Len(a) THEN a[k] ELSE b[k - Len(a)]
    BY <1>2, <1>3, ConcatProperties
  <2>2. Len(a) = i - 1 /\ Len(a) + Len(b) = Len(s) - 1
    BY <1>1, <1>2, <1>3
  <2> QED BY <2>1, <2>2
<1>6. \A k \in 1..(Len(s) - 1) : (a \o b)[k] = s[IF k < i THEN k ELSE k + 1]
  <2>1. ASSUME NEW k \in 1..(Len(s) - 1), k < i PROVE (a \o b)[k] = s[k]
    BY <1>1, <1>2, <1>5, <2>1
  <2>2. ASSUME NEW k \in 1..(Len(s) - 1), ~(k < i) PROVE (a \o b)[k] = s[k + 1]
    <3>1. k - (i - 1) \in 1..(Len(s) - i) /\ i + (k - (i - 1)) = k + 1
      BY <1>1, <2>2
    <3>2. (a \o b)[k] = b[k - (i - 1)]
      BY <1>1, <1>5, <2>2
    <3> QED BY <1>3, <3>1, <3>2
  <2> QED BY <2>1, <2>2
<1> QED BY <1>4, <1>5, <1>6

LEMMA InsertAtIs ==
  ASSUME NEW S, NEW s \in Seq(S), NEW i \in 1..Len(s), NEW t \in S
  PROVE  /\ InsertAt(s, i, t) \in Seq(S)
         /\ Len(InsertAt(s, i, t)) = Len(s) + 1
         /\ \A k \in 1..(Len(s) + 1) :
              InsertAt(s, i, t)[k] = IF k < i THEN s[k] ELSE IF k = i THEN t ELSE s[k - 1]
<1> DEFINE a == SubSeq(s, 1, i - 1)  b == SubSeq(s, i, Len(s))  c == a \o <<t>>
<1>1. Len(s) \in Nat /\ i \in Nat /\ 1 <= i /\ i <= Len(s)
  OBVIOUS
<1>2. a \in Seq(S) /\ Len(a) = i - 1 /\ \A k \in 1..(i - 1) : a[k] = s[k]
  BY <1>1
<1>3. b \in Seq(S) /\ Len(b) = Len(s) - i + 1 /\ \A k \in 1..(Len(s) - i + 1) : b[k] = s[i + k - 1]
  BY <1>1
<1>4. c \in Seq(S) /\ Len(c) = i /\ c[i] = t /\ \A k \in 1..(i - 1) : c[k] = s[k]
  <2> HIDE DEF a
  <2> QED BY <1>1, <1>2
<1>5. InsertAt(s, i, t) = c \o b
  BY DEF InsertAt
<1> HIDE DEF b, c
<1>6. /\ c \o b \in Seq(S) /\ Len(c \o b) = Len(s) + 1
      /\ \A k \in 1..(Len(s) + 1) : (c \o b)[k] = IF k <= i THEN c[k] ELSE b[k - i]
  <2>1. /\ c \o b \in Seq(S) /\ Len(c \o b) = Len(c) + Len(b)
        /\ \A k \in 1..(Len(c) + Len(b)) :
             (c \o b)[k] = IF k <= Len(c) THEN c[k] ELSE b[k - Len(c)]
    BY <1>3, <1>4, ConcatProperties
  <2>2. Len(c) = i /\ Len(c) + Len(b) = Len(s) + 1
    BY <1>1, <1>3, <1>4
  <2> QED BY <2>1, <2>2
<1>7. \A k \in 1..(Len(s) + 1) :
        (c \o b)[k] = IF k < i THEN s[k] ELSE IF k = i THEN t ELSE s[k - 1]
  <2>1. ASSUME NEW k \in 1..(Len(s) + 1), k < i PROVE (c \o b)[k] = s[k]
    BY <1>1, <1>4, <1>6, <2>1
  <2>2. (c \o b)[i] = t
    BY <1>1, <1>4, <1>6
  <2>3. ASSUME NEW k \in 1..(Len(s) + 1), k > i PROVE (c \o b)[k] = s[k - 1]
    <3>1. k - i \in 1..(Len(s) - i + 1) /\ i + (k - i) - 1 = k - 1
      BY <1>1, <2>3
    <3>2. (c \o b)[k] = b[k - i]
      BY <1>1, <1>6, <2>3
    <3> QED BY <1>3, <3>1, <3>2
  <2>4. \A k \in 1..(Len(s) + 1) : k < i \/ k = i \/ k > i
    BY <1>1
  <2> QED BY <1>1, <2>1, <2>2, <2>3, <2>4
<1> QED BY <1>5, <1>6, <1>7

-----------------------------------------------------------------------------
(* What removing and placing a package do to a group.                       *)

Holds(s, g) == s \in Seq(Tx) /\ \A i \in DOMAIN s : GroupOf(s[i]) = g

LEMMA RemovalKeeps ==
  ASSUME NEW g, NEW s, Holds(s, g), NEW i \in DOMAIN s
  PROVE  /\ Holds(RemoveAt(s, i), g) /\ Len(RemoveAt(s, i)) = Len(s) - 1
         /\ Once(s) => Once(RemoveAt(s, i))
         /\ \A k \in DOMAIN RemoveAt(s, i) : \E j \in DOMAIN s : j # i /\ RemoveAt(s, i)[k] = s[j]
         /\ \A j \in DOMAIN s : j # i => \E k \in DOMAIN RemoveAt(s, i) : RemoveAt(s, i)[k] = s[j]
<1> DEFINE r == RemoveAt(s, i)  old(k) == IF k < i THEN k ELSE k + 1
<1>1. s \in Seq(Tx) /\ Len(s) \in Nat /\ DOMAIN s = 1..Len(s) /\ i \in 1..Len(s)
  BY DEF Holds
<1>2. r \in Seq(Tx) /\ Len(r) = Len(s) - 1 /\ DOMAIN r = 1..(Len(s) - 1)
  <2>1. r \in Seq(Tx) /\ Len(r) = Len(s) - 1
    BY <1>1, RemoveAtIs
  <2> HIDE DEF r
  <2> QED BY <2>1
<1>3. \A k \in DOMAIN r : r[k] = s[old(k)]
  <2>1. \A k \in 1..(Len(s) - 1) : r[k] = s[old(k)]
    BY <1>1, RemoveAtIs
  <2> QED BY <1>2, <2>1
<1>4. \A k \in DOMAIN r : old(k) \in DOMAIN s /\ old(k) # i
  BY <1>1, <1>2
<1>5. \A k, l \in DOMAIN r : (k < l => old(k) < old(l)) /\ (k # l => old(k) # old(l))
  BY <1>1, <1>2
<1>6. \A j \in DOMAIN s : j # i => \E k \in DOMAIN r : old(k) = j
  <2>1. ASSUME NEW j \in DOMAIN s, j # i PROVE \E k \in DOMAIN r : old(k) = j
    <3>1. CASE j < i
      BY <1>1, <1>2, <3>1
    <3>2. CASE j > i
      <4>1. j - 1 \in DOMAIN r /\ old(j - 1) = j
        BY <1>1, <1>2, <3>2
      <4> QED BY <4>1
    <3> QED BY <1>1, <2>1, <3>1, <3>2
  <2> QED BY <2>1
<1> HIDE DEF r, old
<1>7. Holds(r, g)
  BY <1>2, <1>3, <1>4 DEF Holds
<1>8. Once(s) => Once(r)
  BY <1>3, <1>4, <1>5 DEF Once
<1>9. \A k \in DOMAIN r : \E j \in DOMAIN s : j # i /\ r[k] = s[j]
  BY <1>3, <1>4
<1>10. \A j \in DOMAIN s : j # i => \E k \in DOMAIN r : r[k] = s[j]
  BY <1>3, <1>6
<1> QED BY <1>2, <1>7, <1>8, <1>9, <1>10 DEF r

LEMMA PurityType == \A t \in Tx : Purity[t] \in Nat
  BY TxAssumption

(* Placed puts a package somewhere: what is behind moves up by one.          *)
LEMMA PlaceIs ==
  ASSUME NEW s \in Seq(Tx), NEW t \in Tx
  PROVE  \E p \in 1..(Len(s) + 1) :
           /\ Placed(s, t) \in Seq(Tx) /\ Len(Placed(s, t)) = Len(s) + 1
           /\ \A k \in 1..(Len(s) + 1) :
                Placed(s, t)[k] = IF k < p THEN s[k] ELSE IF k = p THEN t ELSE s[k - 1]
<1> DEFINE low == Lower(s, Purity[t])
<1>1. Len(s) \in Nat /\ DOMAIN s = 1..Len(s)
  OBVIOUS
<1>2. low \subseteq 1..Len(s)
  BY <1>1 DEF Lower
<1>3. CASE low = {}
  <2>1. Placed(s, t) = Append(s, t)
    BY <1>3 DEF Placed
  <2>2. /\ Append(s, t) \in Seq(Tx) /\ Len(Append(s, t)) = Len(s) + 1
        /\ \A k \in 1..(Len(s) + 1) :
             Append(s, t)[k] = IF k < Len(s) + 1 THEN s[k] ELSE t
    BY <1>1
  <2>3. Len(s) + 1 \in 1..(Len(s) + 1) /\ \A k \in 1..(Len(s) + 1) : k < Len(s) + 1 \/ k = Len(s) + 1
    BY <1>1
  <2> QED BY <2>1, <2>2, <2>3
<1>4. CASE low # {}
  <2> DEFINE p == First(low)
  <2>1. p \in low
    <3>1. low \in SUBSET Nat
      BY <1>1, <1>2
    <3> HIDE DEF low
    <3> QED BY <1>4, <3>1, FirstIsFirst
  <2>2. p \in 1..Len(s) /\ p \in 1..(Len(s) + 1)
    BY <1>1, <1>2, <2>1
  <2>3. Placed(s, t) = InsertAt(s, p, t)
    BY <1>4 DEF Placed
  <2> HIDE DEF p
  <2> QED BY <2>2, <2>3, InsertAtIs
<1> QED BY <1>3, <1>4

LEMMA PlacingKeeps ==
  ASSUME NEW g, NEW s, Holds(s, g), NEW t \in Tx, GroupOf(t) = g
  PROVE  /\ Holds(Placed(s, t), g) /\ Len(Placed(s, t)) = Len(s) + 1
         /\ Once(s) /\ Same(s, t) = {} => Once(Placed(s, t))
         /\ ToSet(Placed(s, t)) = ToSet(s) \union {t}
         /\ Placed(s, t)[Len(s) + 1] \in {t} \union {s[i] : i \in DOMAIN s \intersect {Len(s)}}
<1> DEFINE r == Placed(s, t)
<1>1. s \in Seq(Tx) /\ Len(s) \in Nat /\ DOMAIN s = 1..Len(s)
  BY DEF Holds
<1>2. PICK p \in 1..(Len(s) + 1) :
           /\ r \in Seq(Tx) /\ Len(r) = Len(s) + 1
           /\ \A k \in 1..(Len(s) + 1) : r[k] = IF k < p THEN s[k] ELSE IF k = p THEN t ELSE s[k - 1]
  BY <1>1, PlaceIs
<1> DEFINE old(k) == IF k < p THEN k ELSE k - 1
<1> HIDE DEF r
<1>3. DOMAIN r = 1..(Len(s) + 1) /\ p \in DOMAIN r /\ r[p] = t
  BY <1>1, <1>2
<1>4. \A k \in DOMAIN r : k # p => old(k) \in DOMAIN s /\ r[k] = s[old(k)]
  BY <1>1, <1>2, <1>3
<1>5. \A k, l \in DOMAIN r : k # p /\ l # p => (k < l => old(k) < old(l)) /\ (k # l => old(k) # old(l))
  BY <1>1, <1>3
<1>6. \A j \in DOMAIN s : \E k \in DOMAIN r : k # p /\ r[k] = s[j]
  <2>1. ASSUME NEW j \in DOMAIN s PROVE \E k \in DOMAIN r : k # p /\ old(k) = j
    <3>1. CASE j < p
      BY <1>1, <1>3, <2>1, <3>1
    <3>2. CASE ~(j < p)
      <4>1. j + 1 \in DOMAIN r /\ j + 1 # p /\ old(j + 1) = j
        BY <1>1, <1>3, <2>1, <3>2
      <4> QED BY <4>1
    <3> QED BY <3>1, <3>2
  <2> HIDE DEF old
  <2> QED BY <1>4, <2>1
<1>7. Holds(r, g)
  <2> HIDE DEF old
  <2> QED BY <1>2, <1>3, <1>4 DEF Holds
<1>8. ASSUME Once(s), Same(s, t) = {} PROVE Once(r)
  <2> HIDE DEF old
  <2>1. \A k \in DOMAIN r : k # p => HashOf[r[k]] # HashOf[t]
    BY <1>4, <1>8 DEF Same
  <2> QED BY <1>3, <1>4, <1>5, <1>8, <2>1 DEF Once
<1>9. r[Len(s) + 1] \in {t} \union {s[i] : i \in DOMAIN s \intersect {Len(s)}}
  <2>1. CASE p = Len(s) + 1
    BY <1>3, <2>1
  <2>2. CASE p # Len(s) + 1
    <3>1. Len(s) + 1 \in DOMAIN r
      BY <1>1, <1>3
    <3>0. old(Len(s) + 1) = Len(s)
      <4>1. Len(s) \in Nat /\ p \in Nat /\ ~(Len(s) + 1 < p) /\ Len(s) + 1 - 1 = Len(s)
        BY <1>1
      <4> QED BY <4>1
    <3> HIDE DEF old
    <3>2. Len(s) \in DOMAIN s /\ r[Len(s) + 1] = s[Len(s)]
      BY <1>4, <2>2, <3>0, <3>1
    <3> QED BY <3>2
  <2> QED BY <2>1, <2>2
<1>10. ToSet(r) = ToSet(s) \union {t}
  <2> HIDE DEF old
  <2> QED BY <1>3, <1>4, <1>6 DEF ToSet
<1> QED BY <1>2, <1>7, <1>8, <1>9, <1>10 DEF r

-----------------------------------------------------------------------------
(* TxGroup::insert.                                                         *)

LEMMA WithoutOldIs ==
  ASSUME NEW g, NEW s, Holds(s, g), Once(s), NEW t \in Tx
  PROVE  /\ Holds(WithoutOld(s, t), g) /\ Once(WithoutOld(s, t)) /\ Same(WithoutOld(s, t), t) = {}
         /\ Same(s, t) = {} => WithoutOld(s, t) = s
         /\ Same(s, t) # {} =>
              /\ First(Same(s, t)) \in Same(s, t)
              /\ Len(WithoutOld(s, t)) = Len(s) - 1
              /\ ToSet(s) \subseteq ToSet(WithoutOld(s, t)) \union {s[First(Same(s, t))]}
<1> DEFINE r == WithoutOld(s, t)  i == First(Same(s, t))
<1>1. Same(s, t) \in SUBSET Nat /\ Same(s, t) \subseteq DOMAIN s
  BY DEF Same, Holds
<1>2. CASE Same(s, t) = {}
  BY <1>2 DEF WithoutOld
<1>3. CASE Same(s, t) # {}
  <2>1. i \in Same(s, t) /\ i \in DOMAIN s
    BY <1>1, <1>3, FirstIsFirst
  <2>2. r = RemoveAt(s, i)
    BY <1>3 DEF WithoutOld
  <2> HIDE DEF r, i
  <2>3. /\ Holds(r, g) /\ Len(r) = Len(s) - 1 /\ Once(r)
        /\ \A k \in DOMAIN r : \E j \in DOMAIN s : j # i /\ r[k] = s[j]
        /\ \A j \in DOMAIN s : j # i => \E k \in DOMAIN r : r[k] = s[j]
    BY <2>1, <2>2, RemovalKeeps
  <2>4. \A j \in DOMAIN s : j # i => HashOf[s[j]] # HashOf[t]
    BY <2>1 DEF Once, Same
  <2>5. Same(r, t) = {}
    BY <2>3, <2>4 DEF Same
  <2>6. ToSet(s) \subseteq ToSet(r) \union {s[i]}
    BY <2>3 DEF ToSet
  <2> QED BY <1>3, <2>1, <2>3, <2>5, <2>6 DEF r, i
<1> QED BY <1>2, <1>3

\* What s had and r has not pays less than t, which r has.
LeaveFor(t, s, r) ==
  \A u \in ToSet(s) \ ToSet(r) : Purity[u] < Purity[t] /\ t \in ToSet(r)

LEMMA InsertKeeps ==
  ASSUME NEW g \in Group, NEW s, Holds(s, g), Once(s), Len(s) <= MaxSize[g],
         NEW t \in Tx, GroupOf(t) = g
  PROVE  /\ Holds(Insert(s, g, t), g) /\ Once(Insert(s, g, t))
         /\ Len(Insert(s, g, t)) <= MaxSize[g]
         /\ LeaveFor(t, s, Insert(s, g, t))
<1> DEFINE r == WithoutOld(s, t)  q == Placed(r, t)  i == First(Same(s, t))
<1>1. MaxSize[g] \in Nat \ {0} /\ Len(s) \in Nat /\ s \in Seq(Tx) /\ Purity[t] \in Nat
  BY SizeAssumption, PurityType DEF Holds
<1>2. /\ Holds(r, g) /\ Once(r) /\ Same(r, t) = {}
      /\ Same(s, t) = {} => r = s
      /\ Same(s, t) # {} =>
           i \in Same(s, t) /\ Len(r) = Len(s) - 1 /\ ToSet(s) \subseteq ToSet(r) \union {s[i]}
  BY WithoutOldIs
<1>3. r \in Seq(Tx) /\ Len(r) \in Nat /\ Len(r) <= Len(s)
  BY <1>1, <1>2 DEF Holds
<1>4. Len(r) >= MaxSize[g] => Same(s, t) = {} /\ r = s
  BY <1>1, <1>2, <1>3
<1>5. CASE Same(s, t) # {} /\ Purity[t] <= Purity[s[i]]
  BY <1>5 DEF Insert, LeaveFor
<1>6. CASE ~(Same(s, t) # {} /\ Purity[t] <= Purity[s[i]]) /\ TooLow(r, g, t)
  <2>1. Insert(s, g, t) = r
    BY <1>6 DEF Insert
  <2>2. Len(r) >= MaxSize[g]
    BY <1>6 DEF TooLow, Full
  <2>3. r = s
    BY <1>4, <2>2
  <2> QED BY <2>1, <2>3 DEF LeaveFor
<1>7. CASE ~(Same(s, t) # {} /\ Purity[t] <= Purity[s[i]]) /\ ~TooLow(r, g, t)
  <2>1. Insert(s, g, t) = Cut(q, g)
    BY <1>7 DEF Insert
  <2>2. r # <<>> /\ Len(r) >= MaxSize[g] => ~(Purity[t] <= Purity[r[Len(r)]])
    BY <1>7 DEF TooLow, Full
  <2> HIDE DEF r
  <2>3. /\ Holds(q, g) /\ Len(q) = Len(r) + 1 /\ Once(q)
        /\ ToSet(q) = ToSet(r) \union {t}
        /\ q[Len(r) + 1] \in {t} \union {r[k] : k \in DOMAIN r \intersect {Len(r)}}
    BY <1>2, PlacingKeeps
  <2> HIDE DEF q
  <2>4. q \in Seq(Tx) /\ Len(q) \in Nat /\ DOMAIN q = 1..Len(q) /\ Len(q) \in DOMAIN q
    BY <1>3, <2>3 DEF Holds
  <2>5. CASE Len(q) <= MaxSize[g]
    <3>1. Cut(q, g) = q
      BY <1>1, <2>4, <2>5 DEF Cut
    <3>2. ASSUME NEW u \in ToSet(s) \ ToSet(q) PROVE Purity[u] < Purity[t]
      <4>1. Same(s, t) # {} /\ u = s[i]
        BY <1>2, <2>3, <3>2
      <4>2. u \in Tx
        BY <1>1, <1>2, <4>1 DEF Same
      <4>3. ~(Purity[t] <= Purity[u])
        BY <1>7, <4>1
      <4> HIDE DEF i
      <4> QED BY <1>1, <4>2, <4>3, PurityType
    <3> QED BY <2>1, <2>3, <2>5, <3>1, <3>2 DEF LeaveFor
  <2>6. CASE Len(q) > MaxSize[g]
    <3> DEFINE n == Len(q)  c == RemoveAt(q, n)
    <3>0. n = Len(q) /\ n \in DOMAIN q /\ c = RemoveAt(q, n)
      BY <2>4
    <3>1. Cut(q, g) = c
      BY <2>6 DEF Cut
    <3>2. r = s /\ Len(r) >= MaxSize[g] /\ n = Len(r) + 1
      BY <1>1, <1>3, <1>4, <2>3, <2>6
    <3> HIDE DEF n, c
    <3>3. /\ Holds(c, g) /\ Len(c) = Len(q) - 1 /\ Once(c)
          /\ \A j \in DOMAIN q : j # n => \E k \in DOMAIN c : c[k] = q[j]
      <4>1. Holds(q, g) /\ Once(q) /\ n \in DOMAIN q
        BY <2>3, <3>0
      <4>2. /\ Holds(RemoveAt(q, n), g) /\ Len(RemoveAt(q, n)) = Len(q) - 1
            /\ Once(q) => Once(RemoveAt(q, n))
        BY <4>1, RemovalKeeps
      <4>3. \A j \in DOMAIN q : j # n => \E k \in DOMAIN RemoveAt(q, n) : RemoveAt(q, n)[k] = q[j]
        BY <4>1, RemovalKeeps
      <4> QED BY <3>0, <4>1, <4>2, <4>3
    <3>4. Len(c) <= MaxSize[g]
      BY <1>1, <1>3, <2>3, <3>2, <3>3
    <3>5. ToSet(q) \subseteq ToSet(c) \union {q[n]}
      BY <3>3 DEF ToSet
    <3>6. t \notin ToSet(s)
      BY <1>2, <3>2 DEF Same, ToSet
    <3>7. ASSUME NEW u \in ToSet(s) \ ToSet(c) PROVE Purity[u] < Purity[t] /\ t \in ToSet(c)
      <4>1. u \in ToSet(q) /\ t \in ToSet(q)
        BY <2>3, <3>2, <3>7
      <4>2. u = q[n] /\ u # t
        BY <3>5, <3>6, <3>7, <4>1
      <4>3. t \in ToSet(c)
        BY <3>5, <4>1, <4>2
      <4>4. Len(s) \in DOMAIN s /\ u = s[Len(s)]
        BY <2>3, <3>2, <4>2
      <4>5. s # <<>> /\ u \in Tx
        BY <1>1, <4>4
      <4>6. ~(Purity[t] <= Purity[u])
        BY <2>2, <3>2, <4>4, <4>5
      <4> QED BY <1>1, <4>3, <4>5, <4>6, PurityType
    <3> QED BY <2>1, <3>1, <3>3, <3>4, <3>7 DEF LeaveFor
  <2> QED BY <1>1, <2>4, <2>5, <2>6
<1> QED BY <1>5, <1>6, <1>7

-----------------------------------------------------------------------------
(* The invariant: what each mutex protects stays a group in order, whatever  *)
(* step of drain or clean its holder has reached.                            *)

Inv == TypeOK /\ OneOfEach /\ WithinSize

Jobs == [op : {"drain", "ask", "clean"}, group : Group]

LEMMA GroupHolds == Inv => \A g \in Group : /\ Holds(pool[g], g) /\ Once(pool[g]) /\ Len(pool[g]) <= MaxSize[g]
  BY DEF Inv, TypeOK, OneOfEach, WithinSize, Holds

(* The same three facts of the next state, from those of each group.        *)
LEMMA PoolNext ==
  ASSUME pool' \in [Group -> Seq(Tx)],
         \A g \in Group : Holds(pool'[g], g) /\ Once(pool'[g]) /\ Len(pool'[g]) <= MaxSize[g]
  PROVE  /\ \A g \in Group : \A i \in DOMAIN pool'[g] : GroupOf(pool'[g][i]) = g
         /\ OneOfEach' /\ WithinSize'
  BY DEF Holds, OneOfEach, WithinSize, Once

LEMMA LatestNoType == ASSUME NEW C \in SUBSET Hash PROVE LatestNo(C) \in Nat
<1> DEFINE T == {0} \union {MintNo[h] : h \in C}
           U == {n \in Nat : \A x \in T : x <= n}  m == First(U)
<1>1. \A h \in C : MintNo[h] \in Nat /\ MintNo[h] <= MaxNo
  BY TxAssumption
<1>2. T \in SUBSET Nat /\ 0 \in T /\ \A x \in T : x <= MaxNo
  BY <1>1, TxAssumption
<1> HIDE DEF T
<1>3. MaxNo \in U
  BY <1>2, TxAssumption
<1>4. m \in U /\ \A n \in U : m <= n
  <2> HIDE DEF U
  <2>1. U \in SUBSET Nat /\ U # {}
    BY <1>3 DEF U
  <2> QED BY <2>1, FirstIsFirst
<1>5. m \in T
  <2>1. SUFFICES ASSUME m \notin T PROVE FALSE
    OBVIOUS
  <2> HIDE DEF m
  <2>2. m \in Nat /\ \A x \in T : x \in Nat /\ x < m
    BY <1>2, <1>4, <2>1
  <2>3. m - 1 \in Nat /\ ~(m <= m - 1) /\ \A x \in T : x <= m - 1
    BY <1>2, <2>2
  <2> QED BY <1>4, <2>3
<1>6. \A h \in C : MintNo[h] <= m
  BY <1>4 DEF T
<1>7. LatestNo(C) \in T
  BY <1>5, <1>6 DEF LatestNo, T
<1> QED BY <1>2, <1>7

LEMMA InitInv == Init => Inv
<1> SUFFICES ASSUME Init PROVE Inv
  OBVIOUS
<1>1. \A g \in Group : pool[g] = <<>> /\ DOMAIN pool[g] = {}
  BY DEF Init
<1>2. Cycle \in Nat \ {0} /\ 1 % Cycle \in 0..(Cycle - 1)
  BY SizeAssumption
<1>3. TypeOK
  BY <1>1, <1>2 DEF Init, TypeOK
<1>4. WithinSize
  BY <1>1, SizeAssumption DEF WithinSize
<1> QED BY <1>1, <1>3, <1>4 DEF Inv, OneOfEach, Once

(* The job at the head of a thread's list, and the list without it.         *)
LEMMA JobType ==
  ASSUME TypeOK, NEW d \in BlockThread, NEW op, Doing(d, op)
  PROVE  Here(d) \in Group /\ Tail(work[d]) \in Seq(Jobs)
<1>1. work[d] \in Seq(Jobs) /\ work[d] # <<>>
  BY DEF TypeOK, Jobs, Doing
<1>2. Head(work[d]) \in Jobs /\ Tail(work[d]) \in Seq(Jobs)
  BY <1>1, HeadTailProperties
<1> QED BY <1>2 DEF Here, Jobs

(* One entry goes: the group stays in order.                                *)
LEMMA GoesKeeps ==
  ASSUME Inv, NEW d \in BlockThread, Here(d) \in Group, NEW i \in DOMAIN pool[Here(d)], Goes(d, i)
  PROVE  /\ pool' \in [Group -> Seq(Tx)]
         /\ \A g \in Group : Holds(pool'[g], g) /\ Once(pool'[g]) /\ Len(pool'[g]) <= MaxSize[g]
         /\ lock' \in [Group -> BlockThread \union {NoThread}]
<1> DEFINE h == Here(d)
<1>1. h \in Group /\ i \in DOMAIN pool[h]
  OBVIOUS
<1>2. pool' = [pool EXCEPT ![h] = RemoveAt(pool[h], i)] /\ lock' = [lock EXCEPT ![h] = d]
  BY DEF Goes
<1> HIDE DEF h
<1>3. pool \in [Group -> Seq(Tx)] /\ lock \in [Group -> BlockThread \union {NoThread}]
  BY DEF Inv, TypeOK
<1>4. Holds(pool[h], h) /\ Once(pool[h]) /\ Len(pool[h]) <= MaxSize[h]
  BY <1>1, GroupHolds
<1>5. /\ Holds(RemoveAt(pool[h], i), h) /\ Once(RemoveAt(pool[h], i))
      /\ Len(RemoveAt(pool[h], i)) = Len(pool[h]) - 1
  BY <1>1, <1>4, RemovalKeeps
<1>6. Len(RemoveAt(pool[h], i)) <= MaxSize[h]
  BY <1>1, <1>3, <1>4, <1>5, SizeAssumption
<1>7. RemoveAt(pool[h], i) \in Seq(Tx)
  BY <1>5 DEF Holds
<1>8. pool' \in [Group -> Seq(Tx)] /\ pool'[h] = RemoveAt(pool[h], i)
      /\ \A g \in Group : g # h => pool'[g] = pool[g]
  BY <1>1, <1>2, <1>3, <1>7
<1>9. \A g \in Group : Holds(pool'[g], g) /\ Once(pool'[g]) /\ Len(pool'[g]) <= MaxSize[g]
  BY <1>5, <1>6, <1>8, GroupHolds
<1> QED BY <1>1, <1>2, <1>3, <1>8, <1>9

LEMMA FinishKeeps ==
  ASSUME Inv, NEW d \in BlockThread, NEW op, Doing(d, op), Finish(d)
  PROVE  /\ work' \in [BlockThread -> Seq(Jobs)]
         /\ lock' \in [Group -> BlockThread \union {NoThread}]
         /\ pos' \in [BlockThread -> Nat \ {0}]
         /\ pool' = pool
<1>1. TypeOK
  BY DEF Inv
<1>2. Here(d) \in Group /\ Tail(work[d]) \in Seq(Jobs)
  BY <1>1, JobType
<1>3. /\ work \in [BlockThread -> Seq(Jobs)]
      /\ lock \in [Group -> BlockThread \union {NoThread}]
      /\ pos \in [BlockThread -> Nat \ {0}]
  BY <1>1 DEF TypeOK, Jobs
<1> QED BY <1>2, <1>3 DEF Finish

(* A step that leaves the pool alone.                                       *)
LEMMA PoolSame == Inv /\ pool' = pool =>
  /\ OneOfEach' /\ WithinSize'
  /\ pool' \in [Group -> Seq(Tx)] /\ \A g \in Group : \A i \in DOMAIN pool'[g] : GroupOf(pool'[g][i]) = g
  BY DEF Inv, TypeOK, OneOfEach, WithinSize, Once

LEMMA HearKeeps ==
  ASSUME Inv, NEW t \in Tx, Hear(t) PROVE Inv'
<1>1. pool' = pool /\ UNCHANGED <<lock, chainVars, work, gone, pos, lastno>>
  BY DEF Hear
<1>2. knows' \subseteq Tx /\ tested' \in Tx \union {NoTx}
  BY DEF Hear, Inv, TypeOK
<1>3. TypeOK'
  BY <1>1, <1>2, PoolSame DEF Inv, TypeOK, chainVars
<1> QED BY <1>1, <1>3, PoolSame DEF Inv

LEMMA InsertTestedKeeps ==
  ASSUME Inv, InsertTested
  PROVE  /\ Inv'
         /\ LeaveFor(tested, pool[GroupOf(tested)], pool'[GroupOf(tested)])
<1> DEFINE g == GroupOf(tested)  r == Insert(pool[g], g, tested)
<1>1. tested \in Tx /\ g \in Group
  BY DEF InsertTested, Inv, TypeOK, GroupOf, Home, Group
<1>2. pool' = [pool EXCEPT ![g] = r] /\ tested' = NoTx
      /\ UNCHANGED <<lock, knows, chainVars, work, gone, pos, lastno>>
  BY DEF InsertTested
<1>3. Holds(pool[g], g) /\ Once(pool[g]) /\ Len(pool[g]) <= MaxSize[g] /\ GroupOf(tested) = g
  BY <1>1, GroupHolds
<1> HIDE DEF g, r
<1>4. Holds(Insert(pool[g], g, tested), g) /\ Once(Insert(pool[g], g, tested))
      /\ Len(Insert(pool[g], g, tested)) <= MaxSize[g]
  BY <1>1, <1>3, InsertKeeps
<1>5. LeaveFor(tested, pool[g], Insert(pool[g], g, tested))
  BY <1>1, <1>3, InsertKeeps
<1>6. r = Insert(pool[g], g, tested)
  BY DEF r, g
<1>7. pool \in [Group -> Seq(Tx)] /\ r \in Seq(Tx)
  BY <1>4, <1>6 DEF Inv, TypeOK, Holds
<1>8. pool' \in [Group -> Seq(Tx)] /\ pool'[g] = r /\ \A k \in Group : k # g => pool'[k] = pool[k]
  BY <1>1, <1>2, <1>7
<1>9. \A k \in Group : Holds(pool'[k], k) /\ Once(pool'[k]) /\ Len(pool'[k]) <= MaxSize[k]
  BY <1>4, <1>6, <1>8, GroupHolds
<1>10. TypeOK'
  BY <1>2, <1>8, <1>9, PoolNext DEF Inv, TypeOK, chainVars
<1>11. LeaveFor(tested, pool[g], pool'[g])
  BY <1>5, <1>6, <1>8
<1> QED BY <1>8, <1>9, <1>10, <1>11, PoolNext DEF Inv, g

(* The chain moves on.                                                      *)
LEMMA NewTopType ==
  ASSUME Inv, NEW C \in SUBSET Hash, NEW S \in SUBSET Hash, NewTop(C, S)
  PROVE  done' \subseteq Hash /\ top' \subseteq done' /\ side' \subseteq SUBSET Hash /\ hei' \in 0..(Cycle - 1)
<1>1. hei \in 0..(Cycle - 1) /\ Cycle \in Nat \ {0}
  BY SizeAssumption DEF Inv, TypeOK
<1>2. (hei + 1) % Cycle \in 0..(Cycle - 1)
  BY <1>1
<1> QED BY <1>2 DEF NewTop

LEMMA UsePoolKeeps ==
  ASSUME Inv, NEW d \in BlockThread, NEW S \in SUBSET Hash, NEW n, UsePool(d, S, n),
         done' \subseteq Hash, top' \subseteq done', side' \subseteq SUBSET Hash, hei' \in 0..(Cycle - 1)
  PROVE  Inv'
<1> DEFINE w == <<Job("drain", "normal"), Job("drain", "mint")>> \o Cleans(n)
<1>1. \A op \in {"drain", "ask", "clean"}, g \in Group : Job(op, g) \in Jobs
  BY DEF Job, Jobs
<1>2. "normal" \in Group /\ "mint" \in Group
  BY DEF Group
<1>3. Cleans(n) \in Seq(Jobs)
  BY <1>1, <1>2 DEF Cleans
<1>4. <<Job("drain", "normal"), Job("drain", "mint")>> \in Seq(Jobs)
  BY <1>1, <1>2
<1>5. w \in Seq(Jobs)
  BY <1>3, <1>4
<1>6. /\ work' = [work EXCEPT ![d] = w] /\ gone' = [gone EXCEPT ![d] = S]
      /\ UNCHANGED <<pool, lock, knows, tested, pos, lastno>>
  BY DEF UsePool
<1> HIDE DEF w
<1>7. /\ work' \in [BlockThread -> Seq(Jobs)]
      /\ gone' \in [BlockThread -> SUBSET Hash]
  BY <1>5, <1>6 DEF Inv, TypeOK, Jobs
<1>8. TypeOK'
  BY <1>6, <1>7, PoolSame DEF Inv, TypeOK, Jobs
<1> QED BY <1>6, <1>8, PoolSame DEF Inv

LEMMA BodyType == ASSUME NEW C, NEW n, NEW S \in BlockBody(C, n) PROVE S \in SUBSET Hash
  BY DEF BlockBody

LEMMA BlockComesKeeps ==
  ASSUME Inv, NEW d \in BlockThread, BlockComes(d) PROVE Inv'
<1>1. done \in SUBSET Hash /\ top \subseteq done /\ side \subseteq SUBSET Hash /\ hei \in 0..(Cycle - 1)
  BY DEF Inv, TypeOK
<1>2. CASE Extend(d)
  <2>1. PICK S \in BlockBody(done, hei + 1) : NewTop(done, S) /\ UsePool(d, S, hei + 1)
    BY <1>2 DEF Extend
  <2> QED BY <1>1, <2>1, BodyType, NewTopType, UsePoolKeeps
<1>3. CASE Uncle(d)
  <2>1. PICK S \in BlockBody(done \ top, hei) : side' = {S} /\ UsePool(d, S, hei)
    BY <1>3 DEF Uncle
  <2>2. S \in SUBSET Hash /\ UNCHANGED <<done, top, hei>>
    BY <1>3, <2>1, BodyType DEF Uncle
  <2> QED BY <1>1, <2>1, <2>2, UsePoolKeeps
<1>4. CASE SwitchFork(d)
  <2>1. PICK U \in side : \E S \in BlockBody((done \ top) \union U, hei + 1) :
          NewTop((done \ top) \union U, S) /\ UsePool(d, S, hei + 1)
    BY <1>4 DEF SwitchFork
  <2>2. PICK S \in BlockBody((done \ top) \union U, hei + 1) :
          NewTop((done \ top) \union U, S) /\ UsePool(d, S, hei + 1)
    BY <2>1
  <2>3. (done \ top) \union U \in SUBSET Hash
    BY <1>1
  <2> QED BY <2>2, <2>3, BodyType, NewTopType, UsePoolKeeps
<1> QED BY <1>2, <1>3, <1>4 DEF BlockComes

LEMMA SyncBlockKeeps == ASSUME Inv, SyncBlock PROVE Inv'
<1>1. PICK S \in BlockBody(done, hei + 1) : NewTop(done, S)
  BY DEF SyncBlock
<1>2. done \in SUBSET Hash /\ S \in SUBSET Hash
  BY BodyType DEF Inv, TypeOK
<1>3. done' \subseteq Hash /\ top' \subseteq done' /\ side' \subseteq SUBSET Hash /\ hei' \in 0..(Cycle - 1)
  BY <1>1, <1>2, NewTopType
<1>4. UNCHANGED <<pool, lock, knows, tested, work, gone, pos, lastno>>
  BY DEF SyncBlock
<1>5. TypeOK'
  BY <1>3, <1>4, PoolSame DEF Inv, TypeOK
<1> QED BY <1>4, <1>5, PoolSame DEF Inv

(* What the steps of a thread leave alone.                                  *)
LEMMA ThreadFrame ==
  ASSUME Inv, UNCHANGED <<knows, tested, chainVars>>, OneOfEach', WithinSize',
         pool' \in [Group -> Seq(Tx)],
         \A g \in Group : \A i \in DOMAIN pool'[g] : GroupOf(pool'[g][i]) = g,
         lock' \in [Group -> BlockThread \union {NoThread}],
         work' \in [BlockThread -> Seq(Jobs)], gone' \in [BlockThread -> SUBSET Hash],
         pos' \in [BlockThread -> Nat \ {0}], lastno' \in [BlockThread -> Nat]
  PROVE  Inv'
  BY DEF Inv, TypeOK, Jobs, chainVars

LEMMA DrainKeeps ==
  ASSUME Inv, NEW d \in BlockThread, Drain(d) PROVE Inv'
<1> DEFINE found == {i \in DOMAIN pool[Here(d)] : HashOf[pool[Here(d)][i]] \in gone[d]}
<1>1. /\ Doing(d, "drain") /\ UNCHANGED <<knows, tested, chainVars, lastno>>
      /\ \/ \E i \in found :
              /\ Goes(d, i) /\ UNCHANGED <<work, pos>>
              /\ gone' = [gone EXCEPT ![d] = @ \ {HashOf[pool[Here(d)][i]]}]
         \/ Finish(d) /\ gone' = [gone EXCEPT ![d] = IF Here(d) = "normal" THEN @ ELSE {}]
  BY DEF Drain
<1>2. /\ Here(d) \in Group /\ gone \in [BlockThread -> SUBSET Hash] /\ work \in [BlockThread -> Seq(Jobs)]
      /\ pos \in [BlockThread -> Nat \ {0}] /\ lastno \in [BlockThread -> Nat]
  BY <1>1, JobType DEF Inv, TypeOK, Jobs
<1>3. gone' \in [BlockThread -> SUBSET Hash] /\ lastno' \in [BlockThread -> Nat]
  BY <1>1, <1>2
<1>4. CASE \E i \in found : Goes(d, i) /\ UNCHANGED <<work, pos>>
  <2>1. PICK i \in DOMAIN pool[Here(d)] : Goes(d, i) /\ UNCHANGED <<work, pos>>
    BY <1>4
  <2> HIDE DEF found
  <2> QED BY <1>1, <1>2, <1>3, <2>1, GoesKeeps, PoolNext, ThreadFrame
<1>5. CASE Finish(d)
  BY <1>1, <1>3, <1>5, FinishKeeps, PoolSame, ThreadFrame
<1> QED BY <1>1, <1>4, <1>5

LEMMA AskLatestKeeps ==
  ASSUME Inv, NEW d \in BlockThread, AskLatest(d) PROVE Inv'
<1>1. /\ Doing(d, "ask") /\ work' = [work EXCEPT ![d] = Tail(@)]
      /\ lastno' = [lastno EXCEPT ![d] = LatestNo(done)]
      /\ UNCHANGED <<pool, lock, knows, tested, chainVars, gone, pos>>
  BY DEF AskLatest
<1>2. Tail(work[d]) \in Seq(Jobs) /\ LatestNo(done) \in Nat
  BY <1>1, JobType, LatestNoType DEF Inv, TypeOK
<1>3. /\ lock \in [Group -> BlockThread \union {NoThread}]
      /\ work \in [BlockThread -> Seq(Jobs)] /\ gone \in [BlockThread -> SUBSET Hash]
      /\ pos \in [BlockThread -> Nat \ {0}] /\ lastno \in [BlockThread -> Nat]
  BY DEF Inv, TypeOK, Jobs
<1>4. work' \in [BlockThread -> Seq(Jobs)] /\ lastno' \in [BlockThread -> Nat]
  BY <1>1, <1>2, <1>3
<1> QED BY <1>1, <1>3, <1>4, PoolSame, ThreadFrame

LEMMA CleanKeeps ==
  ASSUME Inv, NEW d \in BlockThread, Clean(d) PROVE Inv'
<1>1. /\ Doing(d, "clean") /\ UNCHANGED <<knows, tested, chainVars, gone>>
      /\ \/ /\ pos[d] <= Len(pool[Here(d)]) /\ Goes(d, pos[d]) /\ UNCHANGED <<work, pos, lastno>>
         \/ /\ pos' = [pos EXCEPT ![d] = @ + 1] /\ lock' = [lock EXCEPT ![Here(d)] = d]
            /\ UNCHANGED <<pool, work, lastno>>
         \/ Finish(d) /\ lastno' = [lastno EXCEPT ![d] = 0]
  BY DEF Clean
<1>2. /\ lock \in [Group -> BlockThread \union {NoThread}] /\ pool \in [Group -> Seq(Tx)]
      /\ work \in [BlockThread -> Seq(Jobs)] /\ gone \in [BlockThread -> SUBSET Hash]
      /\ pos \in [BlockThread -> Nat \ {0}] /\ lastno \in [BlockThread -> Nat]
  BY DEF Inv, TypeOK, Jobs
<1>3. Here(d) \in Group
  BY <1>1, JobType DEF Inv
<1>4. CASE pos[d] <= Len(pool[Here(d)]) /\ Goes(d, pos[d]) /\ UNCHANGED <<work, pos, lastno>>
  <2>1. pos[d] \in DOMAIN pool[Here(d)]
    BY <1>2, <1>3, <1>4
  <2>2. Goes(d, pos[d]) /\ UNCHANGED <<work, pos, lastno>>
    BY <1>4
  <2> QED BY <1>1, <1>2, <1>3, <2>1, <2>2, GoesKeeps, PoolNext, ThreadFrame
<1>5. CASE /\ pos' = [pos EXCEPT ![d] = @ + 1] /\ lock' = [lock EXCEPT ![Here(d)] = d]
           /\ UNCHANGED <<pool, work, lastno>>
  <2>1. /\ pos' \in [BlockThread -> Nat \ {0}]
        /\ lock' \in [Group -> BlockThread \union {NoThread}]
    BY <1>2, <1>3, <1>5
  <2> QED BY <1>1, <1>2, <1>5, <2>1, PoolSame, ThreadFrame
<1>6. CASE Finish(d) /\ lastno' = [lastno EXCEPT ![d] = 0]
  <2>1. lastno' \in [BlockThread -> Nat]
    BY <1>2, <1>6
  <2> QED BY <1>1, <1>2, <1>6, <2>1, FinishKeeps, PoolSame, ThreadFrame
<1> QED BY <1>1, <1>4, <1>5, <1>6

-----------------------------------------------------------------------------
(* The theorems.                                                            *)

LEMMA StepKeeps == ASSUME Inv, [Next]_vars PROVE Inv'
<1>1. ASSUME NEW t \in Tx, Hear(t) PROVE Inv'
  BY <1>1, HearKeeps
<1>2. CASE InsertTested
  BY <1>2, InsertTestedKeeps
<1>3. CASE SyncBlock
  BY <1>3, SyncBlockKeeps
<1>4. ASSUME NEW d \in BlockThread, BlockComes(d) PROVE Inv'
  BY <1>4, BlockComesKeeps
<1>5. ASSUME NEW d \in BlockThread, ThreadStep(d) PROVE Inv'
  BY <1>5, DrainKeeps, AskLatestKeeps, CleanKeeps DEF ThreadStep
<1>6. CASE UNCHANGED vars
  BY <1>6, PoolSame DEF vars, Inv, TypeOK
<1> QED BY <1>1, <1>2, <1>3, <1>4, <1>5, <1>6 DEF Next

(* Whatever order the steps of the handler, drains, cleans and blocks come  *)
(* in, every variable keeps its type, and a package is in its own group.     *)
THEOREM PoolTypeCorrect == Spec => []TypeOK
<1>1. Inv /\ [Next]_vars => Inv'
  BY StepKeeps
<1>2. Inv => TypeOK
  BY DEF Inv
<1> QED BY <1>1, <1>2, InitInv, PTL DEF Spec

(* A transaction is in the pool at most once, however often it was          *)
(* submitted with other fees.                                               *)
THEOREM PoolHoldsOneOfEach == Spec => []OneOfEach
<1>1. Inv /\ [Next]_vars => Inv'
  BY StepKeeps
<1>2. Inv => OneOfEach
  BY DEF Inv
<1> QED BY <1>1, <1>2, InitInv, PTL DEF Spec

(* No group outgrows its limit.                                             *)
THEOREM PoolStaysWithinSize == Spec => []WithinSize
<1>1. Inv /\ [Next]_vars => Inv'
  BY StepKeeps
<1>2. Inv => WithinSize
  BY DEF Inv
<1> QED BY <1>1, <1>2, InitInv, PTL DEF Spec

(* For groups of any limit, in whatever order their packages are: one       *)
(* leaves for a new one only if that pays more and is in the pool.          *)
THEOREM PoolLeavesForBetter == Spec => LeavesForBetter
<1> DEFINE Better == tested # NoTx /\ tested' = NoTx =>
                       \A t \in ToSet(pool[GroupOf(tested)]) \ ToSet(pool'[GroupOf(tested)]) :
                         Purity[t] < Purity[tested] /\ tested \in ToSet(pool'[GroupOf(tested)])
<1>1. Inv /\ [Next]_vars => Inv'
  BY StepKeeps
<1>2. Inv /\ [Next]_vars => [Better]_vars
  <2> SUFFICES ASSUME Inv, Next, tested # NoTx, tested' = NoTx
               PROVE  Better
    OBVIOUS
  <2>1. \A d \in BlockThread : ~BlockComes(d)
    BY DEF BlockComes, Extend, Uncle, SwitchFork, UsePool
  <2>2. \A d \in BlockThread : ~ThreadStep(d)
    BY DEF ThreadStep, Drain, AskLatest, Clean
  <2>3. InsertTested
    BY <2>1, <2>2 DEF Next, Hear, SyncBlock
  <2> QED BY <2>3, InsertTestedKeeps DEF LeaveFor
<1> QED BY <1>1, <1>2, InitInv, PTL DEF Spec, LeavesForBetter
=============================================================================
