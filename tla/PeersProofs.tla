---------------------------- MODULE PeersProofs -----------------------------
(* Theorems about the two peer tables of Peers, for every set of            *)
(* connections, every keys, addresses and distances, and every table size.  *)
EXTENDS Peers, TLAPS, SequenceTheorems, FiniteSetTheorems, WellFoundedInduction

LEMMA LeastIsLeast ==
  ASSUME NEW T \in SUBSET Nat, T # {}
  PROVE  Least(T) \in T /\ \A j \in T : Least(T) <= j
<1>1. PICK x \in T : \A y \in T : ~(<<y, x>> \in OpToRel(<, Nat))
  BY NatLessThanWellFounded, WFMin
<1>2. \A y \in T : ~(y < x)
  BY <1>1 DEF OpToRel
<1>3. \A y \in T : x <= y
  BY <1>2
<1> QED BY <1>3 DEF Least

-----------------------------------------------------------------------------
(* A table without one of its entries.  Every operation on a table is this  *)
(* relation, read in one direction or the other.                            *)

Without(r, s, i) ==
  /\ r \in Seq(Conn) /\ s \in Seq(Conn) /\ Len(s) = Len(r) + 1 /\ i \in 1..Len(s)
  /\ \A k \in 1..Len(r) : r[k] = s[IF k < i THEN k ELSE k + 1]

LEMMA RemoveAtIs ==
  ASSUME NEW s \in Seq(Conn), NEW i \in 1..Len(s)
  PROVE  Without(RemoveAt(s, i), s, i)
<1> DEFINE a == SubSeq(s, 1, i - 1)  b == SubSeq(s, i + 1, Len(s))
<1>1. Len(s) \in Nat /\ i \in Nat /\ 1 <= i /\ i <= Len(s)
  OBVIOUS
<1>2. a \in Seq(Conn) /\ Len(a) = i - 1 /\ \A k \in 1..(i - 1) : a[k] = s[k]
  BY <1>1
<1>3. b \in Seq(Conn) /\ Len(b) = Len(s) - i /\ \A k \in 1..(Len(s) - i) : b[k] = s[i + k]
  BY <1>1
<1>4. RemoveAt(s, i) = a \o b
  BY DEF RemoveAt
<1> HIDE DEF a, b
<1>5. /\ a \o b \in Seq(Conn) /\ Len(a \o b) = Len(s) - 1
      /\ \A k \in 1..(Len(s) - 1) : (a \o b)[k] = IF k <= i - 1 THEN a[k] ELSE b[k - (i - 1)]
  <2>1. /\ a \o b \in Seq(Conn) /\ Len(a \o b) = Len(a) + Len(b)
        /\ \A k \in 1..(Len(a) + Len(b)) :
             (a \o b)[k] = IF k <= Len(a) THEN a[k] ELSE b[k - Len(a)]
    BY <1>2, <1>3, ConcatProperties
  <2>2. Len(a) = i - 1 /\ Len(a) + Len(b) = Len(s) - 1
    BY <1>1, <1>2, <1>3
  <2> QED BY <2>1, <2>2
<1>6. \A k \in 1..(Len(s) - 1) : (a \o b)[k] = s[IF k < i THEN k ELSE k + 1]
  <2>1. ASSUME NEW k \in 1..(Len(s) - 1), k < i PROVE (a \o b)[k] = s[k]
    BY <1>1, <1>2, <1>5, <2>1
  <2>2. ASSUME NEW k \in 1..(Len(s) - 1), ~(k < i) PROVE (a \o b)[k] = s[k + 1]
    <3>1. k - (i - 1) \in 1..(Len(s) - i) /\ i + (k - (i - 1)) = k + 1
      BY <1>1, <2>2
    <3>2. ~(k <= i - 1)
      BY <1>1, <2>2
    <3>3. (a \o b)[k] = b[k - (i - 1)]
      BY <1>5, <3>2
    <3> QED BY <1>3, <3>1, <3>3
  <2> QED BY <2>1, <2>2
<1> DEFINE r == a \o b
<1> HIDE DEF r
<1>7. r \in Seq(Conn) /\ Len(r) = Len(s) - 1 /\ \A k \in 1..(Len(s) - 1) : r[k] = s[IF k < i THEN k ELSE k + 1]
  BY <1>5, <1>6 DEF r
<1>8. Without(r, s, i)
  BY <1>1, <1>7 DEF Without
<1> QED BY <1>4, <1>8 DEF r

LEMMA InsertAtIs ==
  ASSUME NEW s \in Seq(Conn), NEW i \in 1..(Len(s) + 1), NEW c \in Conn
  PROVE  Without(s, InsertAt(s, i, c), i) /\ InsertAt(s, i, c)[i] = c
<1> DEFINE a == SubSeq(s, 1, i - 1)  b == SubSeq(s, i, Len(s))  d == a \o <<c>>
<1>1. Len(s) \in Nat /\ i \in Nat /\ 1 <= i /\ i <= Len(s) + 1
  OBVIOUS
<1>2. a \in Seq(Conn) /\ Len(a) = i - 1 /\ \A k \in 1..(i - 1) : a[k] = s[k]
  BY <1>1
<1>3. b \in Seq(Conn) /\ Len(b) = Len(s) - i + 1 /\ \A k \in 1..(Len(s) - i + 1) : b[k] = s[i + k - 1]
  BY <1>1
<1>4. d \in Seq(Conn) /\ Len(d) = i /\ d[i] = c /\ \A k \in 1..(i - 1) : d[k] = s[k]
  <2> HIDE DEF a
  <2> QED BY <1>1, <1>2
<1>5. InsertAt(s, i, c) = d \o b
  BY DEF InsertAt
<1> HIDE DEF b, d
<1>6. /\ d \o b \in Seq(Conn) /\ Len(d \o b) = Len(s) + 1
      /\ \A k \in 1..(Len(s) + 1) : (d \o b)[k] = IF k <= i THEN d[k] ELSE b[k - i]
  <2>1. /\ d \o b \in Seq(Conn) /\ Len(d \o b) = Len(d) + Len(b)
        /\ \A k \in 1..(Len(d) + Len(b)) :
             (d \o b)[k] = IF k <= Len(d) THEN d[k] ELSE b[k - Len(d)]
    BY <1>3, <1>4, ConcatProperties
  <2>2. Len(d) = i /\ Len(d) + Len(b) = Len(s) + 1
    BY <1>1, <1>3, <1>4
  <2> QED BY <2>1, <2>2
<1> DEFINE r == d \o b
<1> HIDE DEF r
<1>7. r \in Seq(Conn) /\ Len(r) = Len(s) + 1 /\ \A k \in 1..(Len(s) + 1) : r[k] = IF k <= i THEN d[k] ELSE b[k - i]
  BY <1>6 DEF r
<1>8. r[i] = c
  BY <1>1, <1>4, <1>7
<1>9. ASSUME NEW k \in 1..Len(s) PROVE s[k] = r[IF k < i THEN k ELSE k + 1]
  <2>1. CASE k < i
    BY <1>1, <1>4, <1>7, <2>1
  <2>2. CASE ~(k < i)
    <3>1. k + 1 - i \in 1..(Len(s) - i + 1) /\ i + (k + 1 - i) - 1 = k
      BY <1>1, <2>2
    <3>2. r[k + 1] = b[k + 1 - i]
      BY <1>1, <1>7, <2>2
    <3> QED BY <1>3, <2>2, <3>1, <3>2
  <2> QED BY <2>1, <2>2
<1>10. Without(s, r, i)
  BY <1>1, <1>7, <1>9 DEF Without
<1> QED BY <1>5, <1>8, <1>10 DEF r

LEMMA FrontIs ==
  ASSUME NEW s \in Seq(Conn), Len(s) > 0
  PROVE  Without(Front(s), s, Len(s)) /\ Last(s) = s[Len(s)] /\ Last(s) \in Conn
<1> DEFINE n == Len(s) - 1  r == SubSeq(s, 1, n)
<1>1. Len(s) \in Nat /\ Len(s) \in 1..Len(s) /\ n \in Nat /\ Len(s) = n + 1
  OBVIOUS
<1>2. r \in Seq(Conn) /\ Len(r) = Len(s) - 1 /\ \A k \in 1..(Len(s) - 1) : r[k] = s[k]
  <2>1. \A k \in 1..n : s[k] \in Conn
    BY <1>1
  <2>2. r = [k \in 1..n |-> s[k]]
    BY <1>1, SubSeqProperties
  <2> HIDE DEF r, n
  <2>3. r \in Seq(Conn) /\ Len(r) = n
    BY <1>1, <2>1, <2>2
  <2> QED BY <1>1, <2>2, <2>3
<1>3. Front(s) = r
  BY DEF Front
<1> HIDE DEF r
<1>4. Without(r, s, Len(s))
  BY <1>1, <1>2 DEF Without
<1> QED BY <1>1, <1>3, <1>4 DEF Last

-----------------------------------------------------------------------------
(* What it does to order, to differing nodes and to the number of entries.  *)

\* What BackbonesDiffer asks of a table.
Differ(s) ==
  /\ ToSet(s) \subseteq Public
  /\ \A i, j \in DOMAIN s : KeyOf[s[i]] = KeyOf[s[j]] => i = j
  /\ \A i, j \in DOMAIN s : AddrOf[s[i]] = AddrOf[s[j]] => i = j

Count(s, k) == Cardinality(EntriesIn(s, k))
One(c, k) == IF KeyOf[c] = k THEN 1 ELSE 0

LEMMA EntriesFinite ==
  ASSUME NEW s \in Seq(Conn), NEW k
  PROVE  IsFiniteSet(EntriesIn(s, k)) /\ Count(s, k) \in Nat /\ (Count(s, k) = 0 <=> EntriesIn(s, k) = {})
<1>1. IsFiniteSet(1..Len(s))
  BY FS_Interval
<1>2. EntriesIn(s, k) \in SUBSET (1..Len(s))
  BY DEF EntriesIn
<1>3. IsFiniteSet(EntriesIn(s, k))
  BY <1>1, <1>2, FS_Subset
<1> QED BY <1>3, FS_CardinalityType, FS_EmptySet DEF Count

LEMMA WithoutKeeps ==
  ASSUME NEW r, NEW s, NEW i, Without(r, s, i)
  PROVE  /\ ToSet(r) \subseteq ToSet(s)
         /\ InOrder(s) => InOrder(r)
         /\ Differ(s) => Differ(r)
<1> DEFINE old(k) == IF k < i THEN k ELSE k + 1
<1>1. /\ r \in Seq(Conn) /\ s \in Seq(Conn) /\ Len(r) \in Nat /\ i \in Nat
      /\ DOMAIN r = 1..Len(r) /\ DOMAIN s = 1..(Len(r) + 1)
  BY DEF Without
<1>2. \A k \in DOMAIN r : old(k) \in DOMAIN s /\ r[k] = s[old(k)]
  BY <1>1 DEF Without
<1>3. \A k, l \in DOMAIN r : (k < l => old(k) < old(l)) /\ (old(k) = old(l) => k = l)
  BY <1>1
<1> HIDE DEF old
<1>4. ToSet(r) \subseteq ToSet(s)
  BY <1>2 DEF ToSet
<1>5. InOrder(s) => InOrder(r)
  BY <1>2, <1>3 DEF InOrder
<1>6. Differ(s) => Differ(r)
  BY <1>2, <1>3, <1>4 DEF Differ
<1> QED BY <1>4, <1>5, <1>6

LEMMA WithoutCounts ==
  ASSUME NEW r, NEW s, NEW i, Without(r, s, i), NEW k
  PROVE  Count(s, k) = Count(r, k) + One(s[i], k)
<1> DEFINE E == EntriesIn(r, k)  F == EntriesIn(s, k) \ {i}
           f == [j \in E |-> IF j < i THEN j ELSE j + 1]
<1>1. /\ r \in Seq(Conn) /\ s \in Seq(Conn) /\ Len(r) \in Nat /\ i \in Nat /\ i \in DOMAIN s
      /\ DOMAIN r = 1..Len(r) /\ DOMAIN s = 1..(Len(r) + 1)
      /\ \A j \in DOMAIN r : r[j] = s[IF j < i THEN j ELSE j + 1]
  BY DEF Without
<1>2. \A j \in E : j \in DOMAIN r /\ KeyOf[r[j]] = k
  BY DEF EntriesIn
<1>3. \A j \in F : j \in DOMAIN s /\ KeyOf[s[j]] = k /\ j # i
  BY DEF EntriesIn
<1>4. f \in [E -> F]
  <2>1. ASSUME NEW j \in E PROVE (IF j < i THEN j ELSE j + 1) \in F
    BY <1>1, <1>2 DEF EntriesIn
  <2> QED BY <2>1
<1>5. \A j, l \in E : f[j] = f[l] => j = l
  BY <1>1, <1>2
<1>6. ASSUME NEW j \in F PROVE \E l \in E : f[l] = j
  <2>1. CASE j < i
    <3>1. j \in E
      BY <1>1, <1>3, <2>1 DEF EntriesIn
    <3> QED BY <2>1, <3>1
  <2>2. CASE ~(j < i)
    <3>1. j - 1 \in DOMAIN r /\ ~(j - 1 < i) /\ (j - 1) + 1 = j
      BY <1>1, <1>3, <2>2
    <3>2. j - 1 \in E
      BY <1>1, <1>3, <3>1 DEF EntriesIn
    <3> QED BY <3>1, <3>2
  <2> QED BY <2>1, <2>2
<1> HIDE DEF E, F, f
<1>7. f \in Bijection(E, F)
  BY <1>4, <1>5, <1>6 DEF Bijection, Injection, IsInjective, Surjection
<1>8. ExistsBijection(E, F)
  BY <1>7 DEF ExistsBijection
<1>9. Cardinality(F) = Count(r, k)
  BY <1>1, <1>8, EntriesFinite, FS_Bijection DEF E, Count
<1>10. Cardinality(F) = IF i \in EntriesIn(s, k) THEN Count(s, k) - 1 ELSE Count(s, k)
  BY <1>1, EntriesFinite, FS_RemoveElement DEF F, Count
<1>11. i \in EntriesIn(s, k) <=> KeyOf[s[i]] = k
  BY <1>1 DEF EntriesIn
<1>12. Count(s, k) \in Nat /\ Count(r, k) \in Nat
  BY <1>1, EntriesFinite
<1> QED BY <1>9, <1>10, <1>11, <1>12 DEF One

-----------------------------------------------------------------------------
(* Adding a connection to a table.                                          *)

LEMMA DistanceType == \A c \in Conn : Distance[KeyOf[c]] \in Nat
  BY ConnAssumption

LEMMA WithIs ==
  ASSUME NEW s \in Seq(Conn), NEW c \in Conn
  PROVE  \E p : /\ Without(s, With(s, c), p) /\ With(s, c)[p] = c
                /\ InOrder(s) => InOrder(With(s, c))
<1> DEFINE far == {i \in DOMAIN s : Nearer(c, s[i])}  p == Place(s, c)  w == With(s, c)
<1>1. Len(s) \in Nat /\ DOMAIN s = 1..Len(s) /\ \A i \in 1..Len(s) : s[i] \in Conn
  OBVIOUS
<1>2. p \in far \union {Len(s) + 1} /\ \A j \in far \union {Len(s) + 1} : p <= j
  <2>1. far \union {Len(s) + 1} \in SUBSET Nat /\ far \union {Len(s) + 1} # {}
    BY <1>1
  <2> HIDE DEF far
  <2> QED BY <2>1, LeastIsLeast DEF Place, far
<1>3. p \in 1..(Len(s) + 1)
  <2> HIDE DEF p
  <2> QED BY <1>1, <1>2
<1>4. \A j \in 1..Len(s) : j < p => Distance[KeyOf[s[j]]] <= Distance[KeyOf[c]]
  <2> SUFFICES ASSUME NEW j \in 1..Len(s), j < p PROVE Distance[KeyOf[s[j]]] <= Distance[KeyOf[c]]
    OBVIOUS
  <2>1. j \notin far
    <3> HIDE DEF p, far
    <3> QED BY <1>1, <1>2, <1>3
  <2>2. ~(Distance[KeyOf[c]] < Distance[KeyOf[s[j]]])
    BY <1>1, <2>1 DEF Nearer
  <2>3. Distance[KeyOf[c]] \in Nat /\ Distance[KeyOf[s[j]]] \in Nat
    BY <1>1, DistanceType
  <2> QED BY <2>2, <2>3
<1>5. InOrder(s) => \A j \in 1..Len(s) : p <= j => Distance[KeyOf[c]] <= Distance[KeyOf[s[j]]]
  <2> SUFFICES ASSUME InOrder(s), NEW j \in 1..Len(s), p <= j
               PROVE  Distance[KeyOf[c]] <= Distance[KeyOf[s[j]]]
    OBVIOUS
  <2>1. p \in far /\ p \in 1..Len(s)
    <3> HIDE DEF p, far
    <3> QED BY <1>1, <1>2, <1>3
  <2>2. Distance[KeyOf[c]] < Distance[KeyOf[s[p]]]
    BY <2>1 DEF Nearer
  <2> HIDE DEF p, far
  <2>3. Distance[KeyOf[s[p]]] <= Distance[KeyOf[s[j]]]
    <3>1. CASE p = j
      BY <1>1, <2>1, <3>1, DistanceType
    <3>2. CASE p < j
      BY <1>1, <2>1, <3>2 DEF InOrder
    <3> QED BY <1>1, <2>1, <3>1, <3>2
  <2>4. Distance[KeyOf[c]] \in Nat /\ Distance[KeyOf[s[p]]] \in Nat /\ Distance[KeyOf[s[j]]] \in Nat
    BY <1>1, <2>1, DistanceType
  <2> QED BY <2>2, <2>3, <2>4
<1> HIDE DEF p, far
<1>6. Without(s, w, p) /\ w[p] = c
  BY <1>3, InsertAtIs DEF With, p
<1> HIDE DEF w
<1>7. ASSUME InOrder(s) PROVE InOrder(w)
  <2> DEFINE old(k) == IF k < p THEN k ELSE k - 1
  <2>1. w \in Seq(Conn) /\ DOMAIN w = 1..(Len(s) + 1)
    BY <1>6 DEF Without
  <2>2. \A k \in DOMAIN w : k # p => old(k) \in DOMAIN s /\ w[k] = s[old(k)]
    <3> SUFFICES ASSUME NEW k \in DOMAIN w, k # p PROVE old(k) \in DOMAIN s /\ w[k] = s[old(k)]
      OBVIOUS
    <3>1. old(k) \in 1..Len(s) /\ (IF old(k) < p THEN old(k) ELSE old(k) + 1) = k
      BY <1>1, <1>3, <2>1
    <3> HIDE DEF old
    <3> QED BY <1>1, <1>6, <3>1 DEF Without
  <2> SUFFICES ASSUME NEW k \in DOMAIN w, NEW l \in DOMAIN w, k < l
               PROVE  Distance[KeyOf[w[k]]] <= Distance[KeyOf[w[l]]]
    BY DEF InOrder
  <2>3. CASE k # p /\ l # p
    <3>1. old(k) < old(l)
      BY <1>3, <2>1, <2>3
    <3> HIDE DEF old
    <3> QED BY <1>7, <2>2, <2>3, <3>1 DEF InOrder
  <2>4. CASE k = p
    <3>1. l # p /\ old(l) \in 1..Len(s) /\ p <= old(l)
      BY <1>1, <1>3, <2>1, <2>4
    <3> HIDE DEF old
    <3> QED BY <1>5, <1>6, <1>7, <2>2, <2>4, <3>1
  <2>5. CASE l = p
    <3>1. k # p /\ old(k) \in 1..Len(s) /\ old(k) < p
      BY <1>1, <1>3, <2>1, <2>5
    <3> HIDE DEF old
    <3> QED BY <1>4, <1>6, <2>2, <2>5, <3>1
  <2> QED BY <2>3, <2>4, <2>5
<1> QED BY <1>6, <1>7 DEF w

LEMMA DifferWith ==
  ASSUME NEW s \in Seq(Conn), NEW c \in Conn \intersect Public, Differ(s),
         \A d \in ToSet(s) : ~SameNode(c, d)
  PROVE  Differ(With(s, c))
<1> DEFINE w == With(s, c)
<1>1. PICK p : Without(s, w, p) /\ w[p] = c
  BY WithIs
<1> DEFINE old(k) == IF k < p THEN k ELSE k - 1
<1> HIDE DEF w
<1>2. /\ Len(s) \in Nat /\ DOMAIN s = 1..Len(s) /\ p \in 1..(Len(s) + 1)
      /\ DOMAIN w = 1..(Len(s) + 1)
  BY <1>1 DEF Without
<1>3. \A k \in DOMAIN w : k # p => old(k) \in DOMAIN s /\ w[k] = s[old(k)]
  <2> SUFFICES ASSUME NEW k \in DOMAIN w, k # p PROVE old(k) \in DOMAIN s /\ w[k] = s[old(k)]
    OBVIOUS
  <2>1. old(k) \in 1..Len(s) /\ (IF old(k) < p THEN old(k) ELSE old(k) + 1) = k
    BY <1>2
  <2> HIDE DEF old
  <2> QED BY <1>1, <1>2, <2>1 DEF Without
<1>4. \A k, l \in DOMAIN w : k # p /\ l # p /\ old(k) = old(l) => k = l
  BY <1>2
<1> HIDE DEF old
<1>5. \A k \in DOMAIN w : k # p => KeyOf[w[k]] # KeyOf[c] /\ AddrOf[w[k]] # AddrOf[c]
  BY <1>3 DEF SameNode, ToSet
<1>6. ToSet(w) \subseteq Public
  BY <1>1, <1>3 DEF ToSet, Differ
<1>7. \A i, j \in DOMAIN w : KeyOf[w[i]] = KeyOf[w[j]] => i = j
  BY <1>1, <1>3, <1>4, <1>5 DEF Differ
<1>8. \A i, j \in DOMAIN w : AddrOf[w[i]] = AddrOf[w[j]] => i = j
  BY <1>1, <1>3, <1>4, <1>5 DEF Differ
<1> QED BY <1>6, <1>7, <1>8 DEF Differ, w

(* A full table gives up one entry for the one it takes, and stays sorted.  *)
LEMMA AddedIs ==
  ASSUME NEW s \in Seq(Conn), NEW c \in Conn, NEW max \in Nat, Len(s) <= max, InOrder(s)
  PROVE  LET r == Kept(With(s, c), max)
             out == Fallen(With(s, c), max)
         IN /\ r \in Seq(Conn) /\ Len(r) <= max /\ InOrder(r)
            /\ Differ(With(s, c)) => Differ(r)
            /\ \/ out = {} /\ \A k : Count(r, k) = Count(s, k) + One(c, k)
               \/ \E d \in Conn :
                    out = {d} /\ \A k : Count(r, k) + One(d, k) = Count(s, k) + One(c, k)
<1> DEFINE w == With(s, c)  r == Kept(w, max)  out == Fallen(w, max)
<1>1. PICK p : Without(s, w, p) /\ w[p] = c /\ InOrder(w)
  BY WithIs
<1> HIDE DEF w
<1>2. w \in Seq(Conn) /\ Len(w) = Len(s) + 1 /\ Len(s) \in Nat
  BY <1>1 DEF Without
<1>3. \A k : Count(w, k) = Count(s, k) + One(c, k)
  BY <1>1, WithoutCounts
<1>4. CASE Len(w) > max
  <2>1. r = Front(w) /\ out = {Last(w)}
    BY <1>4 DEF Kept, Fallen
  <2>2. Without(Front(w), w, Len(w)) /\ Last(w) = w[Len(w)] /\ Last(w) \in Conn
    BY <1>2, FrontIs
  <2> HIDE DEF r, out
  <2>3. r \in Seq(Conn) /\ Len(r) <= max
    BY <1>2, <2>1, <2>2 DEF Without
  <2>4. InOrder(r) /\ (Differ(w) => Differ(r))
    BY <1>1, <2>1, <2>2, WithoutKeeps
  <2>5. \A k : Count(w, k) = Count(r, k) + One(Last(w), k)
    BY <2>1, <2>2, WithoutCounts
  <2>6. \A k : Count(r, k) + One(Last(w), k) = Count(s, k) + One(c, k)
    BY <1>3, <2>5
  <2> QED BY <2>1, <2>2, <2>3, <2>4, <2>6 DEF r, out, w
<1>5. CASE ~(Len(w) > max)
  <2>1. r = w /\ out = {}
    BY <1>5 DEF Kept, Fallen
  <2>2. Len(w) <= max
    BY <1>2, <1>5
  <2> HIDE DEF r, out
  <2> QED BY <1>1, <1>2, <1>3, <2>1, <2>2 DEF r, out, w
<1> QED BY <1>4, <1>5

-----------------------------------------------------------------------------
(* The operations on the tables.                                            *)

TablesOK ==
  /\ backbones \in Seq(Conn) /\ Len(backbones) <= BackbonePeers
  /\ offshoots \in Seq(Conn) /\ Len(offshoots) <= OffshootPeers
  /\ NearestFirst /\ BackbonesDiffer

LEMMA EntriesAre ==
  ASSUME TablesOK, NEW k
  PROVE  /\ Entries(k) = Count(backbones, k) + Count(offshoots, k)
         /\ Count(backbones, k) \in Nat /\ Count(offshoots, k) \in Nat /\ Entries(k) \in Nat
  BY EntriesFinite DEF TablesOK, Entries, Count

LEMMA OneType == \A c, k : One(c, k) \in {0, 1}
  BY DEF One

LEMMA OffshootsTake ==
  ASSUME TablesOK, NEW c \in Conn, InOffshoots(c)
  PROVE  /\ offshoots' \in Seq(Conn) /\ Len(offshoots') <= OffshootPeers /\ InOrder(offshoots')
         /\ \A k : Count(offshoots', k) <= Count(offshoots, k) + One(c, k)
<1> DEFINE r == Kept(With(offshoots, c), OffshootPeers)  out == Fallen(With(offshoots, c), OffshootPeers)
<1>1. /\ r \in Seq(Conn) /\ Len(r) <= OffshootPeers /\ InOrder(r)
      /\ \/ out = {} /\ \A k : Count(r, k) = Count(offshoots, k) + One(c, k)
         \/ \E d \in Conn :
              out = {d} /\ \A k : Count(r, k) + One(d, k) = Count(offshoots, k) + One(c, k)
  BY AddedIs, SizeAssumption DEF TablesOK, NearestFirst
<1>2. offshoots' = r
  BY DEF InOffshoots
<1> HIDE DEF r, out
<1>3. ASSUME NEW k PROVE Count(r, k) <= Count(offshoots, k) + One(c, k)
  <2>1. Count(r, k) \in Nat /\ Count(offshoots, k) \in Nat
    BY <1>1, EntriesFinite DEF TablesOK
  <2> QED BY <1>1, <2>1, OneType
<1> QED BY <1>1, <1>2, <1>3

LEMMA AdmitKeeps ==
  ASSUME TablesOK, NEW c \in Conn, Admit(c)
  PROVE  TablesOK' /\ \A k : Entries(k)' <= Entries(k) + One(c, k)
<1>1. CASE AdmitPrivate(c)
  <2>1. TablesOK'
    BY <1>1, OffshootsTake DEF AdmitPrivate, TablesOK, NearestFirst, BackbonesDiffer
  <2>2. ASSUME NEW k PROVE Entries(k)' <= Entries(k) + One(c, k)
    <3>1. Count(offshoots', k) <= Count(offshoots, k) + One(c, k)
      BY <1>1, OffshootsTake DEF AdmitPrivate
    <3>2. Entries(k)' = Count(backbones, k) + Count(offshoots', k) /\ Count(offshoots', k) \in Nat
      BY <1>1, <2>1, EntriesFinite DEF AdmitPrivate, TablesOK, Entries, Count
    <3> QED BY <3>1, <3>2, EntriesAre, OneType
  <2> QED BY <2>1, <2>2
<1>2. CASE AdmitKnown(c)
  <2>1. UNCHANGED tables
    BY <1>2 DEF AdmitKnown
  <2>2. TablesOK'
    BY <2>1 DEF tables, TablesOK, NearestFirst, BackbonesDiffer
  <2>3. \A k : Entries(k)' = Entries(k)
    BY <2>1 DEF tables, Entries
  <2> QED BY <2>2, <2>3, EntriesAre, OneType
<1>3. CASE AdmitPublic(c)
  <2> DEFINE r == Kept(With(backbones, c), BackbonePeers)  out == Fallen(With(backbones, c), BackbonePeers)
  <2>1. /\ r \in Seq(Conn) /\ Len(r) <= BackbonePeers /\ InOrder(r)
        /\ Differ(With(backbones, c)) => Differ(r)
        /\ \/ out = {} /\ \A k : Count(r, k) = Count(backbones, k) + One(c, k)
           \/ \E d \in Conn :
                out = {d} /\ \A k : Count(r, k) + One(d, k) = Count(backbones, k) + One(c, k)
    BY AddedIs, SizeAssumption DEF TablesOK, NearestFirst
  <2>2. Differ(With(backbones, c))
    BY <1>3, DifferWith DEF AdmitPublic, TablesOK, BackbonesDiffer, Differ
  <2>3. /\ backbones' = r
        /\ \/ UNCHANGED offshoots
           \/ \E d \in out \intersect ToMe : InOffshoots(d)
    BY <1>3 DEF AdmitPublic
  <2> HIDE DEF r, out
  <2>4. \A k : Count(r, k) \in Nat /\ Count(backbones, k) \in Nat /\ Count(offshoots, k) \in Nat
    BY <2>1, EntriesFinite DEF TablesOK
  <2>5. \A k : Count(r, k) <= Count(backbones, k) + One(c, k)
    BY <2>1, <2>4, OneType
  <2>6. /\ offshoots' \in Seq(Conn) /\ Len(offshoots') <= OffshootPeers /\ InOrder(offshoots')
        /\ \A k : Count(r, k) + Count(offshoots', k)
                    <= Count(backbones, k) + Count(offshoots, k) + One(c, k)
    <3>1. CASE UNCHANGED offshoots
      BY <2>4, <2>5, <3>1, OneType DEF TablesOK, NearestFirst
    <3>2. ASSUME NEW d \in out, InOffshoots(d)
          PROVE  /\ offshoots' \in Seq(Conn) /\ Len(offshoots') <= OffshootPeers /\ InOrder(offshoots')
                 /\ \A k : Count(r, k) + Count(offshoots', k)
                             <= Count(backbones, k) + Count(offshoots, k) + One(c, k)
      <4>1. d \in Conn /\ \A k : Count(r, k) + One(d, k) = Count(backbones, k) + One(c, k)
        BY <2>1, <3>2
      <4>2. /\ offshoots' \in Seq(Conn) /\ Len(offshoots') <= OffshootPeers /\ InOrder(offshoots')
            /\ \A k : Count(offshoots', k) <= Count(offshoots, k) + One(d, k)
        BY <3>2, <4>1, OffshootsTake
      <4>3. \A k : Count(offshoots', k) \in Nat
        BY <4>2, EntriesFinite
      <4> QED BY <2>4, <4>1, <4>2, <4>3, OneType
    <3> QED BY <2>3, <3>1, <3>2
  <2>7. TablesOK'
    BY <2>1, <2>2, <2>3, <2>6 DEF TablesOK, NearestFirst, BackbonesDiffer, Differ
  <2>8. \A k : Entries(k)' = Count(r, k) + Count(offshoots', k)
    BY <2>3 DEF Entries, Count
  <2> QED BY <2>6, <2>7, <2>8, EntriesAre
<1> QED BY <1>1, <1>2, <1>3 DEF Admit

\* What a task takes out of the tables when it ends.
LEMMA RemovedKeeps ==
  ASSUME TablesOK, NEW c \in Conn, Removed(c)
  PROVE  /\ TablesOK'
         /\ \A k : Entries(k)' <= Entries(k)
         /\ Entries(KeyOf[c]) # 0 => Entries(KeyOf[c])' = Entries(KeyOf[c]) - 1
<1> DEFINE Of(s) == {i \in DOMAIN s : KeyOf[s[i]] = KeyOf[c]}
<1>1. ASSUME NEW s \in Seq(Conn), Of(s) # {}
      PROVE  LET r == RemoveAt(s, Least(Of(s))) IN
             /\ r \in Seq(Conn) /\ Len(r) <= Len(s)
             /\ InOrder(s) => InOrder(r)
             /\ Differ(s) => Differ(r)
             /\ \A k : Count(s, k) = Count(r, k) + One(c, k)
  <2> DEFINE i == Least(Of(s))  r == RemoveAt(s, i)
  <2>1. i \in Of(s)
    <3>1. Of(s) \in SUBSET Nat
      OBVIOUS
    <3> HIDE DEF Of
    <3> QED BY <1>1, <3>1, LeastIsLeast
  <2>2. i \in 1..Len(s) /\ KeyOf[s[i]] = KeyOf[c]
    <3> HIDE DEF i
    <3> QED BY <2>1
  <2> HIDE DEF i
  <2>3. Without(r, s, i)
    BY <2>2, RemoveAtIs
  <2> HIDE DEF r
  <2>4. r \in Seq(Conn) /\ Len(r) <= Len(s)
    BY <2>3 DEF Without
  <2>5. \A k : Count(s, k) = Count(r, k) + One(c, k)
    BY <2>2, <2>3, WithoutCounts DEF One
  <2> QED BY <2>3, <2>4, <2>5, WithoutKeeps DEF r, i
<1>2. One(c, KeyOf[c]) = 1
  BY DEF One
<1>3. CASE Of(offshoots) # {}
  <2>1. offshoots' = RemoveAt(offshoots, Least(Of(offshoots))) /\ UNCHANGED backbones
    BY <1>3 DEF Removed
  <2>2. /\ offshoots' \in Seq(Conn) /\ Len(offshoots') <= Len(offshoots) /\ InOrder(offshoots')
        /\ \A k : Count(offshoots, k) = Count(offshoots', k) + One(c, k)
    BY <1>1, <1>3, <2>1 DEF TablesOK, NearestFirst
  <2>3. Len(offshoots') <= OffshootPeers
    BY <2>2, SizeAssumption DEF TablesOK
  <2>4. TablesOK'
    BY <2>1, <2>2, <2>3 DEF TablesOK, NearestFirst, BackbonesDiffer
  <2>5. \A k : Entries(k)' = Count(backbones, k) + Count(offshoots', k) /\ Count(offshoots', k) \in Nat
    BY <2>1, <2>2, EntriesFinite DEF Entries, Count
  <2> QED BY <1>2, <2>2, <2>4, <2>5, EntriesAre, OneType
<1>4. CASE Of(offshoots) = {} /\ Of(backbones) # {}
  <2>1. backbones' = RemoveAt(backbones, Least(Of(backbones))) /\ UNCHANGED offshoots
    BY <1>4 DEF Removed
  <2>2. /\ backbones' \in Seq(Conn) /\ Len(backbones') <= Len(backbones) /\ InOrder(backbones')
        /\ Differ(backbones')
        /\ \A k : Count(backbones, k) = Count(backbones', k) + One(c, k)
    BY <1>1, <1>4, <2>1 DEF TablesOK, NearestFirst, BackbonesDiffer, Differ
  <2>3. Len(backbones') <= BackbonePeers
    BY <2>2, SizeAssumption DEF TablesOK
  <2>4. TablesOK'
    BY <2>1, <2>2, <2>3 DEF TablesOK, NearestFirst, BackbonesDiffer, Differ
  <2>5. \A k : Entries(k)' = Count(backbones', k) + Count(offshoots, k) /\ Count(backbones', k) \in Nat
    BY <2>1, <2>2, EntriesFinite DEF Entries, Count
  <2> QED BY <1>2, <2>2, <2>4, <2>5, EntriesAre, OneType
<1>5. CASE Of(offshoots) = {} /\ Of(backbones) = {}
  <2>1. UNCHANGED tables
    BY <1>5 DEF Removed
  <2>2. TablesOK' /\ \A k : Entries(k)' = Entries(k)
    BY <2>1 DEF tables, TablesOK, NearestFirst, BackbonesDiffer, Entries
  <2>3. Entries(KeyOf[c]) = 0
    <3>1. EntriesIn(offshoots, KeyOf[c]) = {} /\ EntriesIn(backbones, KeyOf[c]) = {}
      BY <1>5 DEF EntriesIn
    <3> QED BY <3>1, EntriesAre, EntriesFinite DEF TablesOK
  <2> QED BY <2>2, <2>3, EntriesAre
<1> QED BY <1>3, <1>4, <1>5

-----------------------------------------------------------------------------
(* The inductive invariant: besides the two tables, the tasks that will     *)
(* still take an entry out.                                                 *)

Inv ==
  /\ TablesOK
  /\ reader \in [Conn -> {"none", "reading", "ending", "gone"}]
  /\ \A k \in Key : IsFiniteSet(Served(k)) /\ Entries(k) <= Cardinality(Served(k))

LEMMA InitInv == ASSUME Init PROVE Inv
<1>1. TablesOK
  BY SizeAssumption DEF Init, TablesOK, NearestFirst, InOrder, BackbonesDiffer, ToSet
<1>2. \A k : Entries(k) = 0
  <2>1. backbones = <<>> /\ offshoots = <<>>
    BY DEF Init
  <2>2. ASSUME NEW k PROVE EntriesIn(<<>>, k) = {}
    BY DEF EntriesIn
  <2>3. ASSUME NEW k PROVE Entries(k) = Cardinality({}) + Cardinality({})
    BY <2>1, <2>2 DEF Entries
  <2> QED BY <2>3, FS_EmptySet
<1>3. \A k : Served(k) = {}
  BY DEF Init, Served
<1>4. reader \in [Conn -> {"none", "reading", "ending", "gone"}]
  BY DEF Init
<1> QED BY <1>1, <1>2, <1>3, <1>4, FS_EmptySet DEF Inv

LEMMA ConnectKeeps == ASSUME Inv, NEW c \in Conn, Connect(c) PROVE Inv'
<1>1. TablesOK' /\ \A k : Entries(k)' <= Entries(k) + One(c, k)
  BY AdmitKeeps DEF Inv, Connect
<1>2. reader' \in [Conn -> {"none", "reading", "ending", "gone"}]
  BY DEF Inv, Connect
<1>3. ASSUME NEW k \in Key PROVE IsFiniteSet(Served(k)') /\ Entries(k)' <= Cardinality(Served(k)')
  <2>1. IsFiniteSet(Served(k)) /\ Entries(k) <= Cardinality(Served(k)) /\ Cardinality(Served(k)) \in Nat
    BY <1>3, FS_CardinalityType DEF Inv
  <2>2. Entries(k) \in Nat /\ Entries(k)' \in Nat
    <3>1. Entries(k)' = Count(backbones', k) + Count(offshoots', k)
      BY DEF Entries, Count
    <3>2. Count(backbones', k) \in Nat /\ Count(offshoots', k) \in Nat
      BY <1>1, EntriesFinite DEF TablesOK
    <3> QED BY <3>1, <3>2, EntriesAre DEF Inv
  <2>3. CASE KeyOf[c] = k
    <3>1. Served(k)' = Served(k) \union {c} /\ c \notin Served(k)
      BY <2>3 DEF Served, Connect, Inv
    <3>2. IsFiniteSet(Served(k)') /\ Cardinality(Served(k)') = Cardinality(Served(k)) + 1
      BY <2>1, <3>1, FS_AddElement
    <3> QED BY <1>1, <2>1, <2>2, <2>3, <3>2 DEF One
  <2>4. CASE KeyOf[c] # k
    <3>1. Served(k)' = Served(k)
      BY <2>4 DEF Served, Connect, Inv
    <3> QED BY <1>1, <2>1, <2>2, <2>4, <3>1 DEF One
  <2> QED BY <2>3, <2>4
<1> QED BY <1>1, <1>2, <1>3 DEF Inv

LEMMA ReaderRemovesKeeps == ASSUME Inv, NEW c \in Conn, ReaderRemoves(c) PROVE Inv'
<1>1. /\ TablesOK'
      /\ \A k : Entries(k)' <= Entries(k)
      /\ Entries(KeyOf[c]) # 0 => Entries(KeyOf[c])' = Entries(KeyOf[c]) - 1
  BY RemovedKeeps DEF Inv, ReaderRemoves
<1>2. reader' \in [Conn -> {"none", "reading", "ending", "gone"}]
  BY DEF Inv, ReaderRemoves
<1>3. ASSUME NEW k \in Key PROVE IsFiniteSet(Served(k)') /\ Entries(k)' <= Cardinality(Served(k)')
  <2>1. IsFiniteSet(Served(k)) /\ Entries(k) <= Cardinality(Served(k)) /\ Cardinality(Served(k)) \in Nat
    BY <1>3, FS_CardinalityType DEF Inv
  <2>2. Entries(k) \in Nat /\ Entries(k)' \in Nat
    <3>1. Entries(k)' = Count(backbones', k) + Count(offshoots', k)
      BY DEF Entries, Count
    <3>2. Count(backbones', k) \in Nat /\ Count(offshoots', k) \in Nat
      BY <1>1, EntriesFinite DEF TablesOK
    <3> QED BY <3>1, <3>2, EntriesAre DEF Inv
  <2>3. CASE KeyOf[c] = k
    <3>1. Served(k)' = Served(k) \ {c} /\ c \in Served(k)
      BY <2>3 DEF Served, ReaderRemoves, Inv
    <3>2. IsFiniteSet(Served(k)') /\ Cardinality(Served(k)') = Cardinality(Served(k)) - 1
      BY <2>1, <3>1, FS_RemoveElement
    <3>3. Cardinality(Served(k)') \in Nat
      BY <3>2, FS_CardinalityType
    <3> QED BY <1>1, <2>1, <2>2, <2>3, <3>2, <3>3
  <2>4. CASE KeyOf[c] # k
    <3>1. Served(k)' = Served(k)
      BY <2>4 DEF Served, ReaderRemoves, Inv
    <3> QED BY <1>1, <2>1, <2>2, <3>1
  <2> QED BY <2>3, <2>4
<1> QED BY <1>1, <1>2, <1>3 DEF Inv

\* A step that leaves the tables and the set of living tasks alone.
LEMMA OthersKeep ==
  ASSUME Inv, UNCHANGED tables,
         reader' \in [Conn -> {"none", "reading", "ending", "gone"}],
         \A c \in Conn : reader'[c] \in {"reading", "ending"} <=> reader[c] \in {"reading", "ending"}
  PROVE  Inv'
<1>1. TablesOK' /\ \A k : Entries(k)' = Entries(k)
  BY DEF Inv, tables, TablesOK, NearestFirst, BackbonesDiffer, Entries
<1>2. \A k : Served(k)' = Served(k)
  BY DEF Served
<1> QED BY <1>1, <1>2 DEF Inv

LEMMA StepKeeps == ASSUME Inv, [Next]_vars PROVE Inv'
<1>1. ASSUME NEW c \in Conn, Accept(c) \/ DialBoot(c) \/ TryFound(c) PROVE Inv'
  BY <1>1, ConnectKeeps DEF Accept, DialBoot, TryFound
<1>2. ASSUME NEW c \in Conn, ReaderRemoves(c) PROVE Inv'
  BY <1>2, ReaderRemovesKeeps
<1>3. ASSUME NEW c \in Conn, ReaderEnds(c) PROVE Inv'
  <2>1. UNCHANGED tables /\ reader' = [reader EXCEPT ![c] = "ending"] /\ reader[c] = "reading"
    BY <1>3 DEF ReaderEnds
  <2> QED BY <2>1, OthersKeep DEF Inv
<1>4. ASSUME UNCHANGED <<tables, reader>> PROVE Inv'
  BY <1>4, OthersKeep DEF Inv
<1>5. ASSUME NEW c \in Conn, FailFound(c) \/ TimerCloses(c) \/ CheckActive(c) \/ CloseSent(c)
                             \/ Reply(c) \/ Replied(c) \/ \E i \in Item : Hear(c, i)
      PROVE  UNCHANGED <<tables, reader>>
  BY <1>5 DEF FailFound, TimerCloses, CheckActive, CloseSent, Reply, Replied, Hear
<1>6. ASSUME FindNodes PROVE UNCHANGED <<tables, reader>>
  BY <1>6 DEF FindNodes
<1>7. ASSUME NEW i \in Item, Submit(i) \/ ReadBackbones(i) \/ Pick(i)
                             \/ CastSend(i) \/ CastSent(i) \/ CastLost(i)
      PROVE  UNCHANGED <<tables, reader>>
  BY <1>7 DEF Submit, ReadBackbones, Pick, CastSend, CastSent, CastLost
<1>8. CASE UNCHANGED vars
  BY <1>4, <1>8 DEF vars
<1> QED BY <1>1, <1>2, <1>3, <1>4, <1>5, <1>6, <1>7, <1>8 DEF Next

-----------------------------------------------------------------------------
(* Who is told an item. Picked goes through the peers once; the function    *)
(* that it builds is there, and no peer is picked twice.                    *)

LEMMA UpTo ==
  ASSUME NEW n \in Nat, NEW T \in SUBSET (0..n), 0 \in T,
         \A i \in T : i < n => i + 1 \in T
  PROVE  T = 0..n
<1> SUFFICES ASSUME (0..n) \ T # {} PROVE FALSE
  OBVIOUS
<1>1. PICK i \in (0..n) \ T : \A j \in (0..n) \ T : i <= j
  <2>1. (0..n) \ T \in SUBSET Nat
    OBVIOUS
  <2> QED BY <2>1, LeastIsLeast
<1>2. i - 1 \in T /\ i - 1 < n
  BY <1>1
<1> QED BY <1>1, <1>2

Collected(g, n, peers, i) ==
  IF n = 0 THEN <<>>
  ELSE IF i \in knows[peers[n]] \/ peers[n] \in ToSet(g[n - 1]) THEN g[n - 1]
  ELSE Append(g[n - 1], peers[n])
Collects(g, peers, i) == g = [n \in 0..Len(peers) |-> Collected(g, n, peers, i)]

LEMMA CollectsExists ==
  ASSUME NEW peers, Len(peers) \in Nat, NEW i
  PROVE  \E g : Collects(g, peers, i)
<1> DEFINE n == Len(peers)
           Right(g, k) == \A m \in 0..k : g[m] = Collected(g, m, peers, i)
           Places == {k \in 0..n : \E g : g = [m \in 0..n |-> g[m]] /\ Right(g, k)}
<1>1. 0 \in Places
  <2> DEFINE g == [m \in 0..n |-> <<>>]
  <2>1. g = [m \in 0..n |-> g[m]] /\ Right(g, 0)
    BY DEF Collected
  <2>2. 0 \in 0..n
    OBVIOUS
  <2> HIDE DEF g, Right
  <2> QED BY <2>1, <2>2
<1>2. ASSUME NEW k \in Places, k < n PROVE k + 1 \in Places
  <2>1. PICK g : Right(g, k)
    OBVIOUS
  <2> DEFINE h == [m \in 0..n |-> Collected(g, m, peers, i)]
  <2>2. \A m \in 0..k : h[m] = g[m]
    BY <1>2, <2>1
  <2>3. ASSUME NEW m \in 0..(k + 1) PROVE h[m] = Collected(h, m, peers, i)
    <3>1. h[m] = Collected(g, m, peers, i)
      BY <1>2
    <3>2. CASE m = 0
      <4> HIDE DEF h
      <4> QED BY <3>1, <3>2 DEF Collected
    <3>3. CASE m # 0
      <4>1. m - 1 \in 0..k
        BY <1>2, <3>3
      <4>2. h[m - 1] = g[m - 1]
        BY <2>2, <4>1
      <4> HIDE DEF h
      <4> QED BY <3>1, <3>3, <4>2 DEF Collected
    <3> QED BY <3>2, <3>3
  <2>4. h = [m \in 0..n |-> h[m]] /\ Right(h, k + 1)
    BY <2>3
  <2>5. k + 1 \in 0..n
    BY <1>2
  <2> HIDE DEF h, Right
  <2> QED BY <2>4, <2>5
<1>3. n \in Places
  <2>1. Places \in SUBSET (0..n) /\ n \in Nat
    OBVIOUS
  <2> HIDE DEF Places
  <2>2. Places = 0..n
    BY <1>1, <1>2, <2>1, UpTo
  <2> QED BY <2>1, <2>2
<1>4. PICK g : g = [m \in 0..n |-> g[m]] /\ Right(g, n)
  BY <1>3
<1>5. g = [m \in 0..n |-> Collected(g, m, peers, i)]
  BY <1>4
<1> QED BY <1>5 DEF Collects

\* A list of connections that has none twice.
NoneTwice(s) == s \in Seq(Conn) /\ \A m, n \in DOMAIN s : s[m] = s[n] => m = n

LEMMA PickedIs ==
  ASSUME NEW i, seen[i][1] \in Seq(Conn), offshoots \in Seq(Conn)
  PROVE  NoneTwice(Picked(i))
<1> DEFINE peers == seen[i][1] \o offshoots
           n == Len(peers)
           g == CHOOSE f : f = [m \in 0..n |-> Collected(f, m, peers, i)]
           Places == {k \in 0..n : NoneTwice(g[k])}
<1>1. peers \in Seq(Conn) /\ n \in Nat
  OBVIOUS
<1>2. Picked(i) = g[n]
  BY Zenon DEF Picked, Collected
<1> HIDE DEF peers
<1>3. g = [m \in 0..n |-> Collected(g, m, peers, i)]
  <2>1. \E f : f = [m \in 0..n |-> Collected(f, m, peers, i)]
    BY <1>1, CollectsExists DEF Collects
  <2> HIDE DEF n
  <2> QED BY <2>1, Zenon
<1> HIDE DEF g, n
<1>4. 0 \in Places
  <2>1. 0 \in 0..n
    BY <1>1 DEF n
  <2>2. g[0] = <<>>
    BY <1>3, <2>1 DEF Collected
  <2>3. NoneTwice(<<>>)
    BY DEF NoneTwice
  <2> QED BY <2>1, <2>2, <2>3
<1>5. ASSUME NEW k \in Places, k < n PROVE k + 1 \in Places
  <2> DEFINE s == g[k]
             c == peers[k + 1]
  <2>1. k + 1 \in 0..n /\ c \in Conn /\ NoneTwice(s)
    BY <1>1, <1>5 DEF n
  <2>2. k + 1 # 0 /\ (k + 1) - 1 = k
    BY <1>5
  <2>3. g[k + 1] = IF i \in knows[c] \/ c \in ToSet(s) THEN s ELSE Append(s, c)
    <3>1. g[k + 1] = Collected(g, k + 1, peers, i)
      BY <1>3, <2>1
    <3> QED BY <2>2, <3>1 DEF Collected
  <2> HIDE DEF s, c
  <2>4. ASSUME c \notin ToSet(s) PROVE NoneTwice(Append(s, c))
    <3>1. /\ Append(s, c) \in Seq(Conn) /\ Len(s) \in Nat
          /\ DOMAIN Append(s, c) = 1..(Len(s) + 1) /\ DOMAIN s = 1..Len(s)
          /\ \A m \in 1..Len(s) : Append(s, c)[m] = s[m]
          /\ Append(s, c)[Len(s) + 1] = c
      BY <2>1 DEF NoneTwice
    <3>2. \A m \in 1..Len(s) : s[m] # c
      BY <2>4, <3>1 DEF ToSet
    <3>3. \A m \in 1..(Len(s) + 1) : m \in 1..Len(s) \/ m = Len(s) + 1
      BY <3>1
    <3> QED BY <2>1, <3>1, <3>2, <3>3 DEF NoneTwice
  <2>5. NoneTwice(g[k + 1])
    BY <2>1, <2>3, <2>4
  <2> QED BY <2>1, <2>5
<1>6. Places = 0..n
  <2>1. Places \in SUBSET (0..n)
    OBVIOUS
  <2> HIDE DEF Places
  <2> QED BY <1>1, <1>4, <1>5, <2>1, UpTo
<1> QED BY <1>1, <1>2, <1>6

\* An item is due, read for, sent: one broadcast after the other, and only one.
Told(i) ==
  /\ i \in due => i \in known /\ seen[i] = None /\ cast[i] = None
  /\ seen[i] # None => i \in known /\ cast[i] = None
  /\ cast[i] # None => i \in known
  /\ NoneTwice(cast[i])
  /\ \A m \in DOMAIN cast[i] : i \in knows[cast[i][m]]

Types ==
  /\ slot \in [Conn -> Out \union Item] /\ dropped \subseteq Conn
  /\ knows \in [Conn -> SUBSET Item] /\ known \subseteq Item /\ due \subseteq known
  /\ seen \in [Item -> {None} \union {<<b>> : b \in Seq(Conn)}]
  /\ cast \in [Item -> Seq(Conn)]
  /\ found \subseteq Conn /\ first \subseteq Key

CastInv == Types /\ \A i \in Item : Told(i)

\* A step that sends nothing and learns nothing.
LEMMA QuietKeeps ==
  ASSUME CastInv, UNCHANGED <<knows, known, due, seen, cast>>,
         slot' \in [Conn -> Out \union Item], dropped' \subseteq Conn,
         found' \subseteq Conn, first' \subseteq Key
  PROVE  CastInv'
BY DEF CastInv, Types, Told

LEMMA DisconnectedType ==
  ASSUME slot \in [Conn -> Out \union Item], NEW c \in Conn
  PROVE  Disconnected(c) \in [Conn -> Out \union Item]
BY DEF Disconnected, Out

LEMMA FallenType ==
  ASSUME NEW s \in Seq(Conn), NEW c \in Conn, NEW max
  PROVE  Fallen(With(s, c), max) \subseteq Conn
<1>1. PICK p : Without(s, With(s, c), p)
  BY WithIs
<1> DEFINE w == With(s, c)
<1> HIDE DEF w
<1>2. w \in Seq(Conn) /\ Len(w) > 0
  BY <1>1 DEF Without, w
<1>3. Last(w) \in Conn
  BY <1>2, FrontIs
<1> QED BY <1>3 DEF Fallen, w

LEMMA AdmitDrops ==
  ASSUME TablesOK, NEW c \in Conn, dropped \subseteq Conn, Admit(c)
  PROVE  dropped' \subseteq Conn
<1>1. ASSUME NEW d \in Conn, InOffshoots(d) PROVE dropped' \subseteq Conn
  BY <1>1, FallenType DEF InOffshoots, TablesOK
<1>2. CASE AdmitPrivate(c)
  BY <1>1, <1>2 DEF AdmitPrivate
<1>3. CASE AdmitKnown(c)
  BY <1>3 DEF AdmitKnown
<1>4. CASE AdmitPublic(c)
  <2> DEFINE out == Fallen(With(backbones, c), BackbonePeers)
  <2>1. out \subseteq Conn
    BY FallenType DEF TablesOK
  <2>2. dropped' = dropped \union out \/ \E d \in out : InOffshoots(d)
    BY <1>4 DEF AdmitPublic
  <2> QED BY <1>1, <2>1, <2>2
<1> QED BY <1>2, <1>3, <1>4 DEF Admit

LEMMA ConnectCasts ==
  ASSUME Inv, CastInv, NEW c \in Conn, Accept(c) \/ DialBoot(c) \/ TryFound(c)
  PROVE  CastInv'
<1>1. Connect(c) /\ found' \subseteq Conn /\ first' \subseteq Key
  BY DEF Accept, DialBoot, TryFound, search, CastInv, Types
<1>2. dropped' \subseteq Conn
  BY <1>1, AdmitDrops DEF Connect, Inv, CastInv, Types
<1>3. slot' \in [Conn -> Out \union Item]
  BY <1>1 DEF Connect, CastInv, Types, Out
<1> QED BY <1>1, <1>2, <1>3, QuietKeeps DEF Connect, news

LEMMA SearchCasts ==
  ASSUME Inv, CastInv, FindNodes \/ \E c \in Conn : FailFound(c)
  PROVE  CastInv'
<1>1. CASE FindNodes
  <2>1. backbones # <<>> /\ backbones \in Seq(Conn)
    BY <1>1 DEF FindNodes, Inv, TablesOK
  <2>2. KeyOf[Head(backbones)] \in Key
    BY <2>1 DEF Key
  <2>3. found' \subseteq Conn /\ first' \subseteq Key
    BY <1>1, <2>2, ConnAssumption DEF FindNodes
  <2> QED BY <1>1, <2>3, QuietKeeps DEF FindNodes, news, CastInv, Types
<1>2. CASE \E c \in Conn : FailFound(c)
  <2>1. found' \subseteq Conn /\ first' \subseteq Key
    BY <1>2 DEF FailFound, CastInv, Types
  <2> QED BY <1>2, <2>1, QuietKeeps DEF FailFound, news, CastInv, Types
<1> QED BY <1>1, <1>2

LEMMA SlotCasts ==
  ASSUME CastInv, NEW c \in Conn,
         \/ ReaderEnds(c) \/ ReaderRemoves(c) \/ TimerCloses(c) \/ CheckActive(c) \/ CloseSent(c)
         \/ Reply(c) \/ Replied(c)
  PROVE  CastInv'
<1>1. slot' \in [Conn -> Out \union Item]
  <2>1. slot \in [Conn -> Out \union Item]
    BY DEF CastInv, Types
  <2>2. /\ [slot EXCEPT ![c] = "closed"] \in [Conn -> Out \union Item]
        /\ [slot EXCEPT ![c] = "reply"] \in [Conn -> Out \union Item]
        /\ [slot EXCEPT ![c] = "free"] \in [Conn -> Out \union Item]
    BY <2>1 DEF Out
  <2> QED BY <2>1, <2>2, DisconnectedType
       DEF ReaderEnds, ReaderRemoves, TimerCloses, CheckActive, CloseSent, Reply, Replied
<1>2. dropped' \subseteq Conn
  BY DEF ReaderEnds, ReaderRemoves, TimerCloses, CheckActive, CloseSent, Reply, Replied, CastInv, Types
<1>3. UNCHANGED <<news, search>>
  BY DEF ReaderEnds, ReaderRemoves, TimerCloses, CheckActive, CloseSent, Reply, Replied
<1> QED BY <1>1, <1>2, <1>3, QuietKeeps DEF news, search, CastInv, Types

\* What is learnt is due once.
LEMMA LearnCasts ==
  ASSUME CastInv, NEW i \in Item, Learn(i), UNCHANGED <<slot, dropped, seen, cast, search>>,
         knows' \in [Conn -> SUBSET Item], \A c \in Conn : knows[c] \subseteq knows'[c]
  PROVE  CastInv'
<1>1. known' = known \union {i} /\ due' = due \union ({i} \ known)
  BY DEF Learn
<1>2. Types'
  BY <1>1 DEF CastInv, Types, search
<1>3. ASSUME NEW j \in Item PROVE Told(j)'
  <2>1. Told(j) /\ seen'[j] = seen[j] /\ cast'[j] = cast[j] /\ cast[j] \in Seq(Conn)
    BY DEF CastInv, Types
  <2>2. j \in due' => j \in known' /\ seen[j] = None /\ cast[j] = None
    BY <1>1, <2>1 DEF Told, CastInv, Types
  <2>3. \A m \in DOMAIN cast[j] : j \in knows'[cast[j][m]]
    BY <2>1 DEF Told
  <2> QED BY <1>1, <2>1, <2>2, <2>3 DEF Told
<1> QED BY <1>2, <1>3 DEF CastInv

LEMMA ReadCasts ==
  ASSUME Inv, CastInv, NEW i \in Item, ReadBackbones(i)
  PROVE  CastInv'
<1>1. /\ i \in due /\ due' = due \ {i} /\ seen' = [seen EXCEPT ![i] = <<backbones>>]
      /\ UNCHANGED <<slot, dropped, knows, known, cast, found, first>>
  BY DEF ReadBackbones, search
<1>2. backbones \in Seq(Conn) /\ <<backbones>> # None
  BY DEF Inv, TablesOK, None
<1>3. Types'
  BY <1>1, <1>2 DEF CastInv, Types
<1>4. ASSUME NEW j \in Item PROVE Told(j)'
  BY <1>1, <1>2 DEF CastInv, Types, Told
<1> QED BY <1>3, <1>4 DEF CastInv

LEMMA PickCasts ==
  ASSUME Inv, CastInv, NEW i \in Item, Pick(i)
  PROVE  CastInv'
<1> DEFINE s == Picked(i)
<1>1. /\ seen[i] # None /\ cast' = [cast EXCEPT ![i] = s] /\ seen' = [seen EXCEPT ![i] = None]
      /\ knows' = [c \in Conn |-> IF c \in ToSet(s) THEN knows[c] \union {i} ELSE knows[c]]
      /\ UNCHANGED <<slot, dropped, known, due, found, first>>
  BY DEF Pick, search
<1>2. seen[i][1] \in Seq(Conn) /\ offshoots \in Seq(Conn)
  BY <1>1 DEF CastInv, Types, Inv, TablesOK
<1>3. NoneTwice(s)
  BY <1>2, PickedIs
<1> HIDE DEF s
<1>4. Types'
  BY <1>1, <1>3 DEF CastInv, Types, NoneTwice
<1>5. ASSUME NEW j \in Item PROVE Told(j)'
  <2>1. Told(j) /\ Told(i) /\ cast[j] \in Seq(Conn) /\ DOMAIN cast = Item /\ DOMAIN seen = Item
    BY DEF CastInv, Types
  <2>2. CASE j = i
    <3>1. cast'[j] = s /\ seen'[j] = None /\ j \in known' /\ j \notin due'
      BY <1>1, <2>1, <2>2 DEF Told
    <3>2. \A m \in DOMAIN s : s[m] \in Conn /\ s[m] \in ToSet(s)
      BY <1>3 DEF NoneTwice, ToSet
    <3>3. \A m \in DOMAIN s : j \in knows'[s[m]]
      BY <1>1, <2>2, <3>2
    <3> QED BY <1>3, <3>1, <3>3 DEF Told
  <2>3. CASE j # i
    <3>1. cast'[j] = cast[j] /\ seen'[j] = seen[j]
      BY <1>1, <2>1, <2>3
    <3>2. \A c \in Conn : knows[c] \subseteq knows'[c]
      BY <1>1
    <3>3. \A m \in DOMAIN cast[j] : j \in knows'[cast[j][m]]
      BY <2>1, <3>2 DEF Told
    <3> QED BY <1>1, <2>1, <3>1, <3>3 DEF Told
  <2> QED BY <2>2, <2>3
<1> QED BY <1>4, <1>5 DEF CastInv

LEMMA SendCasts ==
  ASSUME CastInv, NEW i \in Item, CastSend(i) \/ CastSent(i) \/ CastLost(i)
  PROVE  CastInv'
<1>1. cast[i] # None /\ cast[i] \in Seq(Conn) /\ Head(cast[i]) \in Conn
  BY DEF CastSend, CastSent, CastLost, CastInv, Types, None
<1>2. UNCHANGED <<dropped, knows, known, due, seen, found, first>>
  BY DEF CastSend, CastSent, CastLost, search, news
<1>3. slot' \in [Conn -> Out \union Item]
  BY <1>1 DEF CastSend, CastSent, CastLost, CastInv, Types, Out
<1>4. cast' = cast \/ cast' = [cast EXCEPT ![i] = Tail(cast[i])]
  BY DEF CastSend, CastSent, CastLost, news
<1>5. CASE cast' = cast
  BY <1>2, <1>3, <1>5, QuietKeeps DEF CastInv, Types
<1>6. CASE cast' = [cast EXCEPT ![i] = Tail(cast[i])]
  <2> DEFINE s == cast[i]
             u == Tail(s)
  <2>1. /\ u \in Seq(Conn) /\ DOMAIN u = 1..(Len(s) - 1) /\ Len(s) \in Nat /\ DOMAIN s = 1..Len(s)
        /\ \A m \in 1..(Len(s) - 1) : u[m] = s[m + 1]
    BY <1>1 DEF None
  <2>2. \A m \in 1..(Len(s) - 1) : m + 1 \in 1..Len(s)
    BY <2>1
  <2>3. Told(i) /\ cast \in [Item -> Seq(Conn)]
    BY DEF CastInv, Types
  <2> HIDE DEF u
  <2>4. NoneTwice(u) /\ \A m \in DOMAIN u : i \in knows[u[m]]
    <3>1. \A m, n \in 1..(Len(s) - 1) : m + 1 = n + 1 => m = n
      BY <2>1
    <3> HIDE DEF s
    <3> QED BY <2>1, <2>2, <2>3, <3>1 DEF Told, NoneTwice, s
  <2>5. Types'
    BY <1>2, <1>3, <1>6, <2>1 DEF CastInv, Types, u
  <2>6. ASSUME NEW j \in Item PROVE Told(j)'
    <3>1. CASE j = i
      <4>1. cast'[i] = u
        BY <1>6, <2>3 DEF u
      <4> QED BY <1>1, <1>2, <2>3, <2>4, <3>1, <4>1 DEF Told
    <3>2. CASE j # i
      <4>1. cast'[j] = cast[j] /\ Told(j)
        BY <1>6, <2>3, <3>2 DEF CastInv
      <4> QED BY <1>2, <4>1 DEF Told
    <3> QED BY <3>1, <3>2
  <2> QED BY <2>5, <2>6 DEF CastInv
<1> QED BY <1>4, <1>5, <1>6

LEMMA InitCasts == ASSUME Init PROVE CastInv
<1>1. Types
  BY DEF Init, Types, Out, None
<1>2. ASSUME NEW i \in Item PROVE Told(i)
  BY DEF Init, Told, NoneTwice, None
<1> QED BY <1>1, <1>2 DEF CastInv

LEMMA StepCasts == ASSUME Inv, CastInv, [Next]_vars PROVE CastInv'
<1>1. ASSUME NEW c \in Conn, Accept(c) \/ DialBoot(c) \/ TryFound(c) PROVE CastInv'
  BY <1>1, ConnectCasts
<1>2. ASSUME NEW c \in Conn,
             \/ ReaderEnds(c) \/ ReaderRemoves(c) \/ TimerCloses(c) \/ CheckActive(c) \/ CloseSent(c)
             \/ Reply(c) \/ Replied(c)
      PROVE  CastInv'
  BY <1>2, SlotCasts
<1>3. ASSUME FindNodes \/ \E c \in Conn : FailFound(c) PROVE CastInv'
  BY <1>3, SearchCasts
<1>4. ASSUME NEW c \in Conn, NEW i \in Item, Hear(c, i) PROVE CastInv'
  <2>1. /\ Learn(i) /\ UNCHANGED <<slot, dropped, seen, cast, search>>
        /\ knows' = [knows EXCEPT ![c] = @ \union {i}]
    BY <1>4 DEF Hear
  <2>2. knows' \in [Conn -> SUBSET Item] /\ \A d \in Conn : knows[d] \subseteq knows'[d]
    BY <2>1 DEF CastInv, Types
  <2> QED BY <2>1, <2>2, LearnCasts
<1>5. ASSUME NEW i \in Item, Submit(i) PROVE CastInv'
  BY <1>5, LearnCasts DEF Submit, CastInv, Types
<1>6. ASSUME NEW i \in Item, ReadBackbones(i) \/ Pick(i) PROVE CastInv'
  BY <1>6, ReadCasts, PickCasts
<1>7. ASSUME NEW i \in Item, CastSend(i) \/ CastSent(i) \/ CastLost(i) PROVE CastInv'
  BY <1>7, SendCasts
<1>8. CASE UNCHANGED vars
  BY <1>8, QuietKeeps DEF vars, news, search, CastInv, Types
<1> QED BY <1>1, <1>2, <1>3, <1>4, <1>5, <1>6, <1>7, <1>8 DEF Next

-----------------------------------------------------------------------------
(* The theorems.                                                            *)

(* No table outgrows its limit.                                             *)
WithinSize == Len(backbones) <= BackbonePeers /\ Len(offshoots) <= OffshootPeers

(* Neither does, although a backbone that falls out of its full table may   *)
(* push an offshoot out of the other.                                       *)
THEOREM TablesWithinSize == Spec => []WithinSize
<1>1. Inv /\ [Next]_vars => Inv'
  BY StepKeeps
<1>2. Inv => WithinSize
  BY DEF Inv, TablesOK, WithinSize
<1> QED BY <1>1, <1>2, InitInv, PTL DEF Spec

(* Both tables stay sorted by distance: the first backbone is the nearest,  *)
(* and an insertion gives up the farthest.                                  *)
THEOREM TablesNearestFirst == Spec => []NearestFirst
<1>1. Inv /\ [Next]_vars => Inv'
  BY StepKeeps
<1>2. Inv => NearestFirst
  BY DEF Inv, TablesOK
<1> QED BY <1>1, <1>2, InitInv, PTL DEF Spec

(* All backbones can be dialled, and no two have one key or one address.    *)
THEOREM BackbonesAlwaysDiffer == Spec => []BackbonesDiffer
<1>1. Inv /\ [Next]_vars => Inv'
  BY StepKeeps
<1>2. Inv => BackbonesDiffer
  BY DEF Inv, TablesOK
<1> QED BY <1>1, <1>2, InitInv, PTL DEF Spec

(* Whatever connections a node has, it never has more entries in the tables *)
(* than tasks that will still take one out, so none stays for ever.         *)
THEOREM NoEntryIsOrphaned == Spec => []NoOrphanEntry
<1>1. Inv /\ [Next]_vars => Inv'
  BY StepKeeps
<1>2. Inv => NoOrphanEntry
  BY DEF Inv, NoOrphanEntry
<1> QED BY <1>1, <1>2, InitInv, PTL DEF Spec

(* Every variable keeps its type: no table outgrows its limit, no write     *)
(* half is anywhere but in its slot or with one that sends, and a broadcast *)
(* holds only connections there have been.                                  *)
THEOREM PeersTypeCorrect == Spec => []TypeOK
<1>1. Inv /\ CastInv /\ [Next]_vars => (Inv /\ CastInv)'
  BY StepKeeps, StepCasts
<1>2. Inv /\ CastInv => TypeOK
  <2> SUFFICES ASSUME Inv, CastInv PROVE TypeOK
    OBVIOUS
  <2>1. ASSUME NEW i \in Item
        PROVE  Len(seen[i]) <= 1 /\ \A x \in ToSet(seen[i]) : x \in Seq(Conn)
    <3>1. CASE seen[i] = None
      BY <3>1 DEF None, ToSet
    <3>2. CASE seen[i] # None
      <4>1. PICK b \in Seq(Conn) : seen[i] = <<b>>
        BY <3>2 DEF CastInv, Types
      <4> QED BY <4>1 DEF ToSet
    <3> QED BY <3>1, <3>2
  <2> QED BY <2>1 DEF TypeOK, Inv, CastInv, Types, TablesOK
<1>3. Init => Inv /\ CastInv
  BY InitInv, InitCasts
<1> QED BY <1>1, <1>2, <1>3, PTL DEF Spec

(* However broadcasts, admissions, removals and searches interleave, no     *)
(* peer is sent an item twice: it is noted before the next is looked at,    *)
(* and what is known is never broadcast again.                              *)
THEOREM NoneIsToldTwice == Spec => []TellsOnce
<1>1. Inv /\ CastInv /\ [Next]_vars => (Inv /\ CastInv)'
  BY StepKeeps, StepCasts
<1>2. Inv /\ CastInv => TellsOnce
  <2> SUFFICES ASSUME CastInv, NEW i \in Item
               PROVE  /\ \A m, n \in DOMAIN cast[i] : cast[i][m] = cast[i][n] => m = n
                      /\ \A m \in DOMAIN cast[i] :
                           i \in knows[cast[i][m]] /\ seen[i] = None /\ i \notin due
    BY DEF TellsOnce
  <2>1. Told(i)
    BY DEF CastInv
  <2>2. \A m \in DOMAIN cast[i] : cast[i] # None
    BY DEF None
  <2> QED BY <2>1, <2>2 DEF Told, NoneTwice
<1>3. Init => Inv /\ CastInv
  BY InitInv, InitCasts
<1> QED BY <1>1, <1>2, <1>3, PTL DEF Spec
=============================================================================
