---------------------------- MODULE LedgerProofs ----------------------------
(* What holds of every ledger, on every branch and in the middle of every    *)
(* block or test: its numbers are unsigned, no HAC is made or lost, and the  *)
(* places that say who owns a diamond agree.                                 *)
EXTENDS Ledger, FiniteSetTheorems, SequenceTheorems, WellFoundedInduction, TLAPS

-----------------------------------------------------------------------------
(* Induction. The library's takes a predicate; here it is over a set, of the *)
(* numbers or of the subsets for which something holds.                      *)

LEMMA LeastNat ==
  ASSUME NEW T \in SUBSET Nat, T # {}
  PROVE  \E n \in T : \A m \in T : n <= m
<1>1. PICK n \in T : \A m \in T : ~(<<m, n>> \in OpToRel(<, Nat))
  BY NatLessThanWellFounded, WFMin
<1>2. \A m \in T : ~(m < n)
  BY <1>1 DEF OpToRel
<1> QED BY <1>2

LEMMA UpTo ==
  ASSUME NEW n \in Nat, NEW T \in SUBSET (0..n), 0 \in T,
         \A i \in T : i < n => i + 1 \in T
  PROVE  T = 0..n
<1> SUFFICES ASSUME (0..n) \ T # {} PROVE FALSE
  OBVIOUS
<1>1. PICK i \in (0..n) \ T : \A j \in (0..n) \ T : i <= j
  <2>1. (0..n) \ T \in SUBSET Nat
    OBVIOUS
  <2> QED BY <2>1, LeastNat
<1>2. i - 1 \in T /\ i - 1 < n
  BY <1>1
<1> QED BY <1>1, <1>2

(* What holds of the empty set, and of a set whenever it holds of all that   *)
(* have one element less, holds of every subset of a finite set.             *)
LEMMA BySubsets ==
  ASSUME NEW S, IsFiniteSet(S), NEW F, {} \in F,
         \A T \in SUBSET S : T # {} /\ (\A x \in T : T \ {x} \in F) => T \in F
  PROVE  \A T \in SUBSET S : T \in F
<1> DEFINE Others == {Cardinality(T) : T \in (SUBSET S) \ F}
<1>1. \A T \in SUBSET S : IsFiniteSet(T) /\ Cardinality(T) \in Nat
  BY FS_Subset, FS_CardinalityType
<1> SUFFICES ASSUME NEW T0 \in (SUBSET S) \ F PROVE FALSE
  OBVIOUS
<1>2. PICK n \in Others : \A m \in Others : n <= m
  <2>1. Others \in SUBSET Nat /\ Others # {}
    BY <1>1
  <2> HIDE DEF Others
  <2> QED BY <2>1, LeastNat
<1>3. PICK T \in (SUBSET S) \ F : Cardinality(T) = n
  BY <1>2
<1>4. \A x \in T : Cardinality(T \ {x}) = n - 1 /\ n \in Nat
  BY <1>1, <1>3, FS_RemoveElement
<1>5. \A x \in T : T \ {x} \in F
  BY <1>2, <1>4
<1> QED BY <1>3, <1>5

-----------------------------------------------------------------------------
(* Sums.  SumFunction is a fold: a recursive function on the subsets of the  *)
(* domain, which adds one value after the other.                             *)

Pick(s) == CHOOSE x \in s : TRUE

\* The function that the fold over T defines.
Adds(f, T, g) ==
  g = [s \in SUBSET T |-> IF s = {} THEN 0 ELSE f[Pick(s)] + g[s \ {Pick(s)}]]

SumOn(f, T) == SumFunctionOnSet(f, T)

(* Any such function gives the sum.                                          *)
LEMMA SumOnIs ==
  ASSUME NEW f, NEW T, NEW g, Adds(f, T, g)
  PROVE  \E h : Adds(f, T, h) /\ SumOn(f, T) = h[T]
<1> DEFINE h == CHOOSE h : Adds(f, T, h)
<1>1. Adds(f, T, h)
  OBVIOUS
<1>2. SumOn(f, T) = h[T]
  BY Zenon DEF SumOn, SumFunctionOnSet, FoldFunctionOnSet, MapThenFoldSet, Adds, Pick
<1> QED BY <1>1, <1>2

LEMMA PickIs ==
  ASSUME NEW s, s # {} PROVE Pick(s) \in s
BY DEF Pick

(* What it gives for a set depends on the values in that set only.           *)
LEMMA AddsSame ==
  ASSUME NEW S, IsFiniteSet(S), NEW f, NEW g, NEW h, NEW k, NEW T, NEW U,
         Adds(f, T, g), Adds(h, U, k), S \subseteq T, S \subseteq U,
         \A x \in S : f[x] = h[x]
  PROVE  g[S] = k[S]
<1> DEFINE F == {s \in SUBSET S : g[s] = k[s]}
<1>1. \A s \in SUBSET S :
        /\ g[s] = IF s = {} THEN 0 ELSE f[Pick(s)] + g[s \ {Pick(s)}]
        /\ k[s] = IF s = {} THEN 0 ELSE h[Pick(s)] + k[s \ {Pick(s)}]
  BY DEF Adds
<1>2. {} \in F
  BY <1>1
<1>3. ASSUME NEW s \in SUBSET S, s # {}, \A x \in s : s \ {x} \in F
      PROVE  s \in F
  BY <1>1, <1>3, PickIs
<1> HIDE DEF F
<1>4. \A s \in SUBSET S : s # {} /\ (\A x \in s : s \ {x} \in F) => s \in F
  BY <1>3
<1>5. \A s \in SUBSET S : s \in F
  BY <1>2, <1>4, BySubsets
<1>6. S \in F
  BY <1>5
<1> QED BY <1>6 DEF F

LEMMA AddsExists ==
  ASSUME NEW S, IsFiniteSet(S), NEW f
  PROVE  \E g : Adds(f, S, g)
<1> DEFINE Sum(g, s) == IF s = {} THEN 0 ELSE f[Pick(s)] + g[s \ {Pick(s)}]
           Right(g, n) == \A s \in SUBSET S : Cardinality(s) <= n => g[s] = Sum(g, s)
           Sizes == {n \in Nat : \E g : g = [s \in SUBSET S |-> g[s]] /\ Right(g, n)}
<1>1. \A s \in SUBSET S : IsFiniteSet(s) /\ Cardinality(s) \in Nat /\ (Cardinality(s) = 0 <=> s = {})
  BY FS_Subset, FS_CardinalityType, FS_EmptySet
<1>2. \A s \in SUBSET S : s # {} =>
        /\ Pick(s) \in s /\ Cardinality(s \ {Pick(s)}) = Cardinality(s) - 1
        /\ s \ {Pick(s)} \in SUBSET S
  BY <1>1, PickIs, FS_RemoveElement
<1>3. 0 \in Sizes
  <2> DEFINE g == [s \in SUBSET S |-> 0]
  <2>1. g = [s \in SUBSET S |-> g[s]] /\ Right(g, 0)
    BY <1>1
  <2> QED BY <2>1
<1>4. \A n \in Sizes : n + 1 \in Sizes
  <2> SUFFICES ASSUME NEW n \in Nat, NEW g, Right(g, n)
               PROVE  n + 1 \in Sizes
    OBVIOUS
  <2> DEFINE h == [s \in SUBSET S |-> Sum(g, s)]
  <2>1. \A s \in SUBSET S : Cardinality(s) <= n => h[s] = g[s]
    OBVIOUS
  <2>2. ASSUME NEW s \in SUBSET S, Cardinality(s) <= n + 1
        PROVE  h[s] = Sum(h, s)
    <3>1. ASSUME s # {} PROVE h[s \ {Pick(s)}] = g[s \ {Pick(s)}]
      <4>1. s \ {Pick(s)} \in SUBSET S /\ Cardinality(s \ {Pick(s)}) <= n
        BY <1>1, <1>2, <2>2, <3>1
      <4> HIDE DEF h
      <4> QED BY <2>1, <4>1
    <3> QED BY <3>1
  <2>3. h = [s \in SUBSET S |-> h[s]] /\ Right(h, n + 1)
    BY <2>2
  <2> HIDE DEF h, Right
  <2> QED BY <2>3
<1> HIDE DEF Sizes
<1>5. Cardinality(S) \in Sizes
  <2>1. PICK n \in Nat : n = Cardinality(S)
    BY <1>1
  <2> DEFINE T1 == (0..n) \intersect Sizes
  <2>2. T1 \in SUBSET (0..n) /\ 0 \in T1
    BY <1>3
  <2>3. ASSUME NEW i \in T1, i < n PROVE i + 1 \in T1
    <3>1. i + 1 \in Sizes
      BY <1>4
    <3> QED BY <2>3, <3>1
  <2>4. T1 = 0..n
    BY <2>2, <2>3, UpTo
  <2> QED BY <2>1, <2>4
<1>6. PICK g : g = [s \in SUBSET S |-> g[s]] /\ Right(g, Cardinality(S))
  BY <1>5 DEF Sizes
<1>7. \A s \in SUBSET S : Cardinality(s) <= Cardinality(S)
  BY FS_Subset
<1>8. g = [s \in SUBSET S |-> Sum(g, s)]
  BY <1>6, <1>7
<1> QED BY <1>8 DEF Adds

(* The sum over a finite set: of none, of one more, and of other values.     *)
LEMMA SumOnSame ==
  ASSUME NEW S, IsFiniteSet(S), NEW f, NEW h, \A x \in S : f[x] = h[x]
  PROVE  SumOn(f, S) = SumOn(h, S)
<1>1. PICK g : Adds(f, S, g) /\ SumOn(f, S) = g[S]
  BY AddsExists, SumOnIs
<1>2. PICK k : Adds(h, S, k) /\ SumOn(h, S) = k[S]
  BY AddsExists, SumOnIs
<1> QED BY <1>1, <1>2, AddsSame

LEMMA SumOnEmpty ==
  ASSUME NEW f
  PROVE  SumOn(f, {}) = 0
<1>1. PICK g : Adds(f, {}, g) /\ SumOn(f, {}) = g[{}]
  BY AddsExists, SumOnIs, FS_EmptySet
<1> QED BY <1>1 DEF Adds

LEMMA SumOnPick ==
  ASSUME NEW S, IsFiniteSet(S), S # {}, NEW f
  PROVE  SumOn(f, S) = f[Pick(S)] + SumOn(f, S \ {Pick(S)})
<1> DEFINE U == S \ {Pick(S)}
<1>1. PICK g : Adds(f, S, g) /\ SumOn(f, S) = g[S]
  BY AddsExists, SumOnIs
<1>2. IsFiniteSet(U)
  BY FS_Subset
<1>3. PICK k : Adds(f, U, k) /\ SumOn(f, U) = k[U]
  BY <1>2, AddsExists, SumOnIs
<1>4. g[S] = f[Pick(S)] + g[U]
  BY <1>1 DEF Adds
<1>5. g[U] = k[U]
  BY <1>1, <1>2, <1>3, AddsSame
<1> QED BY <1>1, <1>3, <1>4, <1>5

(* The order does not matter: the sum is any one of the values and the sum   *)
(* of the others.                                                            *)
LEMMA SumOnStep ==
  ASSUME NEW S, IsFiniteSet(S), NEW f, \A x \in S : f[x] \in Int
  PROVE  /\ SumOn(f, S) \in Int
         /\ \A x \in S : SumOn(f, S) = f[x] + SumOn(f, S \ {x})
<1> DEFINE F == {s \in SUBSET S : /\ SumOn(f, s) \in Int
                                  /\ \A x \in s : /\ SumOn(f, s \ {x}) \in Int
                                                  /\ SumOn(f, s) = f[x] + SumOn(f, s \ {x})}
<1>1. {} \in F
  BY SumOnEmpty
<1>2. ASSUME NEW s \in SUBSET S, s # {}, \A x \in s : s \ {x} \in F
      PROVE  s \in F
  <2> DEFINE p == Pick(s)
  <2>1. p \in s /\ IsFiniteSet(s)
    BY <1>2, PickIs, FS_Subset
  <2>2. SumOn(f, s) = f[p] + SumOn(f, s \ {p})
    BY <1>2, <2>1, SumOnPick
  <2>3. ASSUME NEW x \in s, x # p
        PROVE  SumOn(f, s) = f[x] + SumOn(f, s \ {x})
    <3>1. (s \ {p}) \ {x} = (s \ {x}) \ {p}
      OBVIOUS
    <3>2. SumOn(f, s \ {p}) = f[x] + SumOn(f, (s \ {p}) \ {x}) /\ SumOn(f, (s \ {p}) \ {x}) \in Int
      BY <1>2, <2>1, <2>3
    <3>3. SumOn(f, s \ {x}) = f[p] + SumOn(f, (s \ {x}) \ {p}) /\ SumOn(f, s \ {x}) \in Int
      BY <1>2, <2>1, <2>3
    <3>4. SumOn(f, s \ {x}) = f[p] + SumOn(f, (s \ {p}) \ {x})
      BY <3>1, <3>3
    <3>5. f[x] \in Int /\ f[p] \in Int
      BY <2>1, <2>3
    <3>6. \A a, b, c \in Int : a + (b + c) = b + (a + c)
      OBVIOUS
    <3> QED BY <2>2, <3>2, <3>4, <3>5, <3>6
  <2>4. SumOn(f, s) \in Int
    BY <1>2, <2>1, <2>2
  <2> QED BY <1>2, <2>2, <2>3, <2>4
<1> HIDE DEF F
<1>3. \A s \in SUBSET S : s # {} /\ (\A x \in s : s \ {x} \in F) => s \in F
  BY <1>2
<1>4. \A s \in SUBSET S : s \in F
  BY <1>1, <1>3, BySubsets
<1>5. S \in F
  BY <1>4
<1> QED BY <1>5 DEF F

(* The same for functions: what the ledger adds up.                          *)
LEMMA SumIs ==
  ASSUME NEW f
  PROVE  SumFunction(f) = SumOn(f, DOMAIN f)
BY DEF SumFunction, SumOn

LEMMA SumType ==
  ASSUME NEW S, IsFiniteSet(S), NEW f \in [S -> Int]
  PROVE  SumFunction(f) \in Int
BY SumIs, SumOnStep

LEMMA SumNat ==
  ASSUME NEW S, IsFiniteSet(S), NEW f \in [S -> Nat]
  PROVE  SumFunction(f) \in Nat
<1> DEFINE F == {s \in SUBSET S : SumOn(f, s) \in Nat}
<1>1. {} \in F
  BY SumOnEmpty
<1>2. \A s \in SUBSET S : s # {} /\ (\A x \in s : s \ {x} \in F) => s \in F
  <2> SUFFICES ASSUME NEW s \in SUBSET S, NEW x \in s, s \ {x} \in F
               PROVE  SumOn(f, s) \in Nat
    OBVIOUS
  <2> DEFINE r == SumOn(f, s \ {x})
  <2>1. r \in Nat /\ f[x] \in Nat
    OBVIOUS
  <2> HIDE DEF F
  <2>2. f \in [S -> Int] /\ IsFiniteSet(s)
    BY FS_Subset
  <2>3. SumOn(f, s) = f[x] + r
    BY <2>2, SumOnStep
  <2> QED BY <2>1, <2>3
<1> HIDE DEF F
<1>3. \A s \in SUBSET S : s \in F
  BY <1>1, <1>2, BySubsets
<1>4. S \in F
  BY <1>3
<1> QED BY <1>4, SumIs DEF F

LEMMA SumEmpty ==
  ASSUME NEW f, DOMAIN f = {}
  PROVE  SumFunction(f) = 0
BY SumIs, SumOnEmpty

(* One value more.                                                           *)
LEMMA SumMore ==
  ASSUME NEW S, IsFiniteSet(S), NEW f \in [S -> Int], NEW x, x \notin S,
         NEW g \in [S \union {x} -> Int], \A y \in S : g[y] = f[y]
  PROVE  SumFunction(g) = SumFunction(f) + g[x]
<1>1. IsFiniteSet(S \union {x}) /\ (S \union {x}) \ {x} = S
  BY FS_AddElement
<1>2. SumOn(g, S \union {x}) = g[x] + SumOn(g, S)
  BY <1>1, SumOnStep
<1>3. SumOn(g, S) = SumOn(f, S) /\ SumOn(f, S) \in Int
  BY SumOnSame, SumOnStep
<1> QED BY <1>2, <1>3, SumIs

(* Another value for one.                                                    *)
LEMMA SumOther ==
  ASSUME NEW S, IsFiniteSet(S), NEW f \in [S -> Int], NEW x \in S,
         NEW g \in [S -> Int], \A y \in S \ {x} : g[y] = f[y]
  PROVE  SumFunction(g) = SumFunction(f) - f[x] + g[x]
<1>1. IsFiniteSet(S \ {x})
  BY FS_Subset
<1>2. /\ SumOn(g, S) = g[x] + SumOn(g, S \ {x})
      /\ SumOn(f, S) = f[x] + SumOn(f, S \ {x})
  BY SumOnStep
<1>3. SumOn(g, S \ {x}) = SumOn(f, S \ {x}) /\ SumOn(f, S \ {x}) \in Int
  BY <1>1, SumOnSame, SumOnStep
<1>4. f[x] \in Int /\ g[x] \in Int
  OBVIOUS
<1> QED BY <1>2, <1>3, <1>4, SumIs

-----------------------------------------------------------------------------
(* Lists of diamonds.  The loop of Drop is a recursive function of the place *)
(* it has come to; it exists by the same argument as that of a sum.          *)

Drops(list, dias, g) ==
  g = [i \in 0..Len(list) |->
         IF i = 0 THEN [rest |-> ToSet(dias), left |-> 0, list |-> list]
         ELSE DropAt(g[i - 1], i, list[i])]

LEMMA DropsExists ==
  ASSUME NEW list, Len(list) \in Nat, NEW dias
  PROVE  \E g : Drops(list, dias, g)
<1> DEFINE n == Len(list)
           Made(g, i) == IF i = 0 THEN [rest |-> ToSet(dias), left |-> 0, list |-> list]
                         ELSE DropAt(g[i - 1], i, list[i])
           Right(g, k) == \A i \in 0..k : g[i] = Made(g, i)
           Places == {k \in 0..n : \E g : g = [i \in 0..n |-> g[i]] /\ Right(g, k)}
<1>1. 0 \in Places
  <2> DEFINE g == [i \in 0..n |-> [rest |-> ToSet(dias), left |-> 0, list |-> list]]
  <2>1. g = [i \in 0..n |-> g[i]] /\ Right(g, 0)
    OBVIOUS
  <2>2. 0 \in 0..n
    OBVIOUS
  <2> HIDE DEF g, Right
  <2> QED BY <2>1, <2>2
<1>2. ASSUME NEW k \in Places, k < n PROVE k + 1 \in Places
  <2>1. PICK g : Right(g, k)
    OBVIOUS
  <2> DEFINE h == [i \in 0..n |-> Made(g, i)]
  <2>2. \A i \in 0..k : h[i] = g[i]
    BY <1>2, <2>1
  <2>3. ASSUME NEW i \in 0..(k + 1) PROVE h[i] = Made(h, i)
    <3>1. CASE i = 0
      BY <3>1
    <3>2. CASE i # 0
      <4>1. i - 1 \in 0..k /\ i \in 0..n
        BY <1>2, <3>2
      <4>2. h[i - 1] = g[i - 1]
        BY <2>2, <4>1
      <4>3. h[i] = Made(g, i)
        BY <4>1
      <4> HIDE DEF h
      <4> QED BY <3>2, <4>2, <4>3
    <3> QED BY <3>1, <3>2
  <2>4. h = [i \in 0..n |-> h[i]] /\ Right(h, k + 1)
    BY <2>3
  <2>5. k + 1 \in 0..n
    BY <1>2
  <2> HIDE DEF h, Right
  <2> QED BY <2>4, <2>5
<1>3. n \in Places
  <2>1. Places \in SUBSET (0..n) /\ n \in Nat
    OBVIOUS
  <2> HIDE DEF Places
  <2>2. Places = 0..n
    BY <1>1, <1>2, <2>1, UpTo
  <2> QED BY <2>1, <2>2
<1>4. PICK g : g = [i \in 0..n |-> g[i]] /\ Right(g, n)
  BY <1>3
<1>5. g = [i \in 0..n |-> Made(g, i)]
  BY <1>4
<1> QED BY <1>5 DEF Drops

LEMMA DropIs ==
  ASSUME NEW list, Len(list) \in Nat, NEW dias
  PROVE  \E g : /\ Drops(list, dias, g)
                /\ Drop(list, dias) =
                     [found |-> g[Len(list)].left,
                      list |-> SubSeq(g[Len(list)].list, g[Len(list)].left + 1, Len(list))]
<1> DEFINE g == CHOOSE g : Drops(list, dias, g)
<1>1. Drops(list, dias, g)
  BY DropsExists
<1> QED BY <1>1 DEF Drop, Drops

\* What is left of the list at place i: the part behind the holes, whose names differ
\* and are those not yet taken out; up to i nothing is left to take.
DropInv(list, dias, i, r) ==
  /\ DOMAIN r = {"rest", "left", "list"}
  /\ r.rest \subseteq ToSet(dias)
  /\ r.left \in 0..i
  /\ r.list \in Seq(Diamond) /\ Len(r.list) = Len(list)
  /\ \A j \in (i + 1)..Len(list) : r.list[j] = list[j]
  /\ \A j \in 1..i : list[j] \notin r.rest
  /\ \A j, k \in (r.left + 1)..Len(list) : r.list[j] = r.list[k] => j = k
  /\ {r.list[j] : j \in (r.left + 1)..Len(list)} = ToSet(list) \ (ToSet(dias) \ r.rest)

LEMMA DropAtKeeps ==
  ASSUME NEW list \in Seq(Diamond), IsInjective(list), NEW dias,
         NEW i \in 1..Len(list), NEW r, DropInv(list, dias, i - 1, r)
  PROVE  DropInv(list, dias, i, DropAt(r, i, list[i]))
<1> DEFINE n == Len(list)
           d == list[i]
<1>0. n \in Nat /\ i \in Nat /\ r.left \in Nat /\ r.left < i /\ d \in ToSet(list) /\ list \in [1..n -> Diamond]
  BY DEF DropInv, ToSet
<1>1. CASE d \notin r.rest
  BY <1>0, <1>1 DEF DropInv, DropAt
<1>2. CASE d \in r.rest
  <2> DEFINE q == DropAt(r, i, d)
             m == r.left + 1
  <2>1. q = [rest |-> r.rest \ {d}, left |-> m, list |-> [r.list EXCEPT ![i] = r.list[m]]]
    BY <1>2 DEF DropAt
  <2>2. /\ r.list \in [1..n -> Diamond] /\ Len(r.list) = n
        /\ i \in m..n /\ m \in 1..n /\ m \in 1..i
    BY <1>0 DEF DropInv
  <2>3. r.list[i] = d
    BY <1>0 DEF DropInv
  <2>4. q.list \in Seq(Diamond) /\ Len(q.list) = n
    BY <2>1, <2>2 DEF DropInv
  <2>5. /\ q.list[i] = r.list[m]
        /\ \A j \in 1..n : j # i => q.list[j] = r.list[j]
    BY <2>1, <2>2
  <2>6. \A j, k \in m..n : r.list[j] = r.list[k] => j = k
    BY DEF DropInv
  <2>7. \A j, k \in (m + 1)..n : q.list[j] = q.list[k] => j = k
    <3> SUFFICES ASSUME NEW j \in (m + 1)..n, NEW k \in (m + 1)..n, q.list[j] = q.list[k], j # k
                 PROVE  FALSE
      OBVIOUS
    <3>1. j \in 1..n /\ k \in 1..n /\ j \in m..n /\ k \in m..n /\ m \in m..n /\ j # m /\ k # m
      BY <1>0, <2>2
    <3> HIDE DEF q
    <3>2. CASE j # i /\ k # i
      BY <2>5, <2>6, <3>1, <3>2
    <3>3. CASE j = i
      BY <2>5, <2>6, <3>1, <3>3
    <3>4. CASE k = i
      BY <2>5, <2>6, <3>1, <3>4
    <3> QED BY <3>2, <3>3, <3>4
  <2>8. {q.list[j] : j \in (m + 1)..n} = {r.list[j] : j \in m..n} \ {d}
    <3>1. ASSUME NEW j \in (m + 1)..n
          PROVE  q.list[j] \in {r.list[k] : k \in m..n} \ {d}
      <4>1. j \in 1..n /\ j \in m..n /\ j # m /\ i \in m..n /\ m \in m..n
        BY <1>0, <2>2
      <4> HIDE DEF q
      <4>2. CASE j = i
        BY <2>3, <2>5, <2>6, <4>1, <4>2
      <4>3. CASE j # i
        BY <2>3, <2>5, <2>6, <4>1, <4>3
      <4> QED BY <4>2, <4>3
    <3>2. ASSUME NEW j \in m..n, r.list[j] # d
          PROVE  r.list[j] \in {q.list[k] : k \in (m + 1)..n}
      <4>1. CASE j = m
        <5>1. i \in (m + 1)..n /\ q.list[i] = r.list[j]
          BY <1>0, <2>2, <2>3, <2>5, <3>2, <4>1
        <5> QED BY <5>1
      <4>2. CASE j # m
        <5>1. j \in (m + 1)..n /\ j # i /\ j \in 1..n
          BY <1>0, <2>2, <2>3, <3>2, <4>2
        <5>2. q.list[j] = r.list[j]
          BY <2>5, <5>1
        <5> QED BY <5>1, <5>2
      <4> QED BY <4>1, <4>2
    <3> QED BY <3>1, <3>2
  <2>9. ToSet(list) \ (ToSet(dias) \ q.rest) = (ToSet(list) \ (ToSet(dias) \ r.rest)) \ {d}
    BY <1>2, <2>1 DEF DropInv
  <2>10. \A j \in (i + 1)..n : q.list[j] = list[j]
    <3> SUFFICES ASSUME NEW j \in (i + 1)..n PROVE q.list[j] = list[j]
      OBVIOUS
    <3>1. j \in 1..n /\ j # i /\ j \in ((i - 1) + 1)..n
      BY <1>0
    <3>2. r.list[j] = list[j]
      BY <3>1 DEF DropInv
    <3> HIDE DEF q
    <3> QED BY <2>5, <3>1, <3>2
  <2>11. \A j \in 1..i : list[j] \notin q.rest
    BY <1>0, <2>1 DEF DropInv
  <2>12. /\ DOMAIN q = {"rest", "left", "list"} /\ q.rest \subseteq ToSet(dias)
         /\ q.left = m /\ q.left \in 0..i
    BY <1>0, <2>1, <2>2 DEF DropInv
  <2>13. {r.list[j] : j \in m..n} = ToSet(list) \ (ToSet(dias) \ r.rest)
    BY DEF DropInv
  <2> HIDE DEF q
  <2>14. DropInv(list, dias, i, q)
    BY <2>4, <2>7, <2>8, <2>9, <2>10, <2>11, <2>12, <2>13 DEF DropInv
  <2> QED BY <2>14 DEF q
<1> QED BY <1>1, <1>2

(* Drop takes out the names, whatever their places, and nothing else, and    *)
(* keeps the others apart.                                                   *)
LEMMA DropFacts ==
  ASSUME NEW list \in Seq(Diamond), IsInjective(list), NEW dias,
         ToSet(dias) \subseteq ToSet(list)
  PROVE  LET end == Drop(list, dias) IN
         /\ end.found \in Nat /\ end.found <= Len(list)
         /\ end.list \in Seq(Diamond) /\ Len(end.list) = Len(list) - end.found
         /\ IsInjective(end.list)
         /\ ToSet(end.list) = ToSet(list) \ ToSet(dias)
<1> DEFINE n == Len(list)
<1>0. n \in Nat /\ list \in [1..n -> Diamond]
  OBVIOUS
<1>1. PICK g : /\ Drops(list, dias, g)
               /\ Drop(list, dias) = [found |-> g[n].left,
                                      list |-> SubSeq(g[n].list, g[n].left + 1, n)]
  BY <1>0, DropIs
<1> DEFINE Places == {i \in 0..n : DropInv(list, dias, i, g[i])}
<1>2. 0 \in Places
  <2>1. g[0] = [rest |-> ToSet(dias), left |-> 0, list |-> list] /\ 0 \in 0..n
    BY <1>0, <1>1 DEF Drops
  <2>2. \A j, k \in 1..n : list[j] = list[k] => j = k
    BY <1>0 DEF IsInjective
  <2>3. {list[j] : j \in 1..n} = ToSet(list)
    BY <1>0 DEF ToSet
  <2>4. DropInv(list, dias, 0, g[0])
    BY <1>0, <2>1, <2>2, <2>3 DEF DropInv
  <2> QED BY <2>1, <2>4
<1>3. ASSUME NEW i \in Places, i < n PROVE i + 1 \in Places
  <2>1. g[i + 1] = DropAt(g[i], i + 1, list[i + 1]) /\ i + 1 \in 1..n
    BY <1>0, <1>1, <1>3 DEF Drops
  <2>2. DropInv(list, dias, (i + 1) - 1, g[i])
    BY <1>0
  <2>3. DropInv(list, dias, i + 1, g[i + 1])
    BY <2>1, <2>2, DropAtKeeps
  <2> QED BY <2>1, <2>3
<1>4. n \in Places
  <2>1. Places \in SUBSET (0..n)
    OBVIOUS
  <2> HIDE DEF Places
  <2>2. Places = 0..n
    BY <1>0, <1>2, <1>3, <2>1, UpTo
  <2> QED BY <1>0, <2>2
<1>5. PICK r : r = g[n] /\ DropInv(list, dias, n, r)
  BY <1>4
<1>6. r.rest = {}
  <2>1. \A j \in 1..n : list[j] \notin r.rest
    BY <1>5 DEF DropInv
  <2>2. r.rest \subseteq ToSet(list)
    BY <1>5 DEF DropInv
  <2>3. \A d \in ToSet(list) : \E j \in 1..n : d = list[j]
    BY <1>0 DEF ToSet
  <2> QED BY <2>1, <2>2, <2>3
<1> DEFINE s == SubSeq(r.list, r.left + 1, n)
<1>7. r.left \in 0..n /\ r.list \in Seq(Diamond) /\ Len(r.list) = n
  BY <1>5 DEF DropInv
<1>8. /\ s \in Seq(Diamond) /\ Len(s) = n - r.left
      /\ \A j \in 1..Len(s) : s[j] = r.list[r.left + j]
  <2>1. /\ r.left \in Int /\ n \in Int /\ 0 <= r.left /\ r.left <= n
        /\ \A j \in (r.left + 1)..n : r.list[j] \in Diamond
    BY <1>0, <1>7
  <2>2. /\ s \in Seq(Diamond)
        /\ Len(s) = IF r.left + 1 <= n THEN n - (r.left + 1) + 1 ELSE 0
        /\ \A j \in 1..(n - (r.left + 1) + 1) : s[j] = r.list[(r.left + 1) + j - 1]
    BY <2>1, SubSeqProperties
  <2>3. Len(s) = n - r.left
    BY <2>1, <2>2
  <2>4. \A j \in 1..Len(s) : j \in 1..(n - (r.left + 1) + 1) /\ (r.left + 1) + j - 1 = r.left + j
    BY <2>1, <2>3
  <2> HIDE DEF s
  <2> QED BY <2>2, <2>3, <2>4
<1>9. /\ \A j, k \in (r.left + 1)..n : r.list[j] = r.list[k] => j = k
      /\ {r.list[j] : j \in (r.left + 1)..n} = ToSet(list) \ ToSet(dias)
  BY <1>5, <1>6 DEF DropInv
<1> HIDE DEF s
<1>10. \A j \in 1..Len(s) : r.left + j \in (r.left + 1)..n
  BY <1>0, <1>7, <1>8
<1>11. IsInjective(s)
  <2> SUFFICES ASSUME NEW j \in 1..Len(s), NEW k \in 1..Len(s), s[j] = s[k] PROVE j = k
    BY <1>8 DEF IsInjective
  <2>1. r.left + j = r.left + k
    BY <1>8, <1>9, <1>10
  <2> QED BY <1>7, <2>1
<1>12. ToSet(s) = {r.list[j] : j \in (r.left + 1)..n}
  <2>1. ASSUME NEW j \in (r.left + 1)..n PROVE r.list[j] \in ToSet(s)
    <3>1. j - r.left \in 1..Len(s) /\ r.left + (j - r.left) = j
      BY <1>0, <1>7, <1>8
    <3>2. r.list[j] = s[j - r.left]
      BY <1>8, <3>1
    <3> QED BY <1>8, <3>1, <3>2 DEF ToSet
  <2>2. ASSUME NEW d \in ToSet(s) PROVE d \in {r.list[j] : j \in (r.left + 1)..n}
    <3>1. PICK j \in 1..Len(s) : d = s[j]
      BY <1>8 DEF ToSet
    <3> QED BY <1>8, <1>10, <3>1
  <2> QED BY <2>1, <2>2
<1>13. Drop(list, dias) = [found |-> r.left, list |-> s]
  BY <1>1, <1>5 DEF s
<1> QED BY <1>0, <1>7, <1>8, <1>9, <1>11, <1>12, <1>13

-----------------------------------------------------------------------------
(* The invariant.                                                            *)

Fields == {"hac", "hacd", "owned", "dia", "latest", "chan", "done", "count", "quiet", "cuts"}
Count == [minted : Nat, bid : Nat, insc : Nat, opening : Int, deposit : Int, interest : Nat]
DiamondRecord == [addr : Addr, insc : Nat, last : Nat]
ChannelRecord(h) ==
  [open : BOOLEAN, since : 0..h, left : Addr, right : Addr, l : Nat, r : Nat, version : Nat]

\* A ledger at height h or below: what its places hold.
Sound(s, h) ==
  /\ DOMAIN s = Fields
  /\ s.hac \in [Addr -> Nat] /\ s.hacd \in [Addr -> Nat]
  /\ s.owned \in [Addr -> Seq(Diamond)]
  /\ s.dia \in [DOMAIN s.dia -> DiamondRecord]
  /\ DOMAIN s.dia \subseteq Diamond /\ IsFiniteSet(DOMAIN s.dia)
  /\ DOMAIN s.latest = {"num", "born"} /\ s.latest.num \in Nat
  /\ s.chan \in [DOMAIN s.chan -> ChannelRecord(h)]
  /\ DOMAIN s.chan \subseteq Channel /\ IsFiniteSet(DOMAIN s.chan)
  /\ s.count \in Count /\ s.quiet \in Nat /\ s.cuts \in Nat

\* The counts of channels are those of the open ones; so they are never negative.
ChannelsCounted(s) ==
  s.count.deposit = Deposited(s) /\ s.count.opening = Cardinality(Open(s))

\* The record of a diamond, the lists and the balances agree.
Listed(s, a) ==
  /\ ToSet(s.owned[a]) = {d \in DOMAIN s.dia : s.dia[d].addr = a}
  /\ Len(s.owned[a]) = s.hacd[a] /\ IsInjective(s.owned[a])
OwnersAgree(s) ==
  /\ \A a \in Addr : Listed(s, a)
  /\ Cardinality(DOMAIN s.dia) = s.latest.num /\ s.count.minted = s.latest.num

Good(s, h, names) ==
  Sound(s, h) /\ ChannelsCounted(s) /\ OwnersAgree(s) /\ DOMAIN s.dia \subseteq names

\* What there is and what was burned, without the interest: only miners add to it.  As
\* the counts have the last two in zhu, it is off by as much as they lost.
Tally(s) == s.count.interest - s.count.bid - s.count.insc
Net(s) == SumFunction(s.hac) + Held(s) + s.quiet - Part * Tally(s)
Most(s) == (Part - 1) * s.cuts
Issued(h) == SumFunction(Alloc) + Reward * h

\* An amount is what there is, but for what the counts lost; and from one ledger to the
\* next there is so much more, but for what they lost between the two.
Spans(s, amt) == Net(s) - Most(s) <= amt /\ amt <= Net(s) + Most(s)
Gives(s, t, amt) ==
  /\ Net(t) - Most(t) <= Net(s) - Most(s) + amt
  /\ Net(s) + Most(s) + amt <= Net(t) + Most(t)

\* The actions not yet executed are the end of a transaction's; if one before them has
\* minted a diamond whose bid has a count, the bid is counted, and not yet paid.
Rest(t, acts) ==
  /\ acts \in Seq(Acts) /\ Len(acts) <= Len(t.acts)
  /\ \A i \in 1..Len(acts) : acts[i] = t.acts[Len(t.acts) - Len(acts) + i]
Unpaid(t, acts) ==
  IF \E i \in 1..(Len(t.acts) - Len(acts)) : t.acts[i].ty = "mint" /\ t.acts[i].num > BurnAbove
  THEN t.fee - t.fee \div 10 ELSE 0
Pending(j) == IF j.todo = <<>> THEN 0 ELSE Unpaid(Head(j.todo), j.acts)

JobFields == {"ty", "block", "height", "state", "todo", "acts", "fees"}
Runs(j) == j.ty \in {"insert", "test"}
Running(j, names) ==
  /\ DOMAIN j = JobFields
  /\ j.height \in Nat /\ j.fees \in Nat /\ j.todo \in Seq(Txs)
  /\ j.todo # <<>> => Rest(Head(j.todo), j.acts)
  /\ Good(j.state, j.height, names)

\* What the miner will get is not yet in the ledger of a block.
Funded(j) ==
  /\ j.block \in Seq(Bodies) /\ j.block # Genesis /\ j.height = Height(j.block)
  /\ Spans(j.state, Issued(j.height) + Pending(j) - j.fees)

\* A test that waits for the height has a ledger of the head, or of what was the head.
Waiting(j, h, names) == Good(j.state, h, names) /\ j.tx \in Txs

TreeInv ==
  /\ tree \subseteq Seq(Bodies) /\ head \in tree /\ DOMAIN ledger = tree
  /\ DOMAIN smelt \subseteq Diamond
  /\ \A b \in tree : Good(ledger[b], Height(b), DOMAIN smelt)
  /\ \A b \in tree \ {Genesis} : Spans(ledger[b], Issued(Height(b)))
JobInv ==
  /\ DOMAIN job = Thread
  /\ \A p \in Thread : Busy(p) => Running(job[p], DOMAIN smelt)
  /\ \A p \in Thread : job[p].ty = "height" => Waiting(job[p], Height(head), DOMAIN smelt)
  /\ Busy(Inserter) => Funded(job[Inserter])
Inv == TreeInv /\ JobInv

-----------------------------------------------------------------------------
(* What the operations on a ledger do.                                       *)

(* An amount in zhu is a number of them, and off by less than one: to_f64,   *)
(* the power of ten and the division each round by some 2^-53 of the amount, *)
(* which is less than a zhu together up to 2^52 zhu, twice what there is of  *)
(* HAC; the cast cuts the rest.  What calculate_interest returns is one too. *)
ConversionsGood ==
  /\ \A amt \in Nat : /\ Zhu(amt) \in Nat
                      /\ Part * Zhu(amt) - amt <= Part - 1
                      /\ amt - Part * Zhu(amt) <= Part - 1
  /\ \A amt, n \in Nat : Grown(amt, n) \in Nat

LEMMA Products ==
  /\ \A a, b \in Int : Part * a \in Int /\ Part * (a + b) = Part * a + Part * b
  /\ \A n \in Nat : (Part - 1) * n \in Nat /\ (Part - 1) * (n + 1) = (Part - 1) * n + (Part - 1)
<1>1. Part \in Nat \ {0}
  BY NumberAssumption
<1> QED BY <1>1

(* What channels hold is a number.                                           *)
LEMMA HeldNat ==
  ASSUME NEW s, NEW h, Sound(s, h)
  PROVE  /\ Held(s) \in Nat /\ IsFiniteSet(Open(s)) /\ Cardinality(Open(s)) \in Nat
         /\ \A c \in Open(s) : s.chan[c].l + s.chan[c].r \in Nat
<1>1. IsFiniteSet(Open(s))
  BY FS_Subset DEF Sound, Open
<1>2. \A c \in Open(s) : s.chan[c].l + s.chan[c].r \in Nat
  <2>1. \A c \in Open(s) : s.chan[c] \in ChannelRecord(h)
    BY DEF Sound, Open
  <2>2. \A c \in Open(s) : s.chan[c].l \in Nat /\ s.chan[c].r \in Nat
    BY <2>1 DEF ChannelRecord
  <2> QED BY <2>2
<1>3. [c \in Open(s) |-> s.chan[c].l + s.chan[c].r] \in [Open(s) -> Nat]
  BY <1>2
<1>4. Held(s) \in Nat
  BY <1>1, <1>3, SumNat DEF Held
<1> QED BY <1>1, <1>2, <1>4, FS_CardinalityType

LEMMA ZhuNat ==
  ASSUME ConversionsGood, NEW amt \in Nat
  PROVE  Zhu(amt) \in Nat
BY DEF ConversionsGood

LEMMA DepositedNat ==
  ASSUME ConversionsGood, NEW s, NEW h, Sound(s, h)
  PROVE  Deposited(s) \in Nat
<1>1. IsFiniteSet(Open(s)) /\ \A c \in Open(s) : s.chan[c].l + s.chan[c].r \in Nat
  BY HeldNat
<1>3. [c \in Open(s) |-> Zhu(s.chan[c].l + s.chan[c].r)] \in [Open(s) -> Nat]
  BY <1>1, ZhuNat
<1> QED BY <1>1, <1>3, SumNat DEF Deposited

LEMMA NetInt ==
  ASSUME NEW s, NEW h, Sound(s, h)
  PROVE  /\ SumFunction(s.hac) \in Nat /\ Net(s) \in Int /\ Most(s) \in Nat
         /\ Tally(s) \in Int /\ Part * Tally(s) \in Int /\ s.quiet \in Nat
<1>1. SumFunction(s.hac) \in Nat
  BY NumberAssumption, SumNat DEF Sound
<1>2. Held(s) \in Nat
  BY HeldNat
<1>3. s.count.bid \in Nat /\ s.count.insc \in Nat /\ s.quiet \in Nat /\ s.count.interest \in Nat
  BY DEF Sound, Count
<1>4. Tally(s) \in Int
  BY <1>3 DEF Tally
<1>5. Part * Tally(s) \in Int
  BY <1>4, Products
<1>6. Most(s) \in Nat
  <2>1. s.cuts \in Nat
    BY DEF Sound
  <2> QED BY <2>1, Products DEF Most
<1> QED BY <1>1, <1>2, <1>3, <1>4, <1>5, <1>6 DEF Net

(* Without a count in zhu nothing is lost.                                   *)
LEMMA GivesExact ==
  ASSUME NEW s, NEW t, NEW h, Sound(s, h), NEW amt \in Int,
         t.cuts = s.cuts, Net(t) = Net(s) + amt
  PROVE  Gives(s, t, amt)
<1>1. Net(s) \in Int /\ Most(s) \in Int /\ Most(t) = Most(s)
  BY NetInt DEF Most
<1> QED BY <1>1 DEF Gives

LEMMA GivesSame ==
  ASSUME NEW s, NEW t, NEW h, Sound(s, h), t.cuts = s.cuts, Net(t) = Net(s)
  PROVE  Gives(s, t, 0)
<1>1. Net(s) \in Int
  BY NetInt
<1> QED BY <1>1, GivesExact

(* An amount and what an operation gives.                                    *)
LEMMA SpansOn ==
  ASSUME NEW s, NEW t, NEW h, NEW k, Sound(s, h), Sound(t, k),
         NEW amt \in Int, NEW more \in Int, Spans(s, amt), Gives(s, t, more)
  PROVE  Spans(t, amt + more)
<1>1. Net(s) \in Int /\ Most(s) \in Int /\ Net(t) \in Int /\ Most(t) \in Int
  BY NetInt
<1> QED BY <1>1 DEF Gives, Spans

(* One amount more in a count.                                               *)
LEMMA GivesCounted ==
  ASSUME ConversionsGood, NEW s, NEW t, NEW h, Sound(s, h), NEW amt \in Nat, NEW given \in Int,
         t.cuts = s.cuts + 1,
         \/ /\ Net(t) = Net(s) + given - amt + Part * Zhu(amt)
         \/ /\ Net(t) = Net(s) + given + amt - Part * Zhu(amt)
  PROVE  Gives(s, t, given)
<1>1. Net(s) \in Int /\ Most(s) \in Int /\ Part - 1 \in Int
  BY NetInt, NumberAssumption
<1>2. Most(t) = Most(s) + (Part - 1)
  <2>1. s.cuts \in Nat
    BY DEF Sound
  <2> QED BY <2>1, Products DEF Most
<1>3. /\ Zhu(amt) \in Nat /\ Part * Zhu(amt) \in Int
      /\ Part * Zhu(amt) - amt <= Part - 1 /\ amt - Part * Zhu(amt) <= Part - 1
  BY Products DEF ConversionsGood
<1> DEFINE z == Part * Zhu(amt)
           c == Part - 1
<1>4. z \in Int /\ c \in Int /\ z - amt <= c /\ amt - z <= c /\ Most(t) = Most(s) + c
  BY <1>1, <1>2, <1>3
<1>5. \/ Net(t) = Net(s) + given - amt + z
      \/ Net(t) = Net(s) + given + amt - z
  OBVIOUS
<1> HIDE DEF z, c
<1> QED BY <1>1, <1>4, <1>5 DEF Gives

LEMMA IssuedMore ==
  ASSUME NEW h \in Nat
  PROVE  Issued(h) \in Nat /\ Issued(h + 1) = Issued(h) + Reward
<1>1. SumFunction(Alloc) \in Nat
  BY NumberAssumption, SumNat
<1>2. Reward \in Nat /\ Reward * h \in Nat /\ Reward * (h + 1) = Reward * h + Reward
  BY NumberAssumption
<1> QED BY <1>1, <1>2 DEF Issued

(* A later height, and more names in the store, change nothing.              *)
LEMMA GoodLater ==
  ASSUME NEW s, NEW h \in Nat, NEW names, Good(s, h, names),
         NEW k \in Nat, h <= k, NEW more, names \subseteq more
  PROVE  Good(s, k, more)
<1>1. 0..h \subseteq 0..k
  OBVIOUS
<1>2. ChannelRecord(h) \subseteq ChannelRecord(k)
  BY <1>1 DEF ChannelRecord
<1>3. Sound(s, k)
  BY <1>2 DEF Good, Sound
<1> QED BY <1>3 DEF Good

(* Only balances change.                                                     *)
LEMMA HacOnly ==
  ASSUME NEW s, NEW h, NEW names, Good(s, h, names), NEW f \in [Addr -> Nat]
  PROVE  /\ Good([s EXCEPT !.hac = f], h, names)
         /\ Net([s EXCEPT !.hac = f]) = Net(s) - SumFunction(s.hac) + SumFunction(f)
         /\ [s EXCEPT !.hac = f].cuts = s.cuts
<1> DEFINE t == [s EXCEPT !.hac = f]
<1>1. /\ DOMAIN t = Fields /\ t.hac = f /\ t.hacd = s.hacd /\ t.owned = s.owned /\ t.dia = s.dia
      /\ t.latest = s.latest /\ t.chan = s.chan /\ t.count = s.count /\ t.quiet = s.quiet
      /\ t.cuts = s.cuts
  BY DEF Good, Sound, Fields
<1> HIDE DEF t
<1>2. Open(t) = Open(s) /\ Held(t) = Held(s) /\ Deposited(t) = Deposited(s)
  BY <1>1 DEF Open, Held, Deposited
<1>3. Sound(t, h)
  BY <1>1 DEF Good, Sound
<1>4. ChannelsCounted(t)
  BY <1>1, <1>2 DEF Good, ChannelsCounted
<1>5. OwnersAgree(t)
  BY <1>1 DEF Good, OwnersAgree, Listed
<1>6. Good(t, h, names)
  BY <1>1, <1>3, <1>4, <1>5 DEF Good
<1>7. Net(t) = Net(s) - SumFunction(s.hac) + SumFunction(t.hac)
  <2>1. /\ SumFunction(s.hac) \in Nat /\ SumFunction(t.hac) \in Nat /\ Held(s) \in Nat
        /\ Part * Tally(s) \in Int /\ s.quiet \in Nat
    BY <1>3, NetInt, HeldNat DEF Good
  <2>2. Tally(t) = Tally(s)
    BY <1>1 DEF Tally
  <2> QED BY <1>1, <1>2, <2>1, <2>2 DEF Net
<1> QED BY <1>1, <1>6, <1>7 DEF t

LEMMA CreditGood ==
  ASSUME NEW s, NEW h, NEW names, Good(s, h, names), NEW a \in Addr, NEW amt \in Nat
  PROVE  /\ Good(Credit(s, a, amt), h, names) /\ Net(Credit(s, a, amt)) = Net(s) + amt
         /\ Credit(s, a, amt).cuts = s.cuts
<1> DEFINE f == [s.hac EXCEPT ![a] = @ + amt]
<1>1. s.hac \in [Addr -> Nat] /\ f \in [Addr -> Nat] /\ f[a] = s.hac[a] + amt /\ DOMAIN s = Fields
  BY DEF Good, Sound
<1>2. Credit(s, a, amt) = [s EXCEPT !.hac = f]
  BY <1>1 DEF Credit, Fields
<1>3. SumFunction(f) = SumFunction(s.hac) - s.hac[a] + f[a]
  BY <1>1, NumberAssumption, SumOther
<1>4. SumFunction(s.hac) \in Nat /\ Net(s) \in Int
  BY NetInt DEF Good
<1>5. SumFunction(f) = SumFunction(s.hac) + amt
  BY <1>1, <1>3, <1>4
<1> HIDE DEF f
<1> QED BY <1>1, <1>2, <1>4, <1>5, HacOnly

LEMMA DebitGood ==
  ASSUME NEW s, NEW h, NEW names, Good(s, h, names), NEW a \in Addr, NEW amt \in Nat, s.hac[a] >= amt
  PROVE  /\ Good(Debit(s, a, amt), h, names) /\ Net(Debit(s, a, amt)) = Net(s) - amt
         /\ Debit(s, a, amt).cuts = s.cuts
<1> DEFINE f == [s.hac EXCEPT ![a] = @ - amt]
<1>1. s.hac \in [Addr -> Nat] /\ f \in [Addr -> Nat] /\ f[a] = s.hac[a] - amt /\ DOMAIN s = Fields
  BY DEF Good, Sound
<1>2. Debit(s, a, amt) = [s EXCEPT !.hac = f]
  BY <1>1 DEF Debit, Fields
<1>3. SumFunction(f) = SumFunction(s.hac) - s.hac[a] + f[a]
  BY <1>1, NumberAssumption, SumOther
<1>4. SumFunction(s.hac) \in Nat /\ Net(s) \in Int
  BY NetInt DEF Good
<1>5. SumFunction(f) = SumFunction(s.hac) - amt /\ SumFunction(f) \in Int
  BY <1>1, <1>3, <1>4
<1> HIDE DEF f
<1> QED BY <1>1, <1>2, <1>4, <1>5, HacOnly

LEMMA TransferredGood ==
  ASSUME NEW s, NEW h, NEW names, Good(s, h, names), NEW x, x.from \in Addr, x.to \in Addr, x.amt \in Nat,
         NEW k, CanTransfer(s, x, k)
  PROVE  /\ Good(Transferred(s, x), h, names) /\ Net(Transferred(s, x)) = Net(s)
         /\ Transferred(s, x).cuts = s.cuts
<1>1. CASE x.from = x.to
  BY <1>1 DEF Transferred
<1>2. CASE x.from # x.to
  <2> DEFINE t == Debit(s, x.from, x.amt)
  <2>1. s.hac[x.from] >= x.amt
    BY <1>2 DEF CanTransfer, CanDebit, Affords
  <2>2. Good(t, h, names) /\ Net(t) = Net(s) - x.amt /\ t.cuts = s.cuts
    BY <2>1, DebitGood
  <2>3. Net(s) \in Int
    BY NetInt DEF Good
  <2> HIDE DEF t
  <2>4. /\ Good(Credit(t, x.to, x.amt), h, names) /\ Net(Credit(t, x.to, x.amt)) = Net(s)
        /\ Credit(t, x.to, x.amt).cuts = s.cuts
    BY <2>2, <2>3, CreditGood
  <2> QED BY <1>2, <2>4 DEF Transferred, t
<1> QED BY <1>1, <1>2

LEMMA JoinFacts ==
  ASSUME NEW S, NEW u \in Seq(S), NEW v \in Seq(S), IsInjective(u), IsInjective(v),
         ToSet(u) \intersect ToSet(v) = {}
  PROVE  /\ u \o v \in Seq(S) /\ Len(u \o v) = Len(u) + Len(v)
         /\ IsInjective(u \o v) /\ ToSet(u \o v) = ToSet(u) \union ToSet(v)
<1> DEFINE w == u \o v
           m == Len(u)
           n == Len(v)
<1>1. /\ m \in Nat /\ n \in Nat /\ w \in Seq(S) /\ Len(w) = m + n
      /\ \A i \in 1..m : i \in 1..(m + n) /\ w[i] = u[i]
      /\ \A i \in 1..n : i + m \in 1..(m + n) /\ w[i + m] = v[i]
      /\ \A i \in 1..(m + n) : i \in 1..m \/ (i - m \in 1..n /\ i > m /\ w[i] = v[i - m])
      /\ DOMAIN u = 1..m /\ DOMAIN v = 1..n /\ DOMAIN w = 1..(m + n)
  OBVIOUS
<1> HIDE DEF w, m, n
<1>2. ASSUME NEW i \in 1..(m + n), NEW j \in 1..(m + n), w[i] = w[j] PROVE i = j
  <2>1. CASE i \in 1..m /\ j \in 1..m
    <3>1. u[i] = u[j]
      BY <1>1, <1>2, <2>1
    <3> QED BY <1>1, <2>1, <3>1 DEF IsInjective
  <2>2. CASE i \in 1..m /\ j \notin 1..m
    <3>1. w[i] \in ToSet(u) /\ w[j] \in ToSet(v)
      BY <1>1, <2>2 DEF ToSet
    <3> QED BY <1>2, <3>1
  <2>3. CASE i \notin 1..m /\ j \in 1..m
    <3>1. w[j] \in ToSet(u) /\ w[i] \in ToSet(v)
      BY <1>1, <2>3 DEF ToSet
    <3> QED BY <1>2, <3>1
  <2>4. CASE i \notin 1..m /\ j \notin 1..m
    <3>1. i - m \in 1..n /\ j - m \in 1..n /\ v[i - m] = v[j - m]
      BY <1>1, <1>2, <2>4
    <3>2. i - m = j - m
      BY <1>1, <3>1 DEF IsInjective
    <3> QED BY <1>1, <3>2
  <2> QED BY <2>1, <2>2, <2>3, <2>4
<1>3. IsInjective(w)
  BY <1>1, <1>2 DEF IsInjective
<1>4. ToSet(w) = ToSet(u) \union ToSet(v)
  <2>1. \A i \in 1..m : u[i] \in ToSet(w)
    BY <1>1 DEF ToSet
  <2>2. \A i \in 1..n : v[i] \in ToSet(w)
    BY <1>1 DEF ToSet
  <2>3. ASSUME NEW i \in 1..(m + n) PROVE w[i] \in ToSet(u) \union ToSet(v)
    <3>1. CASE i \in 1..m
      BY <1>1, <3>1 DEF ToSet
    <3>2. CASE i - m \in 1..n /\ w[i] = v[i - m]
      BY <1>1, <3>2 DEF ToSet
    <3> QED BY <1>1, <3>1, <3>2
  <2>4. /\ \A d \in ToSet(u) : \E i \in 1..m : d = u[i]
        /\ \A d \in ToSet(v) : \E i \in 1..n : d = v[i]
        /\ \A d \in ToSet(w) : \E i \in 1..(m + n) : d = w[i]
    BY <1>1 DEF ToSet
  <2> QED BY <2>1, <2>2, <2>3, <2>4
<1> QED BY <1>1, <1>3, <1>4 DEF w, m, n

(* Channels and what they hold stay when only other places change.           *)
LEMMA ChannelsSame ==
  ASSUME NEW s, NEW t, ChannelsCounted(s), t.chan = s.chan,
         t.count.deposit = s.count.deposit, t.count.opening = s.count.opening
  PROVE  ChannelsCounted(t) /\ Held(t) = Held(s)
<1>1. Open(t) = Open(s) /\ Held(t) = Held(s) /\ Deposited(t) = Deposited(s)
  BY DEF Open, Held, Deposited
<1> QED BY <1>1 DEF ChannelsCounted

(* A transfer of diamonds moves them from one list to another, with the      *)
(* balances and the records.                                                 *)
LEMMA MovedGood ==
  ASSUME NEW s, NEW h, NEW names, Good(s, h, names),
         NEW x, x.from \in Addr, x.to \in Addr, x.dias \in Seq(Diamond), CanMove(s, x)
  PROVE  /\ Good(Moved(s, x), h, names) /\ Net(Moved(s, x)) = Net(s)
         /\ Moved(s, x).cuts = s.cuts
<1> DEFINE t == Moved(s, x)
           D == ToSet(x.dias)
           n == Len(x.dias)
           out == Drop(s.owned[x.from], x.dias)
<1>0. /\ DOMAIN s = Fields /\ s.owned \in [Addr -> Seq(Diamond)] /\ s.hacd \in [Addr -> Nat]
      /\ s.dia \in [DOMAIN s.dia -> DiamondRecord] /\ n \in Nat
  BY DEF Good, Sound
<1>1. /\ x.from # x.to /\ IsInjective(x.dias) /\ out.found = n /\ s.hacd[x.from] >= n
      /\ \A d \in D : d \in DOMAIN s.dia /\ s.dia[d].addr = x.from
  BY DEF CanMove, Owns
<1>2. /\ \A a \in Addr : /\ ToSet(s.owned[a]) = {d \in DOMAIN s.dia : s.dia[d].addr = a}
                         /\ Len(s.owned[a]) = s.hacd[a] /\ IsInjective(s.owned[a])
      /\ Cardinality(DOMAIN s.dia) = s.latest.num /\ s.count.minted = s.latest.num
  BY DEF Good, OwnersAgree, Listed
<1>3. /\ out.list \in Seq(Diamond) /\ Len(out.list) = Len(s.owned[x.from]) - n
      /\ IsInjective(out.list) /\ ToSet(out.list) = ToSet(s.owned[x.from]) \ D
  <2>1. D \subseteq ToSet(s.owned[x.from])
    BY <1>1, <1>2
  <2>2. /\ s.owned[x.from] \in Seq(Diamond) /\ IsInjective(s.owned[x.from])
        /\ Len(s.owned[x.from]) \in Nat
    BY <1>0, <1>2
  <2> HIDE DEF D
  <2> QED BY <1>1, <2>1, <2>2, DropFacts DEF D
<1> DEFINE joined == s.owned[x.to] \o x.dias
<1>4. /\ joined \in Seq(Diamond) /\ Len(joined) = Len(s.owned[x.to]) + n
      /\ IsInjective(joined) /\ ToSet(joined) = ToSet(s.owned[x.to]) \union D
  <2>1. ToSet(s.owned[x.to]) \intersect D = {}
    BY <1>1, <1>2
  <2>2. s.owned[x.to] \in Seq(Diamond) /\ IsInjective(s.owned[x.to])
    BY <1>0, <1>2
  <2> QED BY <1>1, <2>1, <2>2, JoinFacts
<1> DEFINE dia == [d \in DOMAIN s.dia |->
                     IF d \in D THEN [s.dia[d] EXCEPT !.addr = x.to] ELSE s.dia[d]]
           owned == [s.owned EXCEPT ![x.from] = out.list, ![x.to] = joined]
           less == s.hacd[x.from] - n
           more == s.hacd[x.to] + n
           hacd == [s.hacd EXCEPT ![x.from] = less, ![x.to] = more]
<1>5. t = [s EXCEPT !.dia = dia, !.owned = owned, !.hacd = hacd]
  BY DEF Moved
<1> HIDE DEF t, out
<1>6. /\ owned[x.from] = out.list /\ owned[x.to] = joined
      /\ \A a \in Addr \ {x.from, x.to} : owned[a] = s.owned[a]
      /\ owned \in [Addr -> Seq(Diamond)]
  <2> HIDE DEF joined
  <2> QED BY <1>0, <1>1, <1>3, <1>4
<1> HIDE DEF owned, joined
<1>7. /\ hacd[x.from] = s.hacd[x.from] - n /\ hacd[x.to] = s.hacd[x.to] + n
      /\ \A a \in Addr \ {x.from, x.to} : hacd[a] = s.hacd[a]
      /\ hacd \in [Addr -> Nat]
  <2>1. less \in Nat /\ more \in Nat
    <3> HIDE DEF n
    <3> QED BY <1>0, <1>1
  <2> HIDE DEF less, more
  <2>2. /\ hacd[x.from] = less /\ hacd[x.to] = more
        /\ \A a \in Addr \ {x.from, x.to} : hacd[a] = s.hacd[a]
        /\ hacd \in [Addr -> Nat]
    BY <1>0, <1>1, <2>1
  <2> QED BY <2>2 DEF less, more
<1> HIDE DEF hacd, n, D
<1>8. /\ DOMAIN dia = DOMAIN s.dia /\ dia \in [DOMAIN dia -> DiamondRecord]
      /\ \A d \in DOMAIN s.dia : dia[d].addr = IF d \in D THEN x.to ELSE s.dia[d].addr
  BY <1>0 DEF DiamondRecord
<1> HIDE DEF dia
<1>9. /\ DOMAIN t = Fields /\ t.hac = s.hac /\ t.latest = s.latest /\ t.chan = s.chan
      /\ t.count = s.count /\ t.quiet = s.quiet /\ t.cuts = s.cuts
      /\ t.dia = dia /\ t.owned = owned /\ t.hacd = hacd
  BY <1>0, <1>5 DEF Fields
<1>10. ASSUME NEW a \in Addr PROVE Listed(t, a)
  <2> DEFINE of == {d \in DOMAIN s.dia : s.dia[d].addr = a}
  <2>1. {d \in DOMAIN t.dia : t.dia[d].addr = a} =
          IF a = x.from THEN of \ D ELSE IF a = x.to THEN of \union D ELSE of
    BY <1>1, <1>8, <1>9
  <2>2. ToSet(s.owned[a]) = of /\ Len(s.owned[a]) = s.hacd[a] /\ IsInjective(s.owned[a])
    BY <1>2
  <2> HIDE DEF of
  <2>3. CASE a = x.from
    BY <1>3, <1>6, <1>7, <1>9, <2>1, <2>2, <2>3 DEF Listed
  <2>4. CASE a = x.to
    BY <1>1, <1>4, <1>6, <1>7, <1>9, <2>1, <2>2, <2>4 DEF Listed
  <2>5. CASE a \in Addr \ {x.from, x.to}
    BY <1>6, <1>7, <1>9, <2>1, <2>2, <2>5 DEF Listed
  <2> QED BY <2>3, <2>4, <2>5
<1>11. OwnersAgree(t)
  BY <1>2, <1>8, <1>9, <1>10 DEF OwnersAgree
<1>12. Sound(t, h)
  BY <1>6, <1>7, <1>8, <1>9 DEF Good, Sound
<1>13. ChannelsCounted(t) /\ Held(t) = Held(s)
  BY <1>9, ChannelsSame DEF Good
<1>14. Good(t, h, names)
  BY <1>8, <1>9, <1>11, <1>12, <1>13 DEF Good
<1>15. Net(t) = Net(s)
  BY <1>9, <1>13 DEF Net, Tally
<1> QED BY <1>9, <1>14, <1>15 DEF t

(* One diamond more: a record, the end of its owner's list, the balance.     *)
LEMMA MintedGood ==
  ASSUME ConversionsGood, NEW p, NEW h, NEW names, Good(At(p), h, names), CanMint(p), Tx(p).fee \in Nat,
         Act(p).dia \in Diamond, Act(p).to \in Addr, Act(p).num \in Nat
  PROVE  /\ Good(Minted(p), h, names \union {Act(p).dia})
         /\ Gives(At(p), Minted(p),
                  IF Act(p).num > BurnAbove THEN Tx(p).fee - Tx(p).fee \div 10 ELSE 0)
<1> DEFINE s == At(p)
           x == Act(p)
           t == Minted(p)
           counted == x.num > BurnAbove
           bid == Tx(p).fee - Tx(p).fee \div 10
           burned == IF counted THEN Zhu(bid) ELSE 0
           cuts == s.cuts + (IF counted THEN 1 ELSE 0)
           count == [s.count EXCEPT !.minted = @ + 1, !.bid = @ + burned]
           latest == [num |-> x.num, born |-> job[p].block]
           dia == Put(s.dia, x.dia, [addr |-> x.to, insc |-> 0, last |-> 0])
           list == Append(s.owned[x.to], x.dia)
           owned == [s.owned EXCEPT ![x.to] = list]
           hacd == [s.hacd EXCEPT ![x.to] = @ + 1]
<1>0. bid \in Nat
  <2>1. Tx(p).fee \div 10 \in Nat /\ Tx(p).fee \div 10 <= Tx(p).fee
    OBVIOUS
  <2> QED BY <2>1
<1> HIDE DEF bid
<1>1. burned \in Nat
  <2>1. Zhu(bid) \in Nat
    BY <1>0, ZhuNat
  <2> QED BY <2>1
<1>2. x.num = s.latest.num + 1 /\ x.dia \notin DOMAIN s.dia
  BY DEF CanMint
<1>3. /\ DOMAIN s = Fields /\ s.owned \in [Addr -> Seq(Diamond)] /\ s.hacd \in [Addr -> Nat]
      /\ s.dia \in [DOMAIN s.dia -> DiamondRecord] /\ s.count \in Count /\ s.latest.num \in Nat
      /\ DOMAIN s.dia \subseteq Diamond /\ IsFiniteSet(DOMAIN s.dia)
  BY DEF Good, Sound
<1>4. t = [s EXCEPT !.count = count, !.cuts = cuts, !.latest = latest, !.dia = dia,
                   !.owned = owned, !.hacd = hacd]
  <2>1. t = [s EXCEPT !.count.minted = @ + 1, !.count.bid = @ + burned, !.cuts = cuts,
                      !.latest = latest, !.dia = dia, !.owned[x.to] = list, !.hacd[x.to] = @ + 1]
    BY DEF Minted, bid
  <2> HIDE DEF t, burned, cuts, latest, dia, list, x
  <2> QED BY <1>3, <2>1 DEF Fields, Count
<1>41. s.cuts \in Nat /\ cuts \in Nat
  <2>1. s.cuts \in Nat
    BY DEF Good, Sound
  <2> HIDE DEF s, counted
  <2> QED BY <2>1
<1> HIDE DEF t, burned, cuts
<1>5. /\ count \in Count /\ count.minted = s.count.minted + 1 /\ count.bid = s.count.bid + burned
      /\ count.insc = s.count.insc /\ count.opening = s.count.opening
      /\ count.deposit = s.count.deposit /\ count.interest = s.count.interest
  <2> DEFINE m == s.count.minted + 1
             b == s.count.bid + burned
  <2>1. m \in Nat /\ b \in Nat
    <3>1. s.count \in Count
      BY <1>3
    <3> HIDE DEF s
    <3>2. s.count.minted \in Nat /\ s.count.bid \in Nat
      BY <3>1 DEF Count
    <3> QED BY <1>1, <3>2
  <2> HIDE DEF m, b
  <2>2. count = [s.count EXCEPT !.minted = m, !.bid = b]
    BY DEF m, b
  <2> HIDE DEF count
  <2>3. /\ count \in Count /\ count.minted = m /\ count.bid = b
        /\ count.insc = s.count.insc /\ count.opening = s.count.opening
        /\ count.deposit = s.count.deposit /\ count.interest = s.count.interest
    BY <1>3, <2>1, <2>2 DEF Count
  <2> QED BY <2>3 DEF m, b
<1>6. /\ DOMAIN dia = DOMAIN s.dia \union {x.dia} /\ dia \in [DOMAIN dia -> DiamondRecord]
      /\ dia[x.dia].addr = x.to /\ \A d \in DOMAIN s.dia : dia[d] = s.dia[d]
  <2> DEFINE rec == [addr |-> x.to, insc |-> 0, last |-> 0]
  <2>1. rec \in DiamondRecord /\ rec.addr = x.to
    BY DEF DiamondRecord
  <2> HIDE DEF rec
  <2>2. /\ DOMAIN dia = DOMAIN s.dia \union {x.dia} /\ dia[x.dia] = rec
        /\ \A d \in DOMAIN s.dia : d # x.dia => dia[d] = s.dia[d]
        /\ dia = [d \in DOMAIN dia |-> dia[d]]
    <3>1. dia = Put(s.dia, x.dia, rec)
      BY DEF rec
    <3> HIDE DEF dia
    <3> QED BY <3>1 DEF Put
  <2> HIDE DEF dia
  <2> QED BY <1>2, <1>3, <2>1, <2>2
<1> HIDE DEF count, dia
<1>7. ToSet(s.owned[x.to]) = {d \in DOMAIN s.dia : s.dia[d].addr = x.to} /\ IsInjective(s.owned[x.to])
  BY DEF Good, OwnersAgree, Listed
<1>8. /\ list \in Seq(Diamond) /\ Len(list) = Len(s.owned[x.to]) + 1
      /\ IsInjective(list) /\ ToSet(list) = ToSet(s.owned[x.to]) \union {x.dia}
  <2> DEFINE u == s.owned[x.to]
             n == Len(u)
  <2>1. u \in Seq(Diamond) /\ n \in Nat /\ DOMAIN u = 1..n
    BY <1>3
  <2>2. /\ list \in Seq(Diamond) /\ Len(list) = n + 1 /\ list[n + 1] = x.dia /\ DOMAIN list = 1..(n + 1)
        /\ \A i \in 1..n : list[i] = u[i]
    <3> HIDE DEF u, n
    <3> QED BY <2>1 DEF u, n
  <2> HIDE DEF list, u, n
  <2>3. \A i \in 1..(n + 1) : i = n + 1 \/ i \in 1..n
    BY <2>1
  <2>4. \A i \in 1..n : u[i] # x.dia
    BY <1>2, <1>7, <2>1 DEF ToSet, u
  <2>5. IsInjective(list)
    BY <1>7, <2>1, <2>2, <2>3, <2>4 DEF IsInjective, u
  <2>6. /\ \A d \in ToSet(u) : \E i \in 1..n : d = u[i]
        /\ \A d \in ToSet(list) : \E i \in 1..(n + 1) : d = list[i]
        /\ \A i \in 1..n : u[i] \in ToSet(u) /\ i \in 1..(n + 1)
        /\ \A i \in 1..(n + 1) : list[i] \in ToSet(list)
        /\ n + 1 \in 1..(n + 1)
    BY <2>1, <2>2 DEF ToSet
  <2>7. ToSet(list) = ToSet(u) \union {x.dia}
    BY <2>2, <2>3, <2>6
  <2> QED BY <2>2, <2>5, <2>7 DEF u, n
<1> HIDE DEF list
<1>9. /\ owned[x.to] = list /\ \A a \in Addr : a # x.to => owned[a] = s.owned[a]
      /\ owned \in [Addr -> Seq(Diamond)]
  BY <1>3, <1>8
<1>10. /\ hacd[x.to] = s.hacd[x.to] + 1 /\ \A a \in Addr : a # x.to => hacd[a] = s.hacd[a]
       /\ hacd \in [Addr -> Nat]
  BY <1>3
<1>11. latest.num = x.num /\ DOMAIN latest = {"num", "born"}
  OBVIOUS
<1> HIDE DEF owned, hacd, latest
<1>12. /\ DOMAIN t = Fields /\ t.hac = s.hac /\ t.chan = s.chan /\ t.quiet = s.quiet /\ t.cuts = cuts
       /\ t.count = count /\ t.latest = latest /\ t.dia = dia /\ t.owned = owned /\ t.hacd = hacd
  BY <1>3, <1>4 DEF Fields
<1>13. ASSUME NEW a \in Addr PROVE Listed(t, a)
  <2> DEFINE of == {d \in DOMAIN s.dia : s.dia[d].addr = a}
  <2>1. {d \in DOMAIN t.dia : t.dia[d].addr = a} = IF a = x.to THEN of \union {x.dia} ELSE of
    BY <1>2, <1>6, <1>12
  <2>2. ToSet(s.owned[a]) = of /\ Len(s.owned[a]) = s.hacd[a] /\ IsInjective(s.owned[a])
    BY DEF Good, OwnersAgree, Listed
  <2> HIDE DEF of
  <2>3. CASE a = x.to
    BY <1>8, <1>9, <1>10, <1>12, <2>1, <2>2, <2>3 DEF Listed
  <2>4. CASE a # x.to
    BY <1>9, <1>10, <1>12, <2>1, <2>2, <2>4 DEF Listed
  <2> QED BY <2>3, <2>4
<1>14. Cardinality(DOMAIN dia) = Cardinality(DOMAIN s.dia) + 1 /\ IsFiniteSet(DOMAIN dia)
  <2> HIDE DEF s, x
  <2> QED BY <1>2, <1>3, <1>6, FS_AddElement
<1>15. OwnersAgree(t)
  BY <1>2, <1>5, <1>11, <1>12, <1>13, <1>14 DEF Good, OwnersAgree
<1>16. Sound(t, h)
  BY <1>41, <1>5, <1>6, <1>9, <1>10, <1>11, <1>12, <1>14 DEF Good, Sound
<1>17. ChannelsCounted(t) /\ Held(t) = Held(s)
  BY <1>5, <1>12, ChannelsSame DEF Good
<1>18. Good(t, h, names \union {x.dia})
  BY <1>6, <1>12, <1>15, <1>16, <1>17 DEF Good
<1>19. Net(t) = Net(s) + Part * burned
  <2>1. /\ SumFunction(s.hac) \in Nat /\ Held(s) \in Nat /\ s.quiet \in Nat
        /\ Tally(s) \in Int /\ Part * Tally(s) \in Int
    BY NetInt, HeldNat DEF Good
  <2>2. s.count.bid \in Nat /\ s.count.insc \in Nat /\ s.count.interest \in Nat
    BY DEF Good, Sound, Count
  <2>3. Tally(t) + burned = Tally(s) /\ Tally(t) \in Int
    BY <1>1, <1>5, <1>12, <2>2 DEF Tally
  <2>4. Part * Tally(t) + Part * burned = Part * Tally(s) /\ Part * Tally(t) \in Int /\ Part * burned \in Int
    BY <1>1, <2>3, Products
  <2> QED BY <1>12, <1>17, <2>1, <2>4 DEF Net
<1>20. Sound(s, h)
  BY DEF Good
<1>21. CASE counted
  <2>1. burned = Zhu(bid) /\ t.cuts = s.cuts + 1
    BY <1>12, <1>21 DEF burned, cuts
  <2>2. Net(s) \in Int /\ Part * Zhu(bid) \in Int
    BY <1>1, <1>20, <2>1, NetInt, Products
  <2>3. Net(t) = Net(s) + bid - bid + Part * Zhu(bid)
    BY <1>0, <1>19, <2>1, <2>2
  <2>4. bid \in Int
    BY <1>0
  <2> HIDE DEF s
  <2>5. Gives(s, t, bid)
    BY <1>0, <1>20, <2>1, <2>3, <2>4, GivesCounted
  <2> QED BY <1>18, <1>21, <2>5 DEF t, bid, s
<1>22. CASE ~counted
  <2>1. burned = 0 /\ t.cuts = s.cuts
    BY <1>12, <1>22, <1>41 DEF burned, cuts
  <2>2. Net(s) \in Int /\ Part * 0 = 0
    BY <1>20, NetInt, NumberAssumption
  <2>3. Net(t) = Net(s) + 0
    BY <1>19, <2>1, <2>2
  <2> HIDE DEF s
  <2>4. Gives(s, t, 0)
    BY <1>20, <2>1, <2>3, GivesExact
  <2> QED BY <1>18, <1>22, <2>4 DEF t, s
<1> QED BY <1>21, <1>22

(* Only the records of diamonds change, and not who owns them.               *)
LEMMA RecordsGood ==
  ASSUME NEW s, NEW h, NEW names, Good(s, h, names),
         NEW g \in [DOMAIN s.dia -> DiamondRecord], \A d \in DOMAIN s.dia : g[d].addr = s.dia[d].addr
  PROVE  /\ Good([s EXCEPT !.dia = g], h, names) /\ Net([s EXCEPT !.dia = g]) = Net(s)
         /\ [s EXCEPT !.dia = g].hac = s.hac /\ [s EXCEPT !.dia = g].cuts = s.cuts
<1> DEFINE t == [s EXCEPT !.dia = g]
<1>1. /\ DOMAIN t = Fields /\ t.hac = s.hac /\ t.hacd = s.hacd /\ t.owned = s.owned /\ t.dia = g
      /\ t.latest = s.latest /\ t.chan = s.chan /\ t.count = s.count /\ t.quiet = s.quiet
      /\ t.cuts = s.cuts
  BY DEF Good, Sound, Fields
<1> HIDE DEF t
<1>2. DOMAIN g = DOMAIN s.dia
  OBVIOUS
<1>3. ChannelsCounted(t) /\ Held(t) = Held(s)
  BY <1>1, ChannelsSame DEF Good
<1>4. Sound(t, h)
  BY <1>1, <1>2 DEF Good, Sound
<1>5. \A a \in Addr : {d \in DOMAIN t.dia : t.dia[d].addr = a} = {d \in DOMAIN s.dia : s.dia[d].addr = a}
  BY <1>1, <1>2
<1>6. OwnersAgree(t)
  BY <1>1, <1>2, <1>5 DEF Good, OwnersAgree, Listed
<1>7. Good(t, h, names) /\ Net(t) = Net(s)
  BY <1>1, <1>2, <1>3, <1>4, <1>6 DEF Good, Net, Tally
<1> QED BY <1>1, <1>7 DEF t

LEMMA EngravedGood ==
  ASSUME NEW s, NEW h \in Nat, NEW names, Good(s, h, names), NEW ds
  PROVE  /\ Good(Engraved(s, ds, h), h, names) /\ Net(Engraved(s, ds, h)) = Net(s)
         /\ Engraved(s, ds, h).hac = s.hac /\ Engraved(s, ds, h).cuts = s.cuts
<1> DEFINE g == [d \in DOMAIN s.dia |->
                   IF d \in ds THEN [s.dia[d] EXCEPT !.last = h, !.insc = s.dia[d].insc + 1] ELSE s.dia[d]]
<1>1. s.dia \in [DOMAIN s.dia -> DiamondRecord]
  BY DEF Good, Sound
<1>2. g \in [DOMAIN s.dia -> DiamondRecord] /\ \A d \in DOMAIN s.dia : g[d].addr = s.dia[d].addr
  <2>1. ASSUME NEW d \in DOMAIN s.dia
        PROVE  g[d] \in DiamondRecord /\ g[d].addr = s.dia[d].addr
    <3> DEFINE n == s.dia[d].insc + 1
    <3>1. s.dia[d] \in DiamondRecord
      BY <1>1
    <3>2. n \in Nat
      BY <3>1 DEF DiamondRecord
    <3> HIDE DEF n
    <3>3. /\ [s.dia[d] EXCEPT !.last = h, !.insc = n] \in DiamondRecord
          /\ [s.dia[d] EXCEPT !.last = h, !.insc = n].addr = s.dia[d].addr
      BY <3>1, <3>2 DEF DiamondRecord
    <3>4. g[d] = IF d \in ds THEN [s.dia[d] EXCEPT !.last = h, !.insc = n] ELSE s.dia[d]
      BY DEF n
    <3> HIDE DEF g
    <3> QED BY <3>1, <3>3, <3>4
  <2>2. g = [d \in DOMAIN s.dia |-> g[d]]
    OBVIOUS
  <2> HIDE DEF g
  <2> QED BY <2>1, <2>2
<1>3. Engraved(s, ds, h) = [s EXCEPT !.dia = g]
  BY DEF Engraved
<1> HIDE DEF g
<1> QED BY <1>2, <1>3, RecordsGood

LEMMA CleanedGood ==
  ASSUME NEW s, NEW h \in Nat, NEW names, Good(s, h, names), NEW ds
  PROVE  /\ Good(Cleaned(s, ds), h, names) /\ Net(Cleaned(s, ds)) = Net(s)
         /\ Cleaned(s, ds).hac = s.hac /\ Cleaned(s, ds).cuts = s.cuts
<1> DEFINE g == [d \in DOMAIN s.dia |->
                   IF d \in ds THEN [s.dia[d] EXCEPT !.last = 0, !.insc = 0] ELSE s.dia[d]]
<1>1. s.dia \in [DOMAIN s.dia -> DiamondRecord]
  BY DEF Good, Sound
<1>2. g \in [DOMAIN s.dia -> DiamondRecord] /\ \A d \in DOMAIN s.dia : g[d].addr = s.dia[d].addr
  BY <1>1 DEF DiamondRecord
<1>3. Cleaned(s, ds) = [s EXCEPT !.dia = g]
  BY DEF Cleaned
<1> HIDE DEF g
<1> QED BY <1>2, <1>3, RecordsGood

(* What is burned with a count leaves the balances.                          *)
LEMMA BurnedGood ==
  ASSUME ConversionsGood, NEW s, NEW h, NEW names, Good(s, h, names), NEW a \in Addr,
         NEW amt \in Nat, s.hac[a] >= amt
  PROVE  Good(Burned(s, a, amt), h, names) /\ Gives(s, Burned(s, a, amt), 0)
<1> DEFINE u == Debit(s, a, amt)
           t == Burned(s, a, amt)
           z == Zhu(amt)
           m == u.count.insc + z
           cuts == u.cuts + 1
           count == [u.count EXCEPT !.insc = m]
<1>1. Good(u, h, names) /\ Net(u) = Net(s) - amt /\ u.cuts = s.cuts
  BY DebitGood
<1>2. t = [u EXCEPT !.count = count, !.cuts = cuts]
  <2> HIDE DEF u
  <2>1. DOMAIN u = Fields
    BY <1>1 DEF Good, Sound
  <2> QED BY <2>1 DEF Burned, u, Fields
<1> HIDE DEF u, t
<1>3. u.count \in Count /\ DOMAIN u = Fields /\ u.cuts \in Nat /\ z \in Nat
  BY <1>1 DEF Good, Sound, ConversionsGood
<1> HIDE DEF z
<1>31. m \in Nat /\ cuts \in Nat
  BY <1>3 DEF Count
<1> HIDE DEF m, cuts
<1>4. /\ count \in Count /\ count.minted = u.count.minted /\ count.bid = u.count.bid
      /\ count.insc = m /\ count.opening = u.count.opening
      /\ count.deposit = u.count.deposit /\ count.interest = u.count.interest
  BY <1>3, <1>31 DEF Count
<1> HIDE DEF count
<1>5. /\ DOMAIN t = Fields /\ t.hac = u.hac /\ t.hacd = u.hacd /\ t.owned = u.owned /\ t.dia = u.dia
      /\ t.latest = u.latest /\ t.chan = u.chan /\ t.count = count /\ t.quiet = u.quiet
      /\ t.cuts = cuts
  BY <1>2, <1>3 DEF Fields
<1>6. ChannelsCounted(t) /\ Held(t) = Held(u)
  BY <1>1, <1>4, <1>5, ChannelsSame DEF Good
<1>7. Sound(t, h)
  BY <1>1, <1>31, <1>4, <1>5 DEF Good, Sound
<1>8. OwnersAgree(t)
  BY <1>1, <1>4, <1>5 DEF Good, OwnersAgree, Listed
<1>9. Good(t, h, names)
  BY <1>1, <1>5, <1>6, <1>7, <1>8 DEF Good
<1>10. Net(t) = Net(u) + Part * z
  <2>1. /\ SumFunction(u.hac) \in Nat /\ Held(u) \in Nat /\ u.quiet \in Nat
        /\ Tally(u) \in Int /\ Part * Tally(u) \in Int
    BY <1>1, NetInt, HeldNat DEF Good
  <2>2. u.count.bid \in Nat /\ u.count.insc \in Nat /\ u.count.interest \in Nat
    BY <1>3 DEF Count
  <2>3. Tally(t) + z = Tally(u) /\ Tally(t) \in Int
    BY <1>3, <1>4, <1>5, <2>2 DEF Tally, m
  <2>4. Part * Tally(t) + Part * z = Part * Tally(u) /\ Part * Tally(t) \in Int /\ Part * z \in Int
    BY <1>3, <2>3, Products
  <2> QED BY <1>5, <1>6, <2>1, <2>4 DEF Net
<1>11. Sound(s, h) /\ Net(s) \in Int /\ Part * z \in Int
  BY <1>3, NetInt, Products DEF Good
<1>12. Net(t) = Net(s) + 0 - amt + Part * z
  BY <1>1, <1>10, <1>11
<1>13. t.cuts = s.cuts + 1
  BY <1>1, <1>5 DEF cuts
<1>14. Gives(s, t, 0)
  BY <1>11, <1>12, <1>13, GivesCounted DEF z
<1> QED BY <1>9, <1>14 DEF t

(* A fee leaves the balances: what is burned of it without a count is quiet. *)
LEMMA PaidGood ==
  ASSUME NEW s, NEW h, NEW names, Good(s, h, names), NEW t, t.main \in Addr, t.fee \in Nat,
         s.hac[t.main] >= t.fee, Uncounted(t) \in Nat, NEW k
  PROVE  /\ Good(Paid(s, t, k), h, names) /\ Paid(s, t, k).cuts = s.cuts
         /\ Net(Paid(s, t, k)) = Net(s) - t.fee + Uncounted(t)
<1> DEFINE u == Debit(s, t.main, t.fee)
           w == Paid(s, t, k)
           n == Uncounted(t)
<1>1. Good(u, h, names) /\ Net(u) = Net(s) - t.fee /\ u.cuts = s.cuts
  BY DebitGood
<1>2. /\ DOMAIN w = Fields /\ w.hac = u.hac /\ w.hacd = u.hacd /\ w.owned = u.owned /\ w.dia = u.dia
      /\ w.latest = u.latest /\ w.chan = u.chan /\ w.count = u.count /\ w.quiet = u.quiet + n
      /\ w.cuts = u.cuts
  <2> HIDE DEF u, n
  <2>1. DOMAIN u = Fields
    BY <1>1 DEF Good, Sound
  <2>2. w = [u EXCEPT !.done = Put(@, t.hash, k), !.quiet = @ + n]
    BY DEF Paid, u, n
  <2> HIDE DEF w
  <2> QED BY <2>1, <2>2 DEF Fields
<1> HIDE DEF u, w, n
<1>3. n \in Nat
  BY DEF n
<1>4. ChannelsCounted(w) /\ Held(w) = Held(u)
  BY <1>1, <1>2, ChannelsSame DEF Good
<1>5. u.quiet \in Nat
  BY <1>1 DEF Good, Sound
<1>6. Sound(w, h)
  <2>1. w.quiet \in Nat
    BY <1>2, <1>3, <1>5
  <2> QED BY <1>1, <1>2, <2>1 DEF Good, Sound
<1>7. OwnersAgree(w)
  BY <1>1, <1>2 DEF Good, OwnersAgree, Listed
<1>8. Good(w, h, names)
  BY <1>1, <1>2, <1>4, <1>6, <1>7 DEF Good
<1>9. Net(w) = Net(u) + n
  <2>1. SumFunction(u.hac) \in Nat /\ Held(u) \in Nat /\ Part * Tally(u) \in Int
    BY <1>1, NetInt, HeldNat DEF Good
  <2>2. Tally(w) = Tally(u)
    BY <1>2 DEF Tally
  <2> QED BY <1>2, <1>3, <1>4, <1>5, <2>1, <2>2 DEF Net
<1> QED BY <1>1, <1>2, <1>8, <1>9 DEF w, n

(* Only channels change, and what is counted of them.                        *)
LEMMA ChannelsGood ==
  ASSUME NEW u, NEW h, NEW names, Good(u, h, names),
         NEW t, t = [u EXCEPT !.chan = t.chan, !.count = t.count, !.cuts = t.cuts], t.cuts \in Nat,
         t.chan \in [DOMAIN t.chan -> ChannelRecord(h)], DOMAIN t.chan \subseteq Channel,
         IsFiniteSet(DOMAIN t.chan), t.count \in Count,
         t.count.minted = u.count.minted, ChannelsCounted(t)
  PROVE  /\ Good(t, h, names)
         /\ Net(t) = Net(u) - Held(u) + Held(t) + Part * Tally(u) - Part * Tally(t)
<1>1. DOMAIN u = Fields
  BY DEF Good, Sound
<1>2. /\ DOMAIN t = Fields /\ t.hac = u.hac /\ t.hacd = u.hacd /\ t.owned = u.owned /\ t.dia = u.dia
      /\ t.latest = u.latest /\ t.quiet = u.quiet
  BY <1>1 DEF Fields
<1>3. Sound(t, h)
  BY <1>2 DEF Good, Sound
<1>4. OwnersAgree(t)
  BY <1>2 DEF Good, OwnersAgree, Listed
<1>5. Good(t, h, names)
  BY <1>2, <1>3, <1>4 DEF Good
<1>6. SumFunction(u.hac) \in Nat /\ Held(u) \in Nat /\ Held(t) \in Nat
  BY <1>3, NetInt, HeldNat DEF Good
<1>7. Part * Tally(u) \in Int /\ Part * Tally(t) \in Int /\ u.quiet \in Nat
  BY <1>3, NetInt DEF Good
<1>8. Net(t) = Net(u) - Held(u) + Held(t) + Part * Tally(u) - Part * Tally(t)
  BY <1>2, <1>6, <1>7 DEF Net
<1> QED BY <1>5, <1>8

(* What goes into a channel leaves the balances of the two.                  *)
LEMMA OpenedGood ==
  ASSUME ConversionsGood, NEW s, NEW h \in Nat, NEW names, Good(s, h, names),
         NEW x, x.left \in Addr, x.right \in Addr, x.l \in Nat, x.r \in Nat, x.ch \in Channel,
         CanOpen(s, x)
  PROVE  /\ Good(Opened(s, x, h), h, names) /\ Net(Opened(s, x, h)) = Net(s)
         /\ Opened(s, x, h).cuts = s.cuts
<1> DEFINE m == Debit(s, x.left, x.l)
           u == Debit(m, x.right, x.r)
           t == Opened(s, x, h)
           version == IF x.ch \in DOMAIN u.chan THEN u.chan[x.ch].version + 1 ELSE 1
           rec == [open |-> TRUE, since |-> h, left |-> x.left, right |-> x.right,
                   l |-> x.l, r |-> x.r, version |-> version]
           chan == Put(u.chan, x.ch, rec)
           opening == u.count.opening + 1
           deposit == u.count.deposit + Zhu(x.l + x.r)
           count == [u.count EXCEPT !.opening = opening, !.deposit = deposit]
<1>1. x.left # x.right /\ s.hac[x.left] >= x.l /\ s.hac[x.right] >= x.r /\ Reusable(s, x)
  <2>1. s.hac[x.left] \in Nat /\ s.hac[x.right] \in Nat
    BY DEF Good, Sound
  <2>2. (x.l > 0 => s.hac[x.left] >= x.l) /\ (x.r > 0 => s.hac[x.right] >= x.r)
    BY DEF CanOpen, CanDebit, Affords
  <2>3. s.hac[x.left] >= x.l /\ s.hac[x.right] >= x.r
    BY <2>1, <2>2
  <2> QED BY <2>3 DEF CanOpen
<1>2. Good(m, h, names) /\ Net(m) = Net(s) - x.l /\ m.cuts = s.cuts
  BY <1>1, DebitGood
<1>3. m.hac[x.right] = s.hac[x.right] /\ m.chan = s.chan
  <2>1. DOMAIN s = Fields /\ s.hac \in [Addr -> Nat]
    BY DEF Good, Sound
  <2> QED BY <1>1, <2>1 DEF Debit, Fields
<1>4. Good(u, h, names) /\ Net(u) = Net(m) - x.r /\ u.cuts = m.cuts
  <2> HIDE DEF m
  <2> QED BY <1>1, <1>2, <1>3, DebitGood
<1>5. u.chan = s.chan
  <2>1. DOMAIN m = Fields
    BY <1>2 DEF Good, Sound
  <2> HIDE DEF m
  <2> QED BY <1>3, <2>1 DEF Debit, Fields
<1>6. t = [u EXCEPT !.chan = chan, !.count = count]
  <2>1. DOMAIN u = Fields /\ u.count \in Count
    BY <1>4 DEF Good, Sound
  <2> HIDE DEF m
  <2>2. t = [u EXCEPT !.chan = chan, !.count.opening = @ + 1, !.count.deposit = @ + Zhu(x.l + x.r)]
    BY DEF Opened, m
  <2> HIDE DEF t, u, chan
  <2> QED BY <2>1, <2>2 DEF Fields, Count
<1> HIDE DEF t, u, m
<1>7. /\ DOMAIN u = Fields /\ u.count \in Count /\ u.chan \in [DOMAIN u.chan -> ChannelRecord(h)]
      /\ DOMAIN u.chan \subseteq Channel /\ IsFiniteSet(DOMAIN u.chan)
  BY <1>4 DEF Good, Sound
<1>8. opening \in Int /\ deposit \in Int
  <2>1. Zhu(x.l + x.r) \in Nat
    <3>1. x.l + x.r \in Nat
      OBVIOUS
    <3> QED BY <3>1, ZhuNat
  <2> QED BY <1>7, <2>1 DEF Count
<1> HIDE DEF opening, deposit
<1>9. /\ count \in Count /\ count.minted = u.count.minted /\ count.bid = u.count.bid
      /\ count.insc = u.count.insc /\ count.opening = opening
      /\ count.deposit = deposit /\ count.interest = u.count.interest
  BY <1>7, <1>8 DEF Count
<1> HIDE DEF count
<1>10. rec \in ChannelRecord(h) /\ rec.open /\ rec.l = x.l /\ rec.r = x.r
  <2>1. version \in Nat
    <3>1. CASE x.ch \in DOMAIN u.chan
      <4>1. u.chan[x.ch].version \in Nat
        BY <1>7, <3>1 DEF ChannelRecord
      <4> QED BY <3>1, <4>1
    <3>2. CASE x.ch \notin DOMAIN u.chan
      BY <3>2
    <3> QED BY <3>1, <3>2
  <2>2. h \in 0..h
    OBVIOUS
  <2> HIDE DEF version
  <2> QED BY <2>1, <2>2 DEF ChannelRecord
<1> HIDE DEF rec
<1>11. /\ DOMAIN chan = DOMAIN u.chan \union {x.ch} /\ chan[x.ch] = rec
       /\ \A c \in DOMAIN u.chan : c # x.ch => chan[c] = u.chan[c]
       /\ chan = [c \in DOMAIN chan |-> chan[c]]
  BY DEF Put
<1> HIDE DEF chan
<1>12. chan \in [DOMAIN chan -> ChannelRecord(h)] /\ DOMAIN chan \subseteq Channel
  BY <1>7, <1>10, <1>11
<1>13. IsFiniteSet(DOMAIN chan)
  BY <1>7, <1>11, FS_AddElement
<1>14. x.ch \notin Open(u)
  BY <1>1, <1>5 DEF Open, Reusable
<1>15. t.chan = chan /\ t.count = count /\ t.cuts = u.cuts
  BY <1>6, <1>7 DEF Fields
<1>16. Open(t) = Open(u) \union {x.ch}
  BY <1>10, <1>11, <1>15 DEF Open
<1>17. Held(t) = Held(u) + (x.l + x.r)
  <2> DEFINE f == [c \in Open(u) |-> u.chan[c].l + u.chan[c].r]
             g == [c \in Open(t) |-> chan[c].l + chan[c].r]
  <2>1. f \in [Open(u) -> Int]
    BY <1>7 DEF Open, ChannelRecord
  <2>2. g \in [Open(t) -> Int]
    BY <1>12, <1>15 DEF Open, ChannelRecord
  <2>3. \A c \in Open(u) : g[c] = f[c]
    BY <1>11, <1>14, <1>16 DEF Open
  <2>4. g[x.ch] = x.l + x.r
    BY <1>10, <1>11, <1>16
  <2>5. Held(u) = SumFunction(f) /\ Held(t) = SumFunction(g)
    BY <1>15 DEF Held
  <2> HIDE DEF f, g
  <2>6. IsFiniteSet(Open(u)) /\ g \in [Open(u) \union {x.ch} -> Int]
    BY <1>4, <1>16, <2>2, HeldNat DEF Good
  <2>7. SumFunction(g) = SumFunction(f) + g[x.ch]
    BY <1>14, <2>1, <2>3, <2>6, SumMore, SMTT(60)
  <2> QED BY <2>4, <2>5, <2>7
<1>171. Deposited(t) = Deposited(u) + Zhu(x.l + x.r)
  <2> DEFINE f == [c \in Open(u) |-> Zhu(u.chan[c].l + u.chan[c].r)]
             g == [c \in Open(t) |-> Zhu(chan[c].l + chan[c].r)]
  <2>0. /\ \A c \in Open(u) : u.chan[c].l + u.chan[c].r \in Nat
        /\ \A c \in Open(t) : chan[c].l + chan[c].r \in Nat
    BY <1>7, <1>12, <1>15 DEF Open, ChannelRecord
  <2>1. f \in [Open(u) -> Int]
    BY <2>0, ZhuNat
  <2>2. g \in [Open(t) -> Int]
    BY <2>0, ZhuNat
  <2>3. \A c \in Open(u) : g[c] = f[c]
    BY <1>11, <1>14, <1>16 DEF Open
  <2>4. g[x.ch] = Zhu(x.l + x.r)
    BY <1>10, <1>11, <1>16
  <2>5. Deposited(u) = SumFunction(f) /\ Deposited(t) = SumFunction(g)
    BY <1>15 DEF Deposited
  <2> HIDE DEF f, g
  <2>6. IsFiniteSet(Open(u)) /\ g \in [Open(u) \union {x.ch} -> Int]
    BY <1>4, <1>16, <2>2, HeldNat DEF Good
  <2>7. SumFunction(g) = SumFunction(f) + g[x.ch]
    BY <1>14, <2>1, <2>3, <2>6, SumMore, SMTT(60)
  <2> QED BY <2>4, <2>5, <2>7
<1>18. Cardinality(Open(t)) = Cardinality(Open(u)) + 1
  BY <1>4, <1>14, <1>16, HeldNat, FS_AddElement DEF Good
<1>19. /\ Held(u) \in Nat /\ u.count.deposit = Deposited(u)
       /\ u.count.opening = Cardinality(Open(u))
  BY <1>4, HeldNat DEF Good, ChannelsCounted
<1>20. ChannelsCounted(t)
  BY <1>9, <1>15, <1>171, <1>18, <1>19 DEF deposit, opening, ChannelsCounted
<1>21. /\ Good(t, h, names)
       /\ Net(t) = Net(u) - Held(u) + Held(t) + Part * Tally(u) - Part * Tally(t)
  <2>1. t = [u EXCEPT !.chan = t.chan, !.count = t.count, !.cuts = t.cuts]
    BY <1>6, <1>15
  <2>2. /\ t.chan \in [DOMAIN t.chan -> ChannelRecord(h)] /\ DOMAIN t.chan \subseteq Channel
        /\ IsFiniteSet(DOMAIN t.chan) /\ t.count \in Count /\ t.count.minted = u.count.minted
    BY <1>9, <1>12, <1>13, <1>15
  <2>3. t.cuts \in Nat
    BY <1>4, <1>15 DEF Good, Sound
  <2> QED BY <1>4, <1>20, <2>1, <2>2, <2>3, ChannelsGood
<1>22. Net(s) \in Int /\ Part * Tally(u) \in Int /\ Tally(t) = Tally(u)
  <2>1. Net(s) \in Int /\ Part * Tally(u) \in Int
    BY <1>4, NetInt DEF Good
  <2>2. Tally(t) = Tally(u)
    BY <1>9, <1>15 DEF Tally
  <2> QED BY <2>1, <2>2
<1>23. Net(t) = Net(s)
  BY <1>2, <1>4, <1>17, <1>19, <1>21, <1>22
<1> QED BY <1>2, <1>4, <1>15, <1>21, <1>23 DEF t

(* What a channel holds goes back to the two, and the interest is made.      *)
LEMMA ClosedGood ==
  ASSUME ConversionsGood, NEW s, NEW h \in Nat, NEW names, Good(s, h, names),
         NEW x, x.ch \in Channel, CanClose(s, x, h)
  PROVE  Good(Closed(s, x, h), h, names) /\ Gives(s, Closed(s, x, h), 0)
<1> DEFINE c == s.chan[x.ch]
           l == Payout(c, c.l, h)
           r == Payout(c, c.r, h)
           earned == (l + r) - (c.l + c.r)
           z == Zhu(earned)
           m == Credit(s, c.left, l)
           u == Credit(m, c.right, r)
           t == Closed(s, x, h)
           chan == [u.chan EXCEPT ![x.ch].open = FALSE]
           opening == u.count.opening - 1
           deposit == u.count.deposit - Zhu(c.l + c.r)
           interest == u.count.interest + z
           cuts == u.cuts + 1
           count == [u.count EXCEPT !.opening = opening, !.deposit = deposit, !.interest = interest]
<1>1. x.ch \in DOMAIN s.chan /\ c.open /\ c \in ChannelRecord(h)
  BY DEF CanClose, Good, Sound
<1>2. /\ c.l \in Nat /\ c.r \in Nat /\ c.left \in Addr /\ c.right \in Addr
      /\ c.since \in Nat /\ c.since <= h
  <2> HIDE DEF c
  <2> QED BY <1>1 DEF ChannelRecord
<1>3. l \in Nat /\ r \in Nat
  <2> DEFINE n == (h - c.since) \div Compound
  <2>1. n \in Nat
    <3> HIDE DEF c
    <3>1. Compound \in Nat \ {0} /\ h - c.since \in Nat
      BY <1>2, NumberAssumption
    <3> QED BY <3>1
  <2> HIDE DEF n, c
  <2>2. Grown(c.l, n) \in Nat /\ Grown(c.r, n) \in Nat
    BY <1>2, <2>1 DEF ConversionsGood
  <2>3. /\ Payout(c, c.l, h) = IF c.l + c.r = 0 THEN 0 ELSE Grown(c.l, n)
        /\ Payout(c, c.r, h) = IF c.l + c.r = 0 THEN 0 ELSE Grown(c.r, n)
    BY DEF Payout, n
  <2> QED BY <2>2, <2>3
<1>31. l + r >= c.l + c.r
  BY DEF CanClose
<1> HIDE DEF l, r
<1>4. earned \in Nat /\ z \in Nat
  <2> HIDE DEF c
  <2>1. earned \in Nat
    BY <1>2, <1>3, <1>31
  <2> HIDE DEF earned
  <2> QED BY <2>1 DEF ConversionsGood
<1> HIDE DEF earned, z
<1>5. Good(m, h, names) /\ Net(m) = Net(s) + l /\ m.cuts = s.cuts
  BY <1>2, <1>3, CreditGood
<1>6. m.chan = s.chan
  <2>1. DOMAIN s = Fields
    BY DEF Good, Sound
  <2> QED BY <2>1 DEF Credit, Fields
<1>7. Good(u, h, names) /\ Net(u) = Net(m) + r /\ u.cuts = m.cuts
  <2> HIDE DEF m, c
  <2> QED BY <1>2, <1>3, <1>5, CreditGood
<1>8. u.chan = s.chan
  <2>1. DOMAIN m = Fields
    BY <1>5 DEF Good, Sound
  <2> HIDE DEF m, c
  <2> QED BY <1>6, <2>1 DEF Credit, Fields
<1>9. t = [u EXCEPT !.chan = chan, !.count = count, !.cuts = cuts]
  <2>1. DOMAIN u = Fields /\ u.count \in Count
    BY <1>7 DEF Good, Sound
  <2>2. t = [u EXCEPT !.chan[x.ch].open = FALSE, !.count.opening = @ - 1,
                      !.count.deposit = @ - Zhu(c.l + c.r),
                      !.count.interest = @ + z, !.cuts = @ + 1]
    BY DEF Closed, m, l, r, z, earned
  <2> HIDE DEF t, u, c
  <2> QED BY <2>1, <2>2 DEF Fields, Count
<1> HIDE DEF t, u, m
<1>10. /\ DOMAIN u = Fields /\ u.count \in Count /\ u.chan \in [DOMAIN u.chan -> ChannelRecord(h)]
       /\ DOMAIN u.chan \subseteq Channel /\ IsFiniteSet(DOMAIN u.chan)
  BY <1>7 DEF Good, Sound
<1>11. opening \in Int /\ deposit \in Int /\ interest \in Nat /\ cuts \in Nat
  <2>1. u.count.opening \in Int /\ u.count.deposit \in Int /\ u.count.interest \in Nat
    BY <1>10 DEF Count
  <2>2. u.cuts \in Nat
    BY <1>7 DEF Good, Sound
  <2> HIDE DEF c
  <2>3. c.l + c.r \in Nat
    BY <1>2
  <2>4. Zhu(c.l + c.r) \in Nat
    BY <2>3 DEF ConversionsGood
  <2> QED BY <1>4, <2>1, <2>2, <2>4
<1> HIDE DEF opening, deposit, interest, cuts
<1>12. /\ count \in Count /\ count.minted = u.count.minted /\ count.bid = u.count.bid
       /\ count.insc = u.count.insc /\ count.opening = opening
       /\ count.deposit = deposit /\ count.interest = interest
  BY <1>10, <1>11 DEF Count
<1> HIDE DEF count
<1>13. /\ DOMAIN chan = DOMAIN u.chan /\ chan[x.ch] \in ChannelRecord(h) /\ ~chan[x.ch].open
       /\ \A i \in DOMAIN u.chan : i # x.ch => chan[i] = u.chan[i]
       /\ chan = [i \in DOMAIN chan |-> chan[i]]
  <2>1. chan[x.ch] = [c EXCEPT !.open = FALSE] /\ DOMAIN chan = DOMAIN u.chan
    BY <1>1, <1>8
  <2>2. [c EXCEPT !.open = FALSE] \in ChannelRecord(h) /\ ~[c EXCEPT !.open = FALSE].open
    <3> HIDE DEF c
    <3> QED BY <1>1 DEF ChannelRecord
  <2> QED BY <2>1, <2>2
<1> HIDE DEF chan
<1>14. chan \in [DOMAIN chan -> ChannelRecord(h)]
  BY <1>10, <1>13
<1>15. t.chan = chan /\ t.count = count /\ t.cuts = cuts
  BY <1>9, <1>10 DEF Fields
<1>16. x.ch \in Open(u) /\ Open(t) = Open(u) \ {x.ch}
  BY <1>1, <1>8, <1>13, <1>15 DEF Open
<1>17. Held(u) = Held(t) + (c.l + c.r)
  <2> DEFINE f == [i \in Open(t) |-> chan[i].l + chan[i].r]
             g == [i \in Open(u) |-> u.chan[i].l + u.chan[i].r]
  <2>1. f \in [Open(t) -> Int]
    BY <1>14, <1>15 DEF Open, ChannelRecord
  <2>2. g \in [Open(u) -> Int]
    BY <1>10 DEF Open, ChannelRecord
  <2>3. \A i \in Open(t) : g[i] = f[i]
    BY <1>13, <1>16 DEF Open
  <2>4. g[x.ch] = c.l + c.r
    BY <1>8, <1>16
  <2>5. Held(u) = SumFunction(g) /\ Held(t) = SumFunction(f)
    BY <1>15 DEF Held
  <2> HIDE DEF f, g
  <2>6. /\ IsFiniteSet(Open(t)) /\ x.ch \notin Open(t) /\ Open(t) \union {x.ch} = Open(u)
    BY <1>7, <1>16, HeldNat, FS_RemoveElement DEF Good
  <2>7. SumFunction(g) = SumFunction(f) + g[x.ch]
    <3>1. g \in [Open(t) \union {x.ch} -> Int]
      BY <2>2, <2>6
    <3> QED BY <2>1, <2>3, <2>6, <3>1, SumMore
  <2> HIDE DEF c
  <2> QED BY <2>4, <2>5, <2>7
<1>171. Deposited(u) = Deposited(t) + Zhu(c.l + c.r)
  <2> DEFINE f == [i \in Open(t) |-> Zhu(chan[i].l + chan[i].r)]
             g == [i \in Open(u) |-> Zhu(u.chan[i].l + u.chan[i].r)]
  <2>0. /\ \A i \in Open(u) : u.chan[i].l + u.chan[i].r \in Nat
        /\ \A i \in Open(t) : chan[i].l + chan[i].r \in Nat
    BY <1>10, <1>14, <1>15 DEF Open, ChannelRecord
  <2>1. f \in [Open(t) -> Int]
    BY <2>0, ZhuNat
  <2>2. g \in [Open(u) -> Int]
    BY <2>0, ZhuNat
  <2>3. \A i \in Open(t) : g[i] = f[i]
    BY <1>13, <1>16 DEF Open
  <2>4. g[x.ch] = Zhu(c.l + c.r)
    BY <1>8, <1>16
  <2>5. Deposited(u) = SumFunction(g) /\ Deposited(t) = SumFunction(f)
    BY <1>15 DEF Deposited
  <2> HIDE DEF f, g
  <2>6. /\ IsFiniteSet(Open(t)) /\ x.ch \notin Open(t) /\ Open(t) \union {x.ch} = Open(u)
    BY <1>7, <1>16, HeldNat, FS_RemoveElement DEF Good
  <2>7. SumFunction(g) = SumFunction(f) + g[x.ch]
    <3>1. g \in [Open(t) \union {x.ch} -> Int]
      BY <2>2, <2>6
    <3> QED BY <2>1, <2>3, <2>6, <3>1, SumMore
  <2> HIDE DEF c
  <2> QED BY <2>4, <2>5, <2>7
<1>18. Cardinality(Open(t)) = Cardinality(Open(u)) - 1
  BY <1>7, <1>16, HeldNat, FS_RemoveElement DEF Good
<1>19. /\ Held(u) \in Nat /\ u.count.deposit = Deposited(u)
       /\ u.count.opening = Cardinality(Open(u)) /\ Held(t) \in Int
  <2>1. /\ Held(u) \in Nat /\ u.count.deposit = Deposited(u)
        /\ u.count.opening = Cardinality(Open(u))
    BY <1>7, HeldNat DEF Good, ChannelsCounted
  <2>2. Held(t) = SumFunction([i \in Open(t) |-> t.chan[i].l + t.chan[i].r])
    BY DEF Held
  <2>3. [i \in Open(t) |-> t.chan[i].l + t.chan[i].r] \in [Open(t) -> Nat]
    BY <1>14, <1>15 DEF Open, ChannelRecord
  <2>4. IsFiniteSet(Open(t))
    BY <1>7, <1>16, HeldNat, FS_RemoveElement DEF Good
  <2> QED BY <2>1, <2>2, <2>3, <2>4, SumNat
<1>191. Deposited(t) \in Int /\ Zhu(c.l + c.r) \in Int
  <2>1. Deposited(t) = SumFunction([i \in Open(t) |-> Zhu(t.chan[i].l + t.chan[i].r)])
    BY DEF Deposited
  <2>2. \A i \in Open(t) : t.chan[i].l + t.chan[i].r \in Nat
    BY <1>14, <1>15 DEF Open, ChannelRecord
  <2>3. [i \in Open(t) |-> Zhu(t.chan[i].l + t.chan[i].r)] \in [Open(t) -> Nat]
    BY <2>2 DEF ConversionsGood
  <2>4. IsFiniteSet(Open(t))
    BY <1>7, <1>16, HeldNat, FS_RemoveElement DEF Good
  <2>5. Deposited(t) \in Nat
    BY <2>1, <2>3, <2>4, SumNat
  <2> HIDE DEF c
  <2>6. c.l + c.r \in Nat
    BY <1>2
  <2>7. Zhu(c.l + c.r) \in Nat
    BY <2>6 DEF ConversionsGood
  <2> QED BY <2>5, <2>7
<1> HIDE DEF c
<1>20. ChannelsCounted(t)
  <2>1. t.count.deposit = Deposited(t)
    BY <1>12, <1>15, <1>171, <1>19, <1>191 DEF deposit
  <2>2. t.count.opening = Cardinality(Open(t))
    BY <1>12, <1>15, <1>18, <1>19 DEF opening
  <2> QED BY <2>1, <2>2 DEF ChannelsCounted
<1>21. /\ Good(t, h, names)
       /\ Net(t) = Net(u) - Held(u) + Held(t) + Part * Tally(u) - Part * Tally(t)
  <2>1. t = [u EXCEPT !.chan = t.chan, !.count = t.count, !.cuts = t.cuts]
    BY <1>9, <1>15
  <2>2. /\ t.chan \in [DOMAIN t.chan -> ChannelRecord(h)] /\ DOMAIN t.chan \subseteq Channel
        /\ IsFiniteSet(DOMAIN t.chan) /\ t.count \in Count /\ t.count.minted = u.count.minted
    BY <1>10, <1>12, <1>13, <1>14, <1>15
  <2> QED BY <1>7, <1>11, <1>15, <1>20, <2>1, <2>2, ChannelsGood
<1>22. /\ Net(s) \in Int /\ Part * Tally(u) \in Int /\ Part * z \in Int
       /\ Part * Tally(t) = Part * Tally(u) + Part * z
  <2>1. Net(s) \in Int /\ Tally(u) \in Int /\ Part * Tally(u) \in Int
    BY <1>7, NetInt DEF Good
  <2>2. u.count.bid \in Nat /\ u.count.insc \in Nat /\ u.count.interest \in Nat
    BY <1>10 DEF Count
  <2>3. Tally(t) = Tally(u) + z
    BY <1>4, <1>12, <1>15, <2>2 DEF Tally, interest
  <2> QED BY <1>4, <2>1, <2>3, Products
<1>23. Net(t) = Net(s) + 0 + earned - Part * z
  BY <1>2, <1>3, <1>5, <1>7, <1>17, <1>19, <1>21, <1>22 DEF earned
<1>24. t.cuts = s.cuts + 1
  BY <1>5, <1>7, <1>15 DEF cuts
<1>25. Sound(s, h)
  BY DEF Good
<1>26. Gives(s, t, 0)
  BY <1>4, <1>23, <1>24, <1>25, GivesCounted DEF z
<1> QED BY <1>21, <1>26 DEF t

-----------------------------------------------------------------------------
(* The fee of a transaction, and how its actions are worked off.             *)

(* What the miner gets, what is burned with a count and what without are all *)
(* of the fee.                                                               *)
LEMMA FeeParts ==
  ASSUME NEW t \in Txs
  PROVE  /\ t.fee \in Nat /\ t.main \in Addr /\ t.acts \in Seq(Acts)
         /\ Unpaid(t, t.acts) = 0 /\ Got(t) \in Nat /\ Uncounted(t) \in Nat
         /\ Unpaid(t, <<>>) \in Nat
         /\ Got(t) + Uncounted(t) + Unpaid(t, <<>>) = t.fee
<1> DEFINE n == Len(t.acts)
           tenth == t.fee \div 10
           some == \E i \in 1..n : Burns(t.acts[i])
           bid == \E i \in 1..n : t.acts[i].ty = "mint" /\ t.acts[i].num > BurnAbove
<1>1. t.fee \in Nat /\ t.main \in Addr /\ t.acts \in Seq(Acts)
  BY TxAssumption
<1>2. n \in Nat /\ DOMAIN t.acts = 1..n /\ \A i \in 1..n : t.acts[i] \in Acts
  BY <1>1
<1>3. tenth \in Nat /\ tenth <= t.fee
  BY <1>1
<1>4. Len(<<>>) = 0 /\ n - 0 = n /\ n - n = 0 /\ 1..0 = {}
  BY <1>2
<1>5. \A i \in 1..n : t.acts[i].ty = "mint" => t.acts[i].num \in Nat /\ BurnAbove \in Nat
  BY <1>2, ActAssumption, NumberAssumption
<1>6. bid => some
  BY DEF Burns
<1>7. (\A i \in 1..n : t.acts[i].ty = "mint" => t.acts[i].num <= BurnAbove) <=> ~bid
  BY <1>5
<1>8. /\ Got(t) = IF some THEN tenth ELSE t.fee
      /\ Uncounted(t) = IF some /\ ~bid THEN t.fee - tenth ELSE 0
  <2>1. Got(t) = IF some THEN tenth ELSE t.fee
    BY <1>2 DEF Got
  <2>2. Uncounted(t) = IF some /\ ~bid THEN t.fee - tenth ELSE 0
    BY <1>2, <1>7 DEF Uncounted
  <2> QED BY <2>1, <2>2
<1>9. Unpaid(t, <<>>) = IF bid THEN t.fee - tenth ELSE 0
  BY <1>4 DEF Unpaid
<1>10. Unpaid(t, t.acts) = 0
  BY <1>4 DEF Unpaid
<1> HIDE DEF n, tenth, some, bid
<1> QED BY <1>1, <1>3, <1>6, <1>8, <1>9, <1>10

(* Executing one action more. A bid is one only once in a transaction.       *)
LEMMA NextAct ==
  ASSUME NEW t \in Txs, NEW acts, Rest(t, acts), acts # <<>>
  PROVE  /\ Head(acts) \in Acts /\ Rest(t, Tail(acts))
         /\ Unpaid(t, Tail(acts)) =
              IF Head(acts).ty = "mint" /\ Head(acts).num > BurnAbove
              THEN t.fee - t.fee \div 10 ELSE Unpaid(t, acts)
         /\ (/\ Head(acts).ty = "mint"
             /\ \A i, j \in DOMAIN t.acts :
                  (t.acts[i].ty = "mint" /\ t.acts[j].ty = "mint") => i = j)
            => Unpaid(t, acts) = 0
<1> DEFINE n == Len(t.acts)
           m == Len(acts)
           rest == Tail(acts)
           x == Head(acts)
           k == n - m + 1
<1>1. t.acts \in Seq(Acts) /\ n \in Nat /\ DOMAIN t.acts = 1..n
  BY TxAssumption
<1>2. /\ acts \in Seq(Acts) /\ m <= n /\ m \in Nat /\ m # 0
      /\ \A i \in 1..m : acts[i] = t.acts[n - m + i]
  BY DEF Rest
<1>3. /\ rest \in Seq(Acts) /\ Len(rest) = m - 1 /\ x = acts[1] /\ x \in Acts
      /\ \A i \in 1..(m - 1) : rest[i] = acts[i + 1]
  BY <1>2
<1> HIDE DEF n, m, rest, x
<1>4. k \in 1..n /\ t.acts[k] = x
  BY <1>1, <1>2, <1>3
<1>5. Rest(t, rest)
  <2>1. ASSUME NEW i \in 1..(m - 1) PROVE rest[i] = t.acts[n - (m - 1) + i]
    <3>1. i + 1 \in 1..m /\ n - m + (i + 1) = n - (m - 1) + i
      BY <1>1, <1>2
    <3> QED BY <1>2, <1>3, <3>1
  <2>2. m - 1 <= n
    BY <1>1, <1>2
  <2> QED BY <1>3, <2>1, <2>2 DEF Rest, n
<1>6. 1..(n - Len(rest)) = (1..(n - m)) \union {k}
  <2>1. Len(rest) = m - 1
    BY <1>3
  <2>2. 1..(n - (m - 1)) = (1..(n - m)) \union {k}
    BY <1>1, <1>2
  <2> QED BY <2>1, <2>2
<1>7. Unpaid(t, rest) = IF \E i \in (1..(n - m)) \union {k} : t.acts[i].ty = "mint" /\ t.acts[i].num > BurnAbove
                       THEN t.fee - t.fee \div 10 ELSE 0
  BY <1>6 DEF Unpaid, n
<1>8. Unpaid(t, acts) = IF \E i \in 1..(n - m) : t.acts[i].ty = "mint" /\ t.acts[i].num > BurnAbove
                       THEN t.fee - t.fee \div 10 ELSE 0
  BY DEF Unpaid, n, m
<1> HIDE DEF k
<1>9. Unpaid(t, rest) = IF x.ty = "mint" /\ x.num > BurnAbove THEN t.fee - t.fee \div 10 ELSE Unpaid(t, acts)
  BY <1>4, <1>7, <1>8
<1>10. ASSUME x.ty = "mint",
              \A i, j \in DOMAIN t.acts : (t.acts[i].ty = "mint" /\ t.acts[j].ty = "mint") => i = j
       PROVE  Unpaid(t, acts) = 0
  <2>1. \A i \in 1..(n - m) : i \in 1..n /\ i # k
    BY <1>1, <1>2 DEF k
  <2>2. \A i \in 1..(n - m) : t.acts[i].ty # "mint"
    BY <1>1, <1>4, <1>10, <2>1
  <2> QED BY <1>8, <2>2
<1> QED BY <1>3, <1>5, <1>9, <1>10 DEF rest, x

-----------------------------------------------------------------------------
(* Steps. All but the end of an insertion change one job, and the store can  *)
(* only get more names.                                                      *)

LEMMA JobMoves ==
  ASSUME Inv, NEW p \in Thread, NEW j, job' = [job EXCEPT ![p] = j],
         UNCHANGED <<tree, head, ledger>>,
         DOMAIN smelt \subseteq DOMAIN smelt', DOMAIN smelt' \subseteq Diamond,
         Runs(j) => Running(j, DOMAIN smelt'),
         j.ty = "height" => Waiting(j, Height(head), DOMAIN smelt'),
         (p = Inserter /\ Runs(j)) => Funded(j)
  PROVE  Inv'
<1>1. TreeInv'
  <2>1. \A b \in tree : Good(ledger[b], Height(b), DOMAIN smelt')
    <3> SUFFICES ASSUME NEW b \in tree PROVE Good(ledger[b], Height(b), DOMAIN smelt')
      OBVIOUS
    <3>1. Good(ledger[b], Height(b), DOMAIN smelt) /\ Height(b) \in Nat /\ Height(b) <= Height(b)
      BY DEF Inv, TreeInv, Height
    <3> QED BY <3>1, GoodLater
  <2> QED BY <2>1 DEF Inv, TreeInv
<1>2. DOMAIN job = Thread /\ DOMAIN job' = Thread
  BY DEF Inv, JobInv
<1>3. ASSUME NEW q \in Thread, Busy(q)' PROVE Running(job'[q], DOMAIN smelt')
  <2>1. CASE q = p
    BY <1>2, <1>3, <2>1 DEF Busy, Runs
  <2>2. CASE q # p
    <3>1. job'[q] = job[q]
      BY <1>2, <2>2
    <3>2. Running(job[q], DOMAIN smelt)
      BY <1>3, <3>1 DEF Inv, JobInv, Busy
    <3>3. Good(job[q].state, job[q].height, DOMAIN smelt') 
      <4>1. job[q].height \in Nat /\ job[q].height <= job[q].height
        BY <3>2 DEF Running
      <4> QED BY <3>2, <4>1, GoodLater DEF Running
    <3> QED BY <3>1, <3>2, <3>3 DEF Running
  <2> QED BY <2>1, <2>2
<1>4. ASSUME Busy(Inserter)' PROVE Funded(job'[Inserter])
  <2>1. Inserter \in Thread
    BY DEF Thread
  <2>2. CASE p = Inserter
    BY <1>2, <1>4, <2>1, <2>2 DEF Busy, Runs
  <2>3. CASE p # Inserter
    <3>1. job'[Inserter] = job[Inserter]
      BY <1>2, <2>1, <2>3
    <3> QED BY <1>4, <3>1 DEF Inv, JobInv, Busy
  <2> QED BY <2>2, <2>3
<1>5. ASSUME NEW q \in Thread, job'[q].ty = "height"
      PROVE  Waiting(job'[q], Height(head)', DOMAIN smelt')
  <2>1. CASE q = p
    BY <1>2, <1>5, <2>1
  <2>2. CASE q # p
    <3>1. job'[q] = job[q]
      BY <1>2, <2>2
    <3>2. Waiting(job[q], Height(head), DOMAIN smelt)
      BY <1>5, <3>1 DEF Inv, JobInv
    <3>3. Height(head) \in Nat /\ Height(head) <= Height(head)
      BY DEF Inv, TreeInv, Height
    <3>4. Waiting(job[q], Height(head), DOMAIN smelt')
      BY <3>2, <3>3, GoodLater DEF Waiting
    <3> QED BY <3>1, <3>4
  <2> QED BY <2>1, <2>2
<1>6. JobInv'
  BY <1>2, <1>3, <1>4, <1>5 DEF JobInv
<1> QED BY <1>1, <1>6 DEF Inv

LEMMA Acted ==
  ASSUME Inv, NEW p \in Thread, Busy(p), job[p].todo # <<>>, job[p].acts # <<>>,
         NEW s, Becomes(p, s), Good(s, job[p].height, DOMAIN smelt'),
         DOMAIN smelt \subseteq DOMAIN smelt', DOMAIN smelt' \subseteq Diamond,
         Act(p).ty = "mint" => Unique(p),
         Gives(At(p), s, IF Act(p).ty = "mint" /\ Act(p).num > BurnAbove
                         THEN Tx(p).fee - Tx(p).fee \div 10 ELSE 0)
  PROVE  Inv'
<1> DEFINE o == job[p]
           j == [o EXCEPT !.state = s, !.acts = Tail(o.acts)]
           t == Head(o.todo)
<1>1. DOMAIN job = Thread /\ Running(o, DOMAIN smelt) /\ DOMAIN o = JobFields
  BY DEF Inv, JobInv, Running
<1>2. job' = [job EXCEPT ![p] = j]
  BY <1>1 DEF Becomes, JobFields
<1>3. /\ DOMAIN j = JobFields /\ j.state = s /\ j.acts = Tail(o.acts) /\ j.ty = o.ty
      /\ j.block = o.block /\ j.height = o.height /\ j.todo = o.todo /\ j.fees = o.fees
  BY <1>1 DEF JobFields
<1> HIDE DEF j, o
<1>4. /\ t \in Txs /\ Rest(t, o.acts) /\ o.acts # <<>> /\ o.todo # <<>> /\ o.todo \in Seq(Txs)
      /\ t = Tx(p) /\ Act(p) = Head(o.acts) /\ At(p) = o.state
  BY <1>1 DEF Running, Tx, Act, At, o
<1>5. /\ Rest(t, Tail(o.acts))
      /\ Unpaid(t, Tail(o.acts)) =
           IF Act(p).ty = "mint" /\ Act(p).num > BurnAbove
           THEN t.fee - t.fee \div 10 ELSE Unpaid(t, o.acts)
      /\ Act(p).ty = "mint" => Unpaid(t, o.acts) = 0
  <2> HIDE DEF t
  <2>1. Act(p).ty = "mint" =>
          \A i, j1 \in DOMAIN t.acts : (t.acts[i].ty = "mint" /\ t.acts[j1].ty = "mint") => i = j1
    BY <1>4 DEF Unique
  <2> QED BY <1>4, <2>1, NextAct
<1>6. Running(j, DOMAIN smelt')
  <2>1. Good(j.state, j.height, DOMAIN smelt')
    BY <1>3 DEF o
  <2> QED BY <1>1, <1>3, <1>5, <2>1 DEF Running
<1>7. ASSUME p = Inserter PROVE Funded(j)
  <2>1. Funded(o)
    BY <1>7 DEF Inv, JobInv, o
  <2>2. Pending(o) = Unpaid(t, o.acts) /\ Pending(j) = Unpaid(t, Tail(o.acts))
    BY <1>3, <1>4 DEF Pending
  <2>3. /\ t.fee \in Nat /\ t.fee \div 10 \in Nat /\ Unpaid(t, o.acts) \in Int
    <3>1. t.fee \in Nat
      BY <1>4, FeeParts
    <3>2. t.fee \div 10 \in Nat
      BY <3>1
    <3>3. t.fee - t.fee \div 10 \in Int
      BY <3>1, <3>2
    <3>4. Unpaid(t, o.acts) = t.fee - t.fee \div 10 \/ Unpaid(t, o.acts) = 0
      BY DEF Unpaid
    <3> HIDE DEF t
    <3> QED BY <3>1, <3>2, <3>3, <3>4
  <2> DEFINE bid == IF Act(p).ty = "mint" /\ Act(p).num > BurnAbove
                    THEN t.fee - t.fee \div 10 ELSE 0
             u == Unpaid(t, o.acts)
             v == Unpaid(t, Tail(o.acts))
             f == Issued(o.height)
  <2>4. bid \in Int /\ v = u + bid
    <3> HIDE DEF t
    <3>1. CASE Act(p).ty = "mint" /\ Act(p).num > BurnAbove
      BY <1>5, <2>3, <3>1
    <3>2. CASE ~(Act(p).ty = "mint" /\ Act(p).num > BurnAbove)
      BY <1>5, <2>3, <3>2
    <3> QED BY <3>1, <3>2
  <2>5. Gives(o.state, s, bid)
    BY <1>4
  <2>6. Spans(o.state, f + u - o.fees)
    BY <2>1, <2>2 DEF Funded
  <2>7. f \in Int /\ u \in Int /\ o.fees \in Int /\ f + u - o.fees \in Int
    <3>1. o.height \in Nat /\ Issued(o.height) \in Nat /\ o.fees \in Nat
      BY <1>1, IssuedMore DEF Running
    <3> QED BY <2>3, <3>1
  <2>8. Sound(o.state, o.height) /\ Sound(s, o.height)
    BY <1>1 DEF Running, Good, o
  <2> HIDE DEF bid, u, v, f, t
  <2>9. Spans(s, (f + u - o.fees) + bid)
    BY <2>4, <2>5, <2>6, <2>7, <2>8, SpansOn
  <2>10. (f + u - o.fees) + bid = f + v - o.fees
    BY <2>4, <2>7
  <2>11. Spans(j.state, f + Pending(j) - j.fees)
    BY <1>3, <2>2, <2>9, <2>10 DEF v
  <2> QED BY <1>3, <2>1, <2>11 DEF Funded, f
<1>8. UNCHANGED <<tree, head, ledger>>
  BY DEF Becomes
<1>9. Runs(j) /\ j.ty # "height"
  BY <1>3 DEF Busy, Runs, o
<1> QED BY <1>2, <1>6, <1>7, <1>8, <1>9, JobMoves

LEMMA DoingFacts ==
  ASSUME Inv, NEW p \in Thread, NEW ty, Doing(p, ty)
  PROVE  /\ Busy(p) /\ job[p].todo # <<>> /\ job[p].acts # <<>>
         /\ Act(p) \in Acts /\ Act(p).ty = ty
         /\ Tx(p).main \in Addr /\ Tx(p).fee \in Nat
         /\ job[p].height \in Nat /\ Good(At(p), job[p].height, DOMAIN smelt)
         /\ At(p).hac \in [Addr -> Nat] /\ Sound(At(p), job[p].height)
         /\ DOMAIN smelt \subseteq Diamond
<1>1. Busy(p) /\ job[p].todo # <<>> /\ job[p].acts # <<>> /\ Act(p).ty = ty
  BY DEF Doing, Act
<1>2. Running(job[p], DOMAIN smelt) /\ DOMAIN smelt \subseteq Diamond
  BY <1>1 DEF Inv, JobInv, TreeInv
<1>3. Tx(p) \in Txs /\ Rest(Tx(p), job[p].acts)
  BY <1>1, <1>2 DEF Running, Tx
<1>4. Act(p) \in Acts
  BY <1>1, <1>3, NextAct DEF Act
<1>5. job[p].height \in Nat /\ Good(At(p), job[p].height, DOMAIN smelt)
  BY <1>2 DEF Running, At
<1>6. At(p).hac \in [Addr -> Nat] /\ Sound(At(p), job[p].height)
  BY <1>5 DEF Good, Sound
<1> QED BY <1>1, <1>2, <1>3, <1>4, <1>5, <1>6, FeeParts

LEMMA TransferHacKeeps ==
  ASSUME Inv, NEW p \in Thread, TransferHac(p)
  PROVE  Inv'
<1>1. Doing(p, "hac") /\ CanTransfer(At(p), Act(p), job[p].height) /\ Becomes(p, Transferred(At(p), Act(p)))
      /\ smelt' = smelt
  BY DEF TransferHac
<1>2. Act(p).from \in Addr /\ Act(p).to \in Addr /\ Act(p).amt \in Nat /\ Act(p).ty = "hac"
  BY <1>1, DoingFacts, ActAssumption
<1>3. /\ Good(Transferred(At(p), Act(p)), job[p].height, DOMAIN smelt)
      /\ Net(Transferred(At(p), Act(p))) = Net(At(p)) /\ Transferred(At(p), Act(p)).cuts = At(p).cuts
  BY <1>1, <1>2, DoingFacts, TransferredGood
<1>4. Busy(p) /\ job[p].todo # <<>> /\ job[p].acts # <<>> /\ DOMAIN smelt \subseteq Diamond
  BY <1>1, DoingFacts
<1>5. Gives(At(p), Transferred(At(p), Act(p)), 0)
  BY <1>1, <1>3, DoingFacts, GivesSame
<1> QED BY <1>1, <1>2, <1>3, <1>4, <1>5, Acted

LEMMA TransferDiamondsKeeps ==
  ASSUME Inv, NEW p \in Thread, TransferDiamonds(p)
  PROVE  Inv'
<1>1. Doing(p, "diamond") /\ CanMove(At(p), Act(p)) /\ Becomes(p, Moved(At(p), Act(p))) /\ smelt' = smelt
  BY DEF TransferDiamonds
<1>2. Act(p).from \in Addr /\ Act(p).to \in Addr /\ Act(p).dias \in Seq(Diamond) /\ Act(p).ty = "diamond"
  BY <1>1, DoingFacts, ActAssumption
<1>3. /\ Good(Moved(At(p), Act(p)), job[p].height, DOMAIN smelt)
      /\ Net(Moved(At(p), Act(p))) = Net(At(p)) /\ Moved(At(p), Act(p)).cuts = At(p).cuts
  BY <1>1, <1>2, DoingFacts, MovedGood
<1>4. Busy(p) /\ job[p].todo # <<>> /\ job[p].acts # <<>> /\ DOMAIN smelt \subseteq Diamond
  BY <1>1, DoingFacts
<1>5. Gives(At(p), Moved(At(p), Act(p)), 0)
  BY <1>1, <1>3, DoingFacts, GivesSame
<1> QED BY <1>1, <1>2, <1>3, <1>4, <1>5, Acted

LEMMA MintKeeps ==
  ASSUME ConversionsGood, Inv, NEW p \in Thread, Mint(p)
  PROVE  Inv'
<1>1. Doing(p, "mint") /\ CanMint(p) /\ Becomes(p, Minted(p)) /\ smelt' = Smelted(p)
  BY DEF Mint
<1>2. Act(p).num \in Nat /\ Act(p).dia \in Diamond /\ Act(p).to \in Addr /\ Act(p).ty = "mint"
  BY <1>1, DoingFacts, ActAssumption
<1>3. /\ Good(Minted(p), job[p].height, DOMAIN smelt \union {Act(p).dia})
      /\ Gives(At(p), Minted(p),
               IF Act(p).num > BurnAbove THEN Tx(p).fee - Tx(p).fee \div 10 ELSE 0)
  BY <1>1, <1>2, DoingFacts, MintedGood
<1>4. Busy(p) /\ job[p].todo # <<>> /\ job[p].acts # <<>> /\ DOMAIN smelt \subseteq Diamond
  BY <1>1, DoingFacts
<1>5. DOMAIN smelt' = DOMAIN smelt \union {Act(p).dia}
  BY <1>1 DEF Smelted, Put
<1>6. Unique(p)
  BY <1>1 DEF CanMint
<1> QED BY <1>1, <1>2, <1>3, <1>4, <1>5, <1>6, Acted

LEMMA InscribeKeeps ==
  ASSUME ConversionsGood, Inv, NEW p \in Thread, Inscribe(p)
  PROVE  Inv'
<1> DEFINE x == Act(p)
           e == Engraved(At(p), ToSet(x.dias), job[p].height)
           s == Burned(e, Tx(p).main, x.cost)
<1>1. Doing(p, "inscribe") /\ CanInscribe(p) /\ Becomes(p, s) /\ smelt' = smelt
  BY DEF Inscribe
<1>2. x.cost \in Nat /\ x.ty = "inscribe"
  BY <1>1, DoingFacts, ActAssumption
<1>3. At(p).hac[Tx(p).main] >= x.cost
  <2>1. x.cost > 0 => CanDebit(At(p), Tx(p).main, x.cost)
    BY <1>1 DEF CanInscribe, Pays
  <2>2. At(p).hac[Tx(p).main] \in Nat
    BY <1>1, DoingFacts
  <2> QED BY <1>2, <2>1, <2>2 DEF CanDebit, Affords
<1>4. Good(e, job[p].height, DOMAIN smelt) /\ Net(e) = Net(At(p)) /\ e.hac = At(p).hac /\ e.cuts = At(p).cuts
  BY <1>1, DoingFacts, EngravedGood
<1>5. Tx(p).main \in Addr /\ e.hac[Tx(p).main] >= x.cost
  BY <1>1, <1>3, <1>4, DoingFacts
<1> HIDE DEF e
<1>6. Good(s, job[p].height, DOMAIN smelt) /\ Gives(At(p), s, 0)
  <2>1. Good(s, job[p].height, DOMAIN smelt) /\ Gives(e, s, 0)
    BY <1>2, <1>4, <1>5, BurnedGood
  <2> HIDE DEF s
  <2> QED BY <1>4, <2>1 DEF Gives, Most
<1>7. Busy(p) /\ job[p].todo # <<>> /\ job[p].acts # <<>> /\ DOMAIN smelt \subseteq Diamond
  BY <1>1, DoingFacts
<1> HIDE DEF s
<1> QED BY <1>1, <1>2, <1>5, <1>6, <1>7, Acted

LEMMA ClearKeeps ==
  ASSUME ConversionsGood, Inv, NEW p \in Thread, Clear(p)
  PROVE  Inv'
<1> DEFINE x == Act(p)
           e == Cleaned(At(p), ToSet(x.dias))
           s == Burned(e, Tx(p).main, x.cost)
<1>1. Doing(p, "clear") /\ CanClear(p) /\ Becomes(p, s) /\ smelt' = smelt
  BY DEF Clear
<1>2. x.cost \in Nat /\ x.ty = "clear"
  BY <1>1, DoingFacts, ActAssumption
<1>3. At(p).hac[Tx(p).main] >= x.cost
  <2>1. x.cost > 0 => CanDebit(At(p), Tx(p).main, x.cost)
    BY <1>1 DEF CanClear, Pays
  <2>2. At(p).hac[Tx(p).main] \in Nat
    BY <1>1, DoingFacts
  <2> QED BY <1>2, <2>1, <2>2 DEF CanDebit, Affords
<1>4. Good(e, job[p].height, DOMAIN smelt) /\ Net(e) = Net(At(p)) /\ e.hac = At(p).hac /\ e.cuts = At(p).cuts
  BY <1>1, DoingFacts, CleanedGood
<1>5. Tx(p).main \in Addr /\ e.hac[Tx(p).main] >= x.cost
  BY <1>1, <1>3, <1>4, DoingFacts
<1> HIDE DEF e
<1>6. Good(s, job[p].height, DOMAIN smelt) /\ Gives(At(p), s, 0)
  <2>1. Good(s, job[p].height, DOMAIN smelt) /\ Gives(e, s, 0)
    BY <1>2, <1>4, <1>5, BurnedGood
  <2> HIDE DEF s
  <2> QED BY <1>4, <2>1 DEF Gives, Most
<1>7. Busy(p) /\ job[p].todo # <<>> /\ job[p].acts # <<>> /\ DOMAIN smelt \subseteq Diamond
  BY <1>1, DoingFacts
<1> HIDE DEF s
<1> QED BY <1>1, <1>2, <1>5, <1>6, <1>7, Acted

LEMMA OpenChannelKeeps ==
  ASSUME ConversionsGood, Inv, NEW p \in Thread, OpenChannel(p)
  PROVE  Inv'
<1> DEFINE s == Opened(At(p), Act(p), job[p].height)
<1>1. Doing(p, "open") /\ CanOpen(At(p), Act(p)) /\ Becomes(p, s) /\ smelt' = smelt
  BY DEF OpenChannel
<1>2. /\ Act(p).ch \in Channel /\ Act(p).left \in Addr /\ Act(p).right \in Addr
      /\ Act(p).l \in Nat /\ Act(p).r \in Nat /\ Act(p).ty = "open"
  BY <1>1, DoingFacts, ActAssumption
<1>3. Good(s, job[p].height, DOMAIN smelt) /\ Net(s) = Net(At(p)) /\ s.cuts = At(p).cuts
  BY <1>1, <1>2, DoingFacts, OpenedGood
<1>4. Busy(p) /\ job[p].todo # <<>> /\ job[p].acts # <<>> /\ DOMAIN smelt \subseteq Diamond
  BY <1>1, DoingFacts
<1> HIDE DEF s
<1>5. Gives(At(p), s, 0)
  BY <1>1, <1>3, DoingFacts, GivesSame
<1> QED BY <1>1, <1>2, <1>3, <1>4, <1>5, Acted

LEMMA CloseChannelKeeps ==
  ASSUME ConversionsGood, Inv, NEW p \in Thread, CloseChannel(p)
  PROVE  Inv'
<1> DEFINE s == Closed(At(p), Act(p), job[p].height)
<1>1. Doing(p, "close") /\ CanClose(At(p), Act(p), job[p].height) /\ Becomes(p, s) /\ smelt' = smelt
  BY DEF CloseChannel
<1>2. Act(p).ch \in Channel /\ Act(p).ty = "close"
  BY <1>1, DoingFacts, ActAssumption
<1>3. Good(s, job[p].height, DOMAIN smelt) /\ Gives(At(p), s, 0)
  BY <1>1, <1>2, DoingFacts, ClosedGood
<1>4. Busy(p) /\ job[p].todo # <<>> /\ job[p].acts # <<>> /\ DOMAIN smelt \subseteq Diamond
  BY <1>1, DoingFacts
<1> HIDE DEF s
<1> QED BY <1>1, <1>2, <1>3, <1>4, Acted

(* The fee is paid, and the thread goes on to the next transaction.          *)
LEMMA PayKeeps ==
  ASSUME Inv, NEW p \in Thread, Pay(p)
  PROVE  Inv'
<1> DEFINE o == job[p]
           t == Head(o.todo)
           s == Paid(o.state, t, o.height)
           fees == o.fees + Got(t)
           todo == Tail(o.todo)
           acts == ActsOf(todo)
           j == [o EXCEPT !.state = s, !.fees = fees, !.todo = todo, !.acts = acts]
<1>1. /\ Busy(p) /\ o.todo # <<>> /\ o.acts = <<>> /\ CanDebit(o.state, t.main, t.fee)
      /\ UNCHANGED <<tree, head, ledger, smelt>>
  BY DEF Pay, CanPay, Tx, At
<1>2. /\ DOMAIN job = Thread /\ Running(o, DOMAIN smelt) /\ DOMAIN o = JobFields
      /\ DOMAIN smelt \subseteq Diamond
  BY <1>1 DEF Inv, JobInv, TreeInv, Running
<1>3. job' = [job EXCEPT ![p] = j]
  <2>1. job' = [job EXCEPT ![p].state = s, ![p].fees = fees, ![p].todo = todo, ![p].acts = acts]
    BY DEF Pay, Tx
  <2> HIDE DEF s, fees, todo, acts, t
  <2> QED BY <1>2, <2>1 DEF JobFields
<1>4. t \in Txs /\ todo \in Seq(Txs) /\ o.todo \in Seq(Txs)
  BY <1>1, <1>2 DEF Running
<1> HIDE DEF s, fees, todo, acts, t
<1>5. /\ DOMAIN j = JobFields /\ j.state = s /\ j.acts = acts /\ j.ty = o.ty
      /\ j.block = o.block /\ j.height = o.height /\ j.todo = todo /\ j.fees = fees
  BY <1>2 DEF JobFields
<1> HIDE DEF j, o
<1>6. /\ t.fee \in Nat /\ t.main \in Addr /\ Got(t) \in Nat /\ Uncounted(t) \in Nat
      /\ Unpaid(t, <<>>) \in Nat /\ Got(t) + Uncounted(t) + Unpaid(t, <<>>) = t.fee
  BY <1>4, FeeParts
<1>7. Good(o.state, o.height, DOMAIN smelt) /\ o.fees \in Nat /\ o.height \in Nat
  BY <1>2 DEF Running
<1>8. /\ Good(s, o.height, DOMAIN smelt) /\ s.cuts = o.state.cuts
      /\ Net(s) = Net(o.state) - t.fee + Uncounted(t)
  <2>1. o.state.hac[t.main] >= t.fee
    BY <1>1 DEF CanDebit, Affords
  <2> QED BY <1>6, <1>7, <2>1, PaidGood DEF s
<1>9. todo # <<>> => Rest(Head(todo), acts) /\ Unpaid(Head(todo), acts) = 0
  <2> SUFFICES ASSUME todo # <<>> PROVE Rest(Head(todo), acts) /\ Unpaid(Head(todo), acts) = 0
    OBVIOUS
  <2>1. acts = Head(todo).acts /\ Head(todo) \in Txs
    BY <1>4 DEF acts, ActsOf
  <2>2. Head(todo).acts \in Seq(Acts)
    BY <2>1, FeeParts
  <2> QED BY <2>1, <2>2, FeeParts DEF Rest
<1>10. fees \in Nat
  BY <1>6, <1>7 DEF fees
<1>11. Running(j, DOMAIN smelt)
  BY <1>4, <1>5, <1>7, <1>8, <1>9, <1>10 DEF Running
<1>12. ASSUME p = Inserter PROVE Funded(j)
  <2>1. Funded(o)
    BY <1>1, <1>12 DEF Inv, JobInv, o
  <2>2. Pending(o) = Unpaid(t, <<>>) /\ Pending(j) = 0
    BY <1>1, <1>5, <1>9 DEF Pending, t
  <2> DEFINE b == Issued(o.height)
             c == Unpaid(t, <<>>)
             d == Got(t)
             e == Uncounted(t)
             more == e - t.fee
  <2>3. /\ b \in Int /\ c \in Int /\ d \in Int /\ e \in Int /\ o.fees \in Int /\ t.fee \in Int
        /\ d + e + c = t.fee /\ fees = o.fees + d /\ Net(o.state) \in Int
        /\ b + c - o.fees \in Int /\ more \in Int
    <3>1. b \in Nat /\ Net(o.state) \in Int
      BY <1>7, NetInt, IssuedMore DEF Good
    <3> QED BY <1>6, <1>7, <3>1 DEF fees
  <2>4. Sound(o.state, o.height) /\ Sound(s, o.height)
    BY <1>7, <1>8 DEF Good
  <2>5. Spans(o.state, b + c - o.fees)
    BY <2>1, <2>2 DEF Funded
  <2>6. Net(s) = Net(o.state) + more
    BY <1>8, <2>3
  <2> HIDE DEF b, c, d, e, more
  <2>7. Gives(o.state, s, more)
    BY <1>8, <2>3, <2>4, <2>6, GivesExact
  <2>8. Spans(s, (b + c - o.fees) + more)
    BY <2>3, <2>4, <2>5, <2>7, SpansOn
  <2>9. (b + c - o.fees) + more = b + 0 - fees
    BY <2>3 DEF more
  <2>10. Spans(j.state, b + Pending(j) - j.fees)
    BY <1>5, <2>2, <2>8, <2>9
  <2> QED BY <1>5, <2>1, <2>10 DEF Funded, b
<1>13. Runs(j) /\ j.ty # "height"
  BY <1>1, <1>5 DEF Busy, Runs, o
<1> QED BY <1>1, <1>2, <1>3, <1>11, <1>12, <1>13, JobMoves

LEMMA StopKeeps ==
  ASSUME Inv, NEW p \in Thread, job' = [job EXCEPT ![p] = Idle], UNCHANGED <<tree, head, ledger, smelt>>
  PROVE  Inv'
<1>1. DOMAIN smelt' = DOMAIN smelt /\ DOMAIN smelt \subseteq Diamond
  BY DEF Inv, TreeInv
<1>2. ~Runs(Idle) /\ Idle.ty # "height"
  BY DEF Idle, Runs
<1> QED BY <1>1, <1>2, JobMoves

LEMMA StepKeeps ==
  ASSUME ConversionsGood, Inv, NEW p \in Thread, Step(p)
  PROVE  Inv'
<1>1. CASE Refuse(p)
  BY <1>1, StopKeeps DEF Refuse
<1>2. CASE ~Refuse(p)
  BY <1>2, TransferHacKeeps, TransferDiamondsKeeps, MintKeeps, InscribeKeeps, ClearKeeps,
     OpenChannelKeeps, CloseChannelKeeps, PayKeeps DEF Step
<1> QED BY <1>1, <1>2

LEMMA TakeStateKeeps ==
  ASSUME Inv, NEW p \in Tester, NEW t \in Tested, TakeState(p, t)
  PROVE  Inv'
<1> DEFINE j == [ty |-> "height", state |-> ledger[head], tx |-> t]
<1>1. job' = [job EXCEPT ![p] = j] /\ UNCHANGED <<tree, head, ledger, smelt>>
  BY DEF TakeState
<1>2. p \in Thread
  BY DEF Thread
<1>3. Good(ledger[head], Height(head), DOMAIN smelt) /\ DOMAIN smelt \subseteq Diamond
  BY DEF Inv, TreeInv
<1>4. t \in Txs
  BY DEF Txs
<1>5. Waiting(j, Height(head), DOMAIN smelt) /\ ~Runs(j)
  BY <1>3, <1>4 DEF Waiting, Runs
<1> HIDE DEF j
<1> QED BY <1>1, <1>2, <1>3, <1>5, JobMoves

(* By the time the height is asked for, the ledger is one of that height or  *)
(* of a lower one.                                                           *)
LEMMA BeginTestKeeps ==
  ASSUME Inv, NEW p \in Tester, BeginTest(p)
  PROVE  Inv'
<1> DEFINE o == job[p]
           j == [ty |-> "test", block |-> Genesis, height |-> Height(head) + 1,
                 state |-> o.state, todo |-> <<o.tx>>, acts |-> o.tx.acts, fees |-> 0]
<1>1. p \in Thread /\ p # Inserter
  BY ThreadAssumption DEF Thread
<1>2. job' = [job EXCEPT ![p] = j] /\ UNCHANGED <<tree, head, ledger, smelt>>
  <2>1. DOMAIN job = Thread
    BY DEF Inv, JobInv
  <2> QED BY <1>1, <2>1 DEF BeginTest
<1>3. Waiting(o, Height(head), DOMAIN smelt)
  BY <1>1 DEF BeginTest, Inv, JobInv
<1>4. Height(head) \in Nat /\ DOMAIN smelt \subseteq Diamond
  BY DEF Inv, TreeInv, Height
<1>5. Good(o.state, Height(head) + 1, DOMAIN smelt) /\ o.tx \in Txs
  BY <1>3, <1>4, GoodLater DEF Waiting
<1>6. Rest(o.tx, o.tx.acts)
  BY <1>5, FeeParts DEF Rest
<1> HIDE DEF o
<1>7. Running(j, DOMAIN smelt) /\ j.ty # "height"
  BY <1>4, <1>5, <1>6 DEF Running, JobFields
<1> HIDE DEF j
<1> QED BY <1>1, <1>2, <1>4, <1>7, JobMoves

(* The ledger before the first block.                                        *)
LEMMA EmptyGood ==
  /\ Good(Empty, 0, {}) /\ Empty.hac \in [Addr -> Nat]
  /\ Net(Empty) = SumFunction(Empty.hac) /\ Empty.cuts = 0
<1>1. /\ DOMAIN Empty = Fields /\ Empty.hac = [a \in Addr |-> 0] /\ Empty.hacd = [a \in Addr |-> 0]
      /\ Empty.owned = [a \in Addr |-> <<>>] /\ Empty.dia = <<>> /\ Empty.chan = <<>>
      /\ Empty.latest = [num |-> 0, born |-> Genesis] /\ Empty.count = NoCount /\ Empty.quiet = 0
      /\ Empty.cuts = 0
  BY DEF Empty, Fields
<1>2. DOMAIN Empty.dia = {} /\ DOMAIN Empty.chan = {}
  BY <1>1
<1>3. IsFiniteSet({}) /\ Cardinality({}) = 0
  BY FS_EmptySet
<1>4. NoCount \in Count
  BY DEF NoCount, Count
<1>5. Empty.dia \in [DOMAIN Empty.dia -> DiamondRecord] /\ Empty.chan \in [DOMAIN Empty.chan -> ChannelRecord(0)]
  BY <1>1, <1>2
<1>6. Sound(Empty, 0)
  BY <1>1, <1>2, <1>3, <1>4, <1>5 DEF Sound
<1>7. Open(Empty) = {}
  BY <1>2 DEF Open
<1>8. Held(Empty) = 0 /\ Deposited(Empty) = 0
  BY <1>7, SumEmpty DEF Held, Deposited
<1>9. ChannelsCounted(Empty)
  BY <1>1, <1>3, <1>7, <1>8 DEF ChannelsCounted, NoCount
<1>10. ASSUME NEW a \in Addr PROVE Listed(Empty, a)
  BY <1>1, <1>2 DEF Listed, ToSet, IsInjective
<1>11. OwnersAgree(Empty)
  BY <1>1, <1>2, <1>3, <1>10 DEF OwnersAgree, NoCount
<1>12. Good(Empty, 0, {})
  BY <1>2, <1>6, <1>9, <1>11 DEF Good
<1>13. SumFunction(Empty.hac) \in Nat
  BY <1>6, NetInt
<1>14. Net(Empty) = SumFunction(Empty.hac)
  <2>1. Tally(Empty) = 0 /\ Part * 0 = 0
    BY <1>1, NumberAssumption DEF Tally, NoCount
  <2> QED BY <1>1, <1>8, <1>13, <2>1 DEF Net
<1> QED BY <1>1, <1>12, <1>14

(* What the miner of a block is given is what the chain issues.              *)
LEMMA BeginInsertKeeps ==
  ASSUME Inv, NEW base \in tree, NEW body \in Bodies, BeginInsert(base, body)
  PROVE  Inv'
<1> DEFINE b == Append(base, body)
           h == Height(b)
           names == DOMAIN smelt
           s == IF base = Genesis THEN [Empty EXCEPT !.hac = Alloc] ELSE ledger[base]
           u == Credit(s, body.miner, Reward)
           j == [ty |-> "insert", block |-> b, height |-> h, state |-> u, todo |-> body.txs,
                 acts |-> ActsOf(body.txs), fees |-> 0]
<1>1. job' = [job EXCEPT ![Inserter] = j] /\ UNCHANGED <<tree, head, ledger, smelt>>
  BY DEF BeginInsert
<1>2. Inserter \in Thread /\ names \subseteq Diamond
  BY DEF Thread, Inv, TreeInv
<1>3. base \in Seq(Bodies) /\ b \in Seq(Bodies) /\ Height(base) \in Nat /\ h = Height(base) + 1 /\ b # Genesis
  BY DEF Inv, TreeInv, Height, Genesis
<1>4. body.miner \in Addr /\ body.txs \in Seq(Txs) /\ Reward \in Nat
  BY TxAssumption, NumberAssumption
<1> HIDE DEF b, h, s
<1>5. Good(s, Height(base), names) /\ Spans(s, Issued(Height(base)))
  <2>1. CASE base = Genesis
    <3>1. Height(base) = 0
      BY <2>1 DEF Genesis, Height
    <3>2. Good(Empty, 0, names)
      BY EmptyGood, GoodLater
    <3>3. Alloc \in [Addr -> Nat] /\ SumFunction(Alloc) \in Nat /\ SumFunction(Empty.hac) \in Nat
      BY NumberAssumption, SumNat, EmptyGood
    <3>4. /\ Good([Empty EXCEPT !.hac = Alloc], 0, names)
          /\ Net([Empty EXCEPT !.hac = Alloc]) = Net(Empty) - SumFunction(Empty.hac) + SumFunction(Alloc)
          /\ [Empty EXCEPT !.hac = Alloc].cuts = 0
      BY <3>2, <3>3, EmptyGood, HacOnly
    <3>5. Net([Empty EXCEPT !.hac = Alloc]) = SumFunction(Alloc)
      BY <3>3, <3>4, EmptyGood
    <3>6. Issued(0) = SumFunction(Alloc)
      <4>1. Reward * 0 = 0
        BY <1>4
      <4> QED BY <3>3, <4>1 DEF Issued
    <3>7. (Part - 1) * 0 = 0
      BY NumberAssumption
    <3>8. Spans([Empty EXCEPT !.hac = Alloc], Issued(0))
      BY <3>3, <3>4, <3>5, <3>6, <3>7 DEF Spans, Most
    <3> QED BY <2>1, <3>1, <3>4, <3>8 DEF s
  <2>2. CASE base # Genesis
    BY <2>2 DEF s, Inv, TreeInv
  <2> QED BY <2>1, <2>2
<1>6. Good(u, Height(base), names) /\ Net(u) = Net(s) + Reward /\ u.cuts = s.cuts
  BY <1>4, <1>5, CreditGood
<1> HIDE DEF u
<1>7. h \in Nat /\ Good(u, h, names)
  BY <1>3, <1>6, GoodLater
<1>8. Spans(u, Issued(h)) /\ Issued(h) \in Nat
  <2>1. Sound(s, Height(base)) /\ Sound(u, Height(base))
    BY <1>5, <1>6 DEF Good
  <2>2. Gives(s, u, Reward)
    BY <1>4, <1>6, <2>1, GivesExact
  <2>3. Issued(Height(base)) \in Nat /\ Issued(h) = Issued(Height(base)) + Reward /\ Issued(h) \in Nat
    BY <1>3, <1>7, IssuedMore
  <2>4. Spans(u, Issued(Height(base)) + Reward)
    BY <1>4, <1>5, <2>1, <2>2, <2>3, SpansOn
  <2> QED BY <2>3, <2>4
<1>9. body.txs # <<>> => /\ Rest(Head(body.txs), ActsOf(body.txs))
                         /\ Unpaid(Head(body.txs), ActsOf(body.txs)) = 0
  <2> SUFFICES ASSUME body.txs # <<>>
               PROVE  /\ Rest(Head(body.txs), ActsOf(body.txs))
                      /\ Unpaid(Head(body.txs), ActsOf(body.txs)) = 0
    OBVIOUS
  <2>1. ActsOf(body.txs) = Head(body.txs).acts /\ Head(body.txs) \in Txs
    BY <1>4 DEF ActsOf
  <2> QED BY <2>1, FeeParts DEF Rest
<1>10. /\ DOMAIN j = JobFields /\ j.block = b /\ j.height = h /\ j.state = u /\ j.todo = body.txs
       /\ j.acts = ActsOf(body.txs) /\ j.fees = 0
  BY DEF JobFields
<1> HIDE DEF j
<1>11. Running(j, names)
  BY <1>4, <1>7, <1>9, <1>10 DEF Running
<1>12. Pending(j) = 0
  BY <1>9, <1>10 DEF Pending
<1>13. Funded(j)
  <2>1. Issued(h) + 0 - 0 = Issued(h)
    BY <1>8
  <2> QED BY <1>3, <1>8, <1>10, <1>12, <2>1 DEF Funded, h
<1>14. j.ty # "height"
  BY DEF j
<1> QED BY <1>1, <1>2, <1>11, <1>13, <1>14, JobMoves

(* A block is kept when the tree is cut for it.                              *)
LEMMA OwnRoot ==
  ASSUME NEW b \in Seq(Bodies)
  PROVE  IsPrefix(Root(b), b)
<1> DEFINE n == Height(b) - Window
<1>1. Len(b) \in Nat /\ Window \in Nat
  BY NumberAssumption
<1>2. n \in Int /\ n <= Len(b) /\ \A i \in 1..n : b[i] \in Bodies
  BY <1>1 DEF Height
<1>3. /\ Root(b) \in Seq(Bodies) /\ Len(Root(b)) = (IF 1 <= n THEN n ELSE 0)
      /\ \A i \in 1..n : Root(b)[i] = b[i]
  <2>1. 1 \in Int
    OBVIOUS
  <2> HIDE DEF n
  <2>2. /\ SubSeq(b, 1, n) \in Seq(Bodies)
        /\ Len(SubSeq(b, 1, n)) = IF 1 <= n THEN n - 1 + 1 ELSE 0
        /\ \A i \in 1..(n - 1 + 1) : SubSeq(b, 1, n)[i] = b[1 + i - 1]
    BY <1>2, <2>1, SubSeqProperties
  <2>3. n - 1 + 1 = n /\ \A i \in 1..n : 1 + i - 1 = i
    BY <1>2
  <2> QED BY <2>2, <2>3 DEF Root, n
<1> HIDE DEF n
<1> DEFINE m == Len(Root(b))
<1>4. m \in Nat /\ m <= Len(b) /\ \A i \in 1..m : Root(b)[i] = b[i]
  BY <1>1, <1>2, <1>3
<1>5. SubSeq(Root(b), 1, m) = SubSeq(b, 1, m)
  <2> HIDE DEF m
  <2>1. SubSeq(Root(b), 1, m) = [i \in 1..m |-> Root(b)[i]] /\ SubSeq(b, 1, m) = [i \in 1..m |-> b[i]]
    BY <1>3, <1>4
  <2> QED BY <1>4, <2>1
<1> QED BY <1>4, <1>5 DEF IsPrefix

(* The miner gets the fees, and the block its ledger.                        *)
LEMMA InsertEndsKeeps ==
  ASSUME Inv, InsertEnds
  PROVE  Inv'
<1> DEFINE o == job[Inserter]
           b == o.block
           h == Height(b)
           names == DOMAIN smelt
           u == Rewarded(Inserter)
<1>1. /\ Busy(Inserter) /\ o.todo = <<>> /\ job' = [job EXCEPT ![Inserter] = Idle] /\ smelt' = smelt
      /\ tree' = IF h > Height(head) THEN From(Root(b), tree \union {b}) ELSE tree \union {b}
      /\ head' = IF h > Height(head) THEN b ELSE head
      /\ ledger' = [c \in tree' |-> IF c = b THEN u ELSE ledger[c]]
  BY DEF InsertEnds
<1>2. DOMAIN job = Thread /\ Inserter \in Thread /\ names \subseteq Diamond
  BY DEF Inv, JobInv, TreeInv, Thread
<1>3. Running(o, names) /\ Funded(o)
  BY <1>1, <1>2 DEF Inv, JobInv
<1>4. /\ b \in Seq(Bodies) /\ b # Genesis /\ o.height = h /\ h \in Nat /\ o.fees \in Nat
      /\ Good(o.state, h, names) /\ Spans(o.state, Issued(h) + Pending(o) - o.fees)
  BY <1>3 DEF Running, Funded, Height
<1>5. /\ Pending(o) = 0 /\ Issued(h) \in Nat /\ Net(o.state) \in Int
      /\ Issued(h) + 0 - o.fees \in Int /\ (Issued(h) + 0 - o.fees) + o.fees = Issued(h)
  <2>1. Pending(o) = 0 /\ Issued(h) \in Nat /\ Net(o.state) \in Int
    BY <1>1, <1>4, IssuedMore, NetInt DEF Pending, Good
  <2> QED BY <1>4, <2>1
<1>6. Last(b).miner \in Addr
  <2>1. Len(b) \in 1..Len(b)
    BY <1>4 DEF Genesis
  <2>2. Last(b) \in Bodies
    BY <1>4, <2>1 DEF Last
  <2> QED BY <2>2, TxAssumption
<1>7. Good(u, h, names) /\ Spans(u, Issued(h))
  <2>1. CASE o.fees > 0
    <3>1. u = Credit(o.state, Last(b).miner, o.fees)
      BY <2>1 DEF Rewarded, At
    <3>2. Good(u, h, names) /\ Net(u) = Net(o.state) + o.fees /\ u.cuts = o.state.cuts
      <4> DEFINE s == o.state
                 m == Last(b).miner
                 n == o.fees
      <4>1. Good(s, h, names) /\ m \in Addr /\ n \in Nat /\ u = Credit(s, m, n)
        BY <1>4, <1>6, <3>1
      <4> HIDE DEF s, m, n, h, u
      <4> QED BY <4>1, CreditGood DEF s, n
    <3> HIDE DEF u
    <3>3. Sound(o.state, h) /\ Sound(u, h)
      BY <1>4, <3>2 DEF Good
    <3>4. Gives(o.state, u, o.fees)
      BY <1>4, <3>2, <3>3, GivesExact
    <3>5. Spans(u, (Issued(h) + 0 - o.fees) + o.fees)
      BY <1>4, <1>5, <3>3, <3>4, SpansOn
    <3> QED BY <1>5, <3>2, <3>5
  <2>2. CASE ~(o.fees > 0)
    <3>1. u = o.state /\ o.fees = 0
      BY <1>4, <2>2 DEF Rewarded, At
    <3> QED BY <1>4, <1>5, <3>1
  <2> QED BY <2>1, <2>2
<1>8. IsPrefix(Root(b), b)
  BY <1>4, OwnRoot
<1> HIDE DEF u, h
<1>9. tree \subseteq Seq(Bodies) /\ head \in tree
  BY DEF Inv, TreeInv
<1>10. tree' \subseteq tree \union {b} /\ head' \in tree' /\ DOMAIN ledger' = tree'
  BY <1>1, <1>8, <1>9 DEF From
<1>11. ASSUME NEW c \in tree'
       PROVE  Good(ledger'[c], Height(c), names) /\ (c # Genesis => Spans(ledger'[c], Issued(Height(c))))
  <2>1. CASE c = b
    BY <1>1, <1>7, <1>11, <2>1 DEF h
  <2>2. CASE c # b
    <3>1. c \in tree /\ ledger'[c] = ledger[c]
      BY <1>1, <1>10, <1>11, <2>2
    <3> QED BY <3>1 DEF Inv, TreeInv
  <2> QED BY <2>1, <2>2
<1>12. TreeInv'
  BY <1>1, <1>2, <1>4, <1>9, <1>10, <1>11 DEF TreeInv
<1>13. ASSUME NEW q \in Thread, Busy(q)' PROVE q # Inserter /\ job'[q] = job[q] /\ Running(job'[q], names)
  <2>1. q # Inserter
    BY <1>1, <1>2, <1>13 DEF Busy, Idle
  <2>2. job'[q] = job[q]
    BY <1>1, <1>2, <2>1
  <2> QED BY <1>13, <2>1, <2>2 DEF Inv, JobInv, Busy
<1>14. ASSUME NEW q \in Thread, job'[q].ty = "height"
       PROVE  Waiting(job'[q], Height(head'), names)
  <2>1. q # Inserter
    BY <1>1, <1>2, <1>14 DEF Idle
  <2>2. job'[q] = job[q]
    BY <1>1, <1>2, <2>1
  <2>3. Waiting(job[q], Height(head), names)
    BY <1>14, <2>2 DEF Inv, JobInv
  <2>4. Height(head) \in Nat /\ Height(head') \in Nat /\ Height(head) <= Height(head')
    BY <1>1, <1>4, <1>9 DEF h, Height
  <2>5. Waiting(job[q], Height(head'), names)
    BY <2>3, <2>4, GoodLater DEF Waiting
  <2> QED BY <2>2, <2>5
<1>15. \A q \in Thread : Busy(q)' => Running(job'[q], names)
  BY <1>13
<1>16. ~Busy(Inserter)'
  BY <1>2, <1>13
<1>17. JobInv'
  BY <1>1, <1>2, <1>14, <1>15, <1>16 DEF JobInv, Height
<1> QED BY <1>12, <1>17 DEF Inv

LEMMA InvInit == Init => Inv
<1> SUFFICES ASSUME Init PROVE Inv
  OBVIOUS
<1>1. tree = {<<>>} /\ head = <<>> /\ ledger = [b \in {<<>>} |-> Empty] /\ smelt = <<>> /\ job = [p \in Thread |-> Idle]
  BY DEF Init, Genesis
<1>2. DOMAIN smelt = {} /\ Height(<<>>) = 0 /\ <<>> \in Seq(Bodies)
  BY <1>1 DEF Height
<1>3. TreeInv
  BY <1>1, <1>2, EmptyGood DEF TreeInv, Genesis
<1>4. \A p \in Thread : ~Busy(p) /\ job[p].ty # "height"
  BY <1>1 DEF Busy, Idle
<1>5. JobInv
  BY <1>1, <1>4 DEF JobInv, Thread
<1> QED BY <1>3, <1>5 DEF Inv

LEMMA InvNext ==
  ASSUME ConversionsGood, Inv, [Next]_vars
  PROVE  Inv'
<1>1. CASE \E base \in tree, body \in Bodies : BeginInsert(base, body)
  BY <1>1, BeginInsertKeeps
<1>2. CASE InsertEnds
  BY <1>2, InsertEndsKeeps
<1>3. CASE \E p \in Tester : TestEnds(p)
  <2>1. PICK p \in Tester : TestEnds(p)
    BY <1>3
  <2>2. p \in Thread /\ job' = [job EXCEPT ![p] = Idle] /\ UNCHANGED <<tree, head, ledger, smelt>>
    BY <2>1 DEF TestEnds, Thread
  <2> QED BY <2>2, StopKeeps
<1>4. CASE \E p \in Tester : BeginTest(p) \/ \E t \in Tested : TakeState(p, t)
  BY <1>4, BeginTestKeeps, TakeStateKeeps
<1>5. CASE \E p \in Thread : Step(p)
  BY <1>5, StepKeeps
<1>6. CASE UNCHANGED vars
  BY <1>6 DEF vars, Inv, TreeInv, JobInv, Busy, Height
<1> QED BY <1>1, <1>2, <1>3, <1>4, <1>5, <1>6 DEF Next

LEMMA InvAlways == ASSUME ConversionsGood PROVE Spec => []Inv
<1>1. Inv /\ [Next]_vars => Inv'
  BY InvNext
<1> QED BY <1>1, InvInit, PTL DEF Spec

-----------------------------------------------------------------------------
(* What follows of a ledger.                                                 *)

LEMMA GoodLedger ==
  ASSUME ConversionsGood, NEW s, NEW h, NEW names, Good(s, h, names)
  PROVE  LedgerOK(s)
<1>1. Deposited(s) \in Nat /\ Cardinality(Open(s)) \in Nat
  BY HeldNat, DepositedNat DEF Good
<1>2. s.count \in Count /\ s.count.deposit \in Nat /\ s.count.opening \in Nat
  BY <1>1 DEF Good, Sound, ChannelsCounted
<1>3. \A n \in DOMAIN s.count : s.count[n] \in Nat
  BY <1>2 DEF Count
<1> QED BY <1>3 DEF Good, Sound, LedgerOK

(* No subtraction on a ledger goes below zero, on any branch or in the       *)
(* middle of any block or test, for every set of transactions: each balance  *)
(* and count stays the unsigned number the code keeps it in (hac_sub,        *)
(* hacd_sub, TotalCount).                                                    *)
THEOREM LedgerTypeCorrect == ASSUME ConversionsGood PROVE Spec => []TypeOK
<1>1. Inv => TypeOK
  <2> SUFFICES ASSUME Inv PROVE TypeOK
    OBVIOUS
  <2>1. \A b \in tree : LedgerOK(ledger[b])
    BY GoodLedger DEF Inv, TreeInv
  <2>2. \A p \in Thread : Busy(p) => LedgerOK(job[p].state) /\ job[p].fees \in Nat
    BY GoodLedger DEF Inv, JobInv, Running
  <2> QED BY <2>1, <2>2 DEF Inv, TreeInv, TypeOK
<1> QED BY <1>1, InvAlways, PTL

(* No HAC is made or lost by any transaction: what addresses and channels    *)
(* hold is what the chain began with and gave its miners, with the interest  *)
(* and without what was burned, as TotalCount has them in zhu, to less than  *)
(* one zhu for each amount it was given, and its counts of channels are      *)
(* exactly those of the open ones (hac_transfer, channel_open,               *)
(* channel_close, TxExec::execute, the reward of do_check_insert).           *)
THEOREM LedgerConservesHac == ASSUME ConversionsGood PROVE Spec => []HacConserved
<1>1. Inv => HacConserved
  <2> SUFFICES ASSUME Inv, NEW b \in tree \ {Genesis}
               PROVE  LET s == ledger[b]
                          off == SumFunction(s.hac) + Held(s) - Supply(s, Height(b))
                          most == (Part - 1) * s.cuts
                      IN /\ off <= most /\ -off <= most
                         /\ s.count.deposit = Deposited(s)
                         /\ s.count.opening = Cardinality(Open(s))
    BY DEF HacConserved
  <2> DEFINE s == ledger[b]
  <2>1. Good(s, Height(b), DOMAIN smelt) /\ Spans(s, Issued(Height(b))) /\ Height(b) \in Nat
    BY DEF Inv, TreeInv, Height
  <2> HIDE DEF s
  <2>2. /\ SumFunction(s.hac) \in Nat /\ Held(s) \in Nat /\ Issued(Height(b)) \in Nat
        /\ Net(s) \in Int /\ Most(s) \in Nat /\ Part * Tally(s) \in Int /\ s.quiet \in Nat
    BY <2>1, NetInt, HeldNat, IssuedMore DEF Good
  <2>3. Supply(s, Height(b)) = Issued(Height(b)) + Part * Tally(s) - s.quiet
    BY DEF Supply, Issued, Tally
  <2> DEFINE off == SumFunction(s.hac) + Held(s) - Supply(s, Height(b))
  <2>4. off = Net(s) - Issued(Height(b))
    BY <2>2, <2>3 DEF Net
  <2> HIDE DEF off
  <2>5. off <= Most(s) /\ -off <= Most(s)
    BY <2>1, <2>2, <2>4 DEF Spans
  <2> QED BY <2>1, <2>5 DEF Good, ChannelsCounted, Most, off, s
<1> QED BY <1>1, InvAlways, PTL

(* The three places that say who owns a diamond agree on every branch,       *)
(* whatever was transferred and however DiamondOwnedForm::drop reordered the *)
(* lists, and each diamond has its record in the store that branches share.  *)
THEOREM LedgerDiamondsAgree == ASSUME ConversionsGood PROVE Spec => []DiamondsAgree
<1>1. Inv => DiamondsAgree
  <2> SUFFICES ASSUME Inv, NEW b \in tree
               PROVE  LET s == ledger[b] IN
                      /\ \A a \in Addr :
                           /\ ToSet(s.owned[a]) = {d \in DOMAIN s.dia : s.dia[d].addr = a}
                           /\ Len(s.owned[a]) = s.hacd[a] /\ IsInjective(s.owned[a])
                      /\ Cardinality(DOMAIN s.dia) = s.latest.num /\ s.count.minted = s.latest.num
                      /\ DOMAIN s.dia \subseteq DOMAIN smelt
    BY DEF DiamondsAgree
  <2>1. Good(ledger[b], Height(b), DOMAIN smelt)
    BY DEF Inv, TreeInv
  <2> QED BY <2>1 DEF Good, OwnersAgree, Listed
<1> QED BY <1>1, InvAlways, PTL
=============================================================================
