-------------------------- MODULE X16rsDigestProofs --------------------------
(* The digest: what each of the closes pads with, in both builds, so that   *)
(* what has been compressed when it returns is what the standard says.      *)
EXTENDS X16rsProofs

-----------------------------------------------------------------------------
(* The close *)

(* A message of n bytes ends l bytes into block k + 1.                       *)
At(b, k, l, n_) == b \in Nat \ {0} /\ k \in Nat /\ l \in Nat /\ n_ \in Nat /\ n_ = b * k + l

(* n bytes and g make q blocks, and g is less than one.                      *)
Filling(b, q, g, n_) ==
  /\ b \in Nat \ {0} /\ q \in Nat /\ g \in Nat /\ g < b /\ n_ \in Nat /\ n_ + g = b * q

LEMMA GapIs ==
  ASSUME NEW b, NEW q, NEW g, NEW m, Filling(b, q, g, m)
  PROVE  Gap(b, m) = g
<1>1. /\ b \in Nat \ {0} /\ q \in Nat /\ g \in Nat /\ g < b /\ m \in Nat /\ m + g = b * q
  BY DEF Filling
<1>2. CASE g = 0
  <2> DEFINE z == 0
             u == 1
  <2>1. z \in Nat /\ z < b /\ m = b * q + z
    BY <1>1, <1>2
  <2>2. u \in Nat /\ b = b * u + z
    BY <1>1
  <2> HIDE DEF z, u
  <2>3. m % b = z
    BY <1>1, <2>1, ModIs
  <2>4. b % b = z
    BY <1>1, <2>1, <2>2, ModIs
  <2>5. b - (m % b) = b
    BY <1>1, <2>3 DEF z
  <2> QED BY <1>2, <2>4, <2>5 DEF Gap, z
<1>3. CASE g > 0
  <2> DEFINE j == q - 1
             r == b - g
  <2>1. q # 0
    <3> SUFFICES ASSUME q = 0 PROVE FALSE
      OBVIOUS
    <3>1. b * q = 0
      BY <1>1
    <3> QED BY <1>1, <1>3, <3>1
  <2>2. j \in Nat /\ q = j + 1 /\ r \in Nat /\ r < b
    BY <1>1, <1>3, <2>1
  <2>3. m = b * j + r
    <3> HIDE DEF j
    <3>1. b * q = b * j + b /\ b * j \in Nat
      BY <1>1, <2>2, NextTimes
    <3> DEFINE x == b * j
    <3>2. m + g = x + b /\ x \in Nat
      BY <1>1, <3>1
    <3> HIDE DEF x
    <3>3. m = x + r
      BY <1>1, <3>2
    <3> QED BY <3>3 DEF x
  <2> HIDE DEF j
  <2>4. m % b = r
    <3> HIDE DEF r
    <3> QED BY <1>1, <2>2, <2>3, ModIs
  <2>5. b - (m % b) = g
    BY <1>1, <2>4
  <2>6. g % b = g
    BY <1>1, SmallMod
  <2> QED BY <2>5, <2>6 DEF Gap
<1> QED BY <1>1, <1>2, <1>3

LEMMA GapHere ==
  ASSUME NEW b, NEW k, NEW l, NEW m, At(b, k, l, m), NEW e \in Nat, 0 < l + e, l + e <= b
  PROVE  Gap(b, m + e) = b - (l + e) /\ b - (l + e) \in Nat
<1>1. b \in Nat \ {0} /\ k \in Nat /\ l \in Nat /\ m \in Nat /\ m = b * k + l
  BY DEF At
<1> DEFINE g == b - (l + e)
           q == k + 1
           x == m + e
<1>2. g \in Nat /\ g < b /\ q \in Nat /\ x \in Nat
  BY <1>1
<1>3. x + g = b * q
  <2>1. b * q = b * k + b /\ b * k \in Nat
    BY <1>1, NextTimes
  <2> DEFINE y == b * k
  <2>2. b * q = y + b /\ y \in Nat /\ m = y + l
    BY <1>1, <2>1
  <2> HIDE DEF y, q
  <2>3. x + g = y + b
    BY <1>1, <2>2
  <2> QED BY <2>2, <2>3
<1> HIDE DEF g, q, x
<1>4. Filling(b, q, g, x)
  BY <1>1, <1>2, <1>3 DEF Filling
<1>5. Gap(b, x) = g
  BY <1>4, GapIs
<1> QED BY <1>2, <1>5 DEF g, x

LEMMA GapOver ==
  ASSUME NEW b, NEW k, NEW l, NEW m, At(b, k, l, m), NEW e \in Nat, b < l + e, l + e <= b + b
  PROVE  Gap(b, m + e) = b + b - (l + e) /\ b + b - (l + e) \in Nat
<1>1. b \in Nat \ {0} /\ k \in Nat /\ l \in Nat /\ m \in Nat /\ m = b * k + l
  BY DEF At
<1> DEFINE h == l + e - b
<1>2. h \in Nat /\ 0 < h /\ h <= b
  BY <1>1
<1> DEFINE j == k + 1
           x == m + e
<1>3. At(b, j, h, x)
  <2>1. b * j = b * k + b /\ b * k \in Nat /\ j \in Nat /\ x \in Nat
    BY <1>1, NextTimes
  <2> DEFINE y == b * k
  <2>2. b * j = y + b /\ y \in Nat /\ m = y + l
    BY <1>1, <2>1
  <2> HIDE DEF y, j
  <2>3. x = b * j + h
    BY <1>1, <2>2
  <2> QED BY <1>1, <1>2, <2>1, <2>3 DEF At
<1> DEFINE z == 0
<1>4. z \in Nat /\ h + z = h /\ x + z = x /\ 0 < h + z /\ h + z <= b
  BY <1>1, <1>2
<1> HIDE DEF j, h, z, x
<1>5. Gap(b, x + z) = b - (h + z) /\ b - (h + z) \in Nat
  BY <1>3, <1>4, GapHere
<1>6. Gap(b, x) = b - h /\ b - h \in Nat
  BY <1>4, <1>5
<1>7. b - h = b + b - (l + e)
  BY <1>1 DEF h
<1> QED BY <1>6, <1>7 DEF x

LEMMA ZerosCat ==
  ASSUME NEW j \in Nat, NEW k \in Nat
  PROVE  Zeros(j) \o Zeros(k) = Zeros(j + k)
<1> DEFINE s == Zeros(j)
           t == Zeros(k)
           z == Zeros(j + k)
<1>1. s \in Seq(Int) /\ Len(s) = j /\ t \in Seq(Int) /\ Len(t) = k /\ z \in Seq(Int) /\ Len(z) = j + k
  BY ZerosType, BytesIs
<1>2. /\ \A i \in 1..j : s[i] = Byte(0)
      /\ \A i \in 1..k : t[i] = Byte(0)
      /\ \A i \in 1..(j + k) : z[i] = Byte(0)
  BY DEF Zeros
<1> HIDE DEF s, t, z
<1> DEFINE c == s \o t
<1>3. /\ c \in Seq(Int) /\ Len(c) = j + k
      /\ \A i \in 1..(j + k) : c[i] = IF i <= j THEN s[i] ELSE t[i - j]
  <2>1. /\ c \in Seq(Int) /\ Len(c) = Len(s) + Len(t)
        /\ \A i \in 1..(Len(s) + Len(t)) : c[i] = IF i <= Len(s) THEN s[i] ELSE t[i - Len(s)]
    BY <1>1, ConcatProperties
  <2> HIDE DEF c
  <2> QED BY <1>1, <2>1
<1> HIDE DEF c
<1>4. \A i \in 1..Len(c) : c[i] = z[i]
  <2> SUFFICES ASSUME NEW i \in 1..(j + k) PROVE c[i] = z[i]
    BY <1>3
  <2>1. z[i] = Byte(0)
    BY <1>2
  <2>2. CASE i <= j
    BY <1>2, <1>3, <2>1, <2>2
  <2>3. CASE ~(i <= j)
    <3>1. i - j \in 1..k
      BY <2>3
    <3> QED BY <1>2, <1>3, <2>1, <2>3, <3>1
  <2> QED BY <2>2, <2>3
<1>5. c = z
  BY <1>1, <1>3, <1>4, SameBytes
<1> QED BY <1>5 DEF c, s, t, z

LEMMA OneIs ==
  <<Byte(128)>> \in Seq(Int) /\ Len(<<Byte(128)>>) = 1 /\ <<Byte(128)>> \in Bytes(1)
<1> DEFINE x == 128
<1>1. x \in Int
  OBVIOUS
<1> HIDE DEF x
<1>2. <<Byte(x)>> \in Bytes(1)
  BY <1>1, ByteType
<1>3. <<Byte(x)>> \in Seq(Int) /\ Len(<<Byte(x)>>) = 1
  BY <1>2, BytesIs
<1> QED BY <1>2, <1>3 DEF x

LEMMA ZerosIs ==
  ASSUME NEW k \in Nat
  PROVE  Zeros(k) \in Seq(Int) /\ Len(Zeros(k)) = k
BY ZerosType, BytesIs

(* A padding with e at its end: as a whole, and what of it fills a block and *)
(* what is in the next.                                                      *)
EndPad(b, m, e) == OneAndZeros(b, m, Len(e)) \o e
FirstPad(b, l) == <<Byte(128)>> \o Zeros(b - (l + 1))
SecondPad(b, e) == Zeros(b - Len(e)) \o e

(* The blocks of a close that pads with the bit, zeros and e: one, or two.   *)
HereBlock(b, s, e) == ((s \o <<Byte(128)>>) \o Zeros(b - Len(e) - (Len(s) + 1))) \o e
OverBlock(b, s) == (s \o <<Byte(128)>>) \o Zeros(b - (Len(s) + 1))

IsCat(s, t, w) == s \o t = w

(* The padding that fits the block: the bit, zeros, and e bytes at the end.  *)
PadsHere(b, k, l, m, s, e, p) ==
  /\ At(b, k, l, m) /\ s \in Seq(Int) /\ Len(s) = l /\ e \in Seq(Int) /\ l + 1 + Len(e) <= b
  /\ p = EndPad(b, m, e)

LEMMA PadHere ==
  ASSUME NEW b, NEW k, NEW l, NEW m, NEW s, NEW e, NEW p, PadsHere(b, k, l, m, s, e, p)
  PROVE  p \in Seq(Int) /\ l + Len(p) = b /\ IsCat(s, p, HereBlock(b, s, e))
<1>0. /\ At(b, k, l, m) /\ s \in Seq(Int) /\ Len(s) = l /\ e \in Seq(Int) /\ l + 1 + Len(e) <= b
      /\ p = EndPad(b, m, e)
  BY DEF PadsHere
<1> USE <1>0
<1>1. b \in Nat \ {0} /\ l \in Nat /\ Len(e) \in Nat
  BY LenProperties DEF At
<1> DEFINE le == Len(e)
           g == b - le - (l + 1)
           o == <<Byte(128)>>
           z == Zeros(g)
<1>2. OneAndZeros(b, m, le) = o \o z
  <2>1. m \in Nat
    BY DEF At
  <2> DEFINE x == 1 + le
  <2>2. x \in Nat /\ 0 < l + x /\ l + x <= b /\ m + 1 + le = m + x /\ b - (l + x) = g
    BY <1>1, <2>1
  <2> HIDE DEF x, g, le
  <2>3. Gap(b, m + x) = b - (l + x)
    BY <2>2, GapHere
  <2>4. Gap(b, m + 1 + le) = g
    BY <2>2, <2>3
  <2> QED BY <2>4 DEF OneAndZeros
<1>3. g \in Nat
  BY <1>1
<1>4. z \in Seq(Int) /\ Len(z) = g
  BY <1>3, ZerosIs
<1>5. o \in Seq(Int) /\ Len(o) = 1
  BY OneIs
<1> HIDE DEF o, z
<1> DEFINE oz == o \o z
<1>6. oz \in Seq(Int) /\ Len(oz) = 1 + g
  BY <1>4, <1>5, CatType
<1>7. s \o oz = (s \o o) \o z
  BY <1>4, <1>5, CatAssoc
<1> HIDE DEF oz
<1>8. p = oz \o e
  BY <1>2 DEF oz, EndPad
<1>9. p \in Seq(Int) /\ Len(p) = Len(oz) + Len(e)
  BY <1>6, <1>8, CatType
<1>10. l + Len(p) = b
  BY <1>1, <1>6, <1>9
<1>11. s \o p = (s \o oz) \o e
  <2>1. oz \in Seq(Int)
    BY <1>6
  <2>2. (s \o oz) \o e = s \o (oz \o e)
    BY <2>1, CatAssoc
  <2> QED BY <1>8, <2>2
<1>12. s \o p = HereBlock(b, s, e)
  BY <1>7, <1>11 DEF o, z, g, le, HereBlock
<1> QED BY <1>9, <1>10, <1>12 DEF IsCat

(* The padding that fills the block with zeros and ends in the next.         *)
PadsOver(b, k, l, m, s, e, p, u) ==
  /\ At(b, k, l, m) /\ s \in Seq(Int) /\ Len(s) = l /\ l < b
  /\ e \in Seq(Int) /\ b < l + 1 + Len(e) /\ Len(e) <= b
  /\ p = FirstPad(b, l) /\ u = SecondPad(b, e)

LEMMA PadOver ==
  ASSUME NEW b, NEW k, NEW l, NEW m, NEW s, NEW e, NEW p, NEW u, PadsOver(b, k, l, m, s, e, p, u)
  PROVE  /\ p \in Seq(Int) /\ l + Len(p) = b /\ u \in Seq(Int) /\ Len(u) = b
         /\ IsCat(p, u, EndPad(b, m, e)) /\ IsCat(s, p, OverBlock(b, s))
<1>0. /\ At(b, k, l, m) /\ s \in Seq(Int) /\ Len(s) = l /\ l < b
      /\ e \in Seq(Int) /\ b < l + 1 + Len(e) /\ Len(e) <= b
      /\ p = FirstPad(b, l) /\ u = SecondPad(b, e)
  BY DEF PadsOver
<1> USE <1>0
<1>1. b \in Nat \ {0} /\ l \in Nat /\ Len(e) \in Nat
  BY LenProperties DEF At
<1> DEFINE le == Len(e)
           f == b - (l + 1)
           g == b - le
           o == <<Byte(128)>>
           y == Zeros(f)
           z == Zeros(g)
           yz == Zeros(f + g)
<1>2. OneAndZeros(b, m, le) = o \o yz
  <2>1. m \in Nat
    BY DEF At
  <2> DEFINE x == 1 + le
  <2>2. x \in Nat /\ b < l + x /\ l + x <= b + b /\ m + 1 + le = m + x /\ b + b - (l + x) = f + g
    BY <1>1, <2>1
  <2> HIDE DEF x, f, g, le
  <2>3. Gap(b, m + x) = b + b - (l + x)
    BY <2>2, GapOver
  <2>4. Gap(b, m + 1 + le) = f + g
    BY <2>2, <2>3
  <2> QED BY <2>4 DEF OneAndZeros
<1>3. f \in Nat /\ g \in Nat
  BY <1>1
<1>4. y \in Seq(Int) /\ Len(y) = f /\ z \in Seq(Int) /\ Len(z) = g
  BY <1>3, ZerosIs
<1>5. o \in Seq(Int) /\ Len(o) = 1
  BY OneIs
<1>6. yz = y \o z
  BY <1>3, ZerosCat
<1>7. p = o \o y /\ u = z \o e
  BY DEF FirstPad, SecondPad
<1>8. 1 + f = b - l /\ g + le = b
  BY <1>1
<1> HIDE DEF o, y, z, yz, f, g
<1>9. p \in Seq(Int) /\ Len(p) = 1 + f
  BY <1>4, <1>5, <1>7, CatType
<1>10. u \in Seq(Int) /\ Len(u) = g + le
  BY <1>4, <1>7, CatType
<1>15. o \in Seq(Int) /\ y \in Seq(Int) /\ z \in Seq(Int) /\ p \in Seq(Int)
  BY <1>4, <1>5, <1>9
<1>11. p \o u = (o \o yz) \o e
  <2>1. p \in Seq(Int) /\ z \in Seq(Int)
    BY <1>15
  <2>2. (p \o z) \o e = p \o (z \o e)
    BY <2>1, CatAssoc, SMTT(40)
  <2>4. (o \o y) \o z = o \o (y \o z)
    <3>1. o \in Seq(Int) /\ y \in Seq(Int) /\ z \in Seq(Int)
      BY <1>15
    <3> QED BY <3>1, CatAssoc, ZenonT(60)
  <2> QED BY <1>6, <1>7, <2>2, <2>4
<1>13. s \o (o \o y) = (s \o o) \o y
  <2>1. (s \o o) \o y = s \o (o \o y)
    <3>1. o \in Seq(Int) /\ y \in Seq(Int)
      BY <1>15
    <3> QED BY <3>1, CatAssoc
  <2> QED BY <2>1
<1>12. p \o u = (o \o yz) \o e /\ s \o p = (s \o o) \o y
  BY <1>7, <1>11, <1>13
<1>14. l + Len(p) = b /\ Len(u) = b
  BY <1>1, <1>8, <1>9, <1>10
<1>16. p \o u = EndPad(b, m, e)
  BY <1>2, <1>12 DEF le, EndPad
<1>17. s \o p = OverBlock(b, s)
  BY <1>12 DEF o, y, f, OverBlock
<1> QED BY <1>9, <1>10, <1>14, <1>16, <1>17 DEF IsCat

LEMMA CountIs ==
  ASSUME NEW a \in Algo, NEW k \in Nat, NEW p \in Seq(Int), p = Padding(a, k), NEW q \in Nat,
         k + Len(p) = BlockLen[a] * q
  PROVE  Count(a, k) = q
<1> DEFINE b == BlockLen[a]
           m == Message(0, k)
           w == m \o p
           z == 0
<1>1. b \in Nat \ {0}
  BY BlockType
<1>2. m \in Seq(Int) /\ Len(m) = k
  BY MessageIs
<1>3. Count(a, k) = Len(w) \div b
  BY DEF Count, Padded
<1>4. b * q = k + Len(p) /\ z = 0
  OBVIOUS
<1> HIDE DEF m, b, z
<1>5. w \in Seq(Int) /\ Len(w) = k + Len(p)
  BY <1>2, CatType
<1> HIDE DEF w
<1>6. Len(w) = b * q + z /\ z \in Nat /\ z < b /\ Len(w) \in Nat
  BY <1>1, <1>4, <1>5, LenProperties
<1>7. Len(w) \div b = q
  BY <1>1, <1>6, ModIs
<1> QED BY <1>3, <1>7

(* Where the message ends when an update is over.                            *)
LEMMA EndsAt ==
  ASSUME TypeInv, phase = "open", input = <<>>
  PROVE  At(BlockLen[alg], Len(out), Len(buf), fed)
<1>1. BlockLen[alg] \in Nat \ {0} /\ Len(out) \in Nat /\ Len(buf) \in Nat /\ fed \in Nat
  BY TypeFacts, BlockType
<1>2. fed = BlockLen[alg] * Len(out) + Len(buf) + Len(input) /\ Len(input) = 0
  BY DEF TypeInv, Taking
<1> DEFINE x == BlockLen[alg] * Len(out)
<1>3. x \in Nat
  BY <1>1
<1> HIDE DEF x
<1>4. fed = x + Len(buf)
  <2>1. fed = x + Len(buf) + 0
    BY <1>2 DEF x
  <2> QED BY <1>1, <1>3, <2>1
<1> QED BY <1>1, <1>4 DEF At, x

(* The blocks that went in before the close went in as they are to.          *)
LEMMA Before ==
  ASSUME TypeInv, phase = "open", input = <<>>,
         alg \in {"skein", "simd", "hamsi"} => Len(out) < Count(alg, fed)
  PROVE  \A i \in 1..Len(out) : Tweak(alg, fed, i) = Body(alg)[i]
<1> DEFINE b == BlockLen[alg]
           k == Len(out)
           l == Len(buf)
<1>1. b \in Nat \ {0} /\ k \in Nat /\ l \in Nat /\ fed \in Nat /\ fed = b * k + l
  BY EndsAt DEF At
<1> SUFFICES ASSUME NEW i \in 1..k PROVE Tweak(alg, fed, i) = Body(alg)[i]
  OBVIOUS
<1>2. i \in Nat /\ i - 1 \in Nat /\ i <= k
  BY <1>1
<1>3. b * i <= fed /\ b * i \in Nat /\ b * (i - 1) < fed
  <2>1. b * i <= b * k /\ b * i \in Nat /\ b * k \in Nat
    BY <1>1, <1>2, TimesLess
  <2> DEFINE j == i - 1
  <2>2. j \in Nat /\ i = j + 1
    BY <1>2
  <2>3. b * (j + 1) = b * j + b /\ b * j \in Nat
    BY <1>1, <2>2, NextTimes
  <2> DEFINE x == b * k
             y == b * i
             z == b * j
  <2>4. x \in Nat /\ y \in Nat /\ z \in Nat /\ y <= x /\ y = z + b /\ fed = x + l
    BY <1>1, <2>1, <2>2, <2>3
  <2> HIDE DEF x, y, z, j
  <2>5. y <= fed /\ z < fed
    BY <1>1, <2>4
  <2> QED BY <2>4, <2>5 DEF y, z, j
<1>4. Lower(fed, b * i) = b * i
  <2> DEFINE y == b * i
  <2>1. y \in Nat /\ y <= fed
    BY <1>3
  <2> HIDE DEF y
  <2>2. Lower(fed, y) = y
    BY <1>1, <2>1 DEF Lower
  <2> QED BY <2>2 DEF y
<1>5. CASE alg \in {"blake", "shavite", "echo"}
  <2>1. b = 128
    BY <1>5, BlockIs
  <2>2. BitsAt(alg, fed, i) = 8 * Lower(fed, b * i)
    <3> DEFINE z == b * (i - 1)
    <3>1. z \in Nat /\ z < fed
      BY <1>1, <1>2, <1>3
    <3>2. BitsAt(alg, fed, i) = IF z >= fed THEN 0 ELSE 8 * Lower(fed, b * i)
      BY DEF BitsAt
    <3> HIDE DEF z
    <3>3. ~(z >= fed)
      BY <1>1, <3>1
    <3> QED BY <3>2, <3>3
  <2>3. BitsAt(alg, fed, i) = 1024 * i
    BY <1>2, <1>4, <2>1, <2>2
  <2> QED BY <1>2, <1>5, <2>3 DEF Tweak, Body
<1>6. CASE alg = "skein"
  <2>1. b = 64
    BY <1>6, BlockIs
  <2>2. Lower(fed, 64 * i) = 64 * i
    BY <1>4, <2>1
  <2>3. i # Count(alg, fed)
    <3> DEFINE c == Count(alg, fed)
    <3>1. k < c
      BY <1>6
    <3> HIDE DEF c
    <3>2. i # c
      BY <1>1, <1>2, <3>1
    <3> QED BY <3>2 DEF c
  <2>4. Tweak(alg, fed, i) = InWords(64 * i, Word[alg], 2) \o <<96 + 128 * Flag(i = 1) + 256 * 0>>
    BY <1>6, <2>2, <2>3 DEF Tweak, Flag
  <2>5. 96 + 128 * Flag(i = 1) + 256 * 0 = 96 + 128 * Flag(i = 1)
    BY DEF Flag
  <2>6. Body(alg)[i] = InWords(64 * i, Word[alg], 2) \o <<96 + 128 * Flag(i = 1)>>
    BY <1>2, <1>6 DEF Body
  <2> QED BY <2>4, <2>5, <2>6
<1>7. CASE alg \in {"simd", "hamsi"}
  <2>1. i # Count(alg, fed)
    <3> DEFINE c == Count(alg, fed)
    <3>1. k < c
      BY <1>7
    <3> HIDE DEF c
    <3>2. i # c
      BY <1>1, <1>2, <3>1
    <3> QED BY <3>2 DEF c
  <2> QED BY <1>2, <1>7, <2>1 DEF Tweak, Body, Flag
<1>8. CASE alg \notin {"blake", "shavite", "echo", "skein", "simd", "hamsi"}
  BY <1>2, <1>8 DEF Tweak, Body
<1> QED BY <1>5, <1>6, <1>7, <1>8

(* The message bits that the last block, and one after it, hold.             *)
LEMMA BitsNow ==
  ASSUME NEW a, BlockLen[a] = 128, NEW k, NEW l, NEW m, At(128, k, l, m), l <= 128
  PROVE  /\ BitsAt(a, m, k + 1) = IF l = 0 THEN 0 ELSE 8 * m
         /\ BitsAt(a, m, k + 2) = 0
<1>1. k \in Nat /\ l \in Nat /\ m \in Nat /\ m = 128 * k + l
  BY DEF At
<1>2. k + 1 - 1 = k /\ k + 2 - 1 = k + 1
  BY <1>1
<1>3. l = 0 <=> 128 * k >= m
  BY <1>1
<1>4. Lower(m, 128 * (k + 1)) = m
  BY <1>1 DEF Lower
<1>5. 128 * (k + 1) >= m
  BY <1>1
<1> HIDE DEF At
<1>6. BitsAt(a, m, k + 1) = IF l = 0 THEN 0 ELSE 8 * m
  <2> DEFINE b == BlockLen[a]
  <2> DEFINE j == k + 1
  <2>4. BitsAt(a, m, j) = IF b * (j - 1) >= m THEN 0 ELSE 8 * Lower(m, b * j)
    <3> HIDE DEF j
    <3> QED BY DEF BitsAt
  <2>3. b = 128
    OBVIOUS
  <2> HIDE DEF b
  <2>2. BitsAt(a, m, k + 1) = IF b * (k + 1 - 1) >= m THEN 0 ELSE 8 * Lower(m, b * (k + 1))
    BY <1>1, <2>4 DEF j
  <2> HIDE DEF j
  <2>1. BitsAt(a, m, k + 1) = IF 128 * (k + 1 - 1) >= m THEN 0 ELSE 8 * Lower(m, 128 * (k + 1))
    BY <2>2, <2>3
  <2> QED BY <1>2, <1>3, <1>4, <2>1
<1>7. BitsAt(a, m, k + 2) = 0
  <2> DEFINE b == BlockLen[a]
  <2> DEFINE j == k + 2
  <2>4. BitsAt(a, m, j) = IF b * (j - 1) >= m THEN 0 ELSE 8 * Lower(m, b * j)
    <3> HIDE DEF j
    <3> QED BY DEF BitsAt
  <2>3. b = 128
    OBVIOUS
  <2> HIDE DEF b
  <2>2. BitsAt(a, m, k + 2) = IF b * (k + 2 - 1) >= m THEN 0 ELSE 8 * Lower(m, b * (k + 2))
    BY <1>1, <2>4 DEF j
  <2> HIDE DEF j
  <2>1. BitsAt(a, m, k + 2) = IF 128 * (k + 2 - 1) >= m THEN 0 ELSE 8 * Lower(m, 128 * (k + 2))
    BY <2>2, <2>3
  <2> QED BY <1>2, <1>5, <2>1
<1> QED BY <1>6, <1>7

(* The digest is there, and is what it is defined to be.                     *)
Ended == phase' = "done" /\ input' = <<>> /\ out' = Standard(alg, fed) /\ UNCHANGED <<alg, fed>>

LEMMA OneClosed ==
  ASSUME TypeInv, phase = "open", Consumed, input = <<>>,
         \A i \in 1..Len(out) : Tweak(alg, fed, i) = Body(alg)[i],
         NEW p \in Seq(Int), p = Padding(alg, fed), Len(buf) + Len(p) = BlockLen[alg],
         NEW x \in Seq(Nat), x = Tweak(alg, fed, Len(out) + 1),
         NEW r \in Seq(Compression), r = Output(alg, fed)
  PROVE  Standard(alg, fed) = WithOne(out, buf, p, x, r)
<1> DEFINE tw == Body(alg)
<1>1. alg \in Algo /\ fed \in Nat /\ out \in Seq(Compression) /\ buf \in Seq(Int)
  BY TypeFacts
<1>2. Holds(BlockLen[alg], out, buf, <<>>, <<>>, Message(0, fed), tw)
  BY DEF Consumed, TypeInv, Taking
<1>3. \A i \in 1..Len(out) : Tweak(alg, fed, i) = tw[i]
  OBVIOUS
<1> HIDE DEF tw
<1>4. EndsInOne(alg, fed, out, buf, tw, p, x, r)
  BY <1>1, <1>2, <1>3 DEF EndsInOne
<1> QED BY <1>4, OneBlock

LEMMA TwoClosed ==
  ASSUME TypeInv, phase = "open", Consumed, input = <<>>,
         \A i \in 1..Len(out) : Tweak(alg, fed, i) = Body(alg)[i],
         NEW p \in Seq(Int), NEW u \in Seq(Int), p \o u = Padding(alg, fed),
         Len(buf) + Len(p) = BlockLen[alg], Len(u) = BlockLen[alg],
         NEW x \in Seq(Nat), x = Tweak(alg, fed, Len(out) + 1),
         NEW y \in Seq(Nat), y = Tweak(alg, fed, Len(out) + 2),
         NEW r \in Seq(Compression), r = Output(alg, fed)
  PROVE  Standard(alg, fed) = WithTwo(out, buf, p, x, u, y, r)
<1> DEFINE tw == Body(alg)
<1>1. alg \in Algo /\ fed \in Nat /\ out \in Seq(Compression) /\ buf \in Seq(Int)
  BY TypeFacts
<1>2. Holds(BlockLen[alg], out, buf, <<>>, <<>>, Message(0, fed), tw)
  BY DEF Consumed, TypeInv, Taking
<1>3. \A i \in 1..Len(out) : Tweak(alg, fed, i) = tw[i]
  OBVIOUS
<1> HIDE DEF tw
<1>4. EndsInTwo(alg, fed, out, buf, tw, p, u, x, y, r)
  BY <1>1, <1>2, <1>3 DEF EndsInTwo
<1> QED BY <1>4, TwoBlocks

LEMMA CloseOne ==
  ASSUME TypeInv, phase = "open", Consumed, input = <<>>,
         \A i \in 1..Len(out) : Tweak(alg, fed, i) = Body(alg)[i],
         NEW p \in Seq(Int), p = Padding(alg, fed), Len(buf) + Len(p) = BlockLen[alg],
         NEW x \in Seq(Nat), x = Tweak(alg, fed, Len(out) + 1),
         NEW r \in Seq(Compression), r = Output(alg, fed), Digest(One(buf, p, x, r))
  PROVE  Ended
<1>1. Standard(alg, fed) = WithOne(out, buf, p, x, r)
  BY OneClosed
<1> QED BY <1>1 DEF Digest, Ended, WithOne

LEMMA CloseTwo ==
  ASSUME TypeInv, phase = "open", Consumed, input = <<>>,
         \A i \in 1..Len(out) : Tweak(alg, fed, i) = Body(alg)[i],
         NEW p \in Seq(Int), NEW u \in Seq(Int), p \o u = Padding(alg, fed),
         Len(buf) + Len(p) = BlockLen[alg], Len(u) = BlockLen[alg],
         NEW x \in Seq(Nat), x = Tweak(alg, fed, Len(out) + 1),
         NEW y \in Seq(Nat), y = Tweak(alg, fed, Len(out) + 2),
         NEW r \in Seq(Compression), r = Output(alg, fed), Digest(Two(buf, p, x, u, y, r))
  PROVE  Ended
<1>1. Standard(alg, fed) = WithTwo(out, buf, p, x, u, y, r)
  BY TwoClosed, ZenonT(60)
<1> QED BY <1>1 DEF Digest, Ended, WithTwo

LEMMA PairCat ==
  ASSUME NEW S, NEW f \in S, NEW e \in S
  PROVE  <<f>> \o <<e>> = <<f, e>>
<1> DEFINE s == <<f>>
           t == <<e>>
           c == s \o t
           z == <<f, e>>
<1>1. s \in Seq(S) /\ t \in Seq(S) /\ z \in Seq(S) /\ Len(s) = 1 /\ Len(t) = 1 /\ Len(z) = 2
  OBVIOUS
<1>2. s[1] = f /\ t[1] = e /\ z[1] = f /\ z[2] = e
  OBVIOUS
<1> HIDE DEF s, t, z
<1>3. /\ c \in Seq(S) /\ Len(c) = Len(s) + Len(t)
      /\ \A i \in 1..(Len(s) + Len(t)) : c[i] = IF i <= Len(s) THEN s[i] ELSE t[i - Len(s)]
  BY <1>1, ConcatProperties
<1> HIDE DEF c
<1>4. Len(c) = 2 /\ c[1] = f /\ c[2] = e
  BY <1>1, <1>2, <1>3
<1>5. \A i \in 1..Len(c) : c[i] = z[i]
  <2>1. 1..Len(c) = {1, 2}
    BY <1>4
  <2> QED BY <1>2, <1>4, <2>1
<1>6. c = z
  BY <1>1, <1>3, <1>4, <1>5, SeqEqual
<1> QED BY <1>6 DEF c, s, t, z

LEMMA TripleCat ==
  ASSUME NEW S, NEW f \in S, NEW g \in S, NEW e \in S
  PROVE  <<f>> \o <<g, e>> = <<f, g, e>>
<1> DEFINE s == <<f>>
           t == <<g, e>>
           c == s \o t
           z == <<f, g, e>>
<1>1. s \in Seq(S) /\ t \in Seq(S) /\ z \in Seq(S) /\ Len(s) = 1 /\ Len(t) = 2 /\ Len(z) = 3
  OBVIOUS
<1>2. s[1] = f /\ t[1] = g /\ t[2] = e /\ z[1] = f /\ z[2] = g /\ z[3] = e
  OBVIOUS
<1> HIDE DEF s, t, z
<1>3. /\ c \in Seq(S) /\ Len(c) = Len(s) + Len(t)
      /\ \A i \in 1..(Len(s) + Len(t)) : c[i] = IF i <= Len(s) THEN s[i] ELSE t[i - Len(s)]
  BY <1>1, ConcatProperties
<1> HIDE DEF c
<1>4. Len(c) = 3 /\ c[1] = f /\ c[2] = g /\ c[3] = e
  BY <1>1, <1>2, <1>3
<1>5. \A i \in 1..Len(c) : c[i] = z[i]
  <2>1. 1..Len(c) = {1, 2, 3}
    BY <1>4
  <2> QED BY <1>2, <1>4, <2>1
<1>6. c = z
  BY <1>1, <1>3, <1>4, <1>5, SeqEqual
<1> QED BY <1>6 DEF c, s, t, z

(* Lists of one, two and three compressions.                                 *)
LEMMA ListIs ==
  ASSUME NEW s, NEW p, NEW x, NEW u, NEW y, Entry(s \o p, x) \in Compression, Entry(u, y) \in Compression,
         NEW e \in Compression
  PROVE  /\ One(s, p, x, <<>>) = <<Entry(s \o p, x)>>
         /\ One(s, p, x, <<e>>) = <<Entry(s \o p, x), e>>
         /\ Two(s, p, x, u, y, <<>>) = <<Entry(s \o p, x), Entry(u, y)>>
         /\ Two(s, p, x, u, y, <<e>>) = <<Entry(s \o p, x), Entry(u, y), e>>
<1> DEFINE f == Entry(s \o p, x)
           g == Entry(u, y)
<1> HIDE DEF f, g
<1>1. One(s, p, x, <<>>) = <<f>> \o <<>> /\ One(s, p, x, <<e>>) = <<f>> \o <<e>>
  BY DEF One, f
<1>2. /\ Two(s, p, x, u, y, <<>>) = <<f>> \o (<<g>> \o <<>>)
      /\ Two(s, p, x, u, y, <<e>>) = <<f>> \o (<<g>> \o <<e>>)
  BY DEF Two, f, g
<1>3. <<f>> \o <<>> = <<f>> /\ <<g>> \o <<>> = <<g>>
  OBVIOUS
<1>6. f \in Compression /\ g \in Compression
  BY DEF f, g
<1>4. <<f>> \o <<e>> = <<f, e>> /\ <<g>> \o <<e>> = <<g, e>> /\ <<f>> \o <<g>> = <<f, g>>
  BY <1>6, PairCat
<1>5. <<f>> \o <<g, e>> = <<f, g, e>>
  BY <1>6, TripleCat
<1> QED BY <1>1, <1>2, <1>3, <1>4, <1>5 DEF f, g

LEMMA BlocksAre ==
  ASSUME NEW b \in Int, NEW s \in Seq(Int), NEW e \in Seq(Int)
  PROVE  HereBlock(b, s, e) \in Seq(Int) /\ OverBlock(b, s) \in Seq(Int) /\ SecondPad(b, e) \in Seq(Int)
<1> DEFINE o == s \o <<Byte(128)>>
           i == b - Len(e) - (Len(s) + 1)
           j == b - (Len(s) + 1)
           k == b - Len(e)
<1>1. o \in Seq(Int)
  BY OneIs, CatType
<1>2. i \in Int /\ j \in Int /\ k \in Int
  BY LenProperties
<1> HIDE DEF o, i, j, k
<1>3. Zeros(i) \in Seq(Int) /\ Zeros(j) \in Seq(Int) /\ Zeros(k) \in Seq(Int)
  BY <1>2, ZerosSeq
<1>4. o \o Zeros(i) \in Seq(Int) /\ o \o Zeros(j) \in Seq(Int) /\ Zeros(k) \o e \in Seq(Int)
  BY <1>1, <1>3, CatSeq
<1>5. (o \o Zeros(i)) \o e \in Seq(Int)
  BY <1>4, CatSeq
<1> QED BY <1>4, <1>5 DEF HereBlock, OverBlock, SecondPad, o, i, j, k

(* What the close compresses: e pads it, x goes in with the first block, y   *)
(* with the second if there is one, and r comes after.                       *)
Closed(b, e, x, y, r, es) ==
  IF Len(buf) + 1 + Len(e) <= b THEN es = <<Entry(HereBlock(b, buf, e), x)>> \o r
  ELSE es = <<Entry(OverBlock(b, buf), x)>> \o (<<Entry(SecondPad(b, e), y)>> \o r)

LEMMA PadClose ==
  ASSUME TypeInv, phase = "open", Consumed, input = <<>>, ~Lazy(alg),
         \A i \in 1..Len(out) : Tweak(alg, fed, i) = Body(alg)[i],
         NEW b, b = BlockLen[alg], NEW e \in Seq(Int), Padding(alg, fed) = EndPad(b, fed, e), Len(e) <= b,
         NEW x \in Seq(Nat), x = Tweak(alg, fed, Len(out) + 1),
         NEW y \in Seq(Nat), y = Tweak(alg, fed, Len(out) + 2),
         NEW r \in Seq(Compression), r = Output(alg, fed),
         NEW es, Digest(es), Closed(b, e, x, y, r, es)
  PROVE  Ended
<1> DEFINE l == Len(buf)
           k == Len(out)
<1>1. At(b, k, l, fed) /\ buf \in Seq(Int) /\ l \in Nat /\ l < b /\ b \in Nat /\ Len(e) \in Nat
  BY EndsAt, TypeFacts, BlockType, BufferFits, LenProperties
<1>2. CASE l + 1 + Len(e) <= b
  <2> DEFINE p == EndPad(b, fed, e)
  <2>1. PadsHere(b, k, l, fed, buf, e, p)
    BY <1>1, <1>2 DEF PadsHere
  <2> HIDE DEF p, l, k
  <2>2. p \in Seq(Int) /\ l + Len(p) = b
    BY <2>1, PadHere
  <2>3. IsCat(buf, p, HereBlock(b, buf, e))
    BY <2>1, PadHere
  <2>4. buf \o p = HereBlock(b, buf, e)
    BY <2>3 DEF IsCat
  <2>5. es = One(buf, p, x, r)
    BY <1>2, <2>4 DEF Closed, One, l
  <2>6. Digest(One(buf, p, x, r))
    BY <2>5
  <2>7. p = Padding(alg, fed) /\ Len(buf) + Len(p) = BlockLen[alg]
    BY <2>2 DEF p, l
  <2> QED BY <2>2, <2>6, <2>7, CloseOne
<1>3. CASE ~(l + 1 + Len(e) <= b)
  <2> DEFINE p == FirstPad(b, l)
             u == SecondPad(b, e)
  <2>1. PadsOver(b, k, l, fed, buf, e, p, u)
    BY <1>1, <1>3 DEF PadsOver
  <2> HIDE DEF p, u, l, k
  <2>2. p \in Seq(Int) /\ l + Len(p) = b /\ u \in Seq(Int) /\ Len(u) = b
    BY <2>1, PadOver
  <2>3. IsCat(p, u, EndPad(b, fed, e))
    BY <2>1, PadOver
  <2>8. IsCat(buf, p, OverBlock(b, buf))
    BY <2>1, PadOver
  <2>4. buf \o p = OverBlock(b, buf) /\ p \o u = EndPad(b, fed, e)
    BY <2>3, <2>8 DEF IsCat
  <2>5. es = Two(buf, p, x, u, y, r)
    BY <1>3, <2>4 DEF Closed, Two, l, u
  <2>6. Digest(Two(buf, p, x, u, y, r))
    BY <2>5
  <2>7. p \o u = Padding(alg, fed) /\ Len(buf) + Len(p) = BlockLen[alg] /\ Len(u) = BlockLen[alg]
    BY <2>2, <2>4 DEF l
  <2> QED BY <2>2, <2>6, <2>7, CloseTwo
<1> QED BY <1>2, <1>3

LEMMA OneLength ==
  ASSUME NEW s \in Seq(Int)
  PROVE  Len(s \o <<Byte(128)>>) = Len(s) + 1 /\ s \o <<Byte(128)>> \in Seq(Int)
BY OneIs, CatType

LEMMA EightIs ==
  ASSUME NEW c \in Nat
  PROVE  /\ LittleEndian(c, 8) \in Seq(Int) /\ Len(LittleEndian(c, 8)) = 8
         /\ BigEndian(c, 8) \in Seq(Int) /\ Len(BigEndian(c, 8)) = 8
<1> DEFINE m == 8
<1>1. m \in Nat
  OBVIOUS
<1> HIDE DEF m
<1>2. LittleEndian(c, m) \in Bytes(m) /\ BigEndian(c, m) \in Bytes(m)
  BY <1>1, EndianType
<1>3. /\ LittleEndian(c, m) \in Seq(Int) /\ Len(LittleEndian(c, m)) = m
      /\ BigEndian(c, m) \in Seq(Int) /\ Len(BigEndian(c, m)) = m
  BY <1>1, <1>2, BytesIs
<1> QED BY <1>3 DEF m

LEMMA ListsAre ==
  ASSUME NEW f \in Compression, NEW g \in Compression, NEW h \in Compression
  PROVE  /\ <<f>> \o <<>> = <<f>>
         /\ <<f>> \o <<g>> = <<f, g>>
         /\ <<f>> \o (<<g>> \o <<>>) = <<f, g>>
         /\ <<f>> \o (<<g>> \o <<h>>) = <<f, g, h>>
<1>1. <<f>> \o <<>> = <<f>> /\ <<g>> \o <<>> = <<g>>
  OBVIOUS
<1>2. <<f>> \o <<g>> = <<f, g>> /\ <<g>> \o <<h>> = <<g, h>>
  BY PairCat
<1>3. <<f>> \o <<g, h>> = <<f, g, h>>
  BY TripleCat
<1> QED BY <1>1, <1>2, <1>3

LEMMA FirstCount ==
  ASSUME TypeInv, alg \notin {"keccak", "luffa", "cubehash", "sha3"}
  PROVE  cnt[1] \in Nat
<1>1. alg \in Algo /\ fast \in BOOLEAN /\ Len(cnt) = Counters(fast, alg)
  BY TypeFacts
<1>2. Counters(fast, alg) \in {1, 2, 4}
  BY <1>1 DEF Counters
<1>3. 1 \in 1..Len(cnt)
  BY <1>1, <1>2
<1> QED BY <1>3, CountType

LEMMA SecondCount ==
  ASSUME TypeInv, alg \in {"blake", "fugue", "shabal", "shavite", "echo"} \/ (alg = "simd" /\ ~fast)
  PROVE  cnt[1] \in Nat /\ cnt[2] \in Nat
<1>1. alg \in Algo /\ fast \in BOOLEAN /\ Len(cnt) = Counters(fast, alg)
  BY TypeFacts
<1>2. Counters(fast, alg) \in {2, 4}
  BY <1>1 DEF Counters
<1>3. 1 \in 1..Len(cnt) /\ 2 \in 1..Len(cnt)
  BY <1>1, <1>2
<1> QED BY <1>3, CountType

LEMMA BmwEnds ==
  ASSUME TypeInv, phase = "open", Consumed, Counted, BmwClose
  PROVE  Ended
<1> DEFINE b == 128
           l == Len(buf)
           e == LittleEndian(cnt[1], 8)
           w == Word["bmw"]
           one == buf \o <<Byte(128)>>
           z == <<>>
           r == <<BmwFinal>>
           f == Entry(OverBlock(b, buf), z)
           g == Entry(SecondPad(b, e), z)
           h == Entry(HereBlock(b, buf, e), z)
<1>1. alg = "bmw" /\ Closing /\ input = <<>> /\ ~Lazy(alg) /\ b = BlockLen[alg] /\ b \in Nat
  BY BlockIs DEF BmwClose, Common, Closing, Lazy
<1>2. l \in 0..127 /\ buf \in Seq(Int) /\ cnt[1] \in Nat
  <2>1. Len(buf) \in 0..(b - 1) /\ buf \in Seq(Int)
    BY <1>1, ClosingFacts
  <2>2. cnt[1] \in Nat
    BY <1>1, FirstCount
  <2> QED BY <2>1, <2>2
<1>3. e \in Seq(Int) /\ Len(e) = 8
  BY <1>2, EightIs
<1>4. Padding(alg, fed) = EndPad(b, fed, e)
  <2>1. cnt[1] = (8 * fed) % w
    BY <1>1 DEF Counted
  <2>2. InWords(8 * fed, w, 1)[1] = (8 * fed) % w
    BY DEF InWords
  <2>3. Padding(alg, fed) = OneAndZeros(128, fed, 8) \o LittleEndian(InWords(8 * fed, w, 1)[1], 8)
    BY <1>1 DEF Padding
  <2> QED BY <1>3, <2>1, <2>2, <2>3 DEF EndPad
<1>5. \A i \in 1..Len(out) : Tweak(alg, fed, i) = Body(alg)[i]
  BY <1>1, Before
<1>6. z \in Seq(Nat) /\ z = Tweak(alg, fed, Len(out) + 1) /\ z = Tweak(alg, fed, Len(out) + 2)
  BY <1>1 DEF Tweak
<1>7. BmwFinal \in Compression /\ r \in Seq(Compression) /\ r = Output(alg, fed)
  <2>1. BmwFinal \in Compression
    BY BlankPlain DEF BmwFinal
  <2>2. Output(alg, fed) = <<Blank(<<>>)>>
    BY <1>1 DEF Output
  <2> QED BY <2>1, <2>2, EntriesType DEF BmwFinal
<1>8. Len(one) = l + 1 /\ one \in Seq(Int)
  BY <1>2, OneLength
<1>9. f \in Compression /\ g \in Compression /\ h \in Compression
  <2>1. HereBlock(b, buf, e) \in Seq(Int) /\ OverBlock(b, buf) \in Seq(Int) /\ SecondPad(b, e) \in Seq(Int)
    <3> HIDE DEF b, e
    <3> QED BY <1>1, <1>2, <1>3, BlocksAre
  <2> QED BY <2>1, PlainEntry
<1>10. OverBlock(b, buf) = one \o Zeros(128 - Len(one)) /\ SecondPad(b, e) = Zeros(120) \o e
  <2>1. b - Len(e) = 120 /\ b - (Len(buf) + 1) = 128 - Len(one)
    <3> HIDE DEF one, e
    <3> QED BY <1>3, <1>8
  <2> HIDE DEF b, one, e
  <2> QED BY <2>1 DEF OverBlock, SecondPad, one
<1>11. HereBlock(b, buf, e) = one \o Zeros(120 - Len(one)) \o e
  <2>1. b - Len(e) - (Len(buf) + 1) = 120 - Len(one)
    <3> HIDE DEF one, e
    <3> QED BY <1>3, <1>8
  <2> HIDE DEF b, one, e
  <2> QED BY <2>1 DEF HereBlock, one
<1>12. IF Len(one) > 120 THEN Digest(<<f, g, BmwFinal>>) ELSE Digest(<<h, BmwFinal>>)
  BY <1>10, <1>11 DEF BmwClose, BmwCompress
<1>13. Len(one) > 120 <=> ~(Len(buf) + 1 + Len(e) <= b)
  <2> HIDE DEF one, e
  <2> QED BY <1>2, <1>3, <1>8
<1>14. Len(e) <= b
  <2> HIDE DEF e
  <2> QED BY <1>3
<1>15. <<f, g, BmwFinal>> = <<f>> \o (<<g>> \o r) /\ <<h, BmwFinal>> = <<h>> \o r
  BY <1>7, <1>9, ListsAre
<1> DEFINE es == IF Len(one) > 120 THEN <<f, g, BmwFinal>> ELSE <<h, BmwFinal>>
<1>16. Digest(es)
  BY <1>12
<1>17. Closed(b, e, z, z, r, es)
  BY <1>13, <1>15 DEF Closed
<1> HIDE DEF b, e, z, r, es
<1> QED BY <1>1, <1>3, <1>4, <1>5, <1>6, <1>7, <1>14, <1>16, <1>17, PadClose

(* The close that pads with the bit and zeros only.                          *)
LEMMA BarePad ==
  ASSUME TypeInv, phase = "open", input = <<>>, ~Lazy(alg), NEW b, b = BlockLen[alg],
         NEW p, p = OneAndZeros(b, fed, 0)
  PROVE  p \in Seq(Int) /\ Len(buf) + Len(p) = b /\ IsCat(buf, p, OverBlock(b, buf))
<1> DEFINE l == Len(buf)
           k == Len(out)
           e == <<>>
           ep == EndPad(b, fed, e)
           o == <<Byte(128)>>
<1>1. At(b, k, l, fed) /\ buf \in Seq(Int) /\ l \in Nat /\ l < b /\ b \in Nat /\ fed \in Nat
  BY EndsAt, TypeFacts, BlockType, BufferFits
<1>2. e \in Seq(Int) /\ Len(e) = 0
  OBVIOUS
<1>3. o \in Seq(Int) /\ buf \o o \in Seq(Int)
  BY <1>1, OneIs, CatType
<1> DEFINE g == b - Len(e) - (l + 1)
           h == b - (l + 1)
           oz == OneAndZeros(b, fed, 0)
           q == Gap(b, fed + 1 + 0)
<1>9. oz = o \o Zeros(q)
  BY DEF OneAndZeros
<1>4. g = h /\ g \in Nat
  BY <1>1, <1>2
<1>6. HereBlock(b, buf, e) = ((buf \o o) \o Zeros(g)) \o e
  BY DEF HereBlock
<1>7. OverBlock(b, buf) = (buf \o o) \o Zeros(h)
  BY DEF OverBlock
<1>5. PadsHere(b, k, l, fed, buf, e, ep)
  BY <1>1, <1>2 DEF PadsHere
<1>8. ep = OneAndZeros(b, fed, 0) \o e
  <2>1. Len(e) = 0
    BY <1>2
  <2> HIDE DEF e
  <2> QED BY <2>1 DEF EndPad
<1> HIDE DEF ep, l, k, o, g, h
<1>10. q \in Int
  <2>1. fed + 1 + 0 \in Nat /\ b \in Nat \ {0}
    BY <1>1, BlockType
  <2> DEFINE m == fed + 1 + 0
  <2> HIDE DEF m
  <2>2. m % b \in Int
    BY <2>1 DEF m
  <2>3. (b - (m % b)) % b \in Int
    BY <2>1, <2>2
  <2> QED BY <2>3 DEF q, m, Gap
<1> HIDE DEF q
<1>11. oz \in Seq(Int)
  <2>1. Zeros(q) \in Seq(Int)
    BY <1>10, ZerosSeq
  <2> QED BY <1>3, <1>9, <2>1, CatSeq
<1>12. (buf \o o) \o Zeros(h) \in Seq(Int)
  <2>1. Zeros(h) \in Seq(Int)
    BY <1>4, ZerosSeq
  <2> QED BY <1>3, <2>1, CatSeq
<1> HIDE DEF oz
<1>13. ep = oz
  BY <1>8, <1>11 DEF oz
<1>14. HereBlock(b, buf, e) = OverBlock(b, buf)
  <2> DEFINE c == (buf \o o) \o Zeros(h)
  <2>1. c \in Seq(Int)
    BY <1>12
  <2>2. HereBlock(b, buf, e) = c \o <<>>
    BY <1>4, <1>6
  <2> HIDE DEF c
  <2>3. c \o <<>> = c
    BY <2>1
  <2> QED BY <1>7, <2>2, <2>3 DEF c
<1>15. ep \in Seq(Int) /\ l + Len(ep) = b
  BY <1>5, PadHere
<1>16. IsCat(buf, ep, HereBlock(b, buf, e))
  BY <1>5, PadHere
<1>17. ep = p
  BY <1>13 DEF oz
<1> QED BY <1>14, <1>15, <1>16, <1>17 DEF l

LEMMA BareClose ==
  ASSUME TypeInv, phase = "open", Consumed, input = <<>>, ~Lazy(alg),
         \A i \in 1..Len(out) : Tweak(alg, fed, i) = Body(alg)[i],
         NEW b, b = BlockLen[alg], Padding(alg, fed) = OneAndZeros(b, fed, 0),
         NEW x \in Seq(Nat), x = Tweak(alg, fed, Len(out) + 1),
         NEW r \in Seq(Compression), r = Output(alg, fed),
         Digest(<<Entry(OverBlock(b, buf), x)>> \o r)
  PROVE  Ended
<1> DEFINE p == Padding(alg, fed)
<1>1. p \in Seq(Int) /\ Len(buf) + Len(p) = b /\ IsCat(buf, p, OverBlock(b, buf))
  BY BarePad
<1>2. buf \o p = OverBlock(b, buf)
  BY <1>1 DEF IsCat
<1>3. Digest(One(buf, p, x, r))
  BY <1>2 DEF One
<1>4. p = Padding(alg, fed)
  OBVIOUS
<1> HIDE DEF p
<1> QED BY <1>1, <1>3, <1>4, CloseOne

(* How many blocks a message that is padded now has.                         *)
LEMMA PadCount ==
  ASSUME TypeInv, phase = "open", input = <<>>, Padding(alg, fed) \in Seq(Int),
         NEW j \in Nat, Len(buf) + Len(Padding(alg, fed)) = BlockLen[alg] * j
  PROVE  Count(alg, fed) = Len(out) + j
<1> DEFINE b == BlockLen[alg]
           k == Len(out)
           l == Len(buf)
           p == Padding(alg, fed)
           q == k + j
<1>1. b \in Nat \ {0} /\ k \in Nat /\ l \in Nat /\ fed \in Nat /\ fed = b * k + l /\ alg \in Algo
  BY EndsAt, TypeFacts DEF At
<1>2. p \in Seq(Int) /\ Len(p) \in Nat /\ l + Len(p) = b * j /\ p = Padding(alg, fed)
  BY LenProperties
<1>3. b * q = b * k + b * j /\ b * k \in Nat /\ b * j \in Nat
  BY <1>1, SMTT(40)
<1>4. q \in Nat
  BY <1>1
<1> DEFINE y == b * k
           z == b * j
           n_ == Len(p)
<1>5. y \in Nat /\ z \in Nat /\ n_ \in Nat /\ l + n_ = z /\ fed = y + l /\ b * q = y + z
  BY <1>1, <1>2, <1>3
<1> HIDE DEF y, z, n_, l, k, q
<1>6. fed + n_ = b * q
  BY <1>1, <1>5, SMTT(40)
<1>7. fed + Len(p) = BlockLen[alg] * q
  BY <1>6 DEF n_
<1> HIDE DEF p, b
<1>8. Count(alg, fed) = q
  BY <1>1, <1>2, <1>4, <1>7, CountIs
<1> QED BY <1>8 DEF q, k

-----------------------------------------------------------------------------
LEMMA BufferLeft ==
  ASSUME TypeInv, NEW b, b = BlockLen[alg], ~Lazy(alg)
  PROVE  b \in Nat /\ Len(buf) \in Nat /\ Len(buf) < b /\ buf \in Seq(Int)
BY TypeFacts, BlockType, BufferFits

(* A fast function in units has whole units in its buffer.                   *)
LEMMA UnitsLeft ==
  ASSUME TypeInv, phase = "open", input = <<>>, Sized, InUnits(alg)
  PROVE  Len(buf) % 16 = 0
<1> DEFINE l == Len(buf)
           k == Len(out)
<1>1. At(BlockLen[alg], k, l, fed) /\ fed % 16 = 0
  BY EndsAt DEF Sized
<1>2. k \in Nat /\ l \in Nat /\ fed \in Nat /\ fed = BlockLen[alg] * k + l
  BY <1>1 DEF At
<1>3. BlockLen[alg] \in {32, 128}
  BY BlockIs DEF InUnits
<1> HIDE DEF k, l
<1>4. CASE BlockLen[alg] = 32
  <2>1. fed = 32 * k + l /\ fed % 16 = 0
    BY <1>1, <1>2, <1>4
  <2>2. l % 16 = 0
    BY <1>2, <2>1
  <2> QED BY <2>2 DEF l
<1>5. CASE BlockLen[alg] = 128
  <2>1. fed = 128 * k + l /\ fed % 16 = 0
    BY <1>1, <1>2, <1>5
  <2>2. l % 16 = 0
    BY <1>2, <2>1
  <2> QED BY <2>2 DEF l
<1> QED BY <1>3, <1>4, <1>5

LEMMA BlankPair ==
  /\ Blank(<<>>) = Entry(<<>>, <<>>) /\ Entry(<<>>, <<>>) \in Compression
  /\ <<Entry(<<>>, <<>>), Entry(<<>>, <<>>)>> \in Seq(Compression)
<1>1. Entry(<<>>, <<>>) \in Compression
  <2>1. <<>> \in Seq(Int)
    OBVIOUS
  <2> QED BY <2>1, PlainEntry
<1>2. <<Entry(<<>>, <<>>), Entry(<<>>, <<>>)>> \in Seq(Compression)
  BY <1>1, EntriesType
<1> QED BY <1>1, <1>2 DEF Blank

LEMMA OverIs ==
  ASSUME NEW b \in Nat, NEW s \in Seq(Int)
  PROVE  /\ OverBlock(b, s) = (s \o <<Byte(128)>>) \o Zeros(b - (Len(s) + 1))
         /\ OverBlock(b, s) = s \o (<<Byte(128)>> \o Zeros(b - (Len(s) + 1)))
         /\ OverBlock(b, s) \in Seq(Int)
<1> DEFINE o == <<Byte(128)>>
           g == b - (Len(s) + 1)
           z == Zeros(g)
<1>1. g \in Int
  BY LenProperties
<1> HIDE DEF g
<1>2. o \in Seq(Int) /\ z \in Seq(Int)
  BY <1>1, OneIs, ZerosSeq
<1> HIDE DEF o, z
<1>3. (s \o o) \o z = s \o (o \o z)
  <2>1. s \in Seq(Int) /\ o \in Seq(Int) /\ z \in Seq(Int)
    BY <1>2
  <2> QED BY <2>1, CatAssoc
<1>4. (s \o o) \o z \in Seq(Int)
  BY <1>2, CatSeq
<1> QED BY <1>3, <1>4 DEF OverBlock, o, z, g

LEMMA LuffaEnds ==
  ASSUME TypeInv, phase = "open", Consumed, Sized, LuffaClose \/ LuffaFinal
  PROVE  Ended
<1> DEFINE b == 32
           l == Len(buf)
           one == buf \o <<Byte(128)>>
           z == <<>>
           c == Entry(<<>>, <<>>)
           r == <<c, c>>
           f == Entry(OverBlock(b, buf), z)
<1>1. alg = "luffa" /\ Closing /\ input = <<>> /\ ~Lazy(alg) /\ b = BlockLen[alg]
  BY BlockIs DEF LuffaClose, LuffaFinal, Portable, Fast, Closing, Lazy
<1>2. b \in Nat /\ l \in Nat /\ l < b /\ buf \in Seq(Int)
  BY <1>1, BufferLeft
<1>3. Padding(alg, fed) = OneAndZeros(b, fed, 0)
  BY <1>1 DEF Padding
<1>4. \A i \in 1..Len(out) : Tweak(alg, fed, i) = Body(alg)[i]
  BY <1>1, Before
<1>5. z \in Seq(Nat) /\ z = Tweak(alg, fed, Len(out) + 1)
  BY <1>1 DEF Tweak
<1>6. c \in Compression /\ r \in Seq(Compression)
  BY BlankPair
<1>15. r = Output(alg, fed)
  <2>1. Output(alg, fed) = <<Blank(<<>>), Blank(<<>>)>>
    BY <1>1 DEF Output
  <2> QED BY <2>1, BlankPair
<1>7. /\ OverBlock(b, buf) = one \o Zeros(b - (Len(buf) + 1))
      /\ OverBlock(b, buf) = buf \o (<<Byte(128)>> \o Zeros(b - (Len(buf) + 1)))
      /\ OverBlock(b, buf) \in Seq(Int)
  <2> HIDE DEF b
  <2> QED BY <1>2, OverIs
<1>8. Len(one) = l + 1
  BY <1>2, OneLength
<1>9. f \in Compression
  BY <1>7, PlainEntry
<1>10. ASSUME LuffaClose PROVE Digest(<<f>> \o r)
  <2>1. 32 - Len(one) = b - (Len(buf) + 1)
    <3> HIDE DEF one
    <3> QED BY <1>8, <1>2
  <2>2. one \o Zeros(32 - Len(one)) = OverBlock(b, buf)
    <3> HIDE DEF one
    <3> QED BY <2>1, <1>7
  <2>3. Digest(<<Entry(one \o Zeros(32 - Len(one)), <<>>), c, c>>)
    BY <1>10 DEF LuffaClose, LuffaP5
  <2>4. Digest(<<f, c, c>>)
    BY <2>2, <2>3
  <2> HIDE DEF f, c
  <2>5. <<f>> \o <<c, c>> = <<f, c, c>>
    BY <1>6, <1>9, TripleCat
  <2> QED BY <2>4, <2>5
<1>11. ASSUME LuffaFinal PROVE Digest(<<f>> \o r)
  <2> DEFINE o == <<Byte(128)>>
             s == IF buf # <<>> THEN buf \o LuffaHalf ELSE LuffaHalf \o Zeros(16)
  <2>1. Digest(<<Entry(s, <<>>)>> \o <<c, c>>)
    BY <1>11 DEF LuffaFinal, LuffaBlanks, LuffaRnd512, LuffaP5
  <2>2. l % 16 = 0
    <3>1. InUnits(alg)
      BY <1>1, <1>11 DEF InUnits, LuffaFinal, Fast
    <3> QED BY <1>1, <3>1, UnitsLeft
  <2>3. s = OverBlock(b, buf)
    <3>1. CASE buf # <<>>
      <4>1. l # 0
        BY <1>2, <3>1, EmptySeq
      <4>2. l = 16
        <5> HIDE DEF l
        <5> QED BY <1>2, <2>2, <4>1
      <4>3. b - (Len(buf) + 1) = 15
        BY <4>2
      <4> HIDE DEF b
      <4> QED BY <1>7, <3>1, <4>3 DEF LuffaHalf
    <3>2. CASE buf = <<>>
      <4>1. b - (Len(buf) + 1) = 31
        BY <3>2
      <4>2. OverBlock(b, buf) = <<>> \o (o \o Zeros(31))
        <5> HIDE DEF b
        <5> QED BY <1>7, <3>2, <4>1
      <4> DEFINE i == 15
                 j == 16
                 m == 31
      <4>3. i \in Nat /\ j \in Nat /\ i + j = m /\ m \in Nat
        OBVIOUS
      <4>7. LuffaHalf = o \o Zeros(i)
        BY DEF LuffaHalf
      <4>8. OverBlock(b, buf) = <<>> \o (o \o Zeros(m)) /\ s = LuffaHalf \o Zeros(j)
        BY <3>2, <4>2
      <4> HIDE DEF i, j, m, o, b, s
      <4>4. Zeros(i) \o Zeros(j) = Zeros(m)
        BY <4>3, ZerosCat
      <4>5. o \in Seq(Int) /\ Zeros(i) \in Seq(Int) /\ Zeros(j) \in Seq(Int) /\ Zeros(m) \in Seq(Int)
        BY <4>3, OneIs, ZerosIs DEF o
      <4>6. (o \o Zeros(i)) \o Zeros(j) = o \o (Zeros(i) \o Zeros(j))
        BY <4>5, CatAssoc
      <4>9. o \o Zeros(m) \in Seq(Int)
        BY <4>5, CatSeq
      <4>10. <<>> \o (o \o Zeros(m)) = o \o Zeros(m)
        BY <4>9
      <4> QED BY <4>4, <4>6, <4>7, <4>8, <4>10
    <3> QED BY <3>1, <3>2
  <2> QED BY <2>1, <2>3
<1>12. Digest(<<f>> \o r)
  BY <1>10, <1>11
<1> HIDE DEF b, z, c, r
<1> QED BY <1>1, <1>2, <1>3, <1>4, <1>5, <1>6, <1>12, <1>15, BareClose

LEMMA CubehashEnds ==
  ASSUME TypeInv, phase = "open", Consumed, Sized, CubehashClose \/ CubehashDigest
  PROVE  Ended
<1> DEFINE b == 32
           l == Len(buf)
           one == buf \o <<Byte(128)>>
           z == <<>>
           r == [i \in 1..10 |-> CubehashFinal(i)]
           f == Entry(OverBlock(b, buf), z)
<1>1. alg = "cubehash" /\ Closing /\ input = <<>> /\ ~Lazy(alg) /\ b = BlockLen[alg]
  BY BlockIs DEF CubehashClose, CubehashDigest, Portable, Fast, Closing, Lazy
<1>2. b \in Nat /\ l \in Nat /\ l < b /\ buf \in Seq(Int)
  BY <1>1, BufferLeft
<1>3. Padding(alg, fed) = OneAndZeros(b, fed, 0)
  BY <1>1 DEF Padding
<1>4. \A i \in 1..Len(out) : Tweak(alg, fed, i) = Body(alg)[i]
  BY <1>1, Before
<1>5. z \in Seq(Nat) /\ z = Tweak(alg, fed, Len(out) + 1)
  BY <1>1 DEF Tweak
<1>6. r \in Seq(Compression)
  <2>1. \A i \in 1..10 : <<Flag(i = 1)>> \in Seq(Nat)
    BY DEF Flag
  <2>2. \A i \in 1..10 : CubehashFinal(i) \in Compression
    BY <2>1, BlankType DEF CubehashFinal
  <2> HIDE DEF Compression
  <2> QED BY <2>2
<1>15. r = Output(alg, fed)
  BY <1>1 DEF Output, CubehashFinal
<1>7. OverBlock(b, buf) = one \o Zeros(b - (Len(buf) + 1))
  <2> HIDE DEF b
  <2> QED BY <1>2, OverIs
<1>8. Len(one) = l + 1
  BY <1>2, OneLength
<1>10. ASSUME CubehashClose PROVE Digest(<<f>> \o r)
  <2>1. 32 - Len(one) = b - (Len(buf) + 1)
    <3> HIDE DEF one
    <3> QED BY <1>8, <1>2
  <2>2. one \o Zeros(32 - Len(one)) = OverBlock(b, buf)
    <3> HIDE DEF one
    <3> QED BY <2>1, <1>7
  <2>3. Digest(<<Entry(one \o Zeros(32 - Len(one)), <<>>)>> \o r)
    BY <1>10 DEF CubehashClose, CubehashRounds
  <2> QED BY <2>2, <2>3
<1>11. ASSUME CubehashDigest PROVE Digest(<<f>> \o r)
  <2> DEFINE pos == Len(buf) \div 16
             s == (SubSeq(buf, 1, 16 * pos) \o <<Byte(128)>>) \o Zeros(31 - 16 * pos)
  <2>1. Digest(<<Entry(s, <<>>)>> \o r)
    BY <1>11 DEF CubehashDigest, CubehashTransform, CubehashRounds
  <2>2. l % 16 = 0
    <3>1. InUnits(alg)
      BY <1>1, <1>11 DEF InUnits, CubehashDigest, Fast
    <3> QED BY <1>1, <3>1, UnitsLeft
  <2>3. 16 * pos = l
    <3> DEFINE y == l
    <3> HIDE DEF y
    <3>1. y \in Nat /\ y % 16 = 0 /\ pos = y \div 16
      BY <1>2, <2>2 DEF y
    <3> HIDE DEF pos
    <3>2. 16 * pos = y
      BY <3>1
    <3> QED BY <3>2 DEF y
  <2>4. SubSeq(buf, 1, 16 * pos) = buf
    <3> HIDE DEF pos
    <3> QED BY <1>2, <2>3
  <2>5. 31 - 16 * pos = b - (Len(buf) + 1)
    <3> HIDE DEF pos
    <3> QED BY <1>2, <2>3
  <2>6. s = OverBlock(b, buf)
    <3> HIDE DEF pos, b
    <3> QED BY <1>7, <2>4, <2>5
  <2> QED BY <2>1, <2>6
<1>12. Digest(<<f>> \o r)
  BY <1>10, <1>11
<1> HIDE DEF b, z, r
<1> QED BY <1>1, <1>2, <1>3, <1>4, <1>5, <1>6, <1>12, <1>15, BareClose

LEMMA ShabalEnds ==
  ASSUME TypeInv, phase = "open", Consumed, Counted, ShabalClose
  PROVE  Ended
<1> DEFINE b == 64
           l == Len(buf)
           k == Len(out)
           one == buf \o <<Byte(128)>>
           z == cnt
           r == [i \in 1..3 |-> ShabalP(<<>>)]
           f == Entry(OverBlock(b, buf), z)
<1>1. alg = "shabal" /\ Closing /\ input = <<>> /\ ~Lazy(alg) /\ b = BlockLen[alg]
  BY BlockIs DEF ShabalClose, Common, Closing, Lazy
<1>2. b \in Nat /\ l \in Nat /\ l < b /\ buf \in Seq(Int) /\ k \in Nat /\ cnt \in Seq(Nat)
  BY <1>1, BufferLeft, TypeFacts
<1>3. Padding(alg, fed) = OneAndZeros(b, fed, 0)
  BY <1>1 DEF Padding
<1>4. \A i \in 1..Len(out) : Tweak(alg, fed, i) = Body(alg)[i]
  BY <1>1, Before
<1>5. z \in Seq(Nat) /\ z = Tweak(alg, fed, Len(out) + 1) /\ z = InWords(Len(out) + 1, Word[alg], 2)
  <2> DEFINE m == k + 1
             w == Word[alg]
  <2>1. Len(cnt) = 2
    BY <1>1, TypeFacts DEF Counters
  <2>2. cnt[1] = m % w /\ cnt[2] = (m \div w) % w
    BY <1>1 DEF Counted, HoldsCount
  <2> HIDE DEF m, w
  <2>3. cnt = InWords(m, w, 2)
    BY <1>2, <2>1, <2>2, TwoWords
  <2>4. Tweak(alg, fed, Len(out) + 1) = InWords(Len(out) + 1, Word[alg], 2)
    BY <1>1 DEF Tweak
  <2> QED BY <1>2, <2>3, <2>4 DEF m, w
<1>6. r \in Seq(Compression)
  <2>1. <<>> \in Seq(Int)
    OBVIOUS
  <2>2. ShabalP(<<>>) \in Compression
    BY <1>2, <2>1, EntryType DEF ShabalP
  <2> HIDE DEF Compression
  <2> QED BY <2>2
<1>9. Count(alg, fed) = k + 1
  <2> DEFINE p == Padding(alg, fed)
             j == 1
  <2>1. p \in Seq(Int) /\ l + Len(p) = b
    BY <1>1, <1>3, BarePad
  <2>2. BlockLen[alg] * j = b /\ j \in Nat
    BY <1>1, <1>2
  <2>3. Padding(alg, fed) \in Seq(Int) /\ Len(buf) + Len(Padding(alg, fed)) = BlockLen[alg] * j
    BY <2>1, <2>2
  <2> HIDE DEF j
  <2>4. Count(alg, fed) = Len(out) + j
    BY <1>1, <2>2, <2>3, PadCount
  <2> QED BY <2>4 DEF j
<1>15. r = Output(alg, fed)
  <2>1. Output(alg, fed) = [j \in 1..3 |-> Blank(InWords(Count(alg, fed), Word[alg], 2))]
    BY <1>1 DEF Output
  <2>2. Blank(InWords(Count(alg, fed), Word[alg], 2)) = ShabalP(<<>>)
    BY <1>5, <1>9 DEF Blank, ShabalP
  <2> QED BY <2>1, <2>2
<1>7. OverBlock(b, buf) = one \o Zeros(b - (Len(buf) + 1))
  <2> HIDE DEF b
  <2> QED BY <1>2, OverIs
<1>10. Digest(<<f>> \o r)
  <2>1. 63 - Len(buf) = b - (Len(buf) + 1)
    <3> HIDE DEF one
    <3> QED BY <1>2
  <2>2. one \o Zeros(63 - Len(buf)) = OverBlock(b, buf)
    <3> HIDE DEF one
    <3> QED BY <2>1, <1>7
  <2>3. Digest(<<Entry(one \o Zeros(63 - Len(buf)), cnt)>> \o r)
    BY DEF ShabalClose, ShabalP
  <2> QED BY <2>2, <2>3
<1> HIDE DEF b, z, r
<1> QED BY <1>1, <1>2, <1>3, <1>4, <1>5, <1>6, <1>10, <1>15, BareClose

LEMMA HamsiEnds ==
  ASSUME TypeInv, phase = "open", Consumed, Counted, HamsiClose \/ FastHamsiClose
  PROVE  Ended
<1> DEFINE b == 8
           l == Len(buf)
           k == Len(out)
           w == Word["hamsi"]
           one == buf \o <<Byte(128)>>
           p == OneAndZeros(b, fed, 0)
           u == BigEndian(HamsiBits(8 * l), 8)
           r == <<>>
           x == <<0>>
           y == <<1>>
           f == Entry(one \o Zeros(7 - l), x)
           g == Entry(u, y)
<1>1. /\ alg = "hamsi" /\ Closing /\ input = <<>> /\ ~Lazy(alg) /\ b = BlockLen[alg]
      /\ Digest(<<f, g>>)
  BY BlockIs DEF HamsiClose, FastHamsiClose, HamsiPadded, HamsiP, HamsiFinal, Portable, Fast, Closing, Lazy
<1>2. b \in Nat /\ l \in Nat /\ l < b /\ buf \in Seq(Int) /\ k \in Nat /\ fed \in Nat /\ fed = b * k + l
  <2>1. At(BlockLen[alg], k, l, fed)
    BY <1>1, EndsAt
  <2>2. b \in Nat /\ l \in Nat /\ l < b /\ buf \in Seq(Int)
    BY <1>1, BufferLeft
  <2> QED BY <1>1, <2>1, <2>2 DEF At
<1>3. p \in Seq(Int) /\ l + Len(p) = b /\ IsCat(buf, p, OverBlock(b, buf))
  <2> HIDE DEF b, p
  <2>1. p = OneAndZeros(b, fed, 0)
    BY DEF p
  <2> QED BY <1>1, <2>1, BarePad
<1>4. w \in Nat \ {0} /\ cnt[1] = (64 * k) % w
  BY <1>1, BlockType, BlockIs DEF Counted
<1>5. HamsiBits(8 * l) = (8 * fed) % w
  <2> DEFINE i == 64 * k
             j == 8 * l
  <2>1. i \in Nat /\ j \in Nat /\ 8 * fed = i + j
    BY <1>2
  <2>2. HamsiBits(j) = ((i % w) + j) % w
    BY <1>4 DEF HamsiBits
  <2> HIDE DEF i, j, w
  <2>3. ((i % w) + j) % w = (i + j) % w
    BY <1>4, <2>1, SumMod
  <2> QED BY <2>1, <2>2, <2>3 DEF i, j
<1>6. HamsiBits(8 * l) \in Nat
  <2> DEFINE i == 8 * fed
  <2>1. i \in Int
    BY <1>2
  <2> HIDE DEF i, w
  <2>2. i % w \in Nat
    BY <1>4, <2>1, ModType
  <2> QED BY <1>5, <2>2 DEF i
<1>7. u \in Seq(Int) /\ Len(u) = 8
  BY <1>6, EightIs
<1>8. p \o u = Padding(alg, fed)
  <2>1. InWords(8 * fed, w, 1)[1] = (8 * fed) % w
    BY DEF InWords
  <2>2. Padding(alg, fed) = OneAndZeros(BlockLen[alg], fed, 0) \o BigEndian(InWords(8 * fed, w, 1)[1], 8)
    BY <1>1 DEF Padding
  <2>3. u = BigEndian((8 * fed) % w, 8)
    BY <1>5
  <2>4. Padding(alg, fed) = OneAndZeros(b, fed, 0) \o BigEndian((8 * fed) % w, 8)
    BY <1>1, <2>1, <2>2
  <2> QED BY <2>3, <2>4
<1>9. Count(alg, fed) = k + 2
  <2> DEFINE q == Padding(alg, fed)
             j == 2
  <2>1. q \in Seq(Int) /\ Len(q) = Len(p) + Len(u)
    <3> HIDE DEF p, u
    <3> QED BY <1>3, <1>7, <1>8, CatType
  <2>2. BlockLen[alg] * j = b + 8 /\ j \in Nat
    BY <1>1
  <2>3. Len(p) \in Nat
    BY <1>3, LenProperties
  <2> HIDE DEF p, u
  <2>4. l + Len(q) = BlockLen[alg] * j
    <3> DEFINE m == BlockLen[alg] * j
               c == Len(p)
               d == Len(q)
               o_ == Len(u)
    <3>1. m = b + 8 /\ c \in Nat /\ l + c = b /\ o_ = 8 /\ d = c + o_
      BY <1>3, <1>7, <2>1, <2>2, <2>3
    <3> HIDE DEF m, c, d, o_, l, q
    <3>2. l + d = m
      BY <1>2, <3>1
    <3> QED BY <3>2 DEF m, d
  <2>5. Padding(alg, fed) \in Seq(Int) /\ Len(buf) + Len(Padding(alg, fed)) = BlockLen[alg] * j
    BY <2>1, <2>4
  <2> HIDE DEF j
  <2>6. Count(alg, fed) = Len(out) + j
    BY <1>1, <2>2, <2>5, PadCount
  <2> QED BY <2>6 DEF j
<1>10. \A i \in 1..Len(out) : Tweak(alg, fed, i) = Body(alg)[i]
  <2>1. Len(out) < Count(alg, fed)
    BY <1>2, <1>9
  <2> QED BY <1>1, <2>1, Before
<1>11. x \in Seq(Nat) /\ x = Tweak(alg, fed, Len(out) + 1)
  <2>1. Tweak(alg, fed, Len(out) + 1) = <<Flag(Len(out) + 1 = Count(alg, fed))>>
    BY <1>1 DEF Tweak
  <2>2. ~(Len(out) + 1 = Count(alg, fed))
    BY <1>2, <1>9
  <2> QED BY <2>1, <2>2 DEF Flag
<1>12. y \in Seq(Nat) /\ y = Tweak(alg, fed, Len(out) + 2)
  <2>1. Tweak(alg, fed, Len(out) + 2) = <<Flag(Len(out) + 2 = Count(alg, fed))>>
    BY <1>1 DEF Tweak
  <2>2. Len(out) + 2 = Count(alg, fed)
    BY <1>2, <1>9
  <2> QED BY <2>1, <2>2 DEF Flag
<1>13. r \in Seq(Compression) /\ r = Output(alg, fed)
  BY <1>1, EntriesType DEF Output
<1>14. one \o Zeros(7 - l) = OverBlock(b, buf)
  <2>1. 7 - l = b - (Len(buf) + 1)
    BY <1>2
  <2>2. OverBlock(b, buf) = one \o Zeros(b - (Len(buf) + 1))
    <3> HIDE DEF b
    <3> QED BY <1>2, OverIs
  <2> HIDE DEF b, one
  <2> QED BY <2>1, <2>2
<1>15. buf \o p = one \o Zeros(7 - l)
  BY <1>3, <1>14 DEF IsCat
<1>16. f \in Compression /\ g \in Compression
  <2>1. OverBlock(b, buf) \in Seq(Int)
    <3> HIDE DEF b
    <3> QED BY <1>2, OverIs
  <2>2. one \o Zeros(7 - l) \in Seq(Int)
    BY <1>14, <2>1
  <2> QED BY <1>7, <1>11, <1>12, <2>2, EntryType
<1>17. Two(buf, p, x, u, y, r) = <<f, g>>
  <2>1. Two(buf, p, x, u, y, r) = <<f>> \o (<<g>> \o <<>>)
    BY <1>15 DEF Two
  <2> HIDE DEF f, g
  <2>2. <<f>> \o (<<g>> \o <<>>) = <<f, g>>
    BY <1>16, ListsAre
  <2> QED BY <2>1, <2>2
<1>18. Digest(Two(buf, p, x, u, y, r))
  BY <1>1, <1>17
<1>19. Len(buf) + Len(p) = BlockLen[alg] /\ Len(u) = BlockLen[alg]
  BY <1>1, <1>3, <1>7
<1> HIDE DEF b, p, u, x, y, r
<1> QED BY <1>1, <1>3, <1>7, <1>8, <1>10, <1>11, <1>12, <1>13, <1>18, <1>19, CloseTwo

LEMMA OneZerosType ==
  ASSUME NEW b \in Nat \ {0}, NEW m \in Nat, NEW e \in Nat
  PROVE  OneAndZeros(b, m, e) \in Seq(Int)
<1> DEFINE x == m + 1 + e
           g == Gap(b, x)
<1>1. x \in Nat
  OBVIOUS
<1> HIDE DEF x
<1>2. x % b \in Int
  BY <1>1
<1>3. (b - (x % b)) % b \in Int
  BY <1>2
<1>4. g \in Int
  BY <1>3 DEF Gap
<1> HIDE DEF g
<1>5. Zeros(g) \in Seq(Int)
  BY <1>4, ZerosSeq
<1> DEFINE o == <<Byte(128)>>
<1>6. o \in Seq(Int)
  BY OneIs
<1> HIDE DEF o
<1>7. o \o Zeros(g) \in Seq(Int)
  BY <1>5, <1>6, CatSeq
<1> QED BY <1>7 DEF OneAndZeros, o, g, x

WithBit(s) == s \o <<Byte(128)>>
PadShapes(b, s, e, k) ==
  /\ OverBlock(b, s) = WithBit(s) \o Zeros(b - Len(WithBit(s)))
  /\ HereBlock(b, s, e) = (WithBit(s) \o Zeros(b - k - Len(WithBit(s)))) \o e
  /\ SecondPad(b, e) = Zeros(b - k) \o e
  /\ OverBlock(b, s) \in Seq(Int) /\ HereBlock(b, s, e) \in Seq(Int) /\ SecondPad(b, e) \in Seq(Int)
  /\ Len(WithBit(s)) > b - k <=> ~(Len(s) + 1 + Len(e) <= b)
  /\ WithBit(s) \in Seq(Int) /\ Len(WithBit(s)) = Len(s) + 1

LEMMA PadBlocks ==
  ASSUME NEW b \in Nat, NEW s \in Seq(Int), NEW e \in Seq(Int), NEW k, k = Len(e)
  PROVE  PadShapes(b, s, e, k)
<1> DEFINE one == s \o <<Byte(128)>>
<1>1. one \in Seq(Int) /\ Len(one) = Len(s) + 1
  BY OneLength
<1>2. OverBlock(b, s) \in Seq(Int) /\ HereBlock(b, s, e) \in Seq(Int) /\ SecondPad(b, e) \in Seq(Int)
  <2>1. b \in Int
    OBVIOUS
  <2> QED BY <2>1, BlocksAre
<1>3. OverBlock(b, s) = one \o Zeros(b - Len(one)) /\ HereBlock(b, s, e) = (one \o Zeros(b - Len(e) - Len(one))) \o e
  BY <1>1 DEF OverBlock, HereBlock
<1>4. Len(one) > b - k <=> ~(Len(s) + 1 + Len(e) <= b)
  BY <1>1, LenProperties
<1> QED BY <1>1, <1>2, <1>3, <1>4 DEF SecondPad, WithBit, PadShapes

(* A count of bytes that has not come round says how many bits there are.    *)
LEMMA EighthIs ==
  ASSUME NEW w \in Nat \ {0}, w % 8 = 0, NEW m \in Nat, m < w
  PROVE  m \div (w \div 8) = ((8 * m) \div w) % w
<1> DEFINE v == w \div 8
           q == m \div v
           d == m % v
<1>1. v \in Nat \ {0} /\ w = 8 * v
  OBVIOUS
<1> HIDE DEF v
<1>2. q \in Nat /\ d \in Nat /\ d < v /\ m = v * q + d
  BY <1>1
<1>3. q < 8
  <2> SUFFICES ASSUME ~(q < 8) PROVE FALSE
    OBVIOUS
  <2>1. v * 8 <= v * q
    BY <1>1, <1>2
  <2> HIDE DEF q, d
  <2>2. m >= 8 * v
    BY <1>1, <1>2, <2>1
  <2> QED BY <1>1, <2>2
<1>4. (8 * m) \div w = q
  <2> HIDE DEF q, d
  <2>1. 8 * m = w * q + 8 * d
    <3>1. w * q = 8 * (v * q)
      BY <1>1, <1>2
    <3> DEFINE y == v * q
    <3>2. y \in Nat /\ m = y + d
      BY <1>1, <1>2
    <3> HIDE DEF y
    <3>3. 8 * m = 8 * y + 8 * d
      BY <1>2, <3>2
    <3> QED BY <3>1, <3>3 DEF y
  <2> DEFINE x == 8 * m
             c == 8 * d
  <2>2. x \in Nat /\ c \in Nat /\ c < w /\ x = w * q + c
    BY <1>1, <1>2, <2>1
  <2> HIDE DEF x, c
  <2>3. x \div w = q
    BY <1>2, <2>2, ModIs
  <2> QED BY <2>3 DEF x
<1>5. q % w = q
  <2> HIDE DEF q
  <2>1. q < w
    BY <1>1, <1>2, <1>3
  <2> QED BY <1>2, <2>1, SmallMod
<1> QED BY <1>4, <1>5 DEF q, v

LEMMA MdEnds ==
  ASSUME TypeInv, phase = "open", Consumed, Counted, Sized,
         NEW a, NEW k, (a = "whirlpool" /\ k = 32) \/ (a = "sha512" /\ k = 16), alg = a, MdClose(a, k)
  PROVE  Ended
<1> DEFINE b == BlockLen[a]
           w == Word[a]
           low == (8 * cnt[1]) % w
           high == cnt[1] \div (w \div 8)
           e == Zeros(k - 16) \o BigPair(<<low, high>>)
           one == buf \o <<Byte(128)>>
           z == <<>>
           r == <<>>
           f == Entry(OverBlock(b, buf), z)
           g == Entry(SecondPad(b, e), z)
           h == Entry(HereBlock(b, buf, e), z)
<1>1. Closing /\ input = <<>> /\ ~Lazy(alg) /\ b = BlockLen[alg] /\ b \in {64, 128} /\ a \in Algo
  BY BlockIs DEF MdClose, Closing, Lazy
<1>2. b \in Nat /\ buf \in Seq(Int) /\ Len(buf) \in Nat /\ Len(buf) < b /\ fed \in Nat
  BY <1>1, BufferLeft, TypeFacts
<1>3. w \in Nat \ {0} /\ w % 8 = 0 /\ fed < w
  <2>1. w \in Nat \ {0} /\ w % 8 = 0
    BY <1>1, BlockType, WordAssumption, SMTT(40)
  <2>2. fed < w
    BY <1>1, RoomAssumption DEF Sized
  <2> QED BY <2>1, <2>2
<1>4. cnt[1] = fed
  <2>1. fed % w = fed
    BY <1>2, <1>3, SmallMod
  <2>2. fed - Len(input) = fed
    <3>1. Len(input) = 0
      BY <1>1
    <3> QED BY <1>2, <3>1
  <2>3. cnt[1] = fed % w \/ cnt[1] = (fed - Len(input)) % w
    BY TypeFacts DEF Counted
  <2> QED BY <2>1, <2>2, <2>3
<1>5. low = (8 * fed) % w /\ high = ((8 * fed) \div w) % w
  BY <1>2, <1>3, <1>4, EighthIs
<1>6. low \in Nat /\ high \in Nat
  <2> DEFINE m == 8 * fed
  <2>1. m \in Int /\ m \div w \in Int
    BY <1>2, <1>3
  <2> HIDE DEF m, w
  <2>2. m % w \in Nat /\ (m \div w) % w \in Nat
    BY <1>3, <2>1, ModType
  <2> QED BY <1>5, <2>2 DEF m
<1> DEFINE bp == BigPair(<<low, high>>)
<1>7. bp \in Seq(Int) /\ Len(bp) = 16
  <2> DEFINE c == <<low, high>>
  <2>1. c \in Seq(Nat) /\ Len(c) = 2
    BY <1>6, TwoType
  <2> HIDE DEF c, low, high
  <2>2. Len(c) >= 2
    BY <2>1
  <2>3. BigPair(c) \in Bytes(16)
    BY <2>1, <2>2, PairType
  <2> DEFINE m == 16
  <2>4. m \in Int /\ BigPair(c) \in Bytes(m)
    BY <2>3
  <2> HIDE DEF m
  <2>5. BigPair(c) \in Seq(Int) /\ Len(BigPair(c)) = m
    BY <2>4, BytesIs
  <2> QED BY <2>5 DEF c, m
<1>8. bp = BigPair(InWords(8 * fed, w, 2))
  <2>1. InWords(8 * fed, w, 2)[1] = low /\ InWords(8 * fed, w, 2)[2] = high
    BY <1>5 DEF InWords
  <2>2. <<low, high>>[1] = low /\ <<low, high>>[2] = high
    OBVIOUS
  <2> HIDE DEF low, high
  <2> QED BY <2>1, <2>2 DEF BigPair
<1>9. k \in Nat /\ k - 16 \in Nat /\ k <= b
  BY BlockIs
<1> DEFINE zk == Zeros(k - 16)
<1>10. zk \in Seq(Int) /\ Len(zk) = k - 16
  <2> DEFINE j == k - 16
  <2>1. j \in Nat
    BY <1>9
  <2> HIDE DEF j
  <2>2. Zeros(j) \in Seq(Int) /\ Len(Zeros(j)) = j
    BY <2>1, ZerosIs
  <2> QED BY <2>2 DEF j
<1>20. e = zk \o bp
  OBVIOUS
<1> HIDE DEF e, bp, low, high
<1>11. e \in Seq(Int) /\ Len(e) = k
  <2> HIDE DEF zk
  <2>1. e \in Seq(Int) /\ Len(e) = Len(zk) + Len(bp)
    BY <1>7, <1>10, <1>20, CatType
  <2> QED BY <1>7, <1>9, <1>10, <2>1
<1>12. Padding(alg, fed) = EndPad(b, fed, e)
  <2>1. CASE a = "whirlpool"
    <3> DEFINE o == OneAndZeros(b, fed, 32)
    <3>1. Padding(alg, fed) = (o \o Zeros(16)) \o BigPair(InWords(8 * fed, w, 2))
      BY <2>1 DEF Padding
    <3>2. zk = Zeros(16) /\ k = 32
      BY <2>1
    <3>3. o \in Seq(Int)
      <4>1. BlockLen[alg] \in Nat \ {0}
        BY <1>1, BlockType
      <4> DEFINE m == 32
      <4>2. m \in Nat
        OBVIOUS
      <4> HIDE DEF m, b
      <4>3. OneAndZeros(b, fed, m) \in Seq(Int)
        BY <1>1, <1>2, <4>1, <4>2, OneZerosType
      <4> QED BY <4>3 DEF m
    <3>4. EndPad(b, fed, e) = o \o e
      BY <1>11, <3>2 DEF EndPad
    <3> HIDE DEF o, zk
    <3>5. (o \o zk) \o bp = o \o (zk \o bp)
      <4>1. o \in Seq(Int) /\ zk \in Seq(Int) /\ bp \in Seq(Int)
        BY <1>7, <1>10, <3>3
      <4> QED BY <4>1, CatAssoc
    <3> QED BY <1>8, <1>20, <3>1, <3>2, <3>4, <3>5
  <2>2. CASE a = "sha512"
    <3>1. Padding(alg, fed) = OneAndZeros(b, fed, 16) \o BigPair(InWords(8 * fed, w, 2))
      BY <2>2 DEF Padding
    <3>2. k = 16 /\ Len(zk) = 0
      BY <1>10, <2>2
    <3> HIDE DEF zk
    <3>3. e = bp
      <4>1. zk = <<>>
        BY <1>10, <3>2, EmptySeq
      <4>2. <<>> \o bp = bp
        BY <1>7
      <4> QED BY <1>20, <4>1, <4>2
    <3> QED BY <1>8, <1>11, <3>1, <3>2, <3>3 DEF EndPad
  <2> QED BY <2>1, <2>2
<1>13. \A i \in 1..Len(out) : Tweak(alg, fed, i) = Body(alg)[i]
  BY <1>1, Before
<1>14. z \in Seq(Nat) /\ z = Tweak(alg, fed, Len(out) + 1) /\ z = Tweak(alg, fed, Len(out) + 2)
  BY DEF Tweak
<1>15. r \in Seq(Compression) /\ r = Output(alg, fed)
  BY EntriesType DEF Output
<1> HIDE DEF b
<1>16. /\ OverBlock(b, buf) = one \o Zeros(b - Len(one))
       /\ HereBlock(b, buf, e) = (one \o Zeros(b - k - Len(one))) \o e
       /\ SecondPad(b, e) = Zeros(b - k) \o e
       /\ OverBlock(b, buf) \in Seq(Int) /\ HereBlock(b, buf, e) \in Seq(Int) /\ SecondPad(b, e) \in Seq(Int)
       /\ Len(one) > b - k <=> ~(Len(buf) + 1 + Len(e) <= b)
  <2>1. PadShapes(b, buf, e, k)
    BY <1>2, <1>11, PadBlocks
  <2> QED BY <2>1 DEF PadShapes, WithBit
<1>17. f \in Compression /\ g \in Compression /\ h \in Compression
  BY <1>16, PlainEntry
<1>18. IF Len(one) > b - k THEN Digest(<<f, g>>) ELSE Digest(<<h>>)
  <2>1. IF Len(one) > b - k
        THEN Digest(<<Entry(one \o Zeros(b - Len(one)), <<>>), Entry(Zeros(b - k) \o e, <<>>)>>)
        ELSE Digest(<<Entry((one \o Zeros(b - k - Len(one))) \o e, <<>>)>>)
    BY DEF MdClose, MdRound, b, e, bp, low, high
  <2> HIDE DEF one
  <2> QED BY <1>16, <2>1
<1>19. <<f, g>> = <<f>> \o (<<g>> \o r) /\ <<h>> = <<h>> \o r
  <2> HIDE DEF f, g, h
  <2> QED BY <1>17, ListsAre
<1> DEFINE es == IF Len(one) > b - k THEN <<f, g>> ELSE <<h>>
<1>21. Digest(es)
  BY <1>18
<1>22. Closed(b, e, z, z, r, es)
  <2> HIDE DEF one
  <2> QED BY <1>16, <1>19 DEF Closed
<1>23. Len(e) <= b /\ b = BlockLen[alg]
  BY <1>1, <1>9, <1>11
<1> HIDE DEF z, r, es
<1> QED BY <1>1, <1>11, <1>12, <1>13, <1>14, <1>15, <1>21, <1>22, <1>23, PadClose

(* Bits that do not fill a block leave the upper words alone.                *)
Kept(x, d, w) ==
  /\ (x % w) + d < w /\ x % w \in Nat
  /\ (x + d) % w = (x % w) + d
  /\ (x + d) \div w = x \div w

LEMMA NoCarry ==
  ASSUME NEW w \in Nat \ {0}, w % 1024 = 0, NEW k \in Nat, NEW d \in Nat, d < 1024, NEW x, x = 1024 * k
  PROVE  Kept(x, d, w)
<1> DEFINE v == w \div 1024
           q == k \div v
           c == k % v
           y == 1024 * c
<1>1. v \in Nat \ {0} /\ w = 1024 * v
  OBVIOUS
<1> HIDE DEF v
<1>2. c \in Nat /\ c < v /\ q \in Nat
  BY <1>1
<1>3. x % w = y /\ x \div w = q
  <2> DEFINE s == 1024
  <2>1. Scaled(s, v, k, w, x)
    BY <1>1 DEF Scaled
  <2> HIDE DEF s
  <2>2. x % w = s * (k % v) /\ x \div w = k \div v
    BY <2>1, ScaleMod
  <2> QED BY <2>2 DEF s
<1> HIDE DEF q, c
<1>4. y \in Nat /\ y + d < w /\ x \in Nat
  BY <1>1, <1>2
<1>5. x = w * q + y
  <2> DEFINE e == x \div w
             f == x % w
  <2>1. x \in Nat /\ w \in Nat \ {0} /\ e = q /\ f = y
    BY <1>3, <1>4
  <2>2. \A i \in Nat : \A j \in Nat \ {0} : i = j * (i \div j) + (i % j)
    OBVIOUS
  <2>3. x = w * e + f
    BY <2>1, <2>2
  <2> HIDE DEF e, f
  <2> QED BY <2>1, <2>3
<1> HIDE DEF y
<1> DEFINE z == x + d
           u == y + d
<1>6. z \in Nat /\ u \in Nat /\ u < w /\ z = w * q + u
  <2> DEFINE p == w * q
  <2>1. p \in Nat
    BY <1>2
  <2>2. x = p + y
    BY <1>5
  <2> HIDE DEF p
  <2>3. z = p + u /\ z \in Nat /\ u \in Nat /\ u < w
    BY <1>4, <2>1, <2>2
  <2> QED BY <2>3 DEF p
<1> HIDE DEF z, u
<1>7. z % w = u /\ z \div w = q
  BY <1>2, <1>6, ModIs
<1> QED BY <1>3, <1>4, <1>7 DEF Kept, z, u

LEMMA ZeroWords ==
  ASSUME NEW w \in Nat \ {0}
  PROVE  InWords(0, w, 4) = <<0, 0, 0, 0>>
<1> DEFINE s == <<0, 0, 0, 0>>
           m == 0
<1>1. s \in Seq(Nat) /\ Len(s) = 4
  BY FourZeros
<1>2. s[1] = 0 /\ s[2] = 0 /\ s[3] = 0 /\ s[4] = 0
  OBVIOUS
<1>3. m % w = 0 /\ m \div w = 0
  BY SmallMod
<1>4. (m \div w) % w = 0
  BY <1>3
<1> HIDE DEF s, m
<1>5. s = InWords(m, w, 4)
  BY <1>1, <1>2, <1>3, <1>4, FourWords
<1> QED BY <1>5 DEF s, m

(* What goes in with the last block or the last two of SHAvite and ECHO.     *)
LEMMA BitsTweaks ==
  ASSUME TypeInv, phase = "open", input = <<>>, alg \in {"shavite", "echo"}, NEW w, w = Word[alg]
  PROVE  /\ Tweak(alg, fed, Len(out) + 1) = IF Len(buf) = 0 THEN <<0, 0, 0, 0>> ELSE InWords(8 * fed, w, 4)
         /\ Tweak(alg, fed, Len(out) + 2) = <<0, 0, 0, 0>>
<1> DEFINE k == Len(out)
           l == Len(buf)
<1>1. BlockLen[alg] = 128 /\ w \in Nat \ {0} /\ ~Lazy(alg)
  BY BlockIs, BlockType DEF Lazy
<1>2. At(BlockLen[alg], k, l, fed)
  BY EndsAt
<1>3. At(128, k, l, fed)
  BY <1>1, <1>2
<1>4. l <= 128
  BY <1>1, TypeFacts, BufferFits
<1>5. /\ BitsAt(alg, fed, k + 1) = IF l = 0 THEN 0 ELSE 8 * fed
      /\ BitsAt(alg, fed, k + 2) = 0
  <2> HIDE DEF k, l
  <2> QED BY <1>1, <1>3, <1>4, BitsNow
<1>6. InWords(0, w, 4) = <<0, 0, 0, 0>>
  BY <1>1, ZeroWords
<1>7. \A i : Tweak(alg, fed, i) = InWords(BitsAt(alg, fed, i), w, 4)
  BY DEF Tweak
<1> QED BY <1>5, <1>6, <1>7

(* The sixteen bytes of a count in four words, and the two of the length.    *)
LEMMA FourEnd ==
  ASSUME NEW c \in Seq(Nat), Len(c) = 4
  PROVE  /\ LittleFour(c) \in Seq(Int) /\ Len(LittleFour(c)) = 16
         /\ LittleEndian(512, 2) \in Seq(Int) /\ Len(LittleEndian(512, 2)) = 2
         /\ LittleFour(c) \o LittleEndian(512, 2) \in Seq(Int) /\ Len(LittleFour(c) \o LittleEndian(512, 2)) = 18
         /\ LittleEndian(512, 2) \o LittleFour(c) \in Seq(Int) /\ Len(LittleEndian(512, 2) \o LittleFour(c)) = 18
<1> DEFINE s == LittleFour(c)
           t == LittleEndian(512, 2)
           i == 16
           j == 2
           m == 512
<1>1. i \in Int /\ j \in Nat /\ m \in Nat
  OBVIOUS
<1>2. s \in Bytes(i)
  BY FourType
<1>3. t = LittleEndian(m, j)
  OBVIOUS
<1> HIDE DEF i, j, m, s, t
<1>4. s \in Seq(Int) /\ Len(s) = i
  BY <1>1, <1>2, BytesIs
<1>5. t \in Bytes(j)
  BY <1>1, <1>3, EndianType
<1>6. t \in Seq(Int) /\ Len(t) = j
  BY <1>1, <1>5, BytesIs
<1>7. s \o t \in Seq(Int) /\ Len(s \o t) = i + j
  BY <1>4, <1>6, CatType
<1>8. t \o s \in Seq(Int) /\ Len(t \o s) = j + i
  BY <1>4, <1>6, CatType
<1>9. i + j = 18 /\ j + i = 18 /\ i = 16 /\ j = 2
  BY DEF i, j
<1> QED BY <1>4, <1>6, <1>7, <1>8, <1>9 DEF s, t

(* The close of SHAvite and ECHO: e ends the padding, c is the count.        *)
LEMMA CountedEnds ==
  ASSUME TypeInv, phase = "open", Consumed, input = <<>>, alg \in {"shavite", "echo"},
         NEW e \in Seq(Int), Len(e) = 18, Padding(alg, fed) = EndPad(128, fed, e),
         NEW c \in Seq(Nat), c = InWords(8 * fed, Word[alg], 4), NEW es, Digest(es),
         NEW o, o = <<0, 0, 0, 0>>,
         IF Len(buf) = 0 THEN es = <<Entry((WithBit(buf) \o Zeros(109)) \o e, o)>>
         ELSE IF Len(buf) < 110 THEN es = <<Entry((WithBit(buf) \o Zeros(109 - Len(buf))) \o e, c)>>
         ELSE es = <<Entry(WithBit(buf) \o Zeros(127 - Len(buf)), c), Entry(Zeros(110) \o e, o)>>
  PROVE  Ended
<1> DEFINE b == 128
           k == 18
           l == Len(buf)
           x == IF l = 0 THEN o ELSE c
           r == <<>>
           f == Entry(OverBlock(b, buf), x)
           g == Entry(SecondPad(b, e), o)
           h == Entry(HereBlock(b, buf, e), x)
<1>1. ~Lazy(alg) /\ b = BlockLen[alg]
  BY BlockIs DEF Lazy
<1>2. b \in Nat /\ buf \in Seq(Int) /\ l \in Nat /\ l < b
  BY <1>1, BufferLeft
<1>3. PadShapes(b, buf, e, k)
  <2>1. k = Len(e)
    OBVIOUS
  <2> HIDE DEF b, k
  <2> QED BY <1>2, <2>1, PadBlocks
<1>4. x \in Seq(Nat) /\ o \in Seq(Nat)
  BY FourZeros
<1>5. x = Tweak(alg, fed, Len(out) + 1) /\ o = Tweak(alg, fed, Len(out) + 2)
  BY BitsTweaks
<1>6. /\ OverBlock(b, buf) = WithBit(buf) \o Zeros(b - Len(WithBit(buf)))
      /\ HereBlock(b, buf, e) = (WithBit(buf) \o Zeros(b - k - Len(WithBit(buf)))) \o e
      /\ SecondPad(b, e) = Zeros(b - k) \o e
      /\ OverBlock(b, buf) \in Seq(Int) /\ HereBlock(b, buf, e) \in Seq(Int) /\ SecondPad(b, e) \in Seq(Int)
      /\ Len(WithBit(buf)) = l + 1
  <2> HIDE DEF b, k
  <2> QED BY <1>3 DEF PadShapes
<1>7. b - Len(WithBit(buf)) = 127 - l /\ b - k - Len(WithBit(buf)) = 109 - l /\ b - k = 110
  BY <1>2, <1>6
<1>8. /\ OverBlock(b, buf) = WithBit(buf) \o Zeros(127 - l)
      /\ HereBlock(b, buf, e) = (WithBit(buf) \o Zeros(109 - l)) \o e
      /\ SecondPad(b, e) = Zeros(110) \o e
  <2> HIDE DEF b, k, l
  <2> QED BY <1>6, <1>7
<1>9. l = 0 => 109 - l = 109
  OBVIOUS
<1> HIDE DEF b
<1>10. f \in Compression /\ g \in Compression /\ h \in Compression
  BY <1>4, <1>6, EntryType
<1>11. <<f>> \o (<<g>> \o r) = <<f, g>> /\ <<h>> \o r = <<h>>
  <2> HIDE DEF f, g, h
  <2> QED BY <1>10, ListsAre
<1>12. IF l < 110 THEN es = <<h>> ELSE es = <<f, g>>
  <2>1. CASE l = 0
    BY <1>8, <1>9, <2>1
  <2>2. CASE l # 0 /\ l < 110
    BY <1>8, <2>2
  <2>3. CASE ~(l < 110)
    <3>1. l # 0
      BY <1>2, <2>3
    <3> QED BY <1>8, <2>3, <3>1
  <2> QED BY <2>1, <2>2, <2>3
<1>13. l < 110 <=> Len(buf) + 1 + Len(e) <= b
  BY <1>2 DEF b
<1>14. Closed(b, e, x, o, r, es)
  <2> HIDE DEF f, g, h, x, r
  <2> QED BY <1>11, <1>12, <1>13 DEF Closed, f, g, h
<1>15. r \in Seq(Compression) /\ r = Output(alg, fed)
  BY EntriesType DEF Output
<1>16. \A i \in 1..Len(out) : Tweak(alg, fed, i) = Body(alg)[i]
  BY Before
<1>17. Len(e) <= b /\ Padding(alg, fed) = EndPad(b, fed, e)
  BY DEF b
<1> HIDE DEF x, r
<1> QED BY <1>1, <1>4, <1>5, <1>14, <1>15, <1>16, <1>17, PadClose

LEMMA EighthBits ==
  ASSUME TypeInv, phase = "open", input = <<>>, BlockLen[alg] = 128, ~Lazy(alg)
  PROVE  /\ Len(out) \in Nat /\ Len(buf) \in 0..127 /\ fed \in Nat
         /\ 8 * fed = 1024 * Len(out) + 8 * Len(buf)
<1>1. At(BlockLen[alg], Len(out), Len(buf), fed)
  BY EndsAt
<1>2. At(128, Len(out), Len(buf), fed)
  BY <1>1
<1>3. Len(out) \in Nat /\ Len(buf) \in Nat /\ fed \in Nat /\ fed = 128 * Len(out) + Len(buf)
  BY <1>2 DEF At
<1>4. Len(buf) < 128
  BY BufferFits
<1> DEFINE k == Len(out)
           l == Len(buf)
<1>5. k \in Nat /\ l \in Nat /\ fed \in Nat /\ fed = 128 * k + l /\ l < 128
  BY <1>3, <1>4
<1> HIDE DEF k, l
<1>6. 8 * fed = 1024 * k + 8 * l /\ l \in 0..127
  BY <1>5
<1> QED BY <1>5, <1>6 DEF k, l

LEMMA ShaviteEnds ==
  ASSUME TypeInv, phase = "open", Consumed, Counted, ShaviteClose \/ FastShaviteClose
  PROVE  Ended
<1> DEFINE w == Word["shavite"]
           k == Len(out)
           l == Len(buf)
           x == 1024 * k
           d == 8 * l
           count == [cnt EXCEPT ![1] = (@ + d) % w]
           end == LittleEndian(512, 2)
           e == LittleFour(count) \o end
           es == ShavitePadded
           one == buf \o <<Byte(128)>>
           o == <<0, 0, 0, 0>>
<1>1. alg = "shavite" /\ input = <<>> /\ Digest(es)
  BY DEF ShaviteClose, FastShaviteClose, Portable, Fast, Closing
<1>2. BlockLen[alg] = 128 /\ ~Lazy(alg) /\ w \in Nat \ {0} /\ w % 1024 = 0
  <2>1. w % 1024 = 0
    BY WordAssumption
  <2> QED BY <1>1, <2>1, BlockIs, BlockType DEF Lazy
<1>3. k \in Nat /\ l \in 0..127 /\ fed \in Nat /\ 8 * fed = 1024 * k + 8 * l
  BY <1>1, <1>2, EighthBits
<1>4. x \in Nat /\ d \in Nat /\ d < 1024 /\ 8 * fed = x + d
  <2> HIDE DEF k, l
  <2> QED BY <1>3
<1>5. /\ (x % w) + d < w /\ x % w \in Nat
      /\ (x + d) % w = (x % w) + d
      /\ (x + d) \div w = x \div w
  <2>1. x = 1024 * k
    OBVIOUS
  <2> HIDE DEF x, d, w
  <2>2. Kept(x, d, w)
    BY <1>2, <1>3, <1>4, <2>1, NoCarry
  <2> QED BY <2>2 DEF Kept
<1>6. /\ cnt[1] = x % w /\ cnt[2] = (x \div w) % w /\ cnt[3] = 0 /\ cnt[4] = 0
      /\ cnt \in Seq(Nat) /\ Len(cnt) = 4
  BY <1>1, TypeFacts DEF Counted, HoldsCount, Counters
<1>18. cnt \in [1..4 -> Nat]
  BY <1>6, LenProperties, SMTT(40)
<1> DEFINE v == (x % w) + d
<1>7. v \in Nat /\ v % w = v
  <2> HIDE DEF x, d, w
  <2>1. v \in Nat
    BY <1>4, <1>5
  <2>2. v < w
    BY <1>5
  <2> HIDE DEF v
  <2> QED BY <1>2, <2>1, <2>2, SmallMod
<1>8. count = [cnt EXCEPT ![1] = v]
  <2>1. (cnt[1] + d) % w = v
    BY <1>6, <1>7
  <2> HIDE DEF v, w, d
  <2> QED BY <2>1
<1>9. count \in Seq(Nat) /\ Len(count) = 4
  <2> HIDE DEF v, count
  <2>2. count \in [1..4 -> Nat]
    BY <1>7, <1>8, <1>18
  <2> QED BY <2>2, SeqOf
<1>10. count[1] = v /\ count[2] = cnt[2] /\ count[3] = 0 /\ count[4] = 0
  <2> HIDE DEF v, count
  <2> QED BY <1>6, <1>8, <1>18
<1>11. count = InWords(8 * fed, w, 4)
  <2> DEFINE m == x + d
  <2>1. count[1] = m % w /\ count[2] = (m \div w) % w
    BY <1>5, <1>6, <1>10
  <2>2. m = 8 * fed
    BY <1>4
  <2> HIDE DEF m, count, w
  <2>3. count = InWords(m, w, 4)
    BY <1>9, <1>10, <2>1, FourWords
  <2> QED BY <2>2, <2>3
<1>12. es = IF l = 0 THEN <<Entry((one \o Zeros(109)) \o e, o)>>
            ELSE IF l < 110 THEN <<Entry((one \o Zeros(109 - l)) \o e, count)>>
            ELSE <<Entry(one \o Zeros(127 - l), count), Entry(Zeros(110) \o e, o)>>
  BY DEF ShavitePadded, ShaviteC512, ShaviteInit
<1> HIDE DEF count
<1>13. /\ LittleFour(count) \in Seq(Int) /\ end \in Seq(Int) /\ e \in Seq(Int) /\ Len(e) = 18
  BY <1>9, FourEnd
<1>14. Padding(alg, fed) = EndPad(128, fed, e)
  <2> DEFINE z == OneAndZeros(128, fed, 18)
             s == LittleFour(count)
  <2>1. Padding(alg, fed) = (z \o s) \o end
    BY <1>1, <1>2, <1>11 DEF Padding
  <2>2. z \in Seq(Int)
    <3> DEFINE b == 128
               m == 18
    <3>1. b \in Nat \ {0} /\ m \in Nat
      OBVIOUS
    <3> HIDE DEF b, m
    <3>2. OneAndZeros(b, fed, m) \in Seq(Int)
      BY <1>3, <3>1, OneZerosType
    <3> QED BY <3>2 DEF b, m
  <2>3. EndPad(128, fed, e) = z \o e
    <3> HIDE DEF e
    <3> QED BY <1>13 DEF EndPad
  <2> HIDE DEF z, s, end
  <2>4. s \in Seq(Int) /\ end \in Seq(Int) /\ z \in Seq(Int)
    BY <1>13, <2>2 DEF s
  <2>5. (z \o s) \o end = z \o (s \o end)
    BY <2>4, CatAssoc
  <2> QED BY <2>1, <2>3, <2>5 DEF s
<1> HIDE DEF e, es
<1>15. IF Len(buf) = 0 THEN es = <<Entry((WithBit(buf) \o Zeros(109)) \o e, o)>>
       ELSE IF Len(buf) < 110 THEN es = <<Entry((WithBit(buf) \o Zeros(109 - Len(buf))) \o e, count)>>
       ELSE es = <<Entry(WithBit(buf) \o Zeros(127 - Len(buf)), count), Entry(Zeros(110) \o e, o)>>
  BY <1>12 DEF WithBit
<1>16. count = InWords(8 * fed, Word[alg], 4)
  BY <1>1, <1>11
<1>17. o = <<0, 0, 0, 0>>
  OBVIOUS
<1> HIDE DEF o
<1> QED BY <1>1, <1>9, <1>13, <1>14, <1>15, <1>16, <1>17, CountedEnds

LEMMA EchoEnds ==
  ASSUME TypeInv, phase = "open", Sized, Consumed, Counted, EchoClose \/ EchoFinal
  PROVE  Ended
<1> DEFINE w == Word["echo"]
           k == Len(out)
           l == Len(buf)
           x == 1024 * k
           d == 8 * l
           c == InWords(8 * fed, w, 4)
           start == LittleEndian(512, 2)
           e == start \o LittleFour(c)
           one == buf \o <<Byte(128)>>
           o == <<0, 0, 0, 0>>
           f == Entry((one \o Zeros(110 - Len(one))) \o e, IF l = 0 THEN o ELSE c)
           g == Entry(one \o Zeros(128 - Len(one)), c)
           h == Entry(Zeros(110) \o e, o)
<1>1. alg = "echo" /\ input = <<>>
  BY DEF EchoClose, EchoFinal, Portable, Fast, Closing
<1>2. BlockLen[alg] = 128 /\ ~Lazy(alg) /\ w \in Nat \ {0}
  BY <1>1, BlockIs, BlockType DEF Lazy
<1>3. k \in Nat /\ l \in 0..127 /\ fed \in Nat /\ 8 * fed = 1024 * k + 8 * l
  BY <1>1, <1>2, EighthBits
<1>4. x \in Nat /\ d \in Nat /\ d < 1024 /\ 8 * fed = x + d /\ 8 * fed \in Nat
  <2> HIDE DEF k, l
  <2> QED BY <1>3
<1>5. c \in Seq(Nat) /\ Len(c) = 4
  <2> DEFINE m == 8 * fed
             j == 4
  <2>1. m \in Nat /\ j \in Nat
    BY <1>4
  <2> HIDE DEF m, j, w
  <2>2. InWords(m, w, j) \in Seq(Nat)
    BY <1>2, <2>1, InWordsType
  <2>3. Len(InWords(m, w, j)) = j
    BY <1>2, <2>1, InWordsType
  <2> QED BY <2>2, <2>3 DEF m, j
<1>6. Len(one) = l + 1 /\ buf \in Seq(Int)
  <2>1. buf \in Seq(Int)
    BY TypeFacts
  <2> QED BY <2>1, OneLength
<1> HIDE DEF one
<1>7. ASSUME EchoClose
      PROVE  IF Len(one) > 110 THEN Digest(<<g, h>>) ELSE Digest(<<f>>)
  <2>1. ~fast
    BY <1>7 DEF EchoClose, Portable
  <2>2. EchoAdded(d) = c
    <3>1. HoldsCount(x) /\ cnt[3] = 0 /\ cnt[4] = 0
      BY <1>1, <2>1 DEF Counted
    <3>2. 8 * fed <= 8 * fed
      BY <1>4
    <3>3. w \in Nat \ {0} /\ 1024 <= w /\ (8 * fed) \div w < w
      <4> DEFINE m == 8 * fed
      <4>1. m \in Nat /\ m <= 8 * fed /\ w = Word[alg]
        BY <1>1, <1>4
      <4> HIDE DEF m, w
      <4>2. w \in Nat \ {0} /\ 1024 <= w /\ m \div w < w
        BY <1>1, <4>1, BitsFit
      <4> QED BY <4>2 DEF m
    <3>4. (x + d) \div w < w /\ d <= w /\ w = Word["echo"]
      BY <1>4, <3>3
    <3> HIDE DEF x, d, w, c
    <3>5. EchoAdded(d) = InWords(x + d, w, 4)
      BY <1>1, <1>4, <2>1, <3>1, <3>4, EchoAddedIs
    <3> QED BY <1>4, <3>5 DEF c
  <2>3. d = 0 <=> l = 0
    BY <1>3
  <2>4. LET end == LittleEndian(512, 2) \o LittleFour(EchoAdded(d))
        IN  IF Len(one) > 110
            THEN Digest(<<Entry(one \o Zeros(128 - Len(one)), EchoAdded(d)), Entry(Zeros(110) \o end, o)>>)
            ELSE Digest(<<Entry((one \o Zeros(110 - Len(one))) \o end, IF d = 0 THEN o ELSE EchoAdded(d))>>)
    BY <1>7 DEF EchoClose, EchoCompress, EchoInit, one
  <2> HIDE DEF c, d, o, l
  <2> QED BY <2>2, <2>3, <2>4
<1>8. ASSUME EchoFinal
      PROVE  IF Len(one) > 110 THEN Digest(<<g, h>>) ELSE Digest(<<f>>)
  <2>1. fast
    BY <1>8 DEF EchoFinal, Fast
  <2>2. cnt[1] = x /\ cnt[2] = x
    BY <1>1, <2>1 DEF Counted
  <2>3. EchoWords(x + d) = c /\ EchoWords(0) = o
    <3> DEFINE m == 8 * fed
               z == 0
    <3>1. m \in Nat /\ m = x + d /\ z \in Nat /\ w = Word["echo"]
      BY <1>4
    <3> HIDE DEF m, w, z
    <3>2. EchoWords(m) = InWords(m, w, 4)
      BY <3>1, EchoWordsIs
    <3>3. EchoWords(z) = InWords(z, w, 4)
      BY <3>1, EchoWordsIs
    <3>4. InWords(z, w, 4) = o
      BY <1>2, ZeroWords DEF z
    <3> QED BY <3>1, <3>2, <3>3, <3>4 DEF m, z
  <2>4. Len(one) = 1 <=> l = 0
    BY <1>3, <1>6
  <2>5. 128 - Len(one) >= 18 <=> ~(Len(one) > 110)
    BY <1>3, <1>6
  <2>6. LET end == LittleEndian(512, 2) \o LittleFour(EchoWords(cnt[1] + d))
        IN  IF 128 - Len(one) >= 18
            THEN Digest(<<Entry((one \o Zeros(110 - Len(one))) \o end,
                                EchoWords(IF Len(one) = 1 THEN 0 ELSE cnt[2] + d))>>)
            ELSE Digest(<<Entry(one \o Zeros(128 - Len(one)), EchoWords(cnt[2] + d)),
                          Entry(Zeros(110) \o end, EchoWords(0))>>)
    BY <1>8 DEF EchoFinal, EchoCompressOne, EchoCompress, one
  <2>7. EchoWords(IF Len(one) = 1 THEN 0 ELSE x + d) = IF l = 0 THEN o ELSE c
    BY <2>3, <2>4
  <2> HIDE DEF c, d, o, l, x
  <2> QED BY <2>2, <2>3, <2>5, <2>6, <2>7
<1>9. IF Len(one) > 110 THEN Digest(<<g, h>>) ELSE Digest(<<f>>)
  BY <1>7, <1>8
<1>10. start \in Seq(Int) /\ LittleFour(c) \in Seq(Int) /\ e \in Seq(Int) /\ Len(e) = 18
  <2> HIDE DEF c
  <2> QED BY <1>5, FourEnd
<1>11. Padding(alg, fed) = EndPad(128, fed, e)
  <2> DEFINE z == OneAndZeros(128, fed, 18)
             s == LittleFour(c)
  <2>1. Padding(alg, fed) = (z \o start) \o s
    BY <1>1, <1>2 DEF Padding
  <2>2. z \in Seq(Int)
    <3> DEFINE b == 128
               m == 18
    <3>1. b \in Nat \ {0} /\ m \in Nat
      OBVIOUS
    <3> HIDE DEF b, m
    <3>2. OneAndZeros(b, fed, m) \in Seq(Int)
      BY <1>3, <3>1, OneZerosType
    <3> QED BY <3>2 DEF b, m
  <2>3. EndPad(128, fed, e) = z \o e
    <3> HIDE DEF e
    <3> QED BY <1>10 DEF EndPad
  <2> HIDE DEF z, s, start
  <2>4. s \in Seq(Int) /\ start \in Seq(Int) /\ z \in Seq(Int)
    BY <1>10, <2>2 DEF s
  <2>5. (z \o start) \o s = z \o (start \o s)
    BY <2>4, CatAssoc
  <2> QED BY <2>1, <2>3, <2>5 DEF s
<1> DEFINE es == IF Len(one) > 110 THEN <<g, h>> ELSE <<f>>
<1>12. Digest(es)
  BY <1>9
<1> HIDE DEF e
<1>13. IF Len(buf) = 0 THEN es = <<Entry((WithBit(buf) \o Zeros(109)) \o e, o)>>
       ELSE IF Len(buf) < 110 THEN es = <<Entry((WithBit(buf) \o Zeros(109 - Len(buf))) \o e, c)>>
       ELSE es = <<Entry(WithBit(buf) \o Zeros(127 - Len(buf)), c), Entry(Zeros(110) \o e, o)>>
  <2>1. one = WithBit(buf)
    BY DEF one, WithBit
  <2>2. 110 - Len(one) = 109 - l /\ 128 - Len(one) = 127 - l /\ (Len(one) > 110 <=> ~(l < 110))
    BY <1>3, <1>6
  <2>3. l = 0 => 109 - l = 109 /\ l < 110
    OBVIOUS
  <2> HIDE DEF c, o
  <2> QED BY <2>1, <2>2, <2>3
<1>14. c = InWords(8 * fed, Word[alg], 4) /\ o = <<0, 0, 0, 0>> /\ alg \in {"shavite", "echo"}
  BY <1>1
<1> HIDE DEF o, c, es
<1> QED BY <1>1, <1>5, <1>10, <1>11, <1>12, <1>13, <1>14, CountedEnds

LEMMA GapLeft ==
  ASSUME NEW b, NEW k, NEW l, NEW m, At(b, k, l, m), l <= b
  PROVE  Gap(b, m) = IF l = 0 THEN 0 ELSE b - l
<1>1. b \in Nat \ {0} /\ k \in Nat /\ l \in Nat /\ m \in Nat /\ m = b * k + l
  BY DEF At
<1>2. CASE l = 0
  <2> DEFINE g == 0
  <2>1. g \in Nat /\ g < b /\ m + g = b * k
    <3> DEFINE y == b * k
    <3>1. y \in Nat /\ m = y + l
      BY <1>1
    <3> HIDE DEF y
    <3>2. m + g = y /\ g \in Nat /\ g < b
      BY <1>1, <1>2, <3>1
    <3> QED BY <3>2 DEF y
  <2> HIDE DEF g
  <2>2. Filling(b, k, g, m)
    BY <1>1, <2>1 DEF Filling
  <2>3. Gap(b, m) = g
    BY <2>2, GapIs
  <2> QED BY <1>2, <2>3 DEF g
<1>3. CASE l # 0
  <2> DEFINE e == 0
  <2>1. e \in Nat /\ 0 < l + e /\ l + e <= b /\ m + e = m /\ l + e = l
    BY <1>1, <1>3
  <2> HIDE DEF e
  <2>2. Gap(b, m + e) = b - (l + e)
    BY <2>1, GapHere
  <2> QED BY <1>3, <2>1, <2>2
<1> QED BY <1>2, <1>3

LEMMA FourByteWord ==
  ASSUME NEW c \in Nat
  PROVE  LittleEndian(c, 4) \in Seq(Int) /\ Len(LittleEndian(c, 4)) = 4
<1> DEFINE m == 4
<1>1. m \in Nat
  OBVIOUS
<1> HIDE DEF m
<1>2. LittleEndian(c, m) \in Bytes(m)
  BY <1>1, EndianType
<1>3. LittleEndian(c, m) \in Seq(Int) /\ Len(LittleEndian(c, m)) = m
  BY <1>1, <1>2, BytesIs
<1> QED BY <1>3 DEF m

(* The last block of SIMD, for a count in two words.                         *)
SimdLength(low, high) == LittleEndian(low, 4) \o LittleEndian(high, 4) \o Zeros(120)

SimdPadded(z, low, high) ==
  z \o LittleEndian(low, 4) \o LittleEndian(high, 4) \o Zeros(120) = z \o SimdLength(low, high)

LEMMA SimdLengthIs ==
  ASSUME NEW low \in Nat, NEW high \in Nat
  PROVE  /\ SimdLength(low, high) \in Seq(Int) /\ Len(SimdLength(low, high)) = 128
         /\ \A z \in Seq(Int) : SimdPadded(z, low, high)
<1> DEFINE a == LittleEndian(low, 4)
           c == LittleEndian(high, 4)
           y == Zeros(120)
<1>1. a \in Seq(Int) /\ Len(a) = 4 /\ c \in Seq(Int) /\ Len(c) = 4
  BY FourByteWord
<1>2. y \in Seq(Int) /\ Len(y) = 120
  <2> DEFINE m == 120
  <2>1. m \in Nat
    OBVIOUS
  <2> HIDE DEF m
  <2>2. Zeros(m) \in Seq(Int) /\ Len(Zeros(m)) = m
    BY <2>1, ZerosIs
  <2> QED BY <2>2 DEF m
<1>3. SimdLength(low, high) = (a \o c) \o y
  BY DEF SimdLength
<1> HIDE DEF a, c, y
<1>4. a \o c \in Seq(Int) /\ Len(a \o c) = 8
  <2>1. a \o c \in Seq(Int) /\ Len(a \o c) = Len(a) + Len(c)
    BY <1>1, CatType
  <2> QED BY <1>1, <2>1
<1> DEFINE d == a \o c
<1> HIDE DEF d
<1>5. d \in Seq(Int) /\ Len(d) = 8
  BY <1>4 DEF d
<1>6. d \o y \in Seq(Int) /\ Len(d \o y) = Len(d) + Len(y)
  <2>1. d \in Seq(Int) /\ y \in Seq(Int)
    BY <1>2, <1>5
  <2> QED BY <2>1, CatType
<1>7. Len(d \o y) = 128
  BY <1>2, <1>5, <1>6
<1>10. SUFFICES ASSUME NEW z \in Seq(Int) PROVE SimdPadded(z, low, high)
  <2>1. SimdLength(low, high) = d \o y
    BY <1>3 DEF d
  <2> QED BY <1>6, <1>7, <2>1
<1>8. (z \o a) \o c = z \o d
  <2>1. z \in Seq(Int) /\ a \in Seq(Int) /\ c \in Seq(Int)
    BY <1>1
  <2> QED BY <2>1, CatAssoc DEF d
<1>9. (z \o d) \o y = z \o (d \o y)
  <2>1. z \in Seq(Int) /\ d \in Seq(Int) /\ y \in Seq(Int)
    BY <1>2, <1>5
  <2> QED BY <2>1, CatAssoc
<1> QED BY <1>3, <1>8, <1>9 DEF SimdPadded, a, c, d, y

LEMMA SimdCloses ==
  ASSUME TypeInv, phase = "open", Consumed, input = <<>>, alg = "simd",
         NEW low \in Nat, NEW high \in Nat, NEW w, w = Word["simd"],
         low = (8 * fed) % w, high = ((8 * fed) \div w) % w,
         NEW u, u = SimdLength(low, high), NEW es, Digest(es),
         IF Len(buf) = 0 THEN es = <<Entry(u, << 1 >>)>>
         ELSE es = <<Entry(buf \o Zeros(128 - Len(buf)), << 0 >>), Entry(u, << 1 >>)>>
  PROVE  Ended
<1> DEFINE b == 128
           k == Len(out)
           l == Len(buf)
           g == IF l = 0 THEN 0 ELSE b - l
           p == Zeros(g)
           r == <<>>
           x == <<0>>
           y == <<1>>
           q == Padding(alg, fed)
<1>1. ~Lazy(alg) /\ b = BlockLen[alg]
  BY BlockIs DEF Lazy
<1>2. b \in Nat /\ buf \in Seq(Int) /\ l \in Nat /\ l < b /\ k \in Nat /\ fed \in Nat /\ At(b, k, l, fed)
  BY <1>1, BufferLeft, EndsAt, TypeFacts
<1>3. Gap(b, fed) = g
  <2>1. l <= b
    BY <1>2
  <2> HIDE DEF b, l, k
  <2> QED BY <1>2, <2>1, GapLeft
<1>4. g \in Nat
  <2> HIDE DEF l
  <2> QED BY <1>2
<1>5. p \in Seq(Int) /\ Len(p) = g
  <2> HIDE DEF g
  <2> QED BY <1>4, ZerosIs
<1>6. u \in Seq(Int) /\ Len(u) = b
  <2>1. SimdLength(low, high) \in Seq(Int) /\ Len(SimdLength(low, high)) = 128
    BY SimdLengthIs
  <2> QED BY <2>1
<1>7. q = p \o u
  <2>1. q = Zeros(Gap(b, fed)) \o LittleEndian(InWords(8 * fed, w, 2)[1], 4)
            \o LittleEndian(InWords(8 * fed, w, 2)[2], 4) \o Zeros(120)
    BY <1>1 DEF Padding
  <2>2. InWords(8 * fed, w, 2)[1] = low /\ InWords(8 * fed, w, 2)[2] = high
    BY DEF InWords
  <2> HIDE DEF p, q
  <2>3. q = p \o LittleEndian(low, 4) \o LittleEndian(high, 4) \o Zeros(120)
    BY <1>3, <2>1, <2>2 DEF p
  <2>4. SimdPadded(p, low, high)
    BY <1>5, SimdLengthIs
  <2> QED BY <2>3, <2>4 DEF SimdPadded
<1>8. q \in Seq(Int) /\ Len(q) = g + b
  <2> HIDE DEF p, g, q, b
  <2> QED BY <1>5, <1>6, <1>7, CatType
<1>9. Count(alg, fed) = k + (IF l = 0 THEN 1 ELSE 2)
  <2> DEFINE j == IF l = 0 THEN 1 ELSE 2
  <2>1. l + Len(q) = b * j /\ j \in Nat
    <3> HIDE DEF l, q
    <3> QED BY <1>2, <1>8
  <2>2. Padding(alg, fed) \in Seq(Int) /\ Len(buf) + Len(Padding(alg, fed)) = BlockLen[alg] * j
    BY <1>1, <1>8, <2>1
  <2> HIDE DEF j
  <2>3. Count(alg, fed) = Len(out) + j
    BY <2>1, <2>2, PadCount
  <2> QED BY <2>3 DEF j
<1>10. \A i \in 1..Len(out) : Tweak(alg, fed, i) = Body(alg)[i]
  <2>1. Len(out) < Count(alg, fed)
    <3> HIDE DEF k, l
    <3>1. k < Count(alg, fed)
      BY <1>2, <1>9
    <3> QED BY <3>1 DEF k
  <2> QED BY <2>1, Before
<1>11. \A i : Tweak(alg, fed, i) = <<Flag(i = Count(alg, fed))>>
  BY DEF Tweak
<1>12. r \in Seq(Compression) /\ r = Output(alg, fed)
  BY EntriesType DEF Output
<1>13. x \in Seq(Nat) /\ y \in Seq(Nat)
  OBVIOUS
<1>14. CASE l = 0
  <2>1. y = Tweak(alg, fed, Len(out) + 1)
    <3>1. Len(out) + 1 = Count(alg, fed)
      BY <1>9, <1>14
    <3> QED BY <1>11, <3>1 DEF Flag
  <2>2. buf = <<>>
    BY <1>2, <1>14, EmptySeq
  <2>3. p = <<>>
    <3> HIDE DEF p
    <3> QED BY <1>5, <1>14, EmptySeq
  <2>4. q = u /\ buf \o q = u
    <3> HIDE DEF p, q
    <3>1. <<>> \o u = u
      BY <1>6
    <3> QED BY <1>7, <2>2, <2>3, <3>1
  <2>5. One(buf, q, y, r) = <<Entry(u, y)>>
    <3>1. One(buf, q, y, r) = <<Entry(u, y)>> \o <<>>
      BY <2>4 DEF One
    <3>2. Entry(u, y) \in Compression
      BY <1>6, <1>13, EntryType
    <3> DEFINE f == Entry(u, y)
    <3> HIDE DEF f
    <3>3. f \in Compression
      BY <3>2 DEF f
    <3>4. <<f>> \o <<>> = <<f>>
      BY <3>3, ListsAre
    <3> QED BY <3>1, <3>4 DEF f
  <2>6. Digest(One(buf, q, y, r))
    BY <1>14, <2>5
  <2>7. Len(buf) + Len(q) = BlockLen[alg] /\ q = Padding(alg, fed)
    <3> HIDE DEF q, p, g, b
    <3>1. Len(buf) = 0 /\ Len(q) = b
      BY <1>6, <1>14, <2>4
    <3>2. Len(buf) + Len(q) = BlockLen[alg]
      BY <1>1, <1>2, <3>1
    <3> QED BY <3>2 DEF q
  <2> HIDE DEF q, y, r
  <2> QED BY <1>8, <1>10, <1>12, <1>13, <2>1, <2>6, <2>7, CloseOne
<1>15. CASE l # 0
  <2>1. x = Tweak(alg, fed, Len(out) + 1) /\ y = Tweak(alg, fed, Len(out) + 2)
    <3>1. Len(out) + 2 = Count(alg, fed) /\ ~(Len(out) + 1 = Count(alg, fed))
      BY <1>2, <1>9, <1>15
    <3> QED BY <1>11, <3>1 DEF Flag
  <2>2. p = Zeros(128 - Len(buf))
    BY <1>15
  <2>3. buf \o p \in Seq(Int)
    <3> HIDE DEF p
    <3> QED BY <1>2, <1>5, CatType
  <2>4. Two(buf, p, x, u, y, r) = <<Entry(buf \o p, x), Entry(u, y)>>
    <3> DEFINE f == Entry(buf \o p, x)
               h == Entry(u, y)
    <3>1. Two(buf, p, x, u, y, r) = <<f>> \o (<<h>> \o <<>>)
      BY DEF Two
    <3>2. f \in Compression /\ h \in Compression
      <4> HIDE DEF p, x, y
      <4> QED BY <1>6, <1>13, <2>3, EntryType
    <3> HIDE DEF f, h
    <3>3. <<f>> \o (<<h>> \o <<>>) = <<f, h>>
      BY <3>2, ListsAre
    <3> QED BY <3>1, <3>3 DEF f, h
  <2>5. Digest(Two(buf, p, x, u, y, r))
    BY <1>15, <2>2, <2>4
  <2>6. Len(buf) + Len(p) = BlockLen[alg] /\ Len(u) = BlockLen[alg] /\ p \o u = Padding(alg, fed)
    <3>1. l + Len(p) = b
      BY <1>2, <1>5, <1>15
    <3> QED BY <1>1, <1>6, <1>7, <3>1
  <2> HIDE DEF p, x, y, r
  <2> QED BY <1>5, <1>6, <1>10, <1>12, <1>13, <2>1, <2>5, <2>6, CloseTwo
<1> QED BY <1>14, <1>15

LEMMA SimdEnds ==
  ASSUME TypeInv, phase = "open", Sized, Consumed, Counted, SimdClose
  PROVE  Ended
<1> DEFINE w == Word["simd"]
           v == w \div 1024
           k == Len(out)
           l == Len(buf)
           x == 1024 * k
           d == 8 * l
           m == 8 * fed
           low == ((1024 * cnt[1]) % w) + d
           high == ((1024 * cnt[2]) % w) + (((1024 * cnt[1]) % w) \div v)
           u == SimdLength(low, high)
           rest == IF l > 0 THEN <<Entry(buf \o Zeros(128 - l), <<0>>)>> ELSE <<>>
           es == rest \o <<Entry(u, <<1>>)>>
<1>1. alg = "simd" /\ ~fast /\ input = <<>>
  BY DEF SimdClose, Portable, Closing
<1>2. BlockLen[alg] = 128 /\ ~Lazy(alg) /\ w \in Nat \ {0} /\ w % 1024 = 0
  <2>1. w % 1024 = 0
    BY WordAssumption
  <2> QED BY <1>1, <2>1, BlockIs, BlockType DEF Lazy
<1>3. k \in Nat /\ l \in 0..127 /\ fed \in Nat /\ m = x + d
  BY <1>1, <1>2, EighthBits
<1>4. x \in Nat /\ d \in Nat /\ d < 1024 /\ m \in Nat
  <2> HIDE DEF k, l
  <2> QED BY <1>3
<1>5. Digest(es)
  BY DEF SimdClose, SimdCount, SimdCompress, SimdLength, Flag
<1>6. v \in Nat \ {0} /\ w = 1024 * v
  <2> HIDE DEF w
  <2> QED BY <1>2
<1>7. x < v
  <2>1. k = fed \div 128
    <3> HIDE DEF k, l, x, d, m
    <3>1. fed = 128 * k + l
      <4>1. At(BlockLen[alg], Len(out), Len(buf), fed)
        BY <1>1, EndsAt
      <4> QED BY <1>2, <4>1 DEF At, k, l
    <3> QED BY <1>3, <3>1
  <2>2. 1024 * (fed \div 128) < v
    <3>1. fed \in (0..MaxFed[alg]) \union {InSize} /\ alg \in Algo /\ alg = "simd"
      BY <1>1, TypeFacts DEF Sized
    <3>2. 1024 * (fed \div 128) < Word[alg] \div 1024
      BY <3>1, RoomAssumption
    <3> QED BY <1>1, <3>2
  <2> DEFINE q == fed \div 128
  <2> HIDE DEF q, v, k
  <2> QED BY <2>1, <2>2 DEF q
<1>8. k < w /\ x < w
  <2>1. x = 1024 * k
    OBVIOUS
  <2> HIDE DEF k, w, v, x
  <2> QED BY <1>3, <1>4, <1>6, <1>7, <2>1
<1>9. cnt[1] = k /\ cnt[2] = 0
  <2>1. cnt[1] = k % w /\ cnt[2] = k \div w
    BY <1>1 DEF Counted
  <2>2. k % w = k /\ k \div w = 0
    <3>1. k \in Nat
      BY <1>3
    <3>2. w \in Nat \ {0}
      BY <1>2
    <3> HIDE DEF k, w
    <3> QED BY <3>1, <3>2, <1>8, SmallMod
  <2> QED BY <2>1, <2>2
<1>10. x % w = x /\ x \div v = 0
  <2>1. w \in Nat \ {0}
    BY <1>2
  <2> HIDE DEF x, w, v
  <2>2. x % w = x
    BY <1>4, <1>8, <2>1, SmallMod
  <2>3. x \div v = 0
    BY <1>4, <1>6, <1>7, SmallMod
  <2> QED BY <2>2, <2>3
<1>11. low = m /\ high = 0
  <2>1. (1024 * cnt[1]) % w = x
    BY <1>9, <1>10
  <2>2. (1024 * cnt[2]) % w = 0
    <3> DEFINE z == 0
    <3>1. z % w = 0
      BY <1>2, SmallMod
    <3>2. 1024 * cnt[2] = z
      BY <1>9
    <3> HIDE DEF z, w
    <3> QED BY <3>1, <3>2
  <2> HIDE DEF w, v, x, d, m
  <2>3. low = x + d
    BY <2>1
  <2>4. high = 0 + (x \div v)
    BY <2>1, <2>2
  <2> QED BY <1>3, <1>10, <2>3, <2>4
<1>12. m < w
  <2>1. Kept(x, d, w)
    <3>1. x = 1024 * k
      OBVIOUS
    <3> HIDE DEF x, d, w, m
    <3> QED BY <1>2, <1>3, <1>4, <3>1, NoCarry
  <2> HIDE DEF x, d, w, m
  <2> QED BY <1>3, <1>10, <2>1 DEF Kept
<1>13. m % w = m /\ (m \div w) % w = 0
  <2> HIDE DEF m, w
  <2>1. m % w = m /\ m \div w = 0
    BY <1>2, <1>4, <1>12, SmallMod
  <2> DEFINE z == 0
  <2>2. z % w = 0
    BY <1>2, SmallMod
  <2> QED BY <2>1, <2>2
<1>14. low \in Nat /\ high \in Nat /\ low = m % w /\ high = (m \div w) % w
  <2> HIDE DEF low, high, m, w
  <2> QED BY <1>4, <1>11, <1>13
<1> HIDE DEF low, high
<1>15. u \in Seq(Int)
  BY <1>14, SimdLengthIs
<1>16. IF Len(buf) = 0 THEN es = <<Entry(u, <<1>>)>>
       ELSE es = <<Entry(buf \o Zeros(128 - Len(buf)), <<0>>), Entry(u, <<1>>)>>
  <2> DEFINE f == Entry(buf \o Zeros(128 - l), <<0>>)
             g == Entry(u, <<1>>)
  <2>1. <<0>> \in Seq(Nat) /\ <<1>> \in Seq(Nat) /\ buf \in Seq(Int)
    BY TypeFacts
  <2>2. f \in Compression /\ g \in Compression
    <3>1. 128 - l \in Int
      BY <1>3
    <3>2. buf \o Zeros(128 - l) \in Seq(Int)
      <4> DEFINE j == 128 - l
      <4> HIDE DEF j
      <4>1. j \in Int
        BY <3>1 DEF j
      <4>2. buf \o Zeros(j) \in Seq(Int)
        BY <2>1, <4>1, GapSeq
      <4> QED BY <4>2 DEF j
    <3> HIDE DEF u
    <3> QED BY <1>15, <2>1, <3>2, EntryType
  <2>3. es = IF l > 0 THEN <<f>> \o <<g>> ELSE <<>> \o <<g>>
    OBVIOUS
  <2> HIDE DEF f, g, es, u
  <2>4. <<f>> \o <<g>> = <<f, g>>
    BY <2>2, ListsAre
  <2>5. <<>> \o <<g>> = <<g>>
    OBVIOUS
  <2>6. l > 0 <=> ~(l = 0)
    BY <1>3
  <2> QED BY <2>3, <2>4, <2>5, <2>6 DEF f, g
<1>17. low = (8 * fed) % w /\ high = ((8 * fed) \div w) % w /\ w = Word["simd"] /\ u = SimdLength(low, high)
  BY <1>14
<1> HIDE DEF es, u, w
<1> QED BY <1>1, <1>5, <1>14, <1>16, <1>17, SimdCloses

LEMMA FastSimdEnds ==
  ASSUME TypeInv, phase = "open", Consumed, FastSimdClose
  PROVE  Ended
<1> DEFINE w == Word["simd"]
           l == Len(buf)
           m == 8 * fed
           low == m % w
           high == (m \div w) % w
           current == (cnt[1] % 1024) \div 8
           count == InWords(cnt[1], w, 2)
           u == SimdLength(low, high)
           last == Entry(u, <<1>>)
           f == Entry(buf \o Zeros(128 - l), <<0>>)
           es == IF l = 0 THEN <<last>> ELSE <<f, last>>
<1>1. alg = "simd" /\ fast /\ Closing /\ input = <<>>
  BY DEF FastSimdClose, Fast, Closing
<1>2. w \in Nat \ {0} /\ ~Lazy(alg) /\ fed \in Nat /\ l \in Nat /\ buf \in Seq(Int)
  BY <1>1, BlockIs, BlockType, TypeFacts DEF Lazy
<1>3. cnt[1] = m
  <2>1. cnt[1] = 8 * (fed - Len(input))
    BY <1>1 DEF TypeInv, Taking, Closing
  <2>2. Len(input) = 0
    BY <1>1
  <2> QED BY <1>2, <2>1, <2>2
<1>4. current = l
  <2>1. l = fed % 128
    BY <1>1, <1>2, BlockIs, LeftInBuffer
  <2>2. current = fed % 128
    BY <1>2, <1>3
  <2> QED BY <2>1, <2>2
<1>5. count[1] = low /\ count[2] = high
  BY <1>3 DEF InWords
<1>6. SubSeq(buf, 1, l) = buf
  BY <1>2
<1>7. Digest(es)
  <2>1. Digest(IF current = 0 THEN <<Entry(SimdLength(count[1], count[2]), <<1>>)>>
               ELSE <<Entry(SubSeq(buf, 1, current) \o Zeros(128 - current), <<0>>),
                      Entry(SimdLength(count[1], count[2]), <<1>>)>>)
    BY DEF FastSimdClose, Simd512Compress, SimdCompress, SimdLength, Flag
  <2> HIDE DEF current, count, low, high, l
  <2> QED BY <1>4, <1>5, <1>6, <2>1
<1>8. low \in Nat /\ high \in Nat
  <2>1. m \in Int /\ m \div w \in Int
    BY <1>2
  <2> HIDE DEF m, w
  <2> QED BY <1>2, <2>1, ModType
<1>9. IF Len(buf) = 0 THEN es = <<Entry(u, <<1>>)>>
      ELSE es = <<Entry(buf \o Zeros(128 - Len(buf)), <<0>>), Entry(u, <<1>>)>>
  OBVIOUS
<1>10. low = (8 * fed) % w /\ high = ((8 * fed) \div w) % w /\ w = Word["simd"] /\ u = SimdLength(low, high)
  OBVIOUS
<1> HIDE DEF es, u, low, high, w
<1> QED BY <1>1, <1>7, <1>8, <1>9, <1>10, SimdCloses

-----------------------------------------------------------------------------
\* The padding of a sponge fills the block that the buffer is the first part of.
SpongePad(b, l, x) ==
  IF l = b - 1 THEN <<Byte(x + 128)>> ELSE <<Byte(x)>> \o Zeros(b - 2 - l) \o <<Byte(128)>>

LEMMA SpongeLeft ==
  ASSUME TypeInv, Closing, ~Lazy(alg), NEW b, b = BlockLen[alg], NEW x \in Int
  PROVE  /\ Sponge(b, fed, x) = SpongePad(b, Len(buf), x)
         /\ SpongePad(b, Len(buf), x) \in Seq(Int)
         /\ Len(buf) + Len(SpongePad(b, Len(buf), x)) = b
<1> DEFINE l == Len(buf)
           p == SpongePad(b, l, x)
<1>1. fed % b = l /\ b \in Nat /\ l \in 0..(b - 1)
  <2>1. Len(buf) = fed % BlockLen[alg]
    BY LeftInBuffer
  <2>2. b \in Nat /\ Len(buf) \in Nat /\ Len(buf) < b
    BY BufferLeft
  <2> QED BY <2>1, <2>2
<1>2. Sponge(b, fed, x) = p
  BY <1>1 DEF Sponge, SpongePad
<1>3. p \in Bytes(b - l)
  <2> HIDE DEF l
  <2> QED BY <1>1, SpongeType DEF SpongePad
<1>4. p \in Seq(Int) /\ Len(p) = b - l
  BY <1>3 DEF Bytes
<1>5. l + Len(p) = b
  <2> HIDE DEF p, l
  <2> QED BY <1>1, <1>4
<1> QED BY <1>2, <1>4, <1>5

\* SHA3-256, whose suffix goes in with the last bit, in both builds.
LEMMA SpongeCloses ==
  ASSUME TypeInv, Consumed, Closing, alg = "sha3",
         NEW p, p = SpongePad(136, Len(buf), 6), Digest(<<Entry(buf \o p, <<>>)>>)
  PROVE  Ended
<1> DEFINE b == BlockLen[alg]
           x == 6
           t == <<>>
           r == <<>>
<1>1. phase = "open" /\ input = <<>> /\ ~Lazy(alg) /\ b = 136 /\ alg \in Algo
  BY BlockIs DEF Closing, Lazy
<1>2. Padding(alg, fed) = Sponge(b, fed, x)
  BY <1>1 DEF Padding
<1>3. Sponge(b, fed, x) = p /\ p \in Seq(Int) /\ Len(buf) + Len(p) = b
  <2>1. p = SpongePad(b, Len(buf), x)
    BY <1>1
  <2>2. x \in Int
    OBVIOUS
  <2>3. b = BlockLen[alg]
    OBVIOUS
  <2> HIDE DEF b, x
  <2>4. /\ Sponge(b, fed, x) = SpongePad(b, Len(buf), x)
        /\ SpongePad(b, Len(buf), x) \in Seq(Int)
        /\ Len(buf) + Len(SpongePad(b, Len(buf), x)) = b
    BY <1>1, <2>2, <2>3, SpongeLeft
  <2> QED BY <2>1, <2>4
<1>4. \A i \in 1..Len(out) : Tweak(alg, fed, i) = Body(alg)[i]
  BY <1>1, Before
<1>5. t \in Seq(Nat) /\ t = Tweak(alg, fed, Len(out) + 1)
  BY DEF Tweak
<1>6. r \in Seq(Compression) /\ r = Output(alg, fed)
  BY DEF Output
<1>7. Entry(buf \o p, t) \in Compression
  <2>1. buf \in Seq(Int)
    BY TypeFacts
  <2>2. buf \o p \in Seq(Int)
    BY <1>3, <2>1, CatType
  <2> QED BY <1>5, <2>2, EntryType
<1>8. Digest(One(buf, p, t, r))
  <2>1. One(buf, p, t, r) = <<Entry(buf \o p, t)>>
    <3> DEFINE f == Entry(buf \o p, t)
    <3>1. <<f>> \o <<>> = <<f>>
      <4> HIDE DEF f
      <4> QED BY <1>7, ListsAre DEF f
    <3> QED BY <3>1 DEF One
  <2> QED BY <2>1
<1> HIDE DEF t, r
<1> QED BY <1>1, <1>2, <1>3, <1>4, <1>5, <1>6, <1>8, CloseOne

LEMMA Sha3Ends ==
  ASSUME TypeInv, Consumed, Sha3Final
  PROVE  Ended
<1> DEFINE l == Len(buf)
           p == SpongePad(136, l, 6)
           e == IF l = 135 THEN buf \o <<Byte(134)>>
                ELSE buf \o <<Byte(6)>> \o Zeros(134 - l) \o <<Byte(128)>>
<1>1. alg = "sha3" /\ Closing
  BY DEF Sha3Final, Portable
<1>2. Digest(<<Entry(e, <<>>)>>)
  BY DEF Sha3Final, Sha3Process
<1>3. l \in Nat /\ buf \in Seq(Int)
  BY TypeFacts
<1>4. e = buf \o p
  <2>1. ASSUME l = 135 PROVE e = buf \o p
    <3>1. p = <<Byte(134)>>
      BY <2>1 DEF SpongePad
    <3> QED BY <2>1, <3>1
  <2>2. ASSUME l # 135 PROVE e = buf \o p
    <3> DEFINE u == <<Byte(6)>>
               z == Zeros(134 - l)
               v == <<Byte(128)>>
    <3>1. p = (u \o z) \o v
      BY <1>3, <2>2 DEF SpongePad
    <3>2. e = ((buf \o u) \o z) \o v
      BY <2>2
    <3>3. u \in Seq(Int) /\ v \in Seq(Int)
      BY ByteSeq
    <3>4. z \in Seq(Int)
      <4> DEFINE j == 134 - l
      <4>1. j \in Int
        BY <1>3
      <4> HIDE DEF j
      <4>2. Zeros(j) \in Seq(Int)
        BY <4>1, ZerosSeq
      <4> QED BY <4>2 DEF j
    <3> HIDE DEF u, z, v, e, p
    <3>5. (buf \o u) \o z = buf \o (u \o z)
      BY <1>3, <3>3, <3>4, CatAssoc
    <3>6. u \o z \in Seq(Int)
      BY <3>3, <3>4, CatSeq
    <3>7. (buf \o (u \o z)) \o v = buf \o ((u \o z) \o v)
      BY <1>3, <3>3, <3>6, CatAssoc
    <3> QED BY <3>1, <3>2, <3>5, <3>7
  <2> QED BY <2>1, <2>2
<1> HIDE DEF p, e
<1>5. p = SpongePad(136, Len(buf), 6)
  BY DEF p
<1> QED BY <1>1, <1>2, <1>4, <1>5, SpongeCloses

\* The fast build xors the suffix and the last bit into the block instead of appending them.
LEMMA KeccakSpongeEnds ==
  ASSUME TypeInv, Consumed, KeccakSponge
  PROVE  Ended
<1> DEFINE l == Len(buf)
           p == SpongePad(136, l, 6)
           g(i) == (IF i = l + 1 THEN 6 ELSE 0) + (IF i = 136 THEN 128 ELSE 0)
           e == [i \in 1..136 |-> IF i <= l THEN buf[i] ELSE Byte(g(i))]
           q == buf \o p
<1>1. alg = "sha3" /\ Closing /\ ~Lazy(alg)
  BY DEF KeccakSponge, Fast, Lazy
<1>2. Digest(<<Entry(e, <<>>)>>)
  BY DEF KeccakSponge, KeccakP1600, Sha3Process
<1>3. l \in 0..135 /\ buf \in Seq(Int)
  <2>1. BlockLen[alg] = 136
    BY <1>1, BlockIs
  <2>2. l \in Nat /\ l < BlockLen[alg] /\ buf \in Seq(Int)
    BY <1>1, BufferLeft
  <2> HIDE DEF l
  <2> QED BY <2>1, <2>2
<1>4. p \in Bytes(136 - l)
  <2> DEFINE b == 136
             x == 6
  <2>1. b \in Nat /\ l \in 0..(b - 1) /\ x \in Int
    BY <1>3
  <2> HIDE DEF b, x, l
  <2>2. SpongePad(b, l, x) \in Bytes(b - l)
    BY <2>1, SpongeType DEF SpongePad
  <2> QED BY <2>2 DEF b, x
<1>5. \A j \in 1..(136 - l) : p[j] = Byte(g(l + j))
  <2> SUFFICES ASSUME NEW j \in 1..(136 - l) PROVE p[j] = Byte(g(l + j))
    OBVIOUS
  <2> HIDE DEF l
  <2>1. CASE l = 135
    <3>1. j = 1 /\ l + j = 136 /\ g(l + j) = 134
      BY <2>1
    <3>2. p = <<Byte(134)>>
      BY <2>1 DEF SpongePad
    <3> HIDE DEF g, p
    <3> QED BY <3>1, <3>2
  <2>2. CASE l # 135
    <3> DEFINE u == <<Byte(6)>>
               m == 134 - l
               z == Zeros(m)
               v == <<Byte(128)>>
    <3>1. m \in Nat /\ l + m = 134
      BY <1>3, <2>2
    <3>2. p = (u \o z) \o v
      BY <2>2 DEF SpongePad
    <3>3. u \in Seq(Int) /\ v \in Seq(Int) /\ Len(u) = 1 /\ Len(v) = 1 /\ u[1] = Byte(6) /\ v[1] = Byte(128)
      BY ByteSeq
    <3> HIDE DEF m
    <3>4. z \in Seq(Int) /\ Len(z) = m
      BY <3>1, ZerosIs
    <3>5. \A i \in 1..m : z[i] = Byte(0)
      BY <3>1 DEF Zeros
    <3> HIDE DEF u, z, v, p
    <3>6. u \o z \in Seq(Int) /\ Len(u \o z) = 1 + m
      BY <3>3, <3>4, CatType, ZenonT(60)
    <3>7. \A i \in 1..(1 + m) : (u \o z)[i] = IF i <= 1 THEN u[i] ELSE z[i - 1]
      BY <3>3, <3>4, <3>6, ConcatProperties, SMTT(40)
    <3>8. \A i \in 1..(1 + m + 1) : p[i] = IF i <= 1 + m THEN (u \o z)[i] ELSE v[i - (1 + m)]
      <4> DEFINE a == u \o z
      <4> HIDE DEF a
      <4>1. \A i \in 1..(Len(a) + Len(v)) : (a \o v)[i] = IF i <= Len(a) THEN a[i] ELSE v[i - Len(a)]
        <5>1. a \in Seq(Int)
          BY <3>6 DEF a
        <5> QED BY <3>3, <5>1, ConcatProperties, ZenonT(60)
      <4>2. Len(a) + Len(v) = 1 + m + 1 /\ Len(a) = 1 + m
        BY <3>3, <3>6 DEF a
      <4>3. p = a \o v
        BY <3>2 DEF a
      <4> QED BY <4>1, <4>2, <4>3 DEF a
    <3>9. j \in 1..(1 + m + 1)
      BY <1>3, <3>1
    <3>10. CASE j = 1
      <4>1. g(l + j) = 6
        BY <1>3, <2>2, <3>10
      <4>2. 1 \in 1..(1 + m) /\ 1 \in 1..(1 + m + 1) /\ 1 <= 1 + m
        BY <3>1
      <4>3. p[1] = (u \o z)[1] /\ (u \o z)[1] = u[1]
        <5>1. p[1] = (u \o z)[1]
          BY <3>8, <4>2
        <5>2. (u \o z)[1] = IF 1 <= 1 THEN u[1] ELSE z[1 - 1]
          <6> DEFINE i == 1
          <6> HIDE DEF i
          <6>1. i \in 1..(1 + m)
            BY <4>2 DEF i
          <6>2. (u \o z)[i] = IF i <= 1 THEN u[i] ELSE z[i - 1]
            BY <3>7, <6>1
          <6> QED BY <6>2 DEF i
        <5> QED BY <5>1, <5>2
      <4> HIDE DEF g
      <4> QED BY <3>3, <3>10, <4>1, <4>3
    <3>11. CASE j = 1 + m + 1
      <4>1. g(l + j) = 128
        BY <1>3, <2>2, <3>1, <3>11
      <4>2. j - (1 + m) = 1 /\ ~(j <= 1 + m)
        BY <3>1, <3>11
      <4>3. p[j] = v[1]
        BY <3>8, <3>9, <4>2
      <4> HIDE DEF g
      <4> QED BY <3>3, <4>1, <4>3
    <3>12. CASE j # 1 /\ j # 1 + m + 1
      <4>1. g(l + j) = 0
        BY <1>3, <3>1, <3>9, <3>12
      <4>2. j \in 1..(1 + m) /\ j - 1 \in 1..m /\ ~(j <= 1)
        BY <3>1, <3>9, <3>12
      <4>3. p[j] = z[j - 1]
        <5>1. p[j] = (u \o z)[j]
          <6>1. j <= 1 + m
            BY <3>1, <4>2
          <6> QED BY <3>8, <3>9, <6>1
        <5>2. (u \o z)[j] = z[j - 1]
          BY <3>7, <4>2
        <5> QED BY <5>1, <5>2
      <4>4. z[j - 1] = Byte(0)
        BY <3>5, <4>2
      <4> HIDE DEF g
      <4> QED BY <4>1, <4>3, <4>4
    <3> QED BY <3>10, <3>11, <3>12
  <2> QED BY <2>1, <2>2
<1>6. p \in Seq(Int) /\ Len(p) = 136 - l
  BY <1>4 DEF Bytes
<1>7. e \in Seq(Int) /\ Len(e) = 136
  <2>1. \A i \in 1..136 : (IF i <= l THEN buf[i] ELSE Byte(g(i))) \in Int
    <3> SUFFICES ASSUME NEW i \in 1..136 PROVE (IF i <= l THEN buf[i] ELSE Byte(g(i))) \in Int
      OBVIOUS
    <3>1. Byte(g(i)) \in Int
      BY DEF Byte
    <3>2. i <= l => buf[i] \in Int
      <4>1. i <= l => i \in 1..Len(buf)
        BY <1>3
      <4> QED BY <1>3, <4>1
    <3> HIDE DEF g, l
    <3> QED BY <3>1, <3>2
  <2> HIDE DEF g, l
  <2> QED BY <2>1
<1> HIDE DEF p
<1>8. q \in Seq(Int) /\ Len(q) = 136
  <2>1. q \in Seq(Int) /\ Len(q) = l + Len(p)
    BY <1>3, <1>6, CatType
  <2> HIDE DEF q, l
  <2> QED BY <1>3, <1>6, <2>1
<1>9. \A i \in 1..136 : q[i] = IF i <= l THEN buf[i] ELSE p[i - l]
  <2>1. \A i \in 1..(Len(buf) + Len(p)) : q[i] = IF i <= Len(buf) THEN buf[i] ELSE p[i - Len(buf)]
    BY <1>3, <1>6, ConcatProperties
  <2>2. Len(buf) + Len(p) = 136
    BY <1>3, <1>6
  <2> QED BY <2>1, <2>2
<1>10. \A i \in 1..136 : e[i] = q[i]
  <2> SUFFICES ASSUME NEW i \in 1..136 PROVE e[i] = q[i]
    OBVIOUS
  <2>1. e[i] = IF i <= l THEN buf[i] ELSE Byte(g(i))
    OBVIOUS
  <2> HIDE DEF e, q, g, l
  <2>2. CASE i <= l
    BY <1>9, <2>1, <2>2
  <2>3. CASE ~(i <= l)
    <3>1. i - l \in 1..(136 - l) /\ l + (i - l) = i
      BY <1>3, <2>3
    <3>2. p[i - l] = Byte(g(l + (i - l)))
      BY <1>5, <3>1
    <3> QED BY <1>9, <2>1, <2>3, <3>1, <3>2
  <2> QED BY <2>2, <2>3
<1>11. e = q
  <2> HIDE DEF e, q
  <2>1. Len(e) = Len(q) /\ \A i \in 1..Len(e) : e[i] = q[i]
    BY <1>7, <1>8, <1>10
  <2> QED BY <1>7, <1>8, <2>1, SameBytes
<1>12. p = SpongePad(136, Len(buf), 6)
  BY DEF p
<1> HIDE DEF e
<1> QED BY <1>1, <1>2, <1>11, <1>12, SpongeCloses

\* Skein keeps a block back, so after the first nothing is added to an empty buffer: the
\* zeros of the padding fill the last block, if it is not full already.
KeptBack == alg = "skein" /\ phase = "open" /\ out # <<>> => buf # <<>>

LEMMA SkeinEnds ==
  ASSUME TypeInv, phase = "open", Sized, Consumed, Counted, KeptBack, SkeinClose
  PROVE  Ended
<1> DEFINE w == Word["skein"]
           k == Len(out)
           l == Len(buf)
           j == 64 - l
           p == Zeros(j)
           y == 352 + SkeinFirst
           x == <<fed % w, k \div (w \div 64), y>>
           z == <<8 % w, 0 \div (w \div 64), 510>>
           f == Entry(buf \o p, x)
           g == Entry(Zeros(64), z)
           r == <<g>>
<1>1. alg = "skein" /\ input = <<>> /\ alg \in Algo
  BY BlockIs DEF SkeinClose, Common, Closing
<1>2. BlockLen[alg] = 64 /\ w \in Nat \ {0} /\ w % 64 = 0
  BY <1>1, BlockIs, BlockType, WordAssumption
<1>3. k \in Nat /\ l \in 0..64 /\ fed \in Nat /\ fed = 64 * k + l /\ buf \in Seq(Int)
  <2>1. At(BlockLen[alg], Len(out), Len(buf), fed)
    BY <1>1, EndsAt
  <2>2. l <= BlockLen[alg] /\ buf \in Seq(Int)
    BY BufferFits, TypeFacts
  <2>3. At(64, k, l, fed)
    BY <1>2, <2>1
  <2> HIDE DEF k, l
  <2> QED BY <1>2, <2>2, <2>3 DEF At
<1>4. l = 0 => k = 0
  <2>1. l = 0 => buf = <<>>
    BY <1>3
  <2>2. out = <<>> => k = 0
    OBVIOUS
  <2> HIDE DEF l, k
  <2> QED BY <1>1, <2>1, <2>2 DEF KeptBack
<1>5. cnt[1] = k /\ fed < w
  BY <1>1, SkeinRoom DEF Counted
<1>6. j \in Nat /\ l + j = 64
  <2> HIDE DEF l
  <2> QED BY <1>3
<1>7. p = Padding(alg, fed) /\ p \in Seq(Int) /\ Len(p) = j
  <2>1. Padding(alg, fed) = Zeros(IF fed = 0 THEN 64 ELSE Gap(64, fed))
    BY <1>1, <1>2 DEF Padding
  <2> DEFINE b == 64
  <2>2. Gap(b, fed) = IF l = 0 THEN 0 ELSE b - l
    <3> HIDE DEF k, l
    <3>1. At(b, k, l, fed) /\ l <= b
      BY <1>3 DEF At
    <3> HIDE DEF b
    <3> QED BY <3>1, GapLeft
  <2>3. (IF fed = 0 THEN 64 ELSE Gap(64, fed)) = j
    <3> HIDE DEF l, k
    <3> QED BY <1>3, <1>4, <2>2
  <2> HIDE DEF j
  <2> QED BY <1>6, <2>1, <2>3, ZerosIs
<1>8. l + Len(p) = BlockLen[alg]
  <2> HIDE DEF l, p, j
  <2> QED BY <1>2, <1>6, <1>7
<1>9. Count(alg, fed) = k + 1
  <2> DEFINE i == 1
  <2>1. BlockLen[alg] * i = 64 /\ i \in Nat
    BY <1>2
  <2>2. Padding(alg, fed) \in Seq(Int) /\ Len(buf) + Len(Padding(alg, fed)) = BlockLen[alg] * i
    BY <1>2, <1>7, <1>8, <2>1
  <2> HIDE DEF i
  <2>3. Count(alg, fed) = Len(out) + i
    BY <1>1, <2>1, <2>2, PadCount
  <2> QED BY <2>3 DEF i
<1>10. \A i \in 1..Len(out) : Tweak(alg, fed, i) = Body(alg)[i]
  <2>1. Len(out) < Count(alg, fed)
    BY <1>3, <1>9
  <2> QED BY <1>1, <2>1, Before
<1>11. y = 96 + 128 * Flag(k + 1 = 1) + 256 /\ y \in Nat
  <2>1. SkeinFirst = 128 * Flag(k + 1 = 1)
    <3>1. (cnt[1] = 0) <=> (k + 1 = 1)
      <4> HIDE DEF k
      <4> QED BY <1>3, <1>5
    <3> QED BY <3>1 DEF SkeinFirst, Flag
  <2>2. Flag(k + 1 = 1) \in {0, 1}
    BY DEF Flag
  <2> DEFINE q == Flag(k + 1 = 1)
  <2> HIDE DEF q
  <2> QED BY <2>1, <2>2 DEF q
<1>12. x \in Seq(Nat) /\ x = Tweak(alg, fed, Len(out) + 1)
  <2>1. SkeinFits(w, k, l, fed, y)
    <3> HIDE DEF w, k, l, y
    <3> QED BY <1>2, <1>3, <1>5, <1>11 DEF SkeinFits
  <2>2. x = InWords(fed, w, 2) \o <<y>> /\ x \in Seq(Nat)
    <3> HIDE DEF w, k, l, y
    <3> QED BY <2>1, SkeinPlace DEF x
  <2>3. Lower(fed, 64 * (k + 1)) = fed
    <3>1. fed <= 64 * (k + 1)
      <4> HIDE DEF k, l
      <4> QED BY <1>3
    <3>2. 64 * (k + 1) \in Nat
      BY <1>3
    <3> DEFINE m == 64 * (k + 1)
    <3> HIDE DEF m
    <3> QED BY <1>3, <3>1, <3>2 DEF Lower, m
  <2>4. Flag(k + 1 = Count(alg, fed)) = 1
    BY <1>9 DEF Flag
  <2>5. Tweak(alg, fed, k + 1)
          = InWords(Lower(fed, 64 * (k + 1)), w, 2)
            \o <<96 + 128 * Flag(k + 1 = 1) + 256 * Flag(k + 1 = Count(alg, fed))>>
    BY <1>1 DEF Tweak
  <2> HIDE DEF x, y, w
  <2>6. Tweak(alg, fed, k + 1) = InWords(fed, w, 2) \o <<y>>
    BY <1>11, <2>3, <2>4, <2>5
  <2> QED BY <2>2, <2>6
<1>13. z \in Seq(Nat) /\ r = Output(alg, fed) /\ r \in Seq(Compression) /\ g \in Compression
  <2> DEFINE c == 0
             e == 8
             v == 510
  <2>1. SkeinFits(w, c, e, e, v)
    <3> HIDE DEF w
    <3> QED BY <1>2 DEF SkeinFits
  <2>2. <<e % w, c \div (w \div 64), v>> = InWords(e, w, 2) \o <<v>> /\ <<e % w, c \div (w \div 64), v>> \in Seq(Nat)
    <3> HIDE DEF w, c, e, v
    <3> QED BY <2>1, SkeinPlace
  <2>3. z = InWords(8, w, 2) \o <<510>> /\ z \in Seq(Nat)
    BY <2>2
  <2>4. Output(alg, fed) = <<Entry(Zeros(64), InWords(8, w, 2) \o <<510>>)>>
    BY <1>1 DEF Output
  <2> HIDE DEF z
  <2>5. Zeros(64) \in Seq(Int)
    BY ZerosSeq
  <2>6. g \in Compression
    BY <2>3, <2>5, EntryType
  <2>7. r = Output(alg, fed)
    BY <2>3, <2>4
  <2> HIDE DEF g
  <2> QED BY <2>3, <2>6, <2>7, EntriesType
<1>14. f \in Compression
  <2>1. buf \o p \in Seq(Int)
    BY <1>3, <1>7, CatType
  <2> HIDE DEF x, p
  <2> QED BY <1>12, <2>1, EntryType
<1>15. Digest(One(buf, p, x, r))
  <2>1. Digest(<<SkeinUbi(buf \o Zeros(64 - Len(buf)), cnt[1], Len(buf), 352 + SkeinFirst),
                 SkeinUbi(Zeros(64), 0, 8, 510)>>)
    BY DEF SkeinClose
  <2>2. SkeinUbi(buf \o Zeros(64 - Len(buf)), cnt[1], Len(buf), 352 + SkeinFirst) = f
    <3>1. (64 * cnt[1] + Len(buf)) % w = fed % w
      BY <1>3, <1>5
    <3> QED BY <1>5, <3>1 DEF SkeinUbi
  <2>3. SkeinUbi(Zeros(64), 0, 8, 510) = g
    <3>1. 64 * 0 + 8 = 8
      OBVIOUS
    <3> QED BY <3>1 DEF SkeinUbi
  <2>4. One(buf, p, x, r) = <<f, g>>
    <3>1. <<f>> \o <<g>> = <<f, g>>
      <4> HIDE DEF f, g
      <4> QED BY <1>13, <1>14, ListsAre
    <3> QED BY <3>1 DEF One
  <2> HIDE DEF f, g, p, x, r
  <2> QED BY <2>1, <2>2, <2>3, <2>4
<1>16. Len(buf) + Len(p) = BlockLen[alg]
  BY <1>8
<1> HIDE DEF p, x, r
<1> QED BY <1>1, <1>7, <1>10, <1>12, <1>13, <1>15, <1>16, CloseOne

\* Zeros that are written in two parts are zeros.
Between(s, k, e) == (s \o Zeros(k)) \o e
Parted(s, i, k, e) == (s \o Zeros(i)) \o (Zeros(k) \o e)

AddsTo(i, k, m) == i \in Nat /\ k \in Nat /\ m = i + k

LEMMA ZerosJoin ==
  ASSUME NEW s \in Seq(Int), NEW e \in Seq(Int), NEW i, NEW k, NEW m, AddsTo(i, k, m)
  PROVE  /\ Parted(s, i, k, e) = Between(s, m, e)
         /\ Between(s, m, e) \in Seq(Int) /\ Len(Between(s, m, e)) = Len(s) + m + Len(e)
         /\ s \o Zeros(i) \in Seq(Int) /\ Len(s \o Zeros(i)) = Len(s) + i
         /\ Zeros(k) \o e \in Seq(Int) /\ Len(Zeros(k) \o e) = k + Len(e)
<1> DEFINE u == Zeros(i)
           v == Zeros(k)
           x == Zeros(m)
           q == s \o u
           y == s \o x
<1>0. i \in Nat /\ k \in Nat /\ m = i + k
  BY DEF AddsTo
<1>1. u \in Seq(Int) /\ Len(u) = i /\ v \in Seq(Int) /\ Len(v) = k
  BY <1>0, ZerosIs
<1>2. x \in Seq(Int) /\ Len(x) = m /\ u \o v = x
  <2>1. m \in Nat
    BY <1>0
  <2> QED BY <1>0, <2>1, ZerosIs, ZerosCat
<1> HIDE DEF u, v, x
<1>3. q \in Seq(Int) /\ Len(q) = Len(s) + i
  BY <1>1, CatType
<1>4. v \o e \in Seq(Int) /\ Len(v \o e) = k + Len(e)
  BY <1>1, CatType
<1>5. y \in Seq(Int) /\ Len(y) = Len(s) + m
  <2>1. s \o x \in Seq(Int) /\ Len(s \o x) = Len(s) + Len(x)
    <3>1. x \in Seq(Int)
      BY <1>2
    <3> QED BY <3>1, CatType
  <2> QED BY <1>2, <2>1
<1>6. y \o e \in Seq(Int) /\ Len(y \o e) = Len(y) + Len(e)
  <2> HIDE DEF y
  <2> QED BY <1>5, CatType
<1>7. q \o (v \o e) = y \o e
  <2>1. (q \o v) \o e = q \o (v \o e)
    <3> HIDE DEF q
    <3> QED BY <1>1, <1>3, CatAssoc
  <2>2. q \o v = s \o (u \o v)
    BY <1>1, CatAssoc
  <2> QED BY <1>2, <2>1, <2>2
<1> HIDE DEF q, y
<1>8. Parted(s, i, k, e) = q \o (v \o e) /\ Between(s, m, e) = y \o e
  BY DEF Parted, Between, q, u, v, y, x
<1>9. Len(y \o e) = Len(s) + m + Len(e)
  BY <1>5, <1>6
<1> QED BY <1>3, <1>4, <1>6, <1>7, <1>8, <1>9 DEF q, u, v

LEMMA NoBytes == BigEndian(0, 8) = Zeros(8)
<1>1. 0 % 256 = 0 /\ (0 \div 256) % 256 = 0 /\ (0 \div 65536) % 256 = 0
  BY SMT
<1> QED BY <1>1, SMT DEF BigEndian, Zeros

\* What closes JH: at least a whole block, with two words of bits at the end.
LEMMA JhPadding ==
  ASSUME TypeInv, Closing, alg = "jh", NEW j, j = IF Len(buf) = 0 THEN 47 ELSE 111 - Len(buf)
  PROVE  /\ Len(buf) \in 0..63 /\ j \in Nat /\ At(64, Len(out), Len(buf), fed)
         /\ Padding(alg, fed) = (<<Byte(128)>> \o Zeros(j)) \o BigPair(InWords(8 * fed, Word["jh"], 2))
<1> DEFINE l == Len(buf)
           k == Len(out)
           b == 64
<1>1. BlockLen[alg] = 64 /\ ~Lazy(alg) /\ phase = "open" /\ input = <<>>
  BY BlockIs DEF Lazy, Closing
<1>2. At(b, k, l, fed) /\ l \in 0..63
  <2>1. At(BlockLen[alg], Len(out), Len(buf), fed)
    BY <1>1, EndsAt
  <2>2. Len(buf) \in Nat /\ Len(buf) < BlockLen[alg]
    BY <1>1, BufferLeft
  <2>3. At(b, k, l, fed)
    BY <1>1, <2>1
  <2>4. l \in Nat /\ l < 64
    BY <1>1, <2>2
  <2> HIDE DEF l, k, b
  <2> QED BY <2>3, <2>4
<1>3. Gap(b, fed) = IF l = 0 THEN 0 ELSE b - l
  <2>1. l <= b
    <3> HIDE DEF l
    <3> QED BY <1>2
  <2> HIDE DEF b, k, l
  <2> QED BY <1>2, <2>1, GapLeft
<1>4. 47 + Gap(64, fed) = j /\ j \in Nat
  <2>1. j = IF l = 0 THEN 47 ELSE 111 - l
    OBVIOUS
  <2>2. Gap(64, fed) = IF l = 0 THEN 0 ELSE 64 - l
    BY <1>3
  <2> HIDE DEF l
  <2> QED BY <1>2, <2>1, <2>2
<1>5. Padding(alg, fed) = (<<Byte(128)>> \o Zeros(47 + Gap(64, fed))) \o BigPair(InWords(8 * fed, Word["jh"], 2))
  BY <1>1 DEF Padding
<1> QED BY <1>2, <1>4, <1>5

\* The fast JH counts bits in a word and shares the block of an empty rest.
LEMMA FastJhEnds ==
  ASSUME TypeInv, Sized, Consumed, JhFinalize
  PROVE  Ended
<1> DEFINE w == Word["jh"]
           l == Len(buf)
           k == Len(out)
           m == 8 * fed
           j == IF l = 0 THEN 47 ELSE 111 - l
           o == <<Byte(128)>>
           length == BigEndian(m, 8)
           index == (cnt[1] % 512) \div 8
           t == <<>>
           r == <<>>
           es == IF l = 0 THEN <<Entry(o \o Zeros(55) \o length, t)>>
                 ELSE <<Entry(buf \o o \o Zeros(63 - l), t), Entry(Zeros(56) \o length, t)>>
<1>1. alg = "jh" /\ fast /\ Closing /\ phase = "open" /\ input = <<>> /\ BlockLen[alg] = 64
  BY BlockIs DEF JhFinalize, Fast, Closing
<1>2. l \in 0..63 /\ j \in Nat /\ At(64, k, l, fed) /\ buf \in Seq(Int) /\ fed \in Nat
      /\ Padding(alg, fed) = (o \o Zeros(j)) \o BigPair(InWords(m, w, 2))
  <2>1. l \in 0..63 /\ j \in Nat /\ At(64, k, l, fed)
        /\ Padding(alg, fed) = (o \o Zeros(j)) \o BigPair(InWords(m, w, 2))
    BY <1>1, JhPadding
  <2> QED BY <2>1, TypeFacts
<1>3. m \in Nat /\ m < w /\ w \in Nat \ {0}
  BY <1>1, <1>2, BlockType, BlockIs DEF Sized
<1>4. m % w = m /\ m \div w = 0 /\ 0 % w = 0
  <2> HIDE DEF m, w
  <2> DEFINE z == 0
  <2>1. z % w = z
    <3>1. z \in Nat /\ z < w
      BY <1>3
    <3> HIDE DEF z
    <3> QED BY <1>3, <3>1, SmallMod
  <2> QED BY <1>3, <2>1, SmallMod
<1>5. cnt[1] = m
  <2>1. cnt[1] = m % w
    BY <1>1 DEF TypeInv, Taking
  <2> QED BY <1>4, <2>1
<1>6. index = l
  <2> HIDE DEF l, k
  <2>1. fed = 64 * k + l /\ k \in Nat
    BY <1>2 DEF At
  <2>2. m = 512 * k + 8 * l /\ 8 * l < 512 /\ 8 * l \in Nat
    BY <1>2, <2>1
  <2>3. m % 512 = 8 * l
    <3> DEFINE d == 8 * l
               c == 512
    <3>1. c \in Nat \ {0} /\ d \in 0..(c - 1) /\ m = c * k + d /\ k \in Int
      BY <2>1, <2>2
    <3> HIDE DEF m, d, c
    <3>2. m % c = d
      BY <3>1, ModIs
    <3> QED BY <3>2 DEF c, d
  <2>4. (8 * l) \div 8 = l
    BY <1>2
  <2> HIDE DEF m
  <2> QED BY <1>5, <2>3, <2>4
<1>7. o \in Seq(Int) /\ Len(o) = 1 /\ length \in Seq(Int) /\ Len(length) = 8
  <2> HIDE DEF m
  <2> QED BY <1>3, OneIs, EightIs
<1>8. BigPair(InWords(m, w, 2)) = Zeros(8) \o length
  <2>1. InWords(m, w, 2)[1] = m /\ InWords(m, w, 2)[2] = 0
    <3> HIDE DEF m, w
    <3> QED BY <1>4 DEF InWords
  <2> HIDE DEF m, w
  <2> QED BY <2>1, NoBytes DEF BigPair
<1>9. Padding(alg, fed) = Between(o, j + 8, length)
  <2>1. Padding(alg, fed) = Parted(o, j, 8, length)
    BY <1>2, <1>8 DEF Parted
  <2> DEFINE i == 8
             q == j + 8
  <2>2. AddsTo(j, i, q)
    BY <1>2 DEF AddsTo
  <2>3. Padding(alg, fed) = Parted(o, j, i, length)
    BY <2>1
  <2> HIDE DEF o, j, i, q, length
  <2>4. Parted(o, j, i, length) = Between(o, q, length)
    BY <1>2, <1>7, <2>2, ZerosJoin
  <2> QED BY <2>3, <2>4 DEF q
<1>10. Digest(es)
  <2>1. Digest(IF index = 0
               THEN <<Entry(<<Byte(128)>> \o Zeros(55) \o BigEndian(cnt[1], 8), <<>>)>>
               ELSE <<Entry(SubSeq(buf, 1, index) \o <<Byte(128)>> \o Zeros(63 - index), <<>>),
                      Entry(Zeros(56) \o BigEndian(cnt[1], 8), <<>>)>>)
    BY DEF JhFinalize, JhF8, JhE8
  <2>2. SubSeq(buf, 1, l) = buf
    BY <1>2
  <2> HIDE DEF index, m
  <2> QED BY <1>5, <1>6, <2>1, <2>2
<1>11. \A i \in 1..Len(out) : Tweak(alg, fed, i) = Body(alg)[i]
  BY <1>1, Before
<1>12. t \in Seq(Nat) /\ t = Tweak(alg, fed, Len(out) + 1) /\ t = Tweak(alg, fed, Len(out) + 2)
  BY <1>1 DEF Tweak
<1>13. r \in Seq(Compression) /\ r = Output(alg, fed)
  BY <1>1 DEF Output
<1>14. ASSUME l = 0 PROVE Ended
  <2> DEFINE p == Between(o, 55, length)
             f == Entry(buf \o p, t)
  <2>1. buf = <<>> /\ j + 8 = 55
    BY <1>2, <1>14
  <2>2. p = Padding(alg, fed)
    BY <1>9, <2>1
  <2>3. p \in Seq(Int) /\ Len(p) = 64
    <3> DEFINE i == 0
               q == 55
    <3>1. AddsTo(i, q, q)
      BY DEF AddsTo
    <3> HIDE DEF i, q, o, length
    <3>2. o \in Seq(Int) /\ length \in Seq(Int)
      BY <1>7
    <3>3. Between(o, q, length) \in Seq(Int)
      BY <3>1, <3>2, ZerosJoin
    <3>4. Len(Between(o, q, length)) = Len(o) + q + Len(length)
      BY <3>1, <3>2, ZerosJoin
    <3> QED BY <1>7, <3>3, <3>4 DEF q
  <2>4. buf \o p = p
    <3> HIDE DEF p
    <3> QED BY <2>1, <2>3
  <2>5. es = <<f>>
    BY <1>14, <2>4 DEF Between
  <2>6. f \in Compression
    <3> HIDE DEF p, t
    <3> QED BY <1>12, <2>3, <2>4, EntryType
  <2>7. Digest(One(buf, p, t, r))
    <3>1. <<f>> \o <<>> = <<f>>
      <4> HIDE DEF f
      <4> QED BY <2>6, ListsAre
    <3>2. One(buf, p, t, r) = <<f>>
      BY <3>1 DEF One
    <3> HIDE DEF es, f, p, t, r
    <3> QED BY <1>10, <2>5, <3>2
  <2>8. Len(buf) + Len(p) = BlockLen[alg]
    <3> HIDE DEF p
    <3> QED BY <1>1, <1>14, <2>3
  <2> HIDE DEF p, t, r
  <2> QED BY <1>1, <1>11, <1>12, <1>13, <2>2, <2>3, <2>7, <2>8, CloseOne
<1>15. ASSUME l # 0 PROVE Ended
  <2> DEFINE i == 63 - l
             c == 56
             p == o \o Zeros(i)
             u == Zeros(c) \o length
             q == j + 8
             f == Entry(buf \o p, t)
             g == Entry(u, t)
  <2>1. i \in Nat /\ l + 1 + i = 64 /\ AddsTo(i, c, q)
    <3> HIDE DEF l
    <3> QED BY <1>2, <1>15 DEF AddsTo
  <2>2. /\ Parted(o, i, c, length) = Between(o, q, length)
        /\ p \in Seq(Int) /\ Len(p) = Len(o) + i
        /\ u \in Seq(Int) /\ Len(u) = c + Len(length)
    <3> HIDE DEF i, c, o, length, q
    <3>1. AddsTo(i, c, q) /\ o \in Seq(Int) /\ length \in Seq(Int)
      BY <1>7, <2>1
    <3>2. Parted(o, i, c, length) = Between(o, q, length)
      BY <3>1, ZerosJoin
    <3>3. p \in Seq(Int) /\ Len(p) = Len(o) + i
      BY <3>1, ZerosJoin
    <3>4. u \in Seq(Int) /\ Len(u) = c + Len(length)
      BY <3>1, ZerosJoin
    <3> QED BY <3>2, <3>3, <3>4
  <2>3. p \o u = Padding(alg, fed)
    BY <1>9, <2>2 DEF Parted
  <2>4. Len(buf) + Len(p) = BlockLen[alg] /\ Len(u) = BlockLen[alg]
    <3>1. l + Len(p) = 64
      <4> HIDE DEF p, i, o, l
      <4> QED BY <1>2, <1>7, <2>1, <2>2
    <3>2. Len(u) = 64
      <4> HIDE DEF u, length
      <4> QED BY <1>7, <2>2
    <3> QED BY <1>1, <3>1, <3>2
  <2>5. buf \o p = (buf \o o) \o Zeros(i)
    <3> DEFINE z == Zeros(i)
    <3>1. z \in Seq(Int)
      <4> HIDE DEF i
      <4> QED BY <2>1, ZerosIs
    <3> HIDE DEF z, o
    <3>2. (buf \o o) \o z = buf \o (o \o z)
      BY <1>2, <1>7, <3>1, CatAssoc
    <3> QED BY <3>2 DEF z
  <2>6. es = <<f, g>>
    BY <1>15, <2>5
  <2>7. f \in Compression /\ g \in Compression
    <3> HIDE DEF p, u, t
    <3>1. buf \o p \in Seq(Int)
      BY <1>2, <2>2, CatType
    <3> QED BY <1>12, <2>2, <3>1, EntryType
  <2>8. Digest(Two(buf, p, t, u, t, r))
    <3>1. <<f>> \o (<<g>> \o <<>>) = <<f, g>>
      <4> HIDE DEF f, g
      <4> QED BY <2>7, ListsAre
    <3>2. Two(buf, p, t, u, t, r) = <<f, g>>
      BY <3>1 DEF Two
    <3> HIDE DEF es, f, g, p, u, t, r
    <3> QED BY <1>10, <2>6, <3>2
  <2> HIDE DEF p, u, t, r
  <2> QED BY <1>1, <1>11, <1>12, <1>13, <2>2, <2>3, <2>4, <2>8, CloseTwo
<1> QED BY <1>14, <1>15

\* What closes Groestl: the number of blocks, this one or these two included.
LEMMA GroestlPadding ==
  ASSUME TypeInv, Closing, alg = "groestl", NEW q, q = IF Len(buf) < 120 THEN 1 ELSE 2,
         NEW c, c = (Len(out) + q) % Word["groestl"]
  PROVE  /\ Len(buf) \in 0..127 /\ At(128, Len(out), Len(buf), fed) /\ q \in Nat /\ c \in Nat
         /\ Gap(128, fed + 9) = 128 * q - Len(buf) - 9 /\ 128 * q - Len(buf) - 9 \in Nat
         /\ Padding(alg, fed) = OneAndZeros(128, fed, 8) \o BigEndian(c, 8)
<1> DEFINE l == Len(buf)
           k == Len(out)
           b == 128
           w == Word["groestl"]
           e == 9
           g == 128 * q - l - 9
<1>1. BlockLen[alg] = 128 /\ ~Lazy(alg) /\ phase = "open" /\ input = <<>> /\ w \in Nat \ {0}
  BY BlockIs, BlockType DEF Lazy, Closing
<1>2. At(b, k, l, fed)
  <2>1. At(BlockLen[alg], Len(out), Len(buf), fed)
    BY <1>1, EndsAt
  <2> QED BY <1>1, <2>1
<1>3. l \in 0..127
  <2>1. l \in Nat /\ l < BlockLen[alg]
    BY <1>1, BufferLeft
  <2> HIDE DEF l
  <2> QED BY <1>1, <2>1
<1>4. k \in Nat /\ fed = 128 * k + l /\ fed \in Nat
  BY <1>2 DEF At
<1>5. q = IF l < 120 THEN 1 ELSE 2
  OBVIOUS
<1>6. g \in Nat /\ q \in Nat /\ Gap(b, fed + e) = g
  <2> HIDE DEF l, k
  <2>1. CASE l < 120
    <3>1. g = b - (l + e) /\ g \in Nat /\ 0 < l + e /\ l + e <= b /\ e \in Nat /\ q \in Nat
      BY <1>3, <1>5, <2>1
    <3> HIDE DEF b, e
    <3>2. Gap(b, fed + e) = b - (l + e)
      BY <1>2, <3>1, GapHere
    <3> HIDE DEF g
    <3> QED BY <3>1, <3>2
  <2>2. CASE ~(l < 120)
    <3>1. g = b + b - (l + e) /\ g \in Nat /\ b < l + e /\ l + e <= b + b /\ e \in Nat /\ q \in Nat
      BY <1>3, <1>5, <2>2
    <3> HIDE DEF b, e
    <3>2. Gap(b, fed + e) = b + b - (l + e)
      BY <1>2, <3>1, GapOver
    <3> HIDE DEF g
    <3> QED BY <3>1, <3>2
  <2> QED BY <2>1, <2>2
<1>7. (fed + 9 + Gap(128, fed + 9)) \div 128 = k + q
  <2>1. Gap(128, fed + 9) = g
    BY <1>6
  <2> HIDE DEF l, k
  <2>2. fed + 9 + g = 128 * (k + q) /\ k + q \in Nat
    BY <1>3, <1>4, <1>6
  <2>3. (128 * (k + q)) \div 128 = k + q
    BY <2>2
  <2> HIDE DEF g
  <2> QED BY <2>1, <2>2, <2>3
<1>8. Padding(alg, fed) = OneAndZeros(128, fed, 8) \o BigEndian(((fed + 9 + Gap(128, fed + 9)) \div 128) % w, 8)
  BY <1>1 DEF Padding
<1>9. c \in Nat
  <2>1. k + q \in Int
    BY <1>4, <1>6
  <2> DEFINE m == k + q
  <2> HIDE DEF m, w
  <2>2. m % w \in Nat
    BY <1>1, <2>1, ModType DEF m
  <2> QED BY <2>2 DEF m, w
<1> QED BY <1>2, <1>3, <1>6, <1>7, <1>8, <1>9

\* The fast Groestl, which is given no message that leaves one unit of a block.
LEMMA FastGroestlEnds ==
  ASSUME TypeInv, Sized, Consumed, Counted, GroestlFinish
  PROVE  Ended
<1> DEFINE b == 128
           l == Len(buf)
           k == Len(out)
           w == Word["groestl"]
           q == IF l < 120 THEN 1 ELSE 2
           c == (k + q) % w
           e == BigEndian(c, 8)
           one == buf \o <<Byte(128)>>
           x == <<>>
           r == <<GroestlFinal>>
           h == Entry(HereBlock(b, buf, e), x)
           d == GroestlCount(1)[1]
           length == Zeros(7) \o GroestlLength(d)
           last == one \o Zeros(112 - Len(one)) \o <<Byte(0)>> \o length
           i == l \div 16
<1>1. alg = "groestl" /\ fast /\ Closing /\ phase = "open" /\ input = <<>> /\ ~Lazy(alg) /\ b = BlockLen[alg]
  BY BlockIs DEF GroestlFinish, Fast, Closing, Lazy
<1>2. l \in 0..127 /\ At(b, k, l, fed) /\ c \in Nat /\ Padding(alg, fed) = OneAndZeros(b, fed, 8) \o e
  <2>1. q = (IF Len(buf) < 120 THEN 1 ELSE 2) /\ c = (Len(out) + q) % Word["groestl"]
    OBVIOUS
  <2> HIDE DEF q, c
  <2>2. Len(buf) \in 0..127 /\ At(128, Len(out), Len(buf), fed) /\ c \in Nat
    BY <1>1, <2>1, GroestlPadding, SMTT(40)
  <2>3. Padding(alg, fed) = OneAndZeros(128, fed, 8) \o BigEndian(c, 8)
    BY <1>1, <2>1, GroestlPadding, ZenonT(60)
  <2> QED BY <2>2, <2>3
<1>3. k \in Nat /\ fed \in Nat /\ fed = 128 * k + l /\ buf \in Seq(Int) /\ w \in Nat \ {0}
  BY <1>1, <1>2, TypeFacts, BlockType DEF At
<1>4. l % 16 = 0
  BY <1>1, UnitsLeft DEF InUnits
<1>5. fed \div 16 = 8 * k + i /\ i \in 0..7 /\ l = 16 * i
  <2> HIDE DEF l, k
  <2> QED BY <1>2, <1>3, <1>4
<1>6. i # 7 /\ i # (fed \div 16) - 1
  <2>1. (fed \div 16) % 8 # 7
    BY <1>1 DEF Sized
  <2>2. (8 * k + i) % 8 = i
    <3> HIDE DEF i, k
    <3> QED BY <1>3, <1>5
  <2> HIDE DEF i, k
  <2> QED BY <1>3, <1>5, <2>1, <2>2
<1>7. l <= 96
  <2> HIDE DEF i, l
  <2> QED BY <1>5, <1>6
<1>8. d = c /\ d % 256 = c
  <2>1. cnt[1] = k % w
    BY <1>1 DEF Counted
  <2>2. q = 1
    <3> HIDE DEF l
    <3> QED BY <1>2, <1>7
  <2>3. ((k % w) + 1) % w = (k + 1) % w
    <3> HIDE DEF k, w
    <3> QED BY <1>3, NextMod
  <2>4. d = c
    BY <2>1, <2>2, <2>3 DEF GroestlCount
  <2>5. fed \div 128 = k /\ fed \div 128 < 255
    <3>1. fed \in (0..MaxFed[alg]) \union {InSize} /\ alg \in Algo
      BY <1>1, TypeFacts DEF Sized
    <3>2. fed \div 128 < 255
      BY <1>1, <3>1, RoomAssumption
    <3> HIDE DEF k, l
    <3> QED BY <1>2, <1>3, <3>2
  <2>6. (k + 1) % w <= k + 1
    <3> DEFINE m == k + 1
    <3>1. m \in Nat
      BY <1>3
    <3> HIDE DEF m, w
    <3>2. m % w <= m
      <4>1. m % w \in Nat /\ m \div w \in Nat /\ m = w * (m \div w) + (m % w)
        BY <1>3, <3>1, DivType, ModType
      <4>2. w * (m \div w) \in Nat
        <5> DEFINE v == m \div w
        <5> HIDE DEF v
        <5>1. v \in Nat
          BY <4>1 DEF v
        <5>2. w * v \in Nat
          BY <1>3, <5>1
        <5> QED BY <5>2 DEF v
      <4> DEFINE y == w * (m \div w)
                 z == m % w
      <4> HIDE DEF y, z
      <4>3. m = y + z /\ y \in Nat /\ z \in Nat
        BY <4>1, <4>2 DEF y, z
      <4> QED BY <4>3 DEF z
    <3> QED BY <3>2 DEF m
  <2>7. c \in 0..255
    <3>1. c <= k + 1 /\ k < 255
      BY <2>2, <2>5, <2>6
    <3> HIDE DEF c, k
    <3> QED BY <1>2, <1>3, <3>1
  <2> HIDE DEF c, d
  <2> QED BY <2>4, <2>7
<1>9. e \in Seq(Int) /\ Len(e) = 8 /\ one \in Seq(Int) /\ Len(one) = l + 1
  <2>1. e \in Seq(Int) /\ Len(e) = 8
    <3> HIDE DEF c
    <3> QED BY <1>2, EightIs
  <2> QED BY <1>3, <2>1, OneLength
<1>10. Padding(alg, fed) = EndPad(b, fed, e)
  <2> HIDE DEF e
  <2> QED BY <1>2, <1>9 DEF EndPad
<1>11. last = HereBlock(b, buf, e)
  <2> DEFINE j == 112 - Len(one)
             s == one \o Zeros(j)
             o == <<Byte(0)>>
             seven == Zeros(7)
             m == 120 - Len(one)
             eight == Zeros(8)
  <2>1. j \in Nat /\ m = j + 8 /\ m \in Nat
    <3> HIDE DEF one, l
    <3> QED BY <1>2, <1>7, <1>9
  <2>2. last = (s \o o) \o (seven \o e)
    BY <1>8 DEF GroestlLength
  <2>3. o = Zeros(1)
    BY DEF Zeros
  <2>4. Zeros(j) \in Seq(Int) /\ eight \in Seq(Int) /\ o \in Seq(Int) /\ seven \in Seq(Int)
    <3>1. eight \in Seq(Int) /\ seven \in Seq(Int)
      BY ZerosSeq
    <3>2. o \in Seq(Int)
      BY ByteSeq
    <3>3. Zeros(j) \in Seq(Int)
      <4>1. j \in Int
        BY <2>1
      <4> HIDE DEF j
      <4> QED BY <4>1, ZerosSeq
    <3> HIDE DEF j, eight, seven, o
    <3> QED BY <3>1, <3>2, <3>3
  <2>5. s \in Seq(Int)
    <3> HIDE DEF one, j
    <3> QED BY <1>9, <2>4, CatType
  <2>6. (s \o o) \o (seven \o e) = (s \o eight) \o e
    <3> DEFINE i1 == 1
               i7 == 7
               i8 == 8
    <3>1. AddsTo(i1, i7, i8)
      BY DEF AddsTo
    <3> HIDE DEF s, e, i1, i7, i8
    <3>2. Parted(s, i1, i7, e) = Between(s, i8, e)
      BY <1>9, <2>5, <3>1, ZerosJoin
    <3>3. Parted(s, i1, i7, e) = (s \o o) \o (seven \o e)
      BY <2>3 DEF Parted, i1, i7
    <3>4. Between(s, i8, e) = (s \o eight) \o e
      BY DEF Between, i8
    <3> QED BY <3>2, <3>3, <3>4
  <2>7. s \o eight = one \o Zeros(m)
    <3> DEFINE z == Zeros(j)
    <3>1. z \o eight = Zeros(m)
      <4> DEFINE i8 == 8
      <4>1. i8 \in Nat /\ m = j + i8
        BY <2>1
      <4> HIDE DEF j, i8, m
      <4>2. Zeros(j) \o Zeros(i8) = Zeros(j + i8)
        BY <2>1, <4>1, ZerosCat
      <4> QED BY <4>1, <4>2 DEF i8
    <3> HIDE DEF z, one, eight
    <3>2. (one \o z) \o eight = one \o (z \o eight)
      BY <1>9, <2>4, CatAssoc, ZenonT(60) DEF z
    <3> HIDE DEF m
    <3> QED BY <3>1, <3>2 DEF z
  <2>8. HereBlock(b, buf, e) = (one \o Zeros(m)) \o e
    <3>1. b - Len(e) - (Len(buf) + 1) = m
      <4> HIDE DEF one, e
      <4> QED BY <1>9
    <3> HIDE DEF b, e, m
    <3> QED BY <3>1 DEF HereBlock, one
  <2> HIDE DEF last, s, e, one, m, eight
  <2> QED BY <2>2, <2>6, <2>7, <2>8
<1>12. \A j \in 1..Len(out) : Tweak(alg, fed, j) = Body(alg)[j]
  BY <1>1, Before
<1>13. x \in Seq(Nat) /\ x = Tweak(alg, fed, Len(out) + 1) /\ x = Tweak(alg, fed, Len(out) + 2)
  BY <1>1 DEF Tweak
<1>14. GroestlFinal \in Compression /\ r \in Seq(Compression) /\ r = Output(alg, fed)
  <2>1. GroestlFinal \in Compression
    BY BlankPlain DEF GroestlFinal
  <2>2. Output(alg, fed) = <<Blank(<<>>)>>
    BY <1>1 DEF Output
  <2> QED BY <2>1, <2>2, EntriesType DEF GroestlFinal
<1>15. h \in Compression
  <2>1. HereBlock(b, buf, e) \in Seq(Int)
    <3>1. b \in Int
      OBVIOUS
    <3> HIDE DEF b, e
    <3> QED BY <1>3, <1>9, <3>1, BlocksAre
  <2> QED BY <2>1, PlainEntry
<1> DEFINE es == <<h, GroestlFinal>>
<1>16. Digest(es)
  <2>1. i = Len(buf) \div 16
    OBVIOUS
  <2>2. Digest(<<GroestlTF1024(last), GroestlOF1024>>)
    <3> HIDE DEF i
    <3> QED BY <1>6, <2>1 DEF GroestlFinish
  <2> HIDE DEF last, e, b
  <2> QED BY <1>11, <2>2 DEF GroestlTF1024, GroestlCompress, GroestlOF1024
<1>17. Closed(b, e, x, x, r, es)
  <2>1. Len(buf) + 1 + Len(e) <= b
    <3> HIDE DEF e
    <3> QED BY <1>2, <1>7, <1>9
  <2>2. es = <<h>> \o r
    <3> HIDE DEF h
    <3> QED BY <1>14, <1>15, ListsAre
  <2> HIDE DEF e, b, r, es
  <2> QED BY <2>1, <2>2 DEF Closed
<1>18. Len(e) <= b
  <2> HIDE DEF e
  <2> QED BY <1>9
<1> HIDE DEF b, e, x, r, es
<1> QED BY <1>1, <1>9, <1>10, <1>12, <1>13, <1>14, <1>16, <1>17, <1>18, PadClose

\* What is left of the padded message after whole blocks.
Left(a, k, o, rest) ==
  /\ a \in Algo /\ k \in Nat /\ o \in Seq(Compression) /\ rest \in Seq(Int) /\ Padded(a, k) \in Seq(Int)
  /\ Holds(BlockLen[a], o, <<>>, rest, <<>>, Padded(a, k), Tweaks(a, k))

LEMMA LeftFirst ==
  ASSUME TypeInv, phase = "open", Consumed, input = <<>>,
         \A i \in 1..Len(out) : Tweak(alg, fed, i) = Body(alg)[i],
         NEW p \in Seq(Int), NEW u \in Seq(Int), p \o u = Padding(alg, fed), Len(buf) + Len(p) = BlockLen[alg],
         NEW x \in Seq(Nat), x = Tweak(alg, fed, Len(out) + 1)
  PROVE  /\ Left(alg, fed, Append(out, Entry(buf \o p, x)), u)
         /\ Len(Append(out, Entry(buf \o p, x))) = Len(out) + 1
<1> DEFINE b == BlockLen[alg]
           w == Padded(alg, fed)
           ty == Tweaks(alg, fed)
           tw == Body(alg)
<1>1. alg \in Algo /\ fed \in Nat /\ out \in Seq(Compression) /\ buf \in Seq(Int) /\ b \in Nat
  BY TypeFacts, BlockType
<1>2. Holds(b, out, buf, <<>>, <<>>, Message(0, fed), tw)
  BY DEF Consumed, TypeInv, Taking
<1>3. \A i \in 1..Len(out) : Tweak(alg, fed, i) = tw[i]
  OBVIOUS
<1>4. p \o u \in Seq(Int)
  BY CatType
<1>5. Holds(b, out, buf, p \o u, <<>>, w, ty) /\ w \in Seq(Int)
  <2> HIDE DEF tw
  <2> QED BY <1>1, <1>2, <1>3, <1>4, PadHolds
<1>6. x = ty[Len(out) + 1]
  <2>1. Len(out) + 1 \in Nat
    BY <1>1, TypeFacts
  <2> QED BY <2>1 DEF Tweaks
<1>7. Len(buf) + Len(p) = b
  OBVIOUS
<1> HIDE DEF b, w, ty
<1>8. Holds(b, Append(out, Entry(buf \o p, x)), <<>>, u, <<>>, w, ty)
  BY <1>1, <1>5, <1>6, <1>7, BlockHolds
<1>9. /\ Append(out, Entry(buf \o p, x)) \in Seq(Compression)
      /\ Len(Append(out, Entry(buf \o p, x))) = Len(out) + 1
  <2> DEFINE e == Entry(buf \o p, x)
  <2>1. buf \o p \in Seq(Int)
    BY <1>1, CatType
  <2>2. e \in Compression
    BY <2>1, EntryType
  <2> HIDE DEF e
  <2> QED BY <1>1, <2>2, AppendProperties DEF e
<1> QED BY <1>1, <1>5, <1>8, <1>9 DEF Left, b, w, ty

LEMMA LeftNext ==
  ASSUME NEW a, NEW k, NEW o, NEW u \in Seq(Int), NEW r \in Seq(Int), Left(a, k, o, u \o r), Len(u) = BlockLen[a],
         NEW x \in Seq(Nat), x = Tweak(a, k, Len(o) + 1)
  PROVE  Left(a, k, Append(o, Entry(u, x)), r) /\ Len(Append(o, Entry(u, x))) = Len(o) + 1
<1> DEFINE b == BlockLen[a]
           w == Padded(a, k)
           ty == Tweaks(a, k)
           e == Entry(u, x)
<1>1. a \in Algo /\ k \in Nat /\ o \in Seq(Compression) /\ w \in Seq(Int) /\ Holds(b, o, <<>>, u \o r, <<>>, w, ty)
  BY DEF Left
<1>2. b \in Nat /\ Len(u) = b
  BY <1>1, BlockType
<1>3. x = ty[Len(o) + 1]
  <2>1. Len(o) + 1 \in Nat
    BY <1>1, LenProperties
  <2> QED BY <2>1 DEF Tweaks
<1> HIDE DEF b, w, ty
<1>4. Holds(b, Append(o, Entry(u, x)), <<>>, r, <<>>, w, ty)
  BY <1>1, <1>2, <1>3, NextBlock
<1>5. e \in Compression
  BY EntryType
<1>6. Append(o, e) \in Seq(Compression) /\ Len(Append(o, e)) = Len(o) + 1
  <2> HIDE DEF e
  <2> QED BY <1>1, <1>5, AppendProperties
<1> QED BY <1>1, <1>4, <1>6 DEF Left, b, w, ty

LEMMA LeftNone ==
  ASSUME NEW a, NEW k, NEW o, Left(a, k, o, <<>>)
  PROVE  Standard(a, k) = o \o Output(a, k) /\ Count(a, k) = Len(o)
BY StandardIs DEF Left

LEMMA AnySeq ==
  ASSUME NEW S, NEW k \in Nat, NEW s \in [1..k -> S]
  PROVE  s \in Seq(S) /\ Len(s) = k
OBVIOUS

LEMMA TwoOf ==
  ASSUME NEW S, NEW f \in S, NEW g \in S, NEW e \in S, NEW s \in [1..2 -> S], s[1] = f, s[2] = g
  PROVE  s \o <<e>> = <<f, g, e>> /\ s \in Seq(S)
<1>1. s \in Seq(S) /\ Len(s) = 2
  BY AnySeq
<1>2. <<e>> \in Seq(S) /\ Len(<<e>>) = 1 /\ <<e>>[1] = e
  OBVIOUS
<1> DEFINE t == <<e>>
           c == s \o t
           d == <<f, g, e>>
<1>3. d \in Seq(S) /\ Len(d) = 3 /\ d[1] = f /\ d[2] = g /\ d[3] = e
  OBVIOUS
<1>4. t \in Seq(S) /\ Len(t) = 1 /\ t[1] = e
  BY <1>2
<1> HIDE DEF t, d
<1>5. /\ c \in Seq(S) /\ Len(c) = Len(s) + Len(t)
      /\ \A i \in 1..(Len(s) + Len(t)) : c[i] = IF i <= Len(s) THEN s[i] ELSE t[i - Len(s)]
  BY <1>1, <1>4, ConcatProperties
<1> HIDE DEF c
<1>6. Len(c) = 3 /\ c[1] = f /\ c[2] = g /\ c[3] = e
  BY <1>1, <1>4, <1>5
<1>8. Len(c) = Len(d) /\ \A i \in 1..Len(c) : c[i] = d[i]
  BY <1>3, <1>6
<1>7. c = d
  BY <1>3, <1>5, <1>8, SeqEqual
<1> QED BY <1>1, <1>7 DEF c, d, t

LEMMA ThreeOf ==
  ASSUME NEW S, NEW f \in S, NEW g \in S, NEW h \in S, NEW e \in S, NEW s \in [1..3 -> S],
         s[1] = f, s[2] = g, s[3] = h
  PROVE  s \o <<e>> = <<f, g, h, e>> /\ s \in Seq(S)
<1>1. s \in Seq(S) /\ Len(s) = 3
  BY AnySeq
<1> DEFINE t == <<e>>
           c == s \o t
           d == <<f, g, h, e>>
<1>3. d \in Seq(S) /\ Len(d) = 4 /\ d[1] = f /\ d[2] = g /\ d[3] = h /\ d[4] = e
  OBVIOUS
<1>4. t \in Seq(S) /\ Len(t) = 1 /\ t[1] = e
  OBVIOUS
<1> HIDE DEF t, d
<1>5. /\ c \in Seq(S) /\ Len(c) = Len(s) + Len(t)
      /\ \A i \in 1..(Len(s) + Len(t)) : c[i] = IF i <= Len(s) THEN s[i] ELSE t[i - Len(s)]
  BY <1>1, <1>4, ConcatProperties
<1> HIDE DEF c
<1>6. Len(c) = 4 /\ c[1] = f /\ c[2] = g /\ c[3] = h /\ c[4] = e
  BY <1>1, <1>4, <1>5
<1>8. Len(c) = Len(d) /\ \A i \in 1..Len(c) : c[i] = d[i]
  BY <1>3, <1>6
<1>7. c = d
  BY <1>3, <1>5, <1>8, SeqEqual
<1> QED BY <1>1, <1>7 DEF c, d, t

LEMMA FourOf ==
  ASSUME NEW f \in Compression, NEW g \in Compression, NEW h \in Compression, NEW e \in Compression
  PROVE  <<f>> \o (<<g>> \o (<<h>> \o <<e>>)) = <<f, g, h, e>>
<1> DEFINE s == <<f>>
           t == <<g, h, e>>
           c == s \o t
           d == <<f, g, h, e>>
<1>1. <<g>> \o (<<h>> \o <<e>>) = t
  <2>1. <<h>> \o <<e>> = <<h, e>>
    BY PairCat
  <2> QED BY <2>1, TripleCat
<1>2. s \in Seq(Compression) /\ Len(s) = 1 /\ s[1] = f
  OBVIOUS
<1>3. t \in Seq(Compression) /\ Len(t) = 3 /\ t[1] = g /\ t[2] = h /\ t[3] = e
  OBVIOUS
<1>4. d \in Seq(Compression) /\ Len(d) = 4 /\ d[1] = f /\ d[2] = g /\ d[3] = h /\ d[4] = e
  OBVIOUS
<1> HIDE DEF s, t, d
<1>5. /\ c \in Seq(Compression) /\ Len(c) = Len(s) + Len(t)
      /\ \A i \in 1..(Len(s) + Len(t)) : c[i] = IF i <= Len(s) THEN s[i] ELSE t[i - Len(s)]
  BY <1>2, <1>3, ConcatProperties
<1> HIDE DEF c
<1>6. Len(c) = 4 /\ c[1] = f /\ c[2] = g /\ c[3] = h /\ c[4] = e
  BY <1>2, <1>3, <1>5
<1>8. Len(c) = Len(d) /\ \A i \in 1..Len(c) : c[i] = d[i]
  BY <1>4, <1>6
<1>7. c = d
  BY <1>4, <1>5, <1>8, SeqEqual
<1> QED BY <1>1, <1>7 DEF c, d, s

\* What closes Fugue: zeros up to a word, and the bits in two.
LEMMA FuguePadding ==
  ASSUME TypeInv, Closing, alg = "fugue", NEW c, c = (8 * fed) % Word["fugue"]
  PROVE  /\ Len(buf) \in 0..4 /\ At(4, Len(out), Len(buf), fed) /\ c \in Nat
         /\ Padding(alg, fed) = Zeros(IF Len(buf) = 0 THEN 0 ELSE 4 - Len(buf)) \o BigEndian(c, 8)
<1> DEFINE l == Len(buf)
           k == Len(out)
           b == 4
           w == Word["fugue"]
           m == 8 * fed
<1>1. BlockLen[alg] = 4 /\ phase = "open" /\ input = <<>> /\ w \in Nat \ {0}
  BY BlockIs, BlockType DEF Closing
<1>2. At(b, k, l, fed) /\ l <= b
  <2>1. At(BlockLen[alg], Len(out), Len(buf), fed)
    BY <1>1, EndsAt
  <2> QED BY <1>1, <2>1, BufferFits
<1>3. l \in 0..4 /\ fed \in Nat
  <2> HIDE DEF l, k
  <2> QED BY <1>2 DEF At
<1>4. Gap(b, fed) = IF l = 0 THEN 0 ELSE b - l
  <2> HIDE DEF b, k, l
  <2> QED BY <1>2, GapLeft
<1>5. c \in Nat
  <2>1. m \in Int /\ c = m % w
    BY <1>3
  <2> HIDE DEF m, w
  <2> QED BY <1>1, <2>1, ModType
<1>6. Padding(alg, fed) = Zeros(Gap(b, fed)) \o BigEndian(c, 8)
  <2>1. InWords(m, w, 1)[1] = m % w
    BY DEF InWords
  <2>2. Padding(alg, fed) = Zeros(Gap(4, fed)) \o BigEndian(InWords(m, w, 1)[1], 8)
    BY <1>1 DEF Padding
  <2> QED BY <2>1, <2>2
<1> QED BY <1>2, <1>3, <1>4, <1>5, <1>6

LEMMA ThirdIs ==
  ASSUME NEW k \in Nat, NEW j \in Nat
  PROVE  ((k % 3) + j) % 3 = (k + j) % 3
OBVIOUS

LEMMA FugueTweak ==
  ASSUME NEW k \in Nat, NEW i \in Nat, alg = "fugue"
  PROVE  Tweak(alg, fed, k + i + 1) = <<(k + i) % 3>> /\ <<(k + i) % 3>> \in Seq(Nat)
<1>1. Tweak(alg, fed, k + i + 1) = <<(k + i + 1 - 1) % 3>>
  BY DEF Tweak
<1>2. k + i + 1 - 1 = k + i /\ (k + i) % 3 \in Nat
  OBVIOUS
<1> QED BY <1>1, <1>2

\* The fast Fugue takes in what is left, if anything, and the length as two words.
LEMMA FastFugueEnds ==
  ASSUME TypeInv, Consumed, Counted, FastFugueFinal
  PROVE  Ended
<1> DEFINE w == Word["fugue"]
           l == Len(buf)
           k == Len(out)
           c == (8 * fed) % w
           length == BigEndian(c, 8)
           y == SubSeq(length, 1, 4)
           z == SubSeq(length, 5, 8)
           t(i) == <<(k + i) % 3>>
           v == Zeros(4 - l)
<1>1. alg = "fugue" /\ fast /\ Closing /\ phase = "open" /\ input = <<>> /\ ~Lazy(alg) /\ BlockLen[alg] = 4
  BY BlockIs DEF FastFugueFinal, Fast, Closing, Lazy
<1>2. l \in 0..3 /\ At(4, k, l, fed) /\ c \in Nat /\ buf \in Seq(Int)
      /\ Padding(alg, fed) = Zeros(IF l = 0 THEN 0 ELSE 4 - l) \o length
  <2>1. At(4, k, l, fed) /\ c \in Nat /\ Padding(alg, fed) = Zeros(IF l = 0 THEN 0 ELSE 4 - l) \o length
    BY <1>1, FuguePadding
  <2>2. l \in Nat /\ l < BlockLen[alg] /\ buf \in Seq(Int)
    BY <1>1, BufferLeft
  <2>3. l \in 0..3
    <3> HIDE DEF l
    <3> QED BY <1>1, <2>2
  <2> QED BY <2>1, <2>2, <2>3
<1>3. k \in Nat /\ fed = 4 * k + l
  BY <1>2 DEF At
<1>4. cnt[1] = 32 * k /\ cnt[2] = k % 3
  BY <1>1 DEF Counted
<1>5. (cnt[1] + 8 * Len(buf)) % w = c
  <2>1. 32 * k + 8 * l = 8 * fed
    <3> HIDE DEF k, l
    <3> QED BY <1>2, <1>3
  <2> QED BY <1>4, <2>1
<1>6. length \in Seq(Int) /\ Len(length) = 8
  <2> HIDE DEF c
  <2> QED BY <1>2, EightIs
<1>7. y \in Seq(Int) /\ Len(y) = 4 /\ z \in Seq(Int) /\ Len(z) = 4 /\ y \o z = length
  <2> HIDE DEF length
  <2>1. y \in Seq(Int) /\ Len(y) = 4 /\ \A j \in 1..4 : y[j] = length[j]
    BY <1>6
  <2>2. z \in Seq(Int) /\ Len(z) = 4 /\ \A j \in 1..4 : z[j] = length[4 + j]
    <3> DEFINE m == 4
    <3>1. m \in Nat /\ m + m <= Len(length) /\ m + 1 = 5 /\ m + m = 8
      BY <1>6
    <3> HIDE DEF m
    <3>2. LET q == SubSeq(length, m + 1, m + m)
          IN q \in Seq(Int) /\ Len(q) = m /\ \A j \in 1..m : q[j] = length[m + j]
      BY <1>6, <3>1, PartIs
    <3> QED BY <3>1, <3>2 DEF m
  <2> DEFINE u == y \o z
  <2> HIDE DEF y, z
  <2>3. /\ u \in Seq(Int) /\ Len(u) = Len(y) + Len(z)
        /\ \A i \in 1..(Len(y) + Len(z)) : u[i] = IF i <= Len(y) THEN y[i] ELSE z[i - Len(y)]
    BY <2>1, <2>2, ConcatProperties
  <2> HIDE DEF u
  <2>4. \A i \in 1..8 : u[i] = length[i]
    <3> SUFFICES ASSUME NEW i \in 1..8 PROVE u[i] = length[i]
      OBVIOUS
    <3>1. CASE i <= 4
      BY <2>1, <2>2, <2>3, <3>1
    <3>2. CASE ~(i <= 4)
      <4>1. i - 4 \in 1..4 /\ 4 + (i - 4) = i
        BY <3>2
      <4>2. u[i] = z[i - 4]
        BY <2>1, <2>2, <2>3, <3>2
      <4>3. z[i - 4] = length[4 + (i - 4)]
        BY <2>2, <4>1
      <4> QED BY <4>1, <4>2, <4>3
    <3> QED BY <3>1, <3>2
  <2>5. Len(u) = Len(length) /\ \A i \in 1..Len(u) : u[i] = length[i]
    BY <1>6, <2>1, <2>2, <2>3, <2>4
  <2>6. u = length
    BY <1>6, <2>3, <2>5, SameBytes
  <2> QED BY <2>1, <2>2, <2>6 DEF u
<1> DEFINE words == (IF buf = <<>> THEN <<>> ELSE <<buf \o v>>) \o <<y, z>>
           s == [i \in 1..Len(words) |-> FugueCompress512(words[i], cnt[2] + i - 1)]
           last == FugueFinal512(cnt[2] + Len(words))
<1>8. Digest(s \o <<last>>)
  BY <1>5 DEF FastFugueFinal
<1>9. \A i \in Nat : t(i) \in Seq(Nat) /\ t(i) = Tweak(alg, fed, k + i + 1)
  <2> SUFFICES ASSUME NEW i \in Nat PROVE t(i) \in Seq(Nat) /\ t(i) = Tweak(alg, fed, k + i + 1)
    OBVIOUS
  <2> HIDE DEF k
  <2> QED BY <1>1, <1>3, FugueTweak
<1>10. \A i \in Nat : FugueFinal512(cnt[2] + i) = Blank(t(i)) /\ Blank(t(i)) \in Compression
  <2> SUFFICES ASSUME NEW i \in Nat PROVE FugueFinal512(cnt[2] + i) = Blank(t(i)) /\ Blank(t(i)) \in Compression
    OBVIOUS
  <2>1. (cnt[2] + i) % 3 = (k + i) % 3
    <3> HIDE DEF k
    <3> QED BY <1>3, <1>4, ThirdIs
  <2>2. t(i) \in Seq(Nat)
    BY <1>9
  <2>3. FugueFinal512(cnt[2] + i) = Blank(t(i))
    BY <2>1 DEF FugueFinal512
  <2> QED BY <2>2, <2>3, BlankType
<1>11. \A i \in Nat : \A q : FugueCompress512(q, cnt[2] + (i + 1) - 1) = Entry(q, t(i))
  <2> SUFFICES ASSUME NEW i \in Nat, NEW q PROVE FugueCompress512(q, cnt[2] + (i + 1) - 1) = Entry(q, t(i))
    OBVIOUS
  <2>1. (cnt[2] + (i + 1) - 1) % 3 = (k + i) % 3
    <3> HIDE DEF k
    <3>1. cnt[2] + (i + 1) - 1 = (k % 3) + i
      BY <1>3, <1>4
    <3> QED BY <1>3, <3>1, ThirdIs
  <2> QED BY <2>1 DEF FugueCompress512
<1>12. \A i \in 1..Len(out) : Tweak(alg, fed, i) = Body(alg)[i]
  BY <1>1, Before
<1>13. t(0) = Tweak(alg, fed, Len(out) + 1) /\ t(0) \in Seq(Nat) /\ t(1) = Tweak(alg, fed, Len(out) + 2) /\ t(1) \in Seq(Nat)
       /\ t(2) = Tweak(alg, fed, Len(out) + 3) /\ t(2) \in Seq(Nat) /\ t(3) \in Seq(Nat)
  <2>1. k + 0 + 1 = Len(out) + 1 /\ k + 1 + 1 = Len(out) + 2 /\ k + 2 + 1 = Len(out) + 3
    BY <1>3
  <2>2. t(0) \in Seq(Nat) /\ t(0) = Tweak(alg, fed, k + 0 + 1)
    BY <1>9
  <2>3. t(1) \in Seq(Nat) /\ t(1) = Tweak(alg, fed, k + 1 + 1)
    BY <1>9
  <2>4. t(2) \in Seq(Nat) /\ t(2) = Tweak(alg, fed, k + 2 + 1)
    BY <1>9
  <2>5. t(3) \in Seq(Nat)
    BY <1>9
  <2> HIDE DEF t
  <2> QED BY <2>1, <2>2, <2>3, <2>4, <2>5
<1>14. ASSUME l = 0 PROVE Ended
  <2> DEFINE f == Entry(y, t(0))
             g == Entry(z, t(1))
             e == Blank(t(2))
  <2>1. buf = <<>> /\ buf \o y = y
    <3>1. buf = <<>>
      BY <1>14
    <3> HIDE DEF y
    <3> QED BY <1>7, <3>1
  <2>2. words = <<y, z>> /\ Len(words) = 2 /\ words[1] = y /\ words[2] = z
    <3>1. words = <<>> \o <<y, z>>
      BY <2>1
    <3> HIDE DEF y, z, words
    <3> QED BY <1>7, <3>1
  <2> HIDE DEF words
  <2>3. s \in [1..2 -> Compression] /\ s[1] = f /\ s[2] = g /\ f \in Compression /\ g \in Compression
    <3>1. f \in Compression /\ g \in Compression
      <4> HIDE DEF t, y, z
      <4> QED BY <1>7, <1>13, EntryType
    <3>2. FugueCompress512(words[1], cnt[2] + 1 - 1) = f
      <4>1. FugueCompress512(y, cnt[2] + (0 + 1) - 1) = Entry(y, t(0))
        BY <1>11
      <4> HIDE DEF t, y
      <4> QED BY <2>2, <4>1
    <3>3. FugueCompress512(words[2], cnt[2] + 2 - 1) = g
      <4>1. FugueCompress512(z, cnt[2] + (1 + 1) - 1) = Entry(z, t(1))
        BY <1>11
      <4> HIDE DEF t, z
      <4> QED BY <2>2, <4>1
    <3> HIDE DEF f, g
    <3> DEFINE at(i) == FugueCompress512(words[i], cnt[2] + i - 1)
    <3>4. s = [i \in 1..2 |-> at(i)]
      BY <2>2
    <3>5. at(1) = f /\ at(2) = g
      BY <3>2, <3>3
    <3>6. 1..2 = {1, 2}
      OBVIOUS
    <3> HIDE DEF s, at
    <3>7. s[1] = at(1) /\ s[2] = at(2) /\ DOMAIN s = 1..2
      BY <3>4, <3>6
    <3>8. \A i \in 1..2 : at(i) \in Compression
      BY <3>1, <3>5, <3>6
    <3> QED BY <3>1, <3>4, <3>5, <3>7, <3>8
  <2>4. last = e /\ e \in Compression
    BY <1>10, <2>2
  <2>5. Digest(<<f, g, e>>)
    <3> HIDE DEF s, last, f, g, e
    <3>1. s \o <<last>> = <<f, g, e>>
      BY <2>3, <2>4, TwoOf
    <3> QED BY <1>8, <3>1
  <2>6. y \o z = Padding(alg, fed)
    <3> DEFINE i == 0
    <3>1. Zeros(i) = <<>>
      BY DEF Zeros
    <3>2. Padding(alg, fed) = Zeros(i) \o length
      BY <1>2, <1>14
    <3> HIDE DEF length, i, y, z
    <3> QED BY <1>6, <1>7, <3>1, <3>2
  <2>7. Count(alg, fed) = k + 2
    <3> DEFINE i == 2
    <3>1. Padding(alg, fed) \in Seq(Int) /\ Len(buf) + Len(Padding(alg, fed)) = BlockLen[alg] * i
      <4>1. Padding(alg, fed) = length
        BY <1>7, <2>6
      <4> HIDE DEF length
      <4> QED BY <1>1, <1>6, <1>14, <4>1
    <3>2. i \in Nat
      OBVIOUS
    <3> HIDE DEF i
    <3>3. Count(alg, fed) = Len(out) + i
      BY <1>1, <3>1, <3>2, PadCount
    <3> QED BY <3>3 DEF i
  <2> DEFINE r == <<e>>
  <2>8. r = Output(alg, fed) /\ r \in Seq(Compression)
    <3>1. Output(alg, fed) = <<Blank(<<Count(alg, fed) % 3>>)>>
      BY <1>1 DEF Output
    <3>2. Output(alg, fed) = r
      BY <2>7, <3>1
    <3> HIDE DEF e
    <3> QED BY <2>4, <3>2, EntriesType
  <2>9. Digest(Two(buf, y, t(0), z, t(1), r))
    <3>1. <<f>> \o (<<g>> \o r) = <<f, g, e>>
      <4> HIDE DEF f, g, e
      <4> QED BY <2>3, <2>4, ListsAre
    <3>2. Two(buf, y, t(0), z, t(1), r) = <<f>> \o (<<g>> \o r)
      BY <2>1 DEF Two
    <3> HIDE DEF f, g, e, r, y, z, t
    <3> QED BY <2>5, <3>1, <3>2
  <2>10. Len(buf) + Len(y) = BlockLen[alg] /\ Len(z) = BlockLen[alg]
    <3> HIDE DEF y, z
    <3> QED BY <1>1, <1>7, <1>14
  <2> DEFINE t1 == t(0)
             t2 == t(1)
  <2>11. t1 = Tweak(alg, fed, Len(out) + 1) /\ t1 \in Seq(Nat) /\ t2 = Tweak(alg, fed, Len(out) + 2) /\ t2 \in Seq(Nat)
    BY <1>13
  <2>12. Digest(Two(buf, y, t1, z, t2, r))
    BY <2>9
  <2> HIDE DEF t1, t2, r, y, z
  <2> QED BY <1>1, <1>7, <1>12, <2>6, <2>8, <2>10, <2>11, <2>12, CloseTwo
<1>15. ASSUME l # 0 PROVE Ended
  <2> DEFINE q == buf \o v
             f == Entry(q, t(0))
             g == Entry(y, t(1))
             h == Entry(z, t(2))
             e == Blank(t(3))
             o1 == Append(out, f)
             o2 == Append(o1, g)
             o3 == Append(o2, h)
  <2>1. v \in Seq(Int) /\ Len(v) = 4 - l /\ q \in Seq(Int) /\ Len(buf) + Len(v) = BlockLen[alg]
    <3> DEFINE i == 4 - l
    <3>1. i \in Nat /\ l + i = 4
      <4> HIDE DEF l
      <4> QED BY <1>2, <1>15
    <3>2. v = Zeros(i)
      OBVIOUS
    <3> HIDE DEF i, v
    <3>3. v \in Seq(Int) /\ Len(v) = i
      BY <3>1, <3>2, ZerosIs
    <3>4. q \in Seq(Int)
      BY <1>2, <3>3, CatType
    <3> QED BY <1>1, <3>1, <3>3, <3>4 DEF i
  <2>2. words = <<q, y, z>> /\ Len(words) = 3 /\ words[1] = q /\ words[2] = y /\ words[3] = z
    <3>1. buf # <<>>
      BY <1>15
    <3>2. words = <<q>> \o <<y, z>>
      BY <3>1
    <3> HIDE DEF q, y, z, words
    <3>3. <<q>> \o <<y, z>> = <<q, y, z>>
      BY <1>7, <2>1, TripleCat
    <3> QED BY <3>2, <3>3
  <2> HIDE DEF words
  <2>3. f \in Compression /\ g \in Compression /\ h \in Compression
    <3> HIDE DEF t, y, z, q
    <3> QED BY <1>7, <1>13, <2>1, EntryType
  <2>4. s \in [1..3 -> Compression] /\ s[1] = f /\ s[2] = g /\ s[3] = h
    <3> DEFINE at(i) == FugueCompress512(words[i], cnt[2] + i - 1)
    <3>2. at(1) = f
      <4>1. FugueCompress512(q, cnt[2] + (0 + 1) - 1) = Entry(q, t(0))
        BY <1>11
      <4> HIDE DEF t, q
      <4> QED BY <2>2, <4>1
    <3>3. at(2) = g
      <4>1. FugueCompress512(y, cnt[2] + (1 + 1) - 1) = Entry(y, t(1))
        BY <1>11
      <4> HIDE DEF t, y
      <4> QED BY <2>2, <4>1
    <3>4. at(3) = h
      <4>1. FugueCompress512(z, cnt[2] + (2 + 1) - 1) = Entry(z, t(2))
        BY <1>11
      <4> HIDE DEF t, z
      <4> QED BY <2>2, <4>1
    <3> HIDE DEF f, g, h
    <3>5. s = [i \in 1..3 |-> at(i)]
      BY <2>2
    <3>6. 1..3 = {1, 2, 3}
      OBVIOUS
    <3> HIDE DEF s, at
    <3>7. s[1] = at(1) /\ s[2] = at(2) /\ s[3] = at(3) /\ DOMAIN s = 1..3
      BY <3>5, <3>6
    <3>8. \A i \in 1..3 : at(i) \in Compression
      BY <2>3, <3>2, <3>3, <3>4, <3>6
    <3> QED BY <3>2, <3>3, <3>4, <3>5, <3>7, <3>8
  <2>5. last = e /\ e \in Compression
    BY <1>10, <2>2
  <2>6. Digest(<<f, g, h, e>>)
    <3> HIDE DEF s, last, f, g, h, e
    <3>1. s \o <<last>> = <<f, g, h, e>>
      BY <2>3, <2>4, <2>5, ThreeOf
    <3> QED BY <1>8, <3>1
  <2>7. Left(alg, fed, o1, length) /\ Len(o1) = k + 1
    <3> DEFINE t1 == t(0)
    <3>1. t1 = Tweak(alg, fed, Len(out) + 1) /\ t1 \in Seq(Nat)
      BY <1>13
    <3>2. v \o length = Padding(alg, fed)
      BY <1>2, <1>15
    <3> HIDE DEF t1, v, length
    <3>3. /\ Left(alg, fed, Append(out, Entry(buf \o v, t1)), length)
          /\ Len(Append(out, Entry(buf \o v, t1))) = Len(out) + 1
      BY <1>1, <1>6, <1>12, <2>1, <3>1, <3>2, LeftFirst
    <3> QED BY <3>3 DEF t1
  <2>8. Left(alg, fed, o2, z) /\ Len(o2) = k + 2
    <3> DEFINE t1 == t(1)
    <3>1. t1 = Tweak(alg, fed, Len(o1) + 1) /\ t1 \in Seq(Nat)
      <4>1. Len(o1) + 1 = k + 2
        BY <1>3, <2>7
      <4> QED BY <1>13, <4>1
    <3>2. Left(alg, fed, o1, y \o z) /\ Len(y) = BlockLen[alg]
      BY <1>1, <1>7, <2>7
    <3> HIDE DEF t1, y, z, o1
    <3>5. y \in Seq(Int) /\ z \in Seq(Int)
      BY <1>7
    <3>6. Left(alg, fed, Append(o1, Entry(y, t1)), z)
      BY <3>1, <3>2, <3>5, LeftNext
    <3>7. Len(Append(o1, Entry(y, t1))) = Len(o1) + 1
      BY <3>1, <3>2, <3>5, LeftNext
    <3>3. Left(alg, fed, Append(o1, Entry(y, t1)), z) /\ Len(Append(o1, Entry(y, t1))) = Len(o1) + 1
      BY <3>6, <3>7
    <3>4. Len(o1) + 1 = k + 2
      <4> HIDE DEF k
      <4> QED BY <1>3, <2>7
    <3> QED BY <3>3, <3>4 DEF t1
  <2>9. Left(alg, fed, o3, <<>>) /\ Len(o3) = k + 3
    <3> DEFINE t1 == t(2)
               none == <<>>
    <3>1. t1 = Tweak(alg, fed, Len(o2) + 1) /\ t1 \in Seq(Nat)
      <4>1. Len(o2) + 1 = k + 3
        BY <1>3, <2>8
      <4> QED BY <1>13, <4>1
    <3>2. z \o none = z /\ none \in Seq(Int)
      <4> HIDE DEF z
      <4> QED BY <1>7
    <3>3. Left(alg, fed, o2, z \o none) /\ Len(z) = BlockLen[alg]
      <4> HIDE DEF none, z
      <4> QED BY <1>1, <1>7, <2>8, <3>2
    <3> HIDE DEF t1, z, o2, none
    <3>6. z \in Seq(Int) /\ none \in Seq(Int)
      BY <1>7, <3>2
    <3>7. Left(alg, fed, Append(o2, Entry(z, t1)), none)
      BY <3>1, <3>3, <3>6, LeftNext
    <3>8. Len(Append(o2, Entry(z, t1))) = Len(o2) + 1
      BY <3>1, <3>3, <3>6, LeftNext
    <3>4. Left(alg, fed, Append(o2, Entry(z, t1)), none) /\ Len(Append(o2, Entry(z, t1))) = Len(o2) + 1
      BY <3>7, <3>8
    <3>5. Len(o2) + 1 = k + 3
      <4> HIDE DEF k
      <4> QED BY <1>3, <2>8
    <3> QED BY <3>4, <3>5 DEF t1, none
  <2>10. Standard(alg, fed) = o3 \o Output(alg, fed) /\ Count(alg, fed) = k + 3
    <3> HIDE DEF o3
    <3> QED BY <2>9, LeftNone
  <2>11. Output(alg, fed) = <<e>>
    <3>1. Output(alg, fed) = <<Blank(<<Count(alg, fed) % 3>>)>>
      BY <1>1 DEF Output
    <3> QED BY <2>10, <3>1
  <2>12. o3 \o <<e>> = out \o <<f, g, h, e>>
    <3> DEFINE r3 == <<e>>
               r2 == <<h>> \o r3
               r1 == <<g>> \o r2
    <3>1. out \in Seq(Compression)
      BY TypeFacts
    <3>2. o1 \in Seq(Compression) /\ o2 \in Seq(Compression) /\ r3 \in Seq(Compression)
      <4>1. o1 \in Seq(Compression)
        <5> HIDE DEF f
        <5> QED BY <2>3, <3>1, AppendProperties
      <4>2. o2 \in Seq(Compression)
        <5> HIDE DEF g, o1
        <5> QED BY <2>3, <4>1, AppendProperties
      <4>3. r3 \in Seq(Compression)
        <5> HIDE DEF e
        <5> QED BY <2>5, EntriesType
      <4> QED BY <4>1, <4>2, <4>3
    <3>3. o3 \o r3 = o2 \o r2 /\ r2 \in Seq(Compression)
      <4> HIDE DEF h, r3, o2
      <4> QED BY <2>3, <3>2, AppendCat
    <3>4. o2 \o r2 = o1 \o r1 /\ r1 \in Seq(Compression)
      <4> HIDE DEF g, r2, o1
      <4> QED BY <2>3, <3>2, <3>3, AppendCat
    <3>5. o1 \o r1 = out \o (<<f>> \o r1)
      <4> HIDE DEF f, r1
      <4> QED BY <2>3, <3>1, <3>4, AppendCat
    <3>6. <<f>> \o r1 = <<f, g, h, e>>
      <4> HIDE DEF f, g, h, e
      <4> QED BY <2>3, <2>5, FourOf
    <3> HIDE DEF o1, o2, o3, f, g, h, e, r1, r2
    <3> QED BY <3>3, <3>4, <3>5, <3>6
  <2> HIDE DEF f, g, h, e, o3
  <2> QED BY <1>1, <2>6, <2>10, <2>11, <2>12 DEF Digest, Ended
<1> QED BY <1>14, <1>15

-----------------------------------------------------------------------------
(* The closes that pad by an update. *)

\* The four bytes that Fugue leaves in its buffer.
Unread == IF alg = "fugue" /\ ~fast THEN [i \in 1..4 |-> Unwritten] ELSE <<>>
Whole == Padded(alg, fed) \o Unread

Calls(a) == a \in {"blake", "keccak"} \/ (a \in {"groestl", "jh", "fugue"} /\ ~fast)

\* BLAKE pads block by block, and counts up to what the block is compressed with.
BlakePadding ==
  /\ input = <<>> => buf = <<>>
  /\ input # <<>> => Len(buf) + Len(input) = 128 /\ BlakeAdded = Tweak(alg, fed, Len(out) + 1)
  /\ later # <<>> => Len(later) = 128 /\ fed <= 128 * (Len(out) + (IF input = <<>> THEN 0 ELSE 1))

InClose ==
  /\ Calls(alg) /\ Padded(alg, fed) \in Seq(Int)
  /\ \E q \in Nat : Len(Padded(alg, fed)) = BlockLen[alg] * q
  /\ Holds(BlockLen[alg], out, buf, input, later, Whole, Tweaks(alg, fed))
  /\ alg = "fugue" => cnt[2] = Len(out) % 3 /\ (input # <<>> \/ buf # <<>>)
  /\ alg = "blake" => BlakePadding
  /\ alg # "blake" => later = <<>>

LEMMA UnreadType == Unread \in Seq(Int) /\ Len(Unread) = (IF alg = "fugue" /\ ~fast THEN 4 ELSE 0)
<1>1. [i \in 1..4 |-> Unwritten] \in Seq(Int) /\ Len([i \in 1..4 |-> Unwritten]) = 4
  BY DEF Unwritten
<1>2. <<>> \in Seq(Int) /\ Len(<<>>) = 0
  OBVIOUS
<1> QED BY <1>1, <1>2 DEF Unread

LEMMA WholeType ==
  ASSUME Padded(alg, fed) \in Seq(Int)
  PROVE  Whole \in Seq(Int) /\ Len(Whole) = Len(Padded(alg, fed)) + Len(Unread)
BY UnreadType, CatType DEF Whole

\* The call brings in the padding, in one piece or in two.
LEMMA CallStarts ==
  ASSUME TypeInv, Consumed, NEW d \in Seq(Int), NEW e \in Seq(Int), NEW c, Call(d, e, c),
         Calls(alg), d \o e = Padding(alg, fed) \o Unread, Padding(alg, fed) \in Seq(Int),
         NEW j \in Nat, Len(buf) + Len(Padding(alg, fed)) = BlockLen[alg] * j
  PROVE  /\ phase' = "closing" /\ cnt' = c /\ input' = d /\ later' = e /\ UNCHANGED <<alg, fast, fed, buf, out>>
         /\ (Padded(alg, fed) \in Seq(Int))' /\ (\E q \in Nat : Len(Padded(alg, fed)) = BlockLen[alg] * q)'
         /\ Holds(BlockLen[alg], out, buf, input, later, Whole, Tweaks(alg, fed))'
<1> DEFINE b == BlockLen[alg]
           p == Padding(alg, fed)
           m == Message(0, fed)
           w == Padded(alg, fed)
           tw == Body(alg)
           ty == Tweaks(alg, fed)
           k == Len(out)
           l == Len(buf)
<1>1. phase = "open" /\ input = <<>> /\ phase' = "closing" /\ cnt' = c /\ input' = d /\ later' = e
      /\ UNCHANGED <<alg, fast, fed, buf, out>>
  BY DEF Call, Closing
<1>2. alg \in Algo /\ fed \in Nat /\ out \in Seq(Compression) /\ buf \in Seq(Int) /\ b \in Nat
  BY TypeFacts, BlockType
<1>3. m \in Seq(Int) /\ Len(m) = fed
  BY <1>2, MessageIs
<1>4. w = m \o p /\ w \in Seq(Int) /\ Len(w) = fed + Len(p)
  <2>1. w = m \o p
    BY DEF Padded
  <2> HIDE DEF m, p, w
  <2>2. p \in Seq(Int)
    BY DEF p
  <2> QED BY <1>3, <2>1, <2>2, CatType
<1>5. Len(w) = b * (k + j) /\ k + j \in Nat
  <2>1. At(b, k, l, fed)
    BY <1>1, EndsAt
  <2>2. l + Len(p) = b * j /\ Len(p) \in Nat
    OBVIOUS
  <2> HIDE DEF k, l, p, b, w
  <2>3. k \in Nat /\ l \in Nat /\ fed = b * k + l
    BY <2>1 DEF At
  <2>4. b * (k + j) = b * k + b * j /\ b * k \in Nat /\ b * j \in Nat
    BY <1>2, <2>3
  <2> DEFINE x == b * k
             y == b * j
  <2>5. x \in Nat /\ y \in Nat /\ fed = x + l /\ l + Len(p) = y /\ b * (k + j) = x + y
    BY <2>2, <2>3, <2>4
  <2> HIDE DEF x, y
  <2>6. Len(w) = x + y
    <3>1. Len(w) = fed + Len(p)
      BY <1>4 DEF w, p
    <3> QED BY <2>2, <2>3, <2>5, <3>1
  <2> QED BY <2>3, <2>5, <2>6
<1>6. Holds(b, out, buf, <<>>, <<>>, m, tw)
  BY <1>1 DEF Consumed, TypeInv, Taking
<1>7. \A i \in 1..Len(out) : ty[i] = tw[i]
  <2>1. \A i \in 1..Len(out) : Tweak(alg, fed, i) = tw[i]
    <3>1. alg \notin {"skein", "simd", "hamsi"}
      BY DEF Calls
    <3> QED BY <1>1, <3>1, Before
  <2>2. \A i \in 1..Len(out) : i \in Nat
    BY <1>2
  <2> HIDE DEF tw
  <2> QED BY <2>1, <2>2 DEF Tweaks
<1>8. Holds(b, out, buf, d, e, m \o (d \o e), ty)
  <2> HIDE DEF m, ty, tw, b
  <2>1. b \in Nat /\ out \in Seq(Compression) /\ buf \in Seq(Int) /\ m \in Seq(Int)
    BY <1>2, <1>3
  <2>2. \A t, u \in Seq(Int) : Holds(b, out, buf, t, u, m \o (t \o u), ty)
    BY <1>6, <1>7, <2>1, ExtendHolds
  <2> QED BY <2>2
<1>9. m \o (d \o e) = Whole
  <2> HIDE DEF m, p, w
  <2>1. p \in Seq(Int) /\ d \o e = p \o Unread
    BY DEF p
  <2>2. m \o (p \o Unread) = (m \o p) \o Unread
    BY <1>3, <2>1, UnreadType, CatAssoc, ZenonT(60)
  <2> QED BY <1>4, <2>1, <2>2 DEF Whole, w
<1>10. Holds(b, out, buf, d, e, Whole, ty)
  BY <1>8, <1>9
<1>11. Whole' = Whole /\ ty' = ty /\ b' = b /\ w' = w
  BY <1>1 DEF Whole, Unread
<1>12. Holds(BlockLen[alg], out, buf, input, later, Whole, Tweaks(alg, fed))'
  <2>1. Holds(b, out, buf, d, e, Whole, ty)' = Holds(b', out', buf', d, e, Whole', ty')
    OBVIOUS
  <2> QED BY <1>1, <1>10, <1>11
<1>13. (Padded(alg, fed) \in Seq(Int))' /\ (\E q \in Nat : Len(Padded(alg, fed)) = BlockLen[alg] * q)'
  BY <1>4, <1>5, <1>11
<1> QED BY <1>1, <1>12, <1>13

-----------------------------------------------------------------------------
LEMMA NothingMore ==
  ASSUME NEW s \in Seq(Int)
  PROVE  s \o <<>> = s /\ <<>> \in Seq(Int)
OBVIOUS

\* One call whose data is the padding.
LEMMA PlainCall ==
  ASSUME TypeInv, Consumed, NEW p \in Seq(Int), NEW c, Call(p, <<>>, c),
         Calls(alg), alg \notin {"blake", "fugue"}, p = Padding(alg, fed),
         NEW j \in Nat, Len(buf) + Len(p) = BlockLen[alg] * j
  PROVE  InClose' /\ phase' = "closing"
<1> DEFINE e == <<>>
<1>1. e \in Seq(Int) /\ Unread = <<>> /\ p \o e = Padding(alg, fed) \o Unread
  BY NothingMore DEF Unread
<1>2. Call(p, e, c) /\ Padding(alg, fed) \in Seq(Int) /\ Len(buf) + Len(Padding(alg, fed)) = BlockLen[alg] * j
  OBVIOUS
<1> HIDE DEF e
<1>3. phase' = "closing" /\ later' = e /\ UNCHANGED <<alg, fast>>
  BY <1>1, <1>2, CallStarts
<1>4. (Padded(alg, fed) \in Seq(Int))' /\ (\E q \in Nat : Len(Padded(alg, fed)) = BlockLen[alg] * q)'
  BY <1>1, <1>2, CallStarts
<1>5. Holds(BlockLen[alg], out, buf, input, later, Whole, Tweaks(alg, fed))'
  BY <1>1, <1>2, CallStarts
<1>6. Calls(alg)' /\ alg' \notin {"blake", "fugue"}
  BY <1>3 DEF Calls
<1>7. later' = <<>>
  BY <1>3 DEF e
<1> QED BY <1>3, <1>4, <1>5, <1>6, <1>7 DEF InClose

LEMMA KeccakCalls ==
  ASSUME TypeInv, Consumed, KeccakClose
  PROVE  InClose' /\ phase' = "closing"
<1> DEFINE b == 72
           l == Len(buf)
           p == SpongePad(b, l, 1)
<1>1. alg = "keccak" /\ Closing /\ b = BlockLen[alg] /\ ~Lazy(alg) /\ b \in Nat
  BY BlockIs DEF KeccakClose, Common, Call, Lazy
<1>2. Sponge(b, fed, 1) = p /\ p \in Seq(Int) /\ Len(buf) + Len(p) = b
  <2>1. 1 \in Int
    OBVIOUS
  <2> HIDE DEF b
  <2> QED BY <1>1, <2>1, SpongeLeft
<1>3. p = Padding(alg, fed)
  BY <1>1, <1>2 DEF Padding
<1>4. Call(p, <<>>, cnt)
  BY <1>1 DEF KeccakClose, SpongePad
<1>5. 1 \in Nat /\ BlockLen[alg] * 1 = b
  BY <1>1
<1>6. Calls(alg) /\ alg \notin {"blake", "fugue"}
  BY <1>1 DEF Calls
<1> DEFINE j == 1
<1>7. j \in Nat /\ Len(buf) + Len(p) = BlockLen[alg] * j
  BY <1>2, <1>5
<1> HIDE DEF p, b, j
<1> QED BY <1>2, <1>3, <1>4, <1>6, <1>7, PlainCall

LEMMA GroestlCalls ==
  ASSUME TypeInv, Consumed, Counted, GroestlClose
  PROVE  InClose' /\ phase' = "closing"
<1> DEFINE w == Word["groestl"]
           k == Len(out)
           l == Len(buf)
           q == IF l < 120 THEN 1 ELSE 2
           c == (k + q) % w
           g == 128 * q - l - 9
           e == BigEndian(c, 8)
           p == (<<Byte(128)>> \o Zeros(g)) \o e
<1>1. alg = "groestl" /\ ~fast /\ Closing /\ BlockLen[alg] = 128 /\ w \in Nat \ {0}
  BY BlockIs, BlockType DEF GroestlClose, Portable, Call
<1>2. l \in 0..127 /\ q \in Nat /\ c \in Nat /\ Gap(128, fed + 9) = g /\ g \in Nat
      /\ Padding(alg, fed) = OneAndZeros(128, fed, 8) \o e
  <2>1. q = IF Len(buf) < 120 THEN 1 ELSE 2
    OBVIOUS
  <2>2. c = (Len(out) + q) % Word["groestl"]
    OBVIOUS
  <2> HIDE DEF q, c
  <2>3. l \in 0..127 /\ q \in Nat /\ c \in Nat
    BY <1>1, <2>1, <2>2, GroestlPadding, SMTT(40)
  <2>4. Gap(128, fed + 9) = g /\ g \in Nat
    BY <1>1, <2>1, <2>2, GroestlPadding, SMTT(40)
  <2>5. Padding(alg, fed) = OneAndZeros(128, fed, 8) \o BigEndian(c, 8)
    <3> HIDE DEF w, k, l, g, e, p
    <3>1. alg = "groestl" /\ Closing
      BY <1>1
    <3>2. \A i, x : i = (IF Len(buf) < 120 THEN 1 ELSE 2) /\ x = (Len(out) + i) % Word["groestl"]
             => Padding(alg, fed) = OneAndZeros(128, fed, 8) \o BigEndian(x, 8)
      BY <3>1, GroestlPadding
    <3> QED BY <2>1, <2>2, <3>2
  <2> QED BY <2>3, <2>4, <2>5
<1>3. k \in Nat /\ cnt[1] = k % w
  BY <1>1, TypeFacts DEF Counted
<1>4. OneAndZeros(128, fed, 8) = <<Byte(128)>> \o Zeros(g)
  <2>1. fed + 1 + 8 = fed + 9
    BY TypeFacts
  <2> QED BY <1>2, <2>1 DEF OneAndZeros
<1>5. p = Padding(alg, fed)
  BY <1>2, <1>4
<1>6. GroestlCount(q)[1] = c
  <2>1. ((k % w) + q) % w = (k + q) % w
    <3> HIDE DEF k, q, w
    <3> QED BY <1>1, <1>2, <1>3, SumMod, ZenonT(60)
  <2> QED BY <1>3, <2>1 DEF GroestlCount
<1>7. Call(p, <<>>, cnt)
  <2>1. (128 * q - l) - 9 = g
    OBVIOUS
  <2> QED BY <1>6, <2>1 DEF GroestlClose
<1>8. p \in Seq(Int) /\ Len(buf) + Len(p) = BlockLen[alg] * q
  <2>1. e \in Seq(Int) /\ Len(e) = 8
    <3> HIDE DEF c
    <3> QED BY <1>2, EightIs
  <2> DEFINE a == <<Byte(128)>>
             z == Zeros(g)
  <2>2. a \in Seq(Int) /\ Len(a) = 1 /\ z \in Seq(Int) /\ Len(z) = g
    <3> HIDE DEF g
    <3> QED BY <1>2, OneIs, ZerosIs
  <2> HIDE DEF a, z, e, q
  <2>3. a \o z \in Seq(Int) /\ Len(a \o z) = 1 + g
    BY <2>2, CatType
  <2>4. (a \o z) \o e \in Seq(Int) /\ Len((a \o z) \o e) = Len(a \o z) + Len(e)
    BY <2>1, <2>3, CatType
  <2>5. l + (1 + g + 8) = 128 * q
    BY <1>2
  <2>6. Len(p) = 1 + g + 8 /\ p \in Seq(Int)
    BY <2>1, <2>3, <2>4 DEF a, z
  <2> QED BY <1>1, <2>5, <2>6
<1>9. Calls(alg) /\ alg \notin {"blake", "fugue"}
  BY <1>1 DEF Calls
<1> HIDE DEF p, q
<1> QED BY <1>2, <1>5, <1>7, <1>8, <1>9, PlainCall

\* What is below the step of a count leaves its upper words alone.
LEMMA StepKept ==
  ASSUME NEW s, NEW v, NEW k, NEW w, NEW x, Scaled(s, v, k, w, x), NEW d \in Nat, d < s
  PROVE  Kept(x, d, w) /\ x % w = s * (k % v) /\ x \div w = k \div v
<1> DEFINE c == k % v
           q == k \div v
           y == s * c
<1>1. s \in Nat \ {0} /\ v \in Nat \ {0} /\ k \in Nat /\ w = s * v /\ x = s * k /\ w \in Nat \ {0} /\ x \in Nat
  <2>1. s \in Nat \ {0} /\ v \in Nat \ {0} /\ k \in Nat /\ w = s * v /\ x = s * k
    BY DEF Scaled
  <2> QED BY <2>1
<1>2. x % w = y /\ x \div w = q
  BY ScaleMod
<1>3. c \in Nat /\ c < v /\ q \in Nat
  BY <1>1
<1> HIDE DEF c, q
<1>4. y \in Nat /\ y + s <= w
  <2>1. c + 1 <= v /\ c + 1 \in Nat
    BY <1>1, <1>3
  <2>2. s * (c + 1) <= s * v
    BY <1>1, <2>1, TimesLess
  <2>3. s * (c + 1) = y + s /\ y \in Nat
    BY <1>1, <1>3
  <2> HIDE DEF y
  <2> QED BY <1>1, <2>2, <2>3
<1> HIDE DEF y
<1>5. x = w * q + y
  <2>1. \A i \in Nat : \A j \in Nat \ {0} : i = j * (i \div j) + (i % j)
    OBVIOUS
  <2>2. x = w * (x \div w) + (x % w)
    BY <1>1, <2>1
  <2> QED BY <1>2, <2>2
<1> DEFINE z == x + d
           u == y + d
<1>6. z \in Nat /\ u \in Nat /\ u < w /\ z = w * q + u
  <2> DEFINE p == w * q
  <2>1. p \in Nat /\ x = p + y
    BY <1>1, <1>3, <1>5
  <2> HIDE DEF p
  <2>2. z = p + u /\ z \in Nat /\ u \in Nat /\ u < w
    BY <1>1, <1>4, <2>1
  <2> QED BY <2>2 DEF p
<1>7. z % w = u /\ z \div w = q
  <2> HIDE DEF z, u
  <2> QED BY <1>1, <1>3, <1>6, ModIs, ZenonT(60)
<1>8. (x % w) + d = u
  BY <1>2
<1>9. Kept(x, d, w)
  BY <1>1, <1>2, <1>4, <1>6, <1>7, <1>8 DEF Kept
<1> QED BY <1>2, <1>9 DEF y, c, q

LEMMA JhCalls ==
  ASSUME TypeInv, Sized, Consumed, Counted, JhClose
  PROVE  InClose' /\ phase' = "closing"
<1> DEFINE w == Word["jh"]
           v == w \div 512
           k == Len(out)
           l == Len(buf)
           x == 512 * k
           d == 8 * l
           m == 8 * fed
           j == IF l = 0 THEN 47 ELSE 111 - l
           low == ((512 * cnt[1]) % w) + d
           high == cnt[1] \div v
           e == BigPair(<<low, high>>)
           z == Zeros(j)
           o == <<Byte(128)>>
           p == (o \o z) \o e
<1>1. alg = "jh" /\ ~fast /\ Closing /\ BlockLen[alg] = 64 /\ w \in Nat \ {0}
  BY BlockIs, BlockType DEF JhClose, Portable, Call
<1>2. l \in 0..63 /\ j \in Nat /\ At(64, k, l, fed)
      /\ Padding(alg, fed) = (o \o z) \o BigPair(InWords(m, w, 2))
  BY <1>1, JhPadding
<1>3. k \in Nat /\ cnt[1] = k % w
  BY <1>1, TypeFacts DEF Counted
<1>4. m = x + d /\ d \in Nat /\ d < 512 /\ m \in Nat /\ fed \in Nat
  <2> HIDE DEF k, l
  <2> QED BY <1>2 DEF At
<1>5. v \in Nat \ {0} /\ w = 512 * v
  <2>1. w % 512 = 0
    BY WordAssumption
  <2> HIDE DEF w
  <2> QED BY <1>1, <2>1
<1>6. k < w
  <2>1. fed \div 64 = k
    <3> HIDE DEF k, l, d, m, x
    <3>1. fed = 64 * k + l
      BY <1>2 DEF At
    <3> QED BY <1>2, <1>3, <3>1
  <2>2. fed \div 64 < Word[alg]
    BY <1>1, RoomAssumption, TypeFacts DEF Sized
  <2> QED BY <1>1, <2>1, <2>2
<1>7. cnt[1] = k
  <2> HIDE DEF k, w
  <2> QED BY <1>1, <1>3, <1>6, SmallMod
<1>8. Kept(x, d, w) /\ x \div w = k \div v
  <2> DEFINE s == 512
  <2>1. Scaled(s, v, k, w, x) /\ d < s
    BY <1>3, <1>4, <1>5 DEF Scaled
  <2> HIDE DEF s, v, k, w, x, d
  <2> QED BY <1>4, <2>1, StepKept
<1>9. low = m % w /\ high = (m \div w) % w /\ low \in Nat /\ high \in Nat
  <2>1. low = m % w /\ low \in Nat
    BY <1>4, <1>7, <1>8 DEF Kept
  <2>2. high = m \div w
    BY <1>4, <1>7, <1>8 DEF Kept
  <2>3. k \div v \in Nat /\ k \div v < w
    <3> HIDE DEF k, v, w
    <3> QED BY <1>1, <1>3, <1>5, <1>6
  <2> DEFINE h == k \div v
  <2>4. h % w = h
    <3>1. h \in Nat /\ h < w
      BY <2>3
    <3> HIDE DEF h, w
    <3> QED BY <1>1, <3>1, SmallMod
  <2>5. high = h
    BY <1>7
  <2> HIDE DEF low, high, h, m, w
  <2>6. high = (m \div w) % w
    BY <2>2, <2>4, <2>5
  <2>7. high \in Nat
    BY <2>3, <2>5 DEF h
  <2> QED BY <2>1, <2>6, <2>7
<1>10. InWords(m, w, 2) = <<low, high>>
  <2> DEFINE s == <<low, high>>
  <2>1. s \in Seq(Nat) /\ Len(s) = 2 /\ s[1] = m % w /\ s[2] = (m \div w) % w
    <3> HIDE DEF low, high, m, w
    <3> QED BY <1>9, TupleType
  <2> HIDE DEF s, m, w
  <2>2. s = InWords(m, w, 2)
    BY <2>1, TwoWords
  <2> QED BY <2>2 DEF s
<1>11. p = Padding(alg, fed)
  <2> HIDE DEF low, high, z, o
  <2> QED BY <1>2, <1>10
<1>12. Call(p, <<>>, cnt)
  BY DEF JhClose
<1>13. e \in Seq(Int) /\ Len(e) = 16
  <2>1. e \in Bytes(16)
    <3> DEFINE s == <<low, high>>
    <3>1. s \in Seq(Nat) /\ Len(s) >= 2
      <4> HIDE DEF low, high
      <4> QED BY <1>9, TwoType
    <3> HIDE DEF s
    <3>2. BigPair(s) \in Bytes(16)
      BY <3>1, PairType
    <3> QED BY <3>2 DEF s
  <2> HIDE DEF e
  <2> QED BY <2>1 DEF Bytes
<1>14. o \in Seq(Int) /\ Len(o) = 1 /\ z \in Seq(Int) /\ Len(z) = j
  <2> HIDE DEF j
  <2> QED BY <1>2, OneIs, ZerosIs
<1> DEFINE q == IF l = 0 THEN 1 ELSE 2
<1>15. p \in Seq(Int) /\ Len(buf) + Len(p) = BlockLen[alg] * q /\ q \in Nat
  <2> HIDE DEF o, z, e
  <2>3. o \o z \in Seq(Int) /\ Len(o \o z) = 1 + j
    BY <1>14, CatType
  <2>4. p \in Seq(Int) /\ Len(p) = Len(o \o z) + Len(e)
    BY <1>13, <2>3, CatType
  <2>5. l + (1 + j + 16) = 64 * q /\ q \in Nat
    <3> HIDE DEF l
    <3> QED BY <1>2
  <2> HIDE DEF j, p, q, l
  <2> QED BY <1>1, <1>13, <2>3, <2>4, <2>5 DEF l
<1>16. Calls(alg) /\ alg \notin {"blake", "fugue"}
  BY <1>1 DEF Calls
<1> HIDE DEF p, q
<1> QED BY <1>11, <1>12, <1>15, <1>16, PlainCall

LEMMA FugueCalls ==
  ASSUME TypeInv, Consumed, Counted, FugueClose
  PROVE  InClose' /\ phase' = "closing"
<1> DEFINE w == Word["fugue"]
           l == Len(buf)
           i == IF l = 0 THEN 0 ELSE 4 - l
           q == IF l = 0 THEN 2 ELSE 3
           c == (8 * fed) % w
           z == Zeros(i)
           e == BigEndian(c, 8)
           g == IF l = 0 THEN <<>> ELSE Zeros(4 - l)
           u == [j \in 1..4 |-> Unwritten]
           p == z \o e
           d == (g \o e) \o u
           none == <<>>
           to == FugueCount(Len(d))
<1>1. alg = "fugue" /\ ~fast /\ Closing /\ BlockLen[alg] = 4
  BY BlockIs DEF FugueClose, Portable, Call
<1>2. l \in 0..4 /\ c \in Nat /\ i \in Nat /\ q \in Nat /\ l + (i + 8) = 4 * q
  <2>1. l \in 0..4 /\ c \in Nat
    BY <1>1, FuguePadding
  <2> HIDE DEF l
  <2> QED BY <2>1
<1>3. Padding(alg, fed) = p
  <2>1. c = (8 * fed) % Word["fugue"]
    OBVIOUS
  <2>2. \A x : x = (8 * fed) % Word["fugue"] =>
          Padding(alg, fed) = Zeros(IF Len(buf) = 0 THEN 0 ELSE 4 - Len(buf)) \o BigEndian(x, 8)
    BY <1>1, FuguePadding
  <2> QED BY <2>1, <2>2
<1>4. cnt[1] = c /\ cnt[2] = Len(out) % 3
  BY <1>1 DEF Counted
<1>5. g = z
  BY DEF Zeros
<1>6. Unread = u
  BY <1>1 DEF Unread
<1>7. z \in Seq(Int) /\ Len(z) = i /\ e \in Seq(Int) /\ Len(e) = 8 /\ u \in Seq(Int) /\ Len(u) = 4
  <2>1. z \in Seq(Int) /\ Len(z) = i
    <3> HIDE DEF i
    <3> QED BY <1>2, ZerosIs
  <2>2. e \in Seq(Int) /\ Len(e) = 8
    <3> HIDE DEF c
    <3> QED BY <1>2, EightIs
  <2>3. u \in Seq(Int) /\ Len(u) = 4
    BY <1>1, <1>6, UnreadType
  <2> QED BY <2>1, <2>2, <2>3
<1>8. Call(d, none, to)
  BY <1>4 DEF FugueClose
<1> HIDE DEF z, e, g, u
<1>9. p \in Seq(Int) /\ Len(p) = i + 8
  BY <1>7, CatType
<1>10. d = p \o u
  BY <1>5
<1> HIDE DEF d, p
<1>11. d \in Seq(Int) /\ Len(d) = i + 12
  <2>1. d \in Seq(Int) /\ Len(d) = Len(p) + Len(u)
    BY <1>7, <1>9, <1>10, CatType
  <2> HIDE DEF i
  <2> QED BY <1>2, <1>7, <1>9, <2>1
<1>12. d \o none = Padding(alg, fed) \o Unread /\ none \in Seq(Int) /\ Padding(alg, fed) \in Seq(Int)
       /\ Calls(alg) /\ Len(buf) + Len(Padding(alg, fed)) = BlockLen[alg] * q
  <2>1. d \o none = d /\ none \in Seq(Int)
    BY <1>11, NothingMore
  <2>2. Calls(alg)
    BY <1>1 DEF Calls
  <2>3. Len(buf) + Len(p) = 4 * q
    <3> HIDE DEF i, q
    <3> QED BY <1>2, <1>9
  <2> HIDE DEF q, none
  <2> QED BY <1>1, <1>3, <1>6, <1>9, <1>10, <2>1, <2>2, <2>3
<1> HIDE DEF none, to, q
<1>13. phase' = "closing" /\ cnt' = to /\ input' = d /\ later' = none /\ UNCHANGED <<alg, fast, fed, buf, out>>
  BY <1>2, <1>8, <1>11, <1>12, CallStarts
<1>14. (Padded(alg, fed) \in Seq(Int))' /\ (\E j \in Nat : Len(Padded(alg, fed)) = BlockLen[alg] * j)'
  BY <1>2, <1>8, <1>11, <1>12, CallStarts
<1>15. Holds(BlockLen[alg], out, buf, input, later, Whole, Tweaks(alg, fed))'
  BY <1>2, <1>8, <1>11, <1>12, CallStarts
<1>16. Calls(alg)' /\ alg' = "fugue" /\ later' = <<>>
  BY <1>1, <1>13 DEF Calls, none
<1>17. (cnt[2] = Len(out) % 3)'
  <2>1. to[2] = cnt[2]
    BY DEF to, FugueCount
  <2> QED BY <1>4, <1>13, <2>1
<1>18. input' # <<>>
  <2>1. Len(d) # 0
    <3> HIDE DEF i
    <3> QED BY <1>2, <1>11
  <2>2. d # <<>>
    BY <2>1
  <2> QED BY <1>13, <2>2
<1> QED BY <1>13, <1>14, <1>15, <1>16, <1>17, <1>18 DEF InClose

LEMMA SmallRest == \A w \in Nat \ {0} : \A x \in Nat : x < w => x % w = x
BY SmallMod

LEMMA Wrapped ==
  ASSUME NEW w \in Nat \ {0}, NEW x \in Nat, x < w
  PROVE  (x + w) % w = x
<1> DEFINE i == 1
           u == x + w
<1>1. u \in Nat /\ u = w * i + x /\ i \in Nat
  OBVIOUS
<1> HIDE DEF i, u
<1>2. u % w = x
  BY <1>1, ModIs
<1> QED BY <1>2 DEF u

LEMMA BackAndForth ==
  ASSUME NEW w \in Nat \ {0}, NEW y \in Nat, y < w
  PROVE  (((y + w - 1) % w) + 1) % w = y
<1> DEFINE z == y + w - 1
<1>1. z \in Nat /\ z + 1 = y + w
  OBVIOUS
<1> HIDE DEF z
<1>2. ((z % w) + 1) % w = (z + 1) % w
  BY <1>1, NextMod
<1>3. (y + w) % w = y
  BY Wrapped
<1>4. (z + 1) % w = (y + w) % w
  BY <1>1
<1> QED BY <1>2, <1>3, <1>4 DEF z

IsBlakeWord(w) == Word["blake"] = w /\ w % 1024 = 0

\* The count goes back so far that the turn with the padding finds the bits of the message.
LEMMA BackSteps ==
  ASSUME NEW w \in Nat \ {0}, IsBlakeWord(w), NEW bits \in 1..1023,
         cnt[1] \in Nat, cnt[2] \in Nat, cnt[1] % 1024 = 0, cnt[1] + bits < w, cnt[2] < w,
         cnt' = BlakeBack(bits)
  PROVE  BlakeAdded' = <<cnt[1] + bits, cnt[2]>>
<1> DEFINE x == cnt[1]
           y == cnt[2]
           x1 == cnt'[1]
           y1 == cnt'[2]
           t == x + bits
<1>1. 1024 <= w /\ x \in Nat /\ y \in Nat /\ t \in Nat /\ t < w
  BY DEF IsBlakeWord
<1>2. BlakeAdded' = <<(x1 + 1024) % w, IF (x1 + 1024) % w < 1024 THEN (y1 + 1) % w ELSE y1>>
  BY DEF BlakeAdded, IsBlakeWord
<1>3. t % w = t
  <2> HIDE DEF t
  <2> QED BY <1>1, SmallRest
<1>4. (t + w) % w = t
  <2> HIDE DEF t
  <2> QED BY <1>1, Wrapped
<1>5. CASE x = 0
  <2> DEFINE z == y + (w - 1)
  <2>1. cnt' = <<(w - 1024) + bits, (y + w - 1) % w>>
    BY <1>5 DEF BlakeBack, IsBlakeWord
  <2>2. x1 = (w - 1024) + bits /\ y1 = (y + w - 1) % w
    BY <2>1
  <2>3. y + w - 1 = z /\ z \in Nat /\ z + 1 = y + w
    <3> HIDE DEF y
    <3> QED BY <1>1
  <2>4. x1 + 1024 = t + w
    <3> HIDE DEF x1
    <3> QED BY <1>1, <1>5, <2>2
  <2>5. (x1 + 1024) % w = t
    <3> HIDE DEF t, x1
    <3> QED BY <1>4, <2>4
  <2>6. (y1 + 1) % w = y
    <3>1. (((y + w - 1) % w) + 1) % w = y
      <4>1. y < w
        OBVIOUS
      <4>2. \A i \in Nat : i < w => (((i + w - 1) % w) + 1) % w = i
        <5> TAKE i \in Nat
        <5> HAVE i < w
        <5> QED BY BackAndForth, ZenonT(60)
      <4> HIDE DEF y
      <4> QED BY <1>1, <4>1, <4>2
    <3> QED BY <2>2, <3>1
  <2>7. t < 1024
    BY <1>5
  <2> HIDE DEF t, x1, y1, z
  <2> QED BY <1>2, <2>5, <2>6, <2>7 DEF t
<1>6. CASE x # 0
  <2>1. cnt' = <<x - (1024 - bits), y>>
    BY <1>6 DEF BlakeBack, IsBlakeWord
  <2>2. x1 = x - (1024 - bits) /\ y1 = y
    BY <2>1
  <2>3. x1 + 1024 = t
    <3> HIDE DEF x1
    <3> QED BY <1>1, <2>2
  <2>4. ~(t < 1024)
    <3>1. x % 1024 = 0
      OBVIOUS
    <3> QED BY <1>1, <1>6, <3>1
  <2>5. (x1 + 1024) % w = t
    <3> HIDE DEF x1, t
    <3> QED BY <1>3, <2>3
  <2> HIDE DEF t, x1, y1
  <2> QED BY <1>2, <2>2, <2>4, <2>5 DEF t
<1> QED BY <1>5, <1>6

BackReady(w, bits) ==
  /\ w \in Nat \ {0} /\ bits \in 1..1023 /\ cnt[1] \in Nat /\ cnt[2] \in Nat
  /\ cnt[1] % 1024 = 0 /\ cnt[1] + bits < w /\ cnt[2] < w

LEMMA BackAdds ==
  ASSUME NEW w, IsBlakeWord(w), NEW bits, BackReady(w, bits), cnt' = BlakeBack(bits)
  PROVE  BlakeAdded' = <<cnt[1] + bits, cnt[2]>>
<1>1. w \in Nat \ {0} /\ bits \in 1..1023 /\ cnt[1] \in Nat /\ cnt[2] \in Nat
      /\ cnt[1] % 1024 = 0 /\ cnt[1] + bits < w /\ cnt[2] < w
  BY DEF BackReady
<1> QED BY <1>1, BackSteps, ZenonT(60)

\* With no bit in the padding's block it finds nothing.
LEMMA BeforeAdds ==
  ASSUME NEW w \in Nat \ {0}, IsBlakeWord(w), cnt' = BlakeBefore
  PROVE  BlakeAdded' = <<0, 0>>
<1>1. 1024 <= w
  BY DEF IsBlakeWord
<1> DEFINE x1 == cnt'[1]
           y1 == cnt'[2]
<1>2. BlakeAdded' = <<(x1 + 1024) % w, IF (x1 + 1024) % w < 1024 THEN (y1 + 1) % w ELSE y1>>
  BY DEF BlakeAdded, IsBlakeWord
<1>3. x1 = w - 1024 /\ y1 = w - 1
  BY DEF BlakeBefore, IsBlakeWord
<1> HIDE DEF x1, y1
<1>4. x1 + 1024 = w /\ y1 + 1 = w
  BY <1>1, <1>3
<1>5. w % w = 0
  OBVIOUS
<1> QED BY <1>2, <1>4, <1>5

LEMMA NoBits ==
  ASSUME NEW w \in Nat \ {0}
  PROVE  InWords(0, w, 2) = <<0, 0>> /\ <<0, 0>> \in Seq(Nat)
<1> DEFINE s == <<0, 0>>
           m == 0
<1>1. s \in Seq(Nat) /\ Len(s) = 2
  BY TwoType
<1>2. s[1] = 0 /\ s[2] = 0
  OBVIOUS
<1>3. m % w = 0 /\ m \div w = 0
  BY SmallMod
<1>4. (m \div w) % w = 0
  BY <1>3
<1> HIDE DEF s, m
<1>5. s = InWords(m, w, 2)
  BY <1>1, <1>2, <1>3, <1>4, TwoWords
<1> QED BY <1>1, <1>5 DEF s, m

\* The count of bits at BLAKE's close.
LEMMA BlakeCounts ==
  ASSUME TypeInv, Counted, Closing, alg = "blake", NEW w, w = Word["blake"]
  PROVE  /\ w \in Nat \ {0} /\ w % 1024 = 0 /\ Len(buf) \in 0..127 /\ Len(out) \in Nat /\ fed \in Nat
         /\ At(128, Len(out), Len(buf), fed)
         /\ cnt[1] \in Nat /\ cnt[2] \in Nat /\ cnt[1] % 1024 = 0 /\ cnt[2] < w /\ cnt[1] + 8 * Len(buf) < w
         /\ <<cnt[1] + 8 * Len(buf), cnt[2]>> = InWords(8 * fed, w, 2)
<1> DEFINE k == Len(out)
           l == Len(buf)
           x == 1024 * k
           d == 8 * l
           m == 8 * fed
           low == cnt[1] + d
           high == cnt[2]
<1>1. BlockLen[alg] = 128 /\ ~Lazy(alg) /\ w \in Nat \ {0} /\ phase = "open" /\ input = <<>>
  BY BlockIs, BlockType DEF Lazy, Closing
<1>2. w % 1024 = 0
  BY WordAssumption
<1>3. k \in Nat /\ l \in 0..127 /\ fed \in Nat /\ m = x + d
  BY <1>1, EighthBits
<1>4. At(128, k, l, fed)
  BY <1>1, EndsAt
<1>5. cnt[1] = x % w /\ cnt[2] = (x \div w) % w
  BY DEF Counted, HoldsCount
<1>6. cnt[1] \in Nat /\ cnt[2] \in Nat
  BY SecondCount
<1>7. cnt[1] % 1024 = 0
  BY <1>1 DEF TypeInv, Taking
<1>8. Kept(x, d, w)
  <2>1. d \in Nat /\ d < 1024
    <3> HIDE DEF l
    <3> QED BY <1>3
  <2>2. x = 1024 * k
    OBVIOUS
  <2> HIDE DEF x, d, k
  <2> QED BY <1>1, <1>2, <1>3, <2>1, <2>2, NoCarry
<1>9. low < w /\ low = m % w /\ high = (m \div w) % w /\ low \in Nat
  <2>1. low = (x % w) + d /\ d \in Nat
    BY <1>3, <1>5
  <2> HIDE DEF x, d, m, k, l
  <2>2. (x % w) + d < w /\ (x + d) % w = (x % w) + d /\ (x + d) \div w = x \div w
    BY <1>8 DEF Kept
  <2>3. m % w = low
    BY <1>3, <2>1, <2>2
  <2>4. m \div w = x \div w
    BY <1>3, <2>2
  <2>5. low \in Nat
    BY <1>6, <2>1
  <2> HIDE DEF low
  <2> QED BY <1>5, <2>1, <2>2, <2>3, <2>4, <2>5
<1>10. cnt[2] < w
  <2> DEFINE h == x \div w
  <2>1. h \in Nat
    <3> HIDE DEF k
    <3> QED BY <1>1, <1>3, DivType
  <2> HIDE DEF h
  <2>2. h % w < w
    BY <1>1, <2>1, ModType
  <2> QED BY <1>5, <2>2 DEF h
<1>11. <<low, high>> = InWords(m, w, 2)
  <2> DEFINE s == <<low, high>>
  <2>1. s \in Seq(Nat) /\ Len(s) = 2 /\ s[1] = m % w /\ s[2] = (m \div w) % w
    <3>1. high \in Nat
      BY <1>6
    <3> HIDE DEF low, high, m
    <3> QED BY <1>9, <3>1, TupleType
  <2> HIDE DEF s, m
  <2>2. s = InWords(m, w, 2)
    BY <2>1, TwoWords
  <2> QED BY <2>2 DEF s
<1> QED BY <1>1, <1>2, <1>3, <1>4, <1>6, <1>7, <1>9, <1>10, <1>11

\* The padding fills the block, or all but its last bit and the length do.
LEMMA BlakePads ==
  ASSUME NEW k, NEW l, At(128, k, l, fed), l < 128, alg = "blake", NEW e, e = BigPair(InWords(8 * fed, Word["blake"], 2))
  PROVE  /\ l <= 111 => Padding(alg, fed) = BlakePad(l) \o e
         /\ 111 < l => Padding(alg, fed) = ((<<Byte(128)>> \o Zeros(238 - l)) \o <<Byte(1)>>) \o e
<1>1. l \in Nat /\ k \in Nat /\ fed \in Nat /\ fed = 128 * k + l
  BY DEF At
<1>2. fed % 128 = l
  BY <1>1
<1>3. Padding(alg, fed) = (IF l = 111 THEN <<Byte(129)>>
                          ELSE (<<Byte(128)>> \o Zeros(Gap(128, fed + 18))) \o <<Byte(1)>>) \o e
  BY <1>2 DEF Padding
<1> DEFINE b == 128
           j == 18
<1>4. ASSUME l <= 111, l # 111
      PROVE  Gap(128, fed + 18) = 110 - l
  <2>1. At(b, k, l, fed) /\ j \in Nat /\ 0 < l + j /\ l + j <= b
    BY <1>1, <1>4
  <2> HIDE DEF b, j
  <2>2. Gap(b, fed + j) = b - (l + j)
    BY <2>1, GapHere
  <2>3. b - (l + j) = 110 - l
    BY <1>1 DEF b, j
  <2> QED BY <2>2, <2>3 DEF b, j
<1>5. ASSUME 111 < l
      PROVE  Gap(128, fed + 18) = 238 - l
  <2>1. At(b, k, l, fed) /\ j \in Nat /\ b < l + j /\ l + j <= b + b
    BY <1>1, <1>5
  <2> HIDE DEF b, j
  <2>2. Gap(b, fed + j) = b + b - (l + j)
    BY <2>1, GapOver
  <2>3. b + b - (l + j) = 238 - l
    BY <1>1 DEF b, j
  <2> QED BY <2>2, <2>3 DEF b, j
<1>6. ASSUME l <= 111
      PROVE  Padding(alg, fed) = BlakePad(l) \o e
  <2>1. BlakePad(l) = IF l = 111 THEN <<Byte(129)>> ELSE (<<Byte(128)>> \o Zeros(110 - l)) \o <<Byte(1)>>
    BY DEF BlakePad
  <2>2. CASE l = 111
    BY <1>3, <2>1, <2>2
  <2>3. CASE l # 111
    BY <1>3, <1>4, <1>6, <2>1, <2>3
  <2> QED BY <2>2, <2>3
<1>7. ASSUME 111 < l
      PROVE  Padding(alg, fed) = ((<<Byte(128)>> \o Zeros(238 - l)) \o <<Byte(1)>>) \o e
  <2>1. l # 111
    BY <1>1, <1>7
  <2> QED BY <1>3, <1>5, <1>7, <2>1
<1> QED BY <1>6, <1>7

\* A call that fills the block, and another block if there is more.
LEMMA BlakeCallStarts ==
  ASSUME TypeInv, Consumed, Counted, alg = "blake", NEW d \in Seq(Int), NEW e \in Seq(Int),
         Call(d, e, BlakeBack(8 * Len(buf))), d \o e = Padding(alg, fed),
         Len(buf) + Len(d) = 128, e = <<>> \/ Len(e) = 128
  PROVE  InClose' /\ phase' = "closing"
<1> DEFINE w == Word["blake"]
           k == Len(out)
           l == Len(buf)
           bits == 8 * l
           c == BlakeBack(bits)
           q == IF e = <<>> THEN 1 ELSE 2
           m == 8 * fed
<1>1. Closing /\ input = <<>> /\ BlockLen[alg] = 128 /\ Calls(alg)
  BY BlockIs DEF Call, Closing, Calls
<1>2. /\ w \in Nat \ {0} /\ w % 1024 = 0 /\ l \in 0..127 /\ k \in Nat /\ fed \in Nat
      /\ At(128, k, l, fed)
  BY <1>1, BlakeCounts
<1>3. /\ cnt[1] \in Nat /\ cnt[2] \in Nat /\ cnt[1] % 1024 = 0 /\ cnt[2] < w /\ cnt[1] + bits < w
      /\ <<cnt[1] + bits, cnt[2]>> = InWords(m, w, 2)
  BY <1>1, BlakeCounts
<1>4. Padding(alg, fed) \in Seq(Int) /\ Len(buf) + Len(Padding(alg, fed)) = BlockLen[alg] * q /\ q \in Nat
      /\ d \o e = Padding(alg, fed) \o Unread
  <2>1. d \o e \in Seq(Int) /\ Len(d \o e) = Len(d) + Len(e)
    BY CatType
  <2>2. Len(d) \in Nat /\ Len(e) \in Nat /\ Len(buf) \in Nat
    BY <1>2
  <2>3. Unread = <<>>
    BY DEF Unread
  <2>4. Padding(alg, fed) \o <<>> = Padding(alg, fed)
    BY <2>1, NothingMore
  <2>5. CASE e = <<>>
    <3>1. Len(e) = 0
      BY <2>5
    <3> QED BY <1>1, <2>1, <2>2, <2>3, <2>4, <2>5, <3>1
  <2>6. CASE e # <<>>
    <3>1. q = 2 /\ Len(e) = 128
      BY <2>6
    <3> HIDE DEF q
    <3> QED BY <1>1, <2>1, <2>2, <2>3, <2>4, <3>1
  <2> QED BY <2>5, <2>6
<1>5. Call(d, e, c)
  OBVIOUS
<1> HIDE DEF c, q
<1>6. phase' = "closing" /\ cnt' = c /\ input' = d /\ later' = e /\ UNCHANGED <<alg, fast, fed, buf, out>>
  BY <1>1, <1>4, <1>5, CallStarts
<1>7. (Padded(alg, fed) \in Seq(Int))' /\ (\E j \in Nat : Len(Padded(alg, fed)) = BlockLen[alg] * j)'
  BY <1>1, <1>4, <1>5, CallStarts
<1>8. Holds(BlockLen[alg], out, buf, input, later, Whole, Tweaks(alg, fed))'
  BY <1>1, <1>4, <1>5, CallStarts
<1>9. BlakeAdded' = Tweak(alg, fed, k + 1)
  <2>1. IsBlakeWord(w)
    BY <1>2 DEF IsBlakeWord
  <2>2. Tweak(alg, fed, k + 1) = InWords(IF l = 0 THEN 0 ELSE m, w, 2)
    <3>1. BitsAt(alg, fed, k + 1) = IF l = 0 THEN 0 ELSE m
      <4> DEFINE f == fed
      <4>1. At(128, k, l, f) /\ BlockLen[alg] = 128 /\ l <= 128
        BY <1>1, <1>2
      <4> HIDE DEF k, l, f
      <4>2. BitsAt(alg, f, k + 1) = IF l = 0 THEN 0 ELSE 8 * f
        BY <4>1, BitsNow
      <4> QED BY <4>2 DEF f
    <3>2. Tweak(alg, fed, k + 1) = InWords(BitsAt(alg, fed, k + 1), w, 2)
      BY DEF Tweak
    <3> QED BY <3>1, <3>2
  <2>3. CASE l = 0
    <3>1. c = BlakeBefore
      BY <2>3 DEF c, BlakeBack
    <3> HIDE DEF w
    <3>2. BlakeAdded' = <<0, 0>>
      BY <1>2, <1>6, <2>1, <3>1, BeforeAdds
    <3>3. InWords(0, w, 2) = <<0, 0>>
      BY <1>2, NoBits, SMTT(40)
    <3> QED BY <2>2, <2>3, <3>2, <3>3
  <2>4. CASE l # 0
    <3>1. bits \in 1..1023
      <4> HIDE DEF l
      <4> QED BY <1>2, <2>4
    <3>2. cnt' = BlakeBack(bits)
      BY <1>6 DEF c
    <3>4. /\ w \in Nat \ {0} /\ cnt[1] \in Nat /\ cnt[2] \in Nat /\ cnt[1] % 1024 = 0
          /\ cnt[1] + bits < w /\ cnt[2] < w
      BY <1>2, <1>3
    <3>5. BackReady(w, bits)
      BY <3>1, <3>4 DEF BackReady
    <3> HIDE DEF w, bits
    <3>3. BlakeAdded' = <<cnt[1] + bits, cnt[2]>>
      BY <2>1, <3>2, <3>5, BackAdds
    <3> QED BY <1>3, <2>2, <2>4, <3>3
  <2> QED BY <2>3, <2>4
<1>10. (BlakeAdded = Tweak(alg, fed, Len(out) + 1))'
  <2>1. Tweak(alg, fed, Len(out) + 1)' = Tweak(alg, fed, k + 1)
    BY <1>6
  <2> QED BY <1>9, <2>1
<1>11. input' # <<>> /\ (Len(buf) + Len(input) = 128)'
  <2>1. Len(d) # 0
    <3> DEFINE i == Len(d)
    <3>1. l \in 0..127 /\ l + i = 128
      BY <1>2
    <3> HIDE DEF l, i
    <3>2. i # 0
      BY <3>1, SMTT(40)
    <3> QED BY <3>2 DEF i
  <2>2. d # <<>>
    BY <2>1
  <2> QED BY <1>6, <2>2
<1>12. (later # <<>> => Len(later) = 128)'
  BY <1>6
<1>13. (fed <= 128 * (Len(out) + 1))'
  <2>1. fed <= 128 * (k + 1)
    <3> HIDE DEF k, l
    <3> QED BY <1>2 DEF At
  <2> QED BY <1>6, <2>1
<1>14. BlakePadding'
  BY <1>10, <1>11, <1>12, <1>13 DEF BlakePadding
<1>15. Calls(alg)' /\ alg' = "blake"
  BY <1>1, <1>6 DEF Calls
<1> QED BY <1>6, <1>7, <1>8, <1>14, <1>15 DEF InClose

LEMMA BlakeCalls ==
  ASSUME TypeInv, Consumed, Counted, alg = "blake", BlakeCall
  PROVE  InClose' /\ phase' = "closing"
<1> DEFINE w == Word["blake"]
           k == Len(out)
           l == Len(buf)
           bits == 8 * l
           c == <<cnt[1] + bits, cnt[2]>>
           length == BigPair(c)
           one == <<Byte(1)>>
           first == <<Byte(128)>>
           f == BlakePad(l)
           s == first \o Zeros(127 - l)
           t == (Zeros(111) \o one) \o length
<1>1. Closing
  BY DEF BlakeCall, Call
<1>2. l \in 0..127 /\ k \in Nat /\ At(128, k, l, fed) /\ cnt[1] \in Nat /\ cnt[2] \in Nat
      /\ c = InWords(8 * fed, w, 2)
  BY <1>1, BlakeCounts
<1>3. length \in Seq(Int) /\ Len(length) = 16 /\ length = BigPair(InWords(8 * fed, Word["blake"], 2))
  <2>1. length \in Bytes(16)
    <3>1. cnt[1] + bits \in Nat
      <4> HIDE DEF l
      <4> QED BY <1>2
    <3>2. c \in Seq(Nat) /\ Len(c) >= 2
      <4> HIDE DEF bits
      <4> QED BY <1>2, <3>1, TwoType
    <3> HIDE DEF c
    <3> QED BY <3>2, PairType
  <2>2. length = BigPair(InWords(8 * fed, w, 2))
    BY <1>2
  <2> HIDE DEF length
  <2> QED BY <2>1, <2>2 DEF Bytes
<1>4. l <= 111 => Padding(alg, fed) = f \o length
  <2>1. At(128, k, l, fed) /\ l < 128
    <3> HIDE DEF k, l
    <3> QED BY <1>2
  <2> HIDE DEF k, l, length
  <2> QED BY <1>3, <2>1, BlakePads
<1>5. 111 < l => Padding(alg, fed) = ((first \o Zeros(238 - l)) \o one) \o length
  <2>1. At(128, k, l, fed) /\ l < 128
    <3> HIDE DEF k, l
    <3> QED BY <1>2
  <2> HIDE DEF k, l, length
  <2> QED BY <1>3, <2>1, BlakePads
<1>6. first \in Seq(Int) /\ Len(first) = 1 /\ one \in Seq(Int) /\ Len(one) = 1
  <2>1. one \in Bytes(1)
    BY ByteType
  <2> HIDE DEF one
  <2> QED BY <2>1, OneIs DEF Bytes
<1>7. BlakeLength(bits) = length
  BY DEF BlakeLength
<1>8. CASE l <= 111
  <2> DEFINE d == f \o length
             e == <<>>
  <2>1. Call(d, e, BlakeBack(bits))
    <3>1. bits <= 894
      <4> HIDE DEF l
      <4> QED BY <1>2, <1>8
    <3> QED BY <1>7, <3>1 DEF BlakeCall
  <2>2. f \in Seq(Int) /\ l + Len(f) = 112
    <3>1. CASE l = 111
      <4>1. <<Byte(129)>> \in Bytes(1)
        BY ByteType
      <4>2. f = <<Byte(129)>>
        BY <3>1 DEF BlakePad
      <4> HIDE DEF f
      <4>3. f \in Seq(Int) /\ Len(f) = 1
        BY <4>1, <4>2 DEF Bytes
      <4> QED BY <3>1, <4>3
    <3>2. CASE l # 111
      <4> DEFINE i == 110 - l
                 z == Zeros(i)
      <4>1. i \in Nat /\ l + (1 + i + 1) = 112
        <5> HIDE DEF l
        <5> QED BY <1>2, <1>8, <3>2
      <4>2. f = (first \o z) \o one
        BY <3>2 DEF BlakePad
      <4>3. z \in Seq(Int) /\ Len(z) = i
        <5> HIDE DEF i
        <5> QED BY <4>1, ZerosIs
      <4> HIDE DEF z, first, one, f, i
      <4>4. first \o z \in Seq(Int) /\ Len(first \o z) = 1 + i
        BY <1>6, <4>3, CatType
      <4>5. f \in Seq(Int) /\ Len(f) = 1 + i + 1
        <5>1. (first \o z) \o one \in Seq(Int) /\ Len((first \o z) \o one) = Len(first \o z) + Len(one)
          BY <1>6, <4>4, CatType
        <5> QED BY <1>6, <4>2, <4>4, <5>1
      <4> QED BY <4>1, <4>5
    <3> QED BY <3>1, <3>2
  <2> HIDE DEF f, length
  <2>3. d \in Seq(Int) /\ Len(d) = Len(f) + 16
    <3>1. f \o length \in Seq(Int) /\ Len(f \o length) = Len(f) + Len(length)
      BY <1>3, <2>2, CatType
    <3> QED BY <1>3, <3>1
  <2>4. d \o e = Padding(alg, fed) /\ e \in Seq(Int)
    <3>1. Padding(alg, fed) = d
      BY <1>4, <1>8
    <3> HIDE DEF d
    <3> QED BY <2>3, <3>1, NothingMore
  <2>5. Len(buf) + Len(d) = 128 /\ e = <<>>
    <3> HIDE DEF d
    <3> QED BY <1>2, <2>2, <2>3
  <2>6. Call(d, e, BlakeBack(8 * Len(buf)))
    BY <2>1
  <2> HIDE DEF d, e
  <2> QED BY <2>3, <2>4, <2>5, <2>6, BlakeCallStarts
<1>9. CASE 111 < l
  <2>1. Call(s, t, BlakeBack(bits))
    <3>1. ~(bits <= 894)
      <4> HIDE DEF l
      <4> QED BY <1>2, <1>9
    <3> QED BY <1>7, <3>1 DEF BlakeCall
  <2> DEFINE i == 127 - l
             j == 111
             m == 238 - l
             e == one \o length
  <2>2. AddsTo(i, j, m)
    <3>1. i \in Nat /\ j \in Nat /\ m = i + j
      <4> HIDE DEF l
      <4> QED BY <1>2
    <3> QED BY <3>1 DEF AddsTo
  <2>3. e \in Seq(Int) /\ Len(e) = 17
    <3> HIDE DEF one, length
    <3>1. one \o length \in Seq(Int) /\ Len(one \o length) = Len(one) + Len(length)
      BY <1>3, <1>6, CatType
    <3> QED BY <1>3, <1>6, <3>1
  <2>4. i \in Nat /\ j \in Nat /\ m \in Nat /\ l + (1 + i) = 128 /\ j + 17 = 128
    <3> HIDE DEF l
    <3> QED BY <1>2
  <2>5. t = Zeros(j) \o e
    <3> DEFINE z == Zeros(j)
    <3>1. z \in Seq(Int)
      BY ZerosIs
    <3>2. t = (z \o one) \o length
      OBVIOUS
    <3> HIDE DEF z, one, length, t
    <3>3. (z \o one) \o length = z \o (one \o length)
      BY <1>3, <1>6, <3>1, CatAssoc
    <3> QED BY <3>2, <3>3 DEF z
  <2>6. Padding(alg, fed) = (first \o Zeros(m)) \o e
    <3> DEFINE z == first \o Zeros(m)
    <3>1. z \in Seq(Int)
      <4>1. Zeros(m) \in Seq(Int)
        <5> HIDE DEF m
        <5> QED BY <2>4, ZerosIs
      <4> HIDE DEF first, m
      <4> QED BY <1>6, <4>1, CatType
    <3>2. Padding(alg, fed) = (z \o one) \o length
      BY <1>5, <1>9
    <3> HIDE DEF z, one, length
    <3>3. (z \o one) \o length = z \o (one \o length)
      BY <1>3, <1>6, <3>1, CatAssoc
    <3> QED BY <3>2, <3>3 DEF z
  <2> HIDE DEF i, j, m, first, e, t, l, one, length
  <2>7. Parted(first, i, j, e) = Between(first, m, e)
    BY <1>6, <2>2, <2>3, ZerosJoin
  <2>8. s \o t = Padding(alg, fed)
    <3>1. s = first \o Zeros(i)
      BY DEF i, l, first
    <3> HIDE DEF s
    <3>2. Parted(first, i, j, e) = s \o t
      BY <2>5, <3>1 DEF Parted
    <3> QED BY <2>6, <2>7, <3>2 DEF Between
  <2>9. s \in Seq(Int) /\ Len(s) = 1 + i
    <3>1. first \o Zeros(i) \in Seq(Int) /\ Len(first \o Zeros(i)) = Len(first) + i
      BY <1>6, <2>2, <2>3, ZerosJoin
    <3>2. s = first \o Zeros(i)
      BY DEF i, l, first
    <3> HIDE DEF s
    <3> QED BY <1>6, <3>1, <3>2
  <2>10. t \in Seq(Int) /\ Len(t) = 128
    <3>1. Zeros(j) \in Seq(Int) /\ Len(Zeros(j)) = j
      BY <2>4, ZerosIs
    <3>2. Zeros(j) \o e \in Seq(Int) /\ Len(Zeros(j) \o e) = Len(Zeros(j)) + Len(e)
      BY <2>3, <3>1, CatType
    <3> QED BY <2>3, <2>4, <2>5, <3>1, <3>2
  <2> HIDE DEF s
  <2>11. Len(buf) + Len(s) = 128
    BY <2>4, <2>9 DEF l
  <2>12. Call(s, t, BlakeBack(8 * Len(buf)))
    BY <2>1 DEF l
  <2> QED BY <2>8, <2>9, <2>10, <2>11, <2>12, BlakeCallStarts
<1>10. l <= 111 \/ 111 < l
  BY <1>2
<1> QED BY <1>8, <1>9, <1>10

-----------------------------------------------------------------------------
(* The turns in which the padding is taken. *)

\* What a turn leaves alone.
LEMMA CloseStays ==
  ASSUME InClose, UNCHANGED <<fast, alg, phase, fed, later>>
  PROVE  /\ Calls(alg)' /\ (Padded(alg, fed) \in Seq(Int))'
         /\ (\E q \in Nat : Len(Padded(alg, fed)) = BlockLen[alg] * q)'
         /\ Whole' = Whole /\ Tweaks(alg, fed)' = Tweaks(alg, fed) /\ BlockLen[alg]' = BlockLen[alg]
         /\ alg # "blake" => later' = <<>>
         /\ Whole \in Seq(Int)
<1>1. Calls(alg)' = Calls(alg)
  BY DEF Calls
<1>2. Padded(alg, fed)' = Padded(alg, fed)
  OBVIOUS
<1>3. Whole' = Whole
  BY DEF Whole, Unread
<1>4. Whole \in Seq(Int)
  BY WholeType DEF InClose
<1>5. (\E q \in Nat : Len(Padded(alg, fed)) = BlockLen[alg] * q)' = (\E q \in Nat : Len(Padded(alg, fed)) = BlockLen[alg] * q)
  OBVIOUS
<1> QED BY <1>1, <1>2, <1>3, <1>4, <1>5 DEF InClose

LEMMA PaddingTurn ==
  ASSUME TypeInv, InClose, alg \in {"keccak", "groestl", "jh"}, NEW b, b = BlockLen[alg],
         NEW full, NEW partial, Turn(b, Entry(Filled(b), <<>>), full, partial)
  PROVE  InClose'
<1> DEFINE w == Whole
           ty == Tweaks(alg, fed)
           x == <<>>
<1>1. UNCHANGED <<fast, alg, phase, fed, later>>
  BY TurnFrame
<1>2. b \in Nat \ {0} /\ ~Lazy(alg) /\ Len(out) \in Nat
  BY TypeFacts, BlockType DEF Lazy
<1>3. w \in Seq(Int)
  BY <1>1, CloseStays
<1>4. Holds(b, out, buf, input, later, w, ty)
  BY DEF InClose
<1>5. x \in Seq(Nat) /\ x = ty[Len(out) + 1]
  <2>1. Tweak(alg, fed, Len(out) + 1) = <<>>
    BY DEF Tweak
  <2>2. x \in Seq(Nat)
    BY TupleType
  <2> QED BY <1>2, <2>1, <2>2 DEF Tweaks
<1>6. Turn(b, Entry(Filled(b), x), full, partial)
  OBVIOUS
<1> HIDE DEF w, ty, x
<1>7. Holds(b, out', buf', input', later', w, ty)
  BY <1>2, <1>3, <1>4, <1>5, <1>6, EagerTurn
<1>8. w' = w /\ ty' = ty /\ BlockLen[alg]' = b
  BY <1>1, CloseStays DEF w, ty
<1>9. Holds(BlockLen[alg], out, buf, input, later, Whole, Tweaks(alg, fed))'
  <2>1. Holds(BlockLen[alg], out, buf, input, later, w, ty)' = Holds(BlockLen[alg]', out', buf', input', later', w', ty')
    OBVIOUS
  <2> QED BY <1>7, <1>8, <2>1 DEF w, ty
<1>10. /\ Calls(alg)' /\ (Padded(alg, fed) \in Seq(Int))'
       /\ (\E q \in Nat : Len(Padded(alg, fed)) = BlockLen[alg] * q)'
  BY <1>1, CloseStays
<1>11. later' = <<>> /\ alg' \notin {"blake", "fugue"}
  BY <1>1, CloseStays
<1> QED BY <1>9, <1>10, <1>11 DEF InClose

LEMMA FuguePaddingTurn ==
  ASSUME TypeInv, InClose, FugueCore
  PROVE  InClose'
<1> DEFINE w == Whole
           ty == Tweaks(alg, fed)
           x == <<cnt[2]>>
           k == Len(out)
           b == 4
           full == FugueShifted
<1>1. alg = "fugue" /\ ~fast /\ LazyTurn(b, Entry(buf, x), full)
  BY DEF FugueCore, Portable, FugueRound
<1>2. UNCHANGED <<fast, alg, phase, fed, later>>
  BY <1>1, LazyFrame
<1>3. b = BlockLen[alg] /\ b \in Nat \ {0} /\ Lazy(alg) /\ k \in Nat
  BY <1>1, BlockIs, TypeFacts DEF Lazy
<1>4. w \in Seq(Int)
  BY <1>2, CloseStays
<1>5. Holds(b, out, buf, input, later, w, ty)
  BY <1>3 DEF InClose
<1>6. cnt[2] = k % 3
  BY <1>1 DEF InClose
<1>7. x \in Seq(Nat) /\ x = ty[k + 1]
  <2>1. x \in Seq(Nat)
    BY <1>1, FugueShiftedType
  <2>2. Tweak(alg, fed, k + 1) = <<((k + 1) - 1) % 3>>
    BY <1>1 DEF Tweak
  <2>3. (k + 1) - 1 = k
    <3> HIDE DEF k
    <3> QED BY <1>3
  <2> QED BY <1>3, <1>6, <2>1, <2>2, <2>3 DEF Tweaks
<1> HIDE DEF w, ty, x, b, full
<1>8. Len(buf) = b => x = ty[Len(out) + 1]
  BY <1>7
<1>9. Holds(b, out', buf', input', later', w, ty)
  BY <1>1, <1>3, <1>4, <1>5, <1>7, <1>8, LateTurn
<1>10. (Len(out') = Len(out) + 1 /\ cnt' = full) \/ (out' = out /\ cnt' = cnt)
  BY <1>1, <1>3, <1>4, <1>5, <1>7, <1>8, LateTurn
<1>11. Len(buf') > 0
  BY <1>1, <1>3, <1>4, <1>5, <1>7, <1>8, LateTurn
<1>12. w' = w /\ ty' = ty /\ BlockLen[alg]' = b
  BY <1>2, <1>3, CloseStays DEF w, ty
<1>13. Holds(BlockLen[alg], out, buf, input, later, Whole, Tweaks(alg, fed))'
  <2>1. Holds(BlockLen[alg], out, buf, input, later, w, ty)' = Holds(BlockLen[alg]', out', buf', input', later', w', ty')
    OBVIOUS
  <2> QED BY <1>9, <1>12, <2>1 DEF w, ty
<1>14. /\ Calls(alg)' /\ (Padded(alg, fed) \in Seq(Int))'
       /\ (\E q \in Nat : Len(Padded(alg, fed)) = BlockLen[alg] * q)'
  BY <1>2, CloseStays
<1>15. later' = <<>> /\ alg' = "fugue"
  BY <1>1, <1>2, CloseStays
<1>16. (cnt[2] = Len(out) % 3)'
  <2>1. CASE Len(out') = k + 1 /\ cnt' = full
    <3>1. full[2] = ((k % 3) + 1) % 3
      BY <1>6 DEF full, FugueShifted
    <3>2. ((k % 3) + 1) % 3 = (k + 1) % 3
      <4> HIDE DEF k
      <4> QED BY <1>3
    <3> QED BY <2>1, <3>1, <3>2
  <2>2. CASE out' = out /\ cnt' = cnt
    BY <1>6, <2>2
  <2> QED BY <1>10, <2>1, <2>2
<1>17. buf' # <<>>
  BY <1>11
<1> QED BY <1>13, <1>14, <1>15, <1>16, <1>17 DEF InClose

LEMMA BlakePaddingTurn ==
  ASSUME TypeInv, InClose, alg = "blake", BlakeTurn
  PROVE  InClose'
<1> DEFINE w == Whole
           ty == Tweaks(alg, fed)
           x == BlakeAdded
           k == Len(out)
           b == 128
           t == Taken(b)
<1>1. Turn(b, Entry(Filled(b), x), x, cnt) /\ input # <<>>
  BY DEF BlakeTurn, Blake64Compress, Turn
<1>2. UNCHANGED <<fast, alg, phase, fed, later>>
  BY <1>1, TurnFrame
<1>3. b = BlockLen[alg] /\ b \in Nat \ {0} /\ ~Lazy(alg) /\ k \in Nat
  BY BlockIs, TypeFacts DEF Lazy
<1>4. w \in Seq(Int)
  BY <1>2, CloseStays
<1>5. Holds(b, out, buf, input, later, w, ty)
  BY <1>3 DEF InClose
<1>6. /\ Len(buf) + Len(input) = b /\ x = Tweak(alg, fed, k + 1)
      /\ later # <<>> => Len(later) = 128 /\ fed <= 128 * (k + 1)
  BY <1>1 DEF InClose, BlakePadding
<1>7. x \in Seq(Nat) /\ x = ty[k + 1]
  <2>1. Tweak(alg, fed, k + 1) = InWords(BitsAt(alg, fed, k + 1), Word[alg], 2)
    BY DEF Tweak
  <2>2. BitsAt(alg, fed, k + 1) \in Nat
    <3>1. BlockLen[alg] = 128 /\ fed \in Nat
      BY <1>3, TypeFacts
    <3>2. BitsAt(alg, fed, k + 1) = IF 128 * ((k + 1) - 1) >= fed THEN 0 ELSE 8 * Lower(fed, 128 * (k + 1))
      BY <3>1 DEF BitsAt
    <3>3. Lower(fed, 128 * (k + 1)) \in Nat
      <4> DEFINE y == 128 * (k + 1)
      <4>1. y \in Nat
        <5> HIDE DEF k
        <5> QED BY <1>3
      <4> HIDE DEF y
      <4>2. Lower(fed, y) \in Nat
        BY <3>1, <4>1 DEF Lower
      <4> QED BY <4>2 DEF y
    <3> DEFINE y == Lower(fed, 128 * (k + 1))
    <3>4. 8 * y \in Nat
      <4>1. y \in Nat
        BY <3>3
      <4> HIDE DEF y
      <4> QED BY <4>1
    <3> QED BY <3>2, <3>4
  <2>3. InWords(BitsAt(alg, fed, k + 1), Word[alg], 2) \in Seq(Nat)
    <3> DEFINE m == BitsAt(alg, fed, k + 1)
               j == 2
               v == Word[alg]
    <3>1. m \in Nat /\ j \in Nat /\ v \in Nat \ {0}
      BY <2>2, TypeFacts, BlockType
    <3> HIDE DEF m, j, v
    <3>2. InWords(m, v, j) \in Seq(Nat)
      BY <3>1, InWordsType
    <3> QED BY <3>2 DEF m, j, v
  <2> HIDE DEF x
  <2> QED BY <1>3, <1>6, <2>1, <2>3 DEF Tweaks
<1> HIDE DEF w, ty, x, b, t
<1>8. Len(Filled(b)) = b => x = ty[Len(out) + 1]
  BY <1>7
<1>9. Holds(b, out', buf', input', later', w, ty)
  BY <1>1, <1>3, <1>4, <1>5, <1>7, <1>8, EagerTurn
<1>10. \/ Len(out') = Len(out) + 1 /\ cnt' = x /\ buf' = <<>>
       \/ out' = out /\ cnt' = cnt /\ Len(buf') = Len(buf) + Taken(b) /\ Len(buf') # b
  BY <1>1, <1>3, <1>4, <1>5, <1>7, <1>8, EagerTurn
<1>11. Len(input') = Len(input) - Taken(b) /\ Taken(b) \in 0..Len(input)
  BY <1>1, <1>3, <1>4, <1>5, <1>7, <1>8, EagerTurn
<1>12. Taken(b) = Len(input)
  <2>1. Len(input) \in Nat /\ Len(buf) \in Nat
    BY TypeFacts
  <2> QED BY <1>3, <1>6, <2>1 DEF Taken, Lower
<1>13. Len(out') = k + 1 /\ buf' = <<>>
  BY <1>6, <1>10, <1>12
<1>14. input' = <<>>
  <2>1. input \in Seq(Int)
    BY TypeFacts
  <2>2. input' = Rest(Taken(b)) /\ Taken(b) \in 0..Len(input)
    BY <1>1, <1>11 DEF Turn
  <2>3. Rest(Taken(b)) \in Seq(Int)
    BY <2>1, <2>2, Cut DEF Rest
  <2>4. Len(input') = 0
    BY <1>11, <1>12, <2>1
  <2> QED BY <2>2, <2>3, <2>4
<1>15. w' = w /\ ty' = ty /\ BlockLen[alg]' = b
  BY <1>2, <1>3, CloseStays DEF w, ty
<1>16. Holds(BlockLen[alg], out, buf, input, later, Whole, Tweaks(alg, fed))'
  <2>1. Holds(BlockLen[alg], out, buf, input, later, w, ty)' = Holds(BlockLen[alg]', out', buf', input', later', w', ty')
    OBVIOUS
  <2> QED BY <1>9, <1>15, <2>1 DEF w, ty
<1>17. /\ Calls(alg)' /\ (Padded(alg, fed) \in Seq(Int))'
       /\ (\E q \in Nat : Len(Padded(alg, fed)) = BlockLen[alg] * q)'
  BY <1>2, CloseStays
<1>18. BlakePadding'
  <2>1. later' # <<>> => Len(later') = 128 /\ fed' <= 128 * (Len(out') + 0)
    <3>1. (k + 1) + 0 = k + 1
      <4> HIDE DEF k
      <4> QED BY <1>3
    <3> QED BY <1>2, <1>6, <1>13, <3>1
  <2> QED BY <1>13, <1>14, <2>1 DEF BlakePadding
<1> QED BY <1>2, <1>16, <1>17, <1>18 DEF InClose

\* The second block of BLAKE's padding.
LEMMA BlakeSeconds ==
  ASSUME TypeInv, InClose, alg = "blake", BlakeSecond
  PROVE  InClose' /\ phase' = "closing"
<1> DEFINE w == Whole
           ty == Tweaks(alg, fed)
           k == Len(out)
           v == Word["blake"]
<1>1. /\ input = <<>> /\ later # <<>> /\ input' = later /\ later' = <<>> /\ cnt' = BlakeBefore
      /\ UNCHANGED <<fast, alg, phase, fed, buf, out>> /\ phase = "closing"
  BY DEF BlakeSecond
<1>2. buf = <<>> /\ Len(later) = 128 /\ fed <= 128 * (k + 0)
  BY <1>1 DEF InClose, BlakePadding
<1>3. BlockLen[alg] = 128 /\ k \in Nat /\ fed \in Nat /\ v \in Nat \ {0} /\ v % 1024 = 0
  BY BlockIs, BlockType, TypeFacts, WordAssumption
<1>4. Holds(128, out', buf', input', later', w, ty)
  <2>1. Holds(128, out, <<>>, <<>>, later, w, ty)
    BY <1>1, <1>2, <1>3 DEF InClose
  <2> DEFINE p == 128 * k
             none == <<>>
  <2>2. Len(none) = 0 /\ p \in Nat /\ Len(later) \in Nat
    <3> HIDE DEF k
    <3> QED BY <1>2, <1>3
  <2>3. Laid(p, none, none, later, w)
    BY <2>1 DEF Holds
  <2> HIDE DEF p, none
  <2>4. p + Len(none) + Len(later) + Len(none) = Len(w)
    BY <2>2, <2>3 DEF Laid
  <2>5. \A j \in 1..Len(later) : later[j] = w[p + Len(none) + j]
    BY <2>2, <2>3 DEF Laid
  <2>6. Laid(p, none, later, none, w)
    BY <2>2, <2>4, <2>5 DEF Laid
  <2>7. Compressed(128, out, w, ty)
    BY <2>1 DEF Holds
  <2>8. buf' = none /\ input' = later /\ later' = none /\ out' = out
    BY <1>1, <1>2 DEF none
  <2> HIDE DEF w, ty
  <2>9. Laid(128 * Len(out), none, later, none, w)
    BY <2>6 DEF p
  <2> QED BY <2>7, <2>8, <2>9 DEF Holds
<1>5. w' = w /\ ty' = ty /\ BlockLen[alg]' = 128 /\ Unread' = Unread
  BY <1>1, <1>3 DEF Whole, Unread
<1>6. Holds(BlockLen[alg], out, buf, input, later, Whole, Tweaks(alg, fed))'
  <2> HIDE DEF w, ty
  <2>1. Holds(BlockLen[alg], out, buf, input, later, w, ty)' = Holds(BlockLen[alg]', out', buf', input', later', w', ty')
    OBVIOUS
  <2> QED BY <1>4, <1>5, <2>1 DEF w, ty
<1>7. (BlakeAdded = Tweak(alg, fed, Len(out) + 1))'
  <2>1. BlakeAdded' = <<0, 0>>
    <3>1. IsBlakeWord(v)
      BY <1>3 DEF IsBlakeWord
    <3> HIDE DEF v
    <3> QED BY <1>1, <1>3, <3>1, BeforeAdds
  <2>2. Tweak(alg, fed, k + 1) = InWords(BitsAt(alg, fed, k + 1), v, 2)
    BY DEF Tweak
  <2>3. BitsAt(alg, fed, k + 1) = 0
    <3>1. 128 * ((k + 1) - 1) >= fed
      <4> HIDE DEF k
      <4> QED BY <1>2, <1>3
    <3> QED BY <1>3, <3>1 DEF BitsAt
  <2>4. InWords(0, v, 2) = <<0, 0>>
    <3> HIDE DEF v
    <3> QED BY <1>3, NoBits
  <2>5. Tweak(alg, fed, Len(out) + 1)' = Tweak(alg, fed, k + 1)
    BY <1>1
  <2> QED BY <2>1, <2>2, <2>3, <2>4, <2>5
<1>8. BlakePadding'
  <2>1. (Len(buf) + Len(input) = 128)'
    BY <1>1, <1>2
  <2>2. input' # <<>>
    BY <1>1
  <2> QED BY <1>1, <1>7, <2>1, <2>2 DEF BlakePadding
<1>9. Calls(alg)' /\ (Padded(alg, fed) \in Seq(Int))' /\ (\E q \in Nat : Len(Padded(alg, fed)) = BlockLen[alg] * q)'
  <2>1. Calls(alg)' = Calls(alg) /\ Padded(alg, fed)' = Padded(alg, fed) /\ BlockLen[alg]' = BlockLen[alg]
    BY <1>1 DEF Calls
  <2> QED BY <2>1 DEF InClose
<1> QED BY <1>1, <1>6, <1>8, <1>9 DEF InClose

-----------------------------------------------------------------------------
(* The end of the padding. *)

\* The padded message is a number of blocks, so nothing is left in the buffer.
LEMMA PaddedEnds ==
  ASSUME TypeInv, InClose, alg # "fugue", Called, Digest(Output(alg, fed))
  PROVE  Ended
<1> DEFINE b == BlockLen[alg]
           k == Len(out)
           l == Len(buf)
           w == Padded(alg, fed)
           ty == Tweaks(alg, fed)
           none == <<>>
<1>1. input = none /\ later = none
  BY DEF Called
<1>2. alg \in Algo /\ fed \in Nat /\ out \in Seq(Compression) /\ buf \in Seq(Int) /\ b \in Nat \ {0}
      /\ k \in Nat /\ l \in Nat
  BY TypeFacts, BlockType
<1>3. l < b
  <2>1. ~Lazy(alg)
    BY DEF InClose, Calls, Lazy
  <2> QED BY <2>1, BufferFits
<1>4. w \in Seq(Int) /\ w \o none = w /\ none \in Seq(Int)
  <2>1. w \in Seq(Int)
    BY DEF InClose
  <2> HIDE DEF w
  <2> QED BY <2>1, NothingMore
<1>5. Holds(b, out, buf, none, none, w, ty)
  <2>1. Whole = w
    BY <1>4 DEF Whole, Unread
  <2>2. Holds(b, out, buf, input, later, Whole, ty)
    BY DEF InClose
  <2> HIDE DEF none, w, ty, b
  <2> QED BY <1>1, <2>1, <2>2
<1>6. PICK q \in Nat : Len(w) = b * q
  BY DEF InClose
<1> HIDE DEF none, w, ty, b, k, l
<1>7. b * k + l = b * q
  <2>1. Laid(b * k, buf, none, none, w)
    BY <1>5 DEF Holds, k
  <2>2. b * k + l + Len(none) + Len(none) = Len(w)
    BY <2>1 DEF Laid, l
  <2>3. Len(none) = 0
    BY DEF none
  <2> DEFINE x == b * k
             y == b * q
  <2>4. x \in Nat /\ y \in Nat
    BY <1>2
  <2>5. x + l + 0 + 0 = y
    BY <1>6, <2>2, <2>3
  <2> HIDE DEF x, y
  <2>6. x + l = y
    BY <1>2, <2>4, <2>5
  <2> QED BY <2>6 DEF x, y
<1>8. l = 0
  <2> DEFINE x == b * q
             z == 0
  <2>1. x \in Nat /\ x = b * k + l /\ x = b * q + z /\ z \in Nat /\ z < b
    BY <1>2, <1>7
  <2> HIDE DEF x, z
  <2>2. x % b = l
    BY <1>2, <1>3, <2>1, ModIs
  <2>3. x % b = z
    BY <1>2, <2>1, ModIs
  <2> QED BY <2>2, <2>3 DEF z
<1>9. buf = <<>>
  BY <1>2, <1>8 DEF l
<1>10. Holds(BlockLen[alg], out, <<>>, <<>>, <<>>, Padded(alg, fed), Tweaks(alg, fed))
  BY <1>5, <1>9 DEF b, none, w, ty
<1>11. Standard(alg, fed) = out \o Output(alg, fed)
  <2>1. Padded(alg, fed) \in Seq(Int)
    BY <1>4 DEF w
  <2> QED BY <1>2, <1>10, <2>1, StandardIs
<1> QED BY <1>1, <1>11 DEF Digest, Ended, none

\* Fugue's last word stays in the buffer: it is the one that nobody has written.
LEMMA FugueEnds ==
  ASSUME TypeInv, InClose, FugueEnd
  PROVE  Ended
<1> DEFINE k == Len(out)
           l == Len(buf)
           w == Padded(alg, fed)
           u == Unread
           ty == Tweaks(alg, fed)
           none == <<>>
<1>1. alg = "fugue" /\ ~fast /\ input = none /\ later = none /\ Digest(<<FugueFinal>>)
  BY DEF FugueEnd, Called, Portable
<1>2. alg \in Algo /\ fed \in Nat /\ out \in Seq(Compression) /\ buf \in Seq(Int) /\ BlockLen[alg] = 4
      /\ k \in Nat /\ l \in Nat
  BY <1>1, TypeFacts, BlockIs
<1>3. l <= 4 /\ l # 0
  <2>1. l <= 4
    BY <1>2, BufferFits
  <2>2. buf # <<>>
    BY <1>1 DEF InClose
  <2> QED BY <1>2, <2>1, <2>2
<1>4. w \in Seq(Int) /\ u \in Seq(Int) /\ Len(u) = 4 /\ Len(w \o u) = Len(w) + 4 /\ w \o u \in Seq(Int)
  <2>1. w \in Seq(Int)
    BY DEF InClose
  <2>2. u \in Seq(Int) /\ Len(u) = 4
    BY <1>1, UnreadType
  <2> HIDE DEF w, u
  <2> QED BY <2>1, <2>2, CatType
<1>5. Holds(4, out, buf, none, none, w \o u, ty)
  BY <1>1, <1>2 DEF InClose, Whole
<1>6. PICK q \in Nat : Len(w) = 4 * q
  BY <1>2 DEF InClose
<1>7. cnt[2] = k % 3
  BY <1>1 DEF InClose
<1> HIDE DEF none, w, u, ty, k, l
<1>8. k = q
  <2>1. Laid(4 * k, buf, none, none, w \o u)
    BY <1>5 DEF Holds, k
  <2>2. 4 * k + l + Len(none) + Len(none) = Len(w \o u)
    BY <2>1 DEF Laid, l
  <2>3. Len(none) = 0
    BY DEF none
  <2> DEFINE x == Len(w \o u)
  <2>4. x = 4 * q + 4 /\ 4 * k + l + 0 + 0 = x
    BY <1>4, <1>6, <2>2, <2>3
  <2> HIDE DEF x
  <2> QED BY <1>2, <1>3, <2>4
<1> DEFINE b == 4
<1>9. b \in Nat /\ b = BlockLen[alg] /\ b * Len(out) = Len(w) /\ b * Len(out) <= Len(w)
  <2>1. Len(w) \in Nat
    BY <1>6
  <2> QED BY <1>2, <1>6, <1>8, <2>1 DEF k
<1>10. Compressed(b, out, w \o u, ty)
  BY <1>5 DEF Holds
<1> HIDE DEF b
<1>11. Compressed(b, out, w, ty)
  BY <1>2, <1>4, <1>9, <1>10, CompressedPrefix
<1>12. Holds(b, out, none, none, none, w, ty)
  <2>1. Len(none) = 0 /\ Len(w) \in Nat
    BY <1>4 DEF none
  <2>2. Laid(b * Len(out), none, none, none, w)
    BY <1>9, <2>1 DEF Laid
  <2> QED BY <1>11, <2>2 DEF Holds
<1>13. Holds(BlockLen[alg], out, <<>>, <<>>, <<>>, Padded(alg, fed), Tweaks(alg, fed))
  BY <1>9, <1>12 DEF none, w, ty
<1>14. Standard(alg, fed) = out \o Output(alg, fed) /\ Count(alg, fed) = Len(out)
  <2>1. Padded(alg, fed) \in Seq(Int)
    BY <1>4 DEF w
  <2> QED BY <1>2, <1>13, <2>1, StandardIs
<1>15. Output(alg, fed) = <<FugueFinal>>
  <2>1. Output(alg, fed) = <<Blank(<<Count(alg, fed) % 3>>)>>
    BY <1>1 DEF Output
  <2> QED BY <1>7, <1>14, <2>1 DEF FugueFinal, k
<1> QED BY <1>1, <1>14, <1>15 DEF Digest, Ended, none

-----------------------------------------------------------------------------
(* A step as a whole *)

\* What a step of the stream is proved from.
Streaming == Sized /\ KeptBack /\ (phase = "open" => Consumed /\ Counted) /\ (phase = "closing" => InClose)

\* A digest compresses by itself, a call goes on with the padding.
LEMMA DirectCloses ==
  ASSUME TypeInv, Streaming, phase = "open", PortableClose \/ FastClose
  PROVE  Ended \/ (InClose' /\ phase' = "closing")
<1>0. Sized /\ KeptBack /\ Consumed /\ Counted
  BY DEF Streaming
<1>1. ~Called /\ ~BlakeSecond
  BY DEF Called, BlakeSecond
<1>2. CASE BlakeClose \/ FastBlakeClose
  <2>1. alg = "blake" /\ BlakeCall
    BY <1>1, <1>2 DEF BlakeClose, FastBlakeClose, Portable, Fast
  <2> QED BY <1>0, <2>1, BlakeCalls
<1>3. CASE BmwClose
  BY <1>0, <1>3, BmwEnds
<1>4. CASE GroestlClose
  BY <1>0, <1>4, GroestlCalls
<1>5. CASE JhClose
  BY <1>0, <1>5, JhCalls
<1>6. CASE KeccakClose
  BY <1>0, <1>6, KeccakCalls
<1>7. CASE GroestlEnd \/ JhEnd \/ KeccakEnd \/ FugueEnd
  BY <1>1, <1>7 DEF GroestlEnd, JhEnd, KeccakEnd, FugueEnd
<1>8. CASE SkeinClose
  BY <1>0, <1>8, SkeinEnds
<1>9. CASE LuffaClose \/ LuffaFinal
  BY <1>0, <1>9, LuffaEnds
<1>10. CASE CubehashClose \/ CubehashDigest
  BY <1>0, <1>10, CubehashEnds
<1>11. CASE ShaviteClose \/ FastShaviteClose
  BY <1>0, <1>11, ShaviteEnds
<1>12. CASE SimdClose
  BY <1>0, <1>12, SimdEnds
<1>13. CASE FastSimdClose
  BY <1>0, <1>13, FastSimdEnds
<1>14. CASE EchoClose \/ EchoFinal
  BY <1>0, <1>14, EchoEnds
<1>15. CASE HamsiClose \/ FastHamsiClose
  BY <1>0, <1>15, HamsiEnds
<1>16. CASE FugueClose
  BY <1>0, <1>16, FugueCalls
<1>17. CASE FastFugueFinal
  BY <1>0, <1>17, FastFugueEnds
<1>18. CASE ShabalClose
  BY <1>0, <1>18, ShabalEnds
<1>19. CASE WhirlpoolClose \/ FastWhirlpoolClose
  <2>1. alg = "whirlpool" /\ MdClose("whirlpool", 32)
    BY <1>19 DEF WhirlpoolClose, FastWhirlpoolClose, Portable, Fast
  <2> QED BY <1>0, <2>1, MdEnds
<1>20. CASE Sha512Close
  <2>1. alg = "sha512" /\ MdClose("sha512", 16)
    BY <1>20 DEF Sha512Close, Common
  <2> QED BY <1>0, <2>1, MdEnds
<1>21. CASE Sha3Final
  BY <1>0, <1>21, Sha3Ends
<1>22. CASE KeccakSponge
  BY <1>0, <1>22, KeccakSpongeEnds
<1>23. CASE GroestlFinish
  BY <1>0, <1>23, FastGroestlEnds
<1>24. CASE JhFinalize
  BY <1>0, <1>24, FastJhEnds
<1>25. CASE PortableClose
  BY <1>25, <1>2, <1>3, <1>4, <1>5, <1>6, <1>7, <1>8, <1>9, <1>10, <1>11, <1>12, <1>14, <1>15, <1>16, <1>18,
     <1>19, <1>20, <1>21 DEF PortableClose
<1>26. CASE FastClose
  BY <1>26, <1>2, <1>9, <1>10, <1>11, <1>13, <1>14, <1>15, <1>17, <1>19, <1>22, <1>23, <1>24 DEF FastClose
<1> QED BY <1>25, <1>26

\* Where the padding is in, the digest is there, but for BLAKE's second block.
LEMMA PaddedCloses ==
  ASSUME TypeInv, InClose, phase = "closing", PortableClose \/ FastClose
  PROVE  Ended \/ (InClose' /\ phase' = "closing")
<1>1. ~Closing
  BY DEF Closing
<1>2. \A d, e, c : ~Call(d, e, c)
  BY <1>1 DEF Call
<1>3. ~BlakeCall
  BY <1>2 DEF BlakeCall
<1>4. Output("blake", fed) = <<>> /\ Output("keccak", fed) = <<>> /\ Output("jh", fed) = <<>>
  BY DEF Output
<1>5. Output("groestl", fed) = <<GroestlFinal>>
  BY DEF Output, GroestlFinal
<1>6. CASE BlakeClose \/ FastBlakeClose
  <2>1. alg = "blake"
    BY <1>6 DEF BlakeClose, FastBlakeClose, Portable, Fast
  <2>2. CASE BlakeSecond
    BY <2>1, <2>2, BlakeSeconds
  <2>3. CASE Called /\ Digest(<<>>)
    <3>1. Digest(Output(alg, fed))
      BY <1>4, <2>1, <2>3
    <3>2. alg # "fugue"
      BY <2>1
    <3> QED BY <2>3, <3>1, <3>2, PaddedEnds
  <2> QED BY <1>3, <1>6, <2>2, <2>3 DEF BlakeClose, FastBlakeClose
<1>7. CASE KeccakEnd \/ JhEnd \/ GroestlEnd
  <2>1. alg \in {"keccak", "jh", "groestl"} /\ Called
    BY <1>7 DEF KeccakEnd, JhEnd, GroestlEnd, Common, Portable
  <2>2. Digest(Output(alg, fed))
    BY <1>4, <1>5, <1>7 DEF KeccakEnd, JhEnd, GroestlEnd, Common, Portable
  <2>3. alg # "fugue"
    BY <2>1
  <2> QED BY <2>1, <2>2, <2>3, PaddedEnds
<1>8. CASE FugueEnd
  BY <1>8, FugueEnds
<1>9. ~GroestlClose /\ ~JhClose /\ ~KeccakClose /\ ~FugueClose
  <2>2. GroestlClose => Closing
    BY DEF GroestlClose, Call
  <2>3. JhClose => Closing
    BY DEF JhClose, Call
  <2>4. KeccakClose => Closing
    BY DEF KeccakClose, Call
  <2>5. FugueClose => Closing
    BY DEF FugueClose, Call
  <2> QED BY <1>1, <2>2, <2>3, <2>4, <2>5
<1>10. ~BmwClose /\ ~SkeinClose /\ ~LuffaClose /\ ~CubehashClose /\ ~ShaviteClose /\ ~SimdClose /\ ~EchoClose
       /\ ~HamsiClose /\ ~ShabalClose /\ ~WhirlpoolClose /\ ~Sha512Close /\ ~Sha3Final
  BY <1>1 DEF BmwClose, SkeinClose, LuffaClose, CubehashClose, ShaviteClose, SimdClose, EchoClose, HamsiClose,
     ShabalClose, WhirlpoolClose, Sha512Close, MdClose, Sha3Final
<1>11. ~GroestlFinish /\ ~JhFinalize /\ ~LuffaFinal /\ ~CubehashDigest /\ ~FastShaviteClose /\ ~FastSimdClose
       /\ ~EchoFinal /\ ~FastHamsiClose /\ ~FastFugueFinal /\ ~FastWhirlpoolClose /\ ~KeccakSponge
  BY <1>1 DEF GroestlFinish, JhFinalize, LuffaFinal, CubehashDigest, FastShaviteClose, FastSimdClose, EchoFinal,
     FastHamsiClose, FastFugueFinal, FastWhirlpoolClose, MdClose, KeccakSponge
<1>12. CASE PortableClose
  BY <1>12, <1>6, <1>7, <1>8, <1>9, <1>10 DEF PortableClose
<1>13. CASE FastClose
  BY <1>13, <1>6, <1>11 DEF FastClose
<1> QED BY <1>12, <1>13

\* Nothing more happens to a digest.
LEMMA NoMoreCloses ==
  ASSUME phase = "done"
  PROVE  ~(PortableClose \/ FastClose)
<1>1. ~Closing /\ ~Called /\ ~BlakeSecond
  BY DEF Closing, Called, BlakeSecond
<1>2. ~BlakeCall
  BY <1>1 DEF BlakeCall, Call
<1>3. ~GroestlClose /\ ~JhClose /\ ~KeccakClose /\ ~FugueClose
  <2>1. GroestlClose => Closing
    BY DEF GroestlClose, Call
  <2>2. JhClose => Closing
    BY DEF JhClose, Call
  <2>3. KeccakClose => Closing
    BY DEF KeccakClose, Call
  <2>4. FugueClose => Closing
    BY DEF FugueClose, Call
  <2> QED BY <1>1, <2>1, <2>2, <2>3, <2>4
<1>4. ~BlakeClose /\ ~FastBlakeClose /\ ~GroestlEnd /\ ~JhEnd /\ ~KeccakEnd /\ ~FugueEnd
  BY <1>1, <1>2 DEF BlakeClose, FastBlakeClose, GroestlEnd, JhEnd, KeccakEnd, FugueEnd
<1>5. ~BmwClose /\ ~SkeinClose /\ ~LuffaClose /\ ~CubehashClose /\ ~ShaviteClose /\ ~SimdClose /\ ~EchoClose
      /\ ~HamsiClose /\ ~ShabalClose /\ ~WhirlpoolClose /\ ~Sha512Close /\ ~Sha3Final
  BY <1>1 DEF BmwClose, SkeinClose, LuffaClose, CubehashClose, ShaviteClose, SimdClose, EchoClose, HamsiClose,
     ShabalClose, WhirlpoolClose, Sha512Close, MdClose, Sha3Final
<1>6. ~GroestlFinish /\ ~JhFinalize /\ ~LuffaFinal /\ ~CubehashDigest /\ ~FastShaviteClose /\ ~FastSimdClose
      /\ ~EchoFinal /\ ~FastHamsiClose /\ ~FastFugueFinal /\ ~FastWhirlpoolClose /\ ~KeccakSponge
  BY <1>1 DEF GroestlFinish, JhFinalize, LuffaFinal, CubehashDigest, FastShaviteClose, FastSimdClose, EchoFinal,
     FastHamsiClose, FastFugueFinal, FastWhirlpoolClose, MdClose, KeccakSponge
<1> QED BY <1>3, <1>4, <1>5, <1>6 DEF PortableClose, FastClose

\* A loop that has no data left does not turn.
LEMMA TurnsTake ==
  ASSUME PortableTurn \/ FastTurn
  PROVE  input # <<>> \/ phase = "open"
<1>3. \A a : MdCore(a) => input # <<>>
  BY DEF MdCore, Turn
<1>4. CASE PortableTurn
  <2>1. BlakeCore \/ BmwCore \/ GroestlCore \/ JhCore \/ KeccakCore \/ LuffaCore \/ CubehashCore => input # <<>>
    BY DEF BlakeCore, BlakeTurn, BmwCore, GroestlCore, JhCore, KeccakCore, LuffaCore, CubehashCore, Turn
  <2>2. ShaviteCore \/ SimdCore \/ EchoCore => input # <<>>
    BY DEF ShaviteCore, ShaviteTurn, SimdCore, EchoCore, Turn
  <2>3. HamsiCore \/ ShabalCore \/ Sha3Update => input # <<>>
    BY DEF HamsiCore, HamsiTurn, ShabalCore, Sha3Update, Turn
  <2>4. SkeinCore \/ FugueCore => input # <<>>
    BY DEF SkeinCore, FugueCore, LazyTurn
  <2>5. WhirlpoolCore \/ Sha512Core => input # <<>>
    BY <1>3 DEF WhirlpoolCore, Sha512Core
  <2>6. FugueNothing => phase = "open"
    BY DEF FugueNothing, Closing
  <2> QED BY <1>4, <2>1, <2>2, <2>3, <2>4, <2>5, <2>6 DEF PortableTurn
<1>5. CASE FastTurn
  <2>1. FastBlakeCore \/ GroestlBlocks \/ JhUpdate \/ LuffaUpdate \/ CubehashUpdate => input # <<>>
    BY DEF FastBlakeCore, BlakeTurn, GroestlBlocks, JhUpdate, LuffaUpdate, CubehashUpdate, Turn
  <2>2. FastShaviteCore \/ SimdUpdate \/ EchoUpdate => input # <<>>
    BY DEF FastShaviteCore, ShaviteTurn, SimdUpdate, EchoUpdate, Turn
  <2>3. FastHamsiCore \/ FugueUpdate \/ FastWhirlpoolUpdate \/ KeccakFastLoopAbsorb => input # <<>>
    BY DEF FastHamsiCore, HamsiTurn, FugueUpdate, FastWhirlpoolUpdate, KeccakFastLoopAbsorb, Turn
  <2> QED BY <1>5, <2>1, <2>2, <2>3 DEF FastTurn
<1> QED BY <1>4, <1>5

\* The loops of the five functions that pad by an update take the padding in.
LEMMA PaddingTurns ==
  ASSUME TypeInv, InClose, phase = "closing", PortableTurn \/ FastTurn
  PROVE  InClose'
<1>1. Calls(alg)
  BY DEF InClose
<1>2. CASE BlakeCore \/ FastBlakeCore
  BY <1>2, BlakePaddingTurn DEF BlakeCore, FastBlakeCore, Portable, Fast
<1>3. CASE FugueCore
  BY <1>3, FuguePaddingTurn
<1>4. CASE KeccakCore
  <2>1. alg = "keccak" /\ 72 = BlockLen[alg]
    BY <1>4, BlockIs DEF KeccakCore, Common
  <2>2. Turn(72, Entry(Filled(72), <<>>), cnt, cnt)
    BY <1>4 DEF KeccakCore, KeccakF
  <2> QED BY <2>1, <2>2, PaddingTurn
<1>5. CASE GroestlCore
  <2>1. alg = "groestl" /\ 128 = BlockLen[alg]
    BY <1>5, BlockIs DEF GroestlCore, Portable
  <2>2. Turn(128, Entry(Filled(128), <<>>), GroestlCount(1), cnt)
    BY <1>5 DEF GroestlCore, GroestlCompress
  <2> QED BY <2>1, <2>2, PaddingTurn
<1>6. CASE JhCore
  <2>1. alg = "jh" /\ 64 = BlockLen[alg]
    BY <1>6, BlockIs DEF JhCore, Portable
  <2> DEFINE c == <<(cnt[1] + 1) % Word["jh"]>>
  <2>2. Turn(64, Entry(Filled(64), <<>>), c, cnt)
    BY <1>6 DEF JhCore, JhE8
  <2> HIDE DEF c
  <2> QED BY <2>1, <2>2, PaddingTurn
<1>7. ~FugueNothing
  BY DEF FugueNothing, Closing
<1>8. CASE PortableTurn
  <2>1. alg \in {"blake", "keccak", "groestl", "jh", "fugue"}
    BY <1>1 DEF Calls
  <2>2. ~BmwCore /\ ~SkeinCore /\ ~LuffaCore /\ ~CubehashCore /\ ~ShaviteCore /\ ~SimdCore
    BY <2>1 DEF BmwCore, SkeinCore, LuffaCore, CubehashCore, ShaviteCore, SimdCore, Portable, Common
  <2>3. ~EchoCore /\ ~HamsiCore /\ ~ShabalCore /\ ~WhirlpoolCore /\ ~Sha512Core /\ ~Sha3Update
    BY <2>1 DEF EchoCore, HamsiCore, ShabalCore, WhirlpoolCore, Sha512Core, Sha3Update, Portable, Common
  <2> QED BY <1>8, <1>2, <1>3, <1>4, <1>5, <1>6, <1>7, <2>2, <2>3 DEF PortableTurn
<1>9. CASE FastTurn
  <2>1. alg \in {"blake", "keccak"} \/ ~fast
    BY <1>1 DEF Calls
  <2>2. ~GroestlBlocks /\ ~JhUpdate /\ ~LuffaUpdate /\ ~CubehashUpdate /\ ~FastShaviteCore /\ ~SimdUpdate
    BY <2>1 DEF GroestlBlocks, JhUpdate, LuffaUpdate, CubehashUpdate, FastShaviteCore, SimdUpdate, Fast
  <2>3. ~EchoUpdate /\ ~FastHamsiCore /\ ~FugueUpdate /\ ~FastWhirlpoolUpdate /\ ~KeccakFastLoopAbsorb
    BY <2>1 DEF EchoUpdate, FastHamsiCore, FugueUpdate, FastWhirlpoolUpdate, KeccakFastLoopAbsorb, Fast
  <2> QED BY <1>9, <1>2, <2>2, <2>3 DEF FastTurn
<1> QED BY <1>8, <1>9

\* A turn of Skein's loop leaves something in the buffer.
LEMMA SkeinKeeps ==
  ASSUME TypeInv, phase = "open", Consumed, SkeinCore
  PROVE  buf' # <<>>
<1> DEFINE kept == IF Len(buf) = 64 THEN <<>> ELSE buf
           m == Lower(64 - Len(kept), Len(input))
           s == SubSeq(input, 1, m)
<1>1. alg = "skein" /\ BlockLen[alg] = 64 /\ input # <<>> /\ buf' = kept \o s
  BY BlockIs DEF SkeinCore, Common, LazyTurn
<1>2. buf \in Seq(Int) /\ input \in Seq(Int) /\ Len(buf) \in Nat /\ Len(input) \in Nat /\ Len(buf) <= 64
  BY <1>1, TypeFacts, BufferFits
<1>3. kept \in Seq(Int) /\ Len(kept) \in Nat /\ Len(kept) < 64
  <2>1. CASE Len(buf) = 64
    <3>1. kept = <<>>
      BY <2>1
    <3>2. <<>> \in Seq(Int) /\ Len(<<>>) = 0 /\ 0 < 64 /\ 0 \in Nat
      OBVIOUS
    <3> HIDE DEF kept
    <3> QED BY <3>1, <3>2
  <2>2. CASE Len(buf) # 64
    <3>1. kept = buf
      BY <2>2
    <3> DEFINE l == Len(buf)
    <3>2. l \in Nat /\ l <= 64 /\ l # 64
      BY <1>2, <2>2
    <3> HIDE DEF l
    <3>3. l < 64
      BY <3>2
    <3> QED BY <1>2, <3>1, <3>3 DEF l
  <2> QED BY <2>1, <2>2
<1>4. Len(input) > 0
  BY <1>1, <1>2
<1> HIDE DEF kept
<1>5. m \in 1..Len(input)
  BY <1>2, <1>3, <1>4 DEF Lower
<1> HIDE DEF m
<1>6. s \in Seq(Int) /\ Len(s) = m
  BY <1>2, <1>5, Cut
<1> HIDE DEF s
<1>7. Len(kept \o s) = Len(kept) + m
  BY <1>3, <1>6, CatType
<1>8. Len(buf') > 0
  BY <1>1, <1>3, <1>5, <1>7
<1> QED BY <1>8

\* The context as it is opened, by a caller or by the chain.
Opened ==
  /\ alg \in Algo /\ fast \in BOOLEAN /\ phase = "open" /\ fed = 0
  /\ buf = <<>> /\ cnt = ContextInit(fast, alg) /\ input = <<>> /\ later = <<>> /\ out = <<>>

\* What has been compressed while the message comes in is the beginning of what the
\* standard compresses, and the counters say so; where a padding comes in, the same of
\* the padded message; and the digest is of all of it.
DigestInv ==
  /\ Streaming
  /\ phase = "done" => input = <<>> /\ DigestIsStandard

LEMMA OpenedDigest == Opened => DigestInv
<1> SUFFICES ASSUME Opened PROVE DigestInv
  OBVIOUS
<1>1. /\ alg \in Algo /\ fast \in BOOLEAN /\ phase = "open" /\ fed = 0
      /\ buf = <<>> /\ cnt = ContextInit(fast, alg) /\ input = <<>> /\ later = <<>> /\ out = <<>>
  BY DEF Opened
<1>2. Sized
  BY <1>1, SizedStart DEF Sized, InUnits
<1>3. KeptBack
  BY <1>1 DEF KeptBack
<1>4. Consumed
  BY <1>1, StartConsumed
<1>5. Counted
  BY <1>1, StartCounted
<1> QED BY <1>1, <1>2, <1>3, <1>4, <1>5 DEF DigestInv, Streaming

LEMMA OpenedNext == Opened' => DigestInv'
BY OpenedDigest, PTL

LEMMA TurnDigest ==
  ASSUME TypeInv, DigestInv, Loop, Sized'
  PROVE  DigestInv'
<1>1. UNCHANGED <<fast, alg, phase, fed, later>>
  BY LoopFrame
<1>2. PortableTurn \/ FastTurn
  BY DEF Loop
<1>3. Streaming
  BY DEF DigestInv
<1>4. CASE phase = "open"
  <2>1. Sized /\ Consumed /\ Counted
    BY <1>3, <1>4 DEF Streaming
  <2>2. Consumed' /\ Counted'
    BY <1>2, <1>4, <2>1, TurnsOpen
  <2>3. KeptBack'
    <3>1. CASE alg = "skein"
      <4>1. SkeinCore
        <5>1. ~FastTurn
          BY <3>1 DEF FastTurn, FastBlakeCore, GroestlBlocks, JhUpdate, LuffaUpdate, CubehashUpdate,
             FastShaviteCore, SimdUpdate, EchoUpdate, FastHamsiCore, FugueUpdate, FastWhirlpoolUpdate,
             KeccakFastLoopAbsorb, Fast
        <5>2. ~BlakeCore /\ ~BmwCore /\ ~GroestlCore /\ ~JhCore /\ ~KeccakCore /\ ~LuffaCore /\ ~CubehashCore
              /\ ~ShaviteCore /\ ~SimdCore
          BY <3>1 DEF BlakeCore, BmwCore, GroestlCore, JhCore, KeccakCore, LuffaCore, CubehashCore,
             ShaviteCore, SimdCore, Portable, Common
        <5>3. ~EchoCore /\ ~HamsiCore /\ ~FugueCore /\ ~FugueNothing /\ ~ShabalCore /\ ~WhirlpoolCore
              /\ ~Sha512Core /\ ~Sha3Update
          BY <3>1 DEF EchoCore, HamsiCore, FugueCore, FugueNothing, ShabalCore, WhirlpoolCore, Sha512Core,
             Sha3Update, Portable, Common
        <5> QED BY <1>2, <5>1, <5>2, <5>3 DEF PortableTurn
      <4>2. buf' # <<>>
        BY <1>4, <2>1, <4>1, SkeinKeeps
      <4> QED BY <4>2 DEF KeptBack
    <3>2. CASE alg # "skein"
      BY <1>1, <3>2 DEF KeptBack
    <3> QED BY <3>1, <3>2
  <2> QED BY <1>1, <1>4, <2>2, <2>3 DEF DigestInv, Streaming
<1>5. CASE phase = "closing"
  <2>1. InClose
    BY <1>3, <1>5 DEF Streaming
  <2>2. InClose'
    BY <1>2, <1>5, <2>1, PaddingTurns
  <2>3. KeptBack'
    BY <1>1, <1>5 DEF KeptBack
  <2> QED BY <1>1, <1>5, <2>2, <2>3 DEF DigestInv, Streaming
<1>6. CASE phase = "done"
  <2>1. input = <<>>
    BY <1>6 DEF DigestInv
  <2> QED BY <1>2, <1>6, <2>1, TurnsTake
<1>7. phase \in {"open", "closing", "done"}
  BY DEF TypeInv, TypeOK
<1> QED BY <1>4, <1>5, <1>6, <1>7

LEMMA CloseDigest ==
  ASSUME TypeInv, DigestInv, Close, Sized'
  PROVE  DigestInv'
<1>1. PortableClose \/ FastClose
  BY DEF Close
<1>2. Streaming
  BY DEF DigestInv
<1>3. Ended \/ (InClose' /\ phase' = "closing")
  <2>1. CASE phase = "open"
    BY <1>1, <1>2, <2>1, DirectCloses
  <2>2. CASE phase = "closing"
    <3>1. InClose
      BY <1>2, <2>2 DEF Streaming
    <3> QED BY <1>1, <2>2, <3>1, PaddedCloses
  <2>3. CASE phase = "done"
    BY <1>1, <2>3, NoMoreCloses
  <2>4. phase \in {"open", "closing", "done"}
    BY DEF TypeInv, TypeOK
  <2> QED BY <2>1, <2>2, <2>3, <2>4
<1>4. CASE Ended
  <2>1. KeptBack'
    BY <1>4 DEF Ended, KeptBack
  <2>2. phase' = "done" /\ input' = <<>> /\ out' = Standard(alg, fed) /\ alg' = alg /\ fed' = fed
    BY <1>4 DEF Ended
  <2>3. DigestIsStandard'
    BY <2>2 DEF DigestIsStandard
  <2> QED BY <2>1, <2>2, <2>3 DEF DigestInv, Streaming
<1>5. CASE InClose' /\ phase' = "closing"
  <2>1. KeptBack'
    BY <1>5 DEF KeptBack
  <2> QED BY <1>5, <2>1 DEF DigestInv, Streaming
<1> QED BY <1>3, <1>4, <1>5

LEMMA UpdateDigest ==
  ASSUME TypeInv, DigestInv, Update, Sized'
  PROVE  DigestInv'
<1>1. PICK k \in Nat : fed' = fed + k /\ input' = Message(fed, k) /\ cnt' = EntryCount(k)
  <2>1. PICK k \in IF chain THEN {InSize} ELSE IF fed = 0 THEN 1..MaxFed[alg] ELSE Chunks \ {0} :
          fed' = fed + k /\ input' = Message(fed, k) /\ cnt' = EntryCount(k)
    BY DEF Update
  <2>2. k \in Nat
    BY <2>1, BoundsAssumption DEF InSize
  <2> QED BY <2>1, <2>2
<1>2. phase = "open" /\ input = <<>> /\ UNCHANGED <<fast, alg, phase, buf, later, out>>
  BY DEF Update
<1>3. Consumed /\ Counted /\ KeptBack
  BY <1>2 DEF DigestInv, Streaming
<1>4. Consumed'
  BY <1>1, <1>2, <1>3, UpdateConsumed
<1>5. Counted'
  BY <1>1, <1>2, <1>3, UpdateCounted
<1>6. KeptBack'
  BY <1>2, <1>3 DEF KeptBack
<1> QED BY <1>2, <1>4, <1>5, <1>6 DEF DigestInv, Streaming

LEMMA DigestInductive ==
  ASSUME LastUnit = FALSE, TypeInv, DigestInv, [Next]_vars
  PROVE  DigestInv'
<1>1. Sized
  BY DEF DigestInv, Streaming
<1>2. Sized'
  BY <1>1, SizedInductive
<1>3. CASE Update
  BY <1>2, <1>3, UpdateDigest
<1>4. CASE Loop
  BY <1>2, <1>4, TurnDigest
<1>5. CASE Close
  BY <1>2, <1>5, CloseDigest
<1>6. CASE Round
  <2>1. alg' \in Algo /\ fast' \in BOOLEAN
    BY <1>6, AlgoFacts DEF Round, TypeInv, TypeOK
  <2>2. Opened'
    BY <1>6, <2>1 DEF Round, Opened
  <2> QED BY <2>2, OpenedNext
<1>7. CASE UNCHANGED vars
  <2>1. UNCHANGED <<fast, alg, phase, fed, buf, cnt, input, later, out>>
    BY <1>7 DEF vars, stream, context
  <2>2. Consumed' = Consumed /\ (Counted => Counted')
    BY <2>1 DEF Consumed, Counted, HoldsCount
  <2>3. KeptBack' = KeptBack
    BY <2>1 DEF KeptBack
  <2>4. InClose => InClose'
    <3>1. BlakePadding => BlakePadding'
      BY <2>1 DEF BlakePadding, BlakeAdded
    <3>2. Whole' = Whole
      BY <2>1 DEF Whole, Unread
    <3>3. /\ BlockLen[alg]' = BlockLen[alg] /\ Padded(alg, fed)' = Padded(alg, fed)
          /\ Tweaks(alg, fed)' = Tweaks(alg, fed) /\ Calls(alg)' = Calls(alg)
      BY <2>1 DEF Calls
    <3>4. Holds(BlockLen[alg], out, buf, input, later, Whole, Tweaks(alg, fed))'
          = Holds(BlockLen[alg], out, buf, input, later, Whole, Tweaks(alg, fed))
      BY <2>1, <3>2, <3>3
    <3> QED BY <2>1, <3>1, <3>3, <3>4 DEF InClose
  <2>5. DigestIsStandard => DigestIsStandard'
    BY <2>1 DEF DigestIsStandard
  <2> QED BY <1>2, <2>1, <2>2, <2>3, <2>4, <2>5 DEF DigestInv, Streaming
<1>8. Returned => UNCHANGED vars
  BY DEF Returned
<1> QED BY <1>3, <1>4, <1>5, <1>6, <1>7, <1>8 DEF Next

(* Padding and counters: when the digest is there, the function has          *)
(* compressed what it is defined to for a message of that length, in both    *)
(* builds, for updates of any lengths, for counters of any width that the    *)
(* message fits, and in every round of a chain; but for fast Groestl where   *)
(* the message leaves one unit, which the code pads wrongly (LastUnit).      *)
THEOREM DigestCorrect ==
  ASSUME LastUnit = FALSE
  PROVE  Spec => []DigestIsStandard
<1>1. Init => TypeInv /\ DigestInv
  <2> SUFFICES ASSUME Init PROVE TypeInv /\ DigestInv
    OBVIOUS
  <2>1. TypeInv
    BY InitTypeInv
  <2>2. Opened
    BY DEF Init, Open, Opened
  <2> QED BY <2>1, <2>2, OpenedDigest
<1>2. TypeInv /\ DigestInv /\ [Next]_vars => TypeInv' /\ DigestInv'
  BY TypeInductive, DigestInductive
<1>3. DigestInv => DigestIsStandard
  BY DEF DigestInv, DigestIsStandard
<1> QED BY <1>1, <1>2, <1>3, PTL DEF Spec
==============================================================================
