---------------------------- MODULE X16rsProofs ----------------------------
(* Theorems about X16rs, for messages and updates of any length and         *)
(* counters of any width: every variable keeps its type; and, while the     *)
(* message comes in, what a turn of each loop compresses and counts.        *)
EXTENDS X16rs, TLAPS, SequenceTheorems

Compression == [block : Seq(Int), tweak : Seq(Nat)]

(* How many counters a context has.                                          *)
Counters(f, a) ==
  CASE a \in {"keccak", "luffa", "cubehash", "sha3"} -> 0
    [] a \in {"blake", "fugue", "shabal"} -> 2
    [] a = "shavite" -> 4
    [] a = "simd" -> IF f THEN 1 ELSE 2
    [] a = "echo" -> IF f THEN 2 ELSE 4
    [] OTHER -> 1

(* TypeOK, and what keeps a buffer and a counter within their types: where   *)
(* in the message an open context is, that BLAKE takes 1024 only from a      *)
(* counter that has them, and that what fast JH and fast SIMD compute from   *)
(* their counters is the length of the buffer.                               *)
Taking ==
  /\ later = <<>>
  /\ fed = BlockLen[alg] * Len(out) + Len(buf) + Len(input)
  /\ alg = "blake" => cnt[1] % 1024 = 0 /\ cnt[1] < Word["blake"]
  /\ fast /\ alg = "jh" => cnt[1] = (8 * fed) % Word["jh"]
  /\ fast /\ alg = "simd" => cnt[1] = 8 * (fed - Len(input))

TypeInv ==
  /\ TypeOK
  /\ Len(cnt) = Counters(fast, alg)
  /\ phase = "open" => Taking

-----------------------------------------------------------------------------
(* Sequences of bytes *)

LEMMA AlgoFacts ==
  /\ Chained \subseteq Algo
  /\ \A a \in Algo : BlockLen[a] \in {4, 8, 32, 64, 72, 128, 136} /\ Word[a] \in Nat \ {0}
BY WordAssumption DEF Chained, Algo, BlockLen

(* A sequence of k bytes.                                                    *)
Bytes(k) == {s \in Seq(Int) : Len(s) = k}

LEMMA CatType ==
  ASSUME NEW s \in Seq(Int), NEW t \in Seq(Int)
  PROVE  s \o t \in Seq(Int) /\ Len(s \o t) = Len(s) + Len(t)
BY ConcatProperties

LEMMA BytesIs ==
  ASSUME NEW k \in Int, NEW s \in Bytes(k)
  PROVE  s \in Seq(Int) /\ Len(s) = k /\ k \in Nat
BY LenProperties DEF Bytes

LEMMA CatBytes ==
  ASSUME NEW j \in Int, NEW k \in Int, NEW s \in Bytes(j), NEW t \in Bytes(k)
  PROVE  s \o t \in Bytes(j + k)
<1>1. s \in Seq(Int) /\ t \in Seq(Int) /\ Len(s) = j /\ Len(t) = k
  BY DEF Bytes
<1>2. s \o t \in Seq(Int) /\ Len(s \o t) = Len(s) + Len(t)
  BY <1>1, CatType
<1> QED BY <1>1, <1>2 DEF Bytes

LEMMA CatAssoc ==
  ASSUME NEW s \in Seq(Int), NEW t \in Seq(Int), NEW u \in Seq(Int)
  PROVE  (s \o t) \o u = s \o (t \o u)
BY ConcatAssociative

LEMMA CatThree ==
  ASSUME NEW i \in Int, NEW j \in Int, NEW k \in Int,
         NEW s \in Bytes(i), NEW t \in Bytes(j), NEW u \in Bytes(k)
  PROVE  /\ (s \o t) \o u \in Bytes(i + j + k)
         /\ (s \o t) \o u = s \o (t \o u)
<1>1. s \o t \in Bytes(i + j)
  BY CatBytes
<1>2. (s \o t) \o u \in Bytes((i + j) + k)
  BY <1>1, CatBytes
<1>3. s \in Seq(Int) /\ t \in Seq(Int) /\ u \in Seq(Int)
  BY DEF Bytes
<1>4. (s \o t) \o u = s \o (t \o u)
  BY <1>3, CatAssoc
<1> QED BY <1>2, <1>4

LEMMA ByteType ==
  ASSUME NEW x \in Int
  PROVE  <<Byte(x)>> \in Bytes(1)
BY DEF Byte, Bytes

LEMMA ZerosType ==
  ASSUME NEW k \in Nat
  PROVE  Zeros(k) \in Bytes(k)
<1>1. Byte(0) \in Int
  BY DEF Byte
<1> HIDE DEF Byte
<1>2. Zeros(k) \in [1..k -> Int]
  BY <1>1 DEF Zeros
<1> QED BY <1>2 DEF Bytes

LEMMA MessageType ==
  ASSUME NEW from \in Nat, NEW k \in Nat
  PROVE  /\ Message(from, k) \in Bytes(k)
         /\ \A i \in 1..k : Message(from, k)[i] = from + i
BY DEF Message, Bytes

LEMMA EndianType ==
  ASSUME NEW m \in Nat, NEW w \in Nat
  PROVE  BigEndian(m, w) \in Bytes(w) /\ LittleEndian(m, w) \in Bytes(w)
<1>1. \A k \in 1..w : BigEndian(m, w)[k] \in Int
  BY DEF BigEndian, Byte
<1>2. BigEndian(m, w) \in [1..w -> Int]
  BY <1>1 DEF BigEndian
<1>3. \A k \in 1..w : BigEndian(m, w)[w + 1 - k] \in Int
  BY <1>1
<1>4. LittleEndian(m, w) \in [1..w -> Int]
  BY <1>3 DEF LittleEndian
<1> QED BY <1>2, <1>4 DEF Bytes

LEMMA PairType ==
  ASSUME NEW c \in Seq(Nat), Len(c) >= 2
  PROVE  BigPair(c) \in Bytes(16)
<1>1. Len(c) \in Nat /\ c \in [1..Len(c) -> Nat]
  BY LenProperties
<1>2. c[1] \in Nat /\ c[2] \in Nat
  BY <1>1
<1>3. BigEndian(c[2], 8) \in Bytes(8) /\ BigEndian(c[1], 8) \in Bytes(8)
  BY <1>2, EndianType
<1> QED BY <1>3, CatBytes DEF BigPair

LEMMA FourType ==
  ASSUME NEW c \in Seq(Nat), Len(c) = 4
  PROVE  LittleFour(c) \in Bytes(16)
<1>1. c \in [1..4 -> Nat]
  BY LenProperties
<1> DEFINE l(j) == LittleEndian(c[j], 4)
<1>2. \A j \in 1..4 : l(j) \in Bytes(4)
  <2> SUFFICES ASSUME NEW j \in 1..4 PROVE l(j) \in Bytes(4)
    OBVIOUS
  <2>1. c[j] \in Nat
    BY <1>1
  <2> QED BY <2>1, EndianType
<1>3. LittleFour(c) = ((l(1) \o l(2)) \o l(3)) \o l(4)
  BY DEF LittleFour
<1> HIDE DEF l
<1>4. l(1) \o l(2) \in Bytes(8)
  BY <1>2, CatBytes
<1>5. (l(1) \o l(2)) \o l(3) \in Bytes(12)
  BY <1>2, <1>4, CatBytes
<1> QED BY <1>2, <1>3, <1>5, CatBytes

LEMMA EntryType ==
  ASSUME NEW s \in Seq(Int), NEW t \in Seq(Nat)
  PROVE  Entry(s, t) \in Compression
BY DEF Entry, Compression

LEMMA BlankType ==
  ASSUME NEW t \in Seq(Nat)
  PROVE  Blank(t) \in Compression
<1>1. <<>> \in Seq(Int)
  OBVIOUS
<1> QED BY <1>1 DEF Blank, Entry, Compression

LEMMA TwoType ==
  ASSUME NEW x \in Nat, NEW y \in Nat
  PROVE  <<x, y>> \in Seq(Nat) /\ Len(<<x, y>>) = 2
OBVIOUS

LEMMA TupleType ==
  /\ <<>> \in Seq(Nat) /\ Len(<<>>) = 0
  /\ \A x \in Nat : <<x>> \in Seq(Nat) /\ Len(<<x>>) = 1 /\ <<x>>[1] = x
  /\ \A x, y \in Nat : <<x, y>> \in Seq(Nat) /\ Len(<<x, y>>) = 2 /\ <<x, y>>[1] = x /\ <<x, y>>[2] = y
OBVIOUS

LEMMA ModType ==
  \A m \in Int, w \in Nat \ {0} : m % w \in Nat /\ m % w < w
OBVIOUS

LEMMA DivType ==
  ASSUME NEW m \in Nat, NEW w \in Nat \ {0}
  PROVE  m \div w \in Nat /\ m = w * (m \div w) + (m % w)
OBVIOUS

LEMMA InWordsType ==
  ASSUME NEW m \in Nat, NEW w \in Nat \ {0}, NEW k \in Nat
  PROVE  /\ InWords(m, w, k) \in Seq(Nat) /\ Len(InWords(m, w, k)) = k
         /\ \A j \in 1..k : InWords(m, w, k)[j] =
              IF j > 2 THEN 0 ELSE IF j = 1 THEN m % w ELSE (m \div w) % w
<1>1. m % w \in Nat /\ (m \div w) % w \in Nat
  BY ModType, DivType
<1>2. InWords(m, w, k) \in [1..k -> Nat]
  BY <1>1 DEF InWords
<1> QED BY <1>2 DEF InWords

(* What a turn takes.                                                        *)
LEMMA Cut ==
  ASSUME NEW s \in Seq(Int), NEW t \in 0..Len(s)
  PROVE  /\ SubSeq(s, 1, t) \in Seq(Int) /\ Len(SubSeq(s, 1, t)) = t
         /\ SubSeq(s, t + 1, Len(s)) \in Seq(Int)
         /\ Len(SubSeq(s, t + 1, Len(s))) = Len(s) - t
<1>1. Len(s) \in Nat /\ \A i \in 1..Len(s) : s[i] \in Int
  BY LenProperties, ElementOfSeq
<1>2. \A i \in 1..t : s[i] \in Int
  BY <1>1
<1>3. \A i \in (t + 1)..Len(s) : s[i] \in Int
  BY <1>1
<1> QED BY <1>1, <1>2, <1>3, SubSeqProperties

LEMMA TakenFacts ==
  ASSUME buf \in Seq(Int), input \in Seq(Int), NEW b \in Nat, Len(buf) <= b
  PROVE  /\ Taken(b) \in 0..Len(input)
         /\ Filled(b) \in Seq(Int) /\ Len(Filled(b)) = Len(buf) + Taken(b) /\ Len(Filled(b)) <= b
         /\ Rest(Taken(b)) \in Seq(Int) /\ Len(Rest(Taken(b))) = Len(input) - Taken(b)
<1>1. Len(buf) \in Nat /\ Len(input) \in Nat
  BY LenProperties
<1>2. Taken(b) \in 0..Len(input) /\ Taken(b) <= b - Len(buf)
  BY <1>1 DEF Taken, Lower
<1>3. SubSeq(input, 1, Taken(b)) \in Seq(Int) /\ Len(SubSeq(input, 1, Taken(b))) = Taken(b)
  BY <1>2, Cut
<1>4. Rest(Taken(b)) \in Seq(Int) /\ Len(Rest(Taken(b))) = Len(input) - Taken(b)
  BY <1>2, Cut DEF Rest
<1>5. Filled(b) \in Seq(Int) /\ Len(Filled(b)) = Len(buf) + Taken(b)
  BY <1>3, CatType DEF Filled
<1> QED BY <1>1, <1>2, <1>4, <1>5

-----------------------------------------------------------------------------
(* Types: one turn of a loop *)

LEMMA TypeFacts ==
  ASSUME TypeInv
  PROVE  /\ alg \in Algo /\ fast \in BOOLEAN /\ fed \in Nat
         /\ buf \in Seq(Int) /\ input \in Seq(Int) /\ later \in Seq(Int)
         /\ Len(buf) \in Nat /\ Len(input) \in Nat /\ Len(out) \in Nat
         /\ buf \in Bytes(Len(buf))
         /\ cnt \in Seq(Nat) /\ Len(cnt) = Counters(fast, alg) /\ \A i \in 1..Len(cnt) : cnt[i] \in Nat
         /\ out \in Seq(Compression)
<1>1. buf \in Seq(Int) /\ input \in Seq(Int) /\ out \in Seq(Compression) /\ cnt \in Seq(Nat)
  BY DEF TypeInv, TypeOK, Compression
<1>2. Len(buf) \in Nat /\ Len(input) \in Nat /\ Len(out) \in Nat
  BY <1>1, LenProperties
<1>3. \A i \in 1..Len(cnt) : cnt[i] \in Nat
  BY <1>1, ElementOfSeq
<1>4. buf \in Bytes(Len(buf))
  BY <1>1 DEF Bytes
<1> QED BY <1>1, <1>2, <1>3, <1>4 DEF TypeInv, TypeOK

LEMMA BlockType ==
  ASSUME NEW a \in Algo
  PROVE  BlockLen[a] \in Nat \ {0} /\ Word[a] \in Nat \ {0}
<1>1. BlockLen[a] \in {4, 8, 32, 64, 72, 128, 136}
  BY AlgoFacts
<1> QED BY <1>1, AlgoFacts

LEMMA BlockIs ==
  /\ \A a \in {"blake", "bmw", "groestl", "shavite", "simd", "echo", "sha512"} : a \in Algo /\ BlockLen[a] = 128
  /\ \A a \in {"jh", "skein", "shabal", "whirlpool"} : a \in Algo /\ BlockLen[a] = 64
  /\ \A a \in {"luffa", "cubehash"} : a \in Algo /\ BlockLen[a] = 32
  /\ "keccak" \in Algo /\ BlockLen["keccak"] = 72
  /\ "sha3" \in Algo /\ BlockLen["sha3"] = 136
  /\ "hamsi" \in Algo /\ BlockLen["hamsi"] = 8
  /\ "fugue" \in Algo /\ BlockLen["fugue"] = 4
BY DEF BlockLen, Algo, Chained

LEMMA FullTurn ==
  ASSUME NEW b \in Nat, NEW k \in Nat, NEW l \in Nat, NEW i \in Nat, NEW t \in Int, l + t = b
  PROVE  b * (k + 1) + 0 + (i - t) = b * k + l + i
<1>1. b * (k + 1) = b * k + b /\ b * k \in Int
  OBVIOUS
<1> DEFINE x == b * k
<1>2. x \in Int /\ b * (k + 1) = x + b
  BY <1>1
<1> HIDE DEF x
<1>3. b * (k + 1) + 0 + (i - t) = x + l + i
  BY <1>2
<1> QED BY <1>3 DEF x

LEMMA BufferFits ==
  ASSUME TypeInv
  PROVE  Len(buf) <= BlockLen[alg] /\ (~Lazy(alg) => Len(buf) < BlockLen[alg])
<1>1. BlockLen[alg] \in Nat /\ Len(buf) \in Nat
  BY TypeFacts, BlockType
<1>2. Len(buf) < BlockLen[alg] + (IF Lazy(alg) THEN 1 ELSE 0)
  BY DEF TypeInv, TypeOK
<1> QED BY <1>1, <1>2

LEMMA TurnType ==
  ASSUME TypeInv, ~Lazy(alg), NEW e, NEW full, NEW partial, Turn(BlockLen[alg], e, full, partial),
         e \in Compression
  PROVE  /\ buf' \in Seq(Int) /\ Len(buf') < BlockLen[alg]
         /\ input' \in Seq(Int) /\ Len(input') = Len(input) - Taken(BlockLen[alg]) /\ later' = later
         /\ out' \in Seq(Compression) /\ cnt' \in {full, partial}
         /\ BlockLen[alg] * Len(out') + Len(buf') + Len(input')
              = BlockLen[alg] * Len(out) + Len(buf) + Len(input)
         /\ fast' = fast /\ alg' = alg /\ phase' = phase /\ fed' = fed
<1> DEFINE b == BlockLen[alg]
           f == Filled(b)
<1>1. b \in Nat \ {0}
  BY TypeFacts, BlockType
<1>2. Len(buf) < b
  BY BufferFits
<1>3. /\ Taken(b) \in 0..Len(input)
      /\ f \in Seq(Int) /\ Len(f) = Len(buf) + Taken(b) /\ Len(f) <= b
      /\ Rest(Taken(b)) \in Seq(Int) /\ Len(Rest(Taken(b))) = Len(input) - Taken(b)
  BY <1>1, <1>2, TypeFacts, TakenFacts
<1>4. Len(out) \in Nat /\ Len(buf) \in Nat /\ Len(input) \in Nat /\ out \in Seq(Compression)
  BY TypeFacts
<1>5. input' = Rest(Taken(b)) /\ later' = later /\ fast' = fast /\ alg' = alg /\ phase' = phase /\ fed' = fed
  BY DEF Turn
<1>6. CASE Len(f) = b
  <2>1. buf' = <<>> /\ out' = Append(out, e) /\ cnt' = full
    BY <1>6 DEF Turn
  <2>2. out' \in Seq(Compression) /\ Len(out') = Len(out) + 1
    BY <1>4, <2>1, AppendProperties
  <2>3. <<>> \in Seq(Int) /\ Len(<<>>) = 0
    OBVIOUS
  <2> HIDE DEF b, f
  <2>4. Len(buf') = 0
    BY <2>1, <2>3
  <2>5. Taken(b) \in Int /\ Len(buf) + Taken(b) = b /\ Len(input') = Len(input) - Taken(b)
    BY <1>3, <1>5, <1>6
  <2>6. b * Len(out') + Len(buf') + Len(input') = b * Len(out) + Len(buf) + Len(input)
    <3>1. b * (Len(out) + 1) + 0 + (Len(input) - Taken(b)) = b * Len(out) + Len(buf) + Len(input)
      BY <1>1, <1>4, <2>5, FullTurn
    <3> QED BY <2>2, <2>4, <2>5, <3>1
  <2> QED BY <1>1, <1>3, <1>5, <2>1, <2>2, <2>3, <2>6 DEF b
<1>7. CASE Len(f) # b
  <2>1. buf' = f /\ out' = out /\ cnt' = partial
    BY <1>7 DEF Turn
  <2> HIDE DEF b, f
  <2>5. b * Len(out) \in Nat
    BY <1>1, <1>4
  <2> QED BY <1>1, <1>3, <1>4, <1>5, <1>7, <2>1, <2>5 DEF b
<1> QED BY <1>6, <1>7

LEMMA TurnKeepsType ==
  ASSUME TypeInv, ~Lazy(alg), NEW e, NEW full, NEW partial, Turn(BlockLen[alg], e, full, partial),
         e \in Compression,
         full \in Seq(Nat), Len(full) = Len(cnt), partial \in Seq(Nat), Len(partial) = Len(cnt),
         alg = "blake" /\ phase = "open" =>
           full[1] % 1024 = 0 /\ full[1] < Word["blake"] /\ partial = cnt,
         fast /\ alg = "jh" => full = cnt /\ partial = cnt,
         fast /\ alg = "simd" => full = SimdBits(Taken(128)) /\ partial = full,
         UNCHANGED <<chain, n>>
  PROVE  TypeInv'
<1>1. cnt' \in {full, partial}
  BY TurnType
<1>2. TypeOK'
  <2>1. Len(buf') < BlockLen[alg] + (IF Lazy(alg) THEN 1 ELSE 0)
    <3>1. Len(buf') < BlockLen[alg] /\ BlockLen[alg] \in Nat
      BY TurnType, TypeFacts, BlockType
    <3>2. Len(buf') \in Nat
      BY TurnType, LenProperties
    <3> QED BY <3>1, <3>2
  <2>2. cnt' \in Seq(Nat)
    BY <1>1
  <2>3. out' \in Seq([block : Seq(Int), tweak : Seq(Nat)])
    BY TurnType DEF Compression
  <2>4. alg' = alg /\ fast' = fast /\ phase' = phase /\ fed' = fed /\ chain' = chain /\ n' = n /\ later' = later
    BY TurnType
  <2>5. buf' \in Seq(Int) /\ input' \in Seq(Int)
    BY TurnType
  <2>6. Len(buf)' < BlockLen[alg]' + (IF Lazy(alg)' THEN 1 ELSE 0)
    BY <2>1, <2>4 DEF Lazy
  <2>7. alg \in Algo /\ fast \in BOOLEAN /\ phase \in {"open", "closing", "done"} /\ fed \in Nat
        /\ chain \in BOOLEAN /\ n \in Nat /\ later \in Seq(Int)
    BY DEF TypeInv, TypeOK
  <2> HIDE DEF Lazy
  <2> QED BY <2>2, <2>3, <2>4, <2>5, <2>6, <2>7 DEF TypeOK
<1>3. Len(cnt)' = Counters(fast, alg)'
  BY <1>1, TurnType DEF TypeInv
<1>4. ASSUME phase' = "open" PROVE Taking'
  <2>1. Taking
    BY <1>4, TurnType DEF TypeInv
  <2>2. later' = <<>> /\ fed' = BlockLen[alg] * Len(out') + Len(buf') + Len(input') /\ alg' = alg /\ fast' = fast
    BY <2>1, TurnType DEF Taking
  <2>3. alg = "blake" => cnt'[1] % 1024 = 0 /\ cnt'[1] < Word["blake"]
    <3>1. phase = "open"
      BY <1>4, TurnType
    <3>2. cnt' = full \/ cnt' = partial
      BY TurnType
    <3> DEFINE P(c) == c[1] % 1024 = 0 /\ c[1] < Word["blake"]
    <3>3. alg = "blake" => P(full) /\ P(cnt) /\ partial = cnt
      BY <2>1, <3>1 DEF Taking
    <3> HIDE DEF P
    <3>4. alg = "blake" => P(cnt')
      BY <3>2, <3>3
    <3> QED BY <3>4 DEF P
  <2>4. fast /\ alg = "jh" => cnt'[1] = (8 * fed') % Word["jh"]
    <3>1. fed' = fed
      BY TurnType
    <3> QED BY <1>1, <2>1, <3>1 DEF Taking
  <2>5. fast /\ alg = "simd" => cnt'[1] = 8 * (fed' - Len(input'))
    <3> SUFFICES ASSUME fast, alg = "simd" PROVE cnt'[1] = 8 * (fed' - Len(input'))
      OBVIOUS
    <3>1. cnt' = SimdBits(Taken(128))
      BY <1>1
    <3>2. BlockLen[alg] = 128
      BY DEF BlockLen, Algo, Chained
    <3>3. fed' = fed /\ Len(input') = Len(input) - Taken(128)
      BY <3>2, TurnType
    <3>4. Taken(128) \in Int /\ Len(input) \in Int /\ fed \in Int
      <4>1. Taken(128) \in 0..Len(input)
        BY <3>2, TakenFacts, TypeFacts DEF TypeInv, TypeOK
      <4> QED BY <4>1, TypeFacts
    <3>5. cnt[1] = 8 * (fed - Len(input))
      BY <2>1 DEF Taking
    <3> QED BY <3>1, <3>3, <3>4, <3>5 DEF SimdBits
  <2> QED BY <2>2, <2>3, <2>4, <2>5 DEF Taking
<1> QED BY <1>2, <1>3, <1>4 DEF TypeInv

(* A full block is an entry of its own, whatever goes in beside it.          *)
LEMMA FilledType ==
  ASSUME TypeInv, NEW b \in Nat, b = BlockLen[alg], NEW t \in Seq(Nat)
  PROVE  Entry(Filled(b), t) \in Compression
<1>1. Filled(b) \in Seq(Int)
  BY TypeFacts, BufferFits, TakenFacts
<1> QED BY <1>1, EntryType

LEMMA NothingType ==
  ASSUME TypeInv, NEW b \in Nat, b = BlockLen[alg]
  PROVE  Entry(Filled(b), <<>>) \in Compression
<1>1. <<>> \in Seq(Nat)
  OBVIOUS
<1> QED BY <1>1, FilledType

(* A multiple of c below a multiple of c: c more stays below it or gets      *)
(* there.                                                                    *)
LEMMA RoundUp ==
  ASSUME NEW m \in Nat, NEW w \in Nat \ {0}, m % 1024 = 0, w % 1024 = 0, m < w
  PROVE  IF m + 1024 < w THEN (m + 1024) % w = m + 1024 ELSE m + 1024 = w /\ (m + 1024) % w = 0
<1>1. m + 1024 <= w
  OBVIOUS
<1>2. \A x \in Nat : x < w => x % w = x
  OBVIOUS
<1>3. w % w = 0
  OBVIOUS
<1> QED BY <1>1, <1>2, <1>3

LEMMA BlakeTurnType ==
  ASSUME TypeInv, alg = "blake", BlakeTurn, UNCHANGED <<chain, n>>
  PROVE  TypeInv'
<1>0. Len(cnt) = 2 /\ cnt \in Seq(Nat)
  BY TypeFacts DEF Counters
<1>1. BlockLen[alg] = 128 /\ Len(cnt) = 2 /\ cnt[1] \in Nat /\ cnt[2] \in Nat /\ cnt \in Seq(Nat)
  BY <1>0, BlockIs, TypeFacts
<1>2. Word["blake"] \in Nat \ {0} /\ Word["blake"] % 1024 = 0
  BY BlockIs, BlockType, WordAssumption
<1> DEFINE w == Word["blake"]
           t0 == (cnt[1] + 1024) % w
<1>3. t0 \in Nat /\ t0 < w /\ (cnt[2] + 1) % w \in Nat
  <2> HIDE DEF w
  <2>1. cnt[1] + 1024 \in Int /\ cnt[2] + 1 \in Int /\ w \in Nat \ {0}
    BY <1>1, <1>2 DEF w
  <2> QED BY <2>1, ModType
<1>4. BlakeAdded \in Seq(Nat) /\ Len(BlakeAdded) = 2 /\ BlakeAdded[1] = t0
  <2>1. BlakeAdded = <<t0, IF t0 < 1024 THEN (cnt[2] + 1) % w ELSE cnt[2]>>
    BY DEF BlakeAdded
  <2> HIDE DEF t0, w
  <2> QED BY <1>1, <1>3, <2>1
<1>5. phase = "open" => t0 % 1024 = 0
  <2> SUFFICES ASSUME phase = "open" PROVE t0 % 1024 = 0
    OBVIOUS
  <2>1. cnt[1] % 1024 = 0 /\ cnt[1] < w
    BY DEF TypeInv, Taking
  <2>3. w \in Nat \ {0} /\ w % 1024 = 0
    BY <1>2
  <2> DEFINE x == cnt[1]
  <2>4. x \in Nat /\ x % 1024 = 0 /\ x < w /\ t0 = (x + 1024) % w
    BY <1>1, <2>1
  <2> HIDE DEF w, x, t0
  <2>5. IF x + 1024 < w THEN (x + 1024) % w = x + 1024 ELSE x + 1024 = w /\ (x + 1024) % w = 0
    BY <2>3, <2>4, RoundUp
  <2>2. t0 = x + 1024 \/ t0 = 0
    BY <2>4, <2>5
  <2>6. (x + 1024) % 1024 = 0 /\ 0 % 1024 = 0
    BY <2>4
  <2> QED BY <2>2, <2>6
<1>6. Turn(BlockLen[alg], Blake64Compress(Filled(128), BlakeAdded), BlakeAdded, cnt)
  BY <1>1 DEF BlakeTurn
<1>7. Blake64Compress(Filled(128), BlakeAdded) \in Compression
  BY <1>1, <1>4, FilledType DEF Blake64Compress
<1> HIDE DEF t0
<1> QED BY <1>1, <1>3, <1>4, <1>5, <1>6, <1>7, TurnKeepsType DEF Lazy

(* The other loops.                                                          *)
LEMMA AddType ==
  ASSUME NEW x \in Nat, NEW y \in Nat, NEW a \in Algo
  PROVE  (x + y) % Word[a] \in Nat
<1>1. Word[a] \in Nat \ {0} /\ x + y \in Int
  BY BlockType
<1> QED BY <1>1, ModType

LEMMA OneWordType ==
  ASSUME TypeInv, Len(cnt) = 1, NEW k \in Nat, NEW a \in Algo
  PROVE  <<(cnt[1] + k) % Word[a]>> \in Seq(Nat) /\ Len(<<(cnt[1] + k) % Word[a]>>) = 1
<1>1. cnt[1] \in Nat
  BY TypeFacts
<1>2. (cnt[1] + k) % Word[a] \in Nat
  BY <1>1, AddType
<1> QED BY <1>2

LEMMA PlainTurnType ==
  ASSUME TypeInv, ~Lazy(alg), alg # "blake", ~(fast /\ alg = "simd"), NEW b \in Nat, b = BlockLen[alg],
         Turn(b, Entry(Filled(b), <<>>), cnt, cnt), UNCHANGED <<chain, n>>
  PROVE  TypeInv'
<1>1. cnt \in Seq(Nat)
  BY TypeFacts
<1> QED BY <1>1, NothingType, TurnKeepsType

LEMMA CountTurnType ==
  ASSUME TypeInv, ~Lazy(alg), alg # "blake", ~(fast /\ alg \in {"simd", "jh"}),
         NEW b \in Nat, b = BlockLen[alg],
         NEW t \in Seq(Nat), NEW full \in Seq(Nat), Len(full) = Len(cnt),
         NEW partial \in Seq(Nat), Len(partial) = Len(cnt),
         Turn(b, Entry(Filled(b), t), full, partial), UNCHANGED <<chain, n>>
  PROVE  TypeInv'
BY FilledType, TurnKeepsType

LEMMA CntIs ==
  ASSUME TypeInv
  PROVE  /\ alg \in {"keccak", "luffa", "cubehash", "sha3"} => Len(cnt) = 0
         /\ alg \in {"blake", "fugue", "shabal"} => Len(cnt) = 2
         /\ alg = "shavite" => Len(cnt) = 4
         /\ alg = "simd" => Len(cnt) = IF fast THEN 1 ELSE 2
         /\ alg = "echo" => Len(cnt) = IF fast THEN 2 ELSE 4
         /\ alg \in {"bmw", "groestl", "jh", "skein", "hamsi", "whirlpool", "sha512"} => Len(cnt) = 1
         /\ cnt \in Seq(Nat) /\ \A i \in 1..Len(cnt) : cnt[i] \in Nat
BY TypeFacts DEF Counters

LEMMA PlainTurns ==
  ASSUME TypeInv, UNCHANGED <<chain, n>>,
         \/ BmwCore \/ KeccakCore \/ LuffaCore \/ CubehashCore \/ Sha3Update
         \/ JhUpdate \/ LuffaUpdate \/ CubehashUpdate \/ FastWhirlpoolUpdate \/ KeccakFastLoopAbsorb
  PROVE  TypeInv'
<1>1. CASE BmwCore
  BY <1>1, BlockIs, PlainTurnType DEF BmwCore, Common, BmwCompress, Lazy
<1>2. CASE KeccakCore
  BY <1>2, BlockIs, PlainTurnType DEF KeccakCore, Common, KeccakF, Lazy
<1>3. CASE LuffaCore
  BY <1>3, BlockIs, PlainTurnType DEF LuffaCore, Portable, LuffaP5, Lazy
<1>4. CASE CubehashCore
  BY <1>4, BlockIs, PlainTurnType DEF CubehashCore, Portable, CubehashRounds, Lazy
<1>5. CASE Sha3Update
  BY <1>5, BlockIs, PlainTurnType DEF Sha3Update, Portable, Sha3Process, Lazy
<1>6. CASE JhUpdate
  BY <1>6, BlockIs, PlainTurnType DEF JhUpdate, Fast, JhF8, JhE8, Lazy
<1>7. CASE LuffaUpdate
  BY <1>7, BlockIs, PlainTurnType DEF LuffaUpdate, Fast, LuffaRnd512, LuffaP5, Lazy
<1>8. CASE CubehashUpdate
  BY <1>8, BlockIs, PlainTurnType DEF CubehashUpdate, Fast, CubehashTransform, CubehashRounds, Lazy
<1>9. CASE FastWhirlpoolUpdate
  BY <1>9, BlockIs, PlainTurnType DEF FastWhirlpoolUpdate, Fast, WhirlpoolCompress, MdRound, Lazy
<1>10. CASE KeccakFastLoopAbsorb
  BY <1>10, BlockIs, PlainTurnType DEF KeccakFastLoopAbsorb, Fast, KeccakP1600, Sha3Process, Lazy
<1> QED BY <1>1, <1>2, <1>3, <1>4, <1>5, <1>6, <1>7, <1>8, <1>9, <1>10

LEMMA MdTurnType ==
  ASSUME TypeInv, NEW a \in {"whirlpool", "sha512"}, alg = a, MdCore(a), UNCHANGED <<chain, n>>
  PROVE  TypeInv'
<1> DEFINE t == Taken(BlockLen[a])
           c == <<(cnt[1] + t) % Word[a]>>
<1>1. BlockLen[a] \in Nat /\ a \in Algo /\ Len(cnt) = 1
  BY BlockIs, BlockType, CntIs
<1>2. t \in Nat
  <2>1. buf \in Seq(Int) /\ input \in Seq(Int) /\ Len(input) \in Nat
    BY TypeFacts
  <2>2. Len(buf) <= BlockLen[a]
    BY BufferFits
  <2>3. Taken(BlockLen[a]) \in 0..Len(input)
    BY <1>1, <2>1, <2>2, TakenFacts
  <2> QED BY <2>1, <2>3
<1>3. c \in Seq(Nat) /\ Len(c) = 1
  BY <1>1, <1>2, OneWordType
<1>4. Turn(BlockLen[a], Entry(Filled(BlockLen[a]), <<>>), c, c)
  BY DEF MdCore, MdRound
<1>5. <<>> \in Seq(Nat)
  OBVIOUS
<1> HIDE DEF c
<1> QED BY <1>1, <1>3, <1>4, <1>5, CountTurnType DEF Lazy

LEMMA OneWordTurns ==
  ASSUME TypeInv, UNCHANGED <<chain, n>>, GroestlCore \/ GroestlBlocks \/ JhCore
  PROVE  TypeInv'
<1>1. cnt \in Seq(Nat) /\ <<>> \in Seq(Nat)
  BY TypeFacts
<1>2. CASE GroestlCore
  <2>1. alg = "groestl" /\ Turn(128, Entry(Filled(128), <<>>), GroestlCount(1), cnt)
    BY <1>2 DEF GroestlCore, Portable, GroestlCompress
  <2>2. GroestlCount(1) \in Seq(Nat) /\ Len(GroestlCount(1)) = Len(cnt)
    BY <2>1, BlockIs, CntIs, OneWordType DEF GroestlCount
  <2>3. BlockLen[alg] = 128
    BY <2>1, BlockIs
  <2> QED BY <1>1, <2>1, <2>2, <2>3, CountTurnType DEF Lazy
<1>3. CASE GroestlBlocks
  <2>1. alg = "groestl" /\ Turn(128, Entry(Filled(128), <<>>), GroestlCount(1), cnt)
    BY <1>3 DEF GroestlBlocks, Fast, GroestlCompress, GroestlTF1024
  <2>2. GroestlCount(1) \in Seq(Nat) /\ Len(GroestlCount(1)) = Len(cnt)
    BY <2>1, BlockIs, CntIs, OneWordType DEF GroestlCount
  <2>3. BlockLen[alg] = 128
    BY <2>1, BlockIs
  <2> QED BY <1>1, <2>1, <2>2, <2>3, CountTurnType DEF Lazy
<1>4. CASE JhCore
  <2> DEFINE c == <<(cnt[1] + 1) % Word["jh"]>>
  <2>1. alg = "jh" /\ ~fast /\ Turn(64, Entry(Filled(64), <<>>), c, cnt)
    BY <1>4 DEF JhCore, Portable, JhE8
  <2>2. c \in Seq(Nat) /\ Len(c) = Len(cnt)
    BY <2>1, BlockIs, CntIs, OneWordType
  <2>3. BlockLen[alg] = 64
    BY <2>1, BlockIs
  <2> HIDE DEF c
  <2> QED BY <1>1, <2>1, <2>2, <2>3, CountTurnType DEF Lazy
<1> QED BY <1>2, <1>3, <1>4

LEMMA ShaviteAddedType ==
  ASSUME TypeInv, alg = "shavite"
  PROVE  ShaviteAdded \in Seq(Nat) /\ Len(ShaviteAdded) = 4
<1>1. "shavite" \in Algo /\ \A i \in 1..4 : cnt[i] \in Nat
  BY BlockIs, CntIs
<1>2. (cnt[1] + 1024) % Word["shavite"] \in Nat
  BY <1>1, AddType
<1>3. \A i \in 1..4 : (cnt[i] + 1) % Word["shavite"] \in Nat
  BY <1>1, AddType
<1> DEFINE v(j) == IF j = 1 THEN (cnt[1] + 1024) % Word["shavite"]
                   ELSE IF Carried(Word["shavite"], cnt, j)
                   THEN (cnt[j] + 1) % Word["shavite"] ELSE cnt[j]
<1>4. \A j \in 1..4 : v(j) \in Nat
  BY <1>1, <1>2, <1>3
<1>5. ShaviteAdded = [j \in 1..4 |-> v(j)]
  BY DEF ShaviteAdded
<1> HIDE DEF v
<1> QED BY <1>4, <1>5

LEMMA ShaviteTurnType ==
  ASSUME TypeInv, alg = "shavite", ShaviteTurn, UNCHANGED <<chain, n>>
  PROVE  TypeInv'
<1>1. ShaviteAdded \in Seq(Nat) /\ Len(ShaviteAdded) = Len(cnt)
  BY ShaviteAddedType, CntIs
<1>2. Turn(128, Entry(Filled(128), ShaviteAdded), ShaviteAdded, cnt)
  BY DEF ShaviteTurn, ShaviteC512
<1>3. BlockLen[alg] = 128 /\ cnt \in Seq(Nat)
  BY BlockIs, TypeFacts
<1> QED BY <1>1, <1>2, <1>3, CountTurnType DEF Lazy

LEMMA SimdTurns ==
  ASSUME TypeInv, UNCHANGED <<chain, n>>, SimdCore \/ SimdUpdate
  PROVE  TypeInv'
<1>1. <<Flag(FALSE)>> \in Seq(Nat)
  BY DEF Flag
<1>2. alg = "simd"
  BY DEF SimdCore, SimdUpdate, Portable, Fast
<1>5. BlockLen[alg] = 128 /\ cnt \in Seq(Nat)
  BY <1>2, BlockIs, TypeFacts
<1>3. CASE SimdCore
  <2>1. ~fast /\ Turn(128, Entry(Filled(128), <<Flag(FALSE)>>), SimdAdded, cnt)
    BY <1>3 DEF SimdCore, Portable, SimdCompress
  <2>5. Len(cnt) = 2
    BY <1>2, <2>1, CntIs
  <2>2. Len(cnt) = 2 /\ cnt[1] \in Nat /\ cnt[2] \in Nat /\ cnt \in Seq(Nat)
    BY <2>5, TypeFacts
  <2>3. (cnt[1] + 1) % Word["simd"] \in Nat
    BY <2>2, BlockIs, AddType
  <2>4. SimdAdded \in Seq(Nat) /\ Len(SimdAdded) = 2
    BY <2>2, <2>3 DEF SimdAdded
  <2> DEFINE u == <<Flag(FALSE)>>
             c == SimdAdded
  <2>6. u \in Seq(Nat) /\ c \in Seq(Nat) /\ Len(c) = Len(cnt)
    BY <1>1, <2>4, <2>5
  <2>7. Turn(128, Entry(Filled(128), u), c, cnt)
    BY <2>1
  <2> HIDE DEF u, c
  <2> QED BY <1>2, <1>5, <2>1, <2>6, <2>7, CountTurnType DEF Lazy
<1>4. CASE SimdUpdate
  <2> DEFINE c == SimdBits(Taken(128))
  <2>1. fast /\ Turn(128, Entry(Filled(128), <<Flag(FALSE)>>), c, c)
    BY <1>4 DEF SimdUpdate, Fast, SimdCompress, Simd512Compress
  <2>8. Len(cnt) = 1
    BY <1>2, <2>1, CntIs
  <2>2. Len(cnt) = 1 /\ cnt[1] \in Nat
    BY <2>8, TypeFacts
  <2>9. Len(buf) <= 128
    BY <1>5, BufferFits
  <2>3. Taken(128) \in Nat
    BY <2>9, TypeFacts, TakenFacts
  <2>4. c \in Seq(Nat) /\ Len(c) = 1
    BY <2>2, <2>3 DEF SimdBits
  <2>5. Entry(Filled(128), <<Flag(FALSE)>>) \in Compression
    BY <1>1, <1>5, FilledType
  <2> HIDE DEF c
  <2>6. c = SimdBits(Taken(128))
    BY DEF c
  <2> QED BY <1>2, <1>5, <2>1, <2>2, <2>4, <2>5, <2>6, TurnKeepsType DEF Lazy
<1> QED BY <1>3, <1>4

LEMMA EchoAddedType ==
  ASSUME TypeInv, alg = "echo", ~fast, NEW k \in Nat
  PROVE  EchoAdded(k) \in Seq(Nat) /\ Len(EchoAdded(k)) = 4
<1>1. "echo" \in Algo /\ \A i \in 1..4 : cnt[i] \in Nat
  BY BlockIs, CntIs
<1>2. (cnt[1] + k) % Word["echo"] \in Nat
  BY <1>1, AddType
<1>3. \A i \in 1..4 : (cnt[i] + 1) % Word["echo"] \in Nat
  BY <1>1, AddType
<1> DEFINE over == (cnt[1] + k) % Word["echo"] < k
           carry(j) == over /\ \A i \in 2..(j - 1) : (cnt[i] + 1) % Word["echo"] = 0
           v(j) == IF j = 1 THEN (cnt[1] + k) % Word["echo"]
                   ELSE IF carry(j) THEN (cnt[j] + 1) % Word["echo"] ELSE cnt[j]
<1>4. EchoAdded(k) = [j \in 1..4 |-> v(j)]
  BY DEF EchoAdded
<1> HIDE DEF carry
<1>5. \A j \in 1..4 : v(j) \in Nat
  BY <1>1, <1>2, <1>3
<1> HIDE DEF v
<1> QED BY <1>4, <1>5

LEMMA EchoTurns ==
  ASSUME TypeInv, UNCHANGED <<chain, n>>, EchoCore \/ EchoUpdate
  PROVE  TypeInv'
<1>1. alg = "echo"
  BY DEF EchoCore, EchoUpdate, Portable, Fast
<1>4. BlockLen[alg] = 128 /\ cnt \in Seq(Nat)
  BY <1>1, BlockIs, TypeFacts
<1>2. CASE EchoCore
  <2> DEFINE c == EchoAdded(1024)
  <2>1. ~fast /\ Turn(128, Entry(Filled(128), c), c, cnt)
    BY <1>2 DEF EchoCore, Portable, EchoCompress
  <2>2. c \in Seq(Nat) /\ Len(c) = Len(cnt)
    <3>1. Len(cnt) = 4
      BY <1>1, <2>1, CntIs
    <3>2. EchoAdded(1024) \in Seq(Nat) /\ Len(EchoAdded(1024)) = 4
      BY <1>1, <2>1, EchoAddedType
    <3> QED BY <3>1, <3>2
  <2> HIDE DEF c
  <2> QED BY <1>1, <1>4, <2>1, <2>2, CountTurnType DEF Lazy
<1>3. CASE EchoUpdate
  <2> DEFINE c == [i \in 1..2 |-> cnt[i] + 1024]
             t == EchoWords(c[2])
  <2>1. fast /\ Turn(128, Entry(Filled(128), t), c, cnt)
    BY <1>3 DEF EchoUpdate, Fast, EchoCompress, EchoCompressOne
  <2>7. Len(cnt) = 2
    BY <1>1, <2>1, CntIs
  <2>2. Len(cnt) = 2 /\ cnt[1] \in Nat /\ cnt[2] \in Nat /\ cnt \in Seq(Nat)
    BY <2>7, TypeFacts
  <2>3. c \in Seq(Nat) /\ Len(c) = 2 /\ c[2] \in Nat
    BY <2>2
  <2> HIDE DEF c
  <2>6. Word["echo"] \in Nat \ {0}
    BY BlockIs, BlockType
  <2>4. InWords(c[2], Word["echo"], 2) \in Seq(Nat)
    BY <2>3, <2>6, InWordsType
  <2>8. <<0, 0>> \in Seq(Nat)
    OBVIOUS
  <2>5. t \in Seq(Nat)
    BY <2>4, <2>8, ConcatProperties DEF EchoWords
  <2> HIDE DEF t
  <2> QED BY <1>1, <1>4, <2>1, <2>2, <2>3, <2>5, CountTurnType DEF Lazy
<1> QED BY <1>2, <1>3

LEMMA HamsiTurnType ==
  ASSUME TypeInv, alg = "hamsi", HamsiTurn, UNCHANGED <<chain, n>>
  PROVE  TypeInv'
<1> DEFINE c == <<HamsiBits(64)>>
           u == <<0>>
<1>1. BlockLen[alg] = 8 /\ cnt \in Seq(Nat) /\ Len(cnt) = 1 /\ "hamsi" \in Algo
  BY BlockIs, TypeFacts, CntIs
<1>2. c \in Seq(Nat) /\ Len(c) = 1
  BY <1>1, OneWordType DEF HamsiBits
<1>3. u \in Seq(Nat)
  OBVIOUS
<1>4. Turn(8, Entry(Filled(8), u), c, cnt)
  BY DEF HamsiTurn, HamsiP
<1> HIDE DEF c, u
<1> QED BY <1>1, <1>2, <1>3, <1>4, CountTurnType DEF Lazy

LEMMA ShabalTurnType ==
  ASSUME TypeInv, ShabalCore, UNCHANGED <<chain, n>>
  PROVE  TypeInv'
<1> DEFINE c == ShabalIncrW
<1>1. alg = "shabal" /\ Turn(64, Entry(Filled(64), cnt), c, cnt)
  BY DEF ShabalCore, Common, ShabalP
<1>2. BlockLen[alg] = 64 /\ cnt \in Seq(Nat) /\ "shabal" \in Algo
  BY <1>1, BlockIs, TypeFacts
<1>3. Len(cnt) = 2
  BY <1>1, CntIs
<1>4. cnt[1] \in Nat /\ cnt[2] \in Nat
  BY <1>3, TypeFacts
<1>5. (cnt[1] + 1) % Word["shabal"] \in Nat /\ (cnt[2] + 1) % Word["shabal"] \in Nat
  BY <1>2, <1>4, AddType
<1>6. c \in Seq(Nat) /\ Len(c) = 2
  <2> DEFINE x == (cnt[1] + 1) % Word["shabal"]
             y == (cnt[2] + 1) % Word["shabal"]
  <2>1. c = <<x, IF x = 0 THEN y ELSE cnt[2]>>
    BY DEF ShabalIncrW
  <2>2. x \in Nat /\ y \in Nat
    BY <1>5
  <2> HIDE DEF c, x, y
  <2> QED BY <1>4, <2>1, <2>2
<1> HIDE DEF c
<1> QED BY <1>1, <1>2, <1>3, <1>6, CountTurnType DEF Lazy

LEMMA FastFugueTurnType ==
  ASSUME TypeInv, FugueUpdate, UNCHANGED <<chain, n>>
  PROVE  TypeInv'
<1> DEFINE c == <<cnt[1] + 32, (cnt[2] + 1) % 3>>
           u == <<cnt[2] % 3>>
<1>1. alg = "fugue" /\ fast /\ Turn(4, Entry(Filled(4), u), c, cnt)
  BY DEF FugueUpdate, Fast, FugueCompress512
<1>2. BlockLen[alg] = 4 /\ cnt \in Seq(Nat)
  BY <1>1, BlockIs, TypeFacts
<1>3. Len(cnt) = 2
  BY <1>1, CntIs
<1>4. cnt[1] \in Nat /\ cnt[2] \in Nat
  BY <1>3, TypeFacts
<1>5. c \in Seq(Nat) /\ Len(c) = 2
  BY <1>4
<1>6. u \in Seq(Nat)
  BY <1>4
<1>7. ~Lazy(alg)
  BY <1>1 DEF Lazy
<1> HIDE DEF c, u
<1> QED BY <1>1, <1>2, <1>3, <1>5, <1>6, <1>7, CountTurnType

LEMMA MdTurns ==
  ASSUME TypeInv, UNCHANGED <<chain, n>>, WhirlpoolCore \/ Sha512Core
  PROVE  TypeInv'
BY MdTurnType DEF WhirlpoolCore, Sha512Core, Portable, Common

(* The two loops that keep a full buffer.                                    *)
LEMMA NextTimes ==
  ASSUME NEW b \in Nat, NEW k \in Nat
  PROVE  b * (k + 1) = b * k + b /\ b * k \in Nat
OBVIOUS

LEMMA LazyTurnType ==
  ASSUME TypeInv, Lazy(alg), alg # "blake", ~(fast /\ alg \in {"simd", "jh"}),
         NEW b \in Nat \ {0}, b = BlockLen[alg], NEW t \in Seq(Nat),
         NEW full \in Seq(Nat), Len(full) = Len(cnt),
         LazyTurn(b, Entry(buf, t), full), UNCHANGED <<chain, n>>
  PROVE  TypeInv'
<1> DEFINE kept == IF Len(buf) = b THEN <<>> ELSE buf
           m == Lower(b - Len(kept), Len(input))
           piece == SubSeq(input, 1, m)
<1>1. buf' = kept \o piece /\ input' = Rest(m)
  BY DEF LazyTurn
<1>2. fast' = fast /\ alg' = alg /\ phase' = phase /\ fed' = fed /\ later' = later /\ chain' = chain /\ n' = n
  BY DEF LazyTurn
<1>3. Len(buf) \in Nat /\ Len(input) \in Nat /\ Len(out) \in Nat /\ Len(buf) <= b
  BY TypeFacts, BufferFits
<1>4. kept \in Seq(Int) /\ Len(kept) = (IF Len(buf) = b THEN 0 ELSE Len(buf))
  BY TypeFacts
<1>5. m \in 0..Len(input) /\ Len(kept) + m <= b
  BY <1>3, <1>4 DEF Lower
<1> HIDE DEF m, kept
<1>6. piece \in Seq(Int) /\ Len(piece) = m /\ Rest(m) \in Seq(Int) /\ Len(Rest(m)) = Len(input) - m
  BY <1>5, TypeFacts, Cut DEF Rest
<1>7. buf' \in Seq(Int) /\ Len(buf') = Len(kept) + m /\ input' \in Seq(Int) /\ Len(input') = Len(input) - m
  BY <1>1, <1>4, <1>6, CatType
<1>8. /\ out' \in Seq(Compression) /\ cnt' \in Seq(Nat) /\ Len(cnt') = Len(cnt)
      /\ Len(out') = IF Len(buf) = b THEN Len(out) + 1 ELSE Len(out)
  <2>1. CASE Len(buf) = b
    <3>1. out' = Append(out, Entry(buf, t)) /\ cnt' = full
      BY <2>1 DEF LazyTurn
    <3>2. Entry(buf, t) \in Compression /\ out \in Seq(Compression)
      BY TypeFacts, EntryType
    <3> HIDE DEF Compression
    <3> QED BY <2>1, <3>1, <3>2, AppendProperties
  <2>2. CASE Len(buf) # b
    <3>1. out' = out /\ cnt' = cnt
      BY <2>2 DEF LazyTurn
    <3> QED BY <2>2, <3>1, TypeFacts
  <2> QED BY <2>1, <2>2
<1>9. b * Len(out') + Len(buf') + Len(input') = b * Len(out) + Len(buf) + Len(input)
  <2>1. CASE Len(buf) = b
    <3> DEFINE x == b * Len(out)
    <3>1. b * (Len(out) + 1) = x + b /\ x \in Nat
      BY <1>3, NextTimes
    <3>2. Len(out') = Len(out) + 1 /\ Len(buf') = m /\ Len(input') = Len(input) - m
      BY <1>4, <1>5, <1>7, <1>8, <2>1
    <3>3. b * Len(out') = x + b
      BY <3>1, <3>2
    <3> HIDE DEF x
    <3>4. m \in Int /\ b \in Int
      BY <1>5
    <3>5. b * Len(out') + Len(buf') + Len(input') = x + Len(buf) + Len(input)
      BY <1>3, <2>1, <3>1, <3>2, <3>3, <3>4
    <3> QED BY <3>5 DEF x
  <2>2. CASE Len(buf) # b
    <3>1. Len(out') = Len(out) /\ Len(buf') = Len(buf) + m /\ Len(input') = Len(input) - m
      BY <1>4, <1>7, <1>8, <2>2
    <3>2. b * Len(out) \in Int /\ m \in Int
      BY <1>3, <1>5
    <3> QED BY <1>3, <3>1, <3>2
  <2> QED BY <2>1, <2>2
<1>10. Len(buf') < b + 1
  BY <1>4, <1>5, <1>7
<1>11. TypeOK'
  <2>1. out' \in Seq([block : Seq(Int), tweak : Seq(Nat)])
    BY <1>8 DEF Compression
  <2>2. Len(buf)' < BlockLen[alg]' + (IF Lazy(alg)' THEN 1 ELSE 0)
    BY <1>2, <1>10 DEF Lazy
  <2>3. alg \in Algo /\ fast \in BOOLEAN /\ phase \in {"open", "closing", "done"} /\ fed \in Nat
        /\ chain \in BOOLEAN /\ n \in Nat /\ later \in Seq(Int)
    BY DEF TypeInv, TypeOK
  <2> QED BY <1>2, <1>7, <1>8, <2>1, <2>2, <2>3 DEF TypeOK
<1>12. Len(cnt)' = Counters(fast, alg)'
  BY <1>2, <1>8 DEF TypeInv
<1>13. ASSUME phase' = "open" PROVE Taking'
  <2>1. Taking
    BY <1>2, <1>13 DEF TypeInv
  <2>2. later' = <<>> /\ fed' = BlockLen[alg]' * Len(out)' + Len(buf)' + Len(input)'
    BY <1>2, <1>9, <2>1 DEF Taking
  <2> QED BY <1>2, <2>2 DEF Taking
<1> QED BY <1>11, <1>12, <1>13 DEF TypeInv

LEMMA SkeinTurnType ==
  ASSUME TypeInv, SkeinCore, UNCHANGED <<chain, n>>
  PROVE  TypeInv'
<1> DEFINE c == <<cnt[1] + 1>>
           w == Word["skein"]
           u == <<(64 * (cnt[1] + 1) + 0) % w, (cnt[1] + 1) \div (w \div 64), 96 + SkeinFirst>>
<1>1. alg = "skein" /\ LazyTurn(64, Entry(buf, u), c)
  BY DEF SkeinCore, Common, SkeinUbi
<1>2. BlockLen[alg] = 64
  BY <1>1, BlockIs
<1>3. Len(cnt) = 1
  BY <1>1, CntIs
<1>4. cnt[1] \in Nat
  BY <1>3, TypeFacts
<1>5. w \in Nat \ {0} /\ w % 64 = 0
  BY BlockIs, BlockType, WordAssumption
<1>6. c \in Seq(Nat) /\ Len(c) = 1
  BY <1>4
<1>7. w \div 64 \in Nat \ {0}
  BY <1>5
<1>8. u \in Seq(Nat)
  <2>1. SkeinFirst \in Nat
    BY DEF SkeinFirst, Flag
  <2>2. (64 * (cnt[1] + 1) + 0) % w \in Nat
    <3> HIDE DEF w
    <3>1. 64 * (cnt[1] + 1) + 0 \in Int
      BY <1>4
    <3> QED BY <1>5, <3>1, ModType
  <2>3. (cnt[1] + 1) \div (w \div 64) \in Nat
    BY <1>4, <1>7, DivType
  <2> QED BY <2>1, <2>2, <2>3
<1> HIDE DEF c, u, w
<1> QED BY <1>1, <1>2, <1>3, <1>6, <1>8, LazyTurnType DEF Lazy

LEMMA FugueShiftedType ==
  ASSUME TypeInv, alg = "fugue"
  PROVE  /\ FugueShifted \in Seq(Nat) /\ Len(FugueShifted) = 2
         /\ <<cnt[2]>> \in Seq(Nat)
<1>1. Len(cnt) = 2
  BY CntIs
<1>2. cnt[1] \in Nat /\ cnt[2] \in Nat
  BY <1>1, TypeFacts
<1> QED BY <1>2 DEF FugueShifted

LEMMA FugueTurns ==
  ASSUME TypeInv, FugueCore \/ FugueNothing, UNCHANGED <<chain, n>>
  PROVE  TypeInv'
<1> DEFINE u == <<cnt[2]>>
           c == FugueShifted
<1>1. alg = "fugue" /\ ~fast /\ BlockLen[alg] = 4
  BY BlockIs DEF FugueCore, FugueNothing, Portable
<1>2. u \in Seq(Nat) /\ c \in Seq(Nat) /\ Len(c) = Len(cnt)
  BY <1>1, FugueShiftedType, CntIs
<1>3. CASE FugueCore
  <2>1. LazyTurn(4, Entry(buf, u), c)
    BY <1>3 DEF FugueCore, FugueRound
  <2> HIDE DEF u, c
  <2> QED BY <1>1, <1>2, <2>1, LazyTurnType DEF Lazy
<1>4. CASE FugueNothing
  <2>1. /\ phase = "open" /\ input = <<>> /\ Len(buf) = 4
        /\ buf' = <<>> /\ out' = Append(out, Entry(buf, u)) /\ cnt' = c
        /\ fast' = fast /\ alg' = alg /\ phase' = phase /\ fed' = fed /\ input' = input /\ later' = later
        /\ chain' = chain /\ n' = n
    BY <1>4 DEF FugueNothing, FugueRound, Closing
  <2> HIDE DEF u, c
  <2>2. Entry(buf, u) \in Compression /\ out \in Seq(Compression) /\ Len(out) \in Nat
    BY <1>2, TypeFacts, EntryType
  <2>3. out' \in Seq(Compression) /\ Len(out') = Len(out) + 1
    BY <2>1, <2>2, AppendProperties
  <2>4. Taking
    BY <2>1 DEF TypeInv
  <2>5. Len(<<>>) = 0 /\ <<>> \in Seq(Int)
    OBVIOUS
  <2>6. TypeOK'
    <3>1. out' \in Seq([block : Seq(Int), tweak : Seq(Nat)])
      BY <2>3 DEF Compression
    <3>2. alg \in Algo /\ fast \in BOOLEAN /\ phase \in {"open", "closing", "done"} /\ fed \in Nat
          /\ chain \in BOOLEAN /\ n \in Nat /\ later \in Seq(Int) /\ input \in Seq(Int)
      BY DEF TypeInv, TypeOK
    <3>3. Len(buf)' < BlockLen[alg]' + (IF Lazy(alg)' THEN 1 ELSE 0)
      BY <1>1, <2>1, <2>5 DEF Lazy
    <3>4. buf' \in Seq(Int) /\ cnt' \in Seq(Nat)
      BY <1>2, <2>1, <2>5
    <3> QED BY <2>1, <3>1, <3>2, <3>3, <3>4 DEF TypeOK
  <2>7. Len(cnt)' = Counters(fast, alg)'
    BY <1>2, <2>1 DEF TypeInv
  <2>8. Taking'
    <3>1. fed = 4 * Len(out) + 4 + 0
      BY <1>1, <2>1, <2>4, <2>5 DEF Taking
    <3>2. fed' = BlockLen[alg]' * Len(out)' + Len(buf)' + Len(input)'
      BY <1>1, <2>1, <2>2, <2>3, <2>5, <3>1
    <3> QED BY <1>1, <2>1, <2>4, <3>2 DEF Taking
  <2> QED BY <2>6, <2>7, <2>8 DEF TypeInv
<1> QED BY <1>3, <1>4

LEMMA TurnsType ==
  ASSUME TypeInv, Loop
  PROVE  TypeInv'
<1>1. UNCHANGED <<chain, n>>
  BY DEF Loop
<1>2. CASE PortableTurn
  <2>1. CASE BlakeCore
    BY <1>1, <2>1, BlakeTurnType DEF BlakeCore, Portable
  <2>2. CASE ShaviteCore
    BY <1>1, <2>2, ShaviteTurnType DEF ShaviteCore, Portable
  <2>3. CASE HamsiCore
    BY <1>1, <2>3, HamsiTurnType DEF HamsiCore, Portable
  <2> QED
    BY <1>1, <1>2, <2>1, <2>2, <2>3, PlainTurns, OneWordTurns, SkeinTurnType, SimdTurns, EchoTurns,
       FugueTurns, ShabalTurnType, MdTurns DEF PortableTurn
<1>3. CASE FastTurn
  <2>1. CASE FastBlakeCore
    BY <1>1, <2>1, BlakeTurnType DEF FastBlakeCore, Fast
  <2>2. CASE FastShaviteCore
    BY <1>1, <2>2, ShaviteTurnType DEF FastShaviteCore, Fast
  <2>3. CASE FastHamsiCore
    BY <1>1, <2>3, HamsiTurnType DEF FastHamsiCore, Fast
  <2> QED
    BY <1>1, <1>3, <2>1, <2>2, <2>3, PlainTurns, OneWordTurns, SimdTurns, EchoTurns,
       FastFugueTurnType DEF FastTurn
<1> QED BY <1>2, <1>3 DEF Loop

-----------------------------------------------------------------------------
(* Types: the close *)

LEMMA DigestType ==
  ASSUME TypeInv, NEW es \in Seq(Compression), Digest(es), UNCHANGED <<chain, n>>
  PROVE  TypeInv'
<1>1. phase' = "done" /\ out' = out \o es /\ buf' = <<>> /\ fast' = fast /\ alg' = alg /\ fed' = fed
      /\ cnt' = cnt /\ input' = input /\ later' = later
  BY DEF Digest
<1>2. out' \in Seq(Compression)
  BY <1>1, TypeFacts, ConcatProperties
<1>3. <<>> \in Seq(Int) /\ Len(<<>>) = 0
  OBVIOUS
<1>4. TypeOK'
  <2>1. out' \in Seq([block : Seq(Int), tweak : Seq(Nat)])
    BY <1>2 DEF Compression
  <2>2. alg \in Algo /\ fast \in BOOLEAN /\ fed \in Nat /\ cnt \in Seq(Nat)
        /\ chain \in BOOLEAN /\ n \in Nat /\ later \in Seq(Int) /\ input \in Seq(Int)
    BY DEF TypeInv, TypeOK
  <2>3. Len(buf)' < BlockLen[alg]' + (IF Lazy(alg)' THEN 1 ELSE 0)
    <3>1. BlockLen[alg] \in Nat \ {0}
      BY <2>2, BlockType
    <3> HIDE DEF Lazy
    <3> QED BY <1>1, <1>3, <3>1
  <2> QED BY <1>1, <1>3, <2>1, <2>2, <2>3 DEF TypeOK
<1> QED BY <1>1, <1>4 DEF TypeInv

LEMMA CallType ==
  ASSUME TypeInv, NEW d \in Seq(Int), NEW e \in Seq(Int), NEW c \in Seq(Nat), Len(c) = Len(cnt),
         Call(d, e, c), UNCHANGED <<chain, n>>
  PROVE  TypeInv'
<1>1. phase' = "closing" /\ input' = d /\ later' = e /\ cnt' = c
      /\ fast' = fast /\ alg' = alg /\ fed' = fed /\ buf' = buf /\ out' = out
  BY DEF Call
<1>2. TypeOK'
  <2>1. Len(buf)' < BlockLen[alg]' + (IF Lazy(alg)' THEN 1 ELSE 0)
    BY <1>1 DEF TypeInv, TypeOK, Lazy
  <2>2. /\ alg \in Algo /\ fast \in BOOLEAN /\ fed \in Nat /\ chain \in BOOLEAN /\ n \in Nat /\ buf \in Seq(Int)
        /\ out \in Seq([block : Seq(Int), tweak : Seq(Nat)])
    BY DEF TypeInv, TypeOK
  <2> QED BY <1>1, <2>1, <2>2 DEF TypeOK
<1> QED BY <1>1, <1>2 DEF TypeInv

(* What a close finds in the buffer.                                         *)
LEMMA ClosingFacts ==
  ASSUME TypeInv, NEW b \in Nat, b = BlockLen[alg]
  PROVE  /\ Len(buf) \in 0..b /\ buf \in Seq(Int) /\ buf \in Bytes(Len(buf))
         /\ ~Lazy(alg) => Len(buf) \in 0..(b - 1)
BY TypeFacts, BufferFits

LEMMA SpongeType ==
  ASSUME NEW b \in Nat, NEW p \in 0..(b - 1), NEW x \in Int
  PROVE  (IF p = b - 1 THEN <<Byte(x + 128)>>
          ELSE <<Byte(x)>> \o Zeros(b - 2 - p) \o <<Byte(128)>>) \in Bytes(b - p)
<1>1. CASE p = b - 1
  <2>1. <<Byte(x + 128)>> \in Bytes(1)
    BY ByteType
  <2>2. b - p = 1
    BY <1>1
  <2> QED BY <1>1, <2>1, <2>2
<1>2. CASE p # b - 1
  <2>1. b - 2 - p \in Nat
    BY <1>2
  <2>2. <<Byte(x)>> \in Bytes(1) /\ <<Byte(128)>> \in Bytes(1) /\ Zeros(b - 2 - p) \in Bytes(b - 2 - p)
    BY <2>1, ByteType, ZerosType
  <2>3. (<<Byte(x)>> \o Zeros(b - 2 - p)) \o <<Byte(128)>> \in Bytes(1 + (b - 2 - p) + 1)
    BY <2>1, <2>2, CatThree
  <2>4. 1 + (b - 2 - p) + 1 = b - p
    BY <1>2
  <2> QED BY <1>2, <2>3, <2>4
<1> QED BY <1>1, <1>2

LEMMA BytesSeq == \A k \in Int : \A s \in Bytes(k) : s \in Seq(Int)
BY DEF Bytes

LEMMA ByteSeq ==
  ASSUME NEW x \in Int
  PROVE  <<Byte(x)>> \in Seq(Int)
<1>1. <<Byte(x)>> \in Bytes(1)
  BY ByteType
<1> QED BY <1>1 DEF Bytes

LEMMA ZerosSeq ==
  ASSUME NEW k \in Int
  PROVE  Zeros(k) \in Seq(Int)
<1>1. CASE k \in Nat
  BY <1>1, ZerosType, BytesSeq
<1>2. CASE k < 0
  <2>1. 1..k = 1..0
    BY <1>2
  <2>2. Zeros(k) = Zeros(0)
    BY <2>1 DEF Zeros
  <2>3. Zeros(0) \in Seq(Int)
    BY ZerosType, BytesSeq
  <2> QED BY <2>2, <2>3
<1> QED BY <1>1, <1>2

LEMMA CatSeq == \A s, t \in Seq(Int) : s \o t \in Seq(Int)
BY CatType

LEMMA BlakeCallType ==
  ASSUME TypeInv, alg = "blake", BlakeCall, UNCHANGED <<chain, n>>
  PROVE  TypeInv'
<1> DEFINE ptr == Len(buf)
           bits == 8 * ptr
           w == Word["blake"]
<1>1. Closing
  BY DEF BlakeCall, Call
<1>2. Len(cnt) = 2 /\ BlockLen[alg] = 128 /\ w \in Nat \ {0} /\ w % 1024 = 0
  BY CntIs, BlockIs, BlockType, WordAssumption
<1>3. cnt[1] \in Nat /\ cnt[2] \in Nat
  BY <1>2, TypeFacts
<1>4. cnt[1] % 1024 = 0 /\ cnt[1] < w
  BY <1>1 DEF TypeInv, Taking, Closing
<1>5. ptr \in 0..127 /\ buf \in Seq(Int)
  <2>1. ptr < 128
    BY <1>2, BufferFits DEF Lazy
  <2>2. ptr \in Nat /\ buf \in Seq(Int)
    BY TypeFacts
  <2> HIDE DEF ptr
  <2>3. ptr \in 0..127
    BY <2>1, <2>2
  <2> QED BY <2>2, <2>3
<1>11. bits \in Nat
  BY <1>5
<1> HIDE DEF w, ptr
<1>6. w >= 1024 /\ (cnt[1] # 0 => cnt[1] >= 1024)
  BY <1>2, <1>3, <1>4
<1>7. BlakeBack(bits) \in Seq(Nat) /\ Len(BlakeBack(bits)) = 2
  <2>1. CASE bits = 0
    <3>1. BlakeBack(bits) = <<w - 1024, w - 1>>
      BY <2>1 DEF BlakeBack, BlakeBefore, w
    <3>2. w - 1024 \in Nat /\ w - 1 \in Nat
      BY <1>2, <1>6
    <3>3. <<w - 1024, w - 1>> \in Seq(Nat) /\ Len(<<w - 1024, w - 1>>) = 2
      BY <3>2, TwoType
    <3> HIDE DEF bits
    <3> QED BY <3>1, <3>3
  <2>2. CASE bits # 0 /\ cnt[1] = 0
    <3>1. BlakeBack(bits) = <<w - 1024 + bits, (cnt[2] + w - 1) % w>>
      BY <2>2 DEF BlakeBack, BlakeBefore, w
    <3>2. (cnt[2] + w - 1) % w \in Nat
      BY <1>2, <1>3, ModType
    <3>3. w - 1024 + bits \in Nat
      BY <1>2, <1>5, <1>6
    <3> DEFINE x == w - 1024 + bits
               y == (cnt[2] + w - 1) % w
    <3>4. x \in Nat /\ y \in Nat /\ BlakeBack(bits) = <<x, y>>
      BY <3>1, <3>2, <3>3
    <3> HIDE DEF x, y, bits
    <3> QED BY <3>4, TwoType
  <2>3. CASE bits # 0 /\ cnt[1] # 0
    <3>1. BlakeBack(bits) = <<cnt[1] - (1024 - bits), cnt[2]>>
      BY <2>3 DEF BlakeBack, BlakeBefore
    <3>2. cnt[1] - (1024 - bits) \in Nat
      BY <1>3, <1>5, <1>6, <2>3
    <3> DEFINE x == cnt[1] - (1024 - bits)
    <3>4. x \in Nat /\ BlakeBack(bits) = <<x, cnt[2]>>
      BY <3>1, <3>2
    <3> HIDE DEF x, bits
    <3> QED BY <1>3, <3>4, TwoType
  <2> QED BY <2>1, <2>2, <2>3
<1>8. BlakeLength(bits) \in Bytes(16)
  <2>1. cnt[1] + bits \in Nat
    BY <1>3, <1>5
  <2>2. <<cnt[1] + bits, cnt[2]>> \in Seq(Nat) /\ Len(<<cnt[1] + bits, cnt[2]>>) >= 2
    BY <1>3, <2>1
  <2> QED BY <2>2, PairType DEF BlakeLength
<1>9. CASE bits <= 894
  <2>1. ptr \in 0..111
    BY <1>5, <1>9
  <2>2. BlakePad(ptr) \in Seq(Int)
    <3>1. BlakePad(ptr) = IF ptr = 111 THEN <<Byte(129)>> ELSE <<Byte(128)>> \o Zeros(110 - ptr) \o <<Byte(1)>>
      BY DEF BlakePad
    <3>2. <<Byte(129)>> \in Seq(Int) /\ <<Byte(128)>> \in Seq(Int) /\ <<Byte(1)>> \in Seq(Int)
      BY ByteSeq
    <3>3. Zeros(110 - ptr) \in Seq(Int)
      BY <2>1, ZerosSeq
    <3>4. <<Byte(128)>> \o Zeros(110 - ptr) \in Seq(Int)
      BY <3>2, <3>3, CatSeq
    <3> QED BY <3>1, <3>2, <3>4, CatSeq
  <2>3. BlakePad(ptr) \o BlakeLength(bits) \in Seq(Int)
    BY <1>8, <2>2, BytesSeq, CatSeq
  <2>4. Call(BlakePad(ptr) \o BlakeLength(bits), <<>>, BlakeBack(bits))
    BY <1>9 DEF BlakeCall, ptr
  <2>5. <<>> \in Seq(Int)
    OBVIOUS
  <2> DEFINE d == BlakePad(ptr) \o BlakeLength(bits)
             c == BlakeBack(bits)
  <2>6. d \in Seq(Int) /\ c \in Seq(Nat) /\ Len(c) = Len(cnt) /\ Call(d, <<>>, c)
    BY <1>2, <1>7, <2>3, <2>4
  <2> HIDE DEF d, c
  <2> QED BY <1>2, <2>5, <2>6, CallType, ZenonT(60)
<1>10. CASE ~(bits <= 894)
  <2>1. ptr \in 112..127
    BY <1>5, <1>10
  <2> DEFINE d == <<Byte(128)>> \o Zeros(127 - ptr)
             e == Zeros(111) \o <<Byte(1)>> \o BlakeLength(bits)
  <2>2. <<Byte(128)>> \in Seq(Int) /\ <<Byte(1)>> \in Seq(Int)
    BY ByteSeq
  <2>6. Zeros(127 - ptr) \in Seq(Int) /\ Zeros(111) \in Seq(Int)
    BY <2>1, ZerosSeq
  <2>7. BlakeLength(bits) \in Seq(Int)
    BY <1>8, BytesSeq
  <2>3. d \in Seq(Int)
    BY <2>2, <2>6, CatSeq
  <2>4. e \in Seq(Int)
    <3>1. Zeros(111) \o <<Byte(1)>> \in Seq(Int)
      BY <2>2, <2>6, CatSeq
    <3> QED BY <2>7, <3>1, CatSeq
  <2>5. Call(d, e, BlakeBack(bits))
    BY <1>10 DEF BlakeCall, ptr
  <2> HIDE DEF bits, d, e
  <2> QED BY <1>2, <1>7, <2>3, <2>4, <2>5, CallType
<1> QED BY <1>9, <1>10

LEMMA OneSeq ==
  ASSUME NEW s \in Seq(Int)
  PROVE  s \o <<Byte(128)>> \in Seq(Int)
<1>1. <<Byte(128)>> \in Seq(Int)
  BY ByteSeq
<1> QED BY <1>1, CatSeq

LEMMA GapSeq ==
  ASSUME NEW s \in Seq(Int), NEW k \in Int
  PROVE  s \o Zeros(k) \in Seq(Int)
<1>1. Zeros(k) \in Seq(Int)
  BY ZerosSeq
<1> QED BY <1>1, CatSeq

LEMMA GapEndSeq ==
  ASSUME NEW s \in Seq(Int), NEW k \in Int, NEW e \in Seq(Int)
  PROVE  s \o Zeros(k) \o e \in Seq(Int)
<1>1. s \o Zeros(k) \in Seq(Int)
  BY GapSeq
<1> QED BY <1>1, CatSeq

LEMMA ZerosEndSeq ==
  ASSUME NEW k \in Int, NEW e \in Seq(Int)
  PROVE  Zeros(k) \o e \in Seq(Int)
<1>1. Zeros(k) \in Seq(Int)
  BY ZerosSeq
<1> QED BY <1>1, CatSeq

LEMMA EntriesType ==
  /\ <<>> \in Seq(Compression)
  /\ \A x \in Compression : <<x>> \in Seq(Compression)
  /\ \A x, y \in Compression : <<x, y>> \in Seq(Compression)
  /\ \A x, y, z \in Compression : <<x, y, z>> \in Seq(Compression)
<1> HIDE DEF Compression
<1> QED OBVIOUS

(* An entry with nothing beside the block.                                   *)
LEMMA PlainEntry ==
  ASSUME NEW s \in Seq(Int)
  PROVE  Entry(s, <<>>) \in Compression
<1>1. <<>> \in Seq(Nat)
  OBVIOUS
<1> QED BY <1>1, EntryType

LEMMA BlankPlain == Blank(<<>>) \in Compression
<1>1. <<>> \in Seq(Nat)
  OBVIOUS
<1> QED BY <1>1, BlankType

LEMMA EndSeq ==
  ASSUME NEW m \in Nat, NEW w \in Nat
  PROVE  BigEndian(m, w) \in Seq(Int) /\ LittleEndian(m, w) \in Seq(Int)
<1>1. BigEndian(m, w) \in Bytes(w) /\ LittleEndian(m, w) \in Bytes(w)
  BY EndianType
<1> QED BY <1>1 DEF Bytes

LEMMA CountType ==
  ASSUME TypeInv, NEW i \in 1..Len(cnt)
  PROVE  cnt[i] \in Nat
BY TypeFacts

LEMMA EndsType ==
  ASSUME TypeInv, UNCHANGED <<chain, n>>,
         \/ alg = "blake" /\ Called /\ Digest(<<>>)
         \/ JhEnd \/ KeccakEnd \/ GroestlEnd \/ FugueEnd
  PROVE  TypeInv'
<1>1. CASE \/ alg = "blake" /\ Called /\ Digest(<<>>)
           \/ JhEnd \/ KeccakEnd
  BY <1>1, EntriesType, DigestType DEF JhEnd, KeccakEnd
<1>2. CASE GroestlEnd
  BY <1>2, EntriesType, BlankPlain, DigestType DEF GroestlEnd, GroestlFinal
<1>3. CASE FugueEnd
  <2>1. alg = "fugue" /\ Digest(<<Blank(<<cnt[2]>>)>>)
    BY <1>3 DEF FugueEnd, FugueFinal, Portable
  <2>2. Blank(<<cnt[2]>>) \in Compression
    BY <2>1, FugueShiftedType, BlankType
  <2> QED BY <2>1, <2>2, EntriesType, DigestType
<1> QED BY <1>1, <1>2, <1>3

LEMMA BmwCloseType ==
  ASSUME TypeInv, BmwClose, UNCHANGED <<chain, n>>
  PROVE  TypeInv'
<1> DEFINE one == buf \o <<Byte(128)>>
           end == LittleEndian(cnt[1], 8)
           x == Entry(one \o Zeros(128 - Len(one)), <<>>)
           y == Entry(Zeros(120) \o end, <<>>)
           z == Entry(one \o Zeros(120 - Len(one)) \o end, <<>>)
<1>1. alg = "bmw" /\ Closing
  BY DEF BmwClose, Common
<1>2. Digest(<<x, y, Blank(<<>>)>>) \/ Digest(<<z, Blank(<<>>)>>)
  BY DEF BmwClose, BmwCompress, BmwFinal
<1>3. Len(cnt) = 1
  BY <1>1, CntIs
<1>4. end \in Seq(Int)
  BY <1>3, CountType, EndSeq
<1>5. one \in Seq(Int) /\ Len(one) \in Int
  BY TypeFacts, OneSeq, LenProperties
<1> HIDE DEF end, one
<1>8. 128 - Len(one) \in Int /\ 120 - Len(one) \in Int
  BY <1>5
<1>10. x \in Compression
  BY <1>5, <1>8, GapSeq, PlainEntry
<1>13. Zeros(120) \o end \in Seq(Int)
  BY <1>4, ZerosEndSeq
<1>11. y \in Compression
  BY <1>13, PlainEntry
<1>12. z \in Compression
  BY <1>4, <1>5, <1>8, GapEndSeq, PlainEntry
<1>6. x \in Compression /\ y \in Compression /\ z \in Compression
  BY <1>10, <1>11, <1>12
<1> HIDE DEF x, y, z
<1>7. <<x, y, Blank(<<>>)>> \in Seq(Compression) /\ <<z, Blank(<<>>)>> \in Seq(Compression)
  BY <1>6, BlankPlain, EntriesType
<1> QED BY <1>2, <1>7, DigestType

LEMMA SkeinCloseType ==
  ASSUME TypeInv, SkeinClose, UNCHANGED <<chain, n>>
  PROVE  TypeInv'
<1> DEFINE w == Word["skein"]
           u == <<(64 * cnt[1] + Len(buf)) % w, cnt[1] \div (w \div 64), 352 + SkeinFirst>>
           v == <<(64 * 0 + 8) % w, 0 \div (w \div 64), 510>>
           s == buf \o Zeros(64 - Len(buf))
           z == Zeros(64)
<1>1. alg = "skein" /\ Digest(<<Entry(s, u), Entry(z, v)>>)
  BY DEF SkeinClose, Common, SkeinUbi
<1>2. Len(cnt) = 1
  BY <1>1, CntIs
<1>3. cnt[1] \in Nat /\ buf \in Seq(Int) /\ Len(buf) \in Nat
  BY <1>2, TypeFacts
<1>4. w \in Nat \ {0} /\ w % 64 = 0
  BY BlockIs, BlockType, WordAssumption
<1>5. w \div 64 \in Nat \ {0}
  BY <1>4
<1>6. SkeinFirst \in Nat
  BY DEF SkeinFirst, Flag
<1> HIDE DEF w
<1>7. (64 * cnt[1] + Len(buf)) % w \in Nat
  <2>1. 64 * cnt[1] + Len(buf) \in Int
    BY <1>3
  <2> QED BY <1>4, <2>1, ModType
<1>8. (64 * 0 + 8) % w \in Nat
  BY <1>4, ModType
<1>9. cnt[1] \div (w \div 64) \in Nat
  BY <1>3, <1>5, DivType
<1>10. 0 \div (w \div 64) \in Nat
  BY <1>5, DivType
<1>11. u \in Seq(Nat)
  BY <1>6, <1>7, <1>9
<1>12. v \in Seq(Nat)
  BY <1>8, <1>10
<1>13. s \in Seq(Int)
  <2>1. 64 - Len(buf) \in Int
    BY <1>3
  <2> QED BY <1>3, <2>1, GapSeq
<1>14. z \in Seq(Int)
  BY ZerosSeq
<1> HIDE DEF u, v, s, z
<1>15. Entry(s, u) \in Compression /\ Entry(z, v) \in Compression
  BY <1>11, <1>12, <1>13, <1>14, EntryType
<1>16. <<Entry(s, u), Entry(z, v)>> \in Seq(Compression)
  BY <1>15, EntriesType
<1> QED BY <1>1, <1>16, DigestType

LEMMA LuffaCloseType ==
  ASSUME TypeInv, LuffaClose \/ LuffaFinal, UNCHANGED <<chain, n>>
  PROVE  TypeInv'
<1> DEFINE one == buf \o <<Byte(128)>>
           x == Entry(one \o Zeros(32 - Len(one)), <<>>)
           s == IF buf # <<>> THEN buf \o LuffaHalf ELSE LuffaHalf \o Zeros(16)
           z == Entry(<<>>, <<>>)
<1>1. buf \in Seq(Int) /\ <<>> \in Seq(Int)
  BY TypeFacts
<1>2. one \in Seq(Int) /\ Len(one) \in Int
  BY <1>1, OneSeq, LenProperties
<1>3. z \in Compression
  BY <1>1, PlainEntry
<1>4. CASE LuffaClose
  <2>1. Digest(<<x, z, z>>)
    BY <1>4 DEF LuffaClose, LuffaP5
  <2>2. 32 - Len(one) \in Int
    BY <1>2
  <2> HIDE DEF one, z
  <2>3. x \in Compression
    BY <1>2, <2>2, GapSeq, PlainEntry
  <2> HIDE DEF x
  <2>4. <<x, z, z>> \in Seq(Compression)
    BY <1>3, <2>3, EntriesType
  <2> QED BY <2>1, <2>4, DigestType
<1>5. CASE LuffaFinal
  <2>1. Digest(<<Entry(s, <<>>)>> \o <<z, z>>)
    BY <1>5 DEF LuffaFinal, LuffaBlanks, LuffaRnd512, LuffaP5
  <2>2. <<Byte(128)>> \in Seq(Int)
    BY ByteSeq
  <2>3. LuffaHalf \in Seq(Int)
    <3>1. Zeros(15) \in Seq(Int)
      BY ZerosSeq
    <3>2. <<Byte(128)>> \o Zeros(15) \in Seq(Int)
      BY <2>2, <3>1, CatSeq
    <3> QED BY <3>2 DEF LuffaHalf
  <2>4. LuffaHalf \o Zeros(16) \in Seq(Int)
    BY <2>3, GapSeq
  <2>5. s \in Seq(Int)
    BY <1>1, <2>3, <2>4, CatSeq
  <2> HIDE DEF s, z
  <2>6. Entry(s, <<>>) \in Compression
    BY <2>5, PlainEntry
  <2>7. <<Entry(s, <<>>)>> \in Seq(Compression) /\ <<z, z>> \in Seq(Compression)
    BY <1>3, <2>6, EntriesType
  <2>8. <<Entry(s, <<>>)>> \o <<z, z>> \in Seq(Compression)
    BY <2>7, ConcatProperties
  <2> QED BY <2>1, <2>8, DigestType
<1> QED BY <1>4, <1>5

LEMMA CubehashCloseType ==
  ASSUME TypeInv, CubehashClose \/ CubehashDigest, UNCHANGED <<chain, n>>
  PROVE  TypeInv'
<1> DEFINE one == buf \o <<Byte(128)>>
           x == Entry(one \o Zeros(32 - Len(one)), <<>>)
           pos == Len(buf) \div 16
           s == SubSeq(buf, 1, 16 * pos) \o <<Byte(128)>> \o Zeros(31 - 16 * pos)
           z == [i \in 1..10 |-> CubehashFinal(i)]
<1>1. buf \in Seq(Int) /\ Len(buf) \in Nat
  BY TypeFacts
<1>2. one \in Seq(Int) /\ Len(one) \in Int
  BY <1>1, OneSeq, LenProperties
<1>3. z \in Seq(Compression)
  <2>1. \A i \in 1..10 : <<Flag(i = 1)>> \in Seq(Nat)
    BY DEF Flag
  <2>2. \A i \in 1..10 : CubehashFinal(i) \in Compression
    BY <2>1, BlankType DEF CubehashFinal
  <2> HIDE DEF Compression
  <2> QED BY <2>2
<1>4. CASE CubehashClose
  <2>1. Digest(<<x>> \o z)
    BY <1>4 DEF CubehashClose, CubehashRounds
  <2>2. 32 - Len(one) \in Int
    BY <1>2
  <2> HIDE DEF one, z
  <2>3. x \in Compression
    BY <1>2, <2>2, GapSeq, PlainEntry
  <2> HIDE DEF x
  <2>4. <<x>> \in Seq(Compression)
    BY <2>3, EntriesType
  <2>5. <<x>> \o z \in Seq(Compression)
    BY <1>3, <2>4, ConcatProperties
  <2> QED BY <2>1, <2>5, DigestType
<1>5. CASE CubehashDigest
  <2>1. Digest(<<Entry(s, <<>>)>> \o z)
    BY <1>5 DEF CubehashDigest, CubehashTransform, CubehashRounds
  <2>2. 16 * pos \in 0..Len(buf)
    BY <1>1
  <2> HIDE DEF pos, z
  <2>3. SubSeq(buf, 1, 16 * pos) \in Seq(Int)
    BY <1>1, <2>2, Cut
  <2>4. SubSeq(buf, 1, 16 * pos) \o <<Byte(128)>> \in Seq(Int)
    BY <2>3, OneSeq
  <2>5. 31 - 16 * pos \in Int
    BY <2>2
  <2>6. s \in Seq(Int)
    BY <2>4, <2>5, GapSeq
  <2> HIDE DEF s
  <2>7. Entry(s, <<>>) \in Compression
    BY <2>6, PlainEntry
  <2>8. <<Entry(s, <<>>)>> \in Seq(Compression)
    BY <2>7, EntriesType
  <2>9. <<Entry(s, <<>>)>> \o z \in Seq(Compression)
    BY <1>3, <2>8, ConcatProperties
  <2> QED BY <2>1, <2>9, DigestType
<1> QED BY <1>4, <1>5

LEMMA LittleFourSeq ==
  ASSUME NEW c \in Seq(Nat), Len(c) = 4
  PROVE  LittleFour(c) \in Seq(Int)
BY FourType DEF Bytes

LEMMA BigPairSeq ==
  ASSUME NEW x \in Nat, NEW y \in Nat
  PROVE  BigPair(<<x, y>>) \in Seq(Int)
<1> DEFINE c == <<x, y>>
<1>1. c \in Seq(Nat) /\ Len(c) = 2
  BY TwoType
<1> HIDE DEF c
<1>2. Len(c) >= 2
  BY <1>1
<1>3. BigPair(c) \in Bytes(16)
  BY <1>1, <1>2, PairType
<1>4. BigPair(c) \in Seq(Int)
  BY <1>3 DEF Bytes
<1> QED BY <1>4 DEF c

LEMMA SeqOf ==
  ASSUME NEW k \in Nat, NEW c \in [1..k -> Nat]
  PROVE  c \in Seq(Nat) /\ Len(c) = k
OBVIOUS

LEMMA FourZeros == <<0, 0, 0, 0>> \in Seq(Nat) /\ Len(<<0, 0, 0, 0>>) = 4
OBVIOUS

LEMMA ShavitePaddedType ==
  ASSUME TypeInv, alg = "shavite"
  PROVE  ShavitePadded \in Seq(Compression)
<1> DEFINE ptr == Len(buf)
           count == [cnt EXCEPT ![1] = (@ + 8 * ptr) % Word["shavite"]]
           end == LittleFour(count) \o LittleEndian(512, 2)
           one == buf \o <<Byte(128)>>
           x == Entry(one \o Zeros(109) \o end, ShaviteInit)
           y == Entry(one \o Zeros(109 - ptr) \o end, count)
           z == Entry(one \o Zeros(127 - ptr), count)
           u == Entry(Zeros(110) \o end, ShaviteInit)
<1>1. ShavitePadded \in {<<x>>, <<y>>, <<z, u>>}
  BY DEF ShavitePadded, ShaviteC512
<1>2. Len(cnt) = 4 /\ cnt \in Seq(Nat) /\ cnt[1] \in Nat
  <2>1. Len(cnt) = 4
    BY CntIs
  <2> QED BY <2>1, TypeFacts
<1>3. ptr \in Nat /\ buf \in Seq(Int)
  BY TypeFacts
<1>4. count \in Seq(Nat) /\ Len(count) = 4
  <2> DEFINE v == (cnt[1] + 8 * ptr) % Word["shavite"]
  <2>1. v \in Nat
    BY <1>2, <1>3, BlockIs, AddType
  <2>2. count = [cnt EXCEPT ![1] = v]
    OBVIOUS
  <2>3. cnt \in [1..4 -> Nat]
    BY <1>2, LenProperties
  <2> HIDE DEF v, count
  <2>4. count \in [1..4 -> Nat]
    BY <2>1, <2>2, <2>3
  <2> QED BY <2>4, SeqOf
<1> HIDE DEF count
<1>5. end \in Seq(Int)
  <2>1. LittleFour(count) \in Seq(Int)
    BY <1>4, LittleFourSeq
  <2>2. LittleEndian(512, 2) \in Seq(Int)
    BY EndSeq
  <2> QED BY <2>1, <2>2, CatSeq
<1>6. one \in Seq(Int)
  BY <1>3, OneSeq
<1>7. ShaviteInit \in Seq(Nat)
  BY FourZeros DEF ShaviteInit
<1> HIDE DEF end, one
<1>8. one \o Zeros(109) \o end \in Seq(Int)
  BY <1>5, <1>6, GapEndSeq
<1>9. one \o Zeros(109 - ptr) \o end \in Seq(Int)
  <2>1. 109 - ptr \in Int
    BY <1>3
  <2> QED BY <1>5, <1>6, <2>1, GapEndSeq
<1>10. one \o Zeros(127 - ptr) \in Seq(Int)
  <2>1. 127 - ptr \in Int
    BY <1>3
  <2> QED BY <1>6, <2>1, GapSeq
<1>11. Zeros(110) \o end \in Seq(Int)
  BY <1>5, ZerosEndSeq
<1>12. x \in Compression
  BY <1>7, <1>8, EntryType
<1>13. y \in Compression
  BY <1>4, <1>9, EntryType
<1>14. z \in Compression
  BY <1>4, <1>10, EntryType
<1>15. u \in Compression
  BY <1>7, <1>11, EntryType
<1> HIDE DEF x, y, z, u
<1> QED BY <1>1, <1>12, <1>13, <1>14, <1>15, EntriesType

LEMMA SimdCloseType ==
  ASSUME TypeInv, SimdClose, UNCHANGED <<chain, n>>
  PROVE  TypeInv'
<1> DEFINE ptr == Len(buf)
           w == Word["simd"]
           x == Entry(buf \o Zeros(128 - ptr), <<Flag(FALSE)>>)
           y == Entry(SimdCount(ptr), <<Flag(TRUE)>>)
           rest == IF ptr > 0 THEN <<x>> ELSE <<>>
<1>1. alg = "simd" /\ ~fast /\ Digest(rest \o <<y>>)
  BY DEF SimdClose, SimdCompress, Portable
<1>2. cnt[1] \in Nat /\ cnt[2] \in Nat
  <2>1. Len(cnt) = 2
    BY <1>1, CntIs
  <2> QED BY <2>1, TypeFacts
<1>3. ptr \in Nat /\ buf \in Seq(Int)
  BY TypeFacts
<1>4. w \in Nat \ {0} /\ w % 1024 = 0
  BY BlockIs, BlockType, WordAssumption
<1> DEFINE low == (1024 * cnt[1]) % w
           high == ((1024 * cnt[2]) % w) + low \div (w \div 1024)
<1>5. SimdCount(ptr) = LittleEndian(low + 8 * ptr, 4) \o LittleEndian(high, 4) \o Zeros(120)
  BY DEF SimdCount
<1> HIDE DEF w, ptr
<1>6. low \in Nat
  BY <1>2, <1>4, ModType
<1>7. (1024 * cnt[2]) % w \in Nat
  BY <1>2, <1>4, ModType
<1>8. w \div 1024 \in Nat \ {0}
  BY <1>4
<1> HIDE DEF low
<1>9. low \div (w \div 1024) \in Nat
  BY <1>6, <1>8, DivType
<1>10. high \in Nat
  BY <1>7, <1>9
<1>11. low + 8 * ptr \in Nat
  BY <1>3, <1>6
<1> HIDE DEF high
<1>12. SimdCount(ptr) \in Seq(Int)
  <2>1. LittleEndian(low + 8 * ptr, 4) \in Seq(Int)
    BY <1>11, EndSeq
  <2>2. LittleEndian(high, 4) \in Seq(Int)
    BY <1>10, EndSeq
  <2>3. LittleEndian(low + 8 * ptr, 4) \o LittleEndian(high, 4) \in Seq(Int)
    BY <2>1, <2>2, CatSeq
  <2>4. LittleEndian(low + 8 * ptr, 4) \o LittleEndian(high, 4) \o Zeros(120) \in Seq(Int)
    BY <2>3, GapSeq
  <2> QED BY <1>5, <2>4
<1>13. <<Flag(FALSE)>> \in Seq(Nat) /\ <<Flag(TRUE)>> \in Seq(Nat)
  BY DEF Flag
<1>14. buf \o Zeros(128 - ptr) \in Seq(Int)
  <2>1. 128 - ptr \in Int
    BY <1>3
  <2> QED BY <1>3, <2>1, GapSeq
<1>15. x \in Compression
  BY <1>13, <1>14, EntryType
<1>16. y \in Compression
  BY <1>12, <1>13, EntryType
<1> HIDE DEF x, y
<1>17. rest \in Seq(Compression) /\ <<y>> \in Seq(Compression)
  BY <1>15, <1>16, EntriesType
<1> HIDE DEF rest
<1>18. rest \o <<y>> \in Seq(Compression)
  BY <1>17, ConcatProperties
<1> QED BY <1>1, <1>18, DigestType

LEMMA EchoCloseType ==
  ASSUME TypeInv, EchoClose, UNCHANGED <<chain, n>>
  PROVE  TypeInv'
<1> DEFINE c == EchoAdded(8 * Len(buf))
           end == LittleEndian(512, 2) \o LittleFour(c)
           one == buf \o <<Byte(128)>>
           x == Entry(one \o Zeros(128 - Len(one)), c)
           y == Entry(Zeros(110) \o end, EchoInit)
           z == Entry(one \o Zeros(110 - Len(one)) \o end, IF 8 * Len(buf) = 0 THEN EchoInit ELSE c)
<1>1. alg = "echo" /\ ~fast /\ (Digest(<<x, y>>) \/ Digest(<<z>>))
  BY DEF EchoClose, EchoCompress, Portable
<1>2. buf \in Seq(Int) /\ Len(buf) \in Nat
  BY TypeFacts
<1>3. c \in Seq(Nat) /\ Len(c) = 4
  <2>1. 8 * Len(buf) \in Nat
    BY <1>2
  <2> QED BY <1>1, <2>1, EchoAddedType
<1> HIDE DEF c
<1>4. end \in Seq(Int)
  <2>1. LittleFour(c) \in Seq(Int)
    BY <1>3, LittleFourSeq
  <2>2. LittleEndian(512, 2) \in Seq(Int)
    BY EndSeq
  <2> QED BY <2>1, <2>2, CatSeq
<1>5. one \in Seq(Int) /\ Len(one) \in Int
  BY <1>2, OneSeq, LenProperties
<1>6. EchoInit \in Seq(Nat)
  BY FourZeros DEF EchoInit
<1> HIDE DEF end, one
<1>7. 128 - Len(one) \in Int /\ 110 - Len(one) \in Int
  BY <1>5
<1>8. one \o Zeros(128 - Len(one)) \in Seq(Int)
  BY <1>5, <1>7, GapSeq
<1>9. one \o Zeros(110 - Len(one)) \o end \in Seq(Int)
  BY <1>4, <1>5, <1>7, GapEndSeq
<1>10. Zeros(110) \o end \in Seq(Int)
  BY <1>4, ZerosEndSeq
<1>11. x \in Compression
  BY <1>3, <1>8, EntryType
<1>12. y \in Compression
  BY <1>6, <1>10, EntryType
<1>13. z \in Compression
  BY <1>3, <1>6, <1>9, EntryType
<1> HIDE DEF x, y, z
<1>14. <<x, y>> \in Seq(Compression) /\ <<z>> \in Seq(Compression)
  BY <1>11, <1>12, <1>13, EntriesType
<1> QED BY <1>1, <1>14, DigestType

LEMMA EchoWordsType ==
  ASSUME NEW k \in Nat
  PROVE  EchoWords(k) \in Seq(Nat) /\ Len(EchoWords(k)) = 4
<1>1. Word["echo"] \in Nat \ {0}
  BY BlockIs, BlockType
<1>6. InWords(k, Word["echo"], 2) \in Seq(Nat)
  BY <1>1, InWordsType
<1>7. Len(InWords(k, Word["echo"], 2)) = 2
  BY DEF InWords
<1>2. InWords(k, Word["echo"], 2) \in Seq(Nat) /\ Len(InWords(k, Word["echo"], 2)) = 2
  BY <1>6, <1>7
<1>3. <<0, 0>> \in Seq(Nat) /\ Len(<<0, 0>>) = 2
  OBVIOUS
<1> DEFINE s == InWords(k, Word["echo"], 2)
           t == <<0, 0>>
<1> HIDE DEF s, t
<1>4. s \in Seq(Nat) /\ t \in Seq(Nat) /\ Len(s) = 2 /\ Len(t) = 2 /\ EchoWords(k) = s \o t
  BY <1>2, <1>3 DEF EchoWords, s, t
<1>5. s \o t \in Seq(Nat) /\ Len(s \o t) = Len(s) + Len(t)
  BY <1>4, ConcatProperties
<1> QED BY <1>4, <1>5

LEMMA EchoFinalType ==
  ASSUME TypeInv, EchoFinal, UNCHANGED <<chain, n>>
  PROVE  TypeInv'
<1> DEFINE bits == 8 * Len(buf)
           c == EchoWords(cnt[1] + bits)
           k == EchoWords(cnt[2] + bits)
           o == EchoWords(0)
           end == LittleEndian(512, 2) \o LittleFour(c)
           one == buf \o <<Byte(128)>>
           x == Entry(one \o Zeros(128 - Len(one)), k)
           y == Entry(Zeros(110) \o end, o)
           v == EchoWords(IF Len(one) = 1 THEN 0 ELSE cnt[2] + bits)
           z == Entry(one \o Zeros(110 - Len(one)) \o end, v)
<1>1. alg = "echo" /\ fast /\ (Digest(<<x, y>>) \/ Digest(<<z>>))
  BY DEF EchoFinal, EchoCompressOne, EchoCompress, Fast
<1>2. buf \in Seq(Int) /\ Len(buf) \in Nat
  BY TypeFacts
<1>15. cnt[1] \in Nat /\ cnt[2] \in Nat
  <2>1. Len(cnt) = 2
    BY <1>1, CntIs
  <2> QED BY <2>1, TypeFacts
<1>16. cnt[1] + bits \in Nat /\ cnt[2] + bits \in Nat
  BY <1>2, <1>15
<1>3. c \in Seq(Nat) /\ Len(c) = 4
  BY <1>16, EchoWordsType
<1>6. k \in Seq(Nat)
  BY <1>16, EchoWordsType
<1>17. o \in Seq(Nat)
  BY EchoWordsType
<1> HIDE DEF bits
<1>18. v \in Seq(Nat)
  BY <1>6, <1>17
<1> HIDE DEF c, k, o
<1>4. end \in Seq(Int)
  <2>1. LittleFour(c) \in Seq(Int)
    BY <1>3, LittleFourSeq
  <2>2. LittleEndian(512, 2) \in Seq(Int)
    BY EndSeq
  <2> QED BY <2>1, <2>2, CatSeq
<1>5. one \in Seq(Int) /\ Len(one) \in Int
  BY <1>2, OneSeq, LenProperties
<1> HIDE DEF end, one, v
<1>7. 128 - Len(one) \in Int /\ 110 - Len(one) \in Int
  BY <1>5
<1>8. one \o Zeros(128 - Len(one)) \in Seq(Int)
  BY <1>5, <1>7, GapSeq
<1>9. one \o Zeros(110 - Len(one)) \o end \in Seq(Int)
  BY <1>4, <1>5, <1>7, GapEndSeq
<1>10. Zeros(110) \o end \in Seq(Int)
  BY <1>4, ZerosEndSeq
<1>11. x \in Compression
  BY <1>6, <1>8, EntryType
<1>12. y \in Compression
  BY <1>17, <1>10, EntryType
<1>13. z \in Compression
  BY <1>18, <1>9, EntryType
<1> HIDE DEF x, y, z
<1>14. <<x, y>> \in Seq(Compression) /\ <<z>> \in Seq(Compression)
  BY <1>11, <1>12, <1>13, EntriesType
<1> QED BY <1>1, <1>14, DigestType

LEMMA HamsiCloseType ==
  ASSUME TypeInv, alg = "hamsi", Digest(HamsiPadded), UNCHANGED <<chain, n>>
  PROVE  TypeInv'
<1> DEFINE s == buf \o <<Byte(128)>> \o Zeros(7 - Len(buf))
           l == BigEndian(HamsiBits(8 * Len(buf)), 8)
<1>1. HamsiPadded = <<Entry(s, <<0>>), Entry(l, <<1>>)>>
  BY DEF HamsiPadded, HamsiP, HamsiFinal
<1>2. buf \in Seq(Int) /\ Len(buf) \in Nat
  BY TypeFacts
<1>3. cnt[1] \in Nat
  <2>1. Len(cnt) = 1
    BY CntIs
  <2> QED BY <2>1, TypeFacts
<1>4. HamsiBits(8 * Len(buf)) \in Nat
  BY <1>2, <1>3, BlockIs, AddType DEF HamsiBits
<1>5. l \in Seq(Int)
  BY <1>4, EndSeq
<1>6. s \in Seq(Int)
  <2>1. buf \o <<Byte(128)>> \in Seq(Int)
    BY <1>2, OneSeq
  <2>2. 7 - Len(buf) \in Int
    BY <1>2
  <2> QED BY <2>1, <2>2, GapSeq
<1> HIDE DEF s, l
<1>7. <<0>> \in Seq(Nat) /\ <<1>> \in Seq(Nat)
  OBVIOUS
<1>8. Entry(s, <<0>>) \in Compression /\ Entry(l, <<1>>) \in Compression
  BY <1>5, <1>6, <1>7, EntryType
<1>9. HamsiPadded \in Seq(Compression)
  BY <1>1, <1>8, EntriesType
<1> QED BY <1>9, DigestType

LEMMA ShabalCloseType ==
  ASSUME TypeInv, ShabalClose, UNCHANGED <<chain, n>>
  PROVE  TypeInv'
<1> DEFINE s == buf \o <<Byte(128)>> \o Zeros(63 - Len(buf))
           x == Entry(s, cnt)
           y == Entry(<<>>, cnt)
           z == [i \in 1..3 |-> y]
<1>1. Digest(<<x>> \o z)
  BY DEF ShabalClose, ShabalP
<1>2. buf \in Seq(Int) /\ Len(buf) \in Nat /\ cnt \in Seq(Nat) /\ <<>> \in Seq(Int)
  BY TypeFacts
<1>6. s \in Seq(Int)
  <2>1. buf \o <<Byte(128)>> \in Seq(Int)
    BY <1>2, OneSeq
  <2>2. 63 - Len(buf) \in Int
    BY <1>2
  <2> QED BY <2>1, <2>2, GapSeq
<1> HIDE DEF s
<1>7. x \in Compression /\ y \in Compression
  BY <1>2, <1>6, EntryType
<1> HIDE DEF x, y
<1>8. z \in Seq(Compression)
  <2> HIDE DEF Compression
  <2> QED BY <1>7
<1> HIDE DEF z
<1>9. <<x>> \in Seq(Compression)
  BY <1>7, EntriesType
<1>10. <<x>> \o z \in Seq(Compression)
  BY <1>8, <1>9, ConcatProperties
<1> QED BY <1>1, <1>10, DigestType

LEMMA MdCloseType ==
  ASSUME TypeInv, NEW a \in {"whirlpool", "sha512"}, alg = a, NEW k \in Nat, MdClose(a, k), UNCHANGED <<chain, n>>
  PROVE  TypeInv'
<1> DEFINE b == BlockLen[a]
           w == Word[a]
           low == (8 * cnt[1]) % w
           high == cnt[1] \div (w \div 8)
           end == Zeros(k - 16) \o BigPair(<<low, high>>)
           one == buf \o <<Byte(128)>>
           x == Entry(one \o Zeros(b - Len(one)), <<>>)
           y == Entry(Zeros(b - k) \o end, <<>>)
           z == Entry(one \o Zeros(b - k - Len(one)) \o end, <<>>)
<1>1. Digest(<<x, y>>) \/ Digest(<<z>>)
  BY DEF MdClose, MdRound
<1>2. buf \in Seq(Int) /\ Len(buf) \in Nat
  BY TypeFacts
<1>3. cnt[1] \in Nat
  <2>1. Len(cnt) = 1
    BY CntIs
  <2> QED BY <2>1, TypeFacts
<1>4. a \in Algo /\ w \in Nat \ {0} /\ w % 8 = 0
  BY BlockIs, BlockType, WordAssumption
<1>5. b \in Nat
  BY <1>4, BlockType
<1> HIDE DEF b, w
<1>6. w \div 8 \in Nat \ {0}
  BY <1>4
<1>7. low \in Nat
  <2>1. 8 * cnt[1] \in Int
    BY <1>3
  <2> QED BY <1>4, <2>1, ModType
<1>8. high \in Nat
  BY <1>3, <1>6, DivType
<1> HIDE DEF low, high
<1>9. BigPair(<<low, high>>) \in Seq(Int)
  BY <1>7, <1>8, BigPairSeq
<1>10. end \in Seq(Int)
  <2>1. k - 16 \in Int
    OBVIOUS
  <2> QED BY <1>9, <2>1, ZerosEndSeq
<1>11. one \in Seq(Int) /\ Len(one) \in Int
  BY <1>2, OneSeq, LenProperties
<1> HIDE DEF end, one
<1>12. b - Len(one) \in Int /\ b - k \in Int /\ b - k - Len(one) \in Int
  BY <1>5, <1>11
<1>13. one \o Zeros(b - Len(one)) \in Seq(Int)
  BY <1>11, <1>12, GapSeq
<1>14. one \o Zeros(b - k - Len(one)) \o end \in Seq(Int)
  BY <1>10, <1>11, <1>12, GapEndSeq
<1>15. Zeros(b - k) \o end \in Seq(Int)
  BY <1>10, <1>12, ZerosEndSeq
<1>16. x \in Compression
  BY <1>13, PlainEntry
<1>17. y \in Compression
  BY <1>15, PlainEntry
<1>18. z \in Compression
  BY <1>14, PlainEntry
<1> HIDE DEF x, y, z
<1>19. <<x, y>> \in Seq(Compression) /\ <<z>> \in Seq(Compression)
  BY <1>16, <1>17, <1>18, EntriesType
<1> QED BY <1>1, <1>19, DigestType

LEMMA Sha3FinalType ==
  ASSUME TypeInv, Sha3Final, UNCHANGED <<chain, n>>
  PROVE  TypeInv'
<1> DEFINE s == IF Len(buf) = 135 THEN buf \o <<Byte(134)>>
                ELSE buf \o <<Byte(6)>> \o Zeros(134 - Len(buf)) \o <<Byte(128)>>
<1>1. Digest(<<Entry(s, <<>>)>>)
  BY DEF Sha3Final, Sha3Process
<1>2. buf \in Seq(Int) /\ Len(buf) \in Nat
  BY TypeFacts
<1>3. <<Byte(134)>> \in Seq(Int) /\ <<Byte(6)>> \in Seq(Int) /\ <<Byte(128)>> \in Seq(Int)
  BY ByteSeq
<1>4. buf \o <<Byte(134)>> \in Seq(Int) /\ buf \o <<Byte(6)>> \in Seq(Int)
  BY <1>2, <1>3, CatSeq
<1>5. 134 - Len(buf) \in Int
  BY <1>2
<1>6. buf \o <<Byte(6)>> \o Zeros(134 - Len(buf)) \o <<Byte(128)>> \in Seq(Int)
  BY <1>3, <1>4, <1>5, GapEndSeq
<1>7. s \in Seq(Int)
  BY <1>4, <1>6
<1> HIDE DEF s
<1>8. <<Entry(s, <<>>)>> \in Seq(Compression)
  BY <1>7, PlainEntry, EntriesType
<1> QED BY <1>1, <1>8, DigestType

LEMMA SpongeSeq ==
  ASSUME NEW b \in Nat, NEW p \in 0..(b - 1), NEW x \in Int
  PROVE  (IF p = b - 1 THEN <<Byte(x + 128)>>
          ELSE <<Byte(x)>> \o Zeros(b - 2 - p) \o <<Byte(128)>>) \in Seq(Int)
BY SpongeType DEF Bytes

LEMMA KeccakCloseType ==
  ASSUME TypeInv, KeccakClose, UNCHANGED <<chain, n>>
  PROVE  TypeInv'
<1> DEFINE p == Len(buf)
           s == IF p = 71 THEN <<Byte(129)>> ELSE <<Byte(1)>> \o Zeros(70 - p) \o <<Byte(128)>>
<1>1. alg = "keccak" /\ Call(s, <<>>, cnt)
  BY DEF KeccakClose, Common
<1>2. p \in 0..71
  <2>1. p \in Nat
    BY TypeFacts
  <2>2. p < 72
    BY <1>1, BlockIs, BufferFits DEF Lazy
  <2> HIDE DEF p
  <2> QED BY <2>1, <2>2
<1> HIDE DEF p
<1>3. <<Byte(129)>> \in Seq(Int) /\ <<Byte(1)>> \in Seq(Int) /\ <<Byte(128)>> \in Seq(Int)
  BY ByteSeq
<1>4. 70 - p \in Int
  BY <1>2
<1>5. <<Byte(1)>> \o Zeros(70 - p) \o <<Byte(128)>> \in Seq(Int)
  BY <1>3, <1>4, GapEndSeq
<1>6. s \in Seq(Int)
  BY <1>3, <1>5
<1> HIDE DEF s
<1>7. <<>> \in Seq(Int) /\ cnt \in Seq(Nat)
  BY TypeFacts
<1> QED BY <1>1, <1>6, <1>7, CallType

LEMMA GroestlCloseType ==
  ASSUME TypeInv, GroestlClose, UNCHANGED <<chain, n>>
  PROVE  TypeInv'
<1> DEFINE p == Len(buf)
           blocks == IF p < 120 THEN 1 ELSE 2
           l == BigEndian((cnt[1] + blocks) % Word["groestl"], 8)
           s == <<Byte(128)>> \o Zeros((128 * blocks - p) - 9) \o l
<1>1. alg = "groestl" /\ Call(s, <<>>, cnt)
  BY DEF GroestlClose, Portable, GroestlCount
<1>2. p \in Nat
  BY TypeFacts
<1>3. cnt[1] \in Nat
  <2>1. Len(cnt) = 1
    BY <1>1, CntIs
  <2> QED BY <2>1, TypeFacts
<1> HIDE DEF p
<1>8. blocks \in Nat
  OBVIOUS
<1> HIDE DEF blocks
<1>9. (cnt[1] + blocks) % Word["groestl"] \in Nat
  BY <1>3, <1>8, BlockIs, AddType
<1>10. l \in Seq(Int)
  BY <1>9, EndSeq
<1> HIDE DEF l
<1>4. (128 * blocks - p) - 9 \in Int
  BY <1>2, <1>8
<1>5. <<Byte(128)>> \in Seq(Int)
  BY ByteSeq
<1>6. s \in Seq(Int)
  BY <1>4, <1>5, <1>10, GapEndSeq
<1> HIDE DEF s
<1>7. <<>> \in Seq(Int) /\ cnt \in Seq(Nat)
  BY TypeFacts
<1> QED BY <1>1, <1>6, <1>7, CallType

LEMMA JhCloseType ==
  ASSUME TypeInv, JhClose, UNCHANGED <<chain, n>>
  PROVE  TypeInv'
<1> DEFINE p == Len(buf)
           numz == IF p = 0 THEN 47 ELSE 111 - p
           w == Word["jh"]
           l0 == ((512 * cnt[1]) % w) + 8 * p
           l1 == cnt[1] \div (w \div 512)
           l == BigPair(<<l0, l1>>)
           s == <<Byte(128)>> \o Zeros(numz) \o l
<1>1. alg = "jh" /\ Call(s, <<>>, cnt)
  BY DEF JhClose, Portable
<1>2. p \in Nat
  BY TypeFacts
<1>3. cnt[1] \in Nat
  <2>1. Len(cnt) = 1
    BY <1>1, CntIs
  <2> QED BY <2>1, TypeFacts
<1>4. w \in Nat \ {0} /\ w % 512 = 0
  BY BlockIs, BlockType, WordAssumption
<1> HIDE DEF p, w
<1>8. numz \in Int
  BY <1>2
<1>9. (512 * cnt[1]) % w \in Nat
  BY <1>3, <1>4, ModType
<1>10. l0 \in Nat
  BY <1>2, <1>9
<1>11. w \div 512 \in Nat \ {0}
  BY <1>4
<1>12. l1 \in Nat
  BY <1>3, <1>11, DivType
<1> HIDE DEF l0, l1, numz
<1>13. l \in Seq(Int)
  BY <1>10, <1>12, BigPairSeq
<1> HIDE DEF l
<1>5. <<Byte(128)>> \in Seq(Int)
  BY ByteSeq
<1>6. s \in Seq(Int)
  BY <1>5, <1>8, <1>13, GapEndSeq
<1> HIDE DEF s
<1>7. <<>> \in Seq(Int) /\ cnt \in Seq(Nat)
  BY TypeFacts
<1> QED BY <1>1, <1>6, <1>7, CallType

LEMMA FugueCloseType ==
  ASSUME TypeInv, FugueClose, UNCHANGED <<chain, n>>
  PROVE  TypeInv'
<1> DEFINE p == Len(buf)
           z == IF p = 0 THEN <<>> ELSE Zeros(4 - p)
           u == [i \in 1..4 |-> Unwritten]
           l == BigEndian(cnt[1], 8)
           s == z \o l \o u
           c == <<(cnt[1] + 8 * Len(s)) % Word["fugue"], cnt[2]>>
<1>1. alg = "fugue" /\ Call(s, <<>>, c)
  BY DEF FugueClose, Portable, FugueCount
<1>2. p \in Nat
  BY TypeFacts
<1>11. Len(cnt) = 2
  BY <1>1, CntIs
<1>3. cnt[1] \in Nat /\ cnt[2] \in Nat
  BY <1>11, TypeFacts
<1> HIDE DEF p
<1>4. z \in Seq(Int)
  <2>1. 4 - p \in Int
    BY <1>2
  <2>2. Zeros(4 - p) \in Seq(Int) /\ <<>> \in Seq(Int)
    BY <2>1, ZerosSeq
  <2> QED BY <2>2
<1>5. u \in Seq(Int)
  BY DEF Unwritten
<1>6. l \in Seq(Int)
  BY <1>3, EndSeq
<1> HIDE DEF z, u, l
<1>7. s \in Seq(Int) /\ Len(s) \in Nat
  <2>1. z \o l \in Seq(Int)
    BY <1>4, <1>6, CatSeq
  <2>2. s \in Seq(Int)
    BY <1>5, <2>1, CatSeq
  <2> QED BY <2>2, LenProperties
<1> HIDE DEF s
<1>8. (cnt[1] + 8 * Len(s)) % Word["fugue"] \in Nat
  BY <1>3, <1>7, BlockIs, AddType
<1>9. c \in Seq(Nat) /\ Len(c) = Len(cnt)
  BY <1>3, <1>8, <1>11, TwoType
<1> HIDE DEF c
<1>10. <<>> \in Seq(Int)
  BY TypeFacts
<1> QED BY <1>1, <1>7, <1>9, <1>10, CallType

LEMMA BlakeSecondType ==
  ASSUME TypeInv, alg = "blake", BlakeSecond, UNCHANGED <<chain, n>>
  PROVE  TypeInv'
<1>1. phase = "closing" /\ input' = later /\ later' = <<>> /\ cnt' = BlakeBefore
      /\ fast' = fast /\ alg' = alg /\ phase' = phase /\ fed' = fed /\ buf' = buf /\ out' = out
  BY DEF BlakeSecond
<1>6. Len(cnt) = 2
  BY CntIs
<1>7. later \in Seq(Int)
  BY TypeFacts
<1>2. later \in Seq(Int) /\ <<>> \in Seq(Int) /\ Len(cnt) = 2
  BY <1>6, <1>7
<1>3. BlakeBefore \in Seq(Nat) /\ Len(BlakeBefore) = 2
  <2> DEFINE w == Word["blake"]
             x == w - 1024
             y == w - 1
  <2>1. w \in Nat \ {0} /\ w % 1024 = 0
    BY BlockIs, BlockType, WordAssumption
  <2> HIDE DEF w
  <2>2. x \in Nat /\ y \in Nat
    BY <2>1
  <2>3. BlakeBefore = <<x, y>>
    BY DEF BlakeBefore, w
  <2> HIDE DEF x, y
  <2> QED BY <2>2, <2>3, TwoType
<1>4. TypeOK'
  <2>1. Len(buf)' < BlockLen[alg]' + (IF Lazy(alg)' THEN 1 ELSE 0)
    BY <1>1 DEF TypeInv, TypeOK, Lazy
  <2>2. /\ alg \in Algo /\ fast \in BOOLEAN /\ fed \in Nat /\ chain \in BOOLEAN /\ n \in Nat /\ buf \in Seq(Int)
        /\ out \in Seq([block : Seq(Int), tweak : Seq(Nat)])
    BY DEF TypeInv, TypeOK
  <2> QED BY <1>1, <1>2, <1>3, <2>1, <2>2 DEF TypeOK
<1>5. Len(cnt)' = Counters(fast, alg)'
  BY <1>1, <1>2, <1>3 DEF TypeInv
<1> QED BY <1>1, <1>4, <1>5 DEF TypeInv

-----------------------------------------------------------------------------
(* Types: the close of the fast build *)

LEMMA GroestlFinishType ==
  ASSUME TypeInv, GroestlFinish, UNCHANGED <<chain, n>>
  PROVE  TypeInv'
<1> DEFINE one == buf \o <<Byte(128)>>
           g == BigEndian(((cnt[1] + 1) % Word["groestl"]) % 256, 8)
           length == Zeros(7) \o g
           s == one \o length
           u == one \o Zeros(15)
           v == one \o Zeros(112 - Len(one)) \o <<Byte(0)>> \o length
           i == Len(buf) \div 16
           last == IF i = (fed \div 16) - 1 THEN s ELSE IF i = 7 THEN u ELSE v
<1>1. alg = "groestl" /\ Digest(<<Entry(last, <<>>), Blank(<<>>)>>)
  BY DEF GroestlFinish, GroestlTF1024, GroestlCompress, GroestlOF1024, GroestlFinal, Fast, GroestlLength, GroestlCount
<1>2. buf \in Seq(Int)
  BY TypeFacts
<1>3. cnt[1] \in Nat
  <2>1. Len(cnt) = 1
    BY <1>1, CntIs
  <2> QED BY <2>1, TypeFacts
<1>4. one \in Seq(Int) /\ Len(one) \in Int
  BY <1>2, OneSeq, LenProperties
<1>5. g \in Seq(Int)
  <2>1. (cnt[1] + 1) % Word["groestl"] \in Nat
    BY <1>3, BlockIs, AddType
  <2>2. ((cnt[1] + 1) % Word["groestl"]) % 256 \in Nat
    BY <2>1, ModType
  <2> QED BY <2>2, EndSeq
<1> HIDE DEF one, g
<1>6. length \in Seq(Int)
  BY <1>5, ZerosEndSeq
<1> HIDE DEF length
<1>7. s \in Seq(Int)
  BY <1>4, <1>6, CatSeq
<1>8. u \in Seq(Int)
  BY <1>4, GapSeq
<1>9. v \in Seq(Int)
  <2>1. 112 - Len(one) \in Int
    BY <1>4
  <2>2. <<Byte(0)>> \in Seq(Int)
    BY ByteSeq
  <2>3. one \o Zeros(112 - Len(one)) \o <<Byte(0)>> \in Seq(Int)
    BY <1>4, <2>1, <2>2, GapEndSeq
  <2> QED BY <1>6, <2>3, CatSeq
<1> HIDE DEF s, u, v, i
<1>10. last \in Seq(Int)
  BY <1>7, <1>8, <1>9
<1> HIDE DEF last
<1>11. Entry(last, <<>>) \in Compression
  BY <1>10, PlainEntry
<1>12. <<Entry(last, <<>>), Blank(<<>>)>> \in Seq(Compression)
  BY <1>11, BlankPlain, EntriesType
<1> QED BY <1>1, <1>12, DigestType

(* The buffer of an eager loop between two updates: what is left of the      *)
(* message after its whole blocks.                                           *)
LEMMA LeftInBuffer ==
  ASSUME TypeInv, Closing, ~Lazy(alg)
  PROVE  /\ Len(buf) = fed % BlockLen[alg]
         /\ fed = BlockLen[alg] * Len(out) + Len(buf)
<1> DEFINE b == BlockLen[alg]
<1>1. b \in Nat \ {0} /\ Len(buf) \in Nat /\ Len(out) \in Nat
  BY TypeFacts, BlockType
<1>2. Len(buf) < b
  BY BufferFits
<1>3. fed = b * Len(out) + Len(buf) + Len(input)
  BY DEF TypeInv, Taking, Closing
<1>4. Len(input) = 0
  <2>1. input = <<>>
    BY DEF Closing
  <2> QED BY <2>1
<1> HIDE DEF b
<1>5. fed = b * Len(out) + Len(buf)
  BY <1>1, <1>3, <1>4
<1> DEFINE m == Len(out)
           r == Len(buf)
<1>6. m \in Nat /\ r \in Nat /\ r < b /\ fed = b * m + r
  BY <1>1, <1>2, <1>5
<1> HIDE DEF m, r
<1>7. fed % b = r
  BY <1>1, <1>6
<1> QED BY <1>5, <1>7 DEF b, r

LEMMA JhFinalizeType ==
  ASSUME TypeInv, JhFinalize, UNCHANGED <<chain, n>>
  PROVE  TypeInv'
<1> DEFINE index == (cnt[1] % 512) \div 8
           l == BigEndian(cnt[1], 8)
           s == <<Byte(128)>> \o Zeros(55) \o l
           u == SubSeq(buf, 1, index) \o <<Byte(128)>> \o Zeros(63 - index)
           v == Zeros(56) \o l
<1>1. alg = "jh" /\ fast /\ Closing
  BY DEF JhFinalize, Fast
<1>2. Digest(<<Entry(s, <<>>)>>) \/ Digest(<<Entry(u, <<>>), Entry(v, <<>>)>>)
  BY DEF JhFinalize, JhF8, JhE8
<1>3. buf \in Seq(Int) /\ Len(buf) \in Nat
  BY TypeFacts
<1>4. cnt[1] \in Nat
  <2>1. Len(cnt) = 1
    BY <1>1, CntIs
  <2> QED BY <2>1, TypeFacts
<1>5. l \in Seq(Int)
  BY <1>4, EndSeq
<1>6. index \in 0..Len(buf)
  <2> DEFINE w == Word["jh"]
             k == w \div 512
  <2>1. w \in Nat \ {0} /\ w % 512 = 0
    BY BlockIs, BlockType, WordAssumption
  <2>2. cnt[1] = (8 * fed) % w /\ fed \in Nat
    BY <1>1, TypeFacts DEF TypeInv, Taking, Closing
  <2>3. Len(buf) = fed % 64
    BY <1>1, BlockIs, LeftInBuffer DEF Lazy
  <2>4. k \in Nat \ {0} /\ w = 512 * k
    BY <2>1
  <2> DEFINE q == (8 * fed) \div w
  <2> HIDE DEF w
  <2>5. q \in Nat /\ 8 * fed = w * q + cnt[1]
    BY <2>1, <2>2, DivType
  <2> HIDE DEF k, q
  <2> DEFINE p == k * q
  <2>6. p \in Nat /\ w * q = 512 * p
    BY <2>4, <2>5
  <2> HIDE DEF p
  <2>7. 8 * fed = 512 * p + cnt[1]
    BY <2>5, <2>6
  <2>8. cnt[1] % 512 = (8 * fed) % 512
    BY <1>4, <2>2, <2>6, <2>7
  <2>9. (8 * fed) % 512 = 8 * (fed % 64)
    BY <2>2
  <2>10. index = fed % 64
    BY <2>2, <2>8, <2>9
  <2> HIDE DEF index
  <2> QED BY <1>3, <2>3, <2>10
<1> HIDE DEF index, l
<1>7. <<Byte(128)>> \in Seq(Int)
  BY ByteSeq
<1>8. s \in Seq(Int)
  BY <1>5, <1>7, GapEndSeq
<1>9. u \in Seq(Int)
  <2>1. SubSeq(buf, 1, index) \in Seq(Int)
    BY <1>3, <1>6, Cut
  <2>2. SubSeq(buf, 1, index) \o <<Byte(128)>> \in Seq(Int)
    BY <2>1, OneSeq
  <2>3. 63 - index \in Int
    BY <1>6
  <2> QED BY <2>2, <2>3, GapSeq
<1>10. v \in Seq(Int)
  BY <1>5, ZerosEndSeq
<1> HIDE DEF s, u, v
<1>11. Entry(s, <<>>) \in Compression /\ Entry(u, <<>>) \in Compression /\ Entry(v, <<>>) \in Compression
  BY <1>8, <1>9, <1>10, PlainEntry
<1>12. <<Entry(s, <<>>)>> \in Seq(Compression) /\ <<Entry(u, <<>>), Entry(v, <<>>)>> \in Seq(Compression)
  BY <1>11, EntriesType
<1> QED BY <1>2, <1>12, DigestType

LEMMA FastSimdCloseType ==
  ASSUME TypeInv, FastSimdClose, UNCHANGED <<chain, n>>
  PROVE  TypeInv'
<1> DEFINE w == Word["simd"]
           current == (cnt[1] % 1024) \div 8
           count == InWords(cnt[1], w, 2)
           l == LittleEndian(count[1], 4) \o LittleEndian(count[2], 4) \o Zeros(120)
           last == Entry(l, <<Flag(TRUE)>>)
           s == SubSeq(buf, 1, current) \o Zeros(128 - current)
           x == Entry(s, <<Flag(FALSE)>>)
<1>1. alg = "simd" /\ fast /\ Closing
  BY DEF FastSimdClose, Fast
<1>2. Digest(<<last>>) \/ Digest(<<x, last>>)
  BY DEF FastSimdClose, Simd512Compress, SimdCompress
<1>3. buf \in Seq(Int) /\ Len(buf) \in Nat
  BY TypeFacts
<1>4. cnt[1] \in Nat
  <2>1. Len(cnt) = 1
    BY <1>1, CntIs
  <2> QED BY <2>1, TypeFacts
<1>5. current \in 0..Len(buf)
  <2>1. cnt[1] = 8 * fed /\ fed \in Nat
    <3>1. cnt[1] = 8 * (fed - Len(input)) /\ fed \in Nat
      BY <1>1, TypeFacts DEF TypeInv, Taking, Closing
    <3>2. Len(input) = 0
      BY <1>1 DEF Closing
    <3> QED BY <3>1, <3>2
  <2>2. Len(buf) = fed % 128
    BY <1>1, BlockIs, LeftInBuffer DEF Lazy
  <2>3. current = fed % 128
    BY <2>1
  <2> HIDE DEF current
  <2> QED BY <1>3, <2>2, <2>3
<1>6. w \in Nat \ {0}
  BY BlockIs, BlockType
<1> HIDE DEF w, current
<1>7. cnt[1] % w \in Nat /\ (cnt[1] \div w) % w \in Nat
  BY <1>4, <1>6, ModType, DivType
<1>8. count[1] \in Nat /\ count[2] \in Nat
  BY <1>7 DEF InWords
<1> HIDE DEF count
<1>9. l \in Seq(Int)
  <2>1. LittleEndian(count[1], 4) \in Seq(Int)
    BY <1>8, EndSeq
  <2>2. LittleEndian(count[2], 4) \in Seq(Int)
    BY <1>8, EndSeq
  <2>3. LittleEndian(count[1], 4) \o LittleEndian(count[2], 4) \in Seq(Int)
    BY <2>1, <2>2, CatSeq
  <2> QED BY <2>3, GapSeq
<1>10. s \in Seq(Int)
  <2>1. SubSeq(buf, 1, current) \in Seq(Int)
    BY <1>3, <1>5, Cut
  <2>2. 128 - current \in Int
    BY <1>5
  <2> QED BY <2>1, <2>2, GapSeq
<1>11. <<Flag(FALSE)>> \in Seq(Nat) /\ <<Flag(TRUE)>> \in Seq(Nat)
  BY DEF Flag
<1> HIDE DEF l, s
<1>12. x \in Compression /\ last \in Compression
  BY <1>9, <1>10, <1>11, EntryType
<1> HIDE DEF x, last
<1>13. <<last>> \in Seq(Compression) /\ <<x, last>> \in Seq(Compression)
  BY <1>12, EntriesType
<1> QED BY <1>2, <1>13, DigestType

LEMMA KeccakSpongeType ==
  ASSUME TypeInv, KeccakSponge, UNCHANGED <<chain, n>>
  PROVE  TypeInv'
<1> DEFINE v(i) == IF i <= Len(buf) THEN buf[i]
                   ELSE Byte((IF i = Len(buf) + 1 THEN 6 ELSE 0) + (IF i = 136 THEN 128 ELSE 0))
           added == [i \in 1..136 |-> v(i)]
<1>1. Digest(<<Entry(added, <<>>)>>)
  BY DEF KeccakSponge, KeccakP1600, Sha3Process
<1>2. buf \in Seq(Int) /\ Len(buf) \in Nat
  BY TypeFacts
<1>3. \A i \in 1..136 : v(i) \in Int
  <2> SUFFICES ASSUME NEW i \in 1..136 PROVE v(i) \in Int
    OBVIOUS
  <2>1. CASE i <= Len(buf)
    <3>1. buf[i] \in Int
      BY <1>2, <2>1, ElementOfSeq
    <3> QED BY <2>1, <3>1
  <2>2. CASE ~(i <= Len(buf))
    BY <2>2 DEF Byte
  <2> QED BY <2>1, <2>2
<1> HIDE DEF v
<1>4. added \in Seq(Int)
  BY <1>3
<1> HIDE DEF added
<1>5. <<Entry(added, <<>>)>> \in Seq(Compression)
  BY <1>4, PlainEntry, EntriesType
<1> QED BY <1>1, <1>5, DigestType

LEMMA ThirdType ==
  ASSUME NEW m \in Int
  PROVE  m % 3 \in Nat
OBVIOUS

LEMMA FastFugueFinalType ==
  ASSUME TypeInv, FastFugueFinal, UNCHANGED <<chain, n>>
  PROVE  TypeInv'
<1> DEFINE z == buf \o Zeros(4 - Len(buf))
           rest == IF buf = <<>> THEN <<>> ELSE <<z>>
           length == BigEndian((cnt[1] + 8 * Len(buf)) % Word["fugue"], 8)
           h == SubSeq(length, 1, 4)
           l == SubSeq(length, 5, 8)
           words == rest \o <<h, l>>
           v(i) == Entry(words[i], <<(cnt[2] + i - 1) % 3>>)
           first == [i \in 1..Len(words) |-> v(i)]
           last == Blank(<<(cnt[2] + Len(words)) % 3>>)
<1>1. alg = "fugue" /\ fast /\ Digest(first \o <<last>>)
  BY DEF FastFugueFinal, FugueCompress512, FugueFinal512, Fast
<1>2. buf \in Seq(Int) /\ Len(buf) \in Nat
  BY TypeFacts
<1>11. Len(cnt) = 2
  BY <1>1, CntIs
<1>3. cnt[1] \in Nat /\ cnt[2] \in Nat
  BY <1>11, TypeFacts
<1>4. z \in Seq(Int)
  <2>1. 4 - Len(buf) \in Int
    BY <1>2
  <2> QED BY <1>2, <2>1, GapSeq
<1>5. length \in Seq(Int) /\ Len(length) = 8
  <2>1. 8 * Len(buf) \in Nat
    BY <1>2
  <2>2. (cnt[1] + 8 * Len(buf)) % Word["fugue"] \in Nat
    BY <1>3, <2>1, BlockIs, AddType
  <2>3. length \in Bytes(8)
    BY <2>2, EndianType
  <2> QED BY <2>3 DEF Bytes
<1> HIDE DEF z, length
<1>6. h \in Seq(Int)
  <2>1. 4 \in 0..Len(length)
    BY <1>5
  <2> QED BY <1>5, <2>1, Cut
<1>7. l \in Seq(Int)
  <2>1. 4 \in 0..Len(length) /\ 4 + 1 = 5
    BY <1>5
  <2>2. SubSeq(length, 4 + 1, Len(length)) \in Seq(Int)
    BY <1>5, <2>1, Cut
  <2> QED BY <1>5, <2>1, <2>2
<1> HIDE DEF h, l
<1>8. words \in Seq(Seq(Int)) /\ Len(words) \in Nat
  <2>1. <<h, l>> \in Seq(Seq(Int)) /\ <<z>> \in Seq(Seq(Int)) /\ <<>> \in Seq(Seq(Int))
    <3> DEFINE S == Seq(Int)
    <3>1. h \in S /\ l \in S /\ z \in S
      BY <1>4, <1>6, <1>7
    <3> HIDE DEF S
    <3>2. <<h, l>> \in Seq(S) /\ <<z>> \in Seq(S) /\ <<>> \in Seq(S)
      BY <3>1
    <3> QED BY <3>2 DEF S
  <2>2. rest \in Seq(Seq(Int))
    BY <2>1
  <2> HIDE DEF rest
  <2>3. words \in Seq(Seq(Int))
    BY <2>1, <2>2, ConcatProperties
  <2> QED BY <2>3, LenProperties
<1> HIDE DEF words
<1>9. \A i \in 1..Len(words) : v(i) \in Compression
  <2> SUFFICES ASSUME NEW i \in 1..Len(words) PROVE v(i) \in Compression
    OBVIOUS
  <2>1. words[i] \in Seq(Int)
    BY <1>8, ElementOfSeq
  <2>2. cnt[2] + i - 1 \in Int
    BY <1>3
  <2> DEFINE c == (cnt[2] + i - 1) % 3
  <2>3. c \in Nat
    BY <2>2, ThirdType
  <2> HIDE DEF c
  <2>4. <<c>> \in Seq(Nat)
    BY <2>3
  <2>5. Entry(words[i], <<c>>) \in Compression
    BY <2>1, <2>4, EntryType
  <2> QED BY <2>5 DEF c
<1>10. last \in Compression
  <2> DEFINE c == (cnt[2] + Len(words)) % 3
  <2>2. cnt[2] + Len(words) \in Int
    BY <1>3, <1>8
  <2>1. c \in Nat
    BY <2>2, ThirdType
  <2> HIDE DEF c
  <2>4. <<c>> \in Seq(Nat)
    BY <2>1
  <2>5. Blank(<<c>>) \in Compression
    BY <2>4, BlankType
  <2> QED BY <2>5 DEF c
<1> HIDE DEF v, last
<1>12. first \in Seq(Compression)
  <2> DEFINE k == Len(words)
             S == Compression
  <2>1. k \in Nat /\ first = [i \in 1..k |-> v(i)] /\ \A i \in 1..k : v(i) \in S
    BY <1>8, <1>9
  <2> HIDE DEF S, k, first
  <2>2. first \in Seq(S)
    BY <2>1
  <2> QED BY <2>2 DEF S
<1>13. <<last>> \in Seq(Compression)
  BY <1>10, EntriesType
<1> HIDE DEF first
<1>14. first \o <<last>> \in Seq(Compression)
  BY <1>12, <1>13, ConcatProperties
<1> QED BY <1>1, <1>14, DigestType

LEMMA ClosesType ==
  ASSUME TypeInv, Close
  PROVE  TypeInv'
<1>1. UNCHANGED <<chain, n>>
  BY DEF Close
<1>2. CASE PortableClose
  <2>1. CASE BlakeClose
    BY <1>1, <2>1, BlakeCallType, BlakeSecondType, EndsType DEF BlakeClose, Portable
  <2>2. CASE ShaviteClose
    BY <1>1, <2>2, ShavitePaddedType, DigestType DEF ShaviteClose, Portable
  <2>3. CASE HamsiClose
    BY <1>1, <2>3, HamsiCloseType DEF HamsiClose, Portable
  <2>4. CASE WhirlpoolClose \/ Sha512Close
    BY <1>1, <2>4, MdCloseType DEF WhirlpoolClose, Sha512Close, Portable, Common
  <2> QED
    BY <1>1, <1>2, <2>1, <2>2, <2>3, <2>4, BmwCloseType, GroestlCloseType, EndsType, JhCloseType, KeccakCloseType,
       SkeinCloseType, LuffaCloseType, CubehashCloseType, SimdCloseType, EchoCloseType, FugueCloseType,
       ShabalCloseType, Sha3FinalType DEF PortableClose
<1>3. CASE FastClose
  <2>1. CASE FastBlakeClose
    BY <1>1, <2>1, BlakeCallType, BlakeSecondType, EndsType DEF FastBlakeClose, Fast
  <2>2. CASE FastShaviteClose
    BY <1>1, <2>2, ShavitePaddedType, DigestType DEF FastShaviteClose, Fast
  <2>3. CASE FastHamsiClose
    BY <1>1, <2>3, HamsiCloseType DEF FastHamsiClose, Fast
  <2>4. CASE FastWhirlpoolClose
    BY <1>1, <2>4, MdCloseType DEF FastWhirlpoolClose, Fast
  <2> QED
    BY <1>1, <1>3, <2>1, <2>2, <2>3, <2>4, GroestlFinishType, JhFinalizeType, LuffaCloseType, CubehashCloseType,
       FastSimdCloseType, EchoFinalType, FastFugueFinalType, KeccakSpongeType DEF FastClose
<1> QED BY <1>2, <1>3 DEF Close

-----------------------------------------------------------------------------
(* Types: opening a context and giving it data *)

LEMMA InitType ==
  ASSUME NEW f \in BOOLEAN, NEW a \in Algo
  PROVE  /\ ContextInit(f, a) \in Seq(Nat) /\ Len(ContextInit(f, a)) = Counters(f, a)
         /\ a = "blake" => ContextInit(f, a)[1] = 0
         /\ f /\ a \in {"jh", "simd"} => ContextInit(f, a)[1] = 0
BY DEF ContextInit, PortableInit, Counters, Algo, Chained, BlakeInit, BmwInit, GroestlInit, JhInit, KeccakInit,
       SkeinInit, LuffaInit, CubehashInit, ShaviteInit, SimdInit, EchoInit, HamsiInit, FugueInit, ShabalInit,
       MdInit, Sha3Init

LEMMA OpenTaking ==
  ASSUME NEW f \in BOOLEAN, NEW a \in Algo
  PROVE  /\ 0 = BlockLen[a] * 0 + 0 + 0
         /\ Word[a] \in Nat \ {0} /\ 0 % Word[a] = 0 /\ 0 < Word[a] /\ 0 % 1024 = 0 /\ 0 < BlockLen[a]
BY BlockType

LEMMA BlakeOpens == 0 % 1024 = 0 /\ 0 < Word["blake"]
<1>1. "blake" \in Algo
  BY BlockIs
<1>2. Word["blake"] \in Nat \ {0}
  BY <1>1, BlockType
<1> DEFINE w == Word["blake"]
<1> HIDE DEF w
<1>3. 0 % 1024 = 0 /\ 0 < w
  BY <1>2 DEF w
<1> QED BY <1>3 DEF w

LEMMA InitTypeInv ==
  ASSUME Init
  PROVE  TypeInv
<1>1. /\ alg \in Algo /\ fast \in BOOLEAN /\ phase = "open" /\ fed = 0
      /\ buf = <<>> /\ cnt = ContextInit(fast, alg) /\ input = <<>> /\ later = <<>> /\ out = <<>>
      /\ chain \in BOOLEAN /\ n = 0
  BY DEF Init, Open
<1>2. <<>> \in Seq(Int) /\ <<>> \in Seq([block : Seq(Int), tweak : Seq(Nat)]) /\ Len(<<>>) = 0
  OBVIOUS
<1>3. TypeOK
  <2>1. Len(buf) < BlockLen[alg] + (IF Lazy(alg) THEN 1 ELSE 0)
    <3>1. BlockLen[alg] \in Nat \ {0}
      BY <1>1, BlockType
    <3> HIDE DEF Lazy
    <3> QED BY <1>1, <1>2, <3>1
  <2> QED BY <1>1, <1>2, <2>1, InitType DEF TypeOK
<1>4. Taking
  <2>1. later = <<>> /\ fed = BlockLen[alg] * Len(out) + Len(buf) + Len(input)
    BY <1>1, <1>2, OpenTaking
  <2>2. alg = "blake" => cnt[1] % 1024 = 0 /\ cnt[1] < Word["blake"]
    <3> SUFFICES ASSUME alg = "blake" PROVE cnt[1] % 1024 = 0 /\ cnt[1] < Word["blake"]
      OBVIOUS
    <3>1. cnt[1] = 0
      BY <1>1, InitType
    <3> QED BY <3>1, BlakeOpens
  <2>3. fast /\ alg = "jh" => cnt[1] = (8 * fed) % Word["jh"]
    <3> SUFFICES ASSUME fast, alg = "jh" PROVE cnt[1] = (8 * fed) % Word["jh"]
      OBVIOUS
    <3>1. cnt[1] = 0
      BY <1>1, InitType
    <3> DEFINE w == Word["jh"]
    <3>4. w \in Nat \ {0}
      BY BlockIs, BlockType
    <3> HIDE DEF w
    <3>2. 0 % w = 0
      BY <3>4
    <3>3. 8 * 0 = 0
      OBVIOUS
    <3> QED BY <1>1, <3>1, <3>2, <3>3 DEF w
  <2>4. fast /\ alg = "simd" => cnt[1] = 8 * (fed - Len(input))
    <3> SUFFICES ASSUME fast, alg = "simd" PROVE cnt[1] = 8 * (fed - Len(input))
      OBVIOUS
    <3>1. cnt[1] = 0
      BY <1>1, InitType
    <3>2. fed = 0 /\ Len(input) = 0
      BY <1>1
    <3>3. 8 * (0 - 0) = 0
      OBVIOUS
    <3> QED BY <3>1, <3>2, <3>3
  <2> QED BY <2>1, <2>2, <2>3, <2>4 DEF Taking
<1> QED BY <1>1, <1>3, <1>4, InitType DEF TypeInv

LEMMA RoundType ==
  ASSUME TypeInv, Round
  PROVE  TypeInv'
<1>1. /\ alg' \in Algo /\ fast' \in BOOLEAN /\ phase' = "open" /\ fed' = 0 /\ n' \in Nat
      /\ buf' = <<>> /\ cnt' = ContextInit(fast', alg') /\ input' = <<>> /\ later' = <<>> /\ out' = <<>>
      /\ chain' \in BOOLEAN
  BY AlgoFacts DEF Round, TypeInv, TypeOK
<1>2. <<>> \in Seq(Int) /\ <<>> \in Seq([block : Seq(Int), tweak : Seq(Nat)]) /\ Len(<<>>) = 0
  OBVIOUS
<1>3. TypeOK'
  <2>1. Len(buf)' < BlockLen[alg]' + (IF Lazy(alg)' THEN 1 ELSE 0)
    <3>1. BlockLen[alg'] \in Nat \ {0}
      BY <1>1, BlockType
    <3> HIDE DEF Lazy
    <3> QED BY <1>1, <1>2, <3>1
  <2> QED BY <1>1, <1>2, <2>1, InitType DEF TypeOK
<1>4. Taking'
  <2>1. later' = <<>> /\ fed' = BlockLen[alg'] * Len(out') + Len(buf') + Len(input')
    BY <1>1, <1>2, OpenTaking
  <2>2. alg' = "blake" => cnt'[1] % 1024 = 0 /\ cnt'[1] < Word["blake"]
    <3> SUFFICES ASSUME alg' = "blake" PROVE cnt'[1] % 1024 = 0 /\ cnt'[1] < Word["blake"]
      OBVIOUS
    <3>1. cnt'[1] = 0
      BY <1>1, InitType
    <3> QED BY <3>1, BlakeOpens
  <2>3. fast' /\ alg' = "jh" => cnt'[1] = (8 * fed') % Word["jh"]
    <3> SUFFICES ASSUME fast', alg' = "jh" PROVE cnt'[1] = (8 * fed') % Word["jh"]
      OBVIOUS
    <3>1. cnt'[1] = 0
      BY <1>1, InitType
    <3> DEFINE w == Word["jh"]
    <3>4. w \in Nat \ {0}
      BY BlockIs, BlockType
    <3> HIDE DEF w
    <3>2. 0 % w = 0
      BY <3>4
    <3>3. 8 * 0 = 0
      OBVIOUS
    <3> QED BY <1>1, <3>1, <3>2, <3>3 DEF w
  <2>4. fast' /\ alg' = "simd" => cnt'[1] = 8 * (fed' - Len(input'))
    <3> SUFFICES ASSUME fast', alg' = "simd" PROVE cnt'[1] = 8 * (fed' - Len(input'))
      OBVIOUS
    <3>1. cnt'[1] = 0
      BY <1>1, InitType
    <3>2. fed' = 0 /\ Len(input') = 0
      BY <1>1
    <3>3. 8 * (0 - 0) = 0
      OBVIOUS
    <3> QED BY <3>1, <3>2, <3>3
  <2> QED BY <2>1, <2>2, <2>3, <2>4 DEF Taking
<1> QED BY <1>1, <1>3, <1>4, InitType DEF TypeInv

(* What an update counts before its loop.                                    *)
LEMMA EntryCountType ==
  ASSUME TypeInv, NEW k \in Nat
  PROVE  /\ EntryCount(k) \in Seq(Nat) /\ Len(EntryCount(k)) = Len(cnt)
         /\ alg = "blake" \/ (alg = "simd" /\ fast) => EntryCount(k) = cnt
         /\ alg = "jh" /\ fast => EntryCount(k)[1] = (cnt[1] + 8 * k) % Word["jh"]
<1>1. cnt \in Seq(Nat) /\ alg \in Algo
  BY TypeFacts
<1>2. ASSUME NEW a \in Algo, alg = a, Len(cnt) = 1, NEW m \in Nat
      PROVE  <<(cnt[1] + m) % Word[a]>> \in Seq(Nat) /\ Len(<<(cnt[1] + m) % Word[a]>>) = 1
             /\ <<(cnt[1] + m) % Word[a]>>[1] = (cnt[1] + m) % Word[a]
  <2> DEFINE x == (cnt[1] + m) % Word[a]
  <2>1. cnt[1] \in Nat
    BY <1>2, TypeFacts
  <2>2. x \in Nat
    BY <2>1, AddType
  <2> HIDE DEF x
  <2>3. <<x>> \in Seq(Nat) /\ Len(<<x>>) = 1 /\ <<x>>[1] = x
    BY <2>2
  <2> QED BY <2>3 DEF x
<1>3. 8 * k \in Nat
  OBVIOUS
<1>4. CASE alg = "bmw"
  <2>1. Len(cnt) = 1 /\ "bmw" \in Algo
    BY <1>4, CntIs, BlockIs
  <2>2. EntryCount(k) = <<(cnt[1] + 8 * k) % Word["bmw"]>>
    BY <1>4 DEF EntryCount, PortableCount, BmwCount
  <2> QED BY <1>2, <1>3, <1>4, <2>1, <2>2
<1>5. CASE alg = "fugue" /\ ~fast
  <2> DEFINE x == (cnt[1] + 8 * k) % Word["fugue"]
  <2>1. Len(cnt) = 2
    BY <1>5, CntIs
  <2>2. cnt[1] \in Nat /\ cnt[2] \in Nat
    BY <2>1, TypeFacts
  <2>3. EntryCount(k) = <<x, cnt[2]>>
    BY <1>5 DEF EntryCount, PortableCount, FugueCount
  <2>4. x \in Nat
    BY <1>3, <2>2, BlockIs, AddType
  <2> HIDE DEF x
  <2>5. <<x, cnt[2]>> \in Seq(Nat) /\ Len(<<x, cnt[2]>>) = 2
    BY <2>2, <2>4, TwoType
  <2> QED BY <1>5, <2>1, <2>3, <2>5
<1>6. CASE alg = "jh" /\ fast
  <2>1. Len(cnt) = 1 /\ "jh" \in Algo
    BY <1>6, CntIs, BlockIs
  <2>2. EntryCount(k) = <<(cnt[1] + 8 * k) % Word["jh"]>>
    BY <1>6 DEF EntryCount, JhBits
  <2> QED BY <1>2, <1>3, <1>6, <2>1, <2>2
<1>7. CASE alg = "whirlpool" /\ fast
  <2>1. Len(cnt) = 1 /\ "whirlpool" \in Algo
    BY <1>7, CntIs, BlockIs
  <2>2. EntryCount(k) = <<(cnt[1] + k) % Word["whirlpool"]>>
    BY <1>7 DEF EntryCount, WhirlpoolBytes
  <2> QED BY <1>2, <1>7, <2>1, <2>2
<1>8. CASE ~(alg = "bmw" \/ (alg = "fugue" /\ ~fast) \/ (alg = "jh" /\ fast) \/ (alg = "whirlpool" /\ fast))
  <2>1. EntryCount(k) = cnt
    BY <1>8 DEF EntryCount, PortableCount
  <2> QED BY <1>1, <1>8, <2>1
<1> QED BY <1>4, <1>5, <1>6, <1>7, <1>8

LEMMA ModIs ==
  ASSUME NEW x \in Nat, NEW w \in Nat \ {0}, NEW k \in Nat, NEW r \in Nat, r < w, x = w * k + r
  PROVE  x % w = r /\ x \div w = k
OBVIOUS

LEMMA MoreTimes ==
  ASSUME NEW x \in Nat, NEW w \in Nat \ {0}, NEW k \in Nat
  PROVE  (x + w * k) % w = x % w
<1> DEFINE q == x \div w
           r == x % w
           s == q + k
           y == x + w * k
<1>1. q \in Nat /\ x = w * q + r
  BY DivType
<1>2. r \in Nat /\ r < w
  BY ModType
<1>3. w * k \in Nat
  OBVIOUS
<1> HIDE DEF q, r
<1>4. s \in Nat /\ w * s = w * q + w * k
  BY <1>1
<1> HIDE DEF s
<1>5. y \in Nat /\ y = w * s + r
  BY <1>1, <1>2, <1>3, <1>4
<1> HIDE DEF y
<1>6. y % w = r
  BY <1>2, <1>4, <1>5, ModIs
<1> QED BY <1>6 DEF y, r

LEMMA SumMod ==
  ASSUME NEW x \in Nat, NEW y \in Nat, NEW w \in Nat \ {0}
  PROVE  ((x % w) + y) % w = (x + y) % w
<1> DEFINE q == x \div w
           r == x % w
           m == r + y
<1>1. q \in Nat /\ x = w * q + r
  BY DivType
<1>2. r \in Nat
  BY ModType
<1>3. w * q \in Nat
  BY <1>1
<1> HIDE DEF q, r
<1>4. m \in Nat
  BY <1>2
<1>5. m + w * q = x + y
  BY <1>1, <1>2, <1>3
<1> HIDE DEF m
<1>6. (m + w * q) % w = m % w
  BY <1>1, <1>4, MoreTimes
<1>7. (x + y) % w = m % w
  BY <1>5, <1>6
<1> QED BY <1>7 DEF m, r

LEMMA UpdateType ==
  ASSUME TypeInv, Update
  PROVE  TypeInv'
<1>1. PICK k \in Nat : fed' = fed + k /\ input' = Message(fed, k) /\ cnt' = EntryCount(k)
  <2>1. PICK k \in IF chain THEN {InSize} ELSE IF fed = 0 THEN 1..MaxFed[alg] ELSE Chunks \ {0} :
          fed' = fed + k /\ input' = Message(fed, k) /\ cnt' = EntryCount(k)
    BY DEF Update
  <2>2. k \in Nat
    BY <2>1, BoundsAssumption DEF InSize
  <2> QED BY <2>1, <2>2
<1>2. phase = "open" /\ input = <<>> /\ fast' = fast /\ alg' = alg /\ phase' = phase /\ buf' = buf
      /\ later' = later /\ out' = out /\ chain' = chain /\ n' = n
  BY DEF Update
<1>3. input' \in Seq(Int) /\ Len(input') = k /\ fed \in Nat
  <2>1. fed \in Nat
    BY TypeFacts
  <2>2. Message(fed, k) \in Bytes(k)
    BY <2>1, MessageType
  <2> QED BY <1>1, <2>1, <2>2 DEF Bytes
<1>4. fed' \in Nat
  BY <1>1, <1>3
<1>5. cnt' \in Seq(Nat) /\ Len(cnt') = Len(cnt)
  BY <1>1, EntryCountType
<1>6. TypeOK'
  <2>1. Len(buf)' < BlockLen[alg]' + (IF Lazy(alg)' THEN 1 ELSE 0)
    BY <1>2 DEF TypeInv, TypeOK, Lazy
  <2>2. /\ alg \in Algo /\ fast \in BOOLEAN /\ chain \in BOOLEAN /\ n \in Nat /\ buf \in Seq(Int)
        /\ later \in Seq(Int) /\ phase \in {"open", "closing", "done"}
        /\ out \in Seq([block : Seq(Int), tweak : Seq(Nat)])
    BY DEF TypeInv, TypeOK
  <2> QED BY <1>2, <1>3, <1>4, <1>5, <2>1, <2>2 DEF TypeOK
<1>7. Len(cnt)' = Counters(fast, alg)'
  BY <1>2, <1>5 DEF TypeInv
<1>8. Taking'
  <2>1. Taking
    BY <1>2 DEF TypeInv
  <2>2. fed' = BlockLen[alg'] * Len(out') + Len(buf') + Len(input')
    <3> DEFINE x == BlockLen[alg] * Len(out)
    <3>1. fed = x + Len(buf) + Len(input) /\ Len(input) = 0 /\ x \in Int /\ Len(buf) \in Int
      <4>1. Len(input) = 0
        BY <1>2
      <4> QED BY <2>1, <4>1, TypeFacts, BlockType DEF Taking
    <3> HIDE DEF x
    <3>2. fed' = x + Len(buf) + k
      BY <1>1, <3>1
    <3> QED BY <1>2, <1>3, <3>2 DEF x
  <2>3. alg = "blake" => cnt'[1] % 1024 = 0 /\ cnt'[1] < Word["blake"]
    BY <1>1, <2>1, EntryCountType DEF Taking
  <2>4. fast /\ alg = "jh" => cnt'[1] = (8 * fed') % Word["jh"]
    <3> SUFFICES ASSUME fast, alg = "jh" PROVE cnt'[1] = (8 * fed') % Word["jh"]
      OBVIOUS
    <3> DEFINE w == Word["jh"]
    <3>1. cnt[1] = (8 * fed) % w
      BY <2>1 DEF Taking
    <3>2. cnt'[1] = (cnt[1] + 8 * k) % w
      BY <1>1, EntryCountType
    <3>3. w \in Nat \ {0}
      BY BlockIs, BlockType
    <3> HIDE DEF w
    <3>5. 8 * fed \in Nat /\ 8 * k \in Nat
      BY <1>3
    <3>4. (((8 * fed) % w) + 8 * k) % w = (8 * fed + 8 * k) % w
      BY <3>3, <3>5, SumMod
    <3> QED BY <1>1, <1>3, <3>1, <3>2, <3>4 DEF w
  <2>5. fast /\ alg = "simd" => cnt'[1] = 8 * (fed' - Len(input'))
    <3> SUFFICES ASSUME fast, alg = "simd" PROVE cnt'[1] = 8 * (fed' - Len(input'))
      OBVIOUS
    <3>1. cnt[1] = 8 * (fed - Len(input)) /\ Len(input) = 0
      BY <1>2, <2>1 DEF Taking
    <3>2. cnt' = cnt
      BY <1>1, EntryCountType
    <3> QED BY <1>1, <1>3, <3>1, <3>2
  <2> QED BY <1>2, <2>1, <2>2, <2>3, <2>4, <2>5 DEF Taking
<1> QED BY <1>6, <1>7, <1>8 DEF TypeInv

LEMMA TypeInductive ==
  ASSUME TypeInv, [Next]_vars
  PROVE  TypeInv'
<1>1. CASE Update
  BY <1>1, UpdateType
<1>2. CASE Loop
  BY <1>2, TurnsType
<1>3. CASE Close
  BY <1>3, ClosesType
<1>4. CASE Round
  BY <1>4, RoundType
<1>5. CASE UNCHANGED vars
  BY <1>5 DEF vars, stream, context, TypeInv, TypeOK, Taking, Lazy
<1>6. Returned => UNCHANGED vars
  BY DEF Returned
<1> QED BY <1>1, <1>2, <1>3, <1>4, <1>5, <1>6 DEF Next

(* Every variable keeps its type, and the buffer its size: the loops of all  *)
(* seventeen functions, in both builds, take no more than a block holds, for *)
(* updates of any length and counters of any width, and no close reads past  *)
(* what the buffer has.                                                      *)
THEOREM StreamTypeCorrect == Spec => []TypeOK
<1>1. Init => TypeInv
  BY InitTypeInv
<1>2. TypeInv /\ [Next]_vars => TypeInv'
  BY TypeInductive
<1>3. TypeInv => TypeOK
  BY DEF TypeInv
<1> QED BY <1>1, <1>2, <1>3, PTL DEF Spec

-----------------------------------------------------------------------------
(* Where the bytes of a stream are: the buffer, the data of the call and the *)
(* data of the next one lie one behind the other in w, from place p on.      *)
Laid(p, s, t, l, w) ==
  /\ p + Len(s) + Len(t) + Len(l) = Len(w)
  /\ \A j \in 1..Len(s) : s[j] = w[p + j]
  /\ \A j \in 1..Len(t) : t[j] = w[p + Len(s) + j]
  /\ \A j \in 1..Len(l) : l[j] = w[p + Len(s) + Len(t) + j]

(* The compressions are the blocks of w from its start, each with its tweak. *)
Compressed(b, o, w, tw) ==
  \A i \in 1..Len(o) : o[i] = Entry(SubSeq(w, b * (i - 1) + 1, b * i), tw[i])

LEMMA PartIs ==
  ASSUME NEW s \in Seq(Int), NEW m \in Nat, NEW k \in Nat, m + k <= Len(s)
  PROVE  /\ SubSeq(s, m + 1, m + k) \in Seq(Int) /\ Len(SubSeq(s, m + 1, m + k)) = k
         /\ \A j \in 1..k : SubSeq(s, m + 1, m + k)[j] = s[m + j]
<1>1. Len(s) \in Nat
  BY LenProperties
<1>2. \A i \in (m + 1)..(m + k) : s[i] \in Int
  <2> SUFFICES ASSUME NEW i \in (m + 1)..(m + k) PROVE s[i] \in Int
    OBVIOUS
  <2>1. i \in 1..Len(s)
    BY <1>1
  <2> QED BY <2>1, ElementOfSeq
<1>3. /\ SubSeq(s, m + 1, m + k) \in Seq(Int)
      /\ Len(SubSeq(s, m + 1, m + k)) = IF m + 1 <= m + k THEN (m + k) - (m + 1) + 1 ELSE 0
      /\ \A i \in 1..((m + k) - (m + 1) + 1) : SubSeq(s, m + 1, m + k)[i] = s[(m + 1) + i - 1]
  BY <1>2, SubSeqProperties
<1>4. Len(SubSeq(s, m + 1, m + k)) = k
  BY <1>3
<1>5. ASSUME NEW j \in 1..k PROVE SubSeq(s, m + 1, m + k)[j] = s[m + j]
  <2>1. j \in 1..((m + k) - (m + 1) + 1) /\ (m + 1) + j - 1 = m + j
    OBVIOUS
  <2> QED BY <1>3, <2>1
<1> QED BY <1>3, <1>4, <1>5

LEMMA SameBytes ==
  ASSUME NEW s \in Seq(Int), NEW t \in Seq(Int), Len(s) = Len(t), \A j \in 1..Len(s) : s[j] = t[j]
  PROVE  s = t
BY SeqEqual

(* A turn takes the first n bytes of the data into the buffer.               *)
LEMMA TakeLaid ==
  ASSUME NEW p \in Nat, NEW s \in Seq(Int), NEW t \in Seq(Int), NEW l \in Seq(Int), NEW w \in Seq(Int),
         Laid(p, s, t, l, w), NEW n_ \in 0..Len(t)
  PROVE  /\ Laid(p, s \o SubSeq(t, 1, n_), SubSeq(t, n_ + 1, Len(t)), l, w)
         /\ s \o SubSeq(t, 1, n_) \in Seq(Int) /\ Len(s \o SubSeq(t, 1, n_)) = Len(s) + n_
<1> DEFINE f == SubSeq(t, 1, n_)
           r == SubSeq(t, n_ + 1, Len(t))
           g == s \o f
<1>1. Len(s) \in Nat /\ Len(t) \in Nat /\ Len(l) \in Nat /\ Len(w) \in Nat /\ n_ \in Nat
  BY LenProperties
<1>2. f \in Seq(Int) /\ Len(f) = n_ /\ \A j \in 1..n_ : f[j] = t[j]
  <2>1. 0 + n_ <= Len(t) /\ 0 \in Nat
    BY <1>1
  <2>2. /\ SubSeq(t, 0 + 1, 0 + n_) \in Seq(Int) /\ Len(SubSeq(t, 0 + 1, 0 + n_)) = n_
        /\ \A j \in 1..n_ : SubSeq(t, 0 + 1, 0 + n_)[j] = t[0 + j]
    BY <1>1, <2>1, PartIs
  <2>3. 0 + 1 = 1 /\ 0 + n_ = n_ /\ \A j \in 1..n_ : 0 + j = j
    BY <1>1
  <2> QED BY <2>2, <2>3
<1>3. r \in Seq(Int) /\ Len(r) = Len(t) - n_ /\ \A j \in 1..(Len(t) - n_) : r[j] = t[n_ + j]
  <2> DEFINE k == Len(t) - n_
  <2>1. k \in Nat /\ n_ + k = Len(t)
    BY <1>1
  <2> HIDE DEF k
  <2>2. /\ SubSeq(t, n_ + 1, n_ + k) \in Seq(Int) /\ Len(SubSeq(t, n_ + 1, n_ + k)) = k
        /\ \A j \in 1..k : SubSeq(t, n_ + 1, n_ + k)[j] = t[n_ + j]
    BY <1>1, <2>1, PartIs
  <2> QED BY <2>1, <2>2 DEF k
<1> HIDE DEF f, r
<1>4. g \in Seq(Int) /\ Len(g) = Len(s) + Len(f) /\ \A i \in 1..(Len(s) + Len(f)) : g[i] = IF i <= Len(s) THEN s[i] ELSE f[i - Len(s)]
  BY <1>2, ConcatProperties
<1> HIDE DEF g
<1>5. Len(g) = Len(s) + n_
  BY <1>2, <1>4
<1>6. p + Len(s) + Len(t) + Len(l) = Len(w)
      /\ (\A j \in 1..Len(s) : s[j] = w[p + j])
      /\ (\A j \in 1..Len(t) : t[j] = w[p + Len(s) + j])
      /\ (\A j \in 1..Len(l) : l[j] = w[p + Len(s) + Len(t) + j])
  BY DEF Laid
<1>12. p + Len(s) + Len(t) + Len(l) = Len(w) /\ Len(r) = Len(t) - n_
  BY <1>3, <1>6
<1>7. p + Len(g) + Len(r) + Len(l) = Len(w)
  <2>1. ASSUME NEW x \in Int, NEW y \in Int, NEW z \in Int, NEW i \in Int, NEW m \in Int, p + x + y + z = m
        PROVE  p + (x + i) + (y - i) + z = m
    BY <2>1
  <2>2. p + (Len(s) + n_) + (Len(t) - n_) + Len(l) = Len(w)
    BY <1>1, <1>12, <2>1
  <2> QED BY <1>5, <1>12, <2>2
<1>8. ASSUME NEW j \in 1..Len(g) PROVE g[j] = w[p + j]
  <2>1. j \in 1..(Len(s) + n_)
    BY <1>5
  <2>2. CASE j <= Len(s)
    <3>1. j \in 1..Len(s)
      BY <1>1, <2>1, <2>2
    <3> QED BY <1>2, <1>4, <1>6, <2>1, <2>2, <3>1
  <2>3. CASE ~(j <= Len(s))
    <3> DEFINE i == j - Len(s)
    <3>1. i \in 1..n_ /\ i \in 1..Len(t) /\ p + j = p + Len(s) + i
      BY <1>1, <2>1, <2>3
    <3>2. g[j] = f[i]
      BY <1>2, <1>4, <2>1, <2>3
    <3> HIDE DEF i
    <3>3. f[i] = t[i] /\ t[i] = w[p + Len(s) + i]
      BY <1>2, <1>6, <3>1
    <3> QED BY <3>1, <3>2, <3>3
  <2> QED BY <2>2, <2>3
<1>9. ASSUME NEW j \in 1..Len(r) PROVE r[j] = w[p + Len(g) + j]
  <2> DEFINE i == n_ + j
  <2>1. i \in 1..Len(t) /\ p + Len(g) + j = p + Len(s) + i /\ j \in 1..(Len(t) - n_)
    BY <1>1, <1>3, <1>5
  <2>2. r[j] = t[i]
    BY <1>3, <2>1
  <2> HIDE DEF i
  <2>3. t[i] = w[p + Len(s) + i]
    BY <1>6, <2>1
  <2> QED BY <2>1, <2>2, <2>3
<1>10. ASSUME NEW j \in 1..Len(l) PROVE l[j] = w[p + Len(g) + Len(r) + j]
  <2>1. p + Len(g) + Len(r) + j = p + Len(s) + Len(t) + j
    BY <1>1, <1>3, <1>5
  <2> QED BY <1>6, <2>1
<1>11. Laid(p, g, r, l, w)
  BY <1>7, <1>8, <1>9, <1>10 DEF Laid
<1> QED BY <1>4, <1>5, <1>11 DEF f, g, r

(* A buffer is the bytes at its place, and what is behind it stays there     *)
(* when it is compressed.                                                    *)
LEMMA FullIs ==
  ASSUME NEW p \in Nat, NEW s \in Seq(Int), NEW t \in Seq(Int), NEW l \in Seq(Int), NEW w \in Seq(Int),
         Laid(p, s, t, l, w)
  PROVE  s = SubSeq(w, p + 1, p + Len(s))
<1>1. Len(s) \in Nat /\ Len(t) \in Nat /\ Len(l) \in Nat /\ Len(w) \in Nat
  BY LenProperties
<1>2. p + Len(s) + Len(t) + Len(l) = Len(w) /\ \A j \in 1..Len(s) : s[j] = w[p + j]
  BY DEF Laid
<1>3. p + Len(s) <= Len(w)
  BY <1>1, <1>2
<1> DEFINE u == SubSeq(w, p + 1, p + Len(s))
<1>4. u \in Seq(Int) /\ Len(u) = Len(s) /\ \A j \in 1..Len(s) : u[j] = w[p + j]
  BY <1>1, <1>3, PartIs
<1> HIDE DEF u
<1>5. s = u
  BY <1>2, <1>4, SameBytes
<1> QED BY <1>5 DEF u

LEMMA FullLaid ==
  ASSUME NEW p \in Nat, NEW s \in Seq(Int), NEW t \in Seq(Int), NEW l \in Seq(Int), NEW w \in Seq(Int),
         Laid(p, s, t, l, w)
  PROVE  Laid(p + Len(s), <<>>, t, l, w)
<1>1. Len(s) \in Nat /\ Len(t) \in Nat /\ Len(l) \in Nat /\ Len(w) \in Nat
  BY LenProperties
<1>2. p + Len(s) + Len(t) + Len(l) = Len(w)
      /\ (\A j \in 1..Len(s) : s[j] = w[p + j])
      /\ (\A j \in 1..Len(t) : t[j] = w[p + Len(s) + j])
      /\ (\A j \in 1..Len(l) : l[j] = w[p + Len(s) + Len(t) + j])
  BY DEF Laid
<1> DEFINE q == p + Len(s)
<1>6. q \in Nat /\ q + 0 + Len(t) + Len(l) = Len(w) /\ q + 0 = q /\ q + 0 + Len(t) = p + Len(s) + Len(t)
  BY <1>1, <1>2
<1>7. Len(<<>>) = 0
  OBVIOUS
<1>8. Laid(q, <<>>, t, l, w)
  <2>1. \A j \in 1..Len(t) : t[j] = w[q + 0 + j]
    BY <1>2, <1>6
  <2>2. \A j \in 1..Len(l) : l[j] = w[q + 0 + Len(t) + j]
    BY <1>2, <1>6
  <2> HIDE DEF q
  <2> DEFINE z == <<>>
  <2>3. Len(z) = 0
    BY <1>7
  <2> HIDE DEF z
  <2>4. q + Len(z) + Len(t) + Len(l) = Len(w)
    BY <1>6, <2>3
  <2>5. \A j \in 1..Len(z) : z[j] = w[q + j]
    BY <2>3
  <2>6. Laid(q, z, t, l, w)
    BY <2>1, <2>2, <2>3, <2>4, <2>5 DEF Laid
  <2> QED BY <2>6 DEF z
<1> QED BY <1>8

LEMMA MoreCompressed ==
  ASSUME NEW b \in Nat, NEW o \in Seq(Compression), NEW w, NEW tw, Compressed(b, o, w, tw),
         NEW s \in Seq(Int), s = SubSeq(w, b * Len(o) + 1, b * Len(o) + b),
         NEW t \in Seq(Nat), t = tw[Len(o) + 1]
  PROVE  Compressed(b, Append(o, Entry(s, t)), w, tw)
<1> DEFINE e == Entry(s, t)
           q == Append(o, e)
           k == Len(o)
<1>1. e \in Compression
  BY EntryType
<1> HIDE DEF e
<1>2. Len(q) = k + 1 /\ (\A i \in 1..k : q[i] = o[i]) /\ q[k + 1] = e
  BY <1>1, AppendProperties
<1>3. k \in Nat
  BY LenProperties
<1>4. b * ((k + 1) - 1) + 1 = b * k + 1 /\ b * (k + 1) = b * k + b
  BY <1>3
<1>5. \A i \in 1..k : o[i] = Entry(SubSeq(w, b * (i - 1) + 1, b * i), tw[i])
  BY DEF Compressed
<1>6. e = Entry(SubSeq(w, b * ((k + 1) - 1) + 1, b * (k + 1)), tw[k + 1])
  BY <1>4 DEF e
<1> HIDE DEF q, k
<1>7. \A i \in 1..(k + 1) : q[i] = Entry(SubSeq(w, b * (i - 1) + 1, b * i), tw[i])
  <2> SUFFICES ASSUME NEW i \in 1..(k + 1) PROVE q[i] = Entry(SubSeq(w, b * (i - 1) + 1, b * i), tw[i])
    OBVIOUS
  <2>1. CASE i = k + 1
    BY <1>2, <1>6, <2>1
  <2>2. CASE i # k + 1
    <3>1. i \in 1..k
      BY <1>3, <2>2
    <3> QED BY <1>2, <1>5, <3>1
  <2> QED BY <2>1, <2>2
<1>8. Compressed(b, q, w, tw)
  BY <1>2, <1>7 DEF Compressed
<1> QED BY <1>8 DEF q, e

Holds(b, o, s, t, l, w, tw) == Laid(b * Len(o), s, t, l, w) /\ Compressed(b, o, w, tw)

(* A block more: the buffer has gone in, with the tweak that is due.         *)
LEMMA FullHolds ==
  ASSUME NEW b \in Nat, NEW o \in Seq(Compression), NEW s \in Seq(Int), NEW t \in Seq(Int), NEW l \in Seq(Int),
         NEW w \in Seq(Int), NEW tw, Holds(b, o, s, t, l, w, tw), Len(s) = b,
         NEW x \in Seq(Nat), x = tw[Len(o) + 1]
  PROVE  /\ Holds(b, Append(o, Entry(s, x)), <<>>, t, l, w, tw)
         /\ Append(o, Entry(s, x)) \in Seq(Compression)
         /\ Len(Append(o, Entry(s, x))) = Len(o) + 1
<1> DEFINE q == Append(o, Entry(s, x))
           p == b * Len(o)
<1>1. Laid(p, s, t, l, w) /\ Compressed(b, o, w, tw)
  BY DEF Holds
<1>2. Len(o) \in Nat
  BY LenProperties
<1>3. p \in Nat
  BY <1>2
<1>4. b * (Len(o) + 1) = p + b
  BY <1>2
<1>5. Entry(s, x) \in Compression
  BY EntryType
<1>6. q \in Seq(Compression) /\ Len(q) = Len(o) + 1
  BY <1>5, AppendProperties
<1> HIDE DEF p
<1>12. Laid(p + Len(s), <<>>, t, l, w)
  BY <1>1, <1>3, FullLaid
<1>13. s = SubSeq(w, p + 1, p + Len(s))
  BY <1>1, <1>3, FullIs
<1>7. Laid(p + b, <<>>, t, l, w) /\ s = SubSeq(w, p + 1, p + b)
  BY <1>12, <1>13
<1>8. Compressed(b, q, w, tw)
  BY <1>1, <1>7, MoreCompressed DEF p
<1> HIDE DEF q
<1>9. b * Len(q) = p + b
  BY <1>4, <1>6
<1>10. Laid(b * Len(q), <<>>, t, l, w)
  BY <1>7, <1>9
<1>11. Holds(b, q, <<>>, t, l, w, tw)
  BY <1>8, <1>10 DEF Holds
<1> QED BY <1>6, <1>11 DEF q

LEMMA TakeHolds ==
  ASSUME NEW b \in Nat, NEW o \in Seq(Compression), NEW s \in Seq(Int), NEW t \in Seq(Int), NEW l \in Seq(Int),
         NEW w \in Seq(Int), NEW tw, Holds(b, o, s, t, l, w, tw), NEW m \in 0..Len(t)
  PROVE  /\ Holds(b, o, s \o SubSeq(t, 1, m), SubSeq(t, m + 1, Len(t)), l, w, tw)
         /\ s \o SubSeq(t, 1, m) \in Seq(Int) /\ Len(s \o SubSeq(t, 1, m)) = Len(s) + m
<1> DEFINE p == b * Len(o)
<1>1. Len(o) \in Nat
  BY LenProperties
<1>2. p \in Nat
  BY <1>1
<1>3. Laid(p, s, t, l, w) /\ Compressed(b, o, w, tw)
  BY DEF Holds
<1> HIDE DEF p
<1>4. Laid(p, s \o SubSeq(t, 1, m), SubSeq(t, m + 1, Len(t)), l, w)
      /\ s \o SubSeq(t, 1, m) \in Seq(Int) /\ Len(s \o SubSeq(t, 1, m)) = Len(s) + m
  BY <1>2, <1>3, TakeLaid
<1> QED BY <1>3, <1>4 DEF Holds, p

(* One turn of an eager loop.                                                *)
LEMMA EagerTurn ==
  ASSUME TypeInv, ~Lazy(alg), NEW b \in Nat \ {0}, b = BlockLen[alg], NEW w \in Seq(Int), NEW tw,
         Holds(b, out, buf, input, later, w, tw), NEW x \in Seq(Nat), NEW full, NEW partial,
         Turn(b, Entry(Filled(b), x), full, partial),
         Len(Filled(b)) = b => x = tw[Len(out) + 1]
  PROVE  /\ Holds(b, out', buf', input', later', w, tw)
         /\ \/ Len(out') = Len(out) + 1 /\ cnt' = full /\ buf' = <<>>
            \/ out' = out /\ cnt' = partial /\ Len(buf') = Len(buf) + Taken(b) /\ Len(buf') # b
         /\ Len(input') = Len(input) - Taken(b) /\ later' = later /\ Taken(b) \in 0..Len(input)
         /\ Len(Filled(b)) = Len(buf) + Taken(b)
<1>1. buf \in Seq(Int) /\ input \in Seq(Int) /\ later \in Seq(Int) /\ out \in Seq(Compression)
  BY TypeFacts
<1>2. Len(buf) <= b
  BY BufferFits
<1>3. Taken(b) \in 0..Len(input) /\ Len(Rest(Taken(b))) = Len(input) - Taken(b) /\ Rest(Taken(b)) \in Seq(Int)
  BY <1>1, <1>2, TakenFacts
<1>4. /\ Holds(b, out, Filled(b), Rest(Taken(b)), later, w, tw)
      /\ Filled(b) \in Seq(Int) /\ Len(Filled(b)) = Len(buf) + Taken(b)
  <2> DEFINE m == Taken(b)
             f == buf \o SubSeq(input, 1, m)
             r == SubSeq(input, m + 1, Len(input))
  <2>1. m \in 0..Len(input)
    BY <1>3
  <2>2. Filled(b) = f /\ Rest(Taken(b)) = r
    BY DEF Filled, Rest
  <2>5. Holds(b, out, buf, input, later, w, tw)
    OBVIOUS
  <2> HIDE DEF m
  <2>3. Holds(b, out, f, r, later, w, tw)
    BY <1>1, <2>1, <2>5, TakeHolds
  <2>4. f \in Seq(Int) /\ Len(f) = Len(buf) + m
    BY <1>1, <2>1, <2>5, TakeHolds
  <2> HIDE DEF f, r
  <2> QED BY <2>2, <2>3, <2>4 DEF m
<1>5. input' = Rest(Taken(b)) /\ later' = later
  BY DEF Turn
<1>6. CASE Len(Filled(b)) = b
  <2>1. buf' = <<>> /\ out' = Append(out, Entry(Filled(b), x)) /\ cnt' = full
    BY <1>6 DEF Turn
  <2>2. x = tw[Len(out) + 1]
    BY <1>6
  <2> DEFINE s == Filled(b)
             r == Rest(Taken(b))
  <2>3. s \in Seq(Int) /\ r \in Seq(Int) /\ Holds(b, out, s, r, later, w, tw) /\ Len(s) = b
    BY <1>3, <1>4, <1>6
  <2>6. out' = Append(out, Entry(s, x)) /\ input' = r
    BY <1>5, <2>1
  <2> HIDE DEF s, r
  <2>4. Holds(b, Append(out, Entry(s, x)), <<>>, r, later, w, tw)
    BY <1>1, <2>2, <2>3, FullHolds
  <2>5. Len(Append(out, Entry(s, x))) = Len(out) + 1
    BY <1>1, <2>2, <2>3, FullHolds
  <2> QED BY <1>3, <1>4, <1>5, <2>1, <2>4, <2>5, <2>6
<1>7. CASE Len(Filled(b)) # b
  <2>1. buf' = Filled(b) /\ out' = out /\ cnt' = partial
    BY <1>7 DEF Turn
  <2> QED BY <1>3, <1>4, <1>5, <1>7, <2>1
<1> QED BY <1>6, <1>7

(* One turn of a lazy loop.                                                  *)
LEMMA LateTurn ==
  ASSUME TypeInv, Lazy(alg), NEW b \in Nat \ {0}, b = BlockLen[alg], NEW w \in Seq(Int), NEW tw,
         Holds(b, out, buf, input, later, w, tw), NEW x \in Seq(Nat), NEW full,
         LazyTurn(b, Entry(buf, x), full),
         Len(buf) = b => x = tw[Len(out) + 1]
  PROVE  /\ Holds(b, out', buf', input', later', w, tw)
         /\ \/ Len(out') = Len(out) + 1 /\ cnt' = full
            \/ out' = out /\ cnt' = cnt
         /\ later' = later
         /\ Len(buf') > 0
<1>1. buf \in Seq(Int) /\ input \in Seq(Int) /\ later \in Seq(Int) /\ out \in Seq(Compression)
      /\ Len(buf) \in Nat /\ Len(input) \in Nat
  BY TypeFacts
<1>2. Len(buf) <= b
  BY BufferFits
<1> DEFINE kept == IF Len(buf) = b THEN <<>> ELSE buf
           m == Lower(b - Len(kept), Len(input))
<1>3. buf' = kept \o SubSeq(input, 1, m) /\ input' = SubSeq(input, m + 1, Len(input)) /\ later' = later
  BY DEF LazyTurn, Rest
<1>4. kept \in Seq(Int) /\ Len(kept) \in Nat /\ Len(kept) < b
  <2>1. <<>> \in Seq(Int) /\ Len(<<>>) = 0
    OBVIOUS
  <2>2. CASE Len(buf) = b
    <3>1. kept = <<>>
      BY <2>2
    <3> HIDE DEF kept
    <3> QED BY <2>1, <3>1
  <2>3. CASE Len(buf) # b
    <3>1. kept = buf
      BY <2>3
    <3> HIDE DEF kept
    <3> QED BY <1>1, <1>2, <2>3, <3>1
  <2> QED BY <2>2, <2>3
<1>5. input # <<>> /\ Len(input) > 0
  <2>1. input # <<>>
    BY DEF LazyTurn
  <2> QED BY <1>1, <2>1, EmptySeq
<1> DEFINE o == IF Len(buf) = b THEN Append(out, Entry(buf, x)) ELSE out
<1>6. o \in Seq(Compression) /\ Holds(b, o, kept, input, later, w, tw)
  <2>1. CASE Len(buf) = b
    <3>1. Holds(b, Append(out, Entry(buf, x)), <<>>, input, later, w, tw)
          /\ Append(out, Entry(buf, x)) \in Seq(Compression)
      BY <1>1, <2>1, FullHolds
    <3> QED BY <2>1, <3>1
  <2>2. CASE Len(buf) # b
    BY <1>1, <2>2
  <2> QED BY <2>1, <2>2
<1>7. \/ out' = o /\ Len(o) = Len(out) + 1 /\ cnt' = full
      \/ out' = o /\ o = out /\ cnt' = cnt
  <2>1. CASE Len(buf) = b
    <3>1. Len(Append(out, Entry(buf, x))) = Len(out) + 1
      BY <1>1, <2>1, FullHolds
    <3> QED BY <2>1, <3>1 DEF LazyTurn
  <2>2. CASE Len(buf) # b
    BY <2>2 DEF LazyTurn
  <2> QED BY <2>1, <2>2
<1> HIDE DEF kept, o
<1>8. m \in 0..Len(input) /\ m > 0
  BY <1>1, <1>4, <1>5 DEF Lower
<1> HIDE DEF m
<1>9. /\ Holds(b, o, kept \o SubSeq(input, 1, m), SubSeq(input, m + 1, Len(input)), later, w, tw)
      /\ Len(kept \o SubSeq(input, 1, m)) = Len(kept) + m
  <2>1. o \in Seq(Compression) /\ kept \in Seq(Int) /\ input \in Seq(Int) /\ later \in Seq(Int)
        /\ m \in 0..Len(input) /\ Holds(b, o, kept, input, later, w, tw)
    BY <1>1, <1>4, <1>6, <1>8
  <2>2. Holds(b, o, kept \o SubSeq(input, 1, m), SubSeq(input, m + 1, Len(input)), later, w, tw)
    BY <2>1, TakeHolds
  <2>3. Len(kept \o SubSeq(input, 1, m)) = Len(kept) + m
    <3>1. SubSeq(input, 1, m) \in Seq(Int) /\ Len(SubSeq(input, 1, m)) = m
      BY <2>1
    <3> DEFINE q == SubSeq(input, 1, m)
    <3>2. kept \in Seq(Int) /\ q \in Seq(Int) /\ Len(q) = m
      BY <2>1, <3>1
    <3> HIDE DEF q
    <3>3. Len(kept \o q) = Len(kept) + Len(q)
      BY <3>2, CatType
    <3> QED BY <3>2, <3>3 DEF q
  <2> QED BY <2>2, <2>3
<1>11. Len(buf') = Len(kept) + m /\ m \in Nat
  BY <1>3, <1>8, <1>9
<1>12. Len(buf') > 0
  BY <1>4, <1>8, <1>11
<1> QED BY <1>3, <1>7, <1>9, <1>12

LEMMA TimesLess ==
  ASSUME NEW b \in Nat, NEW i \in Nat, NEW k \in Nat, i <= k
  PROVE  b * i <= b * k /\ b * i \in Nat /\ b * k \in Nat
<1> DEFINE d == k - i
<1>1. d \in Nat /\ k = i + d
  OBVIOUS
<1> HIDE DEF d
<1>2. b * (i + d) = b * i + b * d /\ b * i \in Nat /\ b * d \in Nat
  BY <1>1
<1> QED BY <1>1, <1>2

(* More bytes behind: what has been compressed is the same.                  *)
LEMMA PrefixBlocks ==
  ASSUME NEW b \in Nat, NEW o \in Seq(Compression), NEW w \in Seq(Int), NEW v \in Seq(Int), b * Len(o) <= Len(w)
  PROVE  \A i \in 1..Len(o) : SubSeq(w, b * (i - 1) + 1, b * i) = SubSeq(w \o v, b * (i - 1) + 1, b * i)
<1>1. Len(o) \in Nat /\ Len(w) \in Nat /\ Len(v) \in Nat
  BY LenProperties
<1> DEFINE u == w \o v
<1>2. u \in Seq(Int) /\ Len(u) = Len(w) + Len(v) /\ \A j \in 1..Len(w) : u[j] = w[j]
  <2>1. /\ u \in Seq(Int) /\ Len(u) = Len(w) + Len(v)
        /\ \A j \in 1..(Len(w) + Len(v)) : u[j] = IF j <= Len(w) THEN w[j] ELSE v[j - Len(w)]
    BY ConcatProperties
  <2>2. \A j \in 1..Len(w) : j \in 1..(Len(w) + Len(v)) /\ j <= Len(w)
    BY <1>1
  <2> QED BY <2>1, <2>2
<1> HIDE DEF u
<1>3. ASSUME NEW i \in 1..Len(o)
      PROVE  SubSeq(w, b * (i - 1) + 1, b * i) = SubSeq(u, b * (i - 1) + 1, b * i)
  <2> DEFINE x == b * (i - 1)
  <2>1. i \in Nat /\ i - 1 \in Nat /\ i <= Len(o) /\ i = (i - 1) + 1
    BY <1>1
  <2>2. b * i <= b * Len(o) /\ b * i \in Nat /\ b * Len(o) \in Nat
    BY <1>1, <2>1, TimesLess
  <2>3. x \in Nat /\ b * i = x + b
    BY <2>1
  <2> HIDE DEF x
  <2>4. x + b <= Len(w) /\ x + b <= Len(u)
    <3> DEFINE y == b * Len(o)
    <3>1. y \in Nat /\ y <= Len(w) /\ x + b <= y
      BY <2>2, <2>3
    <3> HIDE DEF y
    <3>2. x + b <= Len(w)
      BY <1>1, <2>3, <3>1
    <3>3. Len(w) <= Len(u)
      BY <1>1, <1>2
    <3>4. Len(u) \in Nat
      BY <1>1, <1>2
    <3> QED BY <1>1, <2>3, <3>2, <3>3, <3>4
  <2> DEFINE c == SubSeq(w, x + 1, x + b)
             d == SubSeq(u, x + 1, x + b)
  <2>5. c \in Seq(Int) /\ Len(c) = b /\ \A j \in 1..b : c[j] = w[x + j]
    BY <2>3, <2>4, PartIs
  <2>6. d \in Seq(Int) /\ Len(d) = b /\ \A j \in 1..b : d[j] = u[x + j]
    BY <1>2, <2>3, <2>4, PartIs
  <2> HIDE DEF c, d
  <2>7. \A j \in 1..b : c[j] = d[j]
    <3> SUFFICES ASSUME NEW j \in 1..b PROVE c[j] = d[j]
      OBVIOUS
    <3>1. x + j \in 1..Len(w)
      BY <1>1, <2>3, <2>4
    <3> QED BY <1>2, <2>5, <2>6, <3>1
  <2>8. c = d
    BY <2>5, <2>6, <2>7, SameBytes
  <2> QED BY <2>3, <2>8 DEF c, d, x
<1> QED BY <1>3 DEF u

LEMMA PrefixCompressed ==
  ASSUME NEW b \in Nat, NEW o \in Seq(Compression), NEW w \in Seq(Int), NEW v \in Seq(Int), NEW tw, NEW ty,
         Compressed(b, o, w, tw), b * Len(o) <= Len(w), \A i \in 1..Len(o) : ty[i] = tw[i]
  PROVE  Compressed(b, o, w \o v, ty)
<1> DEFINE u == w \o v
<1>1. \A i \in 1..Len(o) : SubSeq(w, b * (i - 1) + 1, b * i) = SubSeq(u, b * (i - 1) + 1, b * i)
  BY PrefixBlocks
<1> HIDE DEF u
<1>2. \A i \in 1..Len(o) : o[i] = Entry(SubSeq(u, b * (i - 1) + 1, b * i), ty[i])
  <2> SUFFICES ASSUME NEW i \in 1..Len(o) PROVE o[i] = Entry(SubSeq(u, b * (i - 1) + 1, b * i), ty[i])
    OBVIOUS
  <2>1. o[i] = Entry(SubSeq(w, b * (i - 1) + 1, b * i), tw[i]) /\ ty[i] = tw[i]
    BY DEF Compressed
  <2>2. SubSeq(w, b * (i - 1) + 1, b * i) = SubSeq(u, b * (i - 1) + 1, b * i)
    BY <1>1
  <2> QED BY <2>1, <2>2
<1>3. Compressed(b, o, u, ty)
  BY <1>2 DEF Compressed
<1> QED BY <1>3 DEF u

\* What is compressed of a prefix is so of the prefix alone.
LEMMA CompressedPrefix ==
  ASSUME NEW b \in Nat, NEW o \in Seq(Compression), NEW w \in Seq(Int), NEW v \in Seq(Int), NEW tw,
         Compressed(b, o, w \o v, tw), b * Len(o) <= Len(w)
  PROVE  Compressed(b, o, w, tw)
<1> DEFINE u == w \o v
<1>1. \A i \in 1..Len(o) : SubSeq(w, b * (i - 1) + 1, b * i) = SubSeq(u, b * (i - 1) + 1, b * i)
  BY PrefixBlocks
<1>2. Compressed(b, o, u, tw)
  OBVIOUS
<1> HIDE DEF u
<1>3. \A i \in 1..Len(o) : o[i] = Entry(SubSeq(u, b * (i - 1) + 1, b * i), tw[i])
  BY <1>2 DEF Compressed
<1>4. \A i \in 1..Len(o) : o[i] = Entry(SubSeq(w, b * (i - 1) + 1, b * i), tw[i])
  BY <1>1, <1>3
<1> QED BY <1>4 DEF Compressed

LEMMA ExtendLaid ==
  ASSUME NEW p \in Nat, NEW s \in Seq(Int), NEW t \in Seq(Int), NEW l \in Seq(Int), NEW w \in Seq(Int),
         Laid(p, s, <<>>, <<>>, w)
  PROVE  Laid(p, s, t, l, w \o (t \o l))
<1>1. Len(s) \in Nat /\ Len(t) \in Nat /\ Len(l) \in Nat /\ Len(w) \in Nat
  BY LenProperties
<1>2. p + Len(s) = Len(w) /\ \A j \in 1..Len(s) : s[j] = w[p + j]
  <2> DEFINE z == <<>>
  <2>1. Len(z) = 0
    OBVIOUS
  <2> HIDE DEF z
  <2>2. Laid(p, s, z, z, w)
    BY DEF z
  <2>3. p + Len(s) + Len(z) + Len(z) = Len(w) /\ \A j \in 1..Len(s) : s[j] = w[p + j]
    BY <2>2 DEF Laid
  <2> QED BY <1>1, <2>1, <2>3
<1> DEFINE v == t \o l
           u == w \o v
           ls == Len(s)
           lt == Len(t)
           ll == Len(l)
           lw == Len(w)
<1>3. v \in Seq(Int)
  BY ConcatProperties
<1>4. Len(v) = lt + ll /\ \A j \in 1..(lt + ll) : v[j] = IF j <= lt THEN t[j] ELSE l[j - lt]
  BY ConcatProperties
<1> HIDE DEF v
<1>5. Len(u) = lw + Len(v) /\ \A j \in 1..(lw + Len(v)) : u[j] = IF j <= lw THEN w[j] ELSE v[j - lw]
  BY <1>3, ConcatProperties
<1> HIDE DEF u
<1>6. ls \in Nat /\ lt \in Nat /\ ll \in Nat /\ lw \in Nat /\ p + ls = lw
  BY <1>1, <1>2
<1>7. \A j \in 1..ls : s[j] = w[p + j]
  BY <1>2
<1> HIDE DEF ls, lt, ll, lw
<1>8. Len(u) = lw + (lt + ll) /\ \A j \in 1..(lw + (lt + ll)) : u[j] = IF j <= lw THEN w[j] ELSE v[j - lw]
  BY <1>4, <1>5
<1>9. p + ls + lt + ll = Len(u)
  BY <1>6, <1>8
<1>10. ASSUME NEW j \in 1..ls PROVE s[j] = u[p + j]
  <2>1. p + j \in 1..(lw + (lt + ll)) /\ p + j <= lw
    BY <1>6
  <2> QED BY <1>7, <1>8, <2>1
<1>11. ASSUME NEW j \in 1..lt PROVE t[j] = u[p + ls + j]
  <2> DEFINE i == p + ls + j
  <2>1. i \in 1..(lw + (lt + ll)) /\ ~(i <= lw) /\ i - lw = j /\ j \in 1..(lt + ll) /\ j <= lt
    BY <1>6
  <2> HIDE DEF i
  <2>2. u[i] = v[i - lw]
    BY <1>8, <2>1
  <2>3. v[j] = t[j]
    BY <1>4, <2>1
  <2> QED BY <2>1, <2>2, <2>3 DEF i
<1>12. ASSUME NEW j \in 1..ll PROVE l[j] = u[p + ls + lt + j]
  <2> DEFINE i == p + ls + lt + j
             k == lt + j
  <2>1. /\ i \in 1..(lw + (lt + ll)) /\ ~(i <= lw) /\ i - lw = k
        /\ k \in 1..(lt + ll) /\ ~(k <= lt) /\ k - lt = j
    BY <1>6
  <2> HIDE DEF i, k
  <2>2. u[i] = v[i - lw]
    BY <1>8, <2>1
  <2>3. v[k] = l[k - lt]
    BY <1>4, <2>1
  <2> QED BY <2>1, <2>2, <2>3 DEF i
<1>13. Laid(p, s, t, l, u)
  BY <1>9, <1>10, <1>11, <1>12 DEF Laid, ls, lt, ll
<1> QED BY <1>13 DEF u, v

LEMMA ExtendHolds ==
  ASSUME NEW b \in Nat, NEW o \in Seq(Compression), NEW s \in Seq(Int), NEW w \in Seq(Int), NEW tw, NEW ty,
         Holds(b, o, s, <<>>, <<>>, w, tw), NEW t \in Seq(Int), NEW l \in Seq(Int),
         \A i \in 1..Len(o) : ty[i] = tw[i]
  PROVE  Holds(b, o, s, t, l, w \o (t \o l), ty)
<1> DEFINE p == b * Len(o)
           v == t \o l
<1>1. Len(o) \in Nat /\ Len(w) \in Nat /\ Len(s) \in Nat
  BY LenProperties
<1>2. p \in Nat
  BY <1>1
<1>3. Laid(p, s, <<>>, <<>>, w) /\ Compressed(b, o, w, tw)
  BY DEF Holds
<1>4. Laid(p, s, t, l, w \o v)
  <2> HIDE DEF p
  <2> QED BY <1>2, <1>3, ExtendLaid
<1>5. v \in Seq(Int)
  BY ConcatProperties
<1>6. p <= Len(w)
  <2> DEFINE z == <<>>
  <2>1. Len(z) = 0
    OBVIOUS
  <2> HIDE DEF z, p
  <2>2. Laid(p, s, z, z, w)
    BY <1>3 DEF z
  <2>3. p + Len(s) + Len(z) + Len(z) = Len(w)
    BY <2>2 DEF Laid
  <2> QED BY <1>1, <1>2, <2>1, <2>3
<1> HIDE DEF v
<1>7. Compressed(b, o, w \o v, ty)
  BY <1>3, <1>5, <1>6, PrefixCompressed
<1> QED BY <1>4, <1>7 DEF Holds, v

LEMMA MessageMore ==
  ASSUME NEW f \in Nat, NEW k \in Nat
  PROVE  Message(0, f) \o Message(f, k) = Message(0, f + k)
<1> DEFINE u == Message(0, f)
           v == Message(f, k)
           w == Message(0, f + k)
<1>1. u \in Seq(Int) /\ Len(u) = f /\ \A j \in 1..f : u[j] = j
  <2>1. u \in Bytes(f)
    BY MessageType
  <2> QED BY <2>1 DEF Bytes, Message
<1>2. v \in Seq(Int) /\ Len(v) = k /\ \A j \in 1..k : v[j] = f + j
  <2>1. v \in Bytes(k)
    BY MessageType
  <2> QED BY <2>1 DEF Bytes, Message
<1>3. w \in Seq(Int) /\ Len(w) = f + k /\ \A j \in 1..(f + k) : w[j] = j
  <2>1. w \in Bytes(f + k)
    BY MessageType
  <2> QED BY <2>1 DEF Bytes, Message
<1> HIDE DEF u, v, w
<1> DEFINE q == u \o v
<1>4. q \in Seq(Int)
  BY <1>1, <1>2, ConcatProperties
<1>5. Len(q) = f + k /\ \A j \in 1..(f + k) : q[j] = IF j <= f THEN u[j] ELSE v[j - f]
  BY <1>1, <1>2, ConcatProperties
<1> HIDE DEF q
<1>6. \A j \in 1..(f + k) : q[j] = w[j]
  <2> SUFFICES ASSUME NEW j \in 1..(f + k) PROVE q[j] = w[j]
    OBVIOUS
  <2>1. CASE j <= f
    <3>1. j \in 1..f
      BY <2>1
    <3> QED BY <1>1, <1>3, <1>5, <2>1, <3>1
  <2>2. CASE ~(j <= f)
    <3>1. j - f \in 1..k /\ f + (j - f) = j
      BY <2>2
    <3>2. q[j] = v[j - f]
      BY <1>5, <2>2
    <3>3. v[j - f] = f + (j - f)
      BY <1>2, <3>1
    <3> QED BY <1>3, <3>1, <3>2, <3>3
  <2> QED BY <2>1, <2>2
<1>7. q = w
  BY <1>3, <1>4, <1>5, <1>6, SameBytes
<1> QED BY <1>7 DEF q, u, v, w

LEMMA MessageIs ==
  ASSUME NEW f \in Nat
  PROVE  Message(0, f) \in Seq(Int) /\ Len(Message(0, f)) = f
<1>1. Message(0, f) \in Bytes(f)
  BY MessageType
<1> QED BY <1>1 DEF Bytes

LEMMA FrontOf ==
  ASSUME NEW t \in Seq(Int), NEW r \in Seq(Int)
  PROVE  /\ t \o r \in Seq(Int) /\ Len(t \o r) = Len(t) + Len(r)
         /\ SubSeq(t \o r, 1, Len(t)) = t
         /\ SubSeq(t \o r, Len(t) + 1, Len(t \o r)) = r
<1> DEFINE u == t \o r
           m == Len(t)
           k == Len(r)
<1>1. u \in Seq(Int)
  BY ConcatProperties
<1>2. Len(u) = m + k /\ \A j \in 1..(m + k) : u[j] = IF j <= m THEN t[j] ELSE r[j - m]
  BY ConcatProperties
<1>3. m \in Nat /\ k \in Nat
  BY LenProperties
<1>4. t \in Seq(Int) /\ r \in Seq(Int) /\ Len(t) = m /\ Len(r) = k
  OBVIOUS
<1> HIDE DEF u, m, k
<1> DEFINE c == SubSeq(u, 0 + 1, 0 + m)
           d == SubSeq(u, m + 1, m + k)
<1>5. c \in Seq(Int) /\ Len(c) = m /\ \A j \in 1..m : c[j] = u[0 + j]
  <2>1. 0 + m <= Len(u) /\ 0 \in Nat
    BY <1>2, <1>3
  <2> QED BY <1>1, <1>3, <2>1, PartIs
<1>6. d \in Seq(Int) /\ Len(d) = k /\ \A j \in 1..k : d[j] = u[m + j]
  <2>1. m + k <= Len(u)
    BY <1>2, <1>3
  <2> QED BY <1>1, <1>3, <2>1, PartIs
<1>7. c = SubSeq(u, 1, m)
  <2>1. 0 + 1 = 1 /\ 0 + m = m
    BY <1>3
  <2> QED BY <2>1
<1> HIDE DEF c, d
<1>8. c = t
  <2>1. \A j \in 1..m : c[j] = t[j]
    <3> SUFFICES ASSUME NEW j \in 1..m PROVE c[j] = t[j]
      OBVIOUS
    <3>1. 0 + j = j /\ j \in 1..(m + k) /\ j <= m
      BY <1>3
    <3> QED BY <1>2, <1>5, <3>1
  <2> QED BY <1>4, <1>5, <2>1, SameBytes
<1>9. d = r
  <2>1. \A j \in 1..k : d[j] = r[j]
    <3> SUFFICES ASSUME NEW j \in 1..k PROVE d[j] = r[j]
      OBVIOUS
    <3>1. m + j \in 1..(m + k) /\ ~(m + j <= m) /\ (m + j) - m = j
      BY <1>3
    <3> QED BY <1>2, <1>6, <3>1
  <2> QED BY <1>4, <1>6, <2>1, SameBytes
<1>10. SubSeq(u, 1, m) = t
  BY <1>7, <1>8
<1>11. SubSeq(u, m + 1, Len(u)) = r
  BY <1>2, <1>9 DEF d
<1> QED BY <1>1, <1>2, <1>10, <1>11 DEF u, m, k

(* A block of the padding: the buffer and what fills it.                     *)
LEMMA BlockHolds ==
  ASSUME NEW b \in Nat, NEW o \in Seq(Compression), NEW s \in Seq(Int), NEW t \in Seq(Int), NEW r \in Seq(Int),
         NEW w \in Seq(Int), NEW tw, Holds(b, o, s, t \o r, <<>>, w, tw), Len(s) + Len(t) = b,
         NEW x \in Seq(Nat), x = tw[Len(o) + 1]
  PROVE  /\ Holds(b, Append(o, Entry(s \o t, x)), <<>>, r, <<>>, w, tw)
         /\ Append(o, Entry(s \o t, x)) \in Seq(Compression)
         /\ Len(Append(o, Entry(s \o t, x))) = Len(o) + 1
<1> DEFINE u == t \o r
           m == Len(t)
           g == s \o t
<1>1. u \in Seq(Int) /\ Len(u) = Len(t) + Len(r)
  BY FrontOf
<1>2. SubSeq(u, 1, m) = t /\ SubSeq(u, m + 1, Len(u)) = r
  BY FrontOf
<1>3. Len(t) \in Nat /\ Len(r) \in Nat
  BY LenProperties
<1>4. m \in 0..Len(u)
  BY <1>1, <1>3
<1>5. Holds(b, o, s, u, <<>>, w, tw)
  OBVIOUS
<1>6. g \in Seq(Int) /\ Len(g) = Len(s) + Len(t)
  BY ConcatProperties
<1> HIDE DEF u, m
<1> DEFINE z == <<>>
<1>7. z \in Seq(Int)
  OBVIOUS
<1>8. Holds(b, o, s, u, z, w, tw)
  BY <1>5
<1> HIDE DEF z
<1>9. Holds(b, o, s \o SubSeq(u, 1, m), SubSeq(u, m + 1, Len(u)), z, w, tw)
  BY <1>1, <1>4, <1>7, <1>8, TakeHolds
<1>10. Holds(b, o, g, r, z, w, tw)
  BY <1>2, <1>9
<1>11. Len(g) = b
  BY <1>6
<1> HIDE DEF g
<1>12. Holds(b, Append(o, Entry(g, x)), <<>>, r, z, w, tw)
  BY <1>6, <1>7, <1>10, <1>11, FullHolds
<1>13. Entry(g, x) \in Compression
  BY <1>6, EntryType
<1>14. Append(o, Entry(g, x)) \in Seq(Compression) /\ Len(Append(o, Entry(g, x))) = Len(o) + 1
  BY <1>13, AppendProperties
<1> QED BY <1>12, <1>14 DEF g, z

(* When all bytes have gone in, the compressions are those of the whole.     *)
LEMMA EndHolds ==
  ASSUME NEW b \in Nat \ {0}, NEW o \in Seq(Compression), NEW w \in Seq(Int), NEW tw,
         Holds(b, o, <<>>, <<>>, <<>>, w, tw)
  PROVE  /\ Len(o) = Len(w) \div b
         /\ o = [i \in 1..(Len(w) \div b) |-> Entry(SubSeq(w, b * (i - 1) + 1, b * i), tw[i])]
<1> DEFINE k == Len(o)
<1>1. k \in Nat /\ Len(w) \in Nat
  BY LenProperties
<1>2. Laid(b * k, <<>>, <<>>, <<>>, w) /\ Compressed(b, o, w, tw)
  BY DEF Holds
<1>3. \A i \in 1..k : o[i] = Entry(SubSeq(w, b * (i - 1) + 1, b * i), tw[i])
  BY <1>2 DEF Compressed
<1>4. o = [i \in 1..k |-> o[i]]
  BY SeqEqual
<1> HIDE DEF k
<1>5. Len(w) = b * k
  <2> DEFINE z == <<>>
             p == b * k
  <2>1. Len(z) = 0
    OBVIOUS
  <2>2. p \in Nat
    BY <1>1
  <2> HIDE DEF z, p
  <2>3. Laid(p, z, z, z, w)
    BY <1>2 DEF z, p
  <2>4. p + Len(z) + Len(z) + Len(z) = Len(w)
    BY <2>3 DEF Laid
  <2>5. p = Len(w)
    BY <1>1, <2>1, <2>2, <2>4
  <2> QED BY <2>5 DEF p
<1>6. Len(w) \div b = k
  <2>1. Len(w) = b * k + 0 /\ 0 \in Nat /\ 0 < b
    BY <1>1, <1>5
  <2> QED BY <1>1, <2>1, ModIs
<1>7. [i \in 1..k |-> o[i]] = [i \in 1..k |-> Entry(SubSeq(w, b * (i - 1) + 1, b * i), tw[i])]
  BY <1>3
<1>8. o = [i \in 1..k |-> Entry(SubSeq(w, b * (i - 1) + 1, b * i), tw[i])]
  BY <1>4, <1>7
<1> QED BY <1>6, <1>8 DEF k

Tweaks(a, k) == [i \in Nat |-> Tweak(a, k, i)]

LEMMA StandardIs ==
  ASSUME NEW a \in Algo, NEW k \in Nat, NEW o \in Seq(Compression), Padded(a, k) \in Seq(Int),
         Holds(BlockLen[a], o, <<>>, <<>>, <<>>, Padded(a, k), Tweaks(a, k))
  PROVE  Standard(a, k) = o \o Output(a, k) /\ Count(a, k) = Len(o)
<1> DEFINE b == BlockLen[a]
           p == Padded(a, k)
           tw == Tweaks(a, k)
           m == Len(p) \div b
<1>1. b \in Nat \ {0}
  BY AlgoFacts
<1>2. p \in Seq(Int) /\ Holds(b, o, <<>>, <<>>, <<>>, p, tw)
  OBVIOUS
<1>3. Count(a, k) = m
  BY DEF Count
<1>4. Standard(a, k) = [i \in 1..m |-> Entry(SubSeq(p, b * (i - 1) + 1, b * i), Tweak(a, k, i))] \o Output(a, k)
  BY DEF Standard, Count
<1>5. \A i \in 1..m : tw[i] = Tweak(a, k, i)
  <2> HIDE DEF m
  <2>1. \A i \in Nat : tw[i] = Tweak(a, k, i)
    BY DEF Tweaks
  <2>2. m \in Nat
    BY <1>1, <1>2, DivType, LenProperties DEF m
  <2>3. \A i \in 1..m : i \in Nat
    BY <2>2
  <2> QED BY <2>1, <2>3
<1> HIDE DEF b, p, tw
<1>6. Len(o) = Len(p) \div b
  BY <1>1, <1>2, EndHolds
<1>7. o = [i \in 1..(Len(p) \div b) |-> Entry(SubSeq(p, b * (i - 1) + 1, b * i), tw[i])]
  BY <1>1, <1>2, EndHolds
<1> HIDE DEF m
<1>8. o = [i \in 1..m |-> Entry(SubSeq(p, b * (i - 1) + 1, b * i), tw[i])]
  BY <1>7 DEF m
<1>9. [i \in 1..m |-> Entry(SubSeq(p, b * (i - 1) + 1, b * i), tw[i])]
      = [i \in 1..m |-> Entry(SubSeq(p, b * (i - 1) + 1, b * i), Tweak(a, k, i))]
  BY <1>5
<1> QED BY <1>3, <1>4, <1>6, <1>8, <1>9 DEF m

(* The padding behind the message, when all of the message has been fed.     *)
LEMMA PadHolds ==
  ASSUME NEW a \in Algo, NEW k \in Nat, NEW o \in Seq(Compression), NEW s \in Seq(Int), NEW tw,
         Holds(BlockLen[a], o, s, <<>>, <<>>, Message(0, k), tw), Padding(a, k) \in Seq(Int),
         \A i \in 1..Len(o) : Tweak(a, k, i) = tw[i]
  PROVE  /\ Holds(BlockLen[a], o, s, Padding(a, k), <<>>, Padded(a, k), Tweaks(a, k))
         /\ Padded(a, k) \in Seq(Int)
<1> DEFINE b == BlockLen[a]
           p == Padding(a, k)
           m == Message(0, k)
           ty == Tweaks(a, k)
           z == <<>>
<1>1. b \in Nat
  <2>1. b \in {4, 8, 32, 64, 72, 128, 136}
    BY AlgoFacts
  <2> HIDE DEF b
  <2> QED BY <2>1
<1>2. m \in Seq(Int)
  BY MessageIs
<1>3. \A i \in 1..Len(o) : ty[i] = tw[i]
  <2>1. \A i \in 1..Len(o) : i \in Nat
    OBVIOUS
  <2>2. \A i \in Nat : ty[i] = Tweak(a, k, i)
    BY DEF Tweaks
  <2> QED BY <2>1, <2>2
<1>4. z \in Seq(Int) /\ p \in Seq(Int) /\ Holds(b, o, s, <<>>, <<>>, m, tw)
  OBVIOUS
<1>5. p \o z = p
  BY ConcatEmptySeq
<1>6. Padded(a, k) = m \o p
  BY DEF Padded
<1> HIDE DEF b, p, m, ty, z
<1>7. Holds(b, o, s, p, z, m \o (p \o z), ty)
  BY <1>1, <1>2, <1>3, <1>4, ExtendHolds
<1>8. m \o p \in Seq(Int)
  BY <1>2, <1>4, ConcatProperties
<1> QED BY <1>5, <1>6, <1>7, <1>8 DEF b, p, ty, z

LEMMA NextBlock ==
  ASSUME NEW b \in Nat, NEW o \in Seq(Compression), NEW u \in Seq(Int), NEW r \in Seq(Int),
         NEW w \in Seq(Int), NEW tw, Holds(b, o, <<>>, u \o r, <<>>, w, tw), Len(u) = b,
         NEW x \in Seq(Nat), x = tw[Len(o) + 1]
  PROVE  Holds(b, Append(o, Entry(u, x)), <<>>, r, <<>>, w, tw)
<1> DEFINE z == <<>>
<1>1. z \in Seq(Int) /\ Len(z) = 0 /\ Len(u) \in Nat
  OBVIOUS
<1>2. z \o u = u
  BY ConcatEmptySeq
<1>3. Holds(b, o, z, u \o r, <<>>, w, tw)
  OBVIOUS
<1> HIDE DEF z
<1>4. Len(z) + Len(u) = b
  BY <1>1
<1>5. Holds(b, Append(o, Entry(z \o u, x)), <<>>, r, <<>>, w, tw)
  BY <1>1, <1>3, <1>4, BlockHolds
<1> QED BY <1>2, <1>5

LEMMA AppendCat ==
  ASSUME NEW o \in Seq(Compression), NEW e \in Compression, NEW r \in Seq(Compression)
  PROVE  Append(o, e) \o r = o \o (<<e>> \o r) /\ <<e>> \o r \in Seq(Compression)
<1> DEFINE s == <<e>>
<1>1. s \in Seq(Compression)
  OBVIOUS
<1>2. Append(o, e) = o \o s
  BY AppendIsConcat
<1> HIDE DEF s
<1>3. (o \o s) \o r = o \o (s \o r)
  BY <1>1, ConcatAssociative
<1>4. s \o r \in Seq(Compression)
  BY <1>1, ConcatProperties
<1> QED BY <1>2, <1>3, <1>4 DEF s

(* The digest is standard when the rest and the padding are one block, two   *)
(* or three.                                                                 *)
(* The block of s and p with x beside it, and r; or two blocks.  The same    *)
(* after the compressions o.                                                 *)
One(s, p, x, r) == <<Entry(s \o p, x)>> \o r
Two(s, p, x, u, y, r) == <<Entry(s \o p, x)>> \o (<<Entry(u, y)>> \o r)
WithOne(o, s, p, x, r) == o \o One(s, p, x, r)
WithTwo(o, s, p, x, u, y, r) == o \o Two(s, p, x, u, y, r)

(* What is left of the message and the padding p make one block.             *)
EndsInOne(a, k, o, s, tw, p, x, r) ==
  /\ a \in Algo /\ k \in Nat /\ o \in Seq(Compression) /\ s \in Seq(Int)
  /\ Holds(BlockLen[a], o, s, <<>>, <<>>, Message(0, k), tw)
  /\ \A i \in 1..Len(o) : Tweak(a, k, i) = tw[i]
  /\ p \in Seq(Int) /\ p = Padding(a, k) /\ Len(s) + Len(p) = BlockLen[a]
  /\ x \in Seq(Nat) /\ x = Tweak(a, k, Len(o) + 1)
  /\ r \in Seq(Compression) /\ r = Output(a, k)

LEMMA OneBlock ==
  ASSUME NEW a, NEW k, NEW o, NEW s, NEW tw, NEW p, NEW x, NEW r, EndsInOne(a, k, o, s, tw, p, x, r)
  PROVE  Standard(a, k) = WithOne(o, s, p, x, r) /\ Count(a, k) = Len(o) + 1
<1>0. /\ a \in Algo /\ k \in Nat /\ o \in Seq(Compression) /\ s \in Seq(Int)
      /\ Holds(BlockLen[a], o, s, <<>>, <<>>, Message(0, k), tw)
      /\ \A i \in 1..Len(o) : Tweak(a, k, i) = tw[i]
      /\ p \in Seq(Int) /\ p = Padding(a, k) /\ Len(s) + Len(p) = BlockLen[a]
      /\ x \in Seq(Nat) /\ x = Tweak(a, k, Len(o) + 1)
      /\ r \in Seq(Compression) /\ r = Output(a, k)
  BY DEF EndsInOne
<1> USE <1>0
<1> DEFINE b == BlockLen[a]
           w == Padded(a, k)
           ty == Tweaks(a, k)
           g == s \o p
           e == Entry(g, x)
<1>1. b \in Nat
  <2>1. b \in {4, 8, 32, 64, 72, 128, 136}
    BY AlgoFacts
  <2> HIDE DEF b
  <2> QED BY <2>1
<1>2. Holds(b, o, s, p, <<>>, w, ty) /\ w \in Seq(Int)
  BY PadHolds
<1>3. x = ty[Len(o) + 1]
  <2>1. Len(o) + 1 \in Nat
    BY LenProperties
  <2> QED BY <2>1 DEF Tweaks
<1>4. Len(s) + Len(p) = b
  OBVIOUS
<1>5. g \in Seq(Int)
  BY ConcatProperties
<1>6. e \in Compression
  <2> HIDE DEF g
  <2> QED BY <1>5, EntryType
<1> DEFINE z == <<>>
<1>7. z \in Seq(Int) /\ p \o z = p
  BY ConcatEmptySeq
<1> HIDE DEF z, b, w, ty
<1>8. Holds(b, o, s, p \o z, <<>>, w, ty)
  BY <1>2, <1>7
<1>9. Holds(b, Append(o, Entry(s \o p, x)), <<>>, z, <<>>, w, ty)
  BY <1>1, <1>2, <1>3, <1>4, <1>7, <1>8, BlockHolds
<1> DEFINE q == Append(o, e)
<1>10. Holds(b, q, <<>>, z, <<>>, w, ty)
  BY <1>9
<1> HIDE DEF g, e
<1>11. q \in Seq(Compression) /\ Len(q) = Len(o) + 1
  BY <1>6, AppendProperties
<1>12. q \o r = o \o (<<e>> \o r)
  BY <1>6, AppendCat
<1> HIDE DEF q
<1>13. Standard(a, k) = q \o Output(a, k) /\ Count(a, k) = Len(q)
  <2>1. Holds(BlockLen[a], q, <<>>, <<>>, <<>>, Padded(a, k), Tweaks(a, k))
    BY <1>10 DEF b, w, ty, z
  <2>2. Padded(a, k) \in Seq(Int)
    BY <1>2 DEF w
  <2> QED BY <1>11, <2>1, <2>2, StandardIs
<1> QED BY <1>11, <1>12, <1>13 DEF e, g, WithOne, One

(* They make two: p fills the first, u is the second.                        *)
EndsInTwo(a, k, o, s, tw, p, u, x, y, r) ==
  /\ a \in Algo /\ k \in Nat /\ o \in Seq(Compression) /\ s \in Seq(Int)
  /\ Holds(BlockLen[a], o, s, <<>>, <<>>, Message(0, k), tw)
  /\ \A i \in 1..Len(o) : Tweak(a, k, i) = tw[i]
  /\ p \in Seq(Int) /\ u \in Seq(Int) /\ p \o u = Padding(a, k)
  /\ Len(s) + Len(p) = BlockLen[a] /\ Len(u) = BlockLen[a]
  /\ x \in Seq(Nat) /\ x = Tweak(a, k, Len(o) + 1)
  /\ y \in Seq(Nat) /\ y = Tweak(a, k, Len(o) + 2)
  /\ r \in Seq(Compression) /\ r = Output(a, k)

LEMMA TwoBlocks ==
  ASSUME NEW a, NEW k, NEW o, NEW s, NEW tw, NEW p, NEW u, NEW x, NEW y, NEW r,
         EndsInTwo(a, k, o, s, tw, p, u, x, y, r)
  PROVE  /\ Standard(a, k) = WithTwo(o, s, p, x, u, y, r)
         /\ Count(a, k) = Len(o) + 2
<1>0. /\ a \in Algo /\ k \in Nat /\ o \in Seq(Compression) /\ s \in Seq(Int)
      /\ Holds(BlockLen[a], o, s, <<>>, <<>>, Message(0, k), tw)
      /\ \A i \in 1..Len(o) : Tweak(a, k, i) = tw[i]
      /\ p \in Seq(Int) /\ u \in Seq(Int) /\ p \o u = Padding(a, k)
      /\ Len(s) + Len(p) = BlockLen[a] /\ Len(u) = BlockLen[a]
      /\ x \in Seq(Nat) /\ x = Tweak(a, k, Len(o) + 1)
      /\ y \in Seq(Nat) /\ y = Tweak(a, k, Len(o) + 2)
      /\ r \in Seq(Compression) /\ r = Output(a, k)
  BY DEF EndsInTwo
<1> USE <1>0
<1> DEFINE b == BlockLen[a]
           w == Padded(a, k)
           ty == Tweaks(a, k)
           g == s \o p
           e == Entry(g, x)
           f == Entry(u, y)
<1>1. b \in Nat
  <2>1. b \in {4, 8, 32, 64, 72, 128, 136}
    BY AlgoFacts
  <2> HIDE DEF b
  <2> QED BY <2>1
<1>2. p \o u \in Seq(Int)
  BY ConcatProperties
<1>3. Holds(b, o, s, p \o u, <<>>, w, ty) /\ w \in Seq(Int)
  BY <1>2, PadHolds
<1>4. x = ty[Len(o) + 1] /\ y = ty[Len(o) + 2] /\ Len(o) \in Nat
  <2>1. Len(o) + 1 \in Nat /\ Len(o) + 2 \in Nat /\ Len(o) \in Nat
    BY LenProperties
  <2> QED BY <2>1 DEF Tweaks
<1>5. Len(s) + Len(p) = b /\ Len(u) = b
  OBVIOUS
<1>6. g \in Seq(Int)
  BY ConcatProperties
<1>7. e \in Compression /\ f \in Compression
  <2> HIDE DEF g
  <2> QED BY <1>6, EntryType
<1> DEFINE z == <<>>
<1>8. z \in Seq(Int) /\ u \o z = u
  BY ConcatEmptySeq
<1> HIDE DEF z, b, w, ty
<1>9. Holds(b, Append(o, Entry(s \o p, x)), <<>>, u, <<>>, w, ty)
  BY <1>1, <1>3, <1>4, <1>5, BlockHolds
<1> DEFINE q == Append(o, e)
           v == Append(q, f)
<1>10. Holds(b, q, <<>>, u \o z, <<>>, w, ty)
  BY <1>8, <1>9
<1> HIDE DEF g, e
<1>11. q \in Seq(Compression) /\ Len(q) = Len(o) + 1
  BY <1>7, AppendProperties
<1>12. q \o (<<f>> \o r) = o \o (<<e>> \o (<<f>> \o r))
  <2> DEFINE i == <<f>> \o r
  <2>1. i \in Seq(Compression)
    BY <1>7, AppendCat
  <2> HIDE DEF i
  <2>2. q \o i = o \o (<<e>> \o i)
    BY <1>7, <2>1, AppendCat
  <2> QED BY <2>2 DEF i
<1> HIDE DEF q
<1>13. y = ty[Len(q) + 1]
  BY <1>4, <1>11
<1>14. Holds(b, Append(q, Entry(u, y)), <<>>, z, <<>>, w, ty)
  BY <1>1, <1>3, <1>5, <1>8, <1>10, <1>11, <1>13, NextBlock
<1>15. Holds(b, v, <<>>, z, <<>>, w, ty)
  BY <1>14
<1> HIDE DEF f
<1>16. v \in Seq(Compression) /\ Len(v) = Len(q) + 1
  BY <1>7, <1>11, AppendProperties
<1>17. v \o r = q \o (<<f>> \o r)
  BY <1>7, <1>11, AppendCat
<1> HIDE DEF v
<1>18. Standard(a, k) = v \o Output(a, k) /\ Count(a, k) = Len(v)
  <2>1. Holds(BlockLen[a], v, <<>>, <<>>, <<>>, Padded(a, k), Tweaks(a, k))
    BY <1>15 DEF b, w, ty, z
  <2>2. Padded(a, k) \in Seq(Int)
    BY <1>3 DEF w
  <2> QED BY <1>16, <2>1, <2>2, StandardIs
<1>19. Count(a, k) = Len(o) + 2
  BY <1>4, <1>11, <1>16, <1>18
<1>20. WithTwo(o, s, p, x, u, y, r) = o \o (<<e>> \o (<<f>> \o r))
  BY DEF WithTwo, Two, e, f, g
<1>21. v \o r = WithTwo(o, s, p, x, u, y, r) /\ Len(v) = Len(o) + 2
  <2>1. v \o r = WithTwo(o, s, p, x, u, y, r)
    BY <1>12, <1>17, <1>20
  <2>2. Len(o) \in Nat
    BY LenProperties
  <2> QED BY <1>11, <1>16, <2>1, <2>2
<1> QED BY <1>18, <1>21

-----------------------------------------------------------------------------
(* What a step leaves alone *)

(* The messages that callers have: whole units where the build wants them.   *)
Sized ==
  /\ fed \in (0..MaxFed[alg]) \union {InSize}
  /\ InUnits(alg) => fed % 16 = 0
  /\ fast /\ alg = "jh" => 8 * fed < Word["jh"]
  /\ fast /\ alg = "groestl" => (fed \div 16) % 8 # 7

LEMMA TurnFrame ==
  ASSUME NEW b, NEW e, NEW f, NEW p, Turn(b, e, f, p)
  PROVE  UNCHANGED <<fast, alg, phase, fed, later>>
BY DEF Turn

LEMMA LazyFrame ==
  ASSUME NEW b, NEW e, NEW f, LazyTurn(b, e, f)
  PROVE  UNCHANGED <<fast, alg, phase, fed, later>>
BY DEF LazyTurn

LEMMA LoopFrame ==
  ASSUME Loop
  PROVE  UNCHANGED <<fast, alg, phase, fed, later, chain>>
<1>1. UNCHANGED chain
  BY DEF Loop
<1>2. CASE PortableTurn
  <2>1. BlakeCore \/ BmwCore \/ GroestlCore \/ JhCore \/ KeccakCore \/ LuffaCore \/ CubehashCore
        => UNCHANGED <<fast, alg, phase, fed, later>>
    BY TurnFrame DEF BlakeCore, BlakeTurn, BmwCore, GroestlCore, JhCore, KeccakCore, LuffaCore, CubehashCore
  <2>2. HamsiCore \/ ShabalCore \/ Sha3Update => UNCHANGED <<fast, alg, phase, fed, later>>
    BY TurnFrame DEF HamsiCore, HamsiTurn, ShabalCore, Sha3Update
  <2>6. ShaviteCore => UNCHANGED <<fast, alg, phase, fed, later>>
    BY TurnFrame DEF ShaviteCore, ShaviteTurn
  <2>7. SimdCore => UNCHANGED <<fast, alg, phase, fed, later>>
    BY TurnFrame DEF SimdCore
  <2>8. EchoCore => UNCHANGED <<fast, alg, phase, fed, later>>
    BY TurnFrame DEF EchoCore
  <2>4. ASSUME NEW a, MdCore(a) PROVE UNCHANGED <<fast, alg, phase, fed, later>>
    BY <2>4, TurnFrame DEF MdCore
  <2>5. WhirlpoolCore \/ Sha512Core => UNCHANGED <<fast, alg, phase, fed, later>>
    BY <2>4 DEF WhirlpoolCore, Sha512Core
  <2>3. SkeinCore \/ FugueCore \/ FugueNothing => UNCHANGED <<fast, alg, phase, fed, later>>
    BY LazyFrame DEF SkeinCore, FugueCore, FugueNothing
  <2> QED BY <1>1, <1>2, <2>1, <2>2, <2>3, <2>5, <2>6, <2>7, <2>8 DEF PortableTurn
<1>3. CASE FastTurn
  <2>1. FastBlakeCore \/ GroestlBlocks \/ JhUpdate \/ LuffaUpdate \/ CubehashUpdate \/ FastShaviteCore
        => UNCHANGED <<fast, alg, phase, fed, later>>
    BY TurnFrame DEF FastBlakeCore, BlakeTurn, GroestlBlocks, JhUpdate, LuffaUpdate, CubehashUpdate,
       FastShaviteCore, ShaviteTurn
  <2>2. FastHamsiCore \/ FastWhirlpoolUpdate \/ KeccakFastLoopAbsorb => UNCHANGED <<fast, alg, phase, fed, later>>
    BY TurnFrame DEF FastHamsiCore, HamsiTurn, FastWhirlpoolUpdate, KeccakFastLoopAbsorb
  <2>3. SimdUpdate => UNCHANGED <<fast, alg, phase, fed, later>>
    BY TurnFrame DEF SimdUpdate
  <2>4. EchoUpdate => UNCHANGED <<fast, alg, phase, fed, later>>
    BY TurnFrame DEF EchoUpdate
  <2>5. FugueUpdate => UNCHANGED <<fast, alg, phase, fed, later>>
    BY TurnFrame DEF FugueUpdate
  <2> QED BY <1>1, <1>3, <2>1, <2>2, <2>3, <2>4, <2>5 DEF FastTurn
<1> QED BY <1>2, <1>3 DEF Loop

LEMMA CloseFrame ==
  ASSUME Close
  PROVE  UNCHANGED <<fast, alg, fed, chain>>
<1>1. UNCHANGED chain
  BY DEF Close
<1>2. ASSUME NEW e, Digest(e) PROVE UNCHANGED <<fast, alg, fed>>
  BY <1>2 DEF Digest
<1>3. ASSUME NEW d, NEW t, NEW c, Call(d, t, c) PROVE UNCHANGED <<fast, alg, fed>>
  BY <1>3 DEF Call
<1>4. BlakeSecond => UNCHANGED <<fast, alg, fed>>
  BY DEF BlakeSecond
<1>5. CASE PortableClose
  <2>1. BlakeClose \/ BmwClose => UNCHANGED <<fast, alg, fed>>
    BY <1>2, <1>3, <1>4 DEF BlakeClose, BlakeCall, BmwClose
  <2>2. GroestlClose \/ GroestlEnd \/ JhClose \/ JhEnd \/ KeccakClose \/ KeccakEnd => UNCHANGED <<fast, alg, fed>>
    BY <1>2, <1>3 DEF GroestlClose, GroestlEnd, JhClose, JhEnd, KeccakClose, KeccakEnd
  <2>3. SkeinClose \/ LuffaClose \/ CubehashClose \/ ShaviteClose \/ SimdClose => UNCHANGED <<fast, alg, fed>>
    BY <1>2 DEF SkeinClose, LuffaClose, CubehashClose, ShaviteClose, SimdClose
  <2>4. EchoClose \/ HamsiClose \/ FugueClose \/ FugueEnd => UNCHANGED <<fast, alg, fed>>
    BY <1>2, <1>3 DEF EchoClose, HamsiClose, FugueClose, FugueEnd
  <2>5. ShabalClose \/ WhirlpoolClose \/ Sha512Close \/ Sha3Final => UNCHANGED <<fast, alg, fed>>
    BY <1>2 DEF ShabalClose, WhirlpoolClose, Sha512Close, MdClose, Sha3Final
  <2> QED BY <1>1, <1>5, <2>1, <2>2, <2>3, <2>4, <2>5 DEF PortableClose
<1>6. CASE FastClose
  <2>1. FastBlakeClose \/ GroestlFinish \/ JhFinalize \/ LuffaFinal => UNCHANGED <<fast, alg, fed>>
    BY <1>2, <1>3, <1>4 DEF FastBlakeClose, BlakeCall, GroestlFinish, JhFinalize, LuffaFinal
  <2>2. CubehashDigest \/ FastShaviteClose => UNCHANGED <<fast, alg, fed>>
    BY <1>2 DEF CubehashDigest, FastShaviteClose
  <2>4. FastSimdClose => UNCHANGED <<fast, alg, fed>>
    BY <1>2 DEF FastSimdClose
  <2>5. EchoFinal => UNCHANGED <<fast, alg, fed>>
    BY <1>2 DEF EchoFinal
  <2>3. FastHamsiClose \/ FastFugueFinal \/ FastWhirlpoolClose \/ KeccakSponge => UNCHANGED <<fast, alg, fed>>
    BY <1>2 DEF FastHamsiClose, FastFugueFinal, FastWhirlpoolClose, MdClose, KeccakSponge
  <2> QED BY <1>1, <1>6, <2>1, <2>2, <2>3, <2>4, <2>5 DEF FastClose
<1> QED BY <1>5, <1>6 DEF Close

LEMMA SizedStart ==
  ASSUME NEW f \in BOOLEAN, NEW a \in Algo, NEW m, m = 0
  PROVE  /\ m \in (0..MaxFed[a]) \union {InSize}
         /\ f /\ a \in {"groestl", "luffa", "cubehash"} => m % 16 = 0
         /\ f /\ a = "jh" => 8 * m < Word["jh"]
         /\ f /\ a = "groestl" => (m \div 16) % 8 # 7
<1>1. MaxFed[a] \in Nat
  BY BoundsAssumption
<1>2. Word["jh"] \in Nat \ {0}
  BY AlgoFacts DEF Algo, Chained
<1>3. 0 % 16 = 0 /\ 8 * 0 = 0 /\ (0 \div 16) % 8 = 0
  OBVIOUS
<1> QED BY <1>1, <1>2, <1>3

LEMMA SizedInductive ==
  ASSUME LastUnit = FALSE, TypeInv, Sized, [Next]_vars
  PROVE  Sized'
<1>0. fast \in BOOLEAN /\ alg \in Algo /\ fed \in Nat
  BY TypeFacts
<1>1. ASSUME UNCHANGED <<fast, alg, fed>> PROVE Sized'
  BY <1>1 DEF Sized, InUnits
<1>2. CASE Loop
  BY <1>1, <1>2, LoopFrame
<1>3. CASE Close
  BY <1>1, <1>3, CloseFrame
<1>4. CASE Returned \/ UNCHANGED vars
  BY <1>1, <1>4 DEF Returned, vars, stream
<1>5. CASE Round
  <2>1. alg' \in Algo /\ fed' = 0 /\ fast' \in BOOLEAN
    BY <1>0, <1>5, AlgoFacts DEF Round
  <2> QED BY <2>1, SizedStart DEF Sized, InUnits
<1>6. CASE Update
  <2>1. alg' = alg /\ fast' = fast
    BY <1>6 DEF Update
  <2>2. CASE chain
    <3>1. fed = 0 /\ fed' = fed + InSize
      BY <1>6, <2>2 DEF Update
    <3>2. fed' = 32
      BY <3>1 DEF InSize
    <3>3. 32 % 16 = 0 /\ (32 \div 16) % 8 = 2
      OBVIOUS
    <3>4. alg = "jh" => 8 * 32 < Word["jh"]
      BY <1>0, RoomAssumption DEF InSize
    <3> QED BY <2>1, <3>2, <3>3, <3>4 DEF Sized, InUnits, InSize
  <2>3. CASE ~chain
    <3>1. PICK k \in IF fed = 0 THEN 1..MaxFed[alg] ELSE Chunks \ {0} : Fits(k) /\ fed' = fed + k
      BY <1>6, <2>3 DEF Update
    <3>2. k \in Nat /\ MaxFed[alg] \in Nat
      BY <1>0, <3>1, BoundsAssumption
    <3>3. fed' \in 0..MaxFed[alg]
      BY <1>0, <3>1, <3>2 DEF Fits
    <3>4. InUnits(alg) => fed' % 16 = 0
      <4> SUFFICES ASSUME InUnits(alg) PROVE fed' % 16 = 0
        OBVIOUS
      <4>1. fed % 16 = 0 /\ k % 16 = 0
        BY <3>1 DEF Sized, Fits
      <4>2. (fed + k) % 16 = 0
        BY <1>0, <3>2, <4>1
      <4> QED BY <3>1, <4>2
    <3>5. fast /\ alg = "jh" => 8 * fed' < Word["jh"]
      BY <3>1 DEF Fits
    <3>6. fast /\ alg = "groestl" => (fed' \div 16) % 8 # 7
      <4> SUFFICES ASSUME fast, alg = "groestl" PROVE (fed' \div 16) % 8 # 7
        OBVIOUS
      <4>1. fed = 0 /\ (k \div 16) % 8 # 7
        BY <3>1 DEF Fits, InOneCall
      <4>2. fed' = k
        BY <3>1, <3>2, <4>1
      <4> QED BY <4>1, <4>2
    <3> QED BY <2>1, <3>3, <3>4, <3>5, <3>6 DEF Sized, InUnits
  <2> QED BY <2>2, <2>3
<1> QED BY <1>2, <1>3, <1>4, <1>5, <1>6 DEF Next

-----------------------------------------------------------------------------
(* While the message comes in *)

(* What block i is compressed with when it is not the last.                  *)
Body(a) == [i \in Nat |->
  CASE a = "blake" -> InWords(1024 * i, Word[a], 2)
    [] a \in {"shavite", "echo"} -> InWords(1024 * i, Word[a], 4)
    [] a = "skein" -> InWords(64 * i, Word[a], 2) \o <<96 + 128 * Flag(i = 1)>>
    [] a \in {"simd", "hamsi"} -> <<0>>
    [] a = "fugue" -> <<(i - 1) % 3>>
    [] a = "shabal" -> InWords(i, Word[a], 2)
    [] OTHER -> <<>>]

(* Two words of a counter that holds m.                                      *)
HoldsCount(m) == cnt[1] = m % Word[alg] /\ cnt[2] = (m \div Word[alg]) % Word[alg]

(* What the counters of an open context say of the blocks that have gone in  *)
(* and of the message.                                                       *)
Counted ==
  LET w == Word[alg]
      k == Len(out)
  IN /\ alg = "blake" => HoldsCount(1024 * k)
     /\ alg = "shavite" \/ (alg = "echo" /\ ~fast) => HoldsCount(1024 * k) /\ cnt[3] = 0 /\ cnt[4] = 0
     /\ alg = "echo" /\ fast => cnt[1] = 1024 * k /\ cnt[2] = 1024 * k
     /\ alg = "bmw" => cnt[1] = (8 * fed) % w
     /\ alg = "groestl" \/ (alg = "jh" /\ ~fast) => cnt[1] = k % w
     /\ alg = "skein" => cnt[1] = k
     /\ alg = "simd" /\ ~fast => cnt[1] = k % w /\ cnt[2] = k \div w
     /\ alg = "hamsi" => cnt[1] = (64 * k) % w
     /\ alg = "fugue" => cnt[1] = (IF fast THEN 32 * k ELSE (8 * fed) % w) /\ cnt[2] = k % 3
     /\ alg = "shabal" => HoldsCount(k + 1)
     /\ alg = "whirlpool" /\ fast => cnt[1] = fed % w
     /\ alg = "sha512" \/ (alg = "whirlpool" /\ ~fast) => cnt[1] = (fed - Len(input)) % w

Consumed == Holds(BlockLen[alg], out, buf, input, later, Message(0, fed), Body(alg))

LEMMA EmptyHolds ==
  ASSUME NEW b \in Nat, NEW tw
  PROVE  Holds(b, <<>>, <<>>, <<>>, <<>>, Message(0, 0), tw)
<1> DEFINE z == <<>>
           m == Message(0, 0)
           p == b * 0
<1>1. m \in Seq(Int) /\ Len(m) = 0
  BY MessageIs
<1>2. Len(z) = 0
  OBVIOUS
<1>3. p = 0
  OBVIOUS
<1> HIDE DEF z, m, p
<1>4. Laid(p, z, z, z, m)
  <2>1. p + Len(z) + Len(z) + Len(z) = Len(m)
    BY <1>1, <1>2, <1>3
  <2>2. 1..Len(z) = {}
    BY <1>2
  <2> QED BY <2>1, <2>2 DEF Laid
<1>5. Compressed(b, z, m, tw)
  <2>1. 1..Len(z) = {}
    BY <1>2
  <2> QED BY <2>1 DEF Compressed
<1>6. Laid(b * Len(z), z, z, z, m)
  BY <1>2, <1>4 DEF p
<1> QED BY <1>5, <1>6 DEF Holds, z, m

LEMMA SmallMod ==
  ASSUME NEW w \in Nat \ {0}, NEW x \in Nat, x < w
  PROVE  x % w = x /\ x \div w = 0
<1>1. x = w * 0 + x /\ 0 \in Nat
  OBVIOUS
<1> QED BY <1>1, ModIs

LEMMA StartCount ==
  ASSUME NEW f \in BOOLEAN, NEW a \in Algo
  PROVE  /\ a \in {"blake", "fugue"} => ContextInit(f, a) = <<0, 0>>
         /\ a = "shavite" \/ (a = "echo" /\ ~f) => ContextInit(f, a) = <<0, 0, 0, 0>>
         /\ (a \in {"echo", "simd"} /\ (a = "echo" <=> f)) => ContextInit(f, a) = <<0, 0>>
         /\ a \in {"bmw", "groestl", "jh", "skein", "hamsi", "whirlpool", "sha512"} => ContextInit(f, a) = <<0>>
         /\ a = "shabal" => ContextInit(f, a) = <<1, 0>>
BY DEF ContextInit, PortableInit, Algo, Chained, BlakeInit, BmwInit, GroestlInit, JhInit,
       SkeinInit, ShaviteInit, SimdInit, EchoInit, HamsiInit, FugueInit, ShabalInit, MdInit

LEMMA StartCounted ==
  ASSUME alg \in Algo, fast \in BOOLEAN, fed = 0, cnt = ContextInit(fast, alg), input = <<>>, out = <<>>
  PROVE  Counted
<1> DEFINE w == Word[alg]
<1>1. w \in Nat \ {0}
  BY AlgoFacts
<1>2. Len(out) = 0 /\ Len(input) = 0
  OBVIOUS
<1>3. alg = "shabal" => 1 < w
  BY RoomAssumption DEF InSize
<1>4. alg = "shabal" => cnt = <<1, 0>>
  BY StartCount
<1>5. alg \in {"blake", "fugue"} => cnt[1] = 0 /\ cnt[2] = 0
  BY StartCount
<1>6. alg = "shavite" \/ (alg = "echo" /\ ~fast) => cnt[1] = 0 /\ cnt[2] = 0 /\ cnt[3] = 0 /\ cnt[4] = 0
  BY StartCount
<1>7. (alg = "echo" /\ fast) \/ (alg = "simd" /\ ~fast) => cnt[1] = 0 /\ cnt[2] = 0
  BY StartCount
<1>8. alg \in {"bmw", "groestl", "jh", "skein", "hamsi", "whirlpool", "sha512"} => cnt[1] = 0
  BY StartCount
<1>10. alg = "shabal" => cnt[1] = 1 /\ cnt[2] = 0
  BY <1>4
<1> HIDE DEF w
<1>11. 0 % w = 0 /\ 0 \div w = 0
  BY <1>1, SmallMod
<1>12. alg = "shabal" => 1 % w = 1 /\ 1 \div w = 0
  BY <1>1, <1>3, SmallMod
<1>13. 1024 * 0 = 0 /\ 8 * 0 = 0 /\ 64 * 0 = 0 /\ 32 * 0 = 0 /\ 0 + 1 = 1 /\ 0 - 0 = 0 /\ 0 % 3 = 0
  OBVIOUS
<1> QED BY <1>2, <1>5, <1>6, <1>7, <1>8, <1>10, <1>11, <1>12, <1>13 DEF Counted, HoldsCount, w

(* A context that has just been opened.                                      *)
LEMMA StartConsumed ==
  ASSUME alg \in Algo, fed = 0, buf = <<>>, input = <<>>, later = <<>>, out = <<>>
  PROVE  Consumed
<1>1. BlockLen[alg] \in Nat
  BY BlockType
<1> QED BY <1>1, EmptyHolds DEF Consumed

LEMMA UpdateConsumed ==
  ASSUME TypeInv, phase = "open", Consumed, input = <<>>, NEW k \in Nat,
         fed' = fed + k, input' = Message(fed, k), UNCHANGED <<alg, out, buf, later>>
  PROVE  Consumed'
<1> DEFINE b == BlockLen[alg]
           m == Message(0, fed)
           u == Message(fed, k)
           v == Message(0, fed + k)
           tw == Body(alg)
           z == <<>>
<1>1. b \in Nat
  BY TypeFacts, BlockType
<1>2. fed \in Nat /\ buf \in Seq(Int) /\ out \in Seq(Compression)
  BY TypeFacts
<1>3. later = z
  BY DEF TypeInv, Taking
<1>4. z \in Seq(Int)
  OBVIOUS
<1>5. m \in Seq(Int) /\ v \in Seq(Int)
  BY <1>2, MessageIs
<1>6. u \in Seq(Int)
  BY <1>2, MessageType DEF Bytes
<1>7. m \o u = v
  BY <1>2, MessageMore
<1>8. Holds(b, out, buf, z, z, m, tw)
  BY <1>3 DEF Consumed
<1>9. u \o z = u
  BY <1>6, ConcatEmptySeq
<1> HIDE DEF b, m, u, v, tw
<1>10. \A i \in 1..Len(out) : tw[i] = tw[i]
  OBVIOUS
<1>11. Holds(b, out, buf, u, z, m \o (u \o z), tw)
  <2> HIDE DEF z
  <2>1. Holds(b, out, buf, <<>>, <<>>, m, tw)
    BY <1>8 DEF z
  <2> QED BY <1>1, <1>2, <1>4, <1>5, <1>6, <1>10, <2>1, ExtendHolds
<1>12. Holds(b, out, buf, u, z, v, tw)
  BY <1>7, <1>9, <1>11
<1> QED BY <1>3, <1>12 DEF Consumed, b, u, v, tw

LEMMA UpdateCounted ==
  ASSUME TypeInv, phase = "open", Counted, input = <<>>, NEW k \in Nat,
         fed' = fed + k, input' = Message(fed, k), cnt' = EntryCount(k), UNCHANGED <<alg, fast, out>>
  PROVE  Counted'
<1> DEFINE w == Word[alg]
<1>1. w \in Nat \ {0} /\ alg \in Algo /\ fast \in BOOLEAN /\ fed \in Nat /\ Len(out) \in Nat
  BY TypeFacts, BlockType
<1>2. Len(input) = 0 /\ Len(input') = k
  BY <1>1, MessageType DEF Bytes
<1>3. alg \notin {"bmw", "fugue", "whirlpool", "jh"} => cnt' = cnt
  BY <1>1 DEF EntryCount, PortableCount
<1>4. ASSUME alg = "bmw" PROVE cnt'[1] = (8 * fed') % w
  <2>1. cnt'[1] = (cnt[1] + 8 * k) % w
    BY <1>4 DEF EntryCount, PortableCount, BmwCount
  <2>2. cnt[1] = (8 * fed) % w
    BY <1>4 DEF Counted
  <2>3. 8 * fed \in Nat /\ 8 * k \in Nat /\ 8 * fed + 8 * k = 8 * (fed + k)
    BY <1>1
  <2> HIDE DEF w
  <2>4. (((8 * fed) % w) + 8 * k) % w = (8 * fed + 8 * k) % w
    BY <1>1, <2>3, SumMod
  <2> QED BY <2>1, <2>2, <2>3, <2>4
<1>5. ASSUME alg = "fugue" PROVE cnt'[1] = (IF fast THEN 32 * Len(out) ELSE (8 * fed') % w) /\ cnt'[2] = Len(out) % 3
  <2>1. CASE fast
    <3>1. cnt' = cnt
      BY <1>5, <2>1 DEF EntryCount
    <3> QED BY <1>5, <2>1, <3>1 DEF Counted
  <2>2. CASE ~fast
    <3>1. cnt'[1] = (cnt[1] + 8 * k) % w /\ cnt'[2] = cnt[2]
      BY <1>5, <2>2 DEF EntryCount, PortableCount, FugueCount
    <3>2. cnt[1] = (8 * fed) % w /\ cnt[2] = Len(out) % 3
      BY <1>5, <2>2 DEF Counted
    <3>3. 8 * fed \in Nat /\ 8 * k \in Nat /\ 8 * fed + 8 * k = 8 * (fed + k)
      BY <1>1
    <3> HIDE DEF w
    <3>4. (((8 * fed) % w) + 8 * k) % w = (8 * fed + 8 * k) % w
      BY <1>1, <3>3, SumMod
    <3> QED BY <2>2, <3>1, <3>2, <3>3, <3>4
  <2> QED BY <2>1, <2>2
<1>6. ASSUME alg = "whirlpool", fast PROVE cnt'[1] = fed' % w
  <2>1. cnt'[1] = (cnt[1] + k) % w
    BY <1>6 DEF EntryCount, WhirlpoolBytes
  <2>2. cnt[1] = fed % w
    BY <1>6 DEF Counted
  <2> HIDE DEF w
  <2>3. ((fed % w) + k) % w = (fed + k) % w
    BY <1>1, SumMod
  <2> QED BY <2>1, <2>2, <2>3
<1>7. alg \in {"whirlpool", "jh"} /\ ~fast => cnt' = cnt
  BY DEF EntryCount, PortableCount
<1>8. fed' - Len(input') = fed - Len(input)
  BY <1>1, <1>2
<1>9. alg \in {"blake", "shavite", "echo", "groestl", "skein", "simd", "hamsi", "shabal", "sha512"} => cnt' = cnt
  BY <1>3
<1> QED BY <1>1, <1>4, <1>5, <1>6, <1>7, <1>8, <1>9 DEF Counted, HoldsCount

(* A turn of an eager loop while the message comes in.                       *)
LEMMA OpenTurn ==
  ASSUME TypeInv, phase = "open", Consumed, ~Lazy(alg), NEW b \in Nat \ {0}, b = BlockLen[alg],
         NEW x \in Seq(Nat), NEW full, NEW partial, Turn(b, Entry(Filled(b), x), full, partial),
         Len(Filled(b)) = b => x = Body(alg)[Len(out) + 1]
  PROVE  /\ Consumed'
         /\ UNCHANGED <<alg, fast, phase, fed>>
         /\ \/ Len(Filled(b)) = b /\ Len(out') = Len(out) + 1 /\ cnt' = full
            \/ out' = out /\ cnt' = partial
         /\ Taken(b) \in 0..Len(input) /\ Len(input') = Len(input) - Taken(b)
<1> DEFINE w == Message(0, fed)
           tw == Body(alg)
           e == Entry(Filled(b), x)
<1>1. w \in Seq(Int)
  BY TypeFacts, MessageIs
<1>2. Holds(b, out, buf, input, later, w, tw)
  BY DEF Consumed
<1>3. UNCHANGED <<alg, fast, phase, fed>>
  BY DEF Turn
<1>4. \/ Len(Filled(b)) = b /\ out' = Append(out, e) /\ cnt' = full
      \/ out' = out /\ cnt' = partial
  BY DEF Turn
<1>5. Len(Filled(b)) = b => x = tw[Len(out) + 1]
  OBVIOUS
<1> HIDE DEF w, tw
<1>6. /\ Holds(b, out', buf', input', later', w, tw)
      /\ Len(input') = Len(input) - Taken(b) /\ Taken(b) \in 0..Len(input)
  BY <1>1, <1>2, <1>5, EagerTurn
<1>7. Len(Append(out, e)) = Len(out) + 1
  <2>2. e \in Compression
    BY FilledType
  <2> HIDE DEF e
  <2> QED BY <2>2, TypeFacts, AppendProperties
<1>8. Consumed'
  BY <1>3, <1>6 DEF Consumed, w, tw
<1> QED BY <1>3, <1>4, <1>6, <1>7, <1>8

(* The functions that compress a block with nothing beside it.               *)
LEMMA BodyPlain ==
  ASSUME NEW a \in {"bmw", "groestl", "jh", "keccak", "luffa", "cubehash", "whirlpool", "sha512", "sha3"},
         NEW i \in Nat
  PROVE  Body(a)[i] = <<>>
BY DEF Body

LEMMA PlainTurn ==
  ASSUME TypeInv, phase = "open", Consumed,
         alg \in {"bmw", "groestl", "jh", "keccak", "luffa", "cubehash", "whirlpool", "sha512", "sha3"},
         NEW b \in Nat \ {0}, b = BlockLen[alg], NEW full, NEW partial, Turn(b, Entry(Filled(b), <<>>), full, partial)
  PROVE  /\ Consumed'
         /\ UNCHANGED <<alg, fast, phase, fed>>
         /\ \/ Len(out') = Len(out) + 1 /\ cnt' = full
            \/ out' = out /\ cnt' = partial
         /\ Taken(b) \in 0..Len(input) /\ Len(input') = Len(input) - Taken(b)
<1>1. ~Lazy(alg)
  BY DEF Lazy
<1> DEFINE x == <<>>
<1>2. x \in Seq(Nat)
  OBVIOUS
<1>3. x = Body(alg)[Len(out) + 1]
  <2>1. Len(out) + 1 \in Nat
    BY TypeFacts, LenProperties
  <2> QED BY <2>1, BodyPlain
<1>4. Turn(b, Entry(Filled(b), x), full, partial)
  OBVIOUS
<1> HIDE DEF x
<1> QED BY <1>1, <1>2, <1>3, <1>4, OpenTurn

(* The functions whose counter does not move in the loop, or that have none. *)
LEMMA StillTurns ==
  ASSUME TypeInv, phase = "open", Consumed, Counted,
         \/ BmwCore \/ KeccakCore \/ LuffaCore \/ CubehashCore \/ Sha3Update
         \/ JhUpdate \/ LuffaUpdate \/ CubehashUpdate \/ FastWhirlpoolUpdate \/ KeccakFastLoopAbsorb
  PROVE  Consumed' /\ Counted'
<1>1. alg \in {"bmw", "jh", "keccak", "luffa", "cubehash", "whirlpool", "sha3"}
      /\ (alg \in {"jh", "whirlpool"} => fast)
  BY DEF BmwCore, KeccakCore, LuffaCore, CubehashCore, Sha3Update, JhUpdate, LuffaUpdate, CubehashUpdate,
         FastWhirlpoolUpdate, KeccakFastLoopAbsorb, Portable, Common, Fast
<1> DEFINE b == BlockLen[alg]
<1>2. b \in Nat \ {0}
  BY TypeFacts, BlockType
<1>3. Turn(b, Entry(Filled(b), <<>>), cnt, cnt)
  <2>1. CASE BmwCore \/ KeccakCore \/ LuffaCore \/ CubehashCore \/ Sha3Update
    BY <2>1, BlockIs DEF BmwCore, KeccakCore, LuffaCore, CubehashCore, Sha3Update, Portable, Common,
       BmwCompress, KeccakF, LuffaP5, CubehashRounds, Sha3Process
  <2>2. CASE JhUpdate \/ LuffaUpdate \/ CubehashUpdate \/ FastWhirlpoolUpdate \/ KeccakFastLoopAbsorb
    BY <2>2, BlockIs DEF JhUpdate, LuffaUpdate, CubehashUpdate, FastWhirlpoolUpdate, KeccakFastLoopAbsorb, Fast,
       JhF8, JhE8, LuffaRnd512, LuffaP5, CubehashTransform, CubehashRounds, WhirlpoolCompress, MdRound,
       KeccakP1600, Sha3Process
  <2> QED BY <2>1, <2>2
<1> HIDE DEF b
<1>4. b = BlockLen[alg] /\ alg \in {"bmw", "groestl", "jh", "keccak", "luffa", "cubehash", "whirlpool", "sha512", "sha3"}
  BY <1>1 DEF b
<1>5. Consumed' /\ UNCHANGED <<alg, fast, phase, fed>> /\ cnt' = cnt
  BY <1>2, <1>3, <1>4, PlainTurn
<1>6. Counted'
  BY <1>1, <1>5 DEF Counted
<1> QED BY <1>5, <1>6

LEMMA NextMod ==
  ASSUME NEW w \in Nat \ {0}, NEW k \in Nat
  PROVE  ((k % w) + 1) % w = (k + 1) % w
BY SumMod

(* Groestl and the portable JH count blocks.                                 *)
LEMMA BlockCountTurns ==
  ASSUME TypeInv, phase = "open", Consumed, Counted, GroestlCore \/ GroestlBlocks \/ JhCore
  PROVE  Consumed' /\ Counted'
<1>1. alg \in {"groestl", "jh"} /\ (alg = "jh" => ~fast)
  BY DEF GroestlCore, GroestlBlocks, JhCore, Portable, Fast
<1> DEFINE b == BlockLen[alg]
           w == Word[alg]
           k == Len(out)
           full == <<(cnt[1] + 1) % w>>
<1>2. b \in Nat \ {0} /\ w \in Nat \ {0} /\ k \in Nat
  BY TypeFacts, BlockType
<1>3. Turn(b, Entry(Filled(b), <<>>), full, cnt)
  BY BlockIs DEF GroestlCore, GroestlBlocks, JhCore, Portable, Fast, GroestlTF1024, GroestlCompress, JhE8, GroestlCount
<1>4. cnt[1] = k % w
  BY <1>1 DEF Counted
<1>5. full[1] = (cnt[1] + 1) % w
  OBVIOUS
<1> HIDE DEF full
<1>6. b = BlockLen[alg] /\ alg \in {"bmw", "groestl", "jh", "keccak", "luffa", "cubehash", "whirlpool", "sha512", "sha3"}
  BY <1>1
<1> HIDE DEF b
<1>7. /\ Consumed' /\ UNCHANGED <<alg, fast, phase, fed>>
      /\ (Len(out') = Len(out) + 1 /\ cnt' = full) \/ (out' = out /\ cnt' = cnt)
  BY <1>2, <1>3, <1>6, PlainTurn
<1>8. cnt'[1] = Len(out') % w
  <2>1. ((k % w) + 1) % w = (k + 1) % w
    <3> HIDE DEF k, w
    <3> QED BY <1>2, NextMod
  <2> QED BY <1>4, <1>5, <1>7, <2>1
<1>9. Counted'
  BY <1>1, <1>7, <1>8 DEF Counted
<1> QED BY <1>7, <1>9

LEMMA TwoWords ==
  ASSUME NEW s \in Seq(Nat), Len(s) = 2, NEW m, NEW w, s[1] = m % w, s[2] = (m \div w) % w
  PROVE  s = InWords(m, w, 2)
<1> DEFINE u == InWords(m, w, 2)
<1>1. s = [j \in 1..2 |-> s[j]]
  BY SeqEqual
<1>2. u = [j \in 1..2 |-> IF j = 1 THEN m % w ELSE (m \div w) % w]
  BY DEF InWords
<1>3. \A j \in 1..2 : s[j] = IF j = 1 THEN m % w ELSE (m \div w) % w
  <2>1. \A j \in 1..2 : j = 1 \/ j = 2
    OBVIOUS
  <2> QED BY <2>1
<1>4. [j \in 1..2 |-> s[j]] = [j \in 1..2 |-> IF j = 1 THEN m % w ELSE (m \div w) % w]
  BY <1>3
<1> QED BY <1>1, <1>2, <1>4

LEMMA FourWords ==
  ASSUME NEW s \in Seq(Nat), Len(s) = 4, NEW m, NEW w, s[1] = m % w, s[2] = (m \div w) % w, s[3] = 0, s[4] = 0
  PROVE  s = InWords(m, w, 4)
<1> DEFINE u == InWords(m, w, 4)
<1>1. s = [j \in 1..4 |-> s[j]]
  BY SeqEqual
<1>2. u = [j \in 1..4 |-> IF j > 2 THEN 0 ELSE IF j = 1 THEN m % w ELSE (m \div w) % w]
  BY DEF InWords
<1>3. \A j \in 1..4 : s[j] = IF j > 2 THEN 0 ELSE IF j = 1 THEN m % w ELSE (m \div w) % w
  <2> SUFFICES ASSUME NEW j \in 1..4
               PROVE  s[j] = IF j > 2 THEN 0 ELSE IF j = 1 THEN m % w ELSE (m \div w) % w
    OBVIOUS
  <2>1. j = 1 \/ j = 2 \/ (j = 3 /\ j > 2) \/ (j = 4 /\ j > 2)
    OBVIOUS
  <2>2. ~(1 > 2) /\ ~(2 > 2)
    OBVIOUS
  <2> QED BY <2>1, <2>2
<1>4. [j \in 1..4 |-> s[j]] = [j \in 1..4 |-> IF j > 2 THEN 0 ELSE IF j = 1 THEN m % w ELSE (m \div w) % w]
  BY <1>3
<1> QED BY <1>1, <1>2, <1>4

(* Two words of a counter, d more: the carry.                                *)
LEMMA WordsAdd ==
  ASSUME NEW w \in Nat \ {0}, NEW d \in Nat, d <= w, NEW x \in Nat, NEW t \in Nat, t = ((x % w) + d) % w
  PROVE  /\ t = (x + d) % w
         /\ t < d => (x + d) \div w = (x \div w) + 1
         /\ ~(t < d) => (x + d) \div w = x \div w
<1> DEFINE r == x % w
           q == x \div w
           y == x + d
<1>1. r \in Nat /\ r < w
  BY ModType
<1>2. q \in Nat /\ x = w * q + r
  BY DivType
<1>3. t = y % w
  BY SumMod
<1>4. t = (r + d) % w
  OBVIOUS
<1> HIDE DEF r, q
<1>5. y \in Nat /\ y = w * q + (r + d) /\ w * q \in Nat
  BY <1>1, <1>2
<1> HIDE DEF y
<1>6. CASE r + d < w
  <2>1. y = w * q + (r + d) /\ r + d \in Nat
    BY <1>1, <1>5
  <2>2. y \div w = q /\ y % w = r + d
    <3> DEFINE c == r + d
    <3>1. c \in Nat /\ c < w /\ y = w * q + c
      BY <1>6, <2>1
    <3> HIDE DEF c
    <3>2. y % w = c /\ y \div w = q
      BY <1>2, <1>5, <3>1, ModIs
    <3> QED BY <3>2 DEF c
  <2>3. ~(t < d)
    BY <1>1, <1>3, <2>2
  <2> QED BY <1>3, <2>2, <2>3 DEF y, q
<1>7. CASE ~(r + d < w)
  <2> DEFINE c == r + d - w
             p == q + 1
  <2>1. c \in Nat /\ c < w /\ c < d
    BY <1>1, <1>7
  <2>2. w * p = w * q + w /\ p \in Nat
    BY <1>2
  <2>3. y = w * p + c
    <3> DEFINE m == w * q
    <3>1. w * p = m + w /\ y = m + (r + d) /\ m \in Nat
      BY <1>5, <2>2
    <3> HIDE DEF m, p
    <3>2. y = (m + w) + c
      BY <1>1, <3>1
    <3> QED BY <3>1, <3>2
  <2> HIDE DEF c, p
  <2>4. y % w = c /\ y \div w = p
    BY <1>5, <2>1, <2>2, <2>3, ModIs
  <2>5. t < d
    BY <1>3, <2>1, <2>4
  <2> QED BY <1>3, <2>4, <2>5 DEF y, q, p
<1> QED BY <1>6, <1>7

LEMMA HamsiOpen ==
  ASSUME TypeInv, phase = "open", Consumed, Counted, HamsiCore \/ FastHamsiCore
  PROVE  Consumed' /\ Counted'
<1>1. alg = "hamsi" /\ HamsiTurn
  BY DEF HamsiCore, FastHamsiCore, Portable, Fast
<1> DEFINE w == Word[alg]
           k == Len(out)
           full == <<HamsiBits(64)>>
           x == <<0>>
<1>2. w \in Nat \ {0} /\ k \in Nat /\ 8 \in Nat \ {0} /\ BlockLen[alg] = 8 /\ ~Lazy(alg)
  BY <1>1, TypeFacts, BlockType, BlockIs DEF Lazy
<1>3. Turn(8, Entry(Filled(8), x), full, cnt)
  BY <1>1 DEF HamsiTurn, HamsiP
<1>4. x \in Seq(Nat) /\ x = Body(alg)[k + 1]
  BY <1>1, <1>2 DEF Body
<1>5. full[1] = (cnt[1] + 64) % w
  BY <1>1 DEF HamsiBits
<1>6. cnt[1] = (64 * k) % w
  BY <1>1 DEF Counted
<1> HIDE DEF full, x
<1>7. /\ Consumed' /\ UNCHANGED <<alg, fast, phase, fed>>
      /\ (Len(out') = Len(out) + 1 /\ cnt' = full) \/ (out' = out /\ cnt' = cnt)
  BY <1>2, <1>3, <1>4, OpenTurn
<1>8. cnt'[1] = (64 * Len(out')) % w
  <2>1. (((64 * k) % w) + 64) % w = (64 * (k + 1)) % w
    <3> HIDE DEF k, w
    <3>1. 64 * k \in Nat /\ 64 * k + 64 = 64 * (k + 1)
      BY <1>2
    <3>2. (((64 * k) % w) + 64) % w = (64 * k + 64) % w
      BY <1>2, <3>1, SumMod
    <3> QED BY <3>1, <3>2
  <2> QED BY <1>5, <1>6, <1>7, <2>1
<1>9. Counted'
  BY <1>1, <1>7, <1>8 DEF Counted
<1> QED BY <1>7, <1>9

LEMMA ShabalOpen ==
  ASSUME TypeInv, phase = "open", Consumed, Counted, ShabalCore
  PROVE  Consumed' /\ Counted'
<1>1. alg = "shabal"
  BY DEF ShabalCore, Common
<1> DEFINE w == Word[alg]
           k == Len(out)
<1>2. w \in Nat \ {0} /\ k \in Nat /\ 64 \in Nat \ {0} /\ BlockLen[alg] = 64 /\ ~Lazy(alg)
  BY <1>1, TypeFacts, BlockType, BlockIs DEF Lazy
<1>3. Turn(64, Entry(Filled(64), cnt), ShabalIncrW, cnt)
  BY DEF ShabalCore, ShabalP
<1>4. HoldsCount(k + 1)
  BY <1>1 DEF Counted
<1>5. cnt \in Seq(Nat) /\ Len(cnt) = 2
  BY <1>1, TypeFacts DEF TypeInv, Counters
<1>6. cnt = Body(alg)[k + 1]
  <2>1. cnt = InWords(k + 1, w, 2)
    <3> HIDE DEF k, w
    <3> QED BY <1>4, <1>5, TwoWords DEF HoldsCount, w
  <2>2. Body(alg)[k + 1] = InWords(k + 1, w, 2)
    BY <1>1, <1>2 DEF Body
  <2> QED BY <2>1, <2>2
<1>7. /\ Consumed' /\ UNCHANGED <<alg, fast, phase, fed>>
      /\ (Len(out') = Len(out) + 1 /\ cnt' = ShabalIncrW) \/ (out' = out /\ cnt' = cnt)
  BY <1>2, <1>3, <1>5, <1>6, OpenTurn
<1>8. ASSUME Len(out') = k + 1, cnt' = ShabalIncrW
      PROVE  cnt'[1] = ((k + 1) + 1) % w /\ cnt'[2] = (((k + 1) + 1) \div w) % w
  <2> DEFINE t == (cnt[1] + 1) % w
             x == k + 1
  <2>1. cnt'[1] = t /\ cnt'[2] = IF t = 0 THEN (cnt[2] + 1) % w ELSE cnt[2]
    BY <1>1, <1>8 DEF ShabalIncrW
  <2>2. x \in Nat /\ 1 \in Nat /\ 1 <= w
    BY <1>2
  <2>3. cnt[1] = x % w /\ cnt[2] = (x \div w) % w
    BY <1>4 DEF HoldsCount
  <2>4. t = ((x % w) + 1) % w
    BY <2>3
  <2>5. t \in Nat
    <3>1. cnt[1] \in Nat
      <4>1. 1 \in 1..Len(cnt)
        BY <1>5
      <4> QED BY <1>5, <4>1, ElementOfSeq
    <3> HIDE DEF w
    <3>2. cnt[1] + 1 \in Nat
      BY <3>1
    <3> QED BY <1>2, <3>2, ModType
  <2> HIDE DEF t, x, w
  <2>6. t = (x + 1) % w
    BY <1>2, <2>2, <2>4, <2>5, WordsAdd
  <2>7. t < 1 => (x + 1) \div w = (x \div w) + 1
    BY <1>2, <2>2, <2>4, <2>5, WordsAdd
  <2>8. ~(t < 1) => (x + 1) \div w = x \div w
    BY <1>2, <2>2, <2>4, <2>5, WordsAdd
  <2>9. t = 0 <=> t < 1
    BY <2>5
  <2>10. x \div w \in Nat
    BY <1>2, <2>2, DivType
  <2>11. (((x \div w) % w) + 1) % w = ((x \div w) + 1) % w
    BY <1>2, <2>10, NextMod
  <2> QED BY <2>1, <2>3, <2>6, <2>7, <2>8, <2>9, <2>11 DEF x
<1>9. HoldsCount(Len(out) + 1)'
  BY <1>4, <1>7, <1>8 DEF HoldsCount
<1>10. Counted'
  BY <1>1, <1>7, <1>9 DEF Counted
<1> QED BY <1>7, <1>10

LEMMA SimdOpen ==
  ASSUME TypeInv, phase = "open", Consumed, Counted, SimdCore
  PROVE  Consumed' /\ Counted'
<1>1. alg = "simd" /\ ~fast
  BY DEF SimdCore, Portable
<1> DEFINE w == Word[alg]
           k == Len(out)
           x == <<0>>
<1>2. w \in Nat \ {0} /\ k \in Nat /\ 128 \in Nat \ {0} /\ BlockLen[alg] = 128 /\ ~Lazy(alg)
  BY <1>1, TypeFacts, BlockType, BlockIs DEF Lazy
<1>3. Turn(128, Entry(Filled(128), x), SimdAdded, cnt)
  BY DEF SimdCore, SimdCompress, Flag
<1>4. cnt[1] = k % w /\ cnt[2] = k \div w
  BY <1>1 DEF Counted
<1>5. x \in Seq(Nat) /\ x = Body(alg)[k + 1]
  BY <1>1, <1>2 DEF Body
<1> HIDE DEF x
<1>6. /\ Consumed' /\ UNCHANGED <<alg, fast, phase, fed>>
      /\ (Len(out') = Len(out) + 1 /\ cnt' = SimdAdded) \/ (out' = out /\ cnt' = cnt)
  BY <1>2, <1>3, <1>5, OpenTurn
<1>7. ASSUME cnt' = SimdAdded
      PROVE  cnt'[1] = (k + 1) % w /\ cnt'[2] = (k + 1) \div w
  <2> DEFINE d == 1
             t == (cnt[1] + d) % w
  <2>1. cnt'[1] = t /\ cnt'[2] = IF t = 0 THEN cnt[2] + 1 ELSE cnt[2]
    BY <1>1, <1>7 DEF SimdAdded
  <2>2. d \in Nat /\ d <= w
    BY <1>2
  <2>3. t = ((k % w) + d) % w
    BY <1>4
  <2>4. t \in Nat
    <3> HIDE DEF w, k
    <3>1. (k % w) + 1 \in Nat
      BY <1>2, ModType
    <3> QED BY <1>2, <2>3, <3>1, ModType
  <2>8. t = 0 <=> t < d
    <3> HIDE DEF t
    <3> QED BY <2>4
  <2> HIDE DEF t, w, k, d
  <2>5. t = (k + d) % w
    BY <1>2, <2>2, <2>3, <2>4, WordsAdd
  <2>6. t < d => (k + d) \div w = (k \div w) + 1
    BY <1>2, <2>2, <2>3, <2>4, WordsAdd
  <2>7. ~(t < d) => (k + d) \div w = k \div w
    BY <1>2, <2>2, <2>3, <2>4, WordsAdd
  <2> QED BY <1>4, <2>1, <2>5, <2>6, <2>7, <2>8 DEF d
<1>8. cnt'[1] = Len(out') % w /\ cnt'[2] = Len(out') \div w
  BY <1>4, <1>6, <1>7
<1>9. Counted'
  BY <1>1, <1>6, <1>8 DEF Counted
<1> QED BY <1>6, <1>9

LEMMA FastSimdOpen ==
  ASSUME TypeInv, phase = "open", Consumed, Counted, SimdUpdate
  PROVE  Consumed' /\ Counted'
<1>1. alg = "simd" /\ fast
  BY DEF SimdUpdate, Fast
<1> DEFINE k == Len(out)
           x == <<0>>
           full == SimdBits(Taken(128))
<1>2. k \in Nat /\ 128 \in Nat \ {0} /\ BlockLen[alg] = 128 /\ ~Lazy(alg)
  BY <1>1, TypeFacts, BlockIs DEF Lazy
<1>3. Turn(128, Entry(Filled(128), x), full, full)
  BY DEF SimdUpdate, Simd512Compress, SimdCompress, Flag
<1>4. x \in Seq(Nat) /\ x = Body(alg)[k + 1]
  BY <1>1, <1>2 DEF Body
<1> HIDE DEF x, full
<1>5. Consumed' /\ UNCHANGED <<alg, fast, phase, fed>>
  BY <1>2, <1>3, <1>4, OpenTurn
<1>6. Counted'
  BY <1>1, <1>5 DEF Counted
<1> QED BY <1>5, <1>6

LEMMA EchoWordsIs ==
  ASSUME NEW m \in Nat, NEW w, w = Word["echo"]
  PROVE  EchoWords(m) \in Seq(Nat) /\ Len(EchoWords(m)) = 4 /\ EchoWords(m) = InWords(m, w, 4)
<1> DEFINE a == m % w
           c == (m \div w) % w
           x == EchoWords(m)
           y == InWords(m, w, 2)
           z == <<0, 0>>
<1>1. x \in Seq(Nat) /\ Len(x) = 4
  BY EchoWordsType
<1>2. w \in Nat \ {0}
  BY BlockIs, BlockType
<1>3. x = y \o z
  BY DEF EchoWords
<1>4. y \in Seq(Nat) /\ Len(y) = 2
  <2> DEFINE l == 2
  <2>1. l \in Nat
    OBVIOUS
  <2> HIDE DEF l
  <2>2. InWords(m, w, l) \in Seq(Nat)
    BY <1>2, <2>1, InWordsType
  <2>3. Len(InWords(m, w, l)) = l
    BY <1>2, <2>1, InWordsType
  <2> QED BY <2>2, <2>3 DEF l
<1>5. y[1] = a /\ y[2] = c
  BY DEF InWords
<1>6. z \in Seq(Nat) /\ Len(z) = 2 /\ z[1] = 0 /\ z[2] = 0
  OBVIOUS
<1> HIDE DEF x, y, z, a, c
<1>7. Len(y \o z) = 2 + 2 /\ \A i \in 1..(2 + 2) : (y \o z)[i] = IF i <= 2 THEN y[i] ELSE z[i - 2]
  <2>1. /\ Len(y \o z) = Len(y) + Len(z)
        /\ \A i \in 1..(Len(y) + Len(z)) : (y \o z)[i] = IF i <= Len(y) THEN y[i] ELSE z[i - Len(y)]
    BY <1>4, <1>6, ConcatProperties
  <2> QED BY <1>4, <1>6, <2>1
<1>8. x[1] = a /\ x[2] = c /\ x[3] = 0 /\ x[4] = 0
  <2> DEFINE v == y \o z
  <2>1. v[1] = y[1] /\ v[2] = y[2]
    BY <1>7
  <2>2. v[3] = z[1] /\ v[4] = z[2]
    BY <1>7
  <2> QED BY <1>3, <1>5, <1>6, <2>1, <2>2
<1>9. x = InWords(m, w, 4)
  BY <1>1, <1>8, FourWords DEF a, c
<1> QED BY <1>1, <1>9 DEF x

LEMMA FastEchoOpen ==
  ASSUME TypeInv, phase = "open", Consumed, Counted, EchoUpdate
  PROVE  Consumed' /\ Counted'
<1>1. alg = "echo" /\ fast
  BY DEF EchoUpdate, Fast
<1> DEFINE k == Len(out)
           w == Word[alg]
           more == [i \in 1..2 |-> cnt[i] + 1024]
           x == EchoWords(more[2])
           u == Body(alg)[k + 1]
<1>2. k \in Nat /\ 128 \in Nat \ {0} /\ BlockLen[alg] = 128 /\ ~Lazy(alg) /\ w \in Nat \ {0}
  BY <1>1, TypeFacts, BlockType, BlockIs DEF Lazy
<1>3. Turn(128, Entry(Filled(128), x), more, cnt)
  BY DEF EchoUpdate, EchoCompressOne, EchoCompress
<1>4. cnt[1] = 1024 * k /\ cnt[2] = 1024 * k
  BY <1>1 DEF Counted
<1>5. more[1] = 1024 * (k + 1) /\ more[2] = 1024 * (k + 1)
  BY <1>2, <1>4
<1>6. x \in Seq(Nat) /\ x = u
  <2> DEFINE m == 1024 * (k + 1)
  <2>1. m \in Nat /\ more[2] = m
    BY <1>2, <1>5
  <2>2. u = InWords(m, w, 4)
    BY <1>1, <1>2 DEF Body
  <2> HIDE DEF m, u, more
  <2>3. EchoWords(m) \in Seq(Nat) /\ EchoWords(m) = InWords(m, w, 4)
    BY <1>1, <2>1, EchoWordsIs
  <2> QED BY <2>1, <2>2, <2>3
<1> HIDE DEF more, x, u
<1>7. /\ Consumed' /\ UNCHANGED <<alg, fast, phase, fed>>
      /\ (Len(out') = Len(out) + 1 /\ cnt' = more) \/ (out' = out /\ cnt' = cnt)
  BY <1>2, <1>3, <1>6, OpenTurn DEF u
<1>8. cnt'[1] = 1024 * Len(out') /\ cnt'[2] = 1024 * Len(out')
  BY <1>4, <1>5, <1>7
<1>9. Counted'
  BY <1>1, <1>7, <1>8 DEF Counted
<1> QED BY <1>7, <1>9

LEMMA FastFugueOpen ==
  ASSUME TypeInv, phase = "open", Consumed, Counted, FugueUpdate
  PROVE  Consumed' /\ Counted'
<1>1. alg = "fugue" /\ fast
  BY DEF FugueUpdate, Fast
<1> DEFINE k == Len(out)
           x == <<cnt[2] % 3>>
           full == <<cnt[1] + 32, (cnt[2] + 1) % 3>>
<1>2. k \in Nat /\ 4 \in Nat \ {0} /\ BlockLen[alg] = 4 /\ ~Lazy(alg)
  BY <1>1, TypeFacts, BlockIs DEF Lazy
<1>3. Turn(4, Entry(Filled(4), x), full, cnt)
  BY DEF FugueUpdate, FugueCompress512
<1>4. cnt[1] = 32 * k /\ cnt[2] = k % 3
  BY <1>1 DEF Counted
<1>5. x \in Seq(Nat) /\ x = Body(alg)[k + 1]
  <2>1. Body(alg)[k + 1] = <<((k + 1) - 1) % 3>>
    BY <1>1, <1>2 DEF Body
  <2>2. (k + 1) - 1 = k /\ (k % 3) % 3 = k % 3 /\ k % 3 \in Nat
    BY <1>2
  <2> HIDE DEF k
  <2>3. x = <<k % 3>>
    BY <1>4, <2>2
  <2> QED BY <2>1, <2>2, <2>3
<1>6. full[1] = 32 * (k + 1) /\ full[2] = (k + 1) % 3
  <2>1. full[1] = 32 * (k + 1)
    BY <1>2, <1>4
  <2>2. ((k % 3) + 1) % 3 = (k + 1) % 3
    BY <1>2
  <2> QED BY <1>4, <2>1, <2>2
<1> HIDE DEF x, full
<1>7. /\ Consumed' /\ UNCHANGED <<alg, fast, phase, fed>>
      /\ (Len(out') = Len(out) + 1 /\ cnt' = full) \/ (out' = out /\ cnt' = cnt)
  BY <1>2, <1>3, <1>5, OpenTurn
<1>8. cnt'[1] = 32 * Len(out') /\ cnt'[2] = Len(out') % 3
  BY <1>4, <1>6, <1>7
<1>9. Counted'
  BY <1>1, <1>7, <1>8 DEF Counted
<1> QED BY <1>7, <1>9

LEMMA MdOpen ==
  ASSUME TypeInv, phase = "open", Consumed, Counted, WhirlpoolCore \/ Sha512Core
  PROVE  Consumed' /\ Counted'
<1>1. alg \in {"whirlpool", "sha512"} /\ (alg = "whirlpool" => ~fast) /\ MdCore(alg)
  BY DEF WhirlpoolCore, Sha512Core, Portable, Common
<1> DEFINE b == BlockLen[alg]
           w == Word[alg]
           i == Taken(b)
           c == <<(cnt[1] + i) % w>>
<1>2. b \in Nat \ {0} /\ w \in Nat \ {0}
  BY TypeFacts, BlockType
<1>3. Turn(b, Entry(Filled(b), <<>>), c, c)
  BY <1>1 DEF MdCore, MdRound
<1>4. cnt[1] = (fed - Len(input)) % w
  BY <1>1 DEF Counted
<1>5. c[1] = (cnt[1] + i) % w
  OBVIOUS
<1> HIDE DEF c
<1>6. b = BlockLen[alg] /\ alg \in {"bmw", "groestl", "jh", "keccak", "luffa", "cubehash", "whirlpool", "sha512", "sha3"}
  BY <1>1
<1> HIDE DEF b
<1>7. /\ Consumed' /\ UNCHANGED <<alg, fast, phase, fed>> /\ cnt' = c
      /\ i \in 0..Len(input) /\ Len(input') = Len(input) - i
  BY <1>2, <1>3, <1>6, PlainTurn
<1>8. fed - Len(input) \in Nat /\ i \in Nat /\ fed \in Nat /\ Len(input) \in Nat
  <2>1. fed = BlockLen[alg] * Len(out) + Len(buf) + Len(input)
    BY DEF TypeInv, Taking
  <2>2. BlockLen[alg] * Len(out) \in Nat /\ Len(buf) \in Nat /\ Len(input) \in Nat
    <3>1. Len(out) \in Nat /\ BlockLen[alg] \in Nat
      BY TypeFacts, BlockType, LenProperties
    <3> QED BY <3>1, TypeFacts
  <2> DEFINE m == BlockLen[alg] * Len(out)
  <2> HIDE DEF m, i
  <2>3. fed = m + Len(buf) + Len(input) /\ m \in Nat
    BY <2>1, <2>2 DEF m
  <2> QED BY <1>7, <2>2, <2>3
<1>9. cnt'[1] = (fed' - Len(input')) % w
  <2> HIDE DEF w, i
  <2>1. (((fed - Len(input)) % w) + i) % w = ((fed - Len(input)) + i) % w
    BY <1>2, <1>8, SumMod
  <2>2. (fed - Len(input)) + i = fed' - Len(input')
    BY <1>7, <1>8
  <2> QED BY <1>4, <1>5, <1>7, <2>1, <2>2
<1>10. Counted'
  BY <1>1, <1>7, <1>9 DEF Counted
<1> QED BY <1>7, <1>10

LEMMA WordsCarry ==
  ASSUME NEW w \in Nat \ {0}, NEW d \in Nat, d <= w, NEW x \in Nat, NEW t \in Nat, t = ((x % w) + d) % w
  PROVE  /\ t < d => ((x + d) \div w) % w = (((x \div w) % w) + 1) % w
         /\ ~(t < d) => ((x + d) \div w) % w = (x \div w) % w
<1>1. t < d => (x + d) \div w = (x \div w) + 1
  BY WordsAdd
<1>2. ~(t < d) => (x + d) \div w = x \div w
  BY WordsAdd
<1>3. x \div w \in Nat
  BY DivType
<1>4. (((x \div w) % w) + 1) % w = ((x \div w) + 1) % w
  BY <1>3, NextMod
<1> QED BY <1>1, <1>2, <1>4

LEMMA BelowSquare ==
  ASSUME NEW w \in Nat \ {0}, NEW y \in Nat, y < w * w
  PROVE  y \div w < w /\ (y \div w) % w = y \div w
<1> DEFINE q == y \div w
           r == y % w
<1>1. q \in Nat /\ y = w * q + r
  BY DivType
<1>2. r \in Nat
  BY ModType
<1> HIDE DEF q, r
<1>3. q < w
  <2> SUFFICES ASSUME ~(q < w) PROVE FALSE
    OBVIOUS
  <2>1. w <= q
    BY <1>1
  <2>2. w * w <= w * q /\ w * w \in Nat /\ w * q \in Nat
    BY <1>1, <2>1, TimesLess
  <2> QED BY <1>1, <1>2, <2>2
<1>4. q % w = q
  BY <1>1, <1>3, SmallMod
<1> QED BY <1>3, <1>4 DEF q

(* Four words, of which the upper two stay zero.                             *)
FourCarry(s, x, d, w, t) ==
  /\ w \in Nat \ {0} /\ d \in Nat /\ d <= w /\ x \in Nat /\ (x + d) \div w < w
  /\ t \in Nat /\ t = ((x % w) + d) % w
  /\ s \in Seq(Nat) /\ Len(s) = 4 /\ s[1] = t
  /\ s[2] = IF t < d THEN (((x \div w) % w) + 1) % w ELSE (x \div w) % w
  /\ s[3] = IF t < d /\ (((x \div w) % w) + 1) % w = 0 THEN 1 % w ELSE 0
  /\ s[4] = IF t < d /\ (((x \div w) % w) + 1) % w = 0 /\ 1 % w = 0 THEN 1 % w ELSE 0

LEMMA FourAdded ==
  ASSUME NEW s, NEW x, NEW d, NEW w, NEW t, FourCarry(s, x, d, w, t)
  PROVE  s = InWords(x + d, w, 4) /\ s[3] = 0 /\ s[4] = 0
<1> USE DEF FourCarry
<1> DEFINE c == (x \div w) % w
           y == x + d
           q == y \div w
           p == x \div w
<1>1. y \in Nat
  OBVIOUS
<1>2. t = y % w
  BY WordsAdd
<1>3. t < d => q = p + 1
  BY WordsAdd
<1>12. ~(t < d) => q = p
  BY WordsAdd
<1>4. s[2] = q % w
  <2> DEFINE e == (x \div w) % w
             f == (y \div w) % w
  <2>1. t < d => f = (e + 1) % w
    BY WordsCarry
  <2>2. ~(t < d) => f = e
    BY WordsCarry
  <2>3. s[2] = (IF t < d THEN (e + 1) % w ELSE e) /\ q % w = f
    OBVIOUS
  <2> HIDE DEF e, f, q
  <2> QED BY <2>1, <2>2, <2>3
<1>5. p \in Nat /\ q \in Nat
  BY <1>1, DivType
<1>6. q < w
  OBVIOUS
<1>7. p % w = p
  <2> HIDE DEF p, q
  <2>1. p < w
    BY <1>3, <1>5, <1>6, <1>12
  <2> QED BY <1>5, <2>1, SmallMod
<1> HIDE DEF p, q
<1>13. s[3] = (IF t < d /\ (c + 1) % w = 0 THEN 1 % w ELSE 0)
       /\ s[4] = (IF t < d /\ (c + 1) % w = 0 /\ 1 % w = 0 THEN 1 % w ELSE 0)
  OBVIOUS
<1>8. c = p
  BY <1>7 DEF p
<1> HIDE DEF c
<1>9. ~(t < d /\ (c + 1) % w = 0)
  <2> SUFFICES ASSUME t < d, (c + 1) % w = 0 PROVE FALSE
    OBVIOUS
  <2>1. q % w = 0
    BY <1>3, <1>8
  <2>2. q % w = q
    BY <1>5, <1>6, SmallMod
  <2> QED BY <1>3, <1>5, <2>1, <2>2
<1>10. s[3] = 0 /\ s[4] = 0
  BY <1>9, <1>13
<1>11. s = InWords(y, w, 4)
  <2> HIDE DEF y
  <2> QED BY <1>2, <1>4, <1>10, FourWords DEF q
<1> QED BY <1>10, <1>11

(* A block that has been filled lies within the message.                     *)
LEMMA FullFed ==
  ASSUME TypeInv, phase = "open", NEW b \in Nat, b = BlockLen[alg], Len(Filled(b)) = b
  PROVE  b * (Len(out) + 1) <= fed
<1> DEFINE k == Len(out)
           m == b * k
<1>1. k \in Nat /\ fed \in Nat /\ Len(buf) \in Nat /\ Len(input) \in Nat
  BY TypeFacts
<1>2. m \in Nat /\ b * (k + 1) = m + b
  BY <1>1
<1>3. fed = m + Len(buf) + Len(input)
  BY DEF TypeInv, Taking
<1>4. buf \in Seq(Int) /\ input \in Seq(Int) /\ Len(buf) <= b
  BY TypeFacts, BufferFits
<1>5. Taken(b) \in 0..Len(input)
  BY <1>4, TakenFacts
<1>6. Len(Filled(b)) = Len(buf) + Taken(b)
  <2> DEFINE f == SubSeq(input, 1, Taken(b))
  <2>1. f \in Seq(Int) /\ Len(f) = Taken(b)
    BY <1>4, <1>5, Cut
  <2>2. Filled(b) = buf \o f
    BY DEF Filled
  <2> HIDE DEF f
  <2> QED BY <1>4, <2>1, <2>2, ConcatProperties
<1> HIDE DEF k, m
<1>7. Len(buf) + Taken(b) = b
  BY <1>6
<1> DEFINE i == Taken(b)
<1>8. i \in Nat /\ i <= Len(input) /\ Len(buf) + i = b
  BY <1>1, <1>5, <1>7
<1> HIDE DEF i
<1>9. m + b <= fed
  BY <1>1, <1>2, <1>3, <1>8
<1> QED BY <1>2, <1>9 DEF k

LEMMA BlakeOpen ==
  ASSUME TypeInv, phase = "open", Consumed, Counted, alg = "blake", BlakeTurn
  PROVE  Consumed' /\ Counted'
<1> DEFINE w == Word["blake"]
           k == Len(out)
           t == (cnt[1] + 1024) % w
           x == 1024 * k
<1>1. w \in Nat \ {0} /\ k \in Nat /\ 128 \in Nat \ {0} /\ BlockLen[alg] = 128 /\ ~Lazy(alg)
  BY TypeFacts, BlockType, BlockIs DEF Lazy
<1>2. 1024 <= w
  <2>1. w % 1024 = 0
    BY WordAssumption
  <2> HIDE DEF w
  <2> QED BY <1>1, <2>1
<1>3. cnt[1] = x % w /\ cnt[2] = (x \div w) % w
  BY DEF Counted, HoldsCount
<1>4. x \in Nat /\ x + 1024 = 1024 * (k + 1)
  BY <1>1
<1>5. t \in Nat
  <2> DEFINE m == cnt[1] + 1024
  <2> HIDE DEF w, x
  <2>1. m \in Int
    BY <1>1, <1>3, <1>4, ModType
  <2>2. t = m % w
    OBVIOUS
  <2> HIDE DEF m, t
  <2> QED BY <1>1, <2>1, <2>2, ModType
<1>6. BlakeAdded = <<t, IF t < 1024 THEN (cnt[2] + 1) % w ELSE cnt[2]>>
  BY DEF BlakeAdded
<1> DEFINE s == BlakeAdded
           d == 1024
<1>7. s[1] = t /\ s[2] = (IF t < d THEN (cnt[2] + 1) % w ELSE cnt[2]) /\ t = ((x % w) + d) % w
  BY <1>3, <1>6
<1>8. d \in Nat /\ d <= w /\ x + d = 1024 * (k + 1)
  BY <1>2, <1>4
<1> HIDE DEF s, t, w, x, d
<1>17. w \in Nat \ {0} /\ d \in Nat /\ d <= w /\ x \in Nat /\ t \in Nat /\ t = ((x % w) + d) % w
  BY <1>1, <1>4, <1>5, <1>7, <1>8
<1>9. t = (x + d) % w
  BY <1>17, WordsAdd
<1>10. s[2] = ((x + d) \div w) % w
  <2> DEFINE e == (x \div w) % w
             f == ((x + d) \div w) % w
  <2>1. t < d => f = (e + 1) % w
    BY <1>17, WordsCarry
  <2>2. ~(t < d) => f = e
    BY <1>17, WordsCarry
  <2>3. cnt[2] = e
    BY <1>3
  <2> HIDE DEF e, f
  <2>4. s[2] = f
    BY <1>7, <2>1, <2>2, <2>3
  <2> QED BY <2>4 DEF f
<1>11. s \in Seq(Nat) /\ Len(s) = 2
  <2> DEFINE v == IF t < 1024 THEN (cnt[2] + 1) % w ELSE cnt[2]
  <2>1. s = <<t, v>>
    BY <1>6 DEF s
  <2>2. v \in Nat
    <3>1. s[2] = v
      BY <1>7 DEF d
    <3>2. (x + d) \div w \in Nat
      BY <1>1, <1>4, <1>8, DivType
    <3>3. ((x + d) \div w) % w \in Nat
      BY <1>1, <3>2, ModType
    <3> QED BY <1>10, <3>1, <3>3
  <2> HIDE DEF v
  <2> QED BY <1>5, <2>1, <2>2, TwoType
<1>12. s = Body(alg)[k + 1]
  <2>1. s = InWords(x + d, w, 2)
    BY <1>7, <1>9, <1>10, <1>11, TwoWords
  <2>2. Body(alg)[k + 1] = InWords(1024 * (k + 1), w, 2)
    BY <1>1 DEF Body, w
  <2> QED BY <1>8, <2>1, <2>2
<1>13. Turn(128, Entry(Filled(128), s), s, cnt)
  BY DEF BlakeTurn, Blake64Compress, s
<1>14. /\ Consumed' /\ UNCHANGED <<alg, fast, phase, fed>>
       /\ (Len(out') = Len(out) + 1 /\ cnt' = s) \/ (out' = out /\ cnt' = cnt)
  BY <1>1, <1>11, <1>12, <1>13, OpenTurn
<1>15. HoldsCount(1024 * Len(out))'
  <2>1. Word[alg] = w
    BY DEF w
  <2>2. CASE Len(out') = k + 1 /\ cnt' = s
    BY <1>7, <1>8, <1>9, <1>10, <1>14, <2>1, <2>2 DEF HoldsCount
  <2>3. CASE out' = out /\ cnt' = cnt
    BY <1>3, <1>14, <2>1, <2>3 DEF HoldsCount, x
  <2> QED BY <1>14, <2>2, <2>3
<1>16. Counted'
  BY <1>14, <1>15 DEF Counted
<1> QED BY <1>14, <1>16

(* A number and a modulus, both multiplied by s.                             *)
Scaled(s, v, y, w, u) ==
  s \in Nat \ {0} /\ v \in Nat \ {0} /\ y \in Nat /\ w = s * v /\ u = s * y

LEMMA ScaleMod ==
  ASSUME NEW s, NEW v, NEW y, NEW w, NEW u, Scaled(s, v, y, w, u)
  PROVE  u % w = s * (y % v) /\ u \div w = y \div v
<1>0. s \in Nat \ {0} /\ v \in Nat \ {0} /\ y \in Nat /\ w = s * v /\ u = s * y
  BY DEF Scaled
<1> DEFINE q == y \div v
           r == y % v
           c == s * r
<1>1. q \in Nat /\ y = v * q + r
  BY <1>0, DivType
<1>2. r \in Nat /\ r < v
  BY <1>0, ModType
<1>3. w \in Nat \ {0} /\ u \in Nat
  BY <1>0
<1> HIDE DEF q, r
<1>4. c \in Nat /\ c < w
  <2>1. r + 1 <= v /\ r + 1 \in Nat
    BY <1>0, <1>2
  <2>2. s * (r + 1) <= s * v
    BY <1>0, <2>1, TimesLess
  <2>3. s * (r + 1) = c + s /\ c \in Nat
    BY <1>0, <1>2
  <2> HIDE DEF c
  <2> DEFINE m == s * v
  <2>4. m \in Nat /\ c + s <= m /\ w = m
    BY <1>0, <2>2, <2>3
  <2> HIDE DEF m
  <2> QED BY <1>0, <2>3, <2>4
<1>5. u = w * q + c
  <2>1. s * (v * q + r) = s * (v * q) + s * r
    <3> DEFINE m == v * q
    <3>1. m \in Nat
      BY <1>0, <1>1
    <3> HIDE DEF m
    <3>2. s * (m + r) = s * m + s * r
      BY <1>0, <1>2, <3>1
    <3> QED BY <3>2 DEF m
  <2>2. s * (v * q) = (s * v) * q
    BY <1>0, <1>1
  <2> QED BY <1>0, <1>1, <2>1, <2>2
<1> HIDE DEF c
<1>6. u % w = c
  BY <1>1, <1>3, <1>4, <1>5, ModIs
<1>7. u \div w = q
  BY <1>1, <1>3, <1>4, <1>5, ModIs
<1> QED BY <1>6, <1>7 DEF c, q, r

LEMMA SmallMultiple ==
  ASSUME NEW v \in Nat \ {0}, NEW y \in Nat, NEW t, t = (1024 * y) % (1024 * v), t < 1024
  PROVE  t = 0
<1> DEFINE r == y % v
           w == 1024 * v
           u == 1024 * y
<1>1. r \in Nat
  BY ModType
<1>2. Scaled(1024, v, y, w, u)
  BY DEF Scaled
<1>3. t = u % w
  OBVIOUS
<1> HIDE DEF w, u
<1>4. t = 1024 * r
  BY <1>2, <1>3, ScaleMod
<1> HIDE DEF r
<1> QED BY <1>1, <1>4

(* A counter of bits in four words does not reach the upper two.             *)
LEMMA RoomForBits ==
  ASSUME TypeInv, Sized, alg \in {"shavite", "echo"}
  PROVE  8 * fed < Word[alg] * Word[alg]
<1>1. alg \in Algo
  BY TypeFacts
<1> QED BY <1>1, RoomAssumption DEF Sized

LEMMA CountBelow ==
  ASSUME NEW k \in Nat, NEW f \in Nat, 128 * (k + 1) <= f, NEW m \in Nat, 8 * f < m
  PROVE  1024 * k + 1024 < m
OBVIOUS

LEMMA ShaviteOpen ==
  ASSUME TypeInv, Sized, phase = "open", Consumed, Counted, alg = "shavite", ShaviteTurn
  PROVE  Consumed' /\ Counted'
<1> DEFINE w == Word["shavite"]
           k == Len(out)
           d == 1024
           x == 1024 * k
           t == (cnt[1] + d) % w
           s == ShaviteAdded
           full == Len(Filled(128)) = 128
<1>1. w \in Nat \ {0} /\ k \in Nat /\ 128 \in Nat \ {0} /\ BlockLen[alg] = 128 /\ ~Lazy(alg)
  BY TypeFacts, BlockType, BlockIs DEF Lazy
<1>2. w % 1024 = 0 /\ d <= w
  <2>1. w % 1024 = 0
    BY WordAssumption
  <2> HIDE DEF w
  <2> QED BY <1>1, <2>1
<1>3. cnt[1] = x % w /\ cnt[2] = (x \div w) % w /\ cnt[3] = 0 /\ cnt[4] = 0
  BY DEF Counted, HoldsCount
<1>4. x \in Nat /\ x + d = 1024 * (k + 1) /\ d \in Nat
  BY <1>1
<1>5. full => (x + d) \div w < w
  <2> SUFFICES ASSUME full PROVE (x + d) \div w < w
    OBVIOUS
  <2> DEFINE m == w * w
  <2>1. m \in Nat /\ fed \in Nat
    BY <1>1, TypeFacts
  <2>2. 8 * fed < m
    BY RoomForBits
  <2>3. 128 * (k + 1) <= fed
    BY <1>1, FullFed
  <2> HIDE DEF m, k
  <2>4. x + d < m
    BY <1>1, <2>1, <2>2, <2>3, CountBelow
  <2> DEFINE y == x + d
  <2>5. y \in Nat
    BY <1>1, <1>4
  <2>6. y < w * w
    BY <2>4 DEF m
  <2> HIDE DEF y, w
  <2>7. y \div w < w
    BY <1>1, <2>5, <2>6, BelowSquare
  <2> QED BY <2>7 DEF y
<1>6. t = ((x % w) + d) % w
  BY <1>3
<1>7. t \in Nat
  <2> DEFINE m == (x % w) + d
  <2> HIDE DEF w, x
  <2>1. m \in Int
    BY <1>1, <1>4, ModType
  <2>2. t = m % w
    BY <1>6
  <2> HIDE DEF m, t
  <2> QED BY <1>1, <2>1, <2>2, ModType
<1>8. s \in Seq(Nat) /\ Len(s) = 4
  BY ShaviteAddedType
<1>9. t = 0 <=> t < d
  <2>1. t = (x + d) % w
    <3> HIDE DEF t, x, d, w
    <3>1. w \in Nat \ {0} /\ d \in Nat /\ d <= w /\ x \in Nat /\ t \in Nat /\ t = ((x % w) + d) % w
      BY <1>1, <1>2, <1>4, <1>6, <1>7
    <3> QED BY <3>1, WordsAdd
  <2>2. t = (1024 * (k + 1)) % w
    BY <1>4, <2>1
  <2> DEFINE y == k + 1
  <2>3. y \in Nat /\ t = (1024 * y) % w
    BY <1>1, <2>2
  <2> HIDE DEF t, w, y
  <2> DEFINE v == w \div 1024
  <2>5. w = 1024 * v /\ v \in Nat \ {0}
    BY <1>1, <1>2, DivType
  <2> HIDE DEF v
  <2>6. t = (1024 * y) % (1024 * v)
    BY <2>3, <2>5
  <2>4. t < 1024 => t = 0
    BY <2>3, <2>5, <2>6, SmallMultiple
  <2> QED BY <1>7, <2>4
<1>10. s[1] = t
  BY DEF ShaviteAdded
<1>11. s[2] = IF t = 0 THEN (cnt[2] + 1) % w ELSE cnt[2]
  <2>1. s[2] = IF Carried(w, cnt, 2) THEN (cnt[2] + 1) % w ELSE cnt[2]
    BY DEF ShaviteAdded
  <2>2. Carried(w, cnt, 2) <=> t = 0
    BY DEF Carried
  <2> QED BY <2>1, <2>2
<1>12. s[3] = IF t = 0 /\ (cnt[2] + 1) % w = 0 THEN 1 % w ELSE 0
  <2>1. s[3] = IF Carried(w, cnt, 3) THEN (cnt[3] + 1) % w ELSE cnt[3]
    BY DEF ShaviteAdded
  <2>2. Carried(w, cnt, 3) <=> t = 0 /\ (cnt[2] + 1) % w = 0
    <3>1. 1..(3 - 1) = {1, 2}
      OBVIOUS
    <3>2. Carried(w, cnt, 3) <=> \A i \in {1, 2} : (cnt[i] + (IF i = 1 THEN 1024 ELSE 1)) % w = 0
      BY <3>1 DEF Carried
    <3> QED BY <3>2
  <2> QED BY <1>3, <2>1, <2>2
<1>13. s[4] = IF t = 0 /\ (cnt[2] + 1) % w = 0 /\ 1 % w = 0 THEN 1 % w ELSE 0
  <2>1. s[4] = IF Carried(w, cnt, 4) THEN (cnt[4] + 1) % w ELSE cnt[4]
    BY DEF ShaviteAdded
  <2>2. Carried(w, cnt, 4) <=> t = 0 /\ (cnt[2] + 1) % w = 0 /\ (cnt[3] + 1) % w = 0
    <3>1. 1..(4 - 1) = {1, 2, 3}
      OBVIOUS
    <3>2. Carried(w, cnt, 4) <=> \A i \in {1, 2, 3} : (cnt[i] + (IF i = 1 THEN 1024 ELSE 1)) % w = 0
      BY <3>1 DEF Carried
    <3> QED BY <3>2
  <2> QED BY <1>3, <2>1, <2>2
<1>14. full => s = InWords(x + d, w, 4) /\ s[3] = 0 /\ s[4] = 0
  <2> SUFFICES ASSUME full PROVE s = InWords(x + d, w, 4) /\ s[3] = 0 /\ s[4] = 0
    OBVIOUS
  <2> DEFINE c == (x \div w) % w
  <2>1. cnt[2] = c
    BY <1>3
  <2>2. s[2] = IF t < d THEN (c + 1) % w ELSE c
    BY <1>9, <1>11, <2>1
  <2>3. s[3] = IF t < d /\ (c + 1) % w = 0 THEN 1 % w ELSE 0
    BY <1>9, <1>12, <2>1
  <2>4. s[4] = IF t < d /\ (c + 1) % w = 0 /\ 1 % w = 0 THEN 1 % w ELSE 0
    BY <1>9, <1>13, <2>1
  <2>5. (x + d) \div w < w
    BY <1>5
  <2>6. /\ s[2] = IF t < d THEN (((x \div w) % w) + 1) % w ELSE (x \div w) % w
        /\ s[3] = IF t < d /\ (((x \div w) % w) + 1) % w = 0 THEN 1 % w ELSE 0
        /\ s[4] = IF t < d /\ (((x \div w) % w) + 1) % w = 0 /\ 1 % w = 0 THEN 1 % w ELSE 0
    BY <2>2, <2>3, <2>4
  <2> HIDE DEF s, t, x, d, w, c
  <2>7. w \in Nat \ {0} /\ d \in Nat /\ d <= w /\ x \in Nat /\ t \in Nat /\ t = ((x % w) + d) % w
    BY <1>1, <1>2, <1>4, <1>6, <1>7
  <2>8. s \in Seq(Nat) /\ Len(s) = 4 /\ s[1] = t
    BY <1>8, <1>10
  <2>9. FourCarry(s, x, d, w, t)
    BY <2>5, <2>6, <2>7, <2>8 DEF FourCarry
  <2> QED BY <2>9, FourAdded
<1>15. full => s = Body(alg)[k + 1]
  <2>1. Body(alg)[k + 1] = InWords(1024 * (k + 1), w, 4)
    BY <1>1 DEF Body
  <2> QED BY <1>4, <1>14, <2>1
<1>16. Turn(128, Entry(Filled(128), s), s, cnt)
  BY DEF ShaviteTurn, ShaviteC512
<1> HIDE DEF s
<1>17. /\ Consumed' /\ UNCHANGED <<alg, fast, phase, fed>>
       /\ (full /\ Len(out') = Len(out) + 1 /\ cnt' = s) \/ (out' = out /\ cnt' = cnt)
  <2> DEFINE b == 128
  <2>1. b \in Nat \ {0} /\ b = BlockLen[alg] /\ ~Lazy(alg)
    BY <1>1
  <2>2. Turn(b, Entry(Filled(b), s), s, cnt) /\ (Len(Filled(b)) = b => s = Body(alg)[Len(out) + 1])
    BY <1>15, <1>16
  <2>3. full <=> Len(Filled(b)) = b
    OBVIOUS
  <2> HIDE DEF b, full
  <2>4. /\ Consumed' /\ UNCHANGED <<alg, fast, phase, fed>>
        /\ (Len(Filled(b)) = b /\ Len(out') = Len(out) + 1 /\ cnt' = s) \/ (out' = out /\ cnt' = cnt)
    BY <1>8, <2>1, <2>2, OpenTurn
  <2> QED BY <2>3, <2>4
<1>18. (HoldsCount(1024 * Len(out)) /\ cnt[3] = 0 /\ cnt[4] = 0)'
  <2>1. Word[alg] = w
    OBVIOUS
  <2>2. CASE full /\ Len(out') = k + 1 /\ cnt' = s
    <3>1. s[1] = (x + d) % w /\ s[2] = ((x + d) \div w) % w /\ s[3] = 0 /\ s[4] = 0
      <4>1. s = InWords(x + d, w, 4) /\ s[3] = 0 /\ s[4] = 0
        BY <1>14, <2>2
      <4>2. InWords(x + d, w, 4)[1] = (x + d) % w /\ InWords(x + d, w, 4)[2] = ((x + d) \div w) % w
        BY DEF InWords
      <4> QED BY <4>1, <4>2
    <3>2. 1024 * Len(out') = x + d
      BY <1>4, <2>2
    <3> HIDE DEF x, d, w
    <3> QED BY <1>17, <2>1, <2>2, <3>1, <3>2 DEF HoldsCount
  <2>3. CASE out' = out /\ cnt' = cnt
    BY <1>3, <1>17, <2>1, <2>3 DEF HoldsCount
  <2> QED BY <1>17, <2>2, <2>3
<1>19. Counted'
  BY <1>17, <1>18 DEF Counted
<1> QED BY <1>17, <1>19

LEMMA EchoAddedIs ==
  ASSUME TypeInv, alg = "echo", ~fast, NEW x \in Nat, NEW d \in Nat, NEW w, w = Word["echo"], d <= w,
         HoldsCount(x), cnt[3] = 0, cnt[4] = 0, (x + d) \div w < w
  PROVE  /\ EchoAdded(d) \in Seq(Nat) /\ Len(EchoAdded(d)) = 4
         /\ EchoAdded(d) = InWords(x + d, w, 4) /\ EchoAdded(d)[3] = 0 /\ EchoAdded(d)[4] = 0
<1> DEFINE t == (cnt[1] + d) % w
           s == EchoAdded(d)
           c == (x \div w) % w
<1>1. w \in Nat \ {0}
  BY TypeFacts, BlockType
<1>2. cnt[1] = x % w /\ cnt[2] = c
  BY DEF HoldsCount
<1>3. s \in Seq(Nat) /\ Len(s) = 4
  BY EchoAddedType
<1>4. t = ((x % w) + d) % w
  BY <1>2
<1>5. t \in Nat
  <2> DEFINE m == (x % w) + d
  <2>1. m \in Int
    BY <1>1, ModType
  <2>2. t = m % w
    BY <1>4
  <2> HIDE DEF m, t
  <2> QED BY <1>1, <2>1, <2>2, ModType
<1>6. s[1] = t
  BY DEF EchoAdded
<1>7. s[2] = IF t < d THEN (c + 1) % w ELSE c
  <2>1. 2..(2 - 1) = {}
    OBVIOUS
  <2>2. s[2] = IF t < d /\ (\A i \in 2..(2 - 1) : (cnt[i] + 1) % w = 0) THEN (cnt[2] + 1) % w ELSE cnt[2]
    BY DEF EchoAdded
  <2> HIDE DEF s, t, c
  <2> QED BY <1>2, <2>1, <2>2
<1>8. s[3] = IF t < d /\ (c + 1) % w = 0 THEN 1 % w ELSE 0
  <2>1. 2..(3 - 1) = {2}
    OBVIOUS
  <2>2. s[3] = IF t < d /\ (\A i \in 2..(3 - 1) : (cnt[i] + 1) % w = 0) THEN (cnt[3] + 1) % w ELSE cnt[3]
    BY DEF EchoAdded
  <2> HIDE DEF s, t, c
  <2> QED BY <1>2, <2>1, <2>2
<1>9. s[4] = IF t < d /\ (c + 1) % w = 0 /\ 1 % w = 0 THEN 1 % w ELSE 0
  <2>1. 2..(4 - 1) = {2, 3}
    OBVIOUS
  <2>2. s[4] = IF t < d /\ (\A i \in 2..(4 - 1) : (cnt[i] + 1) % w = 0) THEN (cnt[4] + 1) % w ELSE cnt[4]
    BY DEF EchoAdded
  <2> HIDE DEF s, t, c
  <2> QED BY <1>2, <2>1, <2>2
<1>10. /\ s[2] = IF t < d THEN (((x \div w) % w) + 1) % w ELSE (x \div w) % w
       /\ s[3] = IF t < d /\ (((x \div w) % w) + 1) % w = 0 THEN 1 % w ELSE 0
       /\ s[4] = IF t < d /\ (((x \div w) % w) + 1) % w = 0 /\ 1 % w = 0 THEN 1 % w ELSE 0
  BY <1>7, <1>8, <1>9
<1> HIDE DEF s, t, c
<1>11. FourCarry(s, x, d, w, t)
  BY <1>1, <1>3, <1>4, <1>5, <1>6, <1>10 DEF FourCarry
<1>12. s = InWords(x + d, w, 4) /\ s[3] = 0 /\ s[4] = 0
  BY <1>11, FourAdded
<1> QED BY <1>3, <1>12 DEF s

(* The bits of a message up to the end of block k + 1 have room in two       *)
(* words.                                                                    *)
LEMMA BitsFit ==
  ASSUME TypeInv, Sized, alg \in {"shavite", "echo"}, NEW w, w = Word[alg], NEW x \in Nat, x <= 8 * fed
  PROVE  w \in Nat \ {0} /\ 1024 <= w /\ x \div w < w
<1>1. w \in Nat \ {0} /\ fed \in Nat
  BY TypeFacts, BlockType
<1>2. 1024 <= w
  <2>1. w % 1024 = 0
    BY WordAssumption
  <2> QED BY <1>1, <2>1
<1>3. x < w * w
  <2> DEFINE m == w * w
  <2>1. m \in Nat
    BY <1>1
  <2>2. 8 * fed < m
    BY RoomForBits
  <2> HIDE DEF m
  <2>3. x < m
    BY <1>1, <2>1, <2>2
  <2> QED BY <2>3 DEF m
<1>4. x \div w < w
  BY <1>1, <1>3, BelowSquare
<1> QED BY <1>1, <1>2, <1>4

LEMMA EchoOpen ==
  ASSUME TypeInv, Sized, phase = "open", Consumed, Counted, EchoCore
  PROVE  Consumed' /\ Counted'
<1> DEFINE w == Word["echo"]
           k == Len(out)
           d == 1024
           x == 1024 * k
           s == EchoAdded(d)
           full == Len(Filled(128)) = 128
<1>0. alg = "echo" /\ ~fast
  BY DEF EchoCore, Portable
<1>1. w \in Nat \ {0} /\ k \in Nat /\ 128 \in Nat \ {0} /\ BlockLen[alg] = 128 /\ ~Lazy(alg)
  BY <1>0, TypeFacts, BlockType, BlockIs DEF Lazy
<1>2. x \in Nat /\ x + d = 1024 * (k + 1) /\ d \in Nat
  BY <1>1
<1>3. HoldsCount(x) /\ cnt[3] = 0 /\ cnt[4] = 0
  BY <1>0 DEF Counted
<1>4. full => d <= w /\ (x + d) \div w < w
  <2> SUFFICES ASSUME full PROVE d <= w /\ (x + d) \div w < w
    OBVIOUS
  <2>1. fed \in Nat /\ 128 * (k + 1) <= fed
    BY <1>1, TypeFacts, FullFed
  <2>2. x + d <= 8 * fed
    BY <1>1, <1>2, <2>1
  <2> DEFINE y == x + d
  <2>3. y \in Nat /\ y <= 8 * fed
    BY <1>1, <1>2, <2>2
  <2> HIDE DEF y, w
  <2>4. w = Word[alg]
    BY <1>0 DEF w
  <2>5. 1024 <= w /\ y \div w < w
    BY <1>0, <2>3, <2>4, BitsFit
  <2> QED BY <2>5 DEF y
<1>5. s \in Seq(Nat) /\ Len(s) = 4
  BY <1>0, <1>2, EchoAddedType
<1>6. full => s = InWords(x + d, w, 4) /\ s[3] = 0 /\ s[4] = 0
  <2> HIDE DEF x, d, full
  <2>1. w = Word["echo"]
    OBVIOUS
  <2> HIDE DEF w
  <2> QED BY <1>0, <1>2, <1>3, <1>4, <2>1, EchoAddedIs
<1>7. full => s = Body(alg)[k + 1]
  <2>1. Body(alg)[k + 1] = InWords(1024 * (k + 1), w, 4)
    BY <1>0, <1>1 DEF Body
  <2> QED BY <1>2, <1>6, <2>1
<1>8. Turn(128, Entry(Filled(128), s), s, cnt)
  BY DEF EchoCore, EchoCompress
<1> HIDE DEF s
<1>9. /\ Consumed' /\ UNCHANGED <<alg, fast, phase, fed>>
      /\ (full /\ Len(out') = Len(out) + 1 /\ cnt' = s) \/ (out' = out /\ cnt' = cnt)
  <2> DEFINE b == 128
  <2>1. b \in Nat \ {0} /\ b = BlockLen[alg] /\ ~Lazy(alg)
    BY <1>1
  <2>2. Turn(b, Entry(Filled(b), s), s, cnt) /\ (Len(Filled(b)) = b => s = Body(alg)[Len(out) + 1])
    BY <1>7, <1>8
  <2>3. full <=> Len(Filled(b)) = b
    OBVIOUS
  <2> HIDE DEF b, full
  <2>4. /\ Consumed' /\ UNCHANGED <<alg, fast, phase, fed>>
        /\ (Len(Filled(b)) = b /\ Len(out') = Len(out) + 1 /\ cnt' = s) \/ (out' = out /\ cnt' = cnt)
    BY <1>5, <2>1, <2>2, OpenTurn
  <2> QED BY <2>3, <2>4
<1>10. (HoldsCount(1024 * Len(out)) /\ cnt[3] = 0 /\ cnt[4] = 0)'
  <2>1. Word[alg] = w
    BY <1>0
  <2>2. CASE full /\ Len(out') = k + 1 /\ cnt' = s
    <3>1. s[1] = (x + d) % w /\ s[2] = ((x + d) \div w) % w /\ s[3] = 0 /\ s[4] = 0
      <4>1. s = InWords(x + d, w, 4) /\ s[3] = 0 /\ s[4] = 0
        BY <1>6, <2>2
      <4>2. InWords(x + d, w, 4)[1] = (x + d) % w /\ InWords(x + d, w, 4)[2] = ((x + d) \div w) % w
        BY DEF InWords
      <4> QED BY <4>1, <4>2
    <3>2. 1024 * Len(out') = x + d
      BY <1>2, <2>2
    <3> HIDE DEF x, d, w
    <3> QED BY <1>9, <2>1, <2>2, <3>1, <3>2 DEF HoldsCount
  <2>3. CASE out' = out /\ cnt' = cnt
    BY <1>3, <1>9, <2>1, <2>3 DEF HoldsCount
  <2> QED BY <1>9, <2>2, <2>3
<1>11. Counted'
  BY <1>0, <1>9, <1>10 DEF Counted
<1> QED BY <1>9, <1>11

(* A turn of a loop that keeps a full buffer.                                *)
LEMMA LateOpen ==
  ASSUME TypeInv, phase = "open", Consumed, Lazy(alg), NEW b \in Nat \ {0}, b = BlockLen[alg],
         NEW x \in Seq(Nat), NEW full, LazyTurn(b, Entry(buf, x), full),
         Len(buf) = b => x = Body(alg)[Len(out) + 1]
  PROVE  /\ Consumed'
         /\ UNCHANGED <<alg, fast, phase, fed>>
         /\ \/ Len(out') = Len(out) + 1 /\ cnt' = full
            \/ out' = out /\ cnt' = cnt
<1> DEFINE w == Message(0, fed)
           tw == Body(alg)
<1>1. w \in Seq(Int)
  BY TypeFacts, MessageIs
<1>2. Holds(b, out, buf, input, later, w, tw)
  BY DEF Consumed
<1>3. UNCHANGED <<alg, fast, phase, fed>>
  BY DEF LazyTurn
<1>4. Len(buf) = b => x = tw[Len(out) + 1]
  OBVIOUS
<1> HIDE DEF w, tw
<1>5. /\ Holds(b, out', buf', input', later', w, tw)
      /\ \/ Len(out') = Len(out) + 1 /\ cnt' = full
         \/ out' = out /\ cnt' = cnt
  BY <1>1, <1>2, <1>4, LateTurn
<1>6. Consumed'
  BY <1>3, <1>5 DEF Consumed, w, tw
<1> QED BY <1>3, <1>5, <1>6

LEMMA ThreeWords ==
  ASSUME NEW y \in Nat, NEW u \in Nat, NEW v \in Nat
  PROVE  <<u, v>> \o <<y>> = <<u, v, y>> /\ <<u, v, y>> \in Seq(Nat)
<1> DEFINE s == <<u, v>>
           t == <<y>>
           z == <<u, v, y>>
<1>2. /\ s \in Seq(Int) /\ Len(s) = 2 /\ s[1] = u /\ s[2] = v
      /\ t \in Seq(Int) /\ Len(t) = 1 /\ t[1] = y
      /\ z \in Seq(Int) /\ z \in Seq(Nat) /\ Len(z) = 3 /\ z[1] = u /\ z[2] = v /\ z[3] = y
  OBVIOUS
<1> HIDE DEF s, t, z
<1> DEFINE c == s \o t
<1>4. /\ c \in Seq(Int) /\ Len(c) = 3
      /\ \A i \in 1..3 : c[i] = IF i <= 2 THEN s[i] ELSE t[i - 2]
  <2>1. c \in Seq(Int) /\ Len(c) = Len(s) + Len(t)
        /\ \A i \in 1..(Len(s) + Len(t)) : c[i] = IF i <= Len(s) THEN s[i] ELSE t[i - Len(s)]
    BY <1>2, ConcatProperties
  <2> HIDE DEF c
  <2>2. Len(s) + Len(t) = 3
    BY <1>2
  <2> QED BY <1>2, <2>1, <2>2
<1> HIDE DEF c
<1>5. c[1] = u /\ c[2] = v /\ c[3] = y
  BY <1>2, <1>4
<1>6. \A i \in 1..Len(c) : c[i] = z[i]
  <2>1. 1..Len(c) = {1, 2, 3}
    BY <1>4
  <2> QED BY <1>2, <1>5, <2>1
<1>7. c = z
  BY <1>2, <1>4, <1>6, SameBytes
<1> QED BY <1>2, <1>7 DEF c, s, t, z

(* A place in the message fits the low word of Skein's counter.              *)
SkeinFits(w, k, e, m, y) ==
  /\ w \in Nat \ {0} /\ w % 64 = 0 /\ k \in Nat /\ e \in Nat /\ m \in Nat /\ y \in Nat
  /\ m = 64 * k + e /\ m < w

LEMMA SkeinPlace ==
  ASSUME NEW w, NEW k, NEW e, NEW m, NEW y, SkeinFits(w, k, e, m, y)
  PROVE  /\ <<m % w, k \div (w \div 64), y>> = InWords(m, w, 2) \o <<y>>
         /\ <<m % w, k \div (w \div 64), y>> \in Seq(Nat)
<1> DEFINE v == w \div 64
<1>0. /\ w \in Nat \ {0} /\ w % 64 = 0 /\ k \in Nat /\ e \in Nat /\ m \in Nat /\ y \in Nat
      /\ m = 64 * k + e /\ m < w
  BY DEF SkeinFits
<1>1. v \in Nat \ {0} /\ w = 64 * v
  BY <1>0, DivType
<1>2. k < v
  <2> HIDE DEF v
  <2> QED BY <1>0, <1>1
<1>3. k \div v = 0
  <2> HIDE DEF v
  <2> QED BY <1>0, <1>1, <1>2, SmallMod
<1>4. m % w = m /\ m \div w = 0
  BY <1>0, SmallMod
<1>5. (m \div w) % w = 0
  BY <1>0, <1>4, SmallMod
<1> HIDE DEF v
<1>6. InWords(m, w, 2) = <<m, 0>>
  <2> DEFINE s == <<m, 0>>
  <2>1. s \in Seq(Nat) /\ Len(s) = 2 /\ s[1] = m % w /\ s[2] = (m \div w) % w
    BY <1>0, <1>4, <1>5
  <2> HIDE DEF s
  <2>2. s = InWords(m, w, 2)
    BY <2>1, TwoWords
  <2> QED BY <2>2 DEF s
<1>7. <<m, 0>> \o <<y>> = <<m, 0, y>> /\ <<m, 0, y>> \in Seq(Nat)
  <2> DEFINE z == 0
  <2>1. z \in Nat
    OBVIOUS
  <2> HIDE DEF z
  <2>2. <<m, z>> \o <<y>> = <<m, z, y>> /\ <<m, z, y>> \in Seq(Nat)
    BY <1>0, <2>1, ThreeWords
  <2> QED BY <2>2 DEF z
<1> QED BY <1>3, <1>4, <1>6, <1>7 DEF v

LEMMA SkeinRoom ==
  ASSUME TypeInv, Sized, alg = "skein"
  PROVE  fed < Word["skein"]
<1>1. alg \in Algo
  BY TypeFacts
<1> QED BY <1>1, RoomAssumption DEF Sized

LEMMA SkeinOpen ==
  ASSUME TypeInv, Sized, phase = "open", Consumed, Counted, SkeinCore
  PROVE  Consumed' /\ Counted'
<1> DEFINE w == Word["skein"]
           k == Len(out)
           y == 96 + 128 * Flag(k = 0)
           m == 64 * (k + 1)
           x == <<m % w, (k + 1) \div (w \div 64), y>>
           c == <<k + 1>>
<1>1. alg = "skein" /\ Lazy(alg)
  BY DEF SkeinCore, Common, Lazy
<1>2. w \in Nat \ {0} /\ w % 64 = 0 /\ k \in Nat /\ 64 \in Nat \ {0} /\ BlockLen[alg] = 64
  BY <1>1, TypeFacts, BlockType, BlockIs, WordAssumption
<1>3. cnt[1] = k
  BY <1>1 DEF Counted
<1>4. LazyTurn(64, Entry(buf, x), c)
  <2>1. 64 * (k + 1) + 0 = m
    BY <1>2
  <2>2. SkeinUbi(buf, k + 1, 0, y) = Entry(buf, <<(64 * (k + 1) + 0) % w, (k + 1) \div (w \div 64), y>>)
    BY DEF SkeinUbi
  <2>3. LazyTurn(64, SkeinUbi(buf, k + 1, 0, y), c)
    BY <1>3 DEF SkeinCore, SkeinFirst
  <2> HIDE DEF m, y, c, k
  <2> QED BY <2>1, <2>2, <2>3
<1>5. y \in Nat /\ k + 1 \in Nat /\ m \in Nat
  BY <1>2 DEF Flag
<1>6. x \in Seq(Nat)
  <2>1. m % w \in Nat
    <3> HIDE DEF m, w
    <3> QED BY <1>2, <1>5, ModType
  <2> DEFINE v == w \div 64
  <2>2. v \in Nat \ {0}
    <3> HIDE DEF w, m, y, k
    <3>1. w \in Nat /\ w # 0 /\ w % 64 = 0
      BY <1>2
    <3>2. v \in Nat /\ w = 64 * v + (w % 64)
      BY <3>1, DivType
    <3> HIDE DEF v
    <3> QED BY <3>1, <3>2
  <2> HIDE DEF v, m, w, y
  <2>3. (k + 1) \div v \in Nat
    BY <1>5, <2>2, DivType
  <2> DEFINE q == (k + 1) \div v
             r == m % w
  <2>4. q \in Nat /\ r \in Nat
    BY <2>1, <2>3
  <2> HIDE DEF q, r
  <2>5. <<r, q, y>> \in Seq(Nat)
    BY <1>5, <2>4
  <2> QED BY <2>5 DEF q, r, v
<1>7. Len(buf) = 64 => x = Body(alg)[k + 1]
  <2> SUFFICES ASSUME Len(buf) = 64 PROVE x = Body(alg)[k + 1]
    OBVIOUS
  <2>1. m <= fed
    <3>1. fed = 64 * k + 64 + Len(input) /\ Len(input) \in Nat
      BY <1>2, TypeFacts DEF TypeInv, Taking
    <3> QED BY <1>2, <3>1
  <2>2. m < w
    BY <1>1, <1>2, <1>5, <2>1, SkeinRoom, TypeFacts
  <2>3. m = 64 * (k + 1) + 0 /\ 0 \in Nat
    BY <1>2
  <2>4. Body(alg)[k + 1] = InWords(m, w, 2) \o <<96 + 128 * Flag(k + 1 = 1)>>
    BY <1>1, <1>5 DEF Body
  <2>5. 96 + 128 * Flag(k + 1 = 1) = y
    BY <1>2 DEF Flag
  <2> DEFINE j == k + 1
  <2>6. j \in Nat /\ m = 64 * j + 0
    BY <1>5, <2>3
  <2>7. x = <<m % w, j \div (w \div 64), y>>
    OBVIOUS
  <2> DEFINE z == 0
  <2>9. SkeinFits(w, j, z, m, y)
    BY <1>2, <1>5, <2>2, <2>6 DEF SkeinFits
  <2> HIDE DEF j, m, w, y, x, z
  <2>8. <<m % w, j \div (w \div 64), y>> = InWords(m, w, 2) \o <<y>>
    BY <2>9, SkeinPlace
  <2> QED BY <2>4, <2>5, <2>7, <2>8
<1>8. c[1] = k + 1
  OBVIOUS
<1> HIDE DEF x, c
<1>9. /\ Consumed' /\ UNCHANGED <<alg, fast, phase, fed>>
      /\ (Len(out') = k + 1 /\ cnt' = c) \/ (out' = out /\ cnt' = cnt)
  <2> DEFINE b == 64
  <2>1. /\ b \in Nat \ {0} /\ b = BlockLen[alg] /\ LazyTurn(b, Entry(buf, x), c)
        /\ (Len(buf) = b => x = Body(alg)[Len(out) + 1])
    BY <1>2, <1>4, <1>7
  <2> HIDE DEF b
  <2> QED BY <1>1, <1>6, <2>1, LateOpen
<1>10. cnt'[1] = Len(out')
  BY <1>3, <1>8, <1>9
<1>11. Counted'
  BY <1>1, <1>9, <1>10 DEF Counted
<1> QED BY <1>9, <1>11

LEMMA FugueBody ==
  ASSUME TypeInv, phase = "open", Counted, alg = "fugue"
  PROVE  /\ <<cnt[2]>> \in Seq(Nat) /\ <<cnt[2]>> = Body(alg)[Len(out) + 1]
         /\ (cnt[2] + 1) % 3 = (Len(out) + 1) % 3
<1> DEFINE k == Len(out)
<1>1. k \in Nat
  BY TypeFacts
<1>2. cnt[2] = k % 3
  BY DEF Counted
<1>3. Body(alg)[k + 1] = <<((k + 1) - 1) % 3>>
  BY <1>1 DEF Body
<1> HIDE DEF k
<1>4. (k + 1) - 1 = k /\ k % 3 \in Nat /\ ((k % 3) + 1) % 3 = (k + 1) % 3
  BY <1>1
<1>5. <<cnt[2]>> \in Seq(Nat)
  BY <1>2, <1>4
<1> QED BY <1>2, <1>3, <1>4, <1>5 DEF k

LEMMA FugueOpen ==
  ASSUME TypeInv, phase = "open", Consumed, Counted, FugueCore \/ FugueNothing
  PROVE  Consumed' /\ Counted'
<1> DEFINE k == Len(out)
           x == <<cnt[2]>>
           c == FugueShifted
<1>1. alg = "fugue" /\ ~fast /\ Lazy(alg)
  BY DEF FugueCore, FugueNothing, Portable, Lazy
<1>2. k \in Nat /\ 4 \in Nat \ {0} /\ BlockLen[alg] = 4
  BY <1>1, TypeFacts, BlockIs
<1>3. x \in Seq(Nat) /\ x = Body(alg)[k + 1] /\ (cnt[2] + 1) % 3 = (k + 1) % 3
  BY <1>1, FugueBody
<1>4. c[1] = cnt[1] /\ c[2] = (k + 1) % 3
  BY <1>3 DEF FugueShifted
<1>5. cnt[1] = (8 * fed) % Word[alg] /\ cnt[2] = k % 3
  BY <1>1 DEF Counted
<1> HIDE DEF x, c
<1>6. /\ Consumed' /\ UNCHANGED <<alg, fast, phase, fed>>
      /\ (Len(out') = k + 1 /\ cnt' = c) \/ (out' = out /\ cnt' = cnt)
  <2>1. CASE FugueCore
    <3>1. LazyTurn(4, Entry(buf, x), c)
      BY <2>1 DEF FugueCore, FugueRound, c, x
    <3> QED BY <1>1, <1>2, <1>3, <3>1, LateOpen
  <2>2. CASE FugueNothing
    <3> DEFINE w == Message(0, fed)
               tw == Body(alg)
               q == Append(out, Entry(buf, x))
    <3>1. /\ Len(buf) = 4 /\ buf' = <<>> /\ out' = q /\ cnt' = c
          /\ UNCHANGED <<fast, alg, phase, fed, input, later>>
      BY <2>2 DEF FugueNothing, FugueRound, c, x
    <3>2. w \in Seq(Int) /\ x = tw[k + 1] /\ Holds(4, out, buf, input, later, w, tw)
      BY <1>2, <1>3, TypeFacts, MessageIs DEF Consumed
    <3> DEFINE b == 4
    <3>5. b \in Nat /\ Holds(b, out, buf, input, later, w, tw) /\ Len(buf) = b /\ x = tw[Len(out) + 1]
      BY <3>1, <3>2
    <3>6. out \in Seq(Compression) /\ buf \in Seq(Int) /\ input \in Seq(Int) /\ later \in Seq(Int)
      BY TypeFacts
    <3> HIDE DEF w, tw, b, k
    <3>7. Holds(b, q, <<>>, input, later, w, tw) /\ Len(q) = Len(out) + 1
      BY <1>3, <3>2, <3>5, <3>6, FullHolds
    <3>3. Holds(4, q, <<>>, input, later, w, tw) /\ Len(q) = k + 1
      BY <3>7 DEF b, k
    <3> HIDE DEF q
    <3>4. Consumed'
      BY <1>2, <3>1, <3>3 DEF Consumed, w, tw
    <3> QED BY <3>1, <3>3, <3>4
  <2> QED BY <2>1, <2>2
<1>7. cnt'[1] = (8 * fed') % Word[alg'] /\ cnt'[2] = Len(out') % 3
  BY <1>4, <1>5, <1>6
<1>8. Counted'
  BY <1>1, <1>6, <1>7 DEF Counted
<1> QED BY <1>6, <1>8

(* Every turn of a loop in an open context.                                  *)
LEMMA TurnsOpen ==
  ASSUME TypeInv, Sized, phase = "open", Consumed, Counted, PortableTurn \/ FastTurn
  PROVE  Consumed' /\ Counted'
<1>1. CASE BlakeCore \/ FastBlakeCore
  BY <1>1, BlakeOpen DEF BlakeCore, FastBlakeCore, Portable, Fast
<1>2. CASE ShaviteCore \/ FastShaviteCore
  BY <1>2, ShaviteOpen DEF ShaviteCore, FastShaviteCore, Portable, Fast
<1>3. CASE \/ BmwCore \/ KeccakCore \/ LuffaCore \/ CubehashCore \/ Sha3Update
           \/ JhUpdate \/ LuffaUpdate \/ CubehashUpdate \/ FastWhirlpoolUpdate \/ KeccakFastLoopAbsorb
  BY <1>3, StillTurns
<1>4. CASE GroestlCore \/ GroestlBlocks \/ JhCore
  BY <1>4, BlockCountTurns
<1>5. CASE HamsiCore \/ FastHamsiCore
  BY <1>5, HamsiOpen
<1>6. CASE ShabalCore
  BY <1>6, ShabalOpen
<1>7. CASE SimdCore
  BY <1>7, SimdOpen
<1>8. CASE SimdUpdate
  BY <1>8, FastSimdOpen
<1>9. CASE EchoCore
  BY <1>9, EchoOpen
<1>10. CASE EchoUpdate
  BY <1>10, FastEchoOpen
<1>11. CASE FugueUpdate
  BY <1>11, FastFugueOpen
<1>12. CASE FugueCore \/ FugueNothing
  BY <1>12, FugueOpen
<1>13. CASE WhirlpoolCore \/ Sha512Core
  BY <1>13, MdOpen
<1>14. CASE SkeinCore
  BY <1>14, SkeinOpen
<1> QED BY <1>1, <1>2, <1>3, <1>4, <1>5, <1>6, <1>7, <1>8, <1>9, <1>10, <1>11, <1>12, <1>13, <1>14
        DEF PortableTurn, FastTurn
=============================================================================
