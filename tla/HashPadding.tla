---------------------------- MODULE HashPadding ----------------------------
(***************************************************************************)
(* What a digest is made of: for each hash function of the X16RS chain,    *)
(* and for SHA3-256, the blocks that a message of n bytes turns into and   *)
(* what each is compressed with, whatever the calls that brought it in.    *)
(* This is the promise; HashStream and FastStream are the code.            *)
(*                                                                         *)
(* The values of the bytes do not matter, their places do: a byte is an    *)
(* integer, the ith of the message is i > 0, a value that the code writes  *)
(* is below zero, and 0 is memory nobody has written.                      *)
(***************************************************************************)
EXTENDS Integers, Sequences

CONSTANT
  Word     \* bound: per function, how many values a word of its counter has

Chained == {"blake", "bmw", "groestl", "jh", "keccak", "skein", "luffa", "cubehash",
            "shavite", "simd", "echo", "hamsi", "fugue", "shabal", "whirlpool", "sha512"}
Algo == Chained \union {"sha3"}

\* The bytes of a block.
BlockLen == [a \in Algo |->
  CASE a \in {"blake", "bmw", "groestl", "shavite", "simd", "echo", "sha512"} -> 128
    [] a \in {"jh", "skein", "shabal", "whirlpool"} -> 64
    [] a \in {"luffa", "cubehash"} -> 32
    [] a = "keccak" -> 72
    [] a = "sha3" -> 136
    [] a = "hamsi" -> 8
    [] a = "fugue" -> 4]

ASSUME WordAssumption ==
  /\ Word \in [Algo -> Nat \ {0}]
  /\ \A a \in {"blake", "shavite", "echo", "simd"} : Word[a] % 1024 = 0
  /\ Word["jh"] % 512 = 0
  /\ Word["skein"] % 64 = 0
  /\ \A a \in {"whirlpool", "sha512"} : Word[a] % 8 = 0

Lower(a, b) == IF a < b THEN a ELSE b

-----------------------------------------------------------------------------
(* Bytes, words and blocks *)

Byte(x) == -1 - x
Unwritten == 0
Zeros(n) == [i \in 1..n |-> Byte(0)]
Message(from, n) == [i \in 1..n |-> from + i]

\* A number below 2^24 in w bytes.
BigEndian(n, w) ==
  [k \in 1..w |-> Byte(CASE k = w     -> n % 256
                         [] k = w - 1 -> (n \div 256) % 256
                         [] k = w - 2 -> (n \div 65536) % 256
                         [] OTHER     -> 0)]
LittleEndian(n, w) == [k \in 1..w |-> BigEndian(n, w)[w + 1 - k]]

\* A number in k words of size w, the lowest first; what is above them is lost.
InWords(n, w, k) == [j \in 1..k |-> IF j > 2 THEN 0 ELSE IF j = 1 THEN n % w ELSE (n \div w) % w]

\* Two words of eight bytes, the high one first.
BigPair(w) == BigEndian(w[2], 8) \o BigEndian(w[1], 8)

\* Four words of four bytes.
LittleFour(w) == LittleEndian(w[1], 4) \o LittleEndian(w[2], 4)
                 \o LittleEndian(w[3], 4) \o LittleEndian(w[4], 4)

\* One call of the compression function: the block and what goes in beside it.
Entry(block, tweak) == [block |-> block, tweak |-> tweak]
Blank(tweak) == Entry(<<>>, tweak)

-----------------------------------------------------------------------------
(* The padded message *)

\* How many bytes are missing to a multiple of b.
Gap(b, n) == (b - (n % b)) % b

\* The bit and zeros up to the place of what ends the last block.
OneAndZeros(b, n, end) == <<Byte(128)>> \o Zeros(Gap(b, n + 1 + end))

\* The padding 1 0* 1 of a sponge, after the bits first.
Sponge(b, n, first) ==
  IF n % b = b - 1 THEN <<Byte(first + 128)>>
  ELSE <<Byte(first)>> \o Zeros(b - 2 - (n % b)) \o <<Byte(128)>>

Padding(a, n) ==
  LET b == BlockLen[a]
      bits(k) == InWords(8 * n, Word[a], k)
  IN CASE a = "blake" -> (IF n % 128 = 111 THEN <<Byte(129)>>
                          ELSE <<Byte(128)>> \o Zeros(Gap(128, n + 18)) \o <<Byte(1)>>)
                         \o BigPair(bits(2))
       [] a = "bmw" -> OneAndZeros(b, n, 8) \o LittleEndian(bits(1)[1], 8)
       [] a = "groestl" -> OneAndZeros(b, n, 8)
                           \o BigEndian(((n + 9 + Gap(b, n + 9)) \div b) % Word[a], 8)
       [] a = "jh" -> <<Byte(128)>> \o Zeros(47 + Gap(b, n)) \o BigPair(bits(2))
       [] a = "keccak" -> Sponge(b, n, 1)
       [] a = "sha3" -> Sponge(b, n, 6)
       [] a = "skein" -> Zeros(IF n = 0 THEN b ELSE Gap(b, n))
       [] a \in {"luffa", "cubehash", "shabal"} -> OneAndZeros(b, n, 0)
       [] a = "shavite" -> OneAndZeros(b, n, 18) \o LittleFour(bits(4)) \o LittleEndian(512, 2)
       [] a = "echo" -> OneAndZeros(b, n, 18) \o LittleEndian(512, 2) \o LittleFour(bits(4))
       [] a = "simd" -> Zeros(Gap(b, n)) \o LittleEndian(bits(2)[1], 4)
                        \o LittleEndian(bits(2)[2], 4) \o Zeros(120)
       [] a = "hamsi" -> OneAndZeros(b, n, 0) \o BigEndian(bits(1)[1], 8)
       [] a = "fugue" -> Zeros(Gap(b, n)) \o BigEndian(bits(1)[1], 8)
       [] a = "whirlpool" -> OneAndZeros(b, n, 32) \o Zeros(16) \o BigPair(bits(2))
       [] a = "sha512" -> OneAndZeros(b, n, 16) \o BigPair(bits(2))

Padded(a, n) == Message(0, n) \o Padding(a, n)
Count(a, n) == Len(Padded(a, n)) \div BlockLen[a]

\* The message bits up to the end of block i, none if it holds none.
BitsAt(a, n, i) ==
  IF BlockLen[a] * (i - 1) >= n THEN 0 ELSE 8 * Lower(n, BlockLen[a] * i)

Flag(p) == IF p THEN 1 ELSE 0

\* What block i is compressed with: a count of bits, a place, or which round it is.
Tweak(a, n, i) ==
  CASE a = "blake" -> InWords(BitsAt(a, n, i), Word[a], 2)
    [] a \in {"shavite", "echo"} -> InWords(BitsAt(a, n, i), Word[a], 4)
    [] a = "skein" -> InWords(Lower(n, 64 * i), Word[a], 2)
                      \o <<96 + 128 * Flag(i = 1) + 256 * Flag(i = Count(a, n))>>
    [] a \in {"simd", "hamsi"} -> <<Flag(i = Count(a, n))>>
    [] a = "fugue" -> <<(i - 1) % 3>>
    [] a = "shabal" -> InWords(i, Word[a], 2)
    [] OTHER -> <<>>

\* What follows the last block.
Output(a, n) ==
  CASE a \in {"bmw", "groestl"} -> <<Blank(<<>>)>>
    [] a = "luffa" -> <<Blank(<<>>), Blank(<<>>)>>
    [] a = "cubehash" -> [j \in 1..10 |-> Blank(<<Flag(j = 1)>>)]
    [] a = "skein" -> <<Entry(Zeros(64), InWords(8, Word[a], 2) \o <<510>>)>>
    [] a = "fugue" -> <<Blank(<<Count(a, n) % 3>>)>>
    [] a = "shabal" -> [j \in 1..3 |-> Blank(InWords(Count(a, n), Word[a], 2))]
    [] OTHER -> <<>>

Standard(a, n) ==
  LET p == Padded(a, n)
      b == BlockLen[a]
  IN [i \in 1..Count(a, n) |-> Entry(SubSeq(p, b * (i - 1) + 1, b * i), Tweak(a, n, i))]
     \o Output(a, n)
=============================================================================
