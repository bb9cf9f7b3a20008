---------------------------- MODULE HashStream ----------------------------
(***************************************************************************)
(* The streaming hash contexts of src/x16rs/algo: the portable build of    *)
(* all seventeen functions, five of which (bmw, keccak, skein, shabal,     *)
(* sha512) the fast build has as well.                                     *)
(*                                                                         *)
(* A context takes the message in chunks of any length, keeps what does    *)
(* not fill a block and counts; close pads what is left.  An update or a   *)
(* close is one call; each turn of the loop inside it is a step, so that   *)
(* what holds between two turns can be stated.  A compression function is  *)
(* the entry it adds to out: the block, and the counter or the flag that   *)
(* goes in with it.                                                        *)
(***************************************************************************)
EXTENDS HashPadding

CONSTANTS
  Chunks,      \* bound: the lengths of the updates after the first
  MaxFed       \* bound: the bytes of a message

VARIABLES
  fast,        \* whether the program is built with USE_NEW_ALGO
  alg,         \* the function of the open context
  phase,       \* "open", "closing" or "done"
  fed,         \* the bytes of the message so far
  buf,         \* the buffer up to ptr
  cnt,         \* the counters of the context
  input,       \* the data of the current call that is not yet consumed
  later,       \* the data of the call that the close makes after this one
  out          \* the compressions so far

context == <<buf, cnt, input, later, out>>
stream == <<fast, alg, phase, fed, context>>

Portable(a) == alg = a /\ ~fast
Common(a) == alg = a

-----------------------------------------------------------------------------
(* One turn of a loop *)

\* Mistake: as much as a block holds, whatever is in the buffer already.
TakenBlock(b) == Lower(b, Len(input))

\* An eager loop fills the buffer and compresses it at once when it is full.
Taken(b) == Lower(b - Len(buf), Len(input))

Filled(b) == buf \o SubSeq(input, 1, Taken(b))
Rest(n) == SubSeq(input, n + 1, Len(input))

Turn(b, entry, full, partial) ==
  /\ input # <<>>
  /\ input' = Rest(Taken(b))
  /\ IF Len(Filled(b)) = b
     THEN buf' = <<>> /\ out' = Append(out, entry) /\ cnt' = full
     ELSE buf' = Filled(b) /\ cnt' = partial /\ UNCHANGED out
  /\ UNCHANGED <<fast, alg, phase, fed, later>>

\* A lazy loop keeps a full buffer until more data comes.
LazyTurn(b, entry, full) ==
  /\ input # <<>>
  /\ LET kept == IF Len(buf) = b THEN <<>> ELSE buf
         n == Lower(b - Len(kept), Len(input))
     IN /\ buf' = kept \o SubSeq(input, 1, n)
        /\ input' = Rest(n)
  /\ IF Len(buf) = b THEN out' = Append(out, entry) /\ cnt' = full
     ELSE UNCHANGED <<out, cnt>>
  /\ UNCHANGED <<fast, alg, phase, fed, later>>

\* The close pads: it calls the update with data, and once more with then.
Closing == phase = "open" /\ input = <<>>

Call(data, then, counters) ==
  /\ Closing
  /\ phase' = "closing" /\ input' = data /\ later' = then /\ cnt' = counters
  /\ UNCHANGED <<fast, alg, fed, buf, out>>

\* Or it compresses by itself, and the digest is there.
Digest(entries) ==
  /\ phase' = "done" /\ out' = out \o entries /\ buf' = <<>>
  /\ UNCHANGED <<fast, alg, fed, cnt, input, later>>

Called == phase = "closing" /\ input = <<>> /\ later = <<>>

-----------------------------------------------------------------------------
(* BLAKE: T counts message bits before each block, so the close sets it    *)
(* 1024 below what the update is to find.                                  *)

BlakeInit == <<0, 0>>

Blake64Compress(block, t) == Entry(block, t)

BlakeAdded ==
  LET t0 == (cnt[1] + 1024) % Word["blake"]
  IN <<t0, IF t0 < 1024 THEN (cnt[2] + 1) % Word["blake"] ELSE cnt[2]>>

BlakeBefore == <<Word["blake"] - 1024, Word["blake"] - 1>>

\* Mistake: with nothing compressed so far the carry is not taken back.
BlakeBackNoCarry(bits) == <<(cnt[1] + Word["blake"] - 1024 + bits) % Word["blake"], cnt[2]>>

BlakeBack(bits) ==
  IF bits = 0 THEN BlakeBefore
  ELSE IF cnt[1] = 0
  THEN <<Word["blake"] - 1024 + bits, (cnt[2] + Word["blake"] - 1) % Word["blake"]>>
  ELSE <<cnt[1] - (1024 - bits), cnt[2]>>

BlakeTurn == Turn(128, Blake64Compress(Filled(128), BlakeAdded), BlakeAdded, cnt)

\* The first padding bit and, at byte 111, the last.
BlakePad(ptr) ==
  IF ptr = 111 THEN <<Byte(129)>> ELSE <<Byte(128)>> \o Zeros(110 - ptr) \o <<Byte(1)>>

BlakeLength(bits) == BigPair(<<cnt[1] + bits, cnt[2]>>)

BlakeCall ==
  LET ptr == Len(buf)
      bits == 8 * ptr
  IN IF bits <= 894
     THEN Call(BlakePad(ptr) \o BlakeLength(bits), <<>>, BlakeBack(bits))
     ELSE Call(<<Byte(128)>> \o Zeros(127 - ptr),
               Zeros(111) \o <<Byte(1)>> \o BlakeLength(bits), BlakeBack(bits))

\* The second block of a padding holds no message bit.
BlakeSecond ==
  /\ phase = "closing" /\ input = <<>> /\ later # <<>>
  /\ input' = later /\ later' = <<>> /\ cnt' = BlakeBefore
  /\ UNCHANGED <<fast, alg, phase, fed, buf, out>>

BlakeCore == Portable("blake") /\ BlakeTurn
BlakeClose == Portable("blake") /\ (BlakeCall \/ BlakeSecond \/ (Called /\ Digest(<<>>)))

-----------------------------------------------------------------------------
(* BMW: one word counts bits as updates come in *)

BmwInit == <<0>>
BmwCompress(block) == Entry(block, <<>>)
BmwFinal == Blank(<<>>)
BmwCount(n) == <<(cnt[1] + 8 * n) % Word["bmw"]>>
BmwCore == Common("bmw") /\ Turn(128, BmwCompress(Filled(128)), cnt, cnt)

BmwClose ==
  LET one == buf \o <<Byte(128)>>
      end == LittleEndian(cnt[1], 8)
  IN /\ Common("bmw") /\ Closing
     /\ IF Len(one) > 120
        THEN Digest(<<BmwCompress(one \o Zeros(128 - Len(one))),
                      BmwCompress(Zeros(120) \o end), BmwFinal>>)
        ELSE Digest(<<BmwCompress(one \o Zeros(120 - Len(one)) \o end), BmwFinal>>)

-----------------------------------------------------------------------------
(* Groestl: counts blocks, those of the padding too *)

GroestlInit == <<0>>
GroestlCompress(block) == Entry(block, <<>>)
GroestlFinal == Blank(<<>>)
GroestlCount(k) == <<(cnt[1] + k) % Word["groestl"]>>

GroestlCore ==
  /\ Portable("groestl")
  /\ Turn(128, GroestlCompress(Filled(128)), GroestlCount(1), cnt)

GroestlClose ==
  LET ptr == Len(buf)
      blocks == IF ptr < 120 THEN 1 ELSE 2
      padLen == 128 * blocks - ptr
  IN /\ Portable("groestl")
     /\ Call(<<Byte(128)>> \o Zeros(padLen - 9) \o BigEndian(GroestlCount(blocks)[1], 8), <<>>, cnt)

GroestlEnd == Portable("groestl") /\ Called /\ Digest(<<GroestlFinal>>)

-----------------------------------------------------------------------------
(* JH: counts blocks, pads at least a whole block *)

JhInit == <<0>>
JhE8(block) == Entry(block, <<>>)

JhCore ==
  /\ Portable("jh")
  /\ Turn(64, JhE8(Filled(64)), <<(cnt[1] + 1) % Word["jh"]>>, cnt)

JhClose ==
  LET ptr == Len(buf)
      numz == IF ptr = 0 THEN 47 ELSE 111 - ptr
      l0 == ((512 * cnt[1]) % Word["jh"]) + 8 * ptr
      l1 == cnt[1] \div (Word["jh"] \div 512)
  IN /\ Portable("jh")
     /\ Call(<<Byte(128)>> \o Zeros(numz) \o BigPair(<<l0, l1>>), <<>>, cnt)

JhEnd == Portable("jh") /\ Called /\ Digest(<<>>)

-----------------------------------------------------------------------------
(* Keccak, rate 72, padded as before SHA-3 *)

KeccakInit == <<>>
KeccakF(block) == Entry(block, <<>>)
KeccakCore == Common("keccak") /\ Turn(72, KeccakF(Filled(72)), cnt, cnt)

KeccakClose ==
  LET ptr == Len(buf)
  IN /\ Common("keccak")
     /\ Call(IF ptr = 71 THEN <<Byte(129)>>
             ELSE <<Byte(1)>> \o Zeros(70 - ptr) \o <<Byte(128)>>, <<>>, cnt)

KeccakEnd == Common("keccak") /\ Called /\ Digest(<<>>)

-----------------------------------------------------------------------------
(* Skein keeps a full block back, for the last one is flagged *)

SkeinInit == <<0>>

\* UBI: the place after the block, counted in blocks and what extra holds, and the type.
SkeinUbi(block, bcount, extra, etype) ==
  Entry(block, <<(64 * bcount + extra) % Word["skein"],
                 bcount \div (Word["skein"] \div 64), etype>>)

SkeinFirst == 128 * Flag(cnt[1] = 0)

SkeinCore ==
  /\ Common("skein")
  /\ LazyTurn(64, SkeinUbi(buf, cnt[1] + 1, 0, 96 + SkeinFirst), <<cnt[1] + 1>>)

SkeinClose ==
  /\ Common("skein") /\ Closing
  /\ Digest(<<SkeinUbi(buf \o Zeros(64 - Len(buf)), cnt[1], Len(buf), 352 + SkeinFirst),
              SkeinUbi(Zeros(64), 0, 8, 510)>>)

-----------------------------------------------------------------------------
(* Luffa: the block of the padding, then two without a message *)

LuffaInit == <<>>
LuffaP5(block) == Entry(block, <<>>)
LuffaCore == Portable("luffa") /\ Turn(32, LuffaP5(Filled(32)), cnt, cnt)

LuffaClose ==
  LET one == buf \o <<Byte(128)>>
  IN /\ Portable("luffa") /\ Closing
     /\ Digest(<<LuffaP5(one \o Zeros(32 - Len(one))), LuffaP5(<<>>), LuffaP5(<<>>)>>)

-----------------------------------------------------------------------------
(* CubeHash: a bit of the state is turned over after the last block *)

CubehashInit == <<>>
CubehashRounds(block) == Entry(block, <<>>)
CubehashFinal(i) == Blank(<<Flag(i = 1)>>)
CubehashCore == Portable("cubehash") /\ Turn(32, CubehashRounds(Filled(32)), cnt, cnt)

CubehashClose ==
  LET one == buf \o <<Byte(128)>>
  IN /\ Portable("cubehash") /\ Closing
     /\ Digest(<<CubehashRounds(one \o Zeros(32 - Len(one)))>> \o [i \in 1..10 |-> CubehashFinal(i)])

-----------------------------------------------------------------------------
(* SHAvite: four words count message bits up to the end of each block *)

ShaviteInit == <<0, 0, 0, 0>>
ShaviteC512(block, count) == Entry(block, count)

Carried(w, c, j) == \A i \in 1..(j - 1) : (c[i] + (IF i = 1 THEN 1024 ELSE 1)) % w = 0

\* The word below has come to zero: one more in the word above.
ShaviteAdded ==
  [j \in 1..4 |-> IF j = 1 THEN (cnt[1] + 1024) % Word["shavite"]
                  ELSE IF Carried(Word["shavite"], cnt, j)
                  THEN (cnt[j] + 1) % Word["shavite"] ELSE cnt[j]]

ShaviteTurn == Turn(128, ShaviteC512(Filled(128), ShaviteAdded), ShaviteAdded, cnt)

\* The close of both builds: the count, and no count for a block without a message bit.
ShavitePadded ==
  LET ptr == Len(buf)
      count == [cnt EXCEPT ![1] = (@ + 8 * ptr) % Word["shavite"]]
      end == LittleFour(count) \o LittleEndian(512, 2)
      one == buf \o <<Byte(128)>>
  IN IF ptr = 0 THEN <<ShaviteC512(one \o Zeros(109) \o end, ShaviteInit)>>
     ELSE IF ptr < 110 THEN <<ShaviteC512(one \o Zeros(109 - ptr) \o end, count)>>
     ELSE <<ShaviteC512(one \o Zeros(127 - ptr), count),
            ShaviteC512(Zeros(110) \o end, ShaviteInit)>>

ShaviteCore == Portable("shavite") /\ ShaviteTurn
ShaviteClose == Portable("shavite") /\ Closing /\ Digest(ShavitePadded)

-----------------------------------------------------------------------------
(* SIMD: counts blocks, and ends with the number of bits in a block *)

SimdInit == <<0, 0>>
SimdCompress(block, final) == Entry(block, <<Flag(final)>>)

SimdAdded ==
  LET low == (cnt[1] + 1) % Word["simd"]
  IN <<low, IF low = 0 THEN cnt[2] + 1 ELSE cnt[2]>>

SimdCore ==
  Portable("simd") /\ Turn(128, SimdCompress(Filled(128), FALSE), SimdAdded, cnt)

\* encode_count: the bits that leave the low word are taken from it after the shift.
SimdCount(ptr) ==
  LET w == Word["simd"]
      low == (1024 * cnt[1]) % w
      high == ((1024 * cnt[2]) % w) + low \div (w \div 1024)
  IN LittleEndian(low + 8 * ptr, 4) \o LittleEndian(high, 4) \o Zeros(120)

SimdClose ==
  LET ptr == Len(buf)
      rest == IF ptr > 0 THEN <<SimdCompress(buf \o Zeros(128 - ptr), FALSE)>> ELSE <<>>
  IN /\ Portable("simd") /\ Closing
     /\ Digest(rest \o <<SimdCompress(SimdCount(ptr), TRUE)>>)

-----------------------------------------------------------------------------
(* ECHO: as SHAvite, the length and the count the other way round *)

EchoInit == <<0, 0, 0, 0>>
EchoCompress(block, c) == Entry(block, c)

\* ECHO_INCR_COUNTER: the sum has gone below what was added, one more above.
EchoAdded(bits) ==
  LET w == Word["echo"]
      over == (cnt[1] + bits) % w < bits
      carry(j) == over /\ \A i \in 2..(j - 1) : (cnt[i] + 1) % w = 0
  IN [j \in 1..4 |-> IF j = 1 THEN (cnt[1] + bits) % w
                     ELSE IF carry(j) THEN (cnt[j] + 1) % w ELSE cnt[j]]

EchoCore ==
  /\ Portable("echo")
  /\ Turn(128, EchoCompress(Filled(128), EchoAdded(1024)), EchoAdded(1024), cnt)

EchoClose ==
  LET elen == 8 * Len(buf)
      c == EchoAdded(elen)
      end == LittleEndian(512, 2) \o LittleFour(c)
      one == buf \o <<Byte(128)>>
  IN /\ Portable("echo") /\ Closing
     /\ IF Len(one) > 110
        THEN Digest(<<EchoCompress(one \o Zeros(128 - Len(one)), c),
                      EchoCompress(Zeros(110) \o end, EchoInit)>>)
        ELSE Digest(<<EchoCompress(one \o Zeros(110 - Len(one)) \o end,
                                   IF elen = 0 THEN EchoInit ELSE c)>>)

-----------------------------------------------------------------------------
(* Hamsi: blocks of eight bytes, the last of another permutation *)

HamsiInit == <<0>>
HamsiP(block) == Entry(block, <<0>>)
HamsiFinal(block) == Entry(block, <<1>>)
HamsiBits(n) == (cnt[1] + n) % Word["hamsi"]

\* The close of both builds: a block with the padding bit, one with the length.
HamsiPadded ==
  LET ptr == Len(buf)
  IN <<HamsiP(buf \o <<Byte(128)>> \o Zeros(7 - ptr)),
       HamsiFinal(BigEndian(HamsiBits(8 * ptr), 8))>>

HamsiTurn == Turn(8, HamsiP(Filled(8)), <<HamsiBits(64)>>, cnt)
HamsiCore == Portable("hamsi") /\ HamsiTurn
HamsiClose == Portable("hamsi") /\ Closing /\ Digest(HamsiPadded)

-----------------------------------------------------------------------------
(* Fugue: a kept word is taken in when the next data comes, were it none;  *)
(* the state is not moved, the place in it goes round three.               *)

FugueInit == <<0, 0>>
FugueRound(block) == Entry(block, <<cnt[2]>>)
FugueFinal == Blank(<<cnt[2]>>)
FugueCount(n) == <<(cnt[1] + 8 * n) % Word["fugue"], cnt[2]>>
FugueShifted == <<cnt[1], (cnt[2] + 1) % 3>>

FugueCore == Portable("fugue") /\ LazyTurn(4, FugueRound(buf), FugueShifted)

\* An update with no data, after one that left a whole word.
FugueNothing ==
  /\ Portable("fugue") /\ Closing /\ 0 \in Chunks /\ Len(buf) = 4
  /\ buf' = <<>> /\ out' = Append(out, FugueRound(buf)) /\ cnt' = FugueShifted
  /\ UNCHANGED <<fast, alg, phase, fed, input, later>>

\* The twelve bytes of the counter end in four that nothing has written.
FugueClose ==
  LET plen == Len(buf)
      data == (IF plen = 0 THEN <<>> ELSE Zeros(4 - plen))
              \o BigEndian(cnt[1], 8) \o [i \in 1..4 |-> Unwritten]
  IN Portable("fugue") /\ Call(data, <<>>, FugueCount(Len(data)))

FugueEnd == Portable("fugue") /\ Called /\ Digest(<<FugueFinal>>)

-----------------------------------------------------------------------------
(* Shabal: W numbers the blocks from one, the last for all final turns *)

ShabalInit == <<1, 0>>
ShabalP(block) == Entry(block, cnt)

ShabalIncrW ==
  LET low == (cnt[1] + 1) % Word["shabal"]
  IN <<low, IF low = 0 THEN (cnt[2] + 1) % Word["shabal"] ELSE cnt[2]>>

ShabalCore == Common("shabal") /\ Turn(64, ShabalP(Filled(64)), ShabalIncrW, cnt)

ShabalClose ==
  LET ptr == Len(buf)
  IN /\ Common("shabal") /\ Closing
     /\ Digest(<<ShabalP(buf \o <<Byte(128)>> \o Zeros(63 - ptr))>>
               \o [i \in 1..3 |-> ShabalP(<<>>)])

-----------------------------------------------------------------------------
(* Whirlpool and SHA-512: the count of bytes says where the buffer ends *)

MdInit == <<0>>
MdRound(block) == Entry(block, <<>>)

MdCore(a) ==
  LET count == <<(cnt[1] + Taken(BlockLen[a])) % Word[a]>>
  IN Turn(BlockLen[a], MdRound(Filled(BlockLen[a])), count, count)

\* Padding with the length in the last w bytes, the count of bits in the last sixteen.
MdClose(a, w) ==
  LET b == BlockLen[a]
      end == Zeros(w - 16) \o BigPair(<<(8 * cnt[1]) % Word[a], cnt[1] \div (Word[a] \div 8)>>)
      one == buf \o <<Byte(128)>>
  IN /\ Closing
     /\ IF Len(one) > b - w
        THEN Digest(<<MdRound(one \o Zeros(b - Len(one))), MdRound(Zeros(b - w) \o end)>>)
        ELSE Digest(<<MdRound(one \o Zeros(b - w - Len(one)) \o end)>>)

WhirlpoolCore == Portable("whirlpool") /\ MdCore("whirlpool")
WhirlpoolClose == Portable("whirlpool") /\ MdClose("whirlpool", 32)
Sha512Core == Common("sha512") /\ MdCore("sha512")
Sha512Close == Common("sha512") /\ MdClose("sha512", 16)

-----------------------------------------------------------------------------
(* SHA3-256 *)

Sha3Init == <<>>
Sha3Process(block) == Entry(block, <<>>)
Sha3Update == Portable("sha3") /\ Turn(136, Sha3Process(Filled(136)), cnt, cnt)

\* The padding bits are or-ed into a block of zeros.
Sha3Final ==
  LET rest == Len(buf)
  IN /\ Portable("sha3") /\ Closing
     /\ Digest(<<Sha3Process(IF rest = 135 THEN buf \o <<Byte(134)>>
                             ELSE buf \o <<Byte(6)>> \o Zeros(134 - rest) \o <<Byte(128)>>)>>)

-----------------------------------------------------------------------------
(* The portable build as a whole *)

PortableInit(a) ==
  CASE a = "blake" -> BlakeInit
    [] a = "bmw" -> BmwInit
    [] a = "groestl" -> GroestlInit
    [] a = "jh" -> JhInit
    [] a = "keccak" -> KeccakInit
    [] a = "skein" -> SkeinInit
    [] a = "luffa" -> LuffaInit
    [] a = "cubehash" -> CubehashInit
    [] a = "shavite" -> ShaviteInit
    [] a = "simd" -> SimdInit
    [] a = "echo" -> EchoInit
    [] a = "hamsi" -> HamsiInit
    [] a = "fugue" -> FugueInit
    [] a = "shabal" -> ShabalInit
    [] a \in {"whirlpool", "sha512"} -> MdInit
    [] a = "sha3" -> Sha3Init

\* What a portable update of n bytes counts before its loop.
PortableCount(a, n) ==
  CASE a = "bmw" -> BmwCount(n)
    [] a = "fugue" -> FugueCount(n)
    [] OTHER -> cnt

PortableTurn ==
  \/ BlakeCore \/ BmwCore \/ GroestlCore \/ JhCore \/ KeccakCore \/ SkeinCore
  \/ LuffaCore \/ CubehashCore \/ ShaviteCore \/ SimdCore \/ EchoCore \/ HamsiCore
  \/ FugueCore \/ FugueNothing \/ ShabalCore \/ WhirlpoolCore \/ Sha512Core \/ Sha3Update

PortableClose ==
  \/ BlakeClose \/ BmwClose \/ GroestlClose \/ GroestlEnd \/ JhClose
  \/ JhEnd \/ KeccakClose \/ KeccakEnd \/ SkeinClose \/ LuffaClose \/ CubehashClose
  \/ ShaviteClose \/ SimdClose \/ EchoClose \/ HamsiClose \/ FugueClose \/ FugueEnd
  \/ ShabalClose \/ WhirlpoolClose \/ Sha512Close \/ Sha3Final
=============================================================================
