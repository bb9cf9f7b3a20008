----------------------------- MODULE FastStream -----------------------------
(***************************************************************************)
(* The build with USE_NEW_ALGO: twelve functions in vector code, each with *)
(* a loop, a count and a padding of its own, or none of the portable       *)
(* build's streaming at all.  The other five are shared (HashStream).      *)
(* The compression functions are taken to compute what the portable ones   *)
(* do.                                                                     *)
(***************************************************************************)
EXTENDS HashStream

Fast(a) == alg = a /\ fast

-----------------------------------------------------------------------------
(* BLAKE, SHAvite and Hamsi: the portable loop and padding, copied *)

FastBlakeCore == Fast("blake") /\ BlakeTurn
FastBlakeClose == Fast("blake") /\ (BlakeCall \/ BlakeSecond \/ (Called /\ Digest(<<>>)))
FastShaviteCore == Fast("shavite") /\ ShaviteTurn
FastShaviteClose == Fast("shavite") /\ Closing /\ Digest(ShavitePadded)
FastHamsiCore == Fast("hamsi") /\ HamsiTurn
FastHamsiClose == Fast("hamsi") /\ Closing /\ Digest(HamsiPadded)

-----------------------------------------------------------------------------
(* Groestl, one call for a message of units of sixteen bytes *)

GroestlTF1024(block) == GroestlCompress(block)
GroestlOF1024 == GroestlFinal

GroestlBlocks == Fast("groestl") /\ Turn(128, GroestlTF1024(Filled(128)), GroestlCount(1), cnt)

\* One byte holds the number of blocks.
GroestlLength(blocks) == BigEndian(blocks % 256, 8)

\* The length and the bit go into one unit only if i is one less than all units; it is
\* never: with seven units left the bit is the last and the length falls outside.
GroestlFinish ==
  LET i == Len(buf) \div 16
      one == buf \o <<Byte(128)>>
      length == Zeros(7) \o GroestlLength(GroestlCount(1)[1])
      last == IF i = (fed \div 16) - 1 THEN one \o length
              ELSE IF i = 7 THEN one \o Zeros(15)
              ELSE one \o Zeros(112 - Len(one)) \o <<Byte(0)>> \o length
  IN Fast("groestl") /\ Closing /\ Digest(<<GroestlTF1024(last), GroestlOF1024>>)

-----------------------------------------------------------------------------
(* JH: the length is a word of bits, and an empty rest shares its block *)

JhF8(block) == JhE8(block)

JhUpdate == Fast("jh") /\ Turn(64, JhF8(Filled(64)), cnt, cnt)
JhBits(n) == <<(cnt[1] + 8 * n) % Word["jh"]>>

JhFinalize ==
  LET index == (cnt[1] % 512) \div 8
      length == BigEndian(cnt[1], 8)
  IN /\ Fast("jh") /\ Closing
     /\ Digest(IF index = 0
               THEN <<JhF8(<<Byte(128)>> \o Zeros(55) \o length)>>
               ELSE <<JhF8(SubSeq(buf, 1, index) \o <<Byte(128)>> \o Zeros(63 - index)),
                      JhF8(Zeros(56) \o length)>>)

-----------------------------------------------------------------------------
(* Luffa: half a block may be left; its padding is stored with it *)

LuffaRnd512(block) == LuffaP5(block)

LuffaUpdate == Fast("luffa") /\ Turn(32, LuffaRnd512(Filled(32)), cnt, cnt)
LuffaHalf == <<Byte(128)>> \o Zeros(15)
LuffaBlanks == <<LuffaRnd512(<<>>), LuffaRnd512(<<>>)>>

LuffaFinal ==
  /\ Fast("luffa") /\ Closing
  /\ Digest(<<LuffaRnd512(IF buf # <<>> THEN buf \o LuffaHalf ELSE LuffaHalf \o Zeros(16))>>
            \o LuffaBlanks)

-----------------------------------------------------------------------------
(* CubeHash: every sixteen bytes go into the state at once *)

CubehashTransform(block) == CubehashRounds(block)

CubehashUpdate == Fast("cubehash") /\ Turn(32, CubehashTransform(Filled(32)), cnt, cnt)

CubehashDigest ==
  LET pos == Len(buf) \div 16
  IN /\ Fast("cubehash") /\ Closing
     /\ Digest(<<CubehashTransform(SubSeq(buf, 1, 16 * pos) \o <<Byte(128)>> \o Zeros(31 - 16 * pos))>>
               \o [i \in 1..10 |-> CubehashFinal(i)])

-----------------------------------------------------------------------------
(* SIMD: one count of bits, of which the rest of the buffer is a part *)

Simd512Compress(block, final) == SimdCompress(block, final)

SimdBits(n) == <<cnt[1] + 8 * n>>

SimdUpdate ==
  LET bits == SimdBits(Taken(128))
  IN Fast("simd") /\ Turn(128, Simd512Compress(Filled(128), FALSE), bits, bits)

FastSimdClose ==
  LET current == (cnt[1] % 1024) \div 8
      count == InWords(cnt[1], Word["simd"], 2)
      last == Simd512Compress(LittleEndian(count[1], 4) \o LittleEndian(count[2], 4) \o Zeros(120), TRUE)
  IN /\ Fast("simd") /\ Closing
     /\ Digest(IF current = 0 THEN <<last>>
               ELSE <<Simd512Compress(SubSeq(buf, 1, current) \o Zeros(128 - current), FALSE), last>>)

-----------------------------------------------------------------------------
(* ECHO: Compress adds a whole block to k first, so the end takes it off   *)
(* beforehand.  cnt is <<processed_bits, k>>, words of eight bytes.        *)

EchoCompressOne(block, c) == EchoCompress(block, c)
EchoWords(k) == InWords(k, Word["echo"], 2) \o <<0, 0>>

EchoUpdate ==
  LET more == [i \in 1..2 |-> cnt[i] + 1024]
  IN Fast("echo") /\ Turn(128, EchoCompressOne(Filled(128), EchoWords(more[2])), more, cnt)

EchoFinal ==
  LET bits == 8 * Len(buf)
      one == buf \o <<Byte(128)>>
      end == LittleEndian(512, 2) \o LittleFour(EchoWords(cnt[1] + bits))
  IN /\ Fast("echo") /\ Closing
     /\ IF 128 - Len(one) >= 18
        THEN Digest(<<EchoCompressOne(one \o Zeros(110 - Len(one)) \o end,
                                   EchoWords(IF Len(one) = 1 THEN 0 ELSE cnt[2] + bits))>>)
        ELSE Digest(<<EchoCompressOne(one \o Zeros(128 - Len(one)), EchoWords(cnt[2] + bits)),
                      EchoCompressOne(Zeros(110) \o end, EchoWords(0))>>)

-----------------------------------------------------------------------------
(* Fugue: a full word is taken in at once; the base turns instead *)

FugueCompress512(block, base) == Entry(block, <<base % 3>>)
FugueFinal512(base) == Blank(<<base % 3>>)

FugueUpdate ==
  LET full == <<cnt[1] + 32, (cnt[2] + 1) % 3>>
  IN Fast("fugue") /\ Turn(4, FugueCompress512(Filled(4), cnt[2]), full, cnt)

FastFugueFinal ==
  LET rest == IF buf = <<>> THEN <<>> ELSE <<buf \o Zeros(4 - Len(buf))>>
      length == BigEndian((cnt[1] + 8 * Len(buf)) % Word["fugue"], 8)
      words == rest \o <<SubSeq(length, 1, 4), SubSeq(length, 5, 8)>>
  IN /\ Fast("fugue") /\ Closing
     /\ Digest([i \in 1..Len(words) |-> FugueCompress512(words[i], cnt[2] + i - 1)]
               \o <<FugueFinal512(cnt[2] + Len(words))>>)

-----------------------------------------------------------------------------
(* Whirlpool: total_bytes is counted before the loop *)

WhirlpoolCompress(block) == MdRound(block)

WhirlpoolBytes(n) == <<(cnt[1] + n) % Word["whirlpool"]>>
FastWhirlpoolUpdate == Fast("whirlpool") /\ Turn(64, WhirlpoolCompress(Filled(64)), cnt, cnt)
FastWhirlpoolClose == Fast("whirlpool") /\ MdClose("whirlpool", 32)

-----------------------------------------------------------------------------
(* SHA3-256, one call: suffix and last bit are xored into the state *)

KeccakP1600(block) == Sha3Process(block)

KeccakFastLoopAbsorb == Fast("sha3") /\ Turn(136, KeccakP1600(Filled(136)), cnt, cnt)

KeccakSponge ==
  LET partialBlock == Len(buf)
      added == [i \in 1..136 |->
                  IF i <= partialBlock THEN buf[i]
                  ELSE Byte((IF i = partialBlock + 1 THEN 6 ELSE 0) + (IF i = 136 THEN 128 ELSE 0))]
  IN Fast("sha3") /\ Closing /\ Digest(<<KeccakP1600(added)>>)

-----------------------------------------------------------------------------
(* Both builds *)

ContextInit(f, a) ==
  IF ~f THEN PortableInit(a)
  ELSE CASE a \in {"simd", "jh"} -> <<0>>
         [] a = "echo" -> <<0, 0>>
         [] OTHER -> PortableInit(a)

\* What an update of n bytes counts before its loop.
EntryCount(n) ==
  IF ~fast THEN PortableCount(alg, n)
  ELSE CASE alg = "jh" -> JhBits(n)
         [] alg = "whirlpool" -> WhirlpoolBytes(n)
         [] alg = "bmw" -> BmwCount(n)
         [] OTHER -> cnt

FastTurn ==
  \/ FastBlakeCore \/ GroestlBlocks \/ JhUpdate \/ LuffaUpdate \/ CubehashUpdate
  \/ FastShaviteCore \/ SimdUpdate \/ EchoUpdate \/ FastHamsiCore \/ FugueUpdate
  \/ FastWhirlpoolUpdate \/ KeccakFastLoopAbsorb

FastClose ==
  \/ FastBlakeClose \/ GroestlFinish \/ JhFinalize \/ LuffaFinal \/ CubehashDigest
  \/ FastShaviteClose \/ FastSimdClose \/ EchoFinal \/ FastHamsiClose \/ FastFugueFinal
  \/ FastWhirlpoolClose \/ KeccakSponge
=============================================================================
