------------------------------- MODULE X16rs -------------------------------
(***************************************************************************)
(* The hash library behind block and diamond hashes (src/x16rs): one       *)
(* message through one function, in updates of any length, or the chain of *)
(* c_x16rs_hash, which picks one of sixteen functions by a byte of the     *)
(* last digest and gives it 32 bytes.                                      *)
(***************************************************************************)
EXTENDS FastStream

CONSTANTS
  Rounds,         \* loopnum, the rounds of a chain
  LastUnit        \* whether fast Groestl is given messages that leave one unit

VARIABLES
  chain,          \* whether this is c_x16rs_hash
  n               \* its rounds so far

vars == <<stream, chain, n>>

ASSUME BoundsAssumption ==
  /\ Chunks \subseteq Nat /\ MaxFed \in [Algo -> Nat] /\ Rounds \in Nat /\ LastUnit \in BOOLEAN

InSize == 32    \* x16rs_hash_insize

\* bound: no message is longer than its function counts.  With the words of the code the
\* closest are the byte in which fast Groestl counts blocks, and SIMD, which shifts its count
\* of blocks to bits and then takes the carry of that shift from the shifted word.
ASSUME RoomAssumption ==
  \A a \in Algo : \A k \in (0..MaxFed[a]) \union {InSize} :
    /\ a \in {"shavite", "echo"} => 8 * k < Word[a] * Word[a]
    /\ a \in {"skein", "whirlpool", "sha512"} => k < Word[a]
    /\ a = "jh" => k \div 64 < Word[a] /\ 8 * InSize < Word[a]
    /\ a = "groestl" => k \div 128 < 255
    /\ a = "simd" => 1024 * (k \div 128) < Word[a] \div 1024
    /\ a = "shabal" => 1 < Word[a]

\* The three fast functions written for messages in units of sixteen bytes, and those that
\* take their message in one call.
InUnits(a) == fast /\ a \in {"groestl", "luffa", "cubehash"}
InOneCall(a) == fast /\ a \in {"groestl", "luffa", "sha3"}

\* What a caller may add to the message.
Fits(k) ==
  /\ fed + k <= MaxFed[alg]
  /\ InOneCall(alg) => fed = 0
  /\ InUnits(alg) => k % 16 = 0
  /\ fast /\ alg = "jh" => 8 * (fed + k) < Word["jh"]
  /\ fast /\ alg = "groestl" /\ ~LastUnit => (k \div 16) % 8 # 7

\* init, update and close of one function: x16rs_blake512 and its like, sha3_256.
Open(f, a) ==
  /\ alg = a /\ fast = f /\ phase = "open" /\ fed = 0
  /\ buf = <<>> /\ cnt = ContextInit(f, a) /\ input = <<>> /\ later = <<>> /\ out = <<>>

Init ==
  /\ \E f \in BOOLEAN, a \in Algo : Open(f, a)
  /\ chain \in {c \in BOOLEAN : c => alg \in Chained /\ Rounds > 0}
  /\ n = 0

Update ==
  /\ phase = "open" /\ input = <<>>
  /\ \E k \in IF chain THEN {InSize} ELSE IF fed = 0 THEN 1..MaxFed[alg] ELSE Chunks \ {0} :
       /\ IF chain THEN fed = 0 ELSE Fits(k)
       /\ fed' = fed + k /\ input' = Message(fed, k) /\ cnt' = EntryCount(k)
  /\ UNCHANGED <<fast, alg, phase, buf, later, out, chain, n>>

Loop == (PortableTurn \/ FastTurn) /\ UNCHANGED <<chain, n>>

Close == (chain => fed = InSize) /\ (PortableClose \/ FastClose) /\ UNCHANGED <<chain, n>>

\* The next round: any function, for any digest may have come out.
Round ==
  /\ chain /\ phase = "done" /\ n + 1 < Rounds
  /\ n' = n + 1
  /\ alg' \in Chained
  /\ phase' = "open" /\ fed' = 0
  /\ buf' = <<>> /\ cnt' = ContextInit(fast, alg') /\ input' = <<>> /\ later' = <<>> /\ out' = <<>>
  /\ UNCHANGED <<fast, chain>>

\* The digest is there.
Returned == phase = "done" /\ (chain => n + 1 = Rounds) /\ UNCHANGED vars

Next == Update \/ Loop \/ Close \/ Round \/ Returned

Spec == Init /\ [][Next]_vars

-----------------------------------------------------------------------------
(* Properties *)

\* A loop that keeps a full buffer until more comes, and the others.
Lazy(a) == a = "skein" \/ (a = "fugue" /\ ~fast)

\* Every variable keeps its type, and the buffer its size.
TypeOK ==
  /\ fast \in BOOLEAN /\ alg \in Algo /\ chain \in BOOLEAN /\ n \in Nat
  /\ phase \in {"open", "closing", "done"} /\ fed \in Nat
  /\ buf \in Seq(Int) /\ input \in Seq(Int) /\ later \in Seq(Int)
  /\ Len(buf) < BlockLen[alg] + (IF Lazy(alg) THEN 1 ELSE 0)
  /\ cnt \in Seq(Nat)
  /\ out \in Seq([block : Seq(Int), tweak : Seq(Nat)])

\* Padding and counters: when the digest is there, the function has compressed what it
\* is defined to for a message of that length, in both builds and for any updates.
DigestIsStandard == phase = "done" => out = Standard(alg, fed)
=============================================================================
