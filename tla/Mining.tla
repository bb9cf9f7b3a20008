------------------------------- MODULE Mining -------------------------------
(***************************************************************************)
(* The difficulty of a block, who checks it, and the work that is given to *)
(* miners: mint/difficulty, mint/checker, server/rpc/miner.rs.             *)
(*                                                                         *)
(* The difficulty stands for Cycle blocks; that of a cycle's first block   *)
(* follows from the time the cycle before took, which is read from a cache *)
(* of one block per cycle.  It is checked twice: by the handler of         *)
(* announced blocks (prepare) before, and by the engine (consensus) during *)
(* an insertion.  The engine is seen as in ForkChoice.                     *)
(*                                                                         *)
(* A block is the sequence of what its chain holds from height 1 up to it. *)
(***************************************************************************)
EXTENDS Naturals, Sequences, FiniteSets, SequencesExt

CONSTANTS
  Cycle,     \* difficulty_adjust_blocks
  BlockTime, \* each_block_target_time
  Early,     \* heights below take the last cycle for one block shorter (288 * 450)
  Unchecked, \* heights below are not checked (288 * 200)
  Window,    \* unstable_block
  Width,     \* 256, the bits of a target,
  Digits,    \*   and 24, those a difficulty number keeps
  Start,     \* the head when the node starts
  Net,       \* bound: the blocks the network finds
  Announced, \* bound: those that are announced; all may come by a sync
  Request,   \* the requests of miners served at once: one, unless server.multi_thread
  MinTime, MaxTime, \* bounds of the clock
  MaxOwn     \* bound: solutions that miners send

Room == 3 \* update_miner_pending_block

Number == 0..(2^Width - 1)
IsBlock(b) == b \in Seq([time : Nat, diff : Number, no : Nat])

ASSUME SizeAssumption ==
  /\ Cycle \in Nat /\ BlockTime \in Nat \ {0} /\ Window \in Nat \ {0} /\ Window < Cycle
  /\ Early \in Nat /\ Unchecked \in Nat /\ Width \in Nat /\ Digits \in 1..Width
ASSUME ClockAssumption == MinTime \in Nat /\ MaxTime \in Nat /\ MaxOwn \in Nat
ASSUME BlockAssumption == \A b \in Net \union {Start} : IsBlock(b)

Height(b) == Len(b)
Prev(b) == Front(b)
Genesis == [time |-> 0, diff |-> 0, no |-> 0]
Tip(b) == IF b = <<>> THEN Genesis ELSE Last(b)
Time(b) == Tip(b).time
Diff(b) == Tip(b).diff
Root(b) == SubSeq(b, 1, Height(b) - Window)
From(r, bs) == {b \in bs : IsPrefix(r, b)}

VARIABLES
  now,       \* the clock
  tree,      \* the blocks the engine holds in memory
  head,      \* the latest one; the block store points at its chain
  cache,     \* DifficultyGnr.block_caches: time and difficulty by height
  knows,     \* MsgHandler.knows
  inserting, \* blocks in the hands of a thread that inserts them
  pending,   \* MINER_PENDING_BLOCK, the newest first
  asked,     \* per request, the height it read, or Idle
  making,    \* requests that found that a new block is needed
  submitted, \* solved blocks on their way to the handler
  solved     \* how many solutions were good

engine == <<tree, head>>
miner == <<pending, asked, making, submitted, solved>>
vars == <<now, engine, cache, knows, inserting, miner>>

Idle == <<>>

-----------------------------------------------------------------------------
(* mint/difficulty                                                         *)

\* LOWEST_DIFFICULTY, the greatest target but one.
Lowest == (2^Digits - 2) * 2^(Width - Digits)
Greatest == (2^Digits - 1) * 2^(Width - Digits)

\* biguint_to_hash and hash_to_u32: the leading digits are kept.
Rounded(x) ==
  LET cut == CHOOSE n \in 0..Width : x < 2^(Digits + n) /\ (n > 0 => x >= 2^(Digits + n - 1))
  IN IF x >= 2^Width THEN Greatest ELSE (x \div 2^cut) * 2^cut

\* req_cycle_block: what the cache holds for a height's cycle, or the chain of the
\* head does, and the cache after that.
First(h) == (h \div Cycle) * Cycle
CycleBlock(h) ==
  IF h < Cycle THEN [time |-> Genesis.time, diff |-> Genesis.diff]
  ELSE IF First(h) \in DOMAIN cache THEN cache[First(h)]
  ELSE [time |-> head[First(h)].time, diff |-> head[First(h)].diff]
Caching(h) ==
  LET full == [k \in DOMAIN cache \union {First(h)} |->
                 IF k \in DOMAIN cache THEN cache[k] ELSE CycleBlock(h)]
  IN IF h < Cycle \/ First(h) \in DOMAIN cache THEN cache
     ELSE IF Cardinality(DOMAIN full) > Cycle THEN <<>> ELSE full

Within(x, low, high) == IF x < low THEN low ELSE IF x > high THEN high ELSE x
Shares == Cycle * BlockTime

\* The last cycle against the time it should take, from its first block c on.
Span(b, c) == (IF Height(b) + 1 < Early THEN 0 ELSE BlockTime) + Time(b) - c.time
Adjusted(b, c) ==
  Rounded((Diff(b) * Within(Span(b, c), Shares \div 4, Shares * 4)) \div Shares)

\* Mistake: the time is taken from the cycle before.
TargetLate(b) ==
  LET h == Height(b) + 1 IN
  IF h < 2 * Cycle THEN Lowest
  ELSE IF h % Cycle # 0 THEN Diff(b) ELSE Adjusted(b, CycleBlock(h - Cycle - 1))

\* target, of the block after b.
Target(b) ==
  LET h == Height(b) + 1 IN
  IF h < 2 * Cycle THEN Lowest
  ELSE IF h % Cycle # 0 THEN Diff(b) ELSE Adjusted(b, CycleBlock(h - Cycle))

TargetCaching(b) ==
  IF Height(b) + 1 >= 2 * Cycle /\ (Height(b) + 1) % Cycle = 0
  THEN Caching(Height(b) + 1 - Cycle) ELSE cache

-----------------------------------------------------------------------------
(* mint/checker.  That its hash meets the difficulty it states is taken for *)
(* granted of every block.                                                  *)

\* impl_prepare
Unprepared(b) == Height(b) <= Cycle \/ Height(b) < Unchecked \/ Height(b) % Cycle = 0
Prepared(b) == Unprepared(b) \/ Diff(b) = CycleBlock(Height(b)).diff
PrepareCaching(b) == IF Unprepared(b) THEN cache ELSE Caching(Height(b))

\* impl_consensus
Agreed(b) == Height(b) < Unchecked \/ Diff(b) = Target(Prev(b))
ConsensusCaching(b) == IF Height(b) < Unchecked THEN cache ELSE TargetCaching(Prev(b))

-----------------------------------------------------------------------------
(* The engine and the handler.                                             *)

\* What do_check_insert asks of a block before its consensus.
Fits(b) ==
  /\ b \notin tree /\ Prev(b) \in tree
  /\ Time(Prev(b)) < Time(b) /\ Time(b) <= now

\* do_roll
Higher(b) == Height(b) > Height(head)
Roll(b) ==
  IF Higher(b)
  THEN head' = b /\ tree' = From(Root(b), tree \union {b})
  ELSE tree' = tree \union {b} /\ UNCHANGED head

Insert(b) ==
  /\ cache' = IF Fits(b) THEN ConsensusCaching(b) ELSE cache
  /\ IF Fits(b) /\ Agreed(b) THEN Roll(b) ELSE UNCHANGED engine

\* A block of a sync.
SyncBlock(b) ==
  /\ b \in Net
  /\ Insert(b)
  /\ UNCHANGED <<now, knows, inserting, miner>>

\* latest height - span is a subtraction of u64.
TooLate(b) ==
  /\ Height(b) > Window
  /\ Height(head) < Window \/ Height(b) < Height(head) - Window

\* handle_new_block; for one too high the sender would be asked.
HandleNewBlock(b) ==
  /\ knows' = knows \union {b}
  /\ IF b \in knows \/ TooLate(b) \/ Height(b) > Height(head) + 1
     THEN UNCHANGED <<cache, inserting>>
     ELSE /\ cache' = PrepareCaching(b)
          /\ inserting' = IF Prepared(b) THEN inserting \union {b} ELSE inserting
  /\ UNCHANGED <<now, engine>>

Announce(b) ==
  /\ b \in Announced \ knows
  /\ HandleNewBlock(b)
  /\ UNCHANGED miner

HandleSubmitted(b) ==
  /\ b \in submitted /\ submitted' = submitted \ {b}
  /\ HandleNewBlock(b)
  /\ UNCHANGED <<pending, asked, making, solved>>

\* The thread of a block ends its insertion.
InsertBlock(b) ==
  /\ b \in inserting /\ inserting' = inserting \ {b}
  /\ Insert(b)
  /\ UNCHANGED <<now, knows, miner>>

-----------------------------------------------------------------------------
(* server/rpc/miner.rs                                                     *)

\* miner_pending reads the latest height,
Ask(r) ==
  /\ asked[r] = Idle /\ r \notin making
  /\ asked' = [asked EXCEPT ![r] = <<Height(head)>>]
  /\ UNCHANGED <<now, engine, cache, knows, inserting, pending, making, submitted, solved>>

\* Mistakes: only when nothing is pending; or also when the newest fits the head.
NeedNewOnce(h) == pending = <<>>
NeedNewAgain(h) == pending # <<>> => Height(pending[1]) <= h + 1

\* compares it with the newest pending block,
NeedNew(h) == pending # <<>> => Height(pending[1]) <= h
Compare(r) ==
  /\ asked[r] # Idle
  /\ asked' = [asked EXCEPT ![r] = Idle]
  /\ making' = IF NeedNew(asked[r][1]) THEN making \union {r} ELSE making
  /\ UNCHANGED <<now, engine, cache, knows, inserting, pending, submitted, solved>>

\* Mistake: the difficulty of the head, even when a cycle begins.
TemplateOldDifficulty ==
  Append(head, [time |-> now, no |-> solved,
                diff |-> IF Diff(head) = 0 THEN Lowest ELSE Diff(head)])

\* and then makes another on the latest block (miner_reset_next_new_block).
Changes == (Height(head) + 1) % Cycle = 0
Template ==
  Append(head, [time |-> now, no |-> solved,
                diff |-> IF Changes THEN Target(head)
                         ELSE IF Diff(head) = 0 THEN Lowest ELSE Diff(head)])

\* Mistake: none goes.
PushedAll(b) == <<b>> \o pending

\* update_miner_pending_block
Pushed(b) ==
  LET all == <<b>> \o pending
  IN IF Len(all) > Room THEN Front(all) ELSE all

Make(r) ==
  /\ r \in making /\ making' = making \ {r}
  /\ pending' = Pushed(Template)
  /\ cache' = IF Changes THEN TargetCaching(head) ELSE cache
  /\ UNCHANGED <<now, engine, knows, inserting, asked, submitted, solved>>

\* miner_success looks for the first pending block of the solution's height.
Success(i) ==
  /\ solved < MaxOwn
  /\ \A j \in 1..(i - 1) : Height(pending[j]) # Height(pending[i])
  /\ pending' = RemoveAt(pending, i)
  /\ submitted' = submitted \union {pending[i]}
  /\ solved' = solved + 1
  /\ UNCHANGED <<now, engine, cache, knows, inserting, asked, making>>

-----------------------------------------------------------------------------
Tick ==
  /\ now < MaxTime /\ now' = now + 1
  /\ UNCHANGED <<engine, cache, knows, inserting, miner>>

\* After a start the tree holds the last blocks of the stored chain.
Init ==
  /\ head = Start /\ now = MinTime
  /\ tree = {b \in {SubSeq(Start, 1, h) : h \in 0..Height(Start)} : IsPrefix(Root(Start), b)}
  /\ cache = <<>> /\ knows = {} /\ inserting = {}
  /\ pending = <<>> /\ submitted = {} /\ solved = 0
  /\ asked = [r \in Request |-> Idle] /\ making = {}

Next ==
  \/ Tick
  \/ \E b \in Net : SyncBlock(b) \/ Announce(b)
  \/ \E b \in inserting : InsertBlock(b)
  \/ \E b \in submitted : HandleSubmitted(b)
  \/ \E r \in Request : Ask(r) \/ Compare(r) \/ Make(r)
  \/ \E i \in DOMAIN pending : Success(i)

\* A miner asks again and again (poworker.rs), and is answered; threads end.
Fairness ==
  /\ \A r \in Request : WF_vars(Ask(r)) /\ WF_vars(Compare(r)) /\ WF_vars(Make(r))
Spec == Init /\ [][Next]_vars /\ Fairness

-----------------------------------------------------------------------------
(* Properties.                                                             *)

Entry == [time : Nat, diff : Number]

TypeOK ==
  /\ now \in Nat /\ \A b \in tree \union knows \union inserting \union submitted : IsBlock(b)
  /\ head \in tree
  /\ \A k \in DOMAIN cache : k > 0 /\ k % Cycle = 0 /\ cache[k] \in Entry
  /\ Len(pending) <= Room /\ \A i \in DOMAIN pending : IsBlock(pending[i])
  /\ asked \in [Request -> Seq(Nat)] /\ making \subseteq Request
  /\ solved \in 0..MaxOwn

\* The difficulty of the block after b by the chain of b alone.
OwnTarget(b) ==
  LET h == Height(b) + 1 IN
  CASE h < 2 * Cycle -> Lowest
    [] h >= 2 * Cycle /\ h % Cycle # 0 -> Diff(b)
    [] h >= 2 * Cycle /\ h % Cycle = 0 -> Adjusted(b, b[h - Cycle])

\* What the node demands of a block on b is what the chain of b asks: the span is that
\* of "287+1block" (target.rs:21), on whatever fork.
DemandsOwnTarget == \A b \in tree : Target(b) = OwnTarget(b)

\* The cache holds a block that a switch of fork took off the chain.
Misled ==
  \E k \in DOMAIN cache \intersect DOMAIN head :
    cache[k].time # head[k].time \/ cache[k].diff # head[k].diff

\* Only then may it demand something else: reading the cycle's block on the chain of
\* the head is right for every branch of the tree, since that block is final.
OnlyStaleMisleads == Misled \/ DemandsOwnTarget

\* Pending blocks are told apart by their height and the newest is replaced only when
\* the head has reached it.  So a solution meets the block it was found for, and what
\* is one higher than the head extends it, forks and blocks arriving during the
\* request included.
PendingOnHead ==
  /\ \A i, j \in DOMAIN pending : i < j => Height(pending[i]) > Height(pending[j])
  /\ \A i \in DOMAIN pending :
       Height(pending[i]) > Height(head) => Prev(pending[i]) = head

\* A solution on the head passes both checks of the node that gave the work out, unless
\* its cache misleads it or the head is of the same second as the work.
Good(b) == Prev(b) = head /\ Time(head) < Time(b) /\ ~Misled
OwnWorkCounts ==
  [][/\ \A b \in submitted \ submitted' : (Good(b) /\ b \notin knows) => b \in inserting'
     /\ \A b \in inserting \ inserting' :
          (b \notin Net /\ Good(b)) => b \in tree']_vars

\* Once the head stays, miners come to work on it.
WorkFollowsHead ==
  \A b \in Net \union {Start} :
    <>[](head = b) => <>[](pending # <<>> /\ Prev(pending[1]) = b)
=============================================================================
