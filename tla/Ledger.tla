------------------------------- MODULE Ledger -------------------------------
(***************************************************************************)
(* The ledger: what transactions do to balances, diamonds and channels     *)
(* (src/protocol, src/mint), executed block by block (chain/execute).      *)
(*                                                                         *)
(* Every block in memory has a ledger of its own, made from its parent's   *)
(* when the block is executed, action by action.  The records of mined     *)
(* diamonds (DiamondSmelt) are the exception: they are written to one      *)
(* store that all branches share.  Beside the thread that inserts blocks,  *)
(* others test transactions on the ledger of the head (try_execute_tx) and *)
(* throw the result away, but what they wrote to that store stays.         *)
(*                                                                         *)
(* Insertions come one at a time and the engine is seen as in ForkChoice.  *)
(* A block is the sequence of what its chain holds from height 1 up to it. *)
(* Signatures, sizes, names and times are taken as good.  Amounts are in   *)
(* the smallest unit there is.  TotalCount counts in zhu, of which a HAC   *)
(* has Mei and which have Part units each; what an amount has beside whole *)
(* zhu is lost to the count, though not to the balances.                   *)
(***************************************************************************)
EXTENDS Integers, Sequences, FiniteSets, FiniteSetsExt, SequencesExt, TLC

CONSTANTS
  Addr, Diamond, Channel,
  Inserter, Tester, \* the thread that inserts blocks, and those that test transactions
  Bodies,       \* bound: what a block may hold: its miner and its transactions
  Tested,       \* bound: the transactions that are tested
  Depth,        \* bound: the height of blocks
  Breadth,      \* bound: the blocks in memory
  Window,       \* unstable_block
  Alloc,        \* the balances of initialize
  Reward,       \* block_reward
  Mei, Part,
  Zhu(_),       \* to_zhu_unsafe() as u64: an amount in zhu, by way of a float and cut
  Storable(_),  \* the balances that 12 bytes can hold, as digits and a unit
  ZeroDigits,   \* whether nothing is written with a digit, which is_positive lets pass
  MintEvery,    \* 5: blocks that may mint a diamond
  BurnAbove,    \* 30000 and 40000: the diamonds from which on nine tenths of the bid
  AverageAbove, \*   are burned, and from which on their average is the price
  InscEvery,    \* 1000: blocks between two inscriptions of a diamond
  FreeInsc,     \* 10 inscriptions that cost nothing
  MaxInsc,      \* 200
  SelfUnchecked, \* 200000: up to there a transfer to oneself is not checked
  Compound,     \* 10000, at first 2500: blocks after which a channel earns interest
  Grown(_, _),  \* calculate_interest: an amount after so many times, itself after none
  BugTx, BugHeight \* 63448: the transaction that may run again, and where it first ran

ASSUME NumberAssumption ==
  /\ Window \in Nat \ {0} /\ Reward \in Nat \ {0}
  /\ Mei \in Nat \ {0} /\ Mei % 10 = 0 /\ Part \in Nat \ {0} /\ ZeroDigits \in BOOLEAN
  /\ MintEvery \in Nat \ {0} /\ BurnAbove \in Nat /\ AverageAbove \in Nat
  /\ BurnAbove <= AverageAbove /\ Compound \in Nat \ {0}
  /\ SelfUnchecked \in Nat
  /\ IsFiniteSet(Addr) /\ Alloc \in [Addr -> Nat]
ASSUME ThreadAssumption == Inserter \notin Tester

\* The transactions there are and their actions; amounts and numbers are unsigned, and
\* a fee is one of which a tenth is an amount: its unit is above the smallest.
Txs == Tested \union UNION {ToSet(body.txs) : body \in Bodies}
Acts == UNION {ToSet(t.acts) : t \in Txs}
ASSUME TxAssumption ==
  /\ \A body \in Bodies : body.miner \in Addr /\ body.txs \in Seq(Txs)
  /\ \A t \in Txs : t.main \in Addr /\ t.fee \in Nat /\ t.fee % 10 = 0 /\ t.acts \in Seq(Acts)
ASSUME ActAssumption ==
  \A x \in Acts :
    /\ x.ty \in {"hac", "diamond"} => x.from \in Addr /\ x.to \in Addr
    /\ x.ty = "hac" => x.amt \in Nat
    /\ x.ty \in {"diamond", "inscribe", "clear"} => x.dias \in Seq(Diamond)
    /\ x.ty \in {"inscribe", "clear"} => x.cost \in Nat
    /\ x.ty = "mint" => x.num \in Nat \ {0} /\ x.dia \in Diamond /\ x.to \in Addr
    /\ x.ty \in {"open", "close"} => x.ch \in Channel
    /\ x.ty = "open" => x.left \in Addr /\ x.right \in Addr /\ x.l \in Nat /\ x.r \in Nat

Thread == {Inserter} \union Tester

VARIABLES
  tree,    \* the blocks the engine holds in memory
  head,    \* the latest one
  ledger,  \* the state of each
  smelt,   \* the store's DiamondSmelt by diamond
  job      \* what a thread executes

vars == <<tree, head, ledger, smelt, job>>

Genesis == <<>>
Height(b) == Len(b)
Prev(b) == Front(b)
Root(b) == SubSeq(b, 1, Height(b) - Window)
From(r, bs) == {b \in bs : IsPrefix(r, b)}

SumOver(S, f(_)) == MapThenSumSet(f, S)

\* A function with one value more or another.
Put(f, k, v) == [i \in DOMAIN f \union {k} |-> IF i = k THEN v ELSE f[i]]

-----------------------------------------------------------------------------
(* A ledger: balances of HAC and HACD, the diamonds each address owns in   *)
(* the order of its list, the diamonds, the latest of them, the channels,  *)
(* the heights at which transactions ran, and TotalCount but for its       *)
(* engravings.  The last two are auxiliary: quiet is what was burned of    *)
(* fees without a count, and cuts how often an amount was added to a count *)
(* that a deposit does not leave again.                                    *)

NoCount == [minted |-> 0, bid |-> 0, insc |-> 0, opening |-> 0, deposit |-> 0, interest |-> 0]

Empty ==
  [hac |-> [a \in Addr |-> 0], hacd |-> [a \in Addr |-> 0],
   owned |-> [a \in Addr |-> <<>>], dia |-> <<>>, latest |-> [num |-> 0, born |-> Genesis],
   chan |-> <<>>, done |-> <<>>, count |-> NoCount, quiet |-> 0, cuts |-> 0]

\* hac_add and hac_sub of an amount that is_positive, and when they succeed.
Credit(s, a, amt) == [s EXCEPT !.hac[a] = @ + amt]
Debit(s, a, amt) == [s EXCEPT !.hac[a] = @ - amt]
Affords(s, a, amt) == (amt > 0 \/ ZeroDigits) /\ s.hac[a] >= amt
CanDebit(s, a, amt) == Affords(s, a, amt) /\ Storable(s.hac[a] - amt)
CanCredit(s, a, amt) == Storable(s.hac[a] + amt)

\* burn_90 and fee_got of a transaction: a tenth is left for the miner.
Burns(x) ==
  \/ x.ty \in {"inscribe", "clear"}
  \/ x.ty = "mint" /\ x.num > BurnAbove
Got(t) == IF \E i \in DOMAIN t.acts : Burns(t.acts[i]) THEN t.fee \div 10 ELSE t.fee

\* What is burned of a fee unless it is a bid, which has a count.
Uncounted(t) ==
  IF /\ \E i \in DOMAIN t.acts : Burns(t.acts[i])
     /\ \A i \in DOMAIN t.acts : t.acts[i].ty = "mint" => t.acts[i].num <= BurnAbove
  THEN t.fee - t.fee \div 10 ELSE 0

-----------------------------------------------------------------------------
(* Threads.  A job is a block, or a transaction to test on the head; todo  *)
(* are its transactions, the first being executed, acts the rest of its    *)
(* actions and fees what the miner gets.  A test that has taken the ledger *)
(* of the head has yet to ask for the height.                              *)

Idle == [ty |-> "idle"]

Free(p) == job[p].ty = "idle"
Busy(p) == job[p].ty \in {"insert", "test"}
Tests(p) == job[p].ty = "test"
At(p) == job[p].state
Tx(p) == Head(job[p].todo)
ActsOf(todo) == IF todo = <<>> THEN <<>> ELSE Head(todo).acts

\* The thread is about to execute an action of a kind, which is x.
Doing(p, ty) == Busy(p) /\ job[p].todo # <<>> /\ job[p].acts # <<>> /\ Head(job[p].acts).ty = ty
Act(p) == Head(job[p].acts)

\* Of two actions of a kind that must be unique (ACTLV_TOP_UNIQUE) none is good.
Unique(p) ==
  \A i, j \in DOMAIN Tx(p).acts :
    (Tx(p).acts[i].ty = Act(p).ty /\ Tx(p).acts[j].ty = Act(p).ty) => i = j

\* The action was good, and the ledger is s.
Becomes(p, s) ==
  /\ job' = [job EXCEPT ![p].state = s, ![p].acts = Tail(@)]
  /\ UNCHANGED <<tree, head, ledger>>

\* A thread takes a block whose parent is in memory.  Before the first one the ledger
\* is initialised; the reward of the miner comes first (coinbase).
BeginInsert(base, body) ==
  LET b == Append(base, body)
      s == IF base = Genesis THEN [Empty EXCEPT !.hac = Alloc] ELSE ledger[base]
  IN /\ Free(Inserter) /\ b \notin tree
     /\ Height(b) <= Depth /\ Cardinality(tree) < Breadth
     /\ CanCredit(s, body.miner, Reward)
     /\ job' = [job EXCEPT ![Inserter] =
                  [ty |-> "insert", block |-> b, height |-> Height(b),
                   state |-> Credit(s, body.miner, Reward), todo |-> body.txs,
                   acts |-> ActsOf(body.txs), fees |-> 0]]
     /\ UNCHANGED <<tree, head, ledger, smelt>>

\* try_execute_tx takes the ledger of the head, unless its lock is busy, then the lock
\* again for the height; the head may have moved.  The block to come has no hash.
TakeState(p, t) ==
  /\ Free(p)
  /\ job' = [job EXCEPT ![p] = [ty |-> "height", state |-> ledger[head], tx |-> t]]
  /\ UNCHANGED <<tree, head, ledger, smelt>>
BeginTest(p) ==
  /\ job[p].ty = "height"
  /\ job' = [job EXCEPT ![p] =
               [ty |-> "test", block |-> Genesis, height |-> Height(head) + 1,
                state |-> @.state, todo |-> <<@.tx>>, acts |-> @.tx.acts, fees |-> 0]]
  /\ UNCHANGED <<tree, head, ledger, smelt>>

-----------------------------------------------------------------------------
(* The actions of a transaction: whether they succeed on a ledger s, and   *)
(* what it is after that.                                                  *)

\* hac_transfer; to oneself it only has to be there, and up to some height not even that.
CanTransfer(s, x, h) ==
  IF x.from = x.to THEN h < SelfUnchecked \/ Affords(s, x.from, x.amt)
  ELSE CanDebit(s, x.from, x.amt) /\ CanCredit(s, x.to, x.amt)
Transferred(s, x) ==
  IF x.from = x.to THEN s ELSE Credit(Debit(s, x.from, x.amt), x.to, x.amt)

TransferHac(p) ==
  /\ Doing(p, "hac") /\ CanTransfer(At(p), Act(p), job[p].height)
  /\ Becomes(p, Transferred(At(p), Act(p)))
  /\ UNCHANGED smelt

\* Mistake: the hole is not filled.
DropUnfilled(list, dias) ==
  LET found == Cardinality(ToSet(list) \intersect ToSet(dias))
  IN [found |-> found, list |-> SubSeq(list, found + 1, Len(list))]

\* DiamondOwnedForm::drop: each that goes leaves a hole, which is filled with the
\* first name that is still there, and the list is cut at its head.
DropAt(r, i, d) ==
  IF d \notin r.rest THEN r
  ELSE [rest |-> r.rest \ {d}, left |-> r.left + 1,
        list |-> [r.list EXCEPT ![i] = r.list[r.left + 1]]]
Drop(list, dias) ==
  LET after[i \in 0..Len(list)] ==
        IF i = 0 THEN [rest |-> ToSet(dias), left |-> 0, list |-> list]
        ELSE DropAt(after[i - 1], i, list[i])
      end == after[Len(list)]
  IN [found |-> end.left, list |-> SubSeq(end.list, end.left + 1, Len(list))]

\* check_diamond_status
Owns(s, a, d) == d \in DOMAIN s.dia /\ s.dia[d].addr = a

\* do_diamonds_transfer; the second time a name comes it has another owner.
CanMove(s, x) ==
  /\ x.from # x.to /\ IsInjective(x.dias)
  /\ \A d \in ToSet(x.dias) : Owns(s, x.from, d)
  /\ Drop(s.owned[x.from], x.dias).found = Len(x.dias)
  /\ s.hacd[x.from] >= Len(x.dias)
Moved(s, x) ==
  [s EXCEPT
     !.dia = [d \in DOMAIN @ |-> IF d \in ToSet(x.dias) THEN [@[d] EXCEPT !.addr = x.to] ELSE @[d]],
     !.owned = [@ EXCEPT ![x.from] = Drop(s.owned[x.from], x.dias).list,
                         ![x.to] = s.owned[x.to] \o x.dias],
     !.hacd = [@ EXCEPT ![x.from] = s.hacd[x.from] - Len(x.dias),
                        ![x.to] = s.hacd[x.to] + Len(x.dias)]]

TransferDiamonds(p) ==
  /\ Doing(p, "diamond") /\ CanMove(At(p), Act(p))
  /\ Becomes(p, Moved(At(p), Act(p)))
  /\ UNCHANGED smelt

\* calculate_diamond_average_bid_burn, in HAC and cut to 16 bits.
Average(num, bid) ==
  IF num <= AverageAbove THEN 10
  ELSE ((bid \div Mei) \div (num - BurnAbove) + 1) % 65536

\* diamond_mint; that the name is the one mined is taken for granted.
CanMint(p) ==
  LET s == At(p) x == Act(p) IN
  /\ Unique(p)
  /\ Tests(p) \/ job[p].height % MintEvery = 0
  /\ x.num = s.latest.num + 1
  /\ x.num > 1 => s.latest.born = x.prev
  /\ x.dia \notin DOMAIN s.dia
Minted(p) ==
  LET s == At(p) x == Act(p) counted == x.num > BurnAbove IN
  [s EXCEPT
     !.count.minted = @ + 1,
     !.count.bid = @ + (IF counted THEN Zhu(Tx(p).fee - Tx(p).fee \div 10) ELSE 0),
     !.cuts = @ + (IF counted THEN 1 ELSE 0),
     !.latest = [num |-> x.num, born |-> job[p].block],
     !.dia = Put(@, x.dia, [addr |-> x.to, insc |-> 0, last |-> 0]),
     !.owned[x.to] = Append(@, x.dia),
     !.hacd[x.to] = @ + 1]

\* The record goes to the store at once.
Smelted(p) ==
  Put(smelt, Act(p).dia,
      [num |-> Act(p).num, fee |-> Tx(p).fee, born |-> job[p].block,
       average |-> Average(Act(p).num, Minted(p).count.bid)])

Mint(p) ==
  /\ Doing(p, "mint") /\ CanMint(p)
  /\ Becomes(p, Minted(p))
  /\ smelt' = Smelted(p)

\* engraved_one_diamond and engraved_clean_one_diamond: what they ask, and what
\* they cost by the record in the store.  The second time a name comes fails.
CanEngrave(s, a, d, h) ==
  /\ Owns(s, a, d) /\ d \in DOMAIN smelt
  /\ s.dia[d].last + InscEvery <= h /\ s.dia[d].insc < MaxInsc
EngravingCost(s, d) ==
  IF s.dia[d].insc >= FreeInsc THEN smelt[d].average * (Mei \div 10) * Part ELSE 0
CanClean(s, a, d) == Owns(s, a, d) /\ d \in DOMAIN smelt /\ s.dia[d].insc > 0
CleaningCost(s, d) == smelt[d].average * Mei * Part

\* diamond_inscription and diamond_inscription_clean: the cost that the transaction
\* offers is burned, if it is enough.
Pays(s, a, x, cost) ==
  /\ IsInjective(x.dias)
  /\ x.cost >= cost
  /\ x.cost > 0 => CanDebit(s, a, x.cost)
CanInscribe(p) ==
  LET s == At(p) x == Act(p) IN
  /\ Unique(p)
  /\ \A d \in ToSet(x.dias) : CanEngrave(s, Tx(p).main, d, job[p].height)
  /\ Pays(s, Tx(p).main, x, SumOver(ToSet(x.dias), LAMBDA d : EngravingCost(s, d)))
CanClear(p) ==
  LET s == At(p) x == Act(p) IN
  /\ Unique(p)
  /\ \A d \in ToSet(x.dias) : CanClean(s, Tx(p).main, d)
  /\ Pays(s, Tx(p).main, x, SumOver(ToSet(x.dias), LAMBDA d : CleaningCost(s, d)))

Engraved(s, ds, h) ==
  [s EXCEPT !.dia = [d \in DOMAIN @ |->
     IF d \in ds THEN [@[d] EXCEPT !.last = h, !.insc = s.dia[d].insc + 1] ELSE @[d]]]
Cleaned(s, ds) ==
  [s EXCEPT !.dia = [d \in DOMAIN @ |->
     IF d \in ds THEN [@[d] EXCEPT !.last = 0, !.insc = 0] ELSE @[d]]]
Burned(s, a, amt) == [Debit(s, a, amt) EXCEPT !.count.insc = @ + Zhu(amt), !.cuts = @ + 1]

Inscribe(p) ==
  /\ Doing(p, "inscribe") /\ CanInscribe(p)
  /\ Becomes(p, Burned(Engraved(At(p), ToSet(Act(p).dias), job[p].height),
                       Tx(p).main, Act(p).cost))
  /\ UNCHANGED smelt

Clear(p) ==
  /\ Doing(p, "clear") /\ CanClear(p)
  /\ Becomes(p, Burned(Cleaned(At(p), ToSet(Act(p).dias)),
                       Tx(p).main, Act(p).cost))
  /\ UNCHANGED smelt

\* Mistake: a channel that is open can be opened again.
ReusableAlways(s, x) ==
  x.ch \in DOMAIN s.chan => s.chan[x.ch].left = x.left /\ s.chan[x.ch].right = x.right

\* An id can be used again by the same two after they closed it.
Reusable(s, x) ==
  x.ch \in DOMAIN s.chan =>
    /\ s.chan[x.ch].left = x.left /\ s.chan[x.ch].right = x.right
    /\ ~s.chan[x.ch].open

\* channel_open
CanOpen(s, x) ==
  /\ x.left # x.right /\ (x.l > 0 \/ x.r > 0 \/ ZeroDigits)
  /\ x.l > 0 => CanDebit(s, x.left, x.l)
  /\ x.r > 0 => CanDebit(s, x.right, x.r)
  /\ Reusable(s, x)
Opened(s, x, h) ==
  [Debit(Debit(s, x.left, x.l), x.right, x.r) EXCEPT
     !.chan = Put(@, x.ch, [open |-> TRUE, since |-> h, left |-> x.left, right |-> x.right,
                            l |-> x.l, r |-> x.r,
                            version |-> IF x.ch \in DOMAIN @ THEN @[x.ch].version + 1 ELSE 1]),
     !.count.opening = @ + 1,
     !.count.deposit = @ + Zhu(x.l + x.r)]

OpenChannel(p) ==
  /\ Doing(p, "open") /\ CanOpen(At(p), Act(p))
  /\ Becomes(p, Opened(At(p), Act(p), job[p].height))
  /\ UNCHANGED smelt

\* calculate_interest_of_height: what one who put in amt gets; nothing is asked of a
\* channel that holds nothing.
Payout(c, amt, h) ==
  IF c.l + c.r = 0 THEN 0 ELSE Grown(amt, (h - c.since) \div Compound)

\* channel_close: both get what they put in, with interest, which must not be negative.
CanClose(s, x, h) ==
  /\ x.ch \in DOMAIN s.chan /\ s.chan[x.ch].open
  /\ LET c == s.chan[x.ch] l == Payout(c, c.l, h) r == Payout(c, c.r, h) IN
       /\ c.since <= h /\ l + r >= c.l + c.r
       /\ l > 0 => CanCredit(s, c.left, l)
       /\ r > 0 => CanCredit(s, c.right, r)
Closed(s, x, h) ==
  LET c == s.chan[x.ch] l == Payout(c, c.l, h) r == Payout(c, c.r, h) IN
  [Credit(Credit(s, c.left, l), c.right, r) EXCEPT
     !.chan[x.ch].open = FALSE,
     !.count.opening = @ - 1,
     !.count.deposit = @ - Zhu(c.l + c.r),
     !.count.interest = @ + Zhu((l + r) - (c.l + c.r)),
     !.cuts = @ + 1]

CloseChannel(p) ==
  /\ Doing(p, "close") /\ CanClose(At(p), Act(p), job[p].height)
  /\ Becomes(p, Closed(At(p), Act(p), job[p].height))
  /\ UNCHANGED smelt

-----------------------------------------------------------------------------
(* The fee comes after the actions, and with it the end of a transaction.  *)

\* TxExec::execute: it has not run before, but for one.
IsNew(s, t) == t.hash \in DOMAIN s.done => t.hash = BugTx /\ s.done[t.hash] = BugHeight

\* Mistake: the balance is not looked at.
CanPayUnchecked(p) == IsNew(At(p), Tx(p))

CanPay(p) == IsNew(At(p), Tx(p)) /\ CanDebit(At(p), Tx(p).main, Tx(p).fee)

Paid(s, t, h) ==
  [Debit(s, t.main, t.fee) EXCEPT !.done = Put(@, t.hash, h), !.quiet = @ + Uncounted(t)]

Pay(p) ==
  /\ Busy(p) /\ job[p].todo # <<>> /\ job[p].acts = <<>> /\ CanPay(p)
  /\ LET t == Tx(p) IN
       job' = [job EXCEPT
         ![p].state = Paid(@, t, job[p].height),
         ![p].fees = @ + Got(t),
         ![p].todo = Tail(@),
         ![p].acts = ActsOf(Tail(job[p].todo))]
  /\ UNCHANGED <<tree, head, ledger, smelt>>

CanReward(p) ==
  job[p].fees > 0 => CanCredit(At(p), Last(job[p].block).miner, job[p].fees)

\* One action that fails, or the fee, and all of the block or of the test is refused; so
\* is a block whose miner's balance cannot be stored with the fees.
Fails(p) ==
  \/ Doing(p, "hac") /\ ~CanTransfer(At(p), Act(p), job[p].height)
  \/ Doing(p, "diamond") /\ ~CanMove(At(p), Act(p))
  \/ Doing(p, "mint") /\ ~CanMint(p)
  \/ Doing(p, "inscribe") /\ ~CanInscribe(p)
  \/ Doing(p, "clear") /\ ~CanClear(p)
  \/ Doing(p, "open") /\ ~CanOpen(At(p), Act(p))
  \/ Doing(p, "close") /\ ~CanClose(At(p), Act(p), job[p].height)
  \/ Busy(p) /\ job[p].todo # <<>> /\ job[p].acts = <<>> /\ ~CanPay(p)
  \/ p = Inserter /\ Busy(p) /\ job[p].todo = <<>> /\ ~CanReward(p)

Refuse(p) ==
  /\ Fails(p)
  /\ job' = [job EXCEPT ![p] = Idle]
  /\ UNCHANGED <<tree, head, ledger, smelt>>

\* The miner gets what is left of the fees, and the engine the block.
Rewarded(p) ==
  IF job[p].fees > 0 THEN Credit(At(p), Last(job[p].block).miner, job[p].fees) ELSE At(p)

InsertEnds ==
  LET b == job[Inserter].block
      kept == IF Height(b) > Height(head) THEN From(Root(b), tree \union {b}) ELSE tree \union {b}
  IN /\ Busy(Inserter) /\ job[Inserter].todo = <<>> /\ CanReward(Inserter)
     /\ tree' = kept
     /\ head' = IF Height(b) > Height(head) THEN b ELSE head
     /\ ledger' = [c \in kept |-> IF c = b THEN Rewarded(Inserter) ELSE ledger[c]]
     /\ job' = [job EXCEPT ![Inserter] = Idle]
     /\ UNCHANGED smelt

TestEnds(p) ==
  /\ Busy(p) /\ job[p].todo = <<>>
  /\ job' = [job EXCEPT ![p] = Idle]
  /\ UNCHANGED <<tree, head, ledger, smelt>>

Init ==
  /\ tree = {Genesis} /\ head = Genesis
  /\ ledger = [b \in {Genesis} |-> Empty]
  /\ smelt = <<>>
  /\ job = [p \in Thread |-> Idle]

Step(p) ==
  \/ TransferHac(p) \/ TransferDiamonds(p)
  \/ Mint(p) \/ Inscribe(p) \/ Clear(p)
  \/ OpenChannel(p) \/ CloseChannel(p)
  \/ Pay(p) \/ Refuse(p)

Next ==
  \/ \E base \in tree, body \in Bodies : BeginInsert(base, body)
  \/ InsertEnds
  \/ \E p \in Tester : BeginTest(p) \/ TestEnds(p) \/ \E t \in Tested : TakeState(p, t)
  \/ \E p \in Thread : Step(p)

Spec == Init /\ [][Next]_vars

-----------------------------------------------------------------------------
(* Properties.                                                             *)

\* Balances and counts are unsigned, and a subtraction that goes below zero stops
\* the process or wraps: none does, in no ledger and in none that is being made.
LedgerOK(s) ==
  /\ s.hac \in [Addr -> Nat] /\ s.hacd \in [Addr -> Nat]
  /\ s.owned \in [Addr -> Seq(Diamond)]
  /\ DOMAIN s.dia \subseteq Diamond /\ DOMAIN s.chan \subseteq Channel
  /\ \A n \in DOMAIN s.count : s.count[n] \in Nat
TypeOK ==
  /\ head \in tree /\ DOMAIN ledger = tree
  /\ \A b \in tree : LedgerOK(ledger[b])
  /\ DOMAIN smelt \subseteq Diamond
  /\ \A p \in Thread : Busy(p) => LedgerOK(job[p].state) /\ job[p].fees \in Nat

Open(s) == {c \in DOMAIN s.chan : s.chan[c].open}

\* What its open channels hold, and that in zhu, channel by channel.
Held(s) == SumFunction([c \in Open(s) |-> s.chan[c].l + s.chan[c].r])
Deposited(s) == SumFunction([c \in Open(s) |-> Zhu(s.chan[c].l + s.chan[c].r)])

\* What there is of HAC by the counts: what the chain began with and its miners were
\* given, with the interest and without what was burned.
Supply(s, h) ==
  SumFunction(Alloc) + Reward * h
  + Part * (s.count.interest - s.count.bid - s.count.insc) - s.quiet

\* No HAC is made or lost: on every branch, what the addresses have and what channels
\* hold is the supply that TotalCount's report adds up, to less than one zhu for each
\* amount that was counted in zhu, however it was rounded.  The deposits, from which
\* the same is taken as was added, are exactly those of the channels that are open.
HacConserved ==
  \A b \in tree \ {Genesis} :
    LET s == ledger[b]
        off == SumFunction(s.hac) + Held(s) - Supply(s, Height(b))
        most == (Part - 1) * s.cuts
    IN /\ off <= most /\ -off <= most
       /\ s.count.deposit = Deposited(s)
       /\ s.count.opening = Cardinality(Open(s))

\* The three places that say who owns a diamond agree on every branch: its own record,
\* the list of its owner, which holds it once, and the owner's balance.  As many were
\* minted as the latest one's number says, and each has a record in the store that is
\* not the branch's own, or must_have would refuse its inscriptions for ever.
DiamondsAgree ==
  \A b \in tree :
    LET s == ledger[b] IN
    /\ \A a \in Addr :
         /\ ToSet(s.owned[a]) = {d \in DOMAIN s.dia : s.dia[d].addr = a}
         /\ Len(s.owned[a]) = s.hacd[a] /\ IsInjective(s.owned[a])
    /\ Cardinality(DOMAIN s.dia) = s.latest.num /\ s.count.minted = s.latest.num
    /\ DOMAIN s.dia \subseteq DOMAIN smelt
=============================================================================
