------------------------------- MODULE TxPool -------------------------------
(***************************************************************************)
(* The transaction pool of a mining node (src/src/node/memtxpool) and the  *)
(* threads that use it: the message handler, which tries a transaction on  *)
(* the head state and then inserts it, and one thread per arriving block,  *)
(* which inserts the block, drains its transactions and at some heights    *)
(* cleans a group (src/src/node/handler/txblock.rs).                       *)
(***************************************************************************)
EXTENDS Naturals, FiniteSets, Sequences, SequencesExt

CONSTANTS
  Tx,          \* every transaction package anyone may submit
  Hash,        \* what names a transaction: packages that differ in fee share it
  HashOf,      \* HashOf[t]
  Purity,      \* Purity[t]: fee per byte
  MintNo,      \* MintNo[h]: the number of the diamond it mints, 0 if none
  MaxNo,       \* the last number a diamond can have (three bytes)
  Clash,       \* Clash[h]: the transactions h cannot be executed after, itself included
  MaxSize,     \* MaxSize[g]: the size limit of a group
  ShortRange,  \* a range as short as this is scanned entry by entry (10)
  MintSpan,    \* a diamond is minted, and its group cleaned, every so many blocks (5)
  NormalSpan,  \* the other group is cleaned every so many blocks (48)
  Cycle,       \* bound: heights are counted modulo a multiple of both spans
  MaxInBlock,  \* bound: the transactions of a block
  BlockThread, \* the threads that insert a block and then use the pool
  NoTx, NoThread

Group == {"normal", "mint"}

ASSUME TxAssumption ==
  /\ HashOf \in [Tx -> Hash] /\ Purity \in [Tx -> Nat] /\ MintNo \in [Hash -> 0..MaxNo]
  /\ Clash \in [Hash -> SUBSET Hash] /\ \A h \in Hash : h \in Clash[h]
  /\ MaxNo \in Nat /\ NoTx \notin Tx /\ NoThread \notin BlockThread

ASSUME SizeAssumption ==
  /\ MaxSize \in [Group -> Nat \ {0}] /\ ShortRange \in Nat \ {0}
  /\ MintSpan \in Nat \ {0} /\ NormalSpan \in Nat \ {0} /\ Cycle \in Nat \ {0}
  /\ Cycle % MintSpan = 0 /\ Cycle % NormalSpan = 0

VARIABLES
  pool,    \* MemTxPool.groups: per group, its packages, the best first
  lock,    \* per group, the block thread that holds its mutex
  knows,   \* MsgHandler.knows: the packages heard of
  tested,  \* the package the handler has tried and not inserted yet
  done,    \* the transactions of the head's chain,
  top,     \*   those of the head block itself,
  side,    \*   the bodies of the blocks beside it (none, or one),
  hei,     \*   and the height of the head, modulo Cycle
  work,    \* per block thread: what it has still to do to the pool
  gone,    \* per block thread: the transactions of its block not drained yet
  pos,     \* per block thread: how far a clean has come
  lastno   \* per block thread: the latest diamond when it asked

chainVars == <<done, top, side, hei>>
vars == <<pool, lock, knows, tested, done, top, side, hei, work, gone, pos, lastno>>

Home(h) == IF MintNo[h] = 0 THEN "normal" ELSE "mint"
GroupOf(t) == Home(HashOf[t])
Hashes(s) == {HashOf[s[i]] : i \in DOMAIN s}

-----------------------------------------------------------------------------
(* What the chain allows. Fees and balances are abstracted to Clash.       *)

LatestNo(chain) ==
  CHOOSE n \in {0} \union {MintNo[h] : h \in chain} : \A h \in chain : MintNo[h] <= n

Executable(h, chain) ==
  /\ chain \intersect Clash[h] = {}
  /\ MintNo[h] # 0 => MintNo[h] = LatestNo(chain) + 1

\* The transactions of a block at height i on top of a chain.
BlockBody(chain, i) ==
  {S \in SUBSET Hash :
     /\ Cardinality(S) <= MaxInBlock
     /\ \A h \in S : Executable(h, chain) /\ S \intersect Clash[h] = {h}
     /\ \A h \in S : MintNo[h] # 0 => i % MintSpan = 0
     /\ \A h, k \in S : MintNo[h] # 0 /\ MintNo[k] # 0 => h = k}

-----------------------------------------------------------------------------
(* TxGroup.                                                                *)

\* scan_group_rng_by_feep: halve the range <<l, r>> (positions l+1 to r) until it
\* is short or its middle pays exactly the fee asked for.
ScanGroup(s, fee) ==
  LET Rng[l \in 0..Len(s), r \in 0..Len(s)] ==
        LET m == l + (r - l) \div 2 IN
        IF r - l <= ShortRange \/ Purity[s[m + 1]] = fee THEN <<l, r>>
        ELSE IF fee > Purity[s[m + 1]] THEN Rng[l, m]
        ELSE Rng[m, r]
  IN Rng[0, Len(s)]

\* Mistake: the entries that pay more.
Higher(s, fee) == {i \in DOMAIN s : fee < Purity[s[i]]}

\* The entries that pay less, looked for in the range only.
Lower(s, fee) ==
  LET rng == IF Len(s) <= ShortRange THEN <<0, Len(s)>> ELSE ScanGroup(s, fee)
  IN {i \in DOMAIN s : rng[1] < i /\ i <= rng[2] /\ fee > Purity[s[i]]}

First(T) == CHOOSE i \in T : \A j \in T : i <= j

\* insert_rng: before the first of them, else at the tail of the group.
Placed(s, t) ==
  LET low == Lower(s, Purity[t])
  IN IF low = {} THEN Append(s, t) ELSE InsertAt(s, First(low), t)

Full(s, g) == Len(s) >= MaxSize[g]
TooLow(s, g, t) == s # <<>> /\ Full(s, g) /\ Purity[t] <= Purity[s[Len(s)]]

\* Mistakes: nothing is dropped, or what pays most.
CutNever(s, g) == s
CutFront(s, g) == IF Len(s) > MaxSize[g] THEN RemoveAt(s, 1) ELSE s

\* "check full": drop the last.
Cut(s, g) == IF Len(s) > MaxSize[g] THEN RemoveAt(s, Len(s)) ELSE s

\* Mistake: the old package stays.
WithoutOldKept(s, t) == s

Same(s, t) == {i \in DOMAIN s : HashOf[s[i]] = HashOf[t]}
WithoutOld(s, t) ==
  IF Same(s, t) = {} THEN s ELSE RemoveAt(s, First(Same(s, t)))

\* Mistake: a package replaces the old one of its transaction whatever it pays.
InsertNewest(s, g, t) ==
  LET r == WithoutOld(s, t)
  IN IF TooLow(r, g, t) THEN r ELSE Cut(Placed(r, t), g)

\* TxGroup::insert
Insert(s, g, t) ==
  IF Same(s, t) # {} /\ Purity[t] <= Purity[s[First(Same(s, t))]] THEN s
  ELSE LET r == WithoutOld(s, t)
       IN IF TooLow(r, g, t) THEN r ELSE Cut(Placed(r, t), g)

-----------------------------------------------------------------------------
(* handle_new_tx. The handler is one loop: one transaction at a time. A    *)
(* transaction that does not execute is dropped; so is one that does, when *)
(* another thread holds the lock of the engine just then (try_lock): it is *)
(* known by now and is not tried again.                                    *)

Hear(t) ==
  /\ tested = NoTx /\ t \notin knows
  /\ knows' = knows \union {t}
  /\ tested' \in {NoTx} \union {u \in {t} : Executable(HashOf[u], done)}
  /\ UNCHANGED <<pool, lock, chainVars, work, gone, pos, lastno>>

InsertTested ==
  LET g == GroupOf(tested) IN
  /\ tested # NoTx /\ lock[g] = NoThread
  /\ pool' = [pool EXCEPT ![g] = Insert(@, g, tested)]
  /\ tested' = NoTx
  /\ UNCHANGED <<lock, knows, chainVars, work, gone, pos, lastno>>

-----------------------------------------------------------------------------
(* The thread of an arriving block: engine.insert, then                    *)
(* drain_all_block_txs, whose steps for a block at height i are these.     *)

Job(op, g) == [op |-> op, group |-> g]

Cleans(i) ==
  (IF i % MintSpan = 0 THEN <<Job("ask", "mint"), Job("clean", "mint")>> ELSE <<>>)
  \o (IF i % NormalSpan = 0 THEN <<Job("clean", "normal")>> ELSE <<>>)

UsePool(d, S, i) ==
  /\ work' = [work EXCEPT ![d] = <<Job("drain", "normal"), Job("drain", "mint")>> \o Cleans(i)]
  /\ gone' = [gone EXCEPT ![d] = S]
  /\ UNCHANGED <<pool, lock, knows, tested, pos, lastno>>

NewTop(chain, S) ==
  /\ done' = chain \union S /\ top' = S /\ side' = {}
  /\ hei' = (hei + 1) % Cycle

\* The block extends the head,
Extend(d) ==
  /\ work[d] = <<>>
  /\ \E S \in BlockBody(done, hei + 1) : NewTop(done, S) /\ UsePool(d, S, hei + 1)

\* or stays beside the head, and its transactions are drained all the same,
Uncle(d) ==
  /\ work[d] = <<>> /\ side = {}
  /\ \E S \in BlockBody(done \ top, hei) : side' = {S} /\ UsePool(d, S, hei)
  /\ UNCHANGED <<done, top, hei>>

\* or extends the block beside: the old head block is off the chain.
SwitchFork(d) ==
  /\ work[d] = <<>>
  /\ \E U \in side : \E S \in BlockBody((done \ top) \union U, hei + 1) :
       NewTop((done \ top) \union U, S) /\ UsePool(d, S, hei + 1)

\* Blocks of a sync pass by the pool.
SyncBlock ==
  /\ \E S \in BlockBody(done, hei + 1) : NewTop(done, S)
  /\ UNCHANGED <<pool, lock, knows, tested, work, gone, pos, lastno>>

-----------------------------------------------------------------------------
(* The steps of drain, and of drain_filter_at (Vec::retain), each with the *)
(* mutex of its group held from the first to the last.                     *)

Doing(d, op) == work[d] # <<>> /\ Head(work[d]).op = op
Here(d) == Head(work[d]).group
Has(d) == lock[Here(d)] \in {NoThread, d}

Goes(d, i) ==
  /\ pool' = [pool EXCEPT ![Here(d)] = RemoveAt(@, i)]
  /\ lock' = [lock EXCEPT ![Here(d)] = d]

\* Mistake: positions count from 0.
FinishAtZero(d) ==
  /\ work' = [work EXCEPT ![d] = Tail(@)]
  /\ lock' = [lock EXCEPT ![Here(d)] = NoThread]
  /\ pos' = [pos EXCEPT ![d] = 0]
  /\ UNCHANGED pool

Finish(d) ==
  /\ work' = [work EXCEPT ![d] = Tail(@)]
  /\ lock' = [lock EXCEPT ![Here(d)] = NoThread]
  /\ pos' = [pos EXCEPT ![d] = 1]
  /\ UNCHANGED pool

Drain(d) ==
  /\ Doing(d, "drain") /\ Has(d)
  /\ LET found == {i \in DOMAIN pool[Here(d)] : HashOf[pool[Here(d)][i]] \in gone[d]} IN
     \/ \E i \in found :
          /\ Goes(d, i)
          /\ gone' = [gone EXCEPT ![d] = @ \ {HashOf[pool[Here(d)][i]]}]
          /\ UNCHANGED <<work, pos>>
     \/ /\ found = {} /\ Finish(d)
        /\ gone' = [gone EXCEPT ![d] = IF Here(d) = "normal" THEN @ ELSE {}]
  /\ UNCHANGED <<knows, tested, chainVars, lastno>>

\* clean_invalid_diamond_mint_txs reads the latest diamond before it locks.
AskLatest(d) ==
  /\ Doing(d, "ask")
  /\ lastno' = [lastno EXCEPT ![d] = LatestNo(done)]
  /\ work' = [work EXCEPT ![d] = Tail(@)]
  /\ UNCHANGED <<pool, lock, knows, tested, chainVars, gone, pos>>

\* Mistake: the diamond that was minted last stays.
KeptSame(d, t) ==
  IF Here(d) = "mint" THEN MintNo[HashOf[t]] >= lastno[d] ELSE Executable(HashOf[t], done)

\* What the filters let stay,
Kept(d, t) ==
  IF Here(d) = "mint" THEN MintNo[HashOf[t]] > lastno[d] ELSE Executable(HashOf[t], done)

\* and what they may delete: all the rest, and any entry of the normal group when the
\* lock of the engine is busy, for then try_execute_tx errs as if it did not execute.
Deleted(d, t) == Here(d) = "normal" \/ ~Kept(d, t)

Clean(d) ==
  /\ Doing(d, "clean") /\ Has(d)
  /\ LET s == pool[Here(d)] IN
     \/ /\ pos[d] <= Len(s) /\ Deleted(d, s[pos[d]])
        /\ Goes(d, pos[d])
        /\ UNCHANGED <<work, pos, lastno>>
     \/ /\ pos[d] <= Len(s) /\ Kept(d, s[pos[d]])
        /\ pos' = [pos EXCEPT ![d] = @ + 1]
        /\ lock' = [lock EXCEPT ![Here(d)] = d]
        /\ UNCHANGED <<pool, work, lastno>>
     \/ pos[d] > Len(s) /\ Finish(d) /\ lastno' = [lastno EXCEPT ![d] = 0]
  /\ UNCHANGED <<knows, tested, chainVars, gone>>

-----------------------------------------------------------------------------
Init ==
  /\ pool = [g \in Group |-> <<>>] /\ lock = [g \in Group |-> NoThread]
  /\ knows = {} /\ tested = NoTx
  /\ done = {} /\ top = {} /\ side = {} /\ hei = 1 % Cycle
  /\ work = [d \in BlockThread |-> <<>>] /\ gone = [d \in BlockThread |-> {}]
  /\ pos = [d \in BlockThread |-> 1] /\ lastno = [d \in BlockThread |-> 0]

BlockComes(d) == Extend(d) \/ SwitchFork(d) \/ Uncle(d)
ThreadStep(d) == Drain(d) \/ AskLatest(d) \/ Clean(d)

Next ==
  \/ \E t \in Tx : Hear(t)
  \/ InsertTested \/ SyncBlock
  \/ \E d \in BlockThread : BlockComes(d) \/ ThreadStep(d)

Spec == Init /\ [][Next]_vars

-----------------------------------------------------------------------------
(* Properties.                                                             *)

TypeOK ==
  /\ pool \in [Group -> Seq(Tx)]
  /\ \A g \in Group : \A i \in DOMAIN pool[g] : GroupOf(pool[g][i]) = g
  /\ lock \in [Group -> BlockThread \union {NoThread}]
  /\ knows \subseteq Tx /\ tested \in Tx \union {NoTx}
  /\ done \subseteq Hash /\ top \subseteq done /\ side \subseteq SUBSET Hash /\ hei \in 0..(Cycle - 1)
  /\ work \in [BlockThread -> Seq([op : {"drain", "ask", "clean"}, group : Group])]
  /\ gone \in [BlockThread -> SUBSET Hash]
  /\ pos \in [BlockThread -> Nat \ {0}] /\ lastno \in [BlockThread -> Nat]

Once(s) == \A i, j \in DOMAIN s : HashOf[s[i]] = HashOf[s[j]] => i = j

\* A transaction is in the pool once, whatever fees it was submitted with and
\* whatever is drained and cleaned meanwhile, so the miner never packs it twice.
OneOfEach == \A g \in Group : Once(pool[g])

\* No group outgrows its limit.
WithinSize == \A g \in Group : Len(pool[g]) <= MaxSize[g]

Sorted(s) == \A i, j \in DOMAIN s : i < j => Purity[s[i]] >= Purity[s[j]]

\* The miner packs from the front: those who pay most come first.
BestFirst == \A g \in Group : Sorted(pool[g])

\* What becoming r from s and a new package leaves out is no loss.
GivesUpLowest(new, s, r) ==
  \A t \in (ToSet(s) \union {new}) \ ToSet(r) :
    \/ \E u \in ToSet(r) : HashOf[u] = HashOf[t] /\ Purity[t] <= Purity[u]
    \/ \A u \in ToSet(r) : Purity[t] <= Purity[u]

\* The handler's insertion gives up only what pays least ("drop lowest"): of the
\* packages it had and the new one, each that is left out pays no more than any
\* that is kept, unless it is kept in a package of the same transaction that pays
\* at least as much.
DropsLowest ==
  [][tested # NoTx /\ tested' = NoTx =>
       GivesUpLowest(tested, pool[GroupOf(tested)], pool'[GroupOf(tested)])]_vars

\* A package leaves for a new one only if that one pays more per byte, and is in the
\* pool: no insertion makes the pool poorer, in whatever order its packages are.
LeavesForBetter ==
  [][tested # NoTx /\ tested' = NoTx =>
       \A t \in ToSet(pool[GroupOf(tested)]) \ ToSet(pool'[GroupOf(tested)]) :
         Purity[t] < Purity[tested] /\ tested \in ToSet(pool'[GroupOf(tested)])]_vars

\* A transaction the chain has already, or a diamond it has passed, does not stay
\* in the pool for ever, although it may have been inserted after the drain of its
\* block, or its block have come by sync: as long as its group is cleaned again.
Stale(h) ==
  /\ h \in Hashes(pool[Home(h)])
  /\ IF Home(h) = "mint" THEN MintNo[h] <= LatestNo(done) ELSE h \in done
Cleaned(g) == \E d \in BlockThread : Doing(d, "clean") /\ Here(d) = g /\ Clean(d) /\ Finish(d)
StaleLeaves == \A h \in Hash : []<><<Cleaned(Home(h))>>_vars => []<>~Stale(h)
=============================================================================
