# TLA+ models of the Hacash full node (Rust)

TLA+ modules, TLC runs and TLAPS proofs kept beside the Rust sources in `src/src`.
A path below is relative to `src/src`, and `file.rs:n` is line *n* of it.

## 1. The system

A node of the Hacash proof-of-work chain. The crates' layers, from the bottom: X16RS
(hashing), Core (fields, accounts, databases, state), Chain (the block engine), Mint
(coinbase, diamonds, channels, difficulty), Node (P2P, transaction pool, message handling),
Server (HTTP API) and Miner (stand-alone workers).

| Component | State | Operations | Hard because |
|---|---|---|---|
| Block engine (`chain/engine`, `chain/roller`) | tree of unstable blocks (`sroot` strong, `scusp` weak), mutex `klctx`, ten-odd store keys | `insert`, `insert_sync`, `open` + rebuild, `get_latest_*` | called from many threads; two threads inside one sync; several unbatched writes per block; weak pointers; restart |
| State and store (`core/state`, `core/db`) | per block a memory over a weak link to its base, one LevelDB; block bodies, height pointers, status | `get_at`, `set_at`, `fork_sub_state`, `flush_disk`, `put_*` | reads fall through dead links; a flush changes what other branches read |
| Block execution (`chain/execute`, `protocol`) | none of its own | `do_check_insert`, `exec_tx_actions`, `try_execute_tx` | one of many steps fails; fees conserved; repeat of a transaction |
| Mint (`mint`) | channels, diamonds, totals in the state; smelt records in the store; a cycle cache | actions 1..36, coinbase, `consensus` | records outside the forkable state; a cache that forks share |
| Message handler (`node/handler`) | latest sync time, known blocks and transactions | status, hashes, blocks, new block, new transaction | peers answer in any order, throttle by time, arithmetic on heights a peer chose |
| Transaction pool (`node/memtxpool`) | groups ordered by fee | insert, find, drain, delete, clean | narrowed binary search, removal by shifting |
| Peers (`node/peer`, `node/p2p`) | known lists, the send slot, backbone and offshoot tables | send, broadcast, connect, ping, drop, find nodes, boost | tasks interleave at every await; handler starts before registration |
| Diamond bidding (`node/diamondbid`) | own bid | loop over the pool | reads a pool that changes |
| RPC miner (`server/rpc/miner.rs`) | queue of at most three pending blocks | pending, notice, success | check then create; stale after a switch of fork |
| Hash functions (`x16rs/x16rs.c`, `x16rs/algo`) | a context per function: buffer, counters | init, update, close; the chain `c_x16rs_hash` | two builds that must agree; counters of several words; padding at block boundaries |
| Workers (`run`), RPC queries, configuration, SDK | - | - | numeric search, formatting, wiring |

How they call each other: P2P tasks deliver messages to the handler; the handler calls
`Engine::insert` from a fresh thread per announced block (`node/handler/txblock.rs:74`) and
`insert_sync` for a batch, and after an insertion drains the pool; RPC threads submit blocks and
transactions the same way and read the engine's head state; the engine calls the mint checker
for consensus and writes the state and the block store. Ctrl-C ends the main thread and the
process with it (`run/fullnode.rs:93-112`): nothing waits for an insertion in progress.

What makes each correct:

- engine: the head is the highest block in a tree whose every block reads the ledger of its own
  chain; the store lets a restart rebuild exactly that; final blocks are never taken back; every
  call returns.
- ledger and mint: supply is conserved over any chain; a diamond has one owner everywhere it is noted, a
  channel is closed once.
- handler: sync terminates and asks only for blocks the peer has; no index leaves its array.
- pool: always sorted, a hash in a group at most once, search finds what is there.
- peers: nobody is sent an item twice, tables are in order and hold a node only while it is connected.
- miner and difficulty: a submitted solution is of the block that was handed out, and what the node
  demands of a block depends on the chain of that block alone.
- hashing: both builds of the C library give the digests of the functions' definitions, however the
  message is fed.

`PROJECT.json` lists all components with their status, and under `hazards` each place where a
test would hardly reach.

## 2. Modules

### `ChainEngine.tla`: the block engine

Memory is modelled with its ownership, because the defects that matter are about it. A chunk
(`RollChunk`) is an index in `heap`; its `path` holds itself and all chunks it hangs from. A
chunk is in the tree when its path contains `sroot`, it lives (`Alive`, `Weak::upgrade`) while
something in its path is held by the root or by a thread, and `View` is the recursive read
`ChainState::get_at` over living ancestors, then the database. What a key holds is abstracted to
the set of blocks that wrote it, so a missed, doubled or foreign write is visible and
contents are not. A block is a constant with its parent, height, the keys it writes, whether it
carries transactions besides the coinbase (only those are protected against running twice,
`Spends`) and whether its checks fail (`Bad`).

| Action | Code |
|---|---|
| `Call`, `Recv`, `Return` | `insert`, `insert_sync` and its channels (`insert.rs:7-19,29-135`). `Consecutive` is the parser thread, which ends the batch at the first height out of sequence |
| `Locate`, `CheckRepeat`, `Execute`, `Push` | `exec_state` (`insert.rs:144-180`), cut where it takes and releases locks; `Execute` is `do_check_insert` |
| `HeadGone`, `Uncle`, `NewHead`, `NewHeadAndRoot`, `RollError` | the five ways through `do_roll` (`roll.rs:6-65`), under `klctx` |
| `PutBlockData`, `PutBlockPtr`, `PutStatus`, `RewritePtr`, `EndRewrite` | `do_store` (`store.rs:6-45`), one database write per action, still under `klctx` |
| `RebuildNext`, `RebuildDone` | `_do_rebuild` (`init.rs:32-74`), through the same insertion as process `Boot` |
| `Restart(wipe)` | `BlockEngine::open` after a stop; `wipe` is a new data version with an empty state directory (`engine.rs:51-60`) |

The insert lock is not in the model: `self.isrlck.lock();` (`insert.rs:11,17`, `init.rs:49`)
drops its guard in the same statement and excludes nobody. A call of `insert` is a batch of one:
its `exec_state` and `roll_store` follow each other either way.
With `KillAnywhere = FALSE` the process restarts only between insertions or after a panic; with
TRUE at any step. LevelDB's own crash behaviour is out of scope: each single write is
atomic, and kept.

Abstracted: signatures, sizes, timestamps and consensus are one bit (`Bad`); the recent-block and
average-fee queues and the block scanner (the default one does nothing) are left out, as is
`StoreStatus.last_height`, which only chooses what the rebuild prints.

### `ForkChoice.tla`: what the engine promises

The head goes up one height at a time, never leaves a block that is `UnstableBlock` or more
below it, and the state read is the ledger of exactly that head. `ChainEngine` maps `head` to its
head block and `ledger` to the head's view, and, while the node rebuilds, to the highest stored
block: a restart must be invisible.

### `MCChainEngine.tla`

The block tree for TLC: branches A and B from genesis up to `Top`, C3 off A2, D2 (invalid) off A1;
two keys, one of them written by each block, both by B1; A2 and B2 carry transactions.

### `ChainEngineSerial.tla`, `ChainEngineStore.tla`, `ChainEngineProofs.tla`

The invariants behind the theorems of section 5, and their proofs. `ChainEngineSerial`: the shape of the tree for any
number of calls, and the head, the window and the children of a chunk for one call at a time (`OneCaller`).
`ChainEngineStore`: what the memories of chunks, the state database and the block store hold, at every step of a roll, a store
or a rebuild, for one call at a time and no kill in its middle. `ChainEngineProofs` proves first what needs neither, then the
first group, then the second, up to the refinement of `ForkChoice`.

### `TxPool.tla`: the transaction pool and its users

Two groups of packages (`MemTxPool.groups`), the best-paid first. A package is a constant with a hash (packages of
one transaction with different fees share it) and a fee purity; what the chain lets run is abstracted to
which transactions clash, and to the number of the diamond a transaction mints, which must be the next.

| Action | Code |
|---|---|
| `Hear`, `InsertTested` | `handle_new_tx` (`node/handler/txblock.rs:3-31`): tried on the head state, then inserted. The handler is one loop (`start.rs:6-27`), so one transaction at a time; the threads below step in between |
| `Insert` (`WithoutOld`, `TooLow`, `Placed`, `Cut`) | `TxGroup::insert`, `insert_rng`, `scan_group_rng_by_feep`, in their order, the narrowed search included |
| `Extend`, `SwitchFork`, `Uncle` | the thread of an arriving block (`txblock.rs:74-90`) inserts it: on the head, on the block beside it, or beside it. Then it has the list of jobs of `drain_all_block_txs` |
| `Drain`, `AskLatest`, `Clean` | those jobs, one entry per step, the group's mutex held from the first to the last. `AskLatest` reads the latest diamond before the mutex is taken (`txblock.rs:157-159`) |
| `SyncBlock` | a block of a sync, which passes by the pool (`blocks.rs:47-75`) |

`try_execute_tx` errs also when another thread holds the lock of the engine (`try_lock`, `engine.rs:86-90`). So `Hear` may drop a
good transaction, which is known by then and not tried again, and a clean of the normal group may delete good entries (`Deleted`);
the mint group's filter only compares numbers (`Kept`).

`knows` only grows: `Knowledge::add` never drops an item. Left out: forks deeper than one block, blocks refused (they
never reach the pool), a node that is not a miner (it keeps no pool), `delete_at` and `clear_at`, which nothing calls.

### `MCTxPool.tla`, `TxPoolProofs.tla`

The instances for TLC and the theorems of section 5 about the pool.

### `SyncHandler.tla`, `MCSyncHandler.tla`, `SyncHandlerProofs.tla`: status, hashes, blocks and announcements

One node and its peers. Messages of a connection are two queues; the peers run the answering half of the same code.
The engine is reduced to a tree, a head and `Insert`; what it promises is checked on `ChainEngine`, and nothing is claimed of it here.

| Action | Code |
|---|---|
| `Connect`, `Disconnect`, `Lose`, `PeerAdvances`, `Submit`, `HoldEnds`, `CalmDown` | the environment: connections, lost messages, the peers' chains, the own miner, the ten-second hold of `msg.rs:39` running out; after `CalmDown` it is quiet |
| `SendStatus`, `SendHashs`, `SendBlocks` | `status.rs:2-10`, `hashs.rs:2-37`, `blocks.rs:5-45` |
| `ReceiveStatus`, `ReceiveHashs`, `ReceiveBlocks` | `status.rs:12-43`, `hashs.rs:40-87`, `blocks.rs:47-62`, with `TrySync` (`msg.rs:38-45`) |
| `InsertNext`, `EndBatch` | a batch block by block (`insert.rs:76-103`), and what follows it (`blocks.rs:63-75`) |
| `HandleNewBlock`, `InsertBlock` | the loop over announced blocks (`txblock.rs:34-97`) and the thread it starts |

Left out: peers of another genesis, messages that do not parse, a second answer of a peer while its first is inserted.

### `HashPadding.tla`, `HashStream.tla`, `FastStream.tla`, `X16rs.tla`, `MCX16rs.tla`, `X16rsProofs.tla`, `X16rsDigestProofs.tla`: the C hash library

`HashPadding` is the abstract side: which blocks a message of n bytes turns into, and which counter or flag is compressed
with each, function by function (`Standard`). `HashStream` is the portable build: for each of the seventeen functions its
context, the loop of its update (one turn per step) and its close. `FastStream` is the build with `USE_NEW_ALGO`, with
other loops, counters and paddings for twelve of them. `X16rs` opens a function and feeds it, or runs the chain
`c_x16rs_hash`. A compression is the entry it adds to `out`: the values of bytes do not matter, their places do, and
memory nobody has written is a value of its own. That both builds compute the same compression function is assumed.

Words of counters are scaled (`Word`), so that a carry happens within a message of three blocks. Where the two builds or
a definition would part, the model says so in `Fits` and leaves the case out, because the program never meets it: it gives 32 bytes to
the sixteen chained functions, and whole messages to `sha3_256`. Left out this way are fast Groestl from 256 blocks on (its
count is one byte) or with one 16-byte unit left (`LastUnit`; it compares an index with the length of the whole message
and would write behind its buffer), fast JH beyond one word of bits, portable SIMD from 4096 blocks
(`encode_count_big`), and fast functions in parts they cannot take. `RoomAssumption` states the bounds on lengths among these:
a message is shorter than what the counters of its function can count. With the words of the code the closest is Groestl's byte.

The program gives each chained function its 32 bytes in one update, so that messages of other lengths and in pieces are what the library
offers and not what the node meets. Not modelled either is that the `jh_update` of fast JH, continuing a block, copies up to the end of its buffer and reads past
the caller's data when that is shorter (`jh_sse2.c:373`): what it reads is overwritten or not hashed, the digest does not depend on it, and one update alone never gets there.

### `Peers.tla`, `MCPeers.tla`, `PeersProofs.tla`: connections and tables

A connection is used once; a node that comes back is another connection with the same key. A step goes from one `await` to
the next, because these tasks share one thread; broadcasts run on another and read the two tables one after the
other.

| Action | Code |
|---|---|
| `Accept`, `DialBoot` | admission (`connect.rs`, `p2p.rs`, `dht.rs`): by distance, from backbone to offshoot to dropped |
| `FindNodes`, `TryFound`, `FailFound` | the search (`find.rs`) |
| `ReaderEnds`, `ReaderRemoves`, `TimerCloses`, `CheckActive`, `CloseSent` | the end of a connection: its task, its closing timer, silence, the close mark |
| `Reply`, `Replied`, `Hear`, `Submit`, `ReadBackbones`, `Pick`, `CastSend`, `CastSent`, `CastLost` | the slot of the write half (`send.rs`), known items and broadcasts (`broadcast.rs`) |

Distances are places in an order (`Distance`); the topology comparison itself is left out. `boost_public` is called
without `await` (`loop.rs:39`) and never runs, so nothing promotes an offshoot, and there is no such action.

### `Mining.tla`, `MCMining.tla`, `MiningProofs.tla`: difficulty, its cache, and work for miners

A block is the sequence of what its chain holds, so every fork carries its own history. `Target` is `target.rs:7-40`
with the rounding of targets to a 32-bit number at a small width; `CycleBlock` reads the first block of a cycle through
the cache that is keyed by height alone.

| Action | Code |
|---|---|
| `SyncBlock`, `InsertBlock` | an insertion with `consensus` (`consensus.rs`) |
| `Announce`, `HandleSubmitted` | `handle_new_block` with `prepare`, which fills the cache before the block is anywhere |
| `Ask`, `Compare`, `Make` | a request to `miner_pending`, cut where it reads the head (`rpc/miner.rs`) |
| `Success` | `miner_success`: the first pending block of that height |

Left out: that a hash meets the difficulty it states, fast_sync, the transactions of a template, `miner_notice`, which only
reads. A solution that another template's transactions would make invalid does not occur.

### `Ledger.tla`, `MCLedger.tla`, `LedgerProofs.tla`: what transactions do

Every block in memory has a ledger made from its parent's, action by action (`do_check_insert`), while other threads test
transactions on the head's ledger (`try_execute_tx`). What all branches share is the store of smelt records, which a
mint writes while it is executed.

| Action | Code |
|---|---|
| `BeginInsert`, `InsertEnds`, `Pay`, `Refuse` | `execute/insert.rs:98-131`: initial balances, the coinbase, each transaction's actions, then its fee (`transaction/macro.rs:237-284`), the miner's share |
| `TakeState`, `BeginTest`, `TestEnds` | `try_execute_tx` (`engine/read.rs:35-46`): the head's ledger under one lock, its height under another, then the transaction with a zero block hash, which lets a diamond be minted at any height. Its refusal while the lock is busy leaves everything as it is and is no step |
| `TransferHac`, `TransferDiamonds` | `operate/hacash.rs`, `mint/action/diamond.rs`; `Drop` is `DiamondOwnedForm::drop` with its holes filled from the head of the list |
| `Mint`, `Inscribe`, `Clear` | `diamond_mint.rs`, `diamond_insc.rs` |
| `OpenChannel`, `CloseChannel` | `action/channel.rs`, `operate/channel.rs` |

Amounts are naturals in the smallest unit; a zhu, which the counts are kept in, is `Part` of them. `Zhu` is what
`to_zhu_unsafe() as u64` makes of an amount (`field/amount.rs:308-341`: a division of floats, then a cut). What is below a zhu does occur: `calculate_interest` works eight decimal
places below the unit of the amount (`coinbase/channel.rs:9-31`), and nine tenths of a fee have one place more than the fee. Interest is a parameter (`Grown`); if it gives less than was put in, the close is
refused. The reward is a constant. `Storable` are the balances of at most 12 bytes, beyond which `hac_add` and `hac_sub` fail
(`operate/hacash.rs:15`), `ZeroDigits` is whether a zero written with a digit occurs, which `is_positive` lets pass, and `BugTx`
the one transaction that may run twice (`transaction/macro.rs:253-258`).

`quiet` and `cuts` are auxiliary. Nine tenths of the fee of an inscription are burned too (`burn_90`), and no count has them: they are
in `quiet`. `cuts` says how many amounts were added to a count that keeps what the conversion cut of them. Nor has a count the balances the chain began
with. So the circulation `rpc/supply.rs` reports, rewards plus interest minus the two counts, is not the sum of all
balances, and `HacConserved` says by what it differs.

Left out: the `fast_sync` branch of `diamond_mint` (`diamond_mint.rs:131-182`), which skips the checks of the number, the previous block and the existence of
a diamond in blocks the node trusts.

## 3. Runs

| Run | Instance | Result |
|---|---|---|
| `engine_serial` | 1 caller, window 2, height 4, single blocks and batches (linked, unlinked, with a gap) | nine properties hold (22 141 states) |
| `engine_shared` | 2 callers (symmetric), window 1, height 3 | two properties hold (108 546 states) |
| `engine_kill` | 1 caller, window 1, kill at any step | `NoPanic` violated |
| `engine_race` | 2 callers, window 1, no kill | `NoPanic` violated |
| `txpool_blocks` | 5 packages of 4 transactions, groups of 2 and 1, one block thread | seven properties hold (402 354 states) |
| `txpool_order` | 12 packages, six alike that pay least (symmetric) and six of different fees, group of 11, no blocks | `DropsLowest` violated |
| `sync_catchup` | a public and a private peer, three chains of height 2 or 3, window 1, batches of one block | six properties hold (142 704 states) |
| `hash_streams` | seventeen functions, two builds, messages up to three blocks and a rest, chains of two rounds | two properties hold (73 580 states) |
| `peers_tables` | 5 connections of 4 nodes, two backbones, one offshoot, one item | six properties hold (384 117 states) |
| `mining_work` | two branches that differ in the first block of a cycle of 3, one request at a time, one solution | five properties hold (164 469 states) |
| `mining_cycle` | the same without the exception for a stale cache | `DemandsOwnTarget` violated |
| `ledger_chain` | 10 transactions, one of them with two fees, on 3 diamonds and a channel, forks up to height 4, window 3, ten units to a zhu, one thread that tests | three properties hold (556 600 states) |

Properties of `engine_serial`: the head stays in the tree and the window (`HeadInWindow`), every block
of the tree reads its own ledger (`TreeViews`), no position is held twice (`NoRepeat`), the head is
highest between calls (`HeadIsHighest`), the store always matches the tree (`StoreRebuildsHead`), nothing
panics (`NoPanic`), calls and starts end (`CallsReturn`) and `ForkChoice` is implemented.
They hold under the discipline the lock was meant to give. `engine_shared` shows what is left without it:
the roller's mutex keeps the head climbing and every store consistent with its own roll. Under
concurrency `NoRepeat`, `HeadInWindow` and `StoreRebuildsHead` fail; `engine_race` shows the worst
consequence. The violations are `findings` in `PROJECT.json`.

Properties of `txpool_blocks`: a transaction is there once (`OneOfEach`), groups keep their limit (`WithinSize`) and are
sorted (`BestFirst`), an insertion gives up only what pays least (`DropsLowest`), and what the chain has
already does not stay for ever (`StaleLeaves`), though a transaction may enter after its block was drained or its
block come by sync, never drained: only the next clean of its group takes it. `BestFirst` and `DropsLowest` are shown for groups too
short for the narrowed search only: `txpool_order` shows that with more than
ten entries, and the default limits are 100 and 200, order and drop go wrong. What survives is `LeavesForBetter`: even in a
disordered group an insertion removes a package only if the new one pays more and is in the pool afterwards (section 5 for any limit).

Properties of `sync_catchup`: heights and indexes of a hashes answer stay within it although the head moved since the
request (`ComparesWithinReply`); no request leaves a gap above the head (`AsksWithoutGap`); unless a sync outlasts
the hold there is one at a time (`HoldKeepsOneSync`); in a quiet environment syncing ends (`SyncEnds`), and a node that
connects afresh to a public peer gets at least as high as it (`FreshPeerCatchesUp`). Two cases must be left out of the last.
One is a fork deeper than the hashes compared. The other is `UncleInTheWay`: a node that took the first block of the peer's
branch earlier, by announcement, and kept it beside its head, asks for that branch and refuses its first
block as repetitive, and the batch with it (`insert.rs:87-93,158-161`), on every connection; it stays behind until another block
moves its head.

Properties of `hash_streams`: however a message is cut into updates, both builds compress the blocks, counters and
padding of the definition (`DigestIsStandard`), and no buffer is overrun (`TypeOK`).

Properties of `peers_tables`: removal goes by key, so a connection may take out the entry of another one of the same
node, but a node never has more entries than connections that will still take one out (`NoOrphanEntry`), and none stays
when they are gone (`DeadLeave`); the tables are in order (`NearestFirst`), no node is a backbone twice (`BackbonesDiffer`), and
nobody is sent an item twice although peers move between the tables while a broadcast reads them (`TellsOnce`).

Properties of `mining_work`: unless its cache holds a block that left the chain, the node demands of every block in the tree the
difficulty of that block's own chain (`OnlyStaleMisleads`); a pending block one above the head extends it
(`PendingOnHead`); what is solved on the head passes both checks (`OwnWorkCounts`); once the head stays, work is on it
(`WorkFollowsHead`). `mining_cycle` is the stale cache: A3 and B3 are synced, an announced A4 makes `prepare` read
A3, the first block of the cycle, into the cache; B4 and B5 switch the fork; of the block after B5 the node then demands the difficulty of a
cycle that began with A3.

Properties of `ledger_chain`: on every branch the HAC held and locked is what was begun with, rewarded and earned minus what was
burned, as the counts have it, to less than a zhu for each amount they took; the counts of open channels and of deposits, which are added and taken off
by the same conversion, are exact (`HacConserved`); a diamond's record, its
owner's list and balance and the number of diamonds agree, and each has a smelt record (`DiamondsAgree`);
nothing unsigned goes below zero, half-made and tested ledgers included (`TypeOK`). That the smelt record is the one of
the branch does not hold and is not claimed: the same diamond with a raised bid in a competing block, in a refused one or in a
test overwrites it, and the price of inscriptions with it (a hazard in `PROJECT.json`).

Bounds. The window (`unstable_block`, 4 by default) is 1 or 2 and the tree is higher than
twice that, so the root moves several times, with one child and with several, on either branch; fork switches
of depth one and two, uncles, repeated blocks and blocks refused at every check occur. The channel to the rolling
thread holds 1 as in the code. The channel of ten from the parser to the executing thread is taken as large enough:
it only delays the parser, which has no other effect.

In `txpool_blocks` a resubmission with another fee, a clash, a stale diamond, refusals for both reasons and a group at its
limit with better and worse newcomers occur; both spans are 1 (5 and 48 in the code), so both groups are cleaned after
every block; a block holds one transaction. `ShortRange` is the 10 of the code in every run, and twelve packages are the
fewest with which the search goes wrong. More block threads are covered by the proofs.

`sync_catchup` has chains long enough for a fork below the head, a batch that ends before the head of the peer,
a peer whose chain switches during a sync, and one whose chain shares nothing. `MaxHashes` is the 80 of the code and never reached; the window is
what cuts the compared hashes. In `hash_streams` updates end before, at and after each block size, and counters wrap after two
blocks. `Talks` and `Ends` of `peers_tables` name the connections that carry other traffic, fall silent or are ended by
their peer; the others end by admission or search only. `mining_work` covers one cycle change with both branches around it; its targets are
so small that those below 2^24, where the number's rounding is exact, are not reached. In `ledger_chain` three diamonds are minted before two of them
are moved from the middle and the end of a list; a channel is closed and opened again with interest in between; fees, costs and deposits that cannot be paid
are met, as are interest, burned costs and bids of a fraction of a zhu and balances that cannot be stored. Nine tenths of bids are burned from the first diamond on, inscriptions cost from the first on and may follow in the next block,
so that the rules of late diamonds are the ones checked.

Fairness. Weak fairness of the executing and of the rolling thread of each call and of the thread
that opens the engine: they are operating-system threads, never waiting for
anything but the roller's mutex and the channel. Nothing is assumed of callers or restarts. The mutex is
held for finitely many steps in each roll, and no run has a second call contending where liveness is checked.
`StaleLeaves` assumes none: it says what follows if cleans of the group go on being finished. `SyncHandler` assumes weak fairness of
the work of the node and its peers as a whole (messages are handled while there are any), and the environment becomes calm only by its own choice.
`Peers` assumes it of tasks that are ready and of close marks, which the runtime polls; `Mining` of a miner's requests (`poworker.rs` asks in
a loop) and their answers.

## 4. Mutants

Each property of a passing run has a mutated definition (`\* Mistake:` in the module) that breaks it: a root
that rolls one block late, a status not written on a switch of fork, a flush left out or overwriting, a
repeat check skipped, a lock released early, and so on.

## 5. Proofs

For every value of the constants, from the assumptions on them (the `ASSUME`s of each module) and the hypotheses named below.

For the engine, for every block tree, any window, any channel, any batch and kills at any step (`BlockAssumption` ...
`CallAssumption`: heights grow by one along `Prev`, batches are not empty, the null values differ from the real ones),
with any number of concurrent calls:

- `TypeCorrect`: `Spec => []TypeOK`. `TypeOK` alone is not inductive: it lets a thread be in the
  middle of a block with a null base. `TypeInv` adds `Pointers`: what a thread is about to follow is a
  chunk. It is proved in five parts (engine, store, executing thread, channel, rolling thread). `ViewType`
  needs that a bounded set of naturals has a greatest element (`NatMin`, `NatMax`), proved from the library's
  well-foundedness of `<`.
- `StoresTheHead`: `Spec => []StoresItsOwnHead`, by the invariant `StoreInv`: at most one call stores
  (`OneStores`), and the head is its chunk. This is the mutual exclusion of `klctx`.
- `HeadOnlyClimbs`: `Spec => HeadClimbs`.

- `ShapeAlways`: `Spec => []ShapeInv`. Every parent path is a chain of linked blocks, one per height, and the
  path of an ancestor is the part below it (`PathsAreChains`); a thread executes on the chunk of its block's
  parent (`BaseFits`, needed for the push to keep the chain); a finished call has empty channels
  (`NothingLeft`). Forks and rolls never disturb it.

For one call at a time (`OneCaller`, the discipline `isrlck` was meant to give), its executing and its
rolling thread still interleaved:

- `OneCallKeepsTheWindow` (`HeadInWindow`), `OneCallHighestHead` (`HeadIsHighest`), by the invariant `HeadInv`.
  The head alone says too little, because a roll drops every branch but one: why does it not drop
  the work under way? `HeadInv` adds that the chunks pushed and not yet rolled (`InFlight`) go up strictly,
  and the blocks still to execute go on above them (`Ascending`), that all of them are in the tree
  (`WorkInTree`), and that every other chunk is at most as high as the head (`RolledBelowHead`). It follows
  (`HigherFacts`) that a block that becomes the head is exactly one above it and that the rest of the work hangs from it, and
  (`NewRootFacts`) that the chunk the root moves to is found and one above the root: so
  `RollError` and `HeadGone` never happen (`NoRollError`), and the roll keeps what is in flight.
- `OneCallNoRepeat` (`NoRepeat`), by `ChildrenDiffer`: what `repeat_check` saw of the base's children
  still holds at the push, two lock sections later. With two callers it does not (section 3).

For one call at a time which no kill interrupts (`KillAnywhere = FALSE`; restarts between calls, data upgrades and
forks at any time remain), by the invariants `MemoryInv` and `StoredInv` of `ChainEngineStore`:

- `OneCallTreeViews` (`TreeViews`). Reading climbs the living ancestors, so the inductive part is local
  (`MemoryFits`): the database is the ledger of the root, and each chunk holds exactly what its block wrote. Only the root's
  chunk may hold nothing, after a start. `ViewIs` adds these up along a path; a roll adds a memory to the database and takes
  its chunk off every path at once.
- `OneCallStoreRebuilds` (`StoreRebuildsHead`), `OneCallNoPanic` (`NoPanic`). While a store is under way a pointer or the status may be wrong, but
  then it is one this store has yet to write (`PointerPending`, `StatusPending`). Why does the rewrite of pointers
  after a fork stop at the root? Because below it all branches share the chain, whose pointers are right. A body is in the store, or its chunk is
  in flight (`BodiesStored`). During a rebuild (`RebuildStores`, `RebuildCall`) the stored chain is a chain of the tree and
  is not changed: each height loads, executes and rolls the block it did before, and every body and pointer it writes is there already.
- `OneCallImplements` (`ImplementsForkChoice`): the head mapped to `ForkChoice` is the engine's while it runs and the highest stored block
  while it rebuilds; `HeadStep` shows that a step leaves it or extends the chain as `Advance` allows, and
  `HeadReadsItself` that its view is its ledger. `engine_kill` and `engine_race` show that neither hypothesis can be dropped.

For the pool, for any packages, limits and number of block threads:

- `PoolTypeCorrect`, `PoolHoldsOneOfEach`, `PoolStaysWithinSize`: `TypeOK`, `OneOfEach` and `WithinSize` together are
  inductive (`Inv`). The work is in `InsertKeeps`, about one `TxGroup::insert`, which rests on what removal and insertion do
  to a sequence (`RemoveAtIs`, `InsertAtIs`), on where the search puts an entry (`PlaceIs`, least elements by the
  library's well-foundedness of `<`) and on removal of the old package leaving no other (`WithoutOldIs`).
- `PoolLeavesForBetter` (`LeavesForBetter`), for every limit, the default ones included, and for groups in whatever order. Wherever the
  search puts the new package, the group's last entry is what it gives up, and a full group took the new one only because it pays more than that
  entry; if the old package of the transaction goes, it paid less. That groups are sorted is not true (`txpool_order`) and not used.

For the sync handler, for any peers, trees, windows, lost messages and reconnections:

- `SyncTypeCorrect`, `NeverAsksBeyondNext` (`AsksWithoutGap`), `ComparesWhatWasSent` (`ComparesWithinReply`): the invariant
  `Inv` describes what can be under way in both channels of a peer: which requests (`AsksAt`), which answers (`TellsAt`,
  `Hashs`) and which batches (`BlocksAt`), each relative to a head that may have moved since. The properties
  only look at the first message, so alone they say nothing about the one behind it. `ComparesWhatWasSent` needs `Window < 255`:
  an answer holds `Window + 1` hashes and counts them in one byte.
- `OneSyncWithinHold` (`HoldKeepsOneSync`), by `HoldInv`: while the hold runs, at most one step of one sync is anywhere,
  in either channel of any peer or in the hands of the inserting thread; and whatever starts another one needs it over.

For the peer tables, for any connections, keys, distances and limits, and any interleaving at the awaits:

- `TablesWithinSize`, `TablesNearestFirst`, `BackbonesAlwaysDiffer`: what one admission or removal does to a table is
  `AdmitKeeps` and `RemovedKeeps`, which rest on the relation `Without` (one table is another without one entry).
- `NoEntryIsOrphaned` (`NoOrphanEntry`): entries are counted per key. The inductive part is that `Served`, the connections of a
  key whose task will still remove an entry, is finite and never smaller than `Entries`; a task that removes the
  entry of another connection of its node lowers both by one.
- `PeersTypeCorrect` (`TypeOK`), `NoneIsToldTwice` (`TellsOnce`): a broadcast reads the two tables one after the other, and
  between the reads a connection may move from one to the other. The invariant `CastInv` says of a broadcast that who is still to be told (`Told`) is
  a connection, once, and never one that was told. What it collects is a recursive function over a table (`Picked`);
  that it exists and what it returns (`CollectsExists`, `PickedIs`) is proved without induction over data, by the
  shortest prefix where it could fail.

For mining, for any cycle, any window shorter than it and any network:

- `OnlyStaleCacheMisleads` (`OnlyStaleMisleads`): by `TreeInv` the blocks of the tree share the chain up to the root of the
  head and none is higher than the head; so the first block of the cycle that has to be read is below that
  root, and the head's chain gives the same as the block's own. The window has to be shorter than a cycle.
- `WorkExtendsHead` (`PendingOnHead`), for one request at a time (`OneRequest`): a request reads the head three times. `RequestInv` says what is left
  of each reading: the height read is at most the head's, and what is pending when a new block is made is not above the head.
- `MiningTypeCorrect` (`TypeOK`), from `Powers`, the recursion that defines `2^n`, which the provers lack: what a 32-bit number loses of a target
  and what it keeps (`PowerSum`, `NumberIs`).
- `OwnSolutionsCount` (`OwnWorkCounts`): a solution on the head passes `prepare` and `consensus`, although since the template was made other threads
  used the cache. `OwnInv` says that the work that was given out has the difficulty that is still due on the head; `TargetKeeps`, that as long as the
  head stays whatever enters or leaves the cache (`CachingKeeps`, `PrepareKeeps`, `ConsensusKeeps`) leaves the block of the cycle that is needed what it
  was, since the window is shorter than a cycle. `SoundInv` gives the checks something to agree with: every block that was checked has the lowest difficulty
  in the first two cycles, later the one its cycle's first block leads to. Hypotheses: cycles are checked as a whole (`WholeCycles`: 200 cycles of 288 in `consensus.rs:9,34`), the
  stored chain was checked before (`SoundChain`), and no target underflows to zero (`NoneIsZero`), where the code takes a zero for the default.

For the ledger, for any addresses, transactions, blocks and forks:

- `LedgerTypeCorrect` (`TypeOK`), `LedgerConservesHac` (`HacConserved`), `LedgerDiamondsAgree` (`DiamondsAgree`), by one invariant, `TreeInv` and `JobInv`. The properties
  look at whole blocks only; in the middle of one the amounts do not add up, so `JobInv` says of each ledger under way by how much they differ and why
  (`Good`, `Funded`, `Pending`: rewards not yet paid out, fees already taken), and that a diamond half way between two owners is in one list. How far
  they may differ grows with each amount counted (`Spans`, `Gives`); a test between its two reads holds a ledger some block had (`Waiting`).
  Sums over all accounts are a recursive function over finite sets; that it exists and can be taken apart at any element (`SumOnStep`) is proved by the
  smallest set where it could fail. The hypothesis `ConversionsGood` says that `Zhu` is off by less than one zhu, and that interest gives an amount.
  The first holds of the code up to 2^52 zhu, twice what there will be of HAC: `to_f64`, the power of ten and the division round by some 2^-53 of the amount each, and the cast
  cuts the rest. It is a hypothesis and not an `ASSUME` because TLC cannot evaluate it for every amount.

For the hash streams, for messages and updates of any length and counters of any width:

- `StreamTypeCorrect` (`TypeOK`), by `TypeInv`. A buffer within its size is what keeps every later length in `Nat`, but the size of a buffer
  alone is not inductive: the close of fast JH and of fast SIMD computes from its counter how much the buffer holds, and the close of
  BLAKE subtracts from its counter. `Taking` says where in the message an open context is, so that those numbers agree.

- `DigestCorrect` (`DigestIsStandard`), in `X16rsDigestProofs`, by `DigestInv`. The property looks at a function that has returned;
  before that it says nothing. What an open stream and a close under way have in common is `Holds`: what was
  compressed is the first blocks of one sequence of bytes, each with its tweak, and the buffer and what is still to come are the
  rest of it. While the message comes in (`Consumed`) that sequence is the message; `Counted` has the counters at the length so
  far, and `KeptBack` says that Skein, which must know its last block, never empties its buffer again. Most closes compress what is left
  themselves (`Ended`); the others call update with their padding, and the sequence becomes `Padded` (`InClose`). What has to be
  shown of each close, in each build, is that the bytes it adds and the counters it leaves are the rest of `Padded` and of its tweaks, in one
  block or in two, which is where its cases part. BLAKE counts back before it calls, so that the loop counts up to
  the number the padded block is compressed with (`BlakePadding`). The assumptions are `WordAssumption` (a word counts whole blocks of bits
  where a function relies on it) and `RoomAssumption` (section 2); the hypothesis `LastUnit = FALSE` leaves out the message of fast
  Groestl with one 16-byte unit left, which the code pads wrongly.

Only model-checked: all liveness, `StaleLeaves` and `DeadLeave` with it, which is out of the prover's reach.

## 6. Not modelled

- Amounts and number formats, diamond names, genes, signatures and accounts: pure functions on byte strings, or calls into
  cryptographic libraries. `Ledger` takes an amount as a natural number, and of its format what bounds a balance (`Storable`).
- Compression functions. By lines most of the C code is these and their tables (`hamsi_helper.c` alone is 12 353 lines of
  constants, then the tables of Whirlpool, Groestl, Fugue and SHAvite, and `intrlv.h`, a library of lane shuffles). They are straight-line arithmetic on words, for which a model would be a second implementation, with
  nothing to choose between. What is modelled of the C code is everything around them that has state, so the map covers a
  small share of its lines.
- The mining workers, diamond bidding and RPC queries: numeric search, a loop over operations modelled elsewhere, and formatting.
- Node assembly, configuration, the SDK; the virtual machine, which refuses every transaction.
- Satoshi, which actions move and none creates; sub-chain and height-scope actions.
- The queues of recent blocks and average fees, which only listings and fee advice read.

## 7. Plan

1. `Ledger`: an abstract ledger it implements.
2. The RPC that raises a fee, and the reads of the pool by miner and bidder.
