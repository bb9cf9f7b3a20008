---------------------------- MODULE ChainEngine ----------------------------
(***************************************************************************)
(* The block engine of a full node (src/src/chain/engine, chain/roller,    *)
(* core/state): the tree of unstable blocks kept in memory, the key-value  *)
(* state of every block of that tree (an overlay over one state database), *)
(* the head and the root of the tree, the block store, and the three ways  *)
(* in: insert (one block), insert_sync (a batch, executed by one thread    *)
(* and rolled by another) and the rebuild that runs when the node starts.  *)
(*                                                                         *)
(* Memory is modelled with its ownership: a chunk owns its children, its   *)
(* link to its parent is weak, and so is the roller's link to the head.    *)
(***************************************************************************)
EXTENDS Naturals, Sequences, FiniteSets

CONSTANTS
  Block,          \* every block anyone may deliver
  Genesis,
  Prev,           \* Prev[b]: the block whose hash b names as its prevhash
  Height,
  Anc,            \* Anc[b]: b and every block below it
  Key,            \* the keys of the chain state
  Writes,         \* Writes[b]: the keys that executing b writes
  Spends,         \* the blocks with a transaction besides the coinbase
  Bad,            \* the blocks do_check_insert refuses on any base
  Batch,          \* what one call may carry: a sequence of blocks
  Caller,         \* the threads of the running node that insert blocks
  Boot,           \* the thread that rebuilds the tree when the node starts
  NoBlock,
  Absent,         \* what a memory holds for a key nobody wrote to it
  UnstableBlock,  \* EngineConf.unstable_block
  ChanCap,        \* the bound of the channel from execution to roll_store
  KillAnywhere    \* TRUE: the process may be killed between any two steps

Proc == Caller \union {Boot}
Heights == {Height[b] : b \in Block}

ASSUME BlockAssumption ==
  /\ Genesis \in Block /\ NoBlock \notin Block
  /\ Prev \in [Block -> Block]
  /\ Height \in [Block -> Nat] /\ Height[Genesis] = 0
  /\ \A b \in Block \ {Genesis} : Height[b] = Height[Prev[b]] + 1

ASSUME AncAssumption ==
  /\ Anc \in [Block -> SUBSET Block]
  /\ Anc[Genesis] = {Genesis}
  /\ \A b \in Block \ {Genesis} : Anc[b] = Anc[Prev[b]] \union {b}
  /\ \A b \in Block : \A a \in Anc[b] : Height[a] = Height[b] => a = b
  /\ \A b \in Block : \A a \in Anc[b] : Height[a] <= Height[b]

ASSUME StateAssumption ==
  /\ Writes \in [Block -> SUBSET Key] /\ Writes[Genesis] = {}
  /\ Spends \subseteq Block /\ Bad \subseteq Block
  /\ \A S \in SUBSET Block : S # Absent

ASSUME CallAssumption ==
  /\ Batch \subseteq Seq(Block) /\ \A s \in Batch : s # <<>>
  /\ Boot \notin Caller
  /\ UnstableBlock \in Nat /\ ChanCap \in Nat /\ KillAnywhere \in BOOLEAN

VARIABLES
  heap,       \* every chunk made since the node started, in order
  sroot,      \* BlockRoller.sroot: the root of the tree (a strong pointer)
  scusp,      \* BlockRoller.scusp: the head of the chain (a weak pointer)
  disk,       \* the state database
  blockdata,  \* the block store: the blocks whose body is stored,
  blockptr,   \*   the block stored for each height,
  status,     \*   and StoreStatus.root_height
  mode,       \* "rebuild", "run", or "panic"
  nexth,      \* the next height the rebuild asks the store for
  todo,       \* per call: the blocks not yet executed
  epc,        \* per call: where exec_state is with the first of them
  base,       \* per call: the chunk it extends (held), 0 when none
  delta,      \* per call: what the executed block writes
  chan,       \* per call: chunks on their way to roll_store
  rpc,        \* per call: where the rolling thread is
  cur,        \* per call: the chunk it handles (held), 0 when none
  walk,       \* per call: how far the rewriting of pointers has come
  chg,        \* per call: RollerChangeStatus
  err         \* per call: an error was reported

engineVars == <<heap, sroot, scusp, disk>>
storeVars  == <<blockdata, blockptr, status>>
nodeVars   == <<mode, nexth>>
execVars   == <<todo, epc, base, delta>>
rollVars   == <<rpc, cur, walk, chg>>
vars == <<engineVars, storeVars, nodeVars, execVars, rollVars, chan, err>>

-----------------------------------------------------------------------------
(* The tree and its memory. A chunk is its index in heap; path holds the   *)
(* chunk and all those it hangs from through parent links.                 *)

Chunk == DOMAIN heap
BlockOf(n) == heap[n].block
HeightOf(n) == Height[BlockOf(n)]
NoChunk == 0

NoWrites == [k \in Key |-> Absent]

Tree == {n \in Chunk : sroot \in heap[n].path}

Children(n) == {k \in Chunk : n \in heap[k].path /\ HeightOf(k) = HeightOf(n) + 1}

\* The chunks some strong pointer outside the tree refers to.
Held == {sroot} \union {base[p] : p \in Proc} \union {cur[p] : p \in Proc}
          \union {walk[p] : p \in Proc}
          \union UNION {{chan[p][i] : i \in DOMAIN chan[p]} : p \in Proc}

\* Weak::upgrade succeeds: a chunk lives while it, or one it hangs from, is held.
Alive(n) == heap[n].path \intersect Held # {}

\* The parent of n, in a set: empty when the weak link is dead.
LiveParent(n) == {a \in heap[n].path \ {n} : HeightOf(a) + 1 = HeightOf(n) /\ Alive(a)}

(* ChainState::get_at: the nearest of n and its living ancestors that has  *)
(* the key in its own memory answers, else the database.                   *)
Writers(n, k) == {a \in heap[n].path : (a = n \/ Alive(a)) /\ heap[a].mem[k] # Absent}

View(n) ==
  [k \in Key |->
     IF Writers(n, k) = {} THEN disk[k]
     ELSE LET w == CHOOSE a \in Writers(n, k) : \A x \in Writers(n, k) : x <= a
          IN heap[w].mem[k]]

\* What a key holds is abstracted to the blocks that wrote it.
Ledger(b) == [k \in Key |-> {a \in Anc[b] : k \in Writes[a]}]

\* The depth-first search visits c before d: the first fork between them decides.
Before(c, d) ==
  \E x \in heap[c].path \ heap[d].path :
     \A y \in heap[d].path \ heap[c].path : x < y

BaseChunks(b) ==
  LET found == {n \in Tree : BlockOf(n) = b}
  IN IF Alive(scusp) /\ BlockOf(scusp) = b THEN {scusp}
     ELSE {n \in found : \A m \in found \ {n} : Before(n, m)}

-----------------------------------------------------------------------------
(* The roller's lock (klctx) is held from do_roll to the end of do_store.  *)

Storing(p) == rpc[p] \in {"data", "ptr", "status", "walk"}
\* Mistake: the lock is dropped once the body is stored.
LockedUntilData == \E p \in Proc : rpc[p] = "data"

Locked == \E p \in Proc : Storing(p)
Calling(p) == rpc[p] # "idle"
Up == mode # "panic"

Base(b) == <<[block |-> b, path |-> {1}, mem |-> NoWrites]>>
NoChange == [append |-> FALSE, roll |-> FALSE, switchfork |-> FALSE]

Each(v) == [p \in Proc |-> v]

NoCalls ==
  /\ todo = Each(<<>>) /\ epc = Each("idle") /\ base = Each(NoChunk) /\ delta = Each(NoWrites)
  /\ rpc = Each("idle") /\ cur = Each(NoChunk) /\ walk = Each(NoChunk) /\ chg = Each(NoChange)
  /\ chan = Each(<<>>) /\ err = Each(FALSE)

CallsLost ==
  /\ todo' = Each(<<>>) /\ epc' = Each("idle") /\ base' = Each(NoChunk) /\ delta' = Each(NoWrites)
  /\ rpc' = Each("idle") /\ cur' = Each(NoChunk) /\ walk' = Each(NoChunk) /\ chg' = Each(NoChange)
  /\ chan' = Each(<<>>) /\ err' = Each(FALSE)

Init ==
  /\ heap = Base(Genesis) /\ sroot = 1 /\ scusp = 1
  /\ disk = [k \in Key |-> {}]
  /\ blockdata = {} /\ blockptr = [h \in Heights |-> NoBlock] /\ status = 0
  /\ mode = "rebuild" /\ nexth = 1
  /\ NoCalls

-----------------------------------------------------------------------------
(* A call. The parser lets through the blocks of consecutive heights.      *)

Consecutive(s, n) == \A i \in 1..n : Height[s[i]] = Height[s[1]] + i - 1

Enter(p, blocks) ==
  /\ todo' = [todo EXCEPT ![p] = blocks]
  /\ rpc' = [rpc EXCEPT ![p] = "recv"]
  /\ UNCHANGED <<engineVars, storeVars, epc, base, delta, chan, cur, walk, chg, err>>

Call(p) ==
  /\ mode = "run" /\ p \in Caller /\ rpc[p] = "idle"
  /\ \E s \in Batch : \E n \in 1..Len(s) :
       /\ Consecutive(s, n) /\ (n < Len(s) => ~Consecutive(s, n + 1))
       /\ Enter(p, SubSeq(s, 1, n))
  /\ UNCHANGED nodeVars

(* exec_state gives up on a block: nothing after it is executed either.    *)
\* Mistake: the executing thread tries the same block again.
ExecErrorRetries(p) ==
  /\ epc' = [epc EXCEPT ![p] = "idle"]
  /\ base' = [base EXCEPT ![p] = NoChunk]
  /\ err' = [err EXCEPT ![p] = TRUE]
  /\ UNCHANGED <<todo, delta>>

ExecError(p) ==
  /\ todo' = [todo EXCEPT ![p] = <<>>]
  /\ epc' = [epc EXCEPT ![p] = "idle"]
  /\ base' = [base EXCEPT ![p] = NoChunk]
  /\ err' = [err EXCEPT ![p] = TRUE]
  /\ UNCHANGED delta

\* Under the roller's lock: find the chunk to extend. The executing thread is
\* blocked in send while more chunks wait than the channel holds.
Locate(p) ==
  /\ Up /\ ~Locked /\ epc[p] = "idle" /\ todo[p] # <<>> /\ Len(chan[p]) <= ChanCap
  /\ \/ /\ BaseChunks(Prev[Head(todo[p])]) = {}
        /\ ExecError(p)
     \/ /\ \E n \in BaseChunks(Prev[Head(todo[p])]) : base' = [base EXCEPT ![p] = n]
        /\ epc' = [epc EXCEPT ![p] = "repeat"]
        /\ UNCHANGED <<todo, delta, err>>
  /\ UNCHANGED <<engineVars, storeVars, nodeVars, rollVars, chan>>

\* Mistake: the children of the base are not searched.
CheckRepeatSkipped(p) ==
  /\ Up /\ epc[p] = "repeat"
  /\ epc' = [epc EXCEPT ![p] = "exec"]
  /\ UNCHANGED <<todo, base, delta, err>>
  /\ UNCHANGED <<engineVars, storeVars, nodeVars, rollVars, chan>>

\* Without it: refuse a block the base already has as a child.
CheckRepeat(p) ==
  /\ Up /\ epc[p] = "repeat"
  /\ IF \E k \in Children(base[p]) : BlockOf(k) = Head(todo[p])
     THEN ExecError(p)
     ELSE epc' = [epc EXCEPT ![p] = "exec"] /\ UNCHANGED <<todo, base, delta, err>>
  /\ UNCHANGED <<engineVars, storeVars, nodeVars, rollVars, chan>>

\* do_check_insert refuses a block: for itself, for its height, or because the
\* state it runs on already has its transactions.
Refused(b, n) ==
  \/ b \in Bad
  \/ Height[b] # HeightOf(n) + 1
  \/ b \in Spends /\ \E k \in Writes[b] : b \in View(n)[k]

Execute(p) ==
  LET b == Head(todo[p]) IN
  /\ Up /\ epc[p] = "exec"
  /\ IF Refused(b, base[p])
     THEN ExecError(p)
     ELSE /\ delta' = [delta EXCEPT ![p] =
                         [k \in Key |-> IF k \in Writes[b] THEN View(base[p])[k] \union {b}
                                        ELSE Absent]]
          /\ epc' = [epc EXCEPT ![p] = "push"]
          /\ UNCHANGED <<todo, base, err>>
  /\ UNCHANGED <<engineVars, storeVars, nodeVars, rollVars, chan>>

\* Hang the new chunk under its base and send it on.
Push(p) ==
  LET n == Len(heap) + 1 IN
  /\ Up /\ epc[p] = "push"
  /\ heap' = Append(heap, [block |-> Head(todo[p]),
                           path |-> heap[base[p]].path \union {n},
                           mem |-> delta[p]])
  /\ chan' = [chan EXCEPT ![p] = Append(@, n)]
  /\ todo' = [todo EXCEPT ![p] = Tail(@)]
  /\ epc' = [epc EXCEPT ![p] = "idle"]
  /\ base' = [base EXCEPT ![p] = NoChunk]
  /\ delta' = [delta EXCEPT ![p] = NoWrites]
  /\ UNCHANGED <<sroot, scusp, disk, storeVars, nodeVars, rollVars, err>>

Recv(p) ==
  /\ Up /\ rpc[p] = "recv" /\ chan[p] # <<>>
  /\ cur' = [cur EXCEPT ![p] = Head(chan[p])]
  /\ chan' = [chan EXCEPT ![p] = Tail(@)]
  /\ rpc' = [rpc EXCEPT ![p] = "lock"]
  /\ UNCHANGED <<engineVars, storeVars, nodeVars, execVars, walk, chg, err>>

-----------------------------------------------------------------------------
(* do_roll, under the roller's lock.                                       *)

Rolling(p) == Up /\ ~Locked /\ rpc[p] = "lock"

StartStore(p, change) ==
  /\ chg' = [chg EXCEPT ![p] = change]
  /\ rpc' = [rpc EXCEPT ![p] = "data"]
  /\ UNCHANGED <<heap, storeVars, nodeVars, execVars, cur, walk, chan, err>>

\* scusp.upgrade().unwrap() panics, and so does every later lock().unwrap().
HeadGone(p) ==
  /\ Rolling(p) /\ ~Alive(scusp)
  /\ mode' = "panic"
  /\ UNCHANGED <<engineVars, storeVars, nexth, execVars, rollVars, chan, err>>

\* Mistake: a block one above the head counts as an uncle.
UncleOneTooHigh(p) ==
  /\ Rolling(p) /\ Alive(scusp) /\ HeightOf(cur[p]) <= HeightOf(scusp) + 1
  /\ StartStore(p, NoChange)
  /\ UNCHANGED <<sroot, scusp, disk>>

Uncle(p) ==
  /\ Rolling(p) /\ Alive(scusp) /\ HeightOf(cur[p]) <= HeightOf(scusp)
  /\ StartStore(p, NoChange)
  /\ UNCHANGED <<sroot, scusp, disk>>

\* Mistake: a block as high as the head replaces it.
HigherOrEqual(p) == Rolling(p) /\ Alive(scusp) /\ HeightOf(cur[p]) >= HeightOf(scusp)

Higher(p) == Rolling(p) /\ Alive(scusp) /\ HeightOf(cur[p]) > HeightOf(scusp)
\* Mistake: the root waits for one more block.
DeepOneLate(p) == HeightOf(cur[p]) > HeightOf(sroot) + UnstableBlock + 1

Deep(p) == HeightOf(cur[p]) > HeightOf(sroot) + UnstableBlock

Change(p, roll) ==
  [append |-> TRUE, roll |-> roll, switchfork |-> BlockOf(scusp) # Prev[BlockOf(cur[p])]]

NewHead(p) ==
  /\ Higher(p) /\ ~Deep(p)
  /\ scusp' = cur[p]
  /\ StartStore(p, Change(p, FALSE))
  /\ UNCHANGED <<sroot, disk>>

\* Mistake: any child of the root becomes the root.
NewRootsAnyChild(n) == Children(sroot)

\* The only child of the root, else the chunk UnstableBlock links above n.
NewRoots(n) ==
  IF Cardinality(Children(sroot)) = 1 THEN Children(sroot)
  ELSE {a \in heap[n].path : HeightOf(a) + UnstableBlock = HeightOf(n) /\ Alive(a)}

\* Mistake: the new root's memory is not flushed.
FlushedNot(n) == disk

Flushed(n) ==
  [k \in Key |-> IF heap[n].mem[k] = Absent THEN disk[k] ELSE heap[n].mem[k]]

NewHeadAndRoot(p) ==
  /\ Higher(p) /\ Deep(p)
  /\ \E r \in NewRoots(cur[p]) :
       /\ HeightOf(r) = HeightOf(sroot) + 1
       /\ sroot' = r
       /\ disk' = Flushed(r)
  /\ scusp' = cur[p]
  /\ StartStore(p, Change(p, TRUE))

\* "cannot find the base root chunk" / "root chunk height error": the head has
\* moved, nothing is stored, and the rolling thread leaves its loop.
RollError(p) ==
  /\ Higher(p) /\ Deep(p)
  /\ \A r \in NewRoots(cur[p]) : HeightOf(r) # HeightOf(sroot) + 1
  /\ scusp' = cur[p]
  /\ rpc' = [rpc EXCEPT ![p] = "broken"]
  /\ cur' = [cur EXCEPT ![p] = NoChunk]
  /\ err' = [err EXCEPT ![p] = TRUE]
  /\ UNCHANGED <<heap, sroot, disk, storeVars, nodeVars, execVars, walk, chg, chan>>

-----------------------------------------------------------------------------
(* do_store: one database write after another, none of them batched.       *)

StoreStep(p, at, next) ==
  /\ Up /\ rpc[p] = at
  /\ rpc' = [rpc EXCEPT ![p] = next]
  /\ IF next = "recv"
     THEN /\ cur' = [cur EXCEPT ![p] = NoChunk] /\ walk' = [walk EXCEPT ![p] = NoChunk]
          /\ chg' = [chg EXCEPT ![p] = NoChange]
     ELSE walk' = [walk EXCEPT ![p] = cur[p]] /\ UNCHANGED <<cur, chg>>
  /\ UNCHANGED <<engineVars, nodeVars, execVars, chan, err>>

\* Mistake: a switch of fork rewrites no pointers.
AfterStatusNoSwitch(p) == "recv"

AfterStatus(p) == IF chg[p].switchfork THEN "walk" ELSE "recv"
\* Mistake: a switch of fork skips the status.
AfterPtrNoStatus(p) ==
  IF chg[p].switchfork THEN "walk" ELSE IF chg[p].roll THEN "status" ELSE "recv"

AfterPtr(p) == IF chg[p].roll THEN "status" ELSE AfterStatus(p)
AfterData(p) == IF chg[p].append THEN "ptr" ELSE "recv"

PutBlockData(p) ==
  /\ StoreStep(p, "data", AfterData(p))
  /\ blockdata' = blockdata \union {BlockOf(cur[p])}
  /\ UNCHANGED <<blockptr, status>>

PutBlockPtr(p) ==
  /\ StoreStep(p, "ptr", AfterPtr(p))
  /\ blockptr' = [blockptr EXCEPT ![HeightOf(cur[p])] = BlockOf(cur[p])]
  /\ UNCHANGED <<blockdata, status>>

PutStatus(p) ==
  /\ StoreStep(p, "status", AfterStatus(p))
  /\ status' = HeightOf(sroot)
  /\ UNCHANGED <<blockdata, blockptr>>

\* A switch of fork: rewrite the pointers from the new head down the living parents.
RewritePtr(p) ==
  /\ Up /\ rpc[p] = "walk"
  /\ \E a \in LiveParent(walk[p]) :
       /\ blockptr' = [blockptr EXCEPT ![HeightOf(a)] = BlockOf(a)]
       /\ walk' = [walk EXCEPT ![p] = a]
  /\ UNCHANGED <<engineVars, blockdata, status, nodeVars, execVars, rpc, cur, chg, chan, err>>

EndRewrite(p) ==
  /\ rpc[p] = "walk" /\ LiveParent(walk[p]) = {}
  /\ StoreStep(p, "walk", "recv")
  /\ UNCHANGED storeVars

-----------------------------------------------------------------------------
(* The end of a call: every thread of it has left its loop. After a roll   *)
(* error nobody receives, so a blocked sender stays blocked.               *)

Finished(p) ==
  /\ todo[p] = <<>> /\ epc[p] = "idle"
  /\ \/ rpc[p] = "recv" /\ chan[p] = <<>>
     \/ rpc[p] = "broken" /\ Len(chan[p]) <= ChanCap

Return(p) ==
  /\ Up /\ Finished(p)
  /\ rpc' = [rpc EXCEPT ![p] = "idle"]
  /\ chan' = [chan EXCEPT ![p] = <<>>]
  /\ err' = [err EXCEPT ![p] = FALSE]
  /\ mode' = IF p = Boot /\ err[p] THEN "panic" ELSE mode
  /\ UNCHANGED <<engineVars, storeVars, nexth, execVars, cur, walk, chg>>

-----------------------------------------------------------------------------
(* The start of the node.                                                  *)

Loadable(h) == h \in Heights /\ blockptr[h] \in blockdata

RebuildNext ==
  /\ mode = "rebuild" /\ rpc[Boot] = "idle" /\ Loadable(nexth)
  /\ Enter(Boot, <<blockptr[nexth]>>)
  /\ nexth' = nexth + 1
  /\ UNCHANGED mode

RebuildDone ==
  /\ mode = "rebuild" /\ rpc[Boot] = "idle" /\ ~Loadable(nexth)
  /\ mode' = "run"
  /\ UNCHANGED <<engineVars, storeVars, nexth, execVars, rollVars, chan, err>>

\* Mistake: the head is not set.
CreateHeadless(b) == heap' = Base(b) /\ sroot' = 1 /\ UNCHANGED scusp

\* BlockRoller::create
Create(b) == heap' = Base(b) /\ sroot' = 1 /\ scusp' = 1

\* load_base_block, or the genesis block when a new data version starts with an
\* empty state directory (wipe). All memory is lost; the databases stay.
Restart(wipe) ==
  /\ KillAnywhere \/ mode = "panic" \/ (mode = "run" /\ \A p \in Proc : ~Calling(p))
  /\ LET b == IF wipe \/ status = 0 THEN Genesis ELSE blockptr[status]
         ok == wipe \/ status = 0 \/ Loadable(status)
     IN /\ Create(IF ok THEN b ELSE Genesis)
        /\ mode' = IF ok THEN "rebuild" ELSE "panic"
        /\ nexth' = IF ok THEN Height[b] + 1 ELSE 1
  /\ disk' = IF wipe THEN [k \in Key |-> {}] ELSE disk
  /\ CallsLost
  /\ UNCHANGED storeVars

-----------------------------------------------------------------------------
ExecStep(p) == Locate(p) \/ CheckRepeat(p) \/ Execute(p) \/ Push(p)

RollStep(p) ==
  \/ Recv(p)
  \/ HeadGone(p) \/ Uncle(p) \/ NewHead(p) \/ NewHeadAndRoot(p) \/ RollError(p)
  \/ PutBlockData(p) \/ PutBlockPtr(p) \/ PutStatus(p) \/ RewritePtr(p) \/ EndRewrite(p)
  \/ Return(p)

Next ==
  \/ \E p \in Proc : Call(p) \/ ExecStep(p) \/ RollStep(p)
  \/ RebuildNext \/ RebuildDone
  \/ \E wipe \in BOOLEAN : Restart(wipe)

\* Every thread that can run does: those of a call, and the one that starts the node.
Fairness ==
  /\ \A p \in Proc : WF_vars(ExecStep(p)) /\ WF_vars(RollStep(p))
  /\ WF_vars(RebuildNext \/ RebuildDone)

Spec == Init /\ [][Next]_vars
FairSpec == Spec /\ Fairness
-----------------------------------------------------------------------------
(* Properties.                                                             *)

MemoryDB == [Key -> {Absent} \union SUBSET Block]
ChunkRecord == [block : Block, path : SUBSET Nat, mem : MemoryDB]

\* Every variable has the type its field has in the code.
TypeOK ==
  /\ heap \in Seq(ChunkRecord)
  /\ \A n \in Chunk : n \in heap[n].path /\ heap[n].path \subseteq 1..n
  /\ sroot \in Chunk /\ scusp \in Chunk
  /\ disk \in [Key -> SUBSET Block]
  /\ blockdata \subseteq Block
  /\ blockptr \in [Heights -> Block \union {NoBlock}]
  /\ status \in Heights
  /\ mode \in {"rebuild", "run", "panic"} /\ nexth \in Nat
  /\ todo \in [Proc -> Seq(Block)]
  /\ epc \in [Proc -> {"idle", "repeat", "exec", "push"}]
  /\ base \in [Proc -> Chunk \union {NoChunk}]
  /\ delta \in [Proc -> MemoryDB]
  /\ chan \in [Proc -> Seq(Chunk)]
  /\ rpc \in [Proc -> {"idle", "recv", "lock", "data", "ptr", "status", "walk", "broken"}]
  /\ cur \in [Proc -> Chunk \union {NoChunk}]
  /\ walk \in [Proc -> Chunk \union {NoChunk}]
  /\ chg \in [Proc -> [append : BOOLEAN, roll : BOOLEAN, switchfork : BOOLEAN]]
  /\ err \in [Proc -> BOOLEAN]

\* The head is in the tree the root owns, so every upgrade of the roller's weak
\* pointers (latest_block, state, do_roll) succeeds, and it is at most
\* UnstableBlock above the root: rolls keep up with the head.
HeadInWindow ==
  /\ scusp \in Tree
  /\ HeightOf(scusp) <= HeightOf(sroot) + UnstableBlock

\* Whatever was flushed, dropped or forked meanwhile, reading the state of any
\* block of the tree gives the ledger of exactly that block's chain.
TreeViews == \A n \in Tree : View(n) = Ledger(BlockOf(n))

\* No two children of a chunk are the same block, so a tree position is searched
\* and counted (do_roll asks whether the root has one child) once.
NoRepeat ==
  \A n \in Tree : \A j, k \in Children(n) : BlockOf(j) = BlockOf(k) => j = k

\* Between insertions the head is a highest block of the tree.
HeadIsHighest ==
  (\A p \in Proc : ~Calling(p)) => \A n \in Tree : HeightOf(n) <= HeightOf(scusp)

\* Between two stores of a running node the block store holds what a restart
\* needs to rebuild exactly this tree's head: the root's height, the body and
\* the pointer of every block from the root to the head, and no pointer above.
StoreRebuildsHead ==
  (mode = "run" /\ ~Locked) =>
    /\ status = HeightOf(sroot)
    /\ \A h \in Heights \ {0} :
         /\ h > HeightOf(scusp) => blockptr[h] = NoBlock
         /\ h <= HeightOf(scusp) => blockptr[h] \in Anc[BlockOf(scusp)] \intersect blockdata

\* The rebuild of a node that was not killed in the middle of an insertion never
\* panics with "rebuild block state error", and no unwrap of the head does.
NoPanic == mode # "panic"

\* However many calls run and wherever the process is killed: a call that stores
\* a new head stores it while it is the head, so the status it writes is that of
\* its own roll.
StoresItsOwnHead ==
  \A p \in Proc : Storing(p) /\ chg[p].append => scusp = cur[p]

\* Likewise: until a restart, the head changes only to a strictly higher block,
\* and never while a call is storing.
HeadClimbs ==
  [][(\A wipe \in BOOLEAN : ~Restart(wipe)) /\ scusp' # scusp
       => HeightOf(scusp)' > HeightOf(scusp) /\ ~Locked]_vars

\* Every insertion returns to its caller, and so does every opening of the engine.
CallsReturn ==
  /\ \A p \in Proc : Calling(p) ~> ~Calling(p)
  /\ mode = "rebuild" ~> mode = "run"

\* The engine implements ForkChoice. While the node rebuilds, its head is the
\* highest block the store points to.
TopHeight == CHOOSE h \in Heights :
  (h = 0 \/ blockptr[h] # NoBlock) /\ \A i \in Heights : i > h => blockptr[i] = NoBlock
StoredHead == IF TopHeight = 0 THEN Genesis ELSE blockptr[TopHeight]
HeadBlock == IF mode = "run" THEN BlockOf(scusp) ELSE StoredHead
HeadLedger == IF mode = "run" THEN View(scusp) ELSE Ledger(StoredHead)

Promise == INSTANCE ForkChoice WITH head <- HeadBlock, ledger <- HeadLedger
ImplementsForkChoice == Promise!Spec
=============================================================================
