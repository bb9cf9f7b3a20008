-------------------------- MODULE ChainEngineStore --------------------------
(***************************************************************************)
(* The invariants behind the theorems about what ChainEngine keeps, with   *)
(* one call at a time and no kill in its middle: the memories and the      *)
(* state database of a running node, its block store while a roll is being *)
(* stored, and a rebuild under way.                                        *)
(***************************************************************************)
EXTENDS ChainEngineSerial

-----------------------------------------------------------------------------
(* Memory.                                                                 *)

\* What executing b leaves in the memory of its chunk.
Mem(b) == [k \in Key |-> IF k \in Writes[b] THEN Ledger(b)[k] ELSE Absent]

\* The database is the ledger of the root, and a chunk holds what its block wrote;
\* the chunk of a start holds nothing.
MemoryFits ==
  /\ disk = Ledger(BlockOf(sroot))
  /\ \A n \in Tree : heap[n].mem = Mem(BlockOf(n)) \/ (n = sroot /\ heap[n].mem = NoWrites)
  /\ \A p \in Proc : epc[p] = "push" => delta[p] = Mem(Head(todo[p]))

\* Only chunks of the tree are held, so what hung below the root is dead.
PointersInTree ==
  \A p \in Proc :
    /\ rpc[p] \in {"idle", "recv"} => cur[p] = NoChunk
    /\ Storing(p) => cur[p] \in Tree \ InFlight(p)
    /\ rpc[p] \notin {"ptr", "status", "walk"} => walk[p] = NoChunk
    /\ rpc[p] \in {"ptr", "status", "walk"} => walk[p] \in Tree /\ walk[p] \in heap[cur[p]].path

\* What was executed was good; the first chunk may hold the genesis block, which
\* is not executed.
GoodBlocks ==
  /\ \A n \in Chunk : BlockOf(n) \notin Bad \ {Genesis}
  /\ \A p \in Proc : epc[p] = "push" => Head(todo[p]) \notin Bad
  /\ blockdata \intersect Bad \subseteq {Genesis}

\* What is in flight is rolled in order, parents first.
FlightClosed ==
  \A p \in Proc : \A x \in InFlight(p) : \A n \in Tree : x \in heap[n].path => n \in InFlight(p)

\* The body of a chunk is stored when its roll is.
BodiesStored ==
  \A n \in Tree :
    \/ BlockOf(n) = Genesis \/ BlockOf(n) \in blockdata
    \/ \E p \in Proc : n \in InFlight(p) \/ (rpc[p] = "data" /\ cur[p] = n)

\* What a store will do follows from what the roll did.
ChangeFits ==
  \A p \in Proc :
    /\ Storing(p) /\ chg[p].roll => chg[p].append
    /\ rpc[p] \in {"ptr", "status", "walk"} => chg[p].append
    /\ rpc[p] = "walk" => chg[p].switchfork

MemoryInv ==
  MemoryFits /\ PointersInTree /\ GoodBlocks /\ FlightClosed /\ BodiesStored /\ ChangeFits

-----------------------------------------------------------------------------
(* The block store.                                                        *)

\* The pointer of height h is right for the chain of b.
Points(h, b) == blockptr[h] \in Anc[b] \intersect blockdata /\ Height[blockptr[h]] = h

StoresChain(b) ==
  \A h \in Heights \ {0} :
    /\ h > Height[b] => blockptr[h] = NoBlock
    /\ h <= Height[b] => Points(h, b)

\* The height of the root under a head of height h.
Kept(h) == IF h >= UnstableBlock THEN h - UnstableBlock ELSE 0

\* A store under way has not yet written the pointer of a height, or the status.
PointerPending(h) ==
  \E p \in Proc :
    /\ Storing(p) /\ chg[p].append
    /\ \/ rpc[p] \in {"data", "ptr"} /\ h = HeightOf(scusp)
       \/ /\ chg[p].switchfork /\ HeightOf(sroot) <= h /\ h < HeightOf(scusp)
          /\ rpc[p] = "walk" => h < HeightOf(walk[p])
StatusPending == \E p \in Proc : rpc[p] \in {"data", "ptr", "status"} /\ chg[p].roll

RunStores ==
  mode = "run" =>
    /\ HeightOf(sroot) = Kept(HeightOf(scusp))
    /\ status = HeightOf(sroot) \/ StatusPending
    /\ \A h \in Heights \ {0} :
         /\ h > HeightOf(scusp) => blockptr[h] = NoBlock
         /\ h <= HeightOf(scusp) => Points(h, BlockOf(scusp)) \/ PointerPending(h)

\* The rebuild climbs the chain it finds, and changes nothing of it.
RebuildStores ==
  mode = "rebuild" =>
    /\ StoredHead \in Block /\ StoresChain(StoredHead) /\ BlockOf(scusp) \in Anc[StoredHead]
    /\ HeightOf(sroot) \in {Kept(HeightOf(scusp)), Kept(Height[StoredHead])}
    /\ status \in {HeightOf(sroot), Kept(Height[StoredHead])} \/ StatusPending

\* Its call has one block, which is first executed, then rolled, then stored.
Executes(p, b) == todo[p] = <<b>> /\ chan[p] = <<>> /\ rpc[p] = "recv"
Sends(p, b) ==
  todo[p] = <<>> /\ epc[p] = "idle" /\ Len(chan[p]) = 1 /\ BlockOf(chan[p][1]) = b /\ rpc[p] = "recv"
Takes(p, b) == todo[p] = <<>> /\ epc[p] = "idle" /\ chan[p] = <<>> /\ rpc[p] = "lock" /\ BlockOf(cur[p]) = b
Stores(p, b) ==
  /\ todo[p] = <<>> /\ epc[p] = "idle" /\ chan[p] = <<>>
  /\ \/ rpc[p] \in {"data", "ptr", "status"} /\ chg[p].append /\ ~chg[p].switchfork /\ cur[p] = scusp
     \/ rpc[p] = "recv"
  /\ BlockOf(scusp) = b
RebuildCall ==
  mode = "rebuild" =>
    /\ ~err[Boot]
    /\ ~Calling(Boot) => nexth = HeightOf(scusp) + 1
    /\ Calling(Boot) =>
         LET b == blockptr[nexth - 1] IN
         /\ nexth \in Nat \ {0, 1} /\ nexth - 1 \in Heights /\ nexth - 1 <= Height[StoredHead]
         /\ \/ (Executes(Boot, b) \/ Sends(Boot, b) \/ Takes(Boot, b)) /\ nexth = HeightOf(scusp) + 2
            \/ Stores(Boot, b)
    /\ epc[Boot] # "idle" => base[Boot] = scusp

StoredInv == NoPanic /\ RunStores /\ RebuildStores /\ RebuildCall
=============================================================================
