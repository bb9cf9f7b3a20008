------------------------- MODULE ChainEngineSerial -------------------------
(***************************************************************************)
(* The inductive invariants behind the theorems about ChainEngine: what    *)
(* holds of the tree whatever the calls, and what more holds while there   *)
(* is at most one call at a time, its executing and its rolling thread     *)
(* interleaved and the process killed at any step.                         *)
(***************************************************************************)
EXTENDS ChainEngine

OneCaller == \A p, q \in Caller : p = q

-----------------------------------------------------------------------------
(* The shape of the tree, for any number of calls.                         *)

\* The path of a chunk is a chain of blocks from the first chunk up to it, and
\* that of each of its ancestors is the part of the chain up to the ancestor.
PathsAreChains ==
  \A n \in Chunk :
    /\ 1 \in heap[n].path
    /\ \A a \in heap[n].path : heap[a].path = {x \in heap[n].path : x <= a}
    /\ \A a, b \in heap[n].path : a < b => HeightOf(a) < HeightOf(b)
    /\ \A h \in HeightOf(1)..HeightOf(n) : \E a \in heap[n].path : HeightOf(a) = h
    /\ \A a, b \in heap[n].path :
         HeightOf(b) = HeightOf(a) + 1 => BlockOf(b) # Genesis /\ Prev[BlockOf(b)] = BlockOf(a)

\* A thread executes the first block of its batch on the chunk of its parent.
BaseFits ==
  \A p \in Proc :
    /\ epc[p] # "idle" => BlockOf(base[p]) = Prev[Head(todo[p])]
    /\ epc[p] = "push" => Height[Head(todo[p])] = HeightOf(base[p]) + 1

\* A call that is over leaves nothing behind.
NothingLeft ==
  \A p \in Proc :
    /\ epc[p] = "idle" => base[p] = NoChunk
    /\ ~Calling(p) => todo[p] = <<>> /\ epc[p] = "idle" /\ chan[p] = <<>>

ShapeInv == PathsAreChains /\ BaseFits /\ NothingLeft

-----------------------------------------------------------------------------
(* One call at a time.                                                     *)

OneCall ==
  /\ mode = "rebuild" => \A p \in Caller : ~Calling(p)
  /\ mode = "run" => ~Calling(Boot)

\* The chunks of a call that are in the tree and not rolled yet.
InFlight(p) ==
  {chan[p][i] : i \in DOMAIN chan[p]} \union (IF rpc[p] = "lock" THEN {cur[p]} ELSE {})

\* A call works through ever higher blocks.
Ascending ==
  \A p \in Proc :
    /\ \A i, j \in DOMAIN chan[p] : i < j => HeightOf(chan[p][i]) < HeightOf(chan[p][j])
    /\ rpc[p] = "lock" => \A i \in DOMAIN chan[p] : HeightOf(cur[p]) < HeightOf(chan[p][i])
    /\ \A x \in InFlight(p) : \A i \in DOMAIN todo[p] : HeightOf(x) < Height[todo[p][i]]
    /\ \A i, j \in DOMAIN todo[p] : i < j => Height[todo[p][i]] < Height[todo[p][j]]

\* What a call works on is never dropped from the tree under it.
WorkInTree ==
  \A p \in Proc :
    /\ InFlight(p) \subseteq Tree
    /\ epc[p] # "idle" => base[p] \in Tree

\* A chunk of the tree that is not on its way to do_roll is not above the head.
RolledBelowHead ==
  \A n \in Tree : HeightOf(n) <= HeightOf(scusp) \/ \E p \in Proc : n \in InFlight(p)

NoneBroken == \A p \in Proc : rpc[p] # "broken"

HeadInv == OneCall /\ Ascending /\ WorkInTree /\ RolledBelowHead /\ HeadInWindow /\ NoneBroken

\* No chunk has two children of one block, nor the block about to be pushed.
ChildrenDiffer ==
  /\ \A n \in Chunk : \A j, k \in Children(n) : BlockOf(j) = BlockOf(k) => j = k
  /\ \A p \in Proc : epc[p] \in {"exec", "push"} =>
       \A k \in Children(base[p]) : BlockOf(k) # Head(todo[p])
=============================================================================
