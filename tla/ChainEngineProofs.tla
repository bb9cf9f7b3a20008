------------------------- MODULE ChainEngineProofs -------------------------
(* Theorems about ChainEngine, for every block tree, every number of calls  *)
(* in progress and every value of the other constants: first those that     *)
(* need nothing but ChainEngine; then the shape of the tree, and the head,  *)
(* the window and the children of a chunk for one call at a time; last,     *)
(* with one call at a time and no kill in its middle, what every block of   *)
(* the tree reads, what the store lets a restart rebuild, and that nothing  *)
(* panics, so the engine implements ForkChoice.                             *)
EXTENDS ChainEngineStore, TLAPS, SequenceTheorems, FiniteSetTheorems, WellFoundedInduction

(* A set of naturals has a least element, and a bounded one a greatest.     *)
LEMMA NatMin ==
  ASSUME NEW T \in SUBSET Nat, T # {}
  PROVE  \E x \in T : \A y \in T : x <= y
<1>1. IsWellFoundedOn(OpToRel(<, Nat), Nat)
  BY NatLessThanWellFounded
<1>2. PICK x \in T : \A y \in T : ~(<<y, x>> \in OpToRel(<, Nat))
  BY <1>1, WFMin
<1>3. \A y \in T : ~(y < x)
  BY <1>2 DEF OpToRel
<1> QED BY <1>3

LEMMA NatMax ==
  ASSUME NEW T \in SUBSET Nat, T # {}, NEW u \in Nat, \A x \in T : x <= u
  PROVE  \E x \in T : \A y \in T : y <= x
<1> DEFINE U == {n \in Nat : \A x \in T : x <= n}
<1>1. PICK m \in U : \A n \in U : m <= n
  BY NatMin
<1>2. m \in T
  <2>1. SUFFICES ASSUME m \notin T PROVE FALSE
    OBVIOUS
  <2>2. \A x \in T : x \in Nat /\ x < m
    BY <1>1, <2>1
  <2>3. PICK x \in T : TRUE
    OBVIOUS
  <2>4. m \in Nat /\ x \in Nat /\ x < m
    BY <2>2, <2>3
  <2>5. m - 1 \in Nat /\ ~(m <= m - 1)
    BY <2>4
  <2>6. \A y \in T : y <= m - 1
    BY <2>2, <2>4
  <2>7. m - 1 \in U
    BY <2>5, <2>6
  <2> QED BY <2>5, <2>7, <1>1
<1> QED BY <1>1, <1>2

-----------------------------------------------------------------------------
(* Type correctness. The pointers a thread follows are not null while it    *)
(* follows them.                                                            *)

Pointers ==
  \A p \in Proc :
    /\ epc[p] # "idle" => todo[p] # <<>> /\ base[p] \in Chunk
    /\ rpc[p] \in {"lock", "data", "ptr", "status", "walk"} => cur[p] \in Chunk
    /\ rpc[p] = "walk" => walk[p] \in Chunk

TypeInv == TypeOK /\ Pointers

LEMMA HeightType ==
  /\ \A b \in Block : Height[b] \in Nat /\ Height[b] \in Heights
  /\ Heights \subseteq Nat /\ 0 \in Heights /\ Genesis \in Block
  BY BlockAssumption DEF Heights

LEMMA ChunkType ==
  ASSUME TypeOK
  PROVE  /\ Len(heap) \in Nat /\ Chunk = 1..Len(heap) /\ Chunk \subseteq Nat /\ NoChunk \notin Chunk
         /\ \A n \in Chunk : /\ BlockOf(n) \in Block
                             /\ HeightOf(n) \in Nat /\ HeightOf(n) \in Heights
                             /\ heap[n].path \subseteq Chunk
                             /\ heap[n].mem \in MemoryDB
<1>1. heap \in Seq(ChunkRecord)
  BY DEF TypeOK
<1>2. Len(heap) \in Nat /\ DOMAIN heap = 1..Len(heap)
  BY <1>1, LenProperties
<1>3. \A n \in Chunk : heap[n] \in ChunkRecord
  BY <1>1, <1>2, ElementOfSeq DEF Chunk
<1>4. \A n \in Chunk : heap[n].block \in Block /\ heap[n].mem \in MemoryDB
  BY <1>3 DEF ChunkRecord
<1>5. \A n \in Chunk : heap[n].path \subseteq Chunk
  BY <1>2 DEF TypeOK, Chunk
<1> QED
  BY <1>2, <1>4, <1>5, HeightType DEF Chunk, BlockOf, HeightOf, NoChunk

(* Reading a state gives every key a set of blocks.                         *)
LEMMA ViewType ==
  ASSUME TypeOK, NEW n \in Chunk
  PROVE  View(n) \in [Key -> SUBSET Block]
<1> SUFFICES ASSUME NEW k \in Key
             PROVE  /\ Writers(n, k) = {} => disk[k] \in SUBSET Block
                    /\ Writers(n, k) # {} =>
                         heap[CHOOSE a \in Writers(n, k) : \A x \in Writers(n, k) : x <= a].mem[k]
                           \in SUBSET Block
  BY DEF View
<1>1. Writers(n, k) = {} => disk[k] \in SUBSET Block
  BY DEF TypeOK
<1>2. ASSUME Writers(n, k) # {}
      PROVE  heap[CHOOSE a \in Writers(n, k) : \A x \in Writers(n, k) : x <= a].mem[k]
               \in SUBSET Block
  <2> DEFINE W == Writers(n, k)
             w == CHOOSE a \in W : \A x \in W : x <= a
  <2>1. W \subseteq Chunk
    BY ChunkType DEF Writers
  <2>2. \E a \in W : \A x \in W : x <= a
    <3>1. W \in SUBSET Nat /\ W # {} /\ Len(heap) \in Nat
      BY <2>1, <1>2, ChunkType
    <3>2. \A x \in W : x <= Len(heap)
      BY <2>1, ChunkType
    <3> HIDE DEF W
    <3> QED BY <3>1, <3>2, NatMax
  <2>3. w \in W
    BY <2>2
  <2>4. heap[w].mem \in MemoryDB /\ heap[w].mem[k] # Absent
    BY <2>1, <2>3, ChunkType DEF Writers
  <2> QED
    BY <2>4 DEF MemoryDB
<1> QED BY <1>1, <1>2

LEMMA TypeInit == Init => TypeInv
<1> SUFFICES ASSUME Init PROVE TypeInv
  OBVIOUS
<1>1. /\ Base(Genesis) \in Seq(ChunkRecord)
      /\ DOMAIN Base(Genesis) = {1}
      /\ Base(Genesis)[1].path = {1}
  BY HeightType DEF Base, ChunkRecord, MemoryDB, NoWrites
<1> QED
  BY <1>1, HeightType, CallAssumption
  DEF Init, NoCalls, Each, TypeInv, TypeOK, Pointers, Chunk, NoChunk, NoWrites, NoChange, MemoryDB

LEMMA TypeRecord ==
  NoWrites \in MemoryDB /\ NoChange \in [append : BOOLEAN, roll : BOOLEAN, switchfork : BOOLEAN]
  BY DEF NoWrites, MemoryDB, NoChange

(* TypeInv in five parts, proved one by one where an action changes several. *)
TypeEngine ==
  /\ heap \in Seq(ChunkRecord)
  /\ \A n \in Chunk : n \in heap[n].path /\ heap[n].path \subseteq 1..n
  /\ sroot \in Chunk /\ scusp \in Chunk
  /\ disk \in [Key -> SUBSET Block]

TypeStore ==
  /\ blockdata \subseteq Block
  /\ blockptr \in [Heights -> Block \union {NoBlock}]
  /\ status \in Heights
  /\ mode \in {"rebuild", "run", "panic"} /\ nexth \in Nat

TypeExecThread ==
  /\ todo \in [Proc -> Seq(Block)]
  /\ epc \in [Proc -> {"idle", "repeat", "exec", "push"}]
  /\ base \in [Proc -> Chunk \union {NoChunk}]
  /\ delta \in [Proc -> MemoryDB]
  /\ \A p \in Proc : epc[p] # "idle" => todo[p] # <<>> /\ base[p] \in Chunk

TypeChan == chan \in [Proc -> Seq(Chunk)] /\ err \in [Proc -> BOOLEAN]

TypeRollThread ==
  /\ rpc \in [Proc -> {"idle", "recv", "lock", "data", "ptr", "status", "walk", "broken"}]
  /\ cur \in [Proc -> Chunk \union {NoChunk}]
  /\ walk \in [Proc -> Chunk \union {NoChunk}]
  /\ chg \in [Proc -> [append : BOOLEAN, roll : BOOLEAN, switchfork : BOOLEAN]]
  /\ \A p \in Proc :
       /\ rpc[p] \in {"lock", "data", "ptr", "status", "walk"} => cur[p] \in Chunk
       /\ rpc[p] = "walk" => walk[p] \in Chunk

LEMMA TypeParts ==
  TypeInv <=> TypeEngine /\ TypeStore /\ TypeExecThread /\ TypeChan /\ TypeRollThread
  BY DEF TypeInv, TypeOK, Pointers, TypeEngine, TypeStore, TypeExecThread, TypeChan, TypeRollThread

LEMMA TypePartsNext ==
  TypeInv' <=> TypeEngine' /\ TypeStore' /\ TypeExecThread' /\ TypeChan' /\ TypeRollThread'
  BY DEF TypeInv, TypeOK, Pointers, TypeEngine, TypeStore, TypeExecThread, TypeChan, TypeRollThread

(* A call delivers a non-empty sequence of blocks, so does the rebuild.     *)
LEMMA TypeEnter ==
  ASSUME TypeInv, NEW p \in Proc, rpc[p] = "idle",
         NEW s \in Seq(Block), s # <<>>, Enter(p, s),
         nexth' \in Nat, mode' \in {"rebuild", "run", "panic"}
  PROVE  TypeInv'
  BY DEF TypeInv, TypeOK, Pointers, Enter, engineVars, storeVars, Chunk

LEMMA EngineFrame ==
  ASSUME TypeEngine, UNCHANGED engineVars
  PROVE  TypeEngine' /\ Chunk' = Chunk
  BY DEF TypeEngine, engineVars, Chunk

LEMMA TypeExecError ==
  ASSUME TypeExecThread, TypeChan, NEW p \in Proc, ExecError(p), Chunk' = Chunk, UNCHANGED chan
  PROVE  TypeExecThread' /\ TypeChan'
  BY DEF ExecError, TypeExecThread, TypeChan

LEMMA TypeExec ==
  ASSUME TypeInv, NEW p \in Proc, ExecStep(p)
  PROVE  TypeInv'
<1> USE TypeParts, TypePartsNext
<1>1. CASE Locate(p)
  <2>1. TypeEngine' /\ Chunk' = Chunk
    BY <1>1, EngineFrame DEF Locate
  <2>2. TypeStore' /\ TypeRollThread'
    BY <1>1, <2>1 DEF Locate, storeVars, nodeVars, rollVars, TypeStore, TypeRollThread
  <2>3. CASE ExecError(p)
    BY <1>1, <2>1, <2>2, <2>3, TypeExecError DEF Locate
  <2>4. CASE ~ExecError(p)
    <3>1. PICK n \in BaseChunks(Prev[Head(todo[p])]) :
            /\ base' = [base EXCEPT ![p] = n]
            /\ epc' = [epc EXCEPT ![p] = "repeat"]
            /\ UNCHANGED <<todo, delta, err, chan>>
      BY <1>1, <2>4 DEF Locate
    <3>2. n \in Chunk
      BY <3>1 DEF BaseChunks, Tree, TypeEngine
    <3>3. todo[p] # <<>>
      BY <1>1 DEF Locate
    <3>4. TypeExecThread'
      BY <2>1, <3>1, <3>2, <3>3 DEF TypeExecThread
    <3>5. TypeChan'
      BY <2>1, <3>1 DEF TypeChan
    <3> QED BY <2>1, <2>2, <3>4, <3>5
  <2> QED BY <2>3, <2>4
<1>2. CASE CheckRepeat(p)
  <2>1. TypeEngine' /\ Chunk' = Chunk
    BY <1>2, EngineFrame DEF CheckRepeat
  <2>2. TypeStore' /\ TypeRollThread'
    BY <1>2, <2>1 DEF CheckRepeat, storeVars, nodeVars, rollVars, TypeStore, TypeRollThread
  <2>3. CASE ExecError(p)
    BY <1>2, <2>1, <2>2, <2>3, TypeExecError DEF CheckRepeat
  <2>4. CASE ~ExecError(p)
    <3>1. TypeExecThread' /\ TypeChan'
      BY <1>2, <2>1, <2>4 DEF CheckRepeat, TypeExecThread, TypeChan
    <3> QED BY <2>1, <2>2, <3>1
  <2> QED BY <2>3, <2>4
<1>3. CASE Execute(p)
  <2> DEFINE b == Head(todo[p])
             d == [k \in Key |-> IF k \in Writes[b] THEN View(base[p])[k] \union {b} ELSE Absent]
  <2>1. TypeEngine' /\ Chunk' = Chunk
    BY <1>3, EngineFrame DEF Execute
  <2>2. TypeStore' /\ TypeRollThread'
    BY <1>3, <2>1 DEF Execute, storeVars, nodeVars, rollVars, TypeStore, TypeRollThread
  <2>3. CASE ExecError(p)
    BY <1>3, <2>1, <2>2, <2>3, TypeExecError DEF Execute
  <2>4. CASE ~ExecError(p)
    <3>1. base[p] \in Chunk /\ b \in Block
      BY <1>3 DEF Execute, TypeExecThread
    <3>2. View(base[p]) \in [Key -> SUBSET Block]
      BY <3>1, ViewType DEF TypeInv
    <3>3. d \in MemoryDB
      BY <3>1, <3>2 DEF MemoryDB
    <3>4. /\ delta' = [delta EXCEPT ![p] = d]
          /\ epc' = [epc EXCEPT ![p] = "push"]
          /\ UNCHANGED <<todo, base, err, chan>>
      BY <1>3, <2>4 DEF Execute
    <3> HIDE DEF d
    <3>5. epc[p] = "exec"
      BY <1>3 DEF Execute
    <3>6. TypeExecThread'
      BY <2>1, <3>3, <3>4, <3>5 DEF TypeExecThread
    <3>7. TypeChan'
      BY <2>1, <3>4 DEF TypeChan
    <3> QED BY <2>1, <2>2, <3>6, <3>7
  <2> QED BY <2>3, <2>4
<1>4. CASE Push(p)
  <2> DEFINE n == Len(heap) + 1
             c == [block |-> Head(todo[p]), path |-> heap[base[p]].path \union {n}, mem |-> delta[p]]
  <2>1. base[p] \in Chunk /\ todo[p] \in Seq(Block) /\ todo[p] # <<>> /\ delta[p] \in MemoryDB
    BY <1>4 DEF Push, TypeExecThread
  <2>2. Len(heap) \in Nat /\ Chunk = 1..Len(heap) /\ heap \in Seq(ChunkRecord)
    BY ChunkType DEF TypeInv, TypeOK
  <2>3. heap[base[p]].path \subseteq 1..Len(heap)
    BY <2>1, <2>2, ChunkType DEF TypeInv
  <2>4. c \in ChunkRecord /\ c.path \subseteq 1..n /\ n \in c.path
    BY <2>1, <2>2, <2>3 DEF ChunkRecord
  <2> HIDE DEF c
  <2>5. heap' = Append(heap, c)
    BY <1>4 DEF Push, c
  <2>6. /\ heap' \in Seq(ChunkRecord) /\ Chunk' = 1..n /\ heap'[n] = c
        /\ \A m \in Chunk : heap'[m] = heap[m]
    BY <2>2, <2>4, <2>5, AppendProperties DEF Chunk
  <2>7. Chunk \subseteq Chunk' /\ Chunk' = Chunk \union {n}
    BY <2>2, <2>6
  <2>8. TypeEngine'
    <3>1. \A m \in Chunk' : m \in heap'[m].path /\ heap'[m].path \subseteq 1..m
      BY <2>4, <2>6, <2>7 DEF TypeEngine
    <3>2. UNCHANGED <<sroot, scusp, disk>>
      BY <1>4 DEF Push
    <3> QED BY <2>6, <2>7, <3>1, <3>2 DEF TypeEngine
  <2>9. TypeStore' /\ TypeRollThread'
    BY <1>4, <2>7 DEF Push, storeVars, nodeVars, rollVars, TypeStore, TypeRollThread
  <2>10. TypeChan'
    <3>1. chan[p] \in Seq(Chunk') /\ n \in Chunk'
      BY <2>7 DEF TypeChan
    <3>2. Append(chan[p], n) \in Seq(Chunk')
      BY <3>1, AppendProperties
    <3>3. \A q \in Proc : chan[q] \in Seq(Chunk')
      BY <2>7 DEF TypeChan
    <3>4. chan' = [chan EXCEPT ![p] = Append(chan[p], n)] /\ UNCHANGED err
      BY <1>4 DEF Push
    <3> HIDE DEF n
    <3> QED BY <3>2, <3>3, <3>4 DEF TypeChan
  <2>11. TypeExecThread'
    <3>1. Tail(todo[p]) \in Seq(Block)
      BY <2>1
    <3> QED BY <1>4, <2>7, <3>1, TypeRecord DEF Push, TypeExecThread
  <2> QED BY <2>8, <2>9, <2>10, <2>11
<1> QED BY <1>1, <1>2, <1>3, <1>4 DEF ExecStep

(* A step that stores leaves the engine and the executing threads alone.   *)
LEMMA TypeStoreStep ==
  ASSUME TypeInv, NEW p \in Proc, NEW next \in {"recv", "ptr", "status", "walk"},
         rpc[p] \in {"data", "ptr", "status", "walk"}, StoreStep(p, rpc[p], next)
  PROVE  /\ TypeEngine' /\ TypeExecThread' /\ TypeChan' /\ TypeRollThread'
         /\ UNCHANGED nodeVars
         /\ BlockOf(cur[p]) \in Block /\ HeightOf(cur[p]) \in Heights /\ HeightOf(sroot) \in Heights
         /\ sroot' = sroot /\ heap' = heap
<1> USE TypeParts
<1>1. TypeEngine' /\ Chunk' = Chunk
  BY EngineFrame DEF StoreStep
<1>2. TypeExecThread' /\ TypeChan'
  BY <1>1 DEF StoreStep, execVars, TypeExecThread, TypeChan
<1>3. cur[p] \in Chunk /\ sroot \in Chunk
  BY DEF TypeRollThread, TypeEngine
<1>4. TypeRollThread'
  BY <1>1, <1>3, TypeRecord DEF StoreStep, TypeRollThread
<1>5. UNCHANGED <<nodeVars, sroot, heap>>
  BY DEF StoreStep, engineVars
<1> QED BY <1>1, <1>2, <1>3, <1>4, <1>5, ChunkType DEF TypeInv

LEMMA TypeStartStore ==
  ASSUME TypeInv, NEW p \in Proc, rpc[p] = "lock",
         NEW change \in [append : BOOLEAN, roll : BOOLEAN, switchfork : BOOLEAN],
         StartStore(p, change)
  PROVE  TypeStore' /\ TypeExecThread' /\ TypeChan' /\ TypeRollThread' /\ heap' = heap
  BY TypeParts DEF StartStore, storeVars, nodeVars, execVars, TypeStore, TypeExecThread, TypeChan,
     TypeRollThread, Chunk

LEMMA TypeRoll ==
  ASSUME TypeInv, NEW p \in Proc, RollStep(p)
  PROVE  TypeInv'
<1> USE TypeParts, TypePartsNext
<1>1. CASE Recv(p)
  <2>1. TypeEngine' /\ Chunk' = Chunk
    BY <1>1, EngineFrame DEF Recv
  <2>2. TypeStore' /\ TypeExecThread'
    BY <1>1, <2>1 DEF Recv, storeVars, nodeVars, execVars, TypeStore, TypeExecThread
  <2>3. chan[p] \in Seq(Chunk) /\ chan[p] # <<>>
    BY <1>1 DEF Recv, TypeChan
  <2>4. Head(chan[p]) \in Chunk /\ Tail(chan[p]) \in Seq(Chunk)
    BY <2>3
  <2>5. TypeChan' /\ TypeRollThread'
    BY <1>1, <2>1, <2>4 DEF Recv, TypeChan, TypeRollThread
  <2> QED BY <2>1, <2>2, <2>5
<1>2. CASE HeadGone(p)
  BY <1>2 DEF HeadGone, TypeInv, TypeOK, Pointers, engineVars, storeVars, execVars, rollVars, Chunk
<1>3. CASE Uncle(p)
  <2>1. TypeStore' /\ TypeExecThread' /\ TypeChan' /\ TypeRollThread' /\ heap' = heap
    BY <1>3, TypeRecord, TypeStartStore DEF Uncle, Rolling
  <2>2. TypeEngine'
    BY <1>3, <2>1 DEF Uncle, TypeEngine, Chunk
  <2> QED BY <2>1, <2>2
<1>4. CASE NewHead(p)
  <2>1. cur[p] \in Chunk
    BY <1>4 DEF NewHead, Higher, Rolling, TypeRollThread
  <2>2. Change(p, FALSE) \in [append : BOOLEAN, roll : BOOLEAN, switchfork : BOOLEAN]
    BY DEF Change
  <2>3. TypeStore' /\ TypeExecThread' /\ TypeChan' /\ TypeRollThread' /\ heap' = heap
    BY <1>4, <2>2, TypeStartStore DEF NewHead, Higher, Rolling
  <2>4. TypeEngine'
    BY <1>4, <2>1, <2>3 DEF NewHead, TypeEngine, Chunk
  <2> QED BY <2>3, <2>4
<1>5. CASE NewHeadAndRoot(p)
  <2>1. cur[p] \in Chunk
    BY <1>5 DEF NewHeadAndRoot, Higher, Rolling, TypeRollThread
  <2>2. Change(p, TRUE) \in [append : BOOLEAN, roll : BOOLEAN, switchfork : BOOLEAN]
    BY DEF Change
  <2>3. TypeStore' /\ TypeExecThread' /\ TypeChan' /\ TypeRollThread' /\ heap' = heap
    BY <1>5, <2>2, TypeStartStore DEF NewHeadAndRoot, Higher, Rolling
  <2>4. PICK r \in NewRoots(cur[p]) : sroot' = r /\ disk' = Flushed(r)
    BY <1>5 DEF NewHeadAndRoot
  <2>5. r \in Chunk
    BY <2>1, <2>4, ChunkType DEF NewRoots, Children, TypeInv
  <2>6. Flushed(r) \in [Key -> SUBSET Block]
    <3>1. heap[r].mem \in MemoryDB
      BY <2>5, ChunkType DEF TypeInv
    <3> QED BY <3>1 DEF Flushed, MemoryDB, TypeEngine
  <2>7. scusp' = cur[p]
    BY <1>5 DEF NewHeadAndRoot
  <2>8. TypeEngine'
    BY <2>1, <2>3, <2>4, <2>5, <2>6, <2>7 DEF TypeEngine, Chunk
  <2> QED BY <2>3, <2>8
<1>6. CASE RollError(p)
  BY <1>6 DEF RollError, Higher, Rolling, TypeInv, TypeOK, Pointers, storeVars, nodeVars, execVars, Chunk
<1>7. CASE PutBlockData(p)
  BY <1>7, TypeStoreStep DEF PutBlockData, AfterData, nodeVars, TypeStore, StoreStep
<1>8. CASE PutBlockPtr(p)
  BY <1>8, TypeStoreStep DEF PutBlockPtr, AfterPtr, AfterStatus, nodeVars, TypeStore, StoreStep
<1>9. CASE PutStatus(p)
  BY <1>9, TypeStoreStep DEF PutStatus, AfterStatus, nodeVars, TypeStore, StoreStep
<1>10. CASE RewritePtr(p)
  <2>1. TypeEngine' /\ Chunk' = Chunk
    BY <1>10, EngineFrame DEF RewritePtr
  <2>2. TypeExecThread' /\ TypeChan'
    BY <1>10, <2>1 DEF RewritePtr, execVars, TypeExecThread, TypeChan
  <2>3. walk[p] \in Chunk /\ rpc[p] = "walk"
    BY <1>10 DEF RewritePtr, TypeRollThread
  <2>4. PICK a \in LiveParent(walk[p]) :
          /\ blockptr' = [blockptr EXCEPT ![HeightOf(a)] = BlockOf(a)]
          /\ walk' = [walk EXCEPT ![p] = a]
    BY <1>10 DEF RewritePtr
  <2>5. a \in Chunk /\ HeightOf(a) \in Heights /\ BlockOf(a) \in Block
    BY <2>3, <2>4, ChunkType DEF LiveParent, TypeInv
  <2>6. TypeStore'
    BY <1>10, <2>4, <2>5 DEF RewritePtr, nodeVars, TypeStore
  <2>7. TypeRollThread'
    BY <1>10, <2>1, <2>4, <2>5 DEF RewritePtr, TypeRollThread
  <2> QED BY <2>1, <2>2, <2>6, <2>7
<1>11. CASE EndRewrite(p)
  BY <1>11, TypeStoreStep DEF EndRewrite, nodeVars, storeVars, TypeStore, StoreStep
<1>12. CASE Return(p)
  BY <1>12 DEF Return, engineVars, storeVars, execVars, TypeInv, TypeOK, Pointers, Chunk
<1> QED BY <1>1, <1>2, <1>3, <1>4, <1>5, <1>6, <1>7, <1>8, <1>9, <1>10, <1>11, <1>12 DEF RollStep

LEMMA TypeRestart ==
  ASSUME TypeInv, NEW wipe \in BOOLEAN, Restart(wipe)
  PROVE  TypeInv'
<1> DEFINE b == IF wipe \/ status = 0 THEN Genesis ELSE blockptr[status]
           ok == wipe \/ status = 0 \/ Loadable(status)
           g == IF ok THEN b ELSE Genesis
<1> USE TypeParts, TypePartsNext
<1>1. ok => b \in Block
  BY HeightType DEF Loadable, TypeStore
<1>2. g \in Block /\ (ok => Height[b] \in Nat)
  BY <1>1, HeightType
<1>3. heap' = Base(g)
  BY DEF Restart, Create
<1> HIDE DEF g
<1>4. /\ Base(g) \in Seq(ChunkRecord)
      /\ DOMAIN Base(g) = {1}
      /\ Base(g)[1].path = {1}
  BY <1>2, TypeRecord DEF Base, ChunkRecord
<1>5. Chunk' = {1}
  BY <1>3, <1>4 DEF Chunk
<1>6. TypeEngine'
  <2>1. sroot' = 1 /\ scusp' = 1 /\ disk' \in [Key -> SUBSET Block]
    BY DEF Restart, Create, TypeEngine
  <2> QED BY <1>3, <1>4, <1>5, <2>1 DEF TypeEngine
<1>7. TypeStore'
  BY <1>2 DEF Restart, storeVars, TypeStore
<1>8. TypeExecThread' /\ TypeChan' /\ TypeRollThread'
  BY TypeRecord DEF Restart, CallsLost, Each, NoChunk, TypeExecThread, TypeChan, TypeRollThread
<1> QED BY <1>6, <1>7, <1>8

LEMMA TypeNext == TypeInv /\ [Next]_vars => TypeInv'
<1> SUFFICES ASSUME TypeInv, [Next]_vars PROVE TypeInv'
  OBVIOUS
<1>1. ASSUME NEW p \in Proc, Call(p) PROVE TypeInv'
  <2>1. PICK s \in Batch : \E n \in 1..Len(s) : Enter(p, SubSeq(s, 1, n))
    BY <1>1 DEF Call
  <2>2. PICK n \in 1..Len(s) : Enter(p, SubSeq(s, 1, n))
    BY <2>1
  <2>3. s \in Seq(Block)
    BY CallAssumption
  <2>4. SubSeq(s, 1, n) \in Seq(Block) /\ Len(SubSeq(s, 1, n)) = n
    BY <2>3, <2>2, SubSeqProperties, LenProperties
  <2>5. SubSeq(s, 1, n) # <<>>
    BY <2>4
  <2>6. rpc[p] = "idle" /\ nexth' \in Nat /\ mode' \in {"rebuild", "run", "panic"}
    BY <1>1 DEF Call, nodeVars, TypeInv, TypeOK
  <2> QED BY <2>2, <2>4, <2>5, <2>6, TypeEnter
<1>2. ASSUME NEW p \in Proc, ExecStep(p) PROVE TypeInv'
  BY <1>2, TypeExec
<1>3. ASSUME NEW p \in Proc, RollStep(p) PROVE TypeInv'
  BY <1>3, TypeRoll
<1>4. CASE RebuildNext
  <2>1. Boot \in Proc /\ rpc[Boot] = "idle" /\ blockptr[nexth] \in Block
    BY <1>4 DEF RebuildNext, Proc, Loadable, TypeInv, TypeOK
  <2>2. <<blockptr[nexth]>> \in Seq(Block) /\ <<blockptr[nexth]>> # <<>>
    BY <2>1
  <2>3. nexth' \in Nat /\ mode' \in {"rebuild", "run", "panic"}
    BY <1>4 DEF RebuildNext, TypeInv, TypeOK
  <2> QED BY <1>4, <2>1, <2>2, <2>3, TypeEnter DEF RebuildNext
<1>5. CASE RebuildDone
  BY <1>5 DEF RebuildDone, TypeInv, TypeOK, Pointers, engineVars, storeVars, execVars, rollVars, Chunk
<1>6. ASSUME NEW wipe \in BOOLEAN, Restart(wipe) PROVE TypeInv'
  BY <1>6, TypeRestart
<1>7. CASE UNCHANGED vars
  BY <1>7 DEF vars, TypeInv, TypeOK, Pointers, engineVars, storeVars, nodeVars, execVars, rollVars, Chunk
<1> QED BY <1>1, <1>2, <1>3, <1>4, <1>5, <1>6, <1>7 DEF Next

(* Every variable keeps its type, and every pointer a thread is about to     *)
(* follow is one, whatever the calls and wherever the process is killed.     *)
THEOREM TypeCorrect == Spec => []TypeOK
<1>1. Init => TypeInv
  BY TypeInit
<1>2. TypeInv => TypeOK
  BY DEF TypeInv
<1> QED BY <1>1, <1>2, TypeNext, PTL DEF Spec

-----------------------------------------------------------------------------
(* The roller's lock: at most one call stores at a time, and the head is     *)
(* the chunk it stores as the head.                                          *)

OneStores == \A p, q \in Proc : Storing(p) /\ Storing(q) => p = q

StoreInv == OneStores /\ StoresItsOwnHead

LEMMA StartStoreKeepsHead ==
  ASSUME NEW p \in Proc, NEW change, Rolling(p), StartStore(p, change), TypeOK,
         change.append => scusp' = cur[p]
  PROVE  StoreInv'
<1>1. \A q \in Proc : ~Storing(q)
  BY DEF Rolling, Locked
<1>2. \A q \in Proc \ {p} : ~Storing(q)'
  BY <1>1 DEF StartStore, Storing, TypeOK
<1>3. chg'[p] = change /\ cur' = cur
  BY DEF StartStore, TypeOK
<1> QED BY <1>2, <1>3 DEF StoreInv, OneStores, StoresItsOwnHead

\* A step after which no more calls store than before, and those with the same chunk.
LEMMA StoreFrame ==
  ASSUME StoreInv, UNCHANGED scusp,
         \A q \in Proc : Storing(q)' => Storing(q) /\ cur'[q] = cur[q] /\ chg'[q] = chg[q]
  PROVE  StoreInv'
  BY DEF StoreInv, OneStores, StoresItsOwnHead

LEMMA StoreStepKeepsHead ==
  ASSUME TypeOK, StoreInv, NEW p \in Proc, NEW at \in {"data", "ptr", "status", "walk"},
         NEW next \in {"recv", "ptr", "status", "walk"}, StoreStep(p, at, next)
  PROVE  StoreInv'
<1>1. UNCHANGED scusp
  BY DEF StoreStep, engineVars
<1>2. \A q \in Proc : Storing(q)' => Storing(q) /\ cur'[q] = cur[q] /\ chg'[q] = chg[q]
  BY DEF StoreStep, Storing, TypeOK
<1> QED BY <1>1, <1>2, StoreFrame

LEMMA StoreInvNext == TypeOK /\ StoreInv /\ [Next]_vars => StoreInv'
<1> SUFFICES ASSUME TypeOK, StoreInv, [Next]_vars PROVE StoreInv'
  OBVIOUS
<1>1. ASSUME UNCHANGED <<scusp, cur, chg, rpc>> PROVE StoreInv'
  BY <1>1, StoreFrame DEF Storing
<1>2. ASSUME NEW p \in Proc, NEW s, rpc[p] = "idle", Enter(p, s) PROVE StoreInv'
  <2>1. UNCHANGED <<scusp, cur, chg>> /\ \A q \in Proc : Storing(q)' => Storing(q)
    BY <1>2 DEF Enter, engineVars, Storing, TypeOK
  <2> QED BY <2>1, StoreFrame
<1>3. ASSUME NEW p \in Proc, Call(p) PROVE StoreInv'
  BY <1>2, <1>3 DEF Call
<1>4. ASSUME NEW p \in Proc, ExecStep(p) PROVE StoreInv'
  BY <1>1, <1>4 DEF ExecStep, Locate, CheckRepeat, Execute, Push, engineVars, rollVars
<1>5. ASSUME NEW p \in Proc, RollStep(p) PROVE StoreInv'
  <2>1. CASE Recv(p)
    <3>1. UNCHANGED scusp
      BY <2>1 DEF Recv, engineVars
    <3>2. \A q \in Proc : Storing(q)' => Storing(q) /\ cur'[q] = cur[q] /\ chg'[q] = chg[q]
      BY <2>1 DEF Recv, Storing, TypeOK
    <3> QED BY <3>1, <3>2, StoreFrame
  <2>2. CASE HeadGone(p)
    BY <1>1, <2>2 DEF HeadGone, engineVars, rollVars
  <2>3. CASE Uncle(p)
    BY <2>3, StartStoreKeepsHead DEF Uncle, NoChange
  <2>4. CASE NewHead(p)
    BY <2>4, StartStoreKeepsHead DEF NewHead, Higher
  <2>5. CASE NewHeadAndRoot(p)
    BY <2>5, StartStoreKeepsHead DEF NewHeadAndRoot, Higher
  <2>6. CASE RollError(p)
    <3>1. \A q \in Proc : ~Storing(q)'
      BY <2>6 DEF RollError, Higher, Rolling, Locked, Storing, TypeOK
    <3> QED BY <3>1 DEF StoreInv, OneStores, StoresItsOwnHead
  <2>7. CASE PutBlockData(p)
    BY <2>7, StoreStepKeepsHead DEF PutBlockData, AfterData
  <2>8. CASE PutBlockPtr(p)
    BY <2>8, StoreStepKeepsHead DEF PutBlockPtr, AfterPtr, AfterStatus
  <2>9. CASE PutStatus(p)
    BY <2>9, StoreStepKeepsHead DEF PutStatus, AfterStatus
  <2>10. CASE RewritePtr(p)
    BY <1>1, <2>10 DEF RewritePtr, engineVars
  <2>11. CASE EndRewrite(p)
    BY <2>11, StoreStepKeepsHead DEF EndRewrite
  <2>12. CASE Return(p)
    <3>1. UNCHANGED <<scusp, cur, chg>>
      BY <2>12 DEF Return, engineVars
    <3>2. \A q \in Proc : Storing(q)' => Storing(q)
      BY <2>12 DEF Return, Storing, TypeOK
    <3> QED BY <3>1, <3>2, StoreFrame
  <2> QED BY <1>5, <2>1, <2>2, <2>3, <2>4, <2>5, <2>6, <2>7, <2>8, <2>9, <2>10, <2>11, <2>12 DEF RollStep
<1>6. CASE RebuildNext
  <2>1. Boot \in Proc
    BY DEF Proc
  <2> QED BY <1>2, <1>6, <2>1 DEF RebuildNext
<1>7. CASE RebuildDone
  BY <1>1, <1>7 DEF RebuildDone, engineVars, rollVars
<1>8. ASSUME NEW wipe \in BOOLEAN, Restart(wipe) PROVE StoreInv'
  <2>1. \A q \in Proc : rpc'[q] = "idle"
    BY <1>8 DEF Restart, CallsLost, Each
  <2> QED BY <2>1 DEF StoreInv, OneStores, StoresItsOwnHead, Storing
<1>9. CASE UNCHANGED vars
  BY <1>1, <1>9 DEF vars, engineVars, rollVars
<1> QED BY <1>3, <1>4, <1>5, <1>6, <1>7, <1>8, <1>9 DEF Next

(* For every number of concurrent calls, and wherever the process is killed: *)
(* a call that stores a new head stores it while it is the head.             *)
THEOREM StoresTheHead == Spec => []StoresItsOwnHead
<1>1. Init => StoreInv
  BY DEF Init, NoCalls, Each, StoreInv, OneStores, StoresItsOwnHead, Storing
<1>2. StoreInv => StoresItsOwnHead
  BY DEF StoreInv
<1> QED BY <1>1, <1>2, StoreInvNext, TypeCorrect, PTL DEF Spec

(* Likewise, the head only climbs until the node starts again, and not while *)
(* a call stores.                                                            *)
THEOREM HeadOnlyClimbs == Spec => HeadClimbs
<1> DEFINE Climbs == (\A wipe \in BOOLEAN : ~Restart(wipe)) /\ scusp' # scusp
                       => HeightOf(scusp)' > HeightOf(scusp) /\ ~Locked
<1>1. TypeOK /\ [Next]_vars => Climbs
  <2> SUFFICES ASSUME TypeOK, Next, scusp' # scusp, \A wipe \in BOOLEAN : ~Restart(wipe)
               PROVE  HeightOf(scusp)' > HeightOf(scusp) /\ ~Locked
    BY DEF vars, engineVars
  <2>1. PICK p \in Proc : NewHead(p) \/ NewHeadAndRoot(p) \/ RollError(p)
    BY DEF Next, Call, Enter, RebuildNext, RebuildDone, ExecStep, Locate, CheckRepeat, Execute, Push,
       RollStep, Recv, HeadGone, Uncle, PutBlockData, PutBlockPtr, PutStatus, RewritePtr, EndRewrite,
       Return, StoreStep, engineVars
  <2>2. Higher(p) /\ scusp' = cur[p] /\ heap' = heap
    BY <2>1 DEF NewHead, NewHeadAndRoot, RollError, StartStore
  <2>3. HeightOf(scusp)' = HeightOf(cur[p])
    BY <2>2 DEF HeightOf, BlockOf
  <2> QED BY <2>2, <2>3 DEF Higher, Rolling
<1> QED BY <1>1, TypeCorrect, PTL DEF Spec, HeadClimbs

-----------------------------------------------------------------------------
(* The invariant of TypeCorrect, for use in the proofs below.               *)
LEMMA TypeInvAlways == Spec => []TypeInv
<1>1. Init => TypeInv
  BY TypeInit
<1> QED BY <1>1, TypeNext, PTL DEF Spec

-----------------------------------------------------------------------------
(* What Push, Restart and the other steps do to the memory.                 *)

LEMMA PushHeap ==
  ASSUME TypeInv, NEW p \in Proc, Push(p), NEW n, n = Len(heap) + 1
  PROVE  /\ n \notin Chunk /\ Chunk' = Chunk \union {n} /\ \A m \in Chunk : m < n /\ m \in Nat
         /\ n \in Nat
         /\ base[p] \in Chunk
         /\ \A m \in Chunk : heap'[m] = heap[m]
         /\ heap'[n].path = heap[base[p]].path \union {n}
         /\ heap'[n].block = Head(todo[p])
         /\ heap'[n].mem = delta[p]
         /\ Head(todo[p]) \in Block
<1> DEFINE c == [block |-> Head(todo[p]), path |-> heap[base[p]].path \union {n}, mem |-> delta[p]]
<1>1. Len(heap) \in Nat /\ Chunk = 1..Len(heap) /\ heap \in Seq(ChunkRecord)
  BY ChunkType DEF TypeInv, TypeOK
<1>2. base[p] \in Chunk /\ todo[p] \in Seq(Block) /\ todo[p] # <<>> /\ delta[p] \in MemoryDB
  BY TypeParts DEF Push, TypeExecThread
<1>3. heap[base[p]].path \in SUBSET Nat
  BY <1>1, <1>2, ChunkType DEF TypeInv
<1>4. c \in ChunkRecord
  BY <1>1, <1>2, <1>3 DEF ChunkRecord
<1> HIDE DEF c
<1>5. heap' = Append(heap, c)
  BY DEF Push, c
<1>6. heap' \in Seq(ChunkRecord) /\ Chunk' = 1..n /\ heap'[n] = c /\ \A m \in Chunk : heap'[m] = heap[m]
  BY <1>1, <1>4, <1>5, AppendProperties DEF Chunk
<1> QED BY <1>1, <1>2, <1>6 DEF c, BlockOf, HeightOf

LEMMA RestartHeap ==
  ASSUME NEW wipe \in BOOLEAN, Restart(wipe)
  PROVE  /\ Chunk' = {1} /\ heap'[1].path = {1} /\ heap'[1].mem = NoWrites
         /\ sroot' = 1 /\ scusp' = 1
         /\ \A p \in Proc : /\ todo'[p] = <<>> /\ epc'[p] = "idle" /\ base'[p] = NoChunk
                            /\ rpc'[p] = "idle" /\ chan'[p] = <<>> /\ cur'[p] = NoChunk
  BY DEF Restart, Create, Base, Chunk, CallsLost, Each

LEMMA HeapFrame ==
  ASSUME [Next]_vars, heap' # heap
  PROVE  (\E p \in Proc : Push(p)) \/ \E wipe \in BOOLEAN : Restart(wipe)
  BY DEF vars, engineVars, Next, Call, Enter, RebuildNext, RebuildDone, ExecStep, Locate, CheckRepeat,
     Execute, RollStep, Recv, HeadGone, Uncle, NewHead, NewHeadAndRoot, RollError, StartStore,
     PutBlockData, PutBlockPtr, PutStatus, RewritePtr, EndRewrite, Return, StoreStep

-----------------------------------------------------------------------------
(* The shape of the tree.                                                   *)

(* Along a path, height determines the chunk.                               *)
LEMMA PathHeight ==
  ASSUME TypeOK, PathsAreChains, NEW n \in Chunk, NEW a \in heap[n].path, NEW b \in heap[n].path
  PROVE  /\ a \in Chunk /\ b \in Chunk /\ a <= n
         /\ HeightOf(a) = HeightOf(b) => a = b
         /\ HeightOf(a) <= HeightOf(b) => a <= b /\ a \in heap[b].path
         /\ heap[a].path \subseteq heap[n].path
         /\ HeightOf(a) <= HeightOf(n)
<1>1. a \in Chunk /\ b \in Chunk /\ a \in Nat /\ b \in Nat /\ n \in Nat /\ a <= n
  BY ChunkType DEF TypeOK
<1>2. HeightOf(a) \in Nat /\ HeightOf(b) \in Nat /\ HeightOf(n) \in Nat
  BY <1>1, ChunkType
<1>3. a < b => HeightOf(a) < HeightOf(b)
  BY DEF PathsAreChains
<1>4. b < a => HeightOf(b) < HeightOf(a)
  BY DEF PathsAreChains
<1>5. heap[a].path = {x \in heap[n].path : x <= a} /\ heap[b].path = {x \in heap[n].path : x <= b}
  BY DEF PathsAreChains
<1>6. n \in heap[n].path /\ (a < n => HeightOf(a) < HeightOf(n))
  BY DEF PathsAreChains, TypeOK
<1> QED BY <1>1, <1>2, <1>3, <1>4, <1>5, <1>6

LEMMA PathsPush ==
  ASSUME TypeInv, ShapeInv, NEW p \in Proc, Push(p)
  PROVE  PathsAreChains'
<1> DEFINE n == Len(heap) + 1
           b == base[p]
<1>1. TypeOK /\ PathsAreChains
  BY DEF TypeInv, ShapeInv
<1>2. /\ n \notin Chunk /\ Chunk' = Chunk \union {n} /\ \A m \in Chunk : m < n /\ m \in Nat
      /\ n \in Nat /\ b \in Chunk
      /\ \A m \in Chunk : heap'[m] = heap[m] /\ Height[heap'[m].block] = HeightOf(m)
      /\ heap'[n].path = heap[b].path \union {n}
      /\ heap'[n].block = Head(todo[p])
  BY PushHeap DEF HeightOf, BlockOf
<1>3. Prev[Head(todo[p])] = BlockOf(b) /\ Height[heap'[n].block] = HeightOf(b) + 1
  BY <1>2 DEF ShapeInv, BaseFits, Push
<1> HIDE DEF n, b
<1>4. \A m \in Chunk : HeightOf(m) \in Nat /\ heap[m].path \subseteq Chunk /\ m \in heap[m].path
  BY <1>1, ChunkType DEF TypeOK
<1>5. \A a \in heap[b].path : /\ a \in Chunk /\ HeightOf(a) <= HeightOf(b)
                              /\ HeightOf(a) = HeightOf(b) => a = b
  BY <1>1, <1>2, <1>4, PathHeight
<1>6. Head(todo[p]) # Genesis
  BY <1>2, <1>3, <1>4, BlockAssumption
<1>7. \A m \in Chunk :
    /\ 1 \in heap'[m].path
    /\ \A a \in heap'[m].path : heap'[a].path = {x \in heap'[m].path : x <= a}
    /\ \A a, c \in heap'[m].path : a < c => Height[heap'[a].block] < Height[heap'[c].block]
    /\ \A h \in Height[heap'[1].block]..Height[heap'[m].block] :
         \E a \in heap'[m].path : Height[heap'[a].block] = h
    /\ \A a, c \in heap'[m].path :
         Height[heap'[c].block] = Height[heap'[a].block] + 1
           => heap'[c].block # Genesis /\ Prev[heap'[c].block] = heap'[a].block
  <2> TAKE m \in Chunk
  <2>1. /\ 1 \in heap[m].path
        /\ \A a \in heap[m].path : heap[a].path = {x \in heap[m].path : x <= a}
        /\ \A a, c \in heap[m].path : a < c => Height[heap[a].block] < Height[heap[c].block]
        /\ \A h \in Height[heap[1].block]..Height[heap[m].block] :
             \E a \in heap[m].path : Height[heap[a].block] = h
        /\ \A a, c \in heap[m].path :
             Height[heap[c].block] = Height[heap[a].block] + 1
               => heap[c].block # Genesis /\ Prev[heap[c].block] = heap[a].block
    BY <1>1 DEF PathsAreChains, HeightOf, BlockOf
  <2>2. heap'[1] = heap[1] /\ heap'[m] = heap[m] /\ \A a \in heap[m].path : heap'[a] = heap[a]
    BY <1>1, <1>2, <1>4, <2>1
  <2> QED BY <2>1, <2>2
<1>8. 1 \in heap'[n].path /\ 1 \in Chunk
  BY <1>1, <1>2, <1>4 DEF PathsAreChains
<1>9. \A a \in heap'[n].path : heap'[a].path = {x \in heap'[n].path : x <= a}
  <2> SUFFICES ASSUME NEW a \in heap'[n].path PROVE heap'[a].path = {x \in heap'[n].path : x <= a}
    OBVIOUS
  <2>1. CASE a = n
    BY <1>2, <1>4, <2>1
  <2>2. CASE a \in heap[b].path
    <3>1. heap'[a].path = {x \in heap[b].path : x <= a} /\ a < n
      BY <1>1, <1>2, <1>4, <2>2 DEF PathsAreChains
    <3> QED BY <1>2, <1>5, <2>2, <3>1
  <2> QED BY <1>2, <2>1, <2>2
<1>10. \A a, c \in heap'[n].path : a < c => Height[heap'[a].block] < Height[heap'[c].block]
  <2> SUFFICES ASSUME NEW a \in heap'[n].path, NEW c \in heap'[n].path, a < c
               PROVE  Height[heap'[a].block] < Height[heap'[c].block]
    OBVIOUS
  <2>1. a \in heap[b].path
    BY <1>2, <1>5
  <2>2. CASE c = n
    BY <1>2, <1>3, <1>4, <1>5, <2>1, <2>2
  <2>3. CASE c \in heap[b].path
    <3>1. HeightOf(a) < HeightOf(c)
      BY <1>1, <1>2, <2>1, <2>3 DEF PathsAreChains
    <3> QED BY <1>2, <1>5, <2>1, <2>3, <3>1
  <2> QED BY <1>2, <2>2, <2>3
<1>11. \A h \in Height[heap'[1].block]..Height[heap'[n].block] : \E a \in heap'[n].path : Height[heap'[a].block] = h
  <2> SUFFICES ASSUME NEW h \in HeightOf(1)..(HeightOf(b) + 1)
               PROVE  \E a \in heap'[n].path : Height[heap'[a].block] = h
    BY <1>2, <1>3, <1>8
  <2>1. CASE h = HeightOf(b) + 1
    BY <1>2, <1>3, <2>1
  <2>2. CASE h # HeightOf(b) + 1
    <3>1. h \in HeightOf(1)..HeightOf(b)
      BY <1>2, <1>4, <1>8, <2>2
    <3>2. PICK a \in heap[b].path : HeightOf(a) = h
      BY <1>1, <1>2, <3>1 DEF PathsAreChains
    <3> QED BY <1>2, <1>5, <3>2
  <2> QED BY <2>1, <2>2
<1>12. \A a, c \in heap'[n].path :
         Height[heap'[c].block] = Height[heap'[a].block] + 1 => heap'[c].block # Genesis /\ Prev[heap'[c].block] = heap'[a].block
  <2> SUFFICES ASSUME NEW a \in heap'[n].path, NEW c \in heap'[n].path, Height[heap'[c].block] = Height[heap'[a].block] + 1
               PROVE  heap'[c].block # Genesis /\ Prev[heap'[c].block] = heap'[a].block
    OBVIOUS
  <2>1. CASE a = n
    <3>1. Height[heap'[a].block] = HeightOf(b) + 1 /\ HeightOf(b) \in Nat
      BY <1>2, <1>3, <1>4, <2>1
    <3>2. \A x \in heap[b].path : Height[heap'[x].block] <= HeightOf(b)
      BY <1>2, <1>5
    <3> QED BY <1>2, <3>1, <3>2, <2>1
  <2>2. CASE a \in heap[b].path /\ c = n
    <3>1. Height[heap'[c].block] = HeightOf(b) + 1 /\ HeightOf(b) \in Nat
      BY <1>2, <1>3, <1>4, <2>2
    <3>2. HeightOf(a) = HeightOf(b)
      BY <1>2, <1>4, <1>5, <2>2, <3>1
    <3>3. a = b /\ heap'[a].block = BlockOf(b)
      BY <1>2, <1>5, <2>2, <3>2 DEF BlockOf
    <3> QED BY <1>2, <1>3, <1>6, <2>2, <3>3
  <2>3. CASE a \in heap[b].path /\ c \in heap[b].path
    <3>1. heap'[a] = heap[a] /\ heap'[c] = heap[c]
      BY <1>2, <1>5, <2>3
    <3>2. HeightOf(c) = HeightOf(a) + 1
      BY <3>1 DEF HeightOf, BlockOf
    <3>3. BlockOf(c) # Genesis /\ Prev[BlockOf(c)] = BlockOf(a)
      BY <1>1, <1>2, <2>3, <3>2 DEF PathsAreChains
    <3> QED BY <3>1, <3>3 DEF BlockOf
  <2> QED BY <1>2, <2>1, <2>2, <2>3
<1> QED BY <1>2, <1>7, <1>8, <1>9, <1>10, <1>11, <1>12 DEF PathsAreChains, HeightOf, BlockOf

LEMMA ShapeInit == Init => ShapeInv
<1> SUFFICES ASSUME Init PROVE ShapeInv
  OBVIOUS
<1>1. Chunk = {1} /\ heap[1].path = {1} /\ HeightOf(1) = 0
  BY BlockAssumption DEF Init, Base, Chunk, HeightOf, BlockOf
<1>2. PathsAreChains
  BY <1>1 DEF PathsAreChains
<1>3. BaseFits /\ NothingLeft
  BY DEF Init, NoCalls, Each, BaseFits, NothingLeft
<1> QED BY <1>2, <1>3 DEF ShapeInv

LEMMA BaseFitsError ==
  ASSUME TypeOK, BaseFits, NothingLeft, NEW p \in Proc, ExecError(p), Calling(p),
         UNCHANGED <<heap, rpc, chan>>
  PROVE  BaseFits' /\ NothingLeft'
<1>1. BaseFits'
  BY DEF ExecError, BaseFits, TypeOK, BlockOf, HeightOf
<1>2. NothingLeft'
  BY DEF ExecError, NothingLeft, TypeOK, Calling
<1> QED BY <1>1, <1>2

LEMMA BaseFitsFrame ==
  ASSUME TypeOK, BaseFits, NothingLeft, UNCHANGED <<heap, todo, epc, base>>,
         \A p \in Proc : ~Calling(p)' => /\ todo[p] = <<>> /\ epc[p] = "idle"
                                         /\ chan'[p] = <<>>
  PROVE  BaseFits' /\ NothingLeft'
  BY DEF BaseFits, NothingLeft, BlockOf, HeightOf

LEMMA BaseFitsEnter ==
  ASSUME TypeOK, BaseFits, NothingLeft, NEW p \in Proc, rpc[p] = "idle", NEW s, Enter(p, s)
  PROVE  BaseFits' /\ NothingLeft'
<1>1. heap' = heap /\ epc[p] = "idle"
  BY DEF Enter, engineVars, NothingLeft, Calling
<1>2. BaseFits'
  BY <1>1 DEF Enter, BaseFits, TypeOK, BlockOf, HeightOf
<1>3. NothingLeft'
  BY DEF Enter, NothingLeft, TypeOK, Calling
<1> QED BY <1>2, <1>3

LEMMA BaseFitsNext == TypeInv /\ ShapeInv /\ [Next]_vars => BaseFits' /\ NothingLeft'
<1> SUFFICES ASSUME TypeInv, ShapeInv, [Next]_vars PROVE BaseFits' /\ NothingLeft'
  OBVIOUS
<1>a. TypeOK /\ BaseFits /\ NothingLeft
  BY DEF TypeInv, ShapeInv
<1>1. ASSUME NEW p \in Proc, Call(p) PROVE BaseFits' /\ NothingLeft'
  BY <1>a, <1>1, BaseFitsEnter DEF Call
<1>2. ASSUME NEW p \in Proc, ExecStep(p) PROVE BaseFits' /\ NothingLeft'
  <2>1. todo[p] # <<>>
    BY <1>2 DEF ExecStep, Locate, CheckRepeat, Execute, Push, TypeInv, Pointers
  <2>2. Calling(p)
    BY <1>a, <2>1 DEF NothingLeft
  <2>3. ASSUME ExecError(p), UNCHANGED <<heap, rpc, chan>> PROVE BaseFits' /\ NothingLeft'
    BY <1>a, <2>2, <2>3, BaseFitsError
  <2>4. CASE Locate(p)
    <3>1. UNCHANGED <<heap, rpc, chan>>
      BY <2>4 DEF Locate, engineVars, rollVars
    <3>2. CASE ~ExecError(p)
      <4>1. PICK n \in BaseChunks(Prev[Head(todo[p])]) : base' = [base EXCEPT ![p] = n]
        BY <2>4, <3>2 DEF Locate
      <4>2. BlockOf(n) = Prev[Head(todo[p])]
        BY <4>1 DEF BaseChunks
      <4>3. epc' = [epc EXCEPT ![p] = "repeat"] /\ todo' = todo
        BY <2>4, <3>2 DEF Locate
      <4>4. BaseFits'
        BY <1>a, <3>1, <4>1, <4>2, <4>3 DEF BaseFits, BlockOf, HeightOf, TypeOK
      <4>5. NothingLeft'
        BY <1>a, <2>2, <3>1, <4>1, <4>3 DEF NothingLeft, Calling, TypeOK
      <4> QED BY <4>4, <4>5
    <3> QED BY <2>3, <3>1, <3>2
  <2>5. CASE CheckRepeat(p)
    <3>1. UNCHANGED <<heap, rpc, chan>>
      BY <2>5 DEF CheckRepeat, engineVars, rollVars
    <3>2. CASE ~ExecError(p)
      <4>1. epc' = [epc EXCEPT ![p] = "exec"] /\ UNCHANGED <<todo, base>> /\ epc[p] = "repeat"
        BY <2>5, <3>2 DEF CheckRepeat
      <4>2. BaseFits'
        BY <1>a, <3>1, <4>1 DEF BaseFits, BlockOf, HeightOf, TypeOK
      <4>3. NothingLeft'
        BY <1>a, <2>2, <3>1, <4>1 DEF NothingLeft, Calling, TypeOK
      <4> QED BY <4>2, <4>3
    <3> QED BY <2>3, <3>1, <3>2
  <2>6. CASE Execute(p)
    <3>1. UNCHANGED <<heap, rpc, chan>>
      BY <2>6 DEF Execute, engineVars, rollVars
    <3>2. CASE ~ExecError(p)
      <4>1. /\ epc' = [epc EXCEPT ![p] = "push"] /\ UNCHANGED <<todo, base>> /\ epc[p] = "exec"
            /\ Height[Head(todo[p])] = HeightOf(base[p]) + 1
        BY <2>6, <3>2 DEF Execute, Refused
      <4>2. BaseFits'
        BY <1>a, <3>1, <4>1 DEF BaseFits, BlockOf, HeightOf, TypeOK
      <4>3. NothingLeft'
        BY <1>a, <2>2, <3>1, <4>1 DEF NothingLeft, Calling, TypeOK
      <4> QED BY <4>2, <4>3
    <3> QED BY <2>3, <3>1, <3>2
  <2>7. CASE Push(p)
    <3>1. \A m \in Chunk : heap'[m] = heap[m]
      BY <2>7, PushHeap
    <3>2. /\ epc' = [epc EXCEPT ![p] = "idle"] /\ base' = [base EXCEPT ![p] = NoChunk]
          /\ \A q \in Proc \ {p} : todo'[q] = todo[q]
      BY <2>7, <1>a DEF Push, TypeOK
    <3>3. \A q \in Proc : epc[q] # "idle" => base[q] \in Chunk
      BY DEF TypeInv, Pointers
    <3>4. BaseFits'
      BY <1>a, <3>1, <3>2, <3>3 DEF BaseFits, BlockOf, HeightOf, TypeOK
    <3>5. NothingLeft'
      BY <1>a, <2>2, <2>7, <3>2 DEF Push, rollVars, NothingLeft, Calling, TypeOK
    <3> QED BY <3>4, <3>5
  <2> QED BY <1>2, <2>4, <2>5, <2>6, <2>7 DEF ExecStep
<1>3. ASSUME NEW p \in Proc, RollStep(p) PROVE BaseFits' /\ NothingLeft'
  <2>1. UNCHANGED <<heap, todo, epc, base>>
    BY <1>3 DEF RollStep, Recv, HeadGone, Uncle, NewHead, NewHeadAndRoot, RollError, StartStore,
       PutBlockData, PutBlockPtr, PutStatus, RewritePtr, EndRewrite, Return, StoreStep, engineVars, execVars
  <2>2. CASE Return(p)
    <3>1. \A q \in Proc : ~Calling(q)' => todo[q] = <<>> /\ epc[q] = "idle" /\ chan'[q] = <<>>
      BY <1>a, <2>2 DEF Return, Finished, Calling, NothingLeft, TypeOK
    <3> QED BY <1>a, <2>1, <3>1, BaseFitsFrame
  <2>3. CASE Recv(p)
    <3>1. \A q \in Proc : ~Calling(q)' => todo[q] = <<>> /\ epc[q] = "idle" /\ chan'[q] = <<>>
      BY <1>a, <2>3 DEF Recv, Calling, NothingLeft, TypeOK
    <3> QED BY <1>a, <2>1, <3>1, BaseFitsFrame
  <2>4. CASE ~Return(p) /\ ~Recv(p)
    <3>1. chan' = chan /\ \A q \in Proc : ~Calling(q)' => ~Calling(q)
      BY <1>a, <1>3, <2>4 DEF RollStep, HeadGone, Uncle, NewHead, NewHeadAndRoot, RollError, StartStore,
         Rolling, Higher, PutBlockData, PutBlockPtr, PutStatus, RewritePtr, EndRewrite, StoreStep,
         AfterData, AfterPtr, AfterStatus, rollVars, Calling, TypeOK
    <3>2. \A q \in Proc : ~Calling(q)' => todo[q] = <<>> /\ epc[q] = "idle" /\ chan'[q] = <<>>
      BY <1>a, <3>1 DEF NothingLeft
    <3> QED BY <1>a, <2>1, <3>2, BaseFitsFrame
  <2> QED BY <2>2, <2>3, <2>4
<1>4. CASE RebuildNext
  <2>1. Boot \in Proc
    BY DEF Proc
  <2> QED BY <1>a, <1>4, <2>1, BaseFitsEnter DEF RebuildNext
<1>5. CASE RebuildDone
  BY <1>a, <1>5 DEF RebuildDone, engineVars, execVars, rollVars, BaseFits, NothingLeft, BlockOf, HeightOf, Calling
<1>6. ASSUME NEW wipe \in BOOLEAN, Restart(wipe) PROVE BaseFits' /\ NothingLeft'
  BY <1>6, RestartHeap DEF BaseFits, NothingLeft
<1>7. CASE UNCHANGED vars
  BY <1>a, <1>7 DEF vars, engineVars, execVars, rollVars, BaseFits, NothingLeft, BlockOf, HeightOf, Calling
<1> QED BY <1>1, <1>2, <1>3, <1>4, <1>5, <1>6, <1>7 DEF Next

LEMMA ShapeNext == TypeInv /\ ShapeInv /\ [Next]_vars => ShapeInv'
<1> SUFFICES ASSUME TypeInv, ShapeInv, [Next]_vars PROVE ShapeInv'
  OBVIOUS
<1>1. CASE heap' = heap
  <2>1. PathsAreChains'
    BY <1>1 DEF ShapeInv, PathsAreChains, Chunk, HeightOf, BlockOf
  <2> QED BY <2>1, BaseFitsNext DEF ShapeInv
<1>2. ASSUME NEW p \in Proc, Push(p) PROVE ShapeInv'
  BY <1>2, PathsPush, BaseFitsNext DEF ShapeInv
<1>3. ASSUME NEW wipe \in BOOLEAN, Restart(wipe) PROVE ShapeInv'
  <2>1. Chunk' = {1} /\ heap'[1].path = {1}
    BY <1>3, RestartHeap
  <2>2. heap'[1].block \in Block
    <3>1. heap' \in Seq(ChunkRecord) /\ DOMAIN heap' = {1}
      BY TypeNext, <2>1 DEF TypeInv, TypeOK, Chunk
    <3>2. heap'[1] \in ChunkRecord
      BY <3>1
    <3> QED BY <3>2 DEF ChunkRecord
  <2>3. Height[heap'[1].block] \in Nat
    BY <2>2, HeightType
  <2>4. PathsAreChains'
    BY <2>1, <2>3 DEF PathsAreChains, HeightOf, BlockOf
  <2> QED BY <2>4, BaseFitsNext DEF ShapeInv
<1> QED BY <1>1, <1>2, <1>3, HeapFrame

(* Whatever the calls and kills: the parent links of every chunk lead down  *)
(* a chain of blocks of every height to the chunk the node started with.    *)
THEOREM ShapeAlways == Spec => []ShapeInv
BY ShapeInit, ShapeNext, TypeInvAlways, PTL DEF Spec

-----------------------------------------------------------------------------
(* One call at a time: the head.                                            *)

(* While a call runs, the other processes have nothing in the works.        *)
LEMMA Alone ==
  ASSUME TypeInv, ShapeInv, OneCaller, OneCall, Up, NEW p \in Proc, Calling(p)
  PROVE  \A q \in Proc \ {p} : /\ ~Calling(q) /\ todo[q] = <<>> /\ epc[q] = "idle" /\ chan[q] = <<>>
                               /\ InFlight(q) = {}
<1>1. \A q \in Proc \ {p} : ~Calling(q)
  BY DEF OneCaller, OneCall, Up, Proc, TypeInv, TypeOK
<1>2. \A q \in Proc \ {p} : todo[q] = <<>> /\ epc[q] = "idle" /\ chan[q] = <<>>
  BY <1>1 DEF ShapeInv, NothingLeft
<1>3. \A q \in Proc \ {p} : rpc[q] # "lock" /\ DOMAIN chan[q] = {}
  BY <1>1, <1>2 DEF Calling
<1> QED BY <1>1, <1>2, <1>3 DEF InFlight

LEMMA InFlightChunks ==
  ASSUME TypeInv, NEW p \in Proc
  PROVE  /\ InFlight(p) \subseteq Chunk
         /\ \A i \in DOMAIN chan[p] : chan[p][i] \in Chunk
<1>1. chan[p] \in Seq(Chunk)
  BY DEF TypeInv, TypeOK
<1>2. \A i \in DOMAIN chan[p] : chan[p][i] \in Chunk
  BY <1>1
<1>3. rpc[p] = "lock" => cur[p] \in Chunk
  BY DEF TypeInv, Pointers
<1> QED BY <1>2, <1>3 DEF InFlight

(* The tree below the head is a chain that a new head extends.              *)
LEMMA TreeUp ==
  ASSUME TypeInv, ShapeInv, NEW n \in Tree, NEW a \in heap[n].path, HeightOf(a) >= HeightOf(sroot)
  PROVE  a \in Tree
<1>1. TypeOK /\ PathsAreChains /\ n \in Chunk /\ sroot \in heap[n].path
  BY DEF TypeInv, ShapeInv, Tree
<1>2. a \in Chunk /\ sroot \in Chunk /\ HeightOf(a) \in Nat /\ HeightOf(sroot) \in Nat
  BY <1>1, PathHeight, ChunkType
<1>3. sroot \in heap[a].path
  BY <1>1, <1>2, PathHeight
<1> QED BY <1>2, <1>3 DEF Tree

LEMMA TreeHeights ==
  ASSUME TypeInv, ShapeInv, NEW n \in Tree
  PROVE  /\ n \in Chunk /\ HeightOf(n) \in Nat /\ HeightOf(sroot) \in Nat /\ HeightOf(1) \in Nat
         /\ HeightOf(1) <= HeightOf(sroot) /\ HeightOf(sroot) <= HeightOf(n)
         /\ \A h \in HeightOf(sroot)..HeightOf(n) : \E a \in heap[n].path : HeightOf(a) = h /\ a \in Tree
<1>1. TypeOK /\ PathsAreChains /\ n \in Chunk /\ sroot \in heap[n].path /\ sroot \in Chunk
  BY DEF TypeInv, TypeOK, ShapeInv, Tree
<1>2. 1 \in heap[sroot].path /\ n \in heap[n].path /\ 1 \in Chunk
  BY <1>1, ChunkType DEF PathsAreChains, TypeOK
<1>3. HeightOf(n) \in Nat /\ HeightOf(sroot) \in Nat /\ HeightOf(1) \in Nat
  BY <1>1, <1>2, ChunkType
<1>4. HeightOf(1) <= HeightOf(sroot) /\ HeightOf(sroot) <= HeightOf(n)
  BY <1>1, <1>2, PathHeight
<1>5. ASSUME NEW h \in HeightOf(sroot)..HeightOf(n) PROVE \E a \in heap[n].path : HeightOf(a) = h /\ a \in Tree
  <2>1. h \in HeightOf(1)..HeightOf(n)
    BY <1>3, <1>4
  <2>2. PICK a \in heap[n].path : HeightOf(a) = h
    BY <1>1, <2>1 DEF PathsAreChains
  <2>3. HeightOf(a) >= HeightOf(sroot)
    BY <2>2, <1>3
  <2> QED BY <2>2, <2>3, TreeUp
<1> QED BY <1>1, <1>3, <1>4, <1>5

(* A block that do_roll makes the head is one above the old head, and all   *)
(* that the call has in the works hangs from it.                            *)
LEMMA HigherFacts ==
  ASSUME TypeInv, ShapeInv, OneCaller, HeadInv, NEW p \in Proc, Higher(p)
  PROVE  /\ cur[p] \in Tree /\ HeightOf(cur[p]) = HeightOf(scusp) + 1
         /\ \A x \in InFlight(p) : cur[p] \in heap[x].path
         /\ epc[p] # "idle" => cur[p] \in heap[base[p]].path
<1>1. rpc[p] = "lock" /\ Up /\ Calling(p) /\ HeightOf(cur[p]) > HeightOf(scusp)
  BY DEF Higher, Rolling, Calling
<1>2. cur[p] \in InFlight(p) /\ cur[p] \in Tree /\ scusp \in Tree
  BY <1>1 DEF InFlight, HeadInv, WorkInTree, HeadInWindow
<1>3. /\ HeightOf(cur[p]) \in Nat /\ HeightOf(scusp) \in Nat /\ HeightOf(sroot) \in Nat
      /\ HeightOf(sroot) <= HeightOf(scusp)
  BY <1>2, TreeHeights
\* A chunk of the tree above the head and not above cur[p] is cur[p].
<1>4. ASSUME NEW a \in Tree, HeightOf(a) > HeightOf(scusp), HeightOf(a) <= HeightOf(cur[p])
      PROVE  a = cur[p]
  <2>1. HeightOf(a) \in Nat
    BY TreeHeights
  <2>2. PICK q \in Proc : a \in InFlight(q)
    BY <1>3, <1>4, <2>1 DEF HeadInv, RolledBelowHead
  <2>3. q = p
    BY <1>1, <2>2, Alone DEF HeadInv
  <2>4. CASE a # cur[p]
    <3>1. PICK i \in DOMAIN chan[p] : a = chan[p][i]
      BY <1>1, <2>2, <2>3, <2>4 DEF InFlight
    <3>2. HeightOf(cur[p]) < HeightOf(a)
      BY <1>1, <3>1 DEF HeadInv, Ascending
    <3> QED BY <1>3, <1>4, <2>1, <3>2
  <2> QED BY <2>4
<1>5. ASSUME NEW x \in Tree, HeightOf(x) >= HeightOf(cur[p]) PROVE cur[p] \in heap[x].path
  <2>1. HeightOf(cur[p]) \in HeightOf(sroot)..HeightOf(x) /\ HeightOf(x) \in Nat
    BY <1>1, <1>3, <1>5, TreeHeights
  <2>2. PICK a \in heap[x].path : HeightOf(a) = HeightOf(cur[p]) /\ a \in Tree
    BY <2>1, TreeHeights
  <2>3. a = cur[p]
    BY <1>1, <1>3, <1>4, <2>2
  <2> QED BY <2>2, <2>3
<1>6. HeightOf(cur[p]) = HeightOf(scusp) + 1
  <2> DEFINE h == HeightOf(cur[p]) - 1
  <2>1. h \in HeightOf(sroot)..HeightOf(cur[p]) /\ h \in Nat
    BY <1>1, <1>3
  <2>2. PICK a \in heap[cur[p]].path : HeightOf(a) = h /\ a \in Tree
    BY <1>2, <2>1, TreeHeights
  <2>3. a # cur[p]
    BY <1>3, <2>2
  <2>4. ~(HeightOf(a) > HeightOf(scusp))
    BY <1>3, <1>4, <2>2, <2>3
  <2> QED BY <1>1, <1>3, <2>2, <2>4
<1>7. ASSUME NEW x \in InFlight(p) PROVE cur[p] \in heap[x].path
  <2>1. x \in Tree
    BY DEF HeadInv, WorkInTree
  <2>2. x = cur[p] \/ HeightOf(cur[p]) < HeightOf(x)
    BY <1>1 DEF InFlight, HeadInv, Ascending
  <2>3. HeightOf(x) >= HeightOf(cur[p])
    BY <1>3, <2>1, <2>2, TreeHeights
  <2> QED BY <1>5, <2>1, <2>3
<1>8. ASSUME epc[p] # "idle" PROVE cur[p] \in heap[base[p]].path
  <2>1. base[p] \in Tree /\ BlockOf(base[p]) = Prev[Head(todo[p])]
    BY <1>8 DEF HeadInv, WorkInTree, ShapeInv, BaseFits
  <2>2. todo[p] \in Seq(Block) /\ todo[p] # <<>>
    BY <1>8 DEF TypeInv, TypeOK, Pointers
  <2>3. Head(todo[p]) = todo[p][1] /\ 1 \in DOMAIN todo[p] /\ Head(todo[p]) \in Block
    BY <2>2
  <2>4. HeightOf(cur[p]) < Height[Head(todo[p])]
    BY <1>2, <2>3 DEF HeadInv, Ascending
  <2>5. Head(todo[p]) # Genesis
    BY <1>3, <2>4, BlockAssumption
  <2>6. Height[Head(todo[p])] = HeightOf(base[p]) + 1
    BY <2>1, <2>3, <2>5, BlockAssumption DEF HeightOf
  <2>7. HeightOf(base[p]) \in Nat
    BY <2>1, TreeHeights
  <2>8. HeightOf(base[p]) >= HeightOf(cur[p])
    BY <1>3, <2>4, <2>6, <2>7
  <2> QED BY <1>5, <2>1, <2>8
<1> QED BY <1>2, <1>6, <1>7, <1>8

(* The roll has exactly one root to go to: the child of the root below the  *)
(* new head. So it never fails with "root chunk height error".              *)
LEMMA NewRootFacts ==
  ASSUME TypeInv, ShapeInv, OneCaller, HeadInv, NEW p \in Proc, Higher(p), Deep(p)
  PROVE  /\ HeightOf(cur[p]) = HeightOf(sroot) + UnstableBlock + 1
         /\ \E r \in NewRoots(cur[p]) : HeightOf(r) = HeightOf(sroot) + 1
         /\ \A r \in NewRoots(cur[p]) : HeightOf(r) = HeightOf(sroot) + 1 =>
              r \in heap[cur[p]].path /\ r \in Tree
<1> DEFINE c == cur[p]
<1>1. c \in Tree /\ scusp \in Tree /\ HeightOf(c) = HeightOf(scusp) + 1
  BY HigherFacts DEF HeadInv, HeadInWindow
<1>2. /\ c \in Chunk /\ HeightOf(c) \in Nat /\ HeightOf(sroot) \in Nat /\ HeightOf(scusp) \in Nat
      /\ UnstableBlock \in Nat /\ HeightOf(sroot) <= HeightOf(c)
  BY <1>1, TreeHeights, CallAssumption
<1>3. HeightOf(c) = HeightOf(sroot) + UnstableBlock + 1
  BY <1>1, <1>2 DEF Deep, HeadInv, HeadInWindow
<1>4. HeightOf(sroot) + 1 \in HeightOf(sroot)..HeightOf(c)
  BY <1>2, <1>3
<1>5. PICK a \in heap[c].path : HeightOf(a) = HeightOf(sroot) + 1 /\ a \in Tree
  BY <1>1, <1>4, TreeHeights
<1>6. a \in Children(sroot)
  BY <1>5 DEF Children, Tree
<1>7. Alive(a)
  BY <1>5 DEF Alive, Held, Tree
<1>8. a \in NewRoots(c)
  <2>1. CASE Cardinality(Children(sroot)) = 1
    BY <1>6, <2>1 DEF NewRoots
  <2>2. CASE Cardinality(Children(sroot)) # 1
    <3>1. HeightOf(a) + UnstableBlock = HeightOf(c)
      BY <1>2, <1>3, <1>5
    <3> QED BY <1>5, <1>7, <2>2, <3>1 DEF NewRoots
  <2> QED BY <2>1, <2>2
<1>9. ASSUME NEW r \in NewRoots(c), HeightOf(r) = HeightOf(sroot) + 1
      PROVE  r \in heap[c].path /\ r \in Tree
  <2>1. CASE Cardinality(Children(sroot)) = 1
    <3>1. IsFiniteSet(Children(sroot))
      <4>1. Children(sroot) \subseteq 1..Len(heap) /\ Len(heap) \in Nat
        BY ChunkType DEF TypeInv, Children
      <4>2. IsFiniteSet(1..Len(heap))
        BY <4>1, FS_Interval, 1 \in Int, Len(heap) \in Int
      <4> QED BY <4>1, <4>2, FS_Subset
    <3>2. PICK e : Children(sroot) = {e}
      BY <2>1, <3>1, FS_Singleton
    <3>3. r \in Children(sroot)
      BY <1>9, <2>1 DEF NewRoots
    <3> QED BY <1>5, <1>6, <3>2, <3>3
  <2>2. CASE Cardinality(Children(sroot)) # 1
    <3>1. r \in heap[c].path
      BY <1>9, <2>2 DEF NewRoots
    <3>2. HeightOf(r) >= HeightOf(sroot)
      BY <1>2, <1>9
    <3> QED BY <1>1, <3>1, <3>2, TreeUp
  <2> QED BY <2>1, <2>2
<1> QED BY <1>3, <1>5, <1>8, <1>9

LEMMA NoRollError ==
  ASSUME TypeInv, ShapeInv, OneCaller, HeadInv, NEW p \in Proc
  PROVE  ~RollError(p) /\ ~HeadGone(p)
<1>1. ~RollError(p)
  BY NewRootFacts DEF RollError
<1>2. Alive(scusp)
  BY DEF HeadInv, HeadInWindow, Tree, Alive, Held
<1> QED BY <1>1, <1>2 DEF HeadGone

-----------------------------------------------------------------------------
(* HeadInv step by step.                                                    *)

(* Steps that only let go of work, or take up a base in the tree.           *)
LEMMA HeadFrame ==
  ASSUME TypeInv, HeadInv, UNCHANGED <<heap, sroot, scusp, chan>>,
         \A q \in Proc :
           /\ todo'[q] = todo[q] \/ todo'[q] = <<>>
           /\ (rpc'[q] = "lock") <=> (rpc[q] = "lock")
           /\ rpc[q] = "lock" => cur'[q] = cur[q]
           /\ epc'[q] # "idle" => base'[q] \in Tree,
         OneCall', NoneBroken'
  PROVE  HeadInv'
<1>1. Tree' = Tree /\ \A q \in Proc : InFlight(q)' = InFlight(q)
  BY DEF Tree, Chunk, InFlight
<1>2. Ascending'
  <2> SUFFICES ASSUME NEW p \in Proc
               PROVE  /\ \A i, j \in DOMAIN chan[p] : i < j => HeightOf(chan[p][i]) < HeightOf(chan[p][j])
                      /\ rpc[p] = "lock" => \A i \in DOMAIN chan[p] : HeightOf(cur[p]) < HeightOf(chan[p][i])
                      /\ \A x \in InFlight(p) : \A i \in DOMAIN todo'[p] : HeightOf(x) < Height[todo'[p][i]]
                      /\ \A i, j \in DOMAIN todo'[p] : i < j => Height[todo'[p][i]] < Height[todo'[p][j]]
    BY <1>1 DEF Ascending, HeightOf, BlockOf
  <2> QED BY DEF HeadInv, Ascending
<1>3. WorkInTree' /\ RolledBelowHead' /\ HeadInWindow'
  BY <1>1 DEF HeadInv, WorkInTree, RolledBelowHead, HeadInWindow, HeightOf, BlockOf
<1> QED BY <1>2, <1>3 DEF HeadInv

LEMMA HeadEnter ==
  ASSUME TypeInv, ShapeInv, HeadInv, NEW p \in Proc, ~Calling(p), NEW s \in Seq(Block), Enter(p, s),
         \A i, j \in DOMAIN s : i < j => Height[s[i]] < Height[s[j]],
         OneCall'
  PROVE  HeadInv'
<1>1. UNCHANGED <<heap, sroot, scusp, chan, cur, epc, base>>
  BY DEF Enter, engineVars
<1>2. todo' = [todo EXCEPT ![p] = s] /\ rpc' = [rpc EXCEPT ![p] = "recv"] /\ rpc[p] = "idle" /\ chan[p] = <<>>
  BY DEF Enter, Calling, ShapeInv, NothingLeft
<1>3. InFlight(p) = {} /\ Tree' = Tree /\ \A q \in Proc : InFlight(q)' = InFlight(q)
  BY <1>1, <1>2 DEF Tree, Chunk, InFlight, TypeInv, TypeOK
<1>4. Ascending'
  <2> SUFFICES ASSUME NEW q \in Proc
               PROVE  /\ \A i, j \in DOMAIN chan[q] : i < j => HeightOf(chan[q][i]) < HeightOf(chan[q][j])
                      /\ rpc'[q] = "lock" => \A i \in DOMAIN chan[q] : HeightOf(cur[q]) < HeightOf(chan[q][i])
                      /\ \A x \in InFlight(q) : \A i \in DOMAIN todo'[q] : HeightOf(x) < Height[todo'[q][i]]
                      /\ \A i, j \in DOMAIN todo'[q] : i < j => Height[todo'[q][i]] < Height[todo'[q][j]]
    BY <1>1, <1>3 DEF Ascending, HeightOf, BlockOf
  <2>1. CASE q = p
    BY <1>2, <1>3, <2>1 DEF HeadInv, Ascending, TypeInv, TypeOK
  <2>2. CASE q # p
    BY <1>2, <2>2 DEF HeadInv, Ascending, TypeInv, TypeOK
  <2> QED BY <2>1, <2>2
<1>5. WorkInTree' /\ RolledBelowHead' /\ HeadInWindow' /\ NoneBroken'
  BY <1>1, <1>2, <1>3 DEF HeadInv, WorkInTree, RolledBelowHead, HeadInWindow, NoneBroken, HeightOf, BlockOf,
     TypeInv, TypeOK
<1> QED BY <1>4, <1>5 DEF HeadInv

LEMMA HeadPush ==
  ASSUME TypeInv, ShapeInv, OneCaller, HeadInv, NEW p \in Proc, Push(p)
  PROVE  HeadInv'
<1> DEFINE n == Len(heap) + 1
           b == base[p]
<1>1. /\ n \notin Chunk /\ Chunk' = Chunk \union {n}
      /\ b \in Chunk
      /\ \A m \in Chunk : heap'[m] = heap[m]
      /\ heap'[n].path = heap[b].path \union {n}
      /\ heap'[n].block = Head(todo[p])
  BY PushHeap
<1>2. /\ UNCHANGED <<sroot, scusp, rpc, cur, mode>>
      /\ chan' = [chan EXCEPT ![p] = Append(chan[p], n)]
      /\ todo' = [todo EXCEPT ![p] = Tail(todo[p])]
      /\ epc' = [epc EXCEPT ![p] = "idle"] /\ base' = [base EXCEPT ![p] = NoChunk]
      /\ epc[p] = "push"
  BY DEF Push, rollVars, nodeVars
<1> HIDE DEF n, b
<1>3. b \in Tree /\ sroot \in Chunk /\ scusp \in Tree /\ scusp \in Chunk
  BY <1>2 DEF HeadInv, WorkInTree, HeadInWindow, b, TypeInv, TypeOK
<1>4. Tree' = Tree \union {n}
  BY <1>1, <1>2, <1>3 DEF Tree
<1>5. todo[p] \in Seq(Block) /\ todo[p] # <<>> /\ chan[p] \in Seq(Chunk)
  BY <1>2 DEF TypeInv, TypeOK, Pointers
<1>6. /\ Len(chan[p]) \in Nat /\ DOMAIN chan[p] = 1..Len(chan[p])
      /\ DOMAIN chan'[p] = 1..(Len(chan[p]) + 1)
      /\ \A i \in DOMAIN chan[p] : chan'[p][i] = chan[p][i] /\ chan[p][i] \in Chunk
      /\ chan'[p][Len(chan[p]) + 1] = n
  <2>1. chan'[p] = Append(chan[p], n)
    BY <1>2 DEF TypeInv, TypeOK
  <2> QED BY <1>5, <2>1
<1>7. \A q \in Proc \ {p} : chan'[q] = chan[q] /\ todo'[q] = todo[q]
  BY <1>2 DEF TypeInv, TypeOK
<1>8. /\ InFlight(p)' = InFlight(p) \union {n}
      /\ \A q \in Proc \ {p} : InFlight(q)' = InFlight(q)
  <2>1. {chan'[p][i] : i \in DOMAIN chan'[p]} = {chan[p][i] : i \in DOMAIN chan[p]} \union {n}
    BY <1>6
  <2> QED BY <1>2, <1>7, <2>1 DEF InFlight
<1>9. Head(todo[p]) = todo[p][1] /\ 1 \in DOMAIN todo[p]
  BY <1>5
<1>10. \A x \in InFlight(p) : x \in Chunk /\ HeightOf(x) < Height[Head(todo[p])]
  BY <1>9, InFlightChunks DEF HeadInv, Ascending
<1>11. \A i \in DOMAIN todo'[p] : /\ i \in Nat /\ i + 1 \in DOMAIN todo[p] /\ 1 < i + 1
                                  /\ todo'[p][i] = todo[p][i + 1]
  <2>1. todo'[p] = Tail(todo[p])
    BY <1>2 DEF TypeInv, TypeOK
  <2> QED BY <1>5, <2>1
<1>12. \A i \in DOMAIN todo'[p] : Height[Head(todo[p])] < Height[todo'[p][i]]
  BY <1>9, <1>11 DEF HeadInv, Ascending
<1>13. \A q \in Proc : \A x \in InFlight(q) : x \in Chunk
  BY InFlightChunks
<1>14. Ascending'
  <2> SUFFICES ASSUME NEW q \in Proc
       PROVE  /\ \A i, j \in DOMAIN chan'[q] : i < j => Height[heap'[chan'[q][i]].block] < Height[heap'[chan'[q][j]].block]
              /\ rpc[q] = "lock" => \A i \in DOMAIN chan'[q] : Height[heap'[cur[q]].block] < Height[heap'[chan'[q][i]].block]
              /\ \A x \in InFlight(q)' : \A i \in DOMAIN todo'[q] : Height[heap'[x].block] < Height[todo'[q][i]]
              /\ \A i, j \in DOMAIN todo'[q] : i < j => Height[todo'[q][i]] < Height[todo'[q][j]]
    BY <1>2 DEF Ascending, HeightOf, BlockOf
  <2>1. CASE q # p
    <3>1. \A i \in DOMAIN chan[q] : chan[q][i] \in Chunk
      BY InFlightChunks
    <3>2. rpc[q] = "lock" => cur[q] \in Chunk
      BY DEF TypeInv, Pointers
    <3> QED BY <1>1, <1>7, <1>8, <1>13, <2>1, <3>1, <3>2 DEF HeadInv, Ascending, HeightOf, BlockOf
  <2>2. CASE q = p
    <3>1. \A x \in InFlight(p) : Height[heap'[x].block] < Height[Head(todo[p])] /\ heap'[x] = heap[x]
      BY <1>1, <1>10 DEF HeightOf, BlockOf
    <3>2. ASSUME NEW i \in DOMAIN chan'[p], NEW j \in DOMAIN chan'[p], i < j
          PROVE  Height[heap'[chan'[p][i]].block] < Height[heap'[chan'[p][j]].block]
      <4>1. i \in DOMAIN chan[p]
        BY <1>6, <3>2
      <4>2. CASE j \in DOMAIN chan[p]
        BY <1>1, <1>6, <3>2, <4>1, <4>2 DEF HeadInv, Ascending, HeightOf, BlockOf
      <4>3. CASE j = Len(chan[p]) + 1
        <5>1. chan[p][i] \in InFlight(p)
          BY <4>1 DEF InFlight
        <5> QED BY <1>1, <1>6, <3>1, <4>1, <4>3, <5>1
      <4> QED BY <1>6, <4>2, <4>3
    <3>3. ASSUME rpc[p] = "lock", NEW i \in DOMAIN chan'[p]
          PROVE  Height[heap'[cur[p]].block] < Height[heap'[chan'[p][i]].block]
      <4>1. cur[p] \in InFlight(p)
        BY <3>3 DEF InFlight
      <4>2. CASE i \in DOMAIN chan[p]
        BY <1>1, <1>6, <1>10, <3>3, <4>1, <4>2 DEF HeadInv, Ascending, HeightOf, BlockOf
      <4>3. CASE i = Len(chan[p]) + 1
        BY <1>1, <1>6, <3>1, <4>1, <4>3
      <4> QED BY <1>6, <4>2, <4>3
    <3>4. ASSUME NEW x \in InFlight(p)', NEW i \in DOMAIN todo'[p]
          PROVE  Height[heap'[x].block] < Height[todo'[p][i]]
      <4>1. CASE x = n
        BY <1>1, <1>12, <4>1
      <4>2. CASE x \in InFlight(p)
        BY <1>11, <3>1, <4>2 DEF HeadInv, Ascending, HeightOf, BlockOf
      <4> QED BY <1>8, <4>1, <4>2
    <3>5. ASSUME NEW i \in DOMAIN todo'[p], NEW j \in DOMAIN todo'[p], i < j
          PROVE  Height[todo'[p][i]] < Height[todo'[p][j]]
      BY <1>11, <3>5 DEF HeadInv, Ascending
    <3> QED BY <2>2, <3>2, <3>3, <3>4, <3>5
  <2> QED BY <2>1, <2>2
<1>15. WorkInTree'
  <2>1. \A q \in Proc : epc'[q] # "idle" => epc[q] # "idle" /\ base'[q] = base[q]
    BY <1>2 DEF TypeInv, TypeOK
  <2> QED BY <1>4, <1>8, <2>1 DEF HeadInv, WorkInTree
<1>16. RolledBelowHead'
  <2> SUFFICES ASSUME NEW m \in Tree'
       PROVE  Height[heap'[m].block] <= Height[heap'[scusp].block] \/ \E q \in Proc : m \in InFlight(q)'
    BY <1>2 DEF RolledBelowHead, HeightOf, BlockOf
  <2>1. CASE m = n
    BY <1>8, <2>1
  <2>2. CASE m \in Tree
    <3>1. heap'[m] = heap[m] /\ heap'[scusp] = heap[scusp]
      BY <1>1, <1>3, <2>2 DEF Tree
    <3>2. \A q \in Proc : m \in InFlight(q) => m \in InFlight(q)'
      BY <1>8
    <3> QED BY <2>2, <3>1, <3>2 DEF HeadInv, RolledBelowHead, HeightOf, BlockOf
  <2> QED BY <1>4, <2>1, <2>2
<1>17. HeadInWindow'
  BY <1>1, <1>2, <1>3, <1>4 DEF HeadInv, HeadInWindow, HeightOf, BlockOf
<1>18. OneCall' /\ NoneBroken'
  BY <1>2 DEF HeadInv, OneCall, NoneBroken, Calling
<1> QED BY <1>14, <1>15, <1>16, <1>17, <1>18 DEF HeadInv

LEMMA HeadExec ==
  ASSUME TypeInv, ShapeInv, OneCaller, HeadInv, NEW p \in Proc, ExecStep(p)
  PROVE  HeadInv'
<1>1. CASE Push(p)
  BY <1>1, HeadPush
<1>2. CASE Locate(p) \/ CheckRepeat(p) \/ Execute(p)
  <2>1. UNCHANGED <<heap, sroot, scusp, chan, rpc, cur, mode>>
    BY <1>2 DEF Locate, CheckRepeat, Execute, engineVars, rollVars, nodeVars
  <2>2. \A q \in Proc : todo'[q] = todo[q] \/ todo'[q] = <<>>
    BY <1>2 DEF Locate, CheckRepeat, Execute, ExecError, TypeInv, TypeOK
  <2>3. \A q \in Proc : epc'[q] # "idle" => base'[q] \in Tree
    <3>1. CASE Locate(p) /\ ~ExecError(p)
      <4>1. PICK n \in BaseChunks(Prev[Head(todo[p])]) : base' = [base EXCEPT ![p] = n]
        BY <3>1 DEF Locate
      <4>2. n \in Tree
        BY <4>1 DEF BaseChunks, HeadInv, HeadInWindow
      <4>3. \A q \in Proc \ {p} : epc'[q] = epc[q]
        BY <3>1 DEF Locate, TypeInv, TypeOK
      <4> QED BY <4>1, <4>2, <4>3 DEF HeadInv, WorkInTree, TypeInv, TypeOK
    <3>2. CASE ExecError(p) \/ ~Locate(p)
      <4>1. \A q \in Proc : epc'[q] # "idle" => epc[q] # "idle" /\ base'[q] = base[q]
        BY <1>2, <3>2 DEF CheckRepeat, Execute, ExecError, TypeInv, TypeOK
      <4> QED BY <4>1 DEF HeadInv, WorkInTree
    <3> QED BY <3>1, <3>2
  <2>4. OneCall' /\ NoneBroken'
    BY <2>1 DEF HeadInv, OneCall, NoneBroken, Calling
  <2> QED BY <2>1, <2>2, <2>3, <2>4, HeadFrame
<1> QED BY <1>1, <1>2 DEF ExecStep

LEMMA HeadRecv ==
  ASSUME TypeInv, HeadInv, NEW p \in Proc, Recv(p)
  PROVE  HeadInv'
<1>1. UNCHANGED <<heap, sroot, scusp, todo, epc, base, mode>>
  BY DEF Recv, engineVars, execVars, nodeVars
<1>2. chan[p] \in Seq(Chunk) /\ chan[p] # <<>> /\ rpc[p] = "recv"
  BY DEF Recv, TypeInv, TypeOK
<1>3. chan'[p] = Tail(chan[p]) /\ cur'[p] = chan[p][1] /\ rpc'[p] = "lock"
  BY <1>2 DEF Recv, TypeInv, TypeOK
<1>4. \A q \in Proc \ {p} : chan'[q] = chan[q] /\ cur'[q] = cur[q] /\ rpc'[q] = rpc[q]
  BY DEF Recv, TypeInv, TypeOK
<1>5. /\ 1 \in DOMAIN chan[p]
      /\ \A i \in DOMAIN chan'[p] : /\ i \in Nat /\ i + 1 \in DOMAIN chan[p] /\ 1 < i + 1
                                    /\ chan'[p][i] = chan[p][i + 1]
      /\ \A i \in DOMAIN chan[p] : i # 1 => i - 1 \in DOMAIN chan'[p] /\ chan'[p][i - 1] = chan[p][i]
  BY <1>2, <1>3
<1>6. \A q \in Proc : InFlight(q)' = InFlight(q)
  <2> SUFFICES ASSUME NEW q \in Proc PROVE InFlight(q)' = InFlight(q)
    OBVIOUS
  <2>1. CASE q # p
    BY <1>4, <2>1 DEF InFlight
  <2>2. CASE q = p
    <3>1. InFlight(p)' = {chan'[p][i] : i \in DOMAIN chan'[p]} \union {chan[p][1]}
      BY <1>3 DEF InFlight
    <3>2. InFlight(p) = {chan[p][i] : i \in DOMAIN chan[p]}
      BY <1>2 DEF InFlight
    <3> QED BY <1>5, <2>2, <3>1, <3>2
  <2> QED BY <2>1, <2>2
<1>7. Ascending'
  <2> SUFFICES ASSUME NEW q \in Proc
       PROVE  /\ \A i, j \in DOMAIN chan'[q] : i < j => HeightOf(chan'[q][i]) < HeightOf(chan'[q][j])
              /\ rpc'[q] = "lock" => \A i \in DOMAIN chan'[q] : HeightOf(cur'[q]) < HeightOf(chan'[q][i])
              /\ \A x \in InFlight(q) : \A i \in DOMAIN todo[q] : HeightOf(x) < Height[todo[q][i]]
              /\ \A i, j \in DOMAIN todo[q] : i < j => Height[todo[q][i]] < Height[todo[q][j]]
    BY <1>1, <1>6 DEF Ascending, HeightOf, BlockOf
  <2>1. CASE q # p
    BY <1>4, <2>1 DEF HeadInv, Ascending
  <2>2. CASE q = p
    <3>1. /\ \A i, j \in DOMAIN chan[p] : i < j => HeightOf(chan[p][i]) < HeightOf(chan[p][j])
          /\ \A x \in InFlight(p) : \A i \in DOMAIN todo[p] : HeightOf(x) < Height[todo[p][i]]
          /\ \A i, j \in DOMAIN todo[p] : i < j => Height[todo[p][i]] < Height[todo[p][j]]
      BY DEF HeadInv, Ascending
    <3>2. ASSUME NEW i \in DOMAIN chan'[p], NEW j \in DOMAIN chan'[p], i < j
          PROVE  HeightOf(chan'[p][i]) < HeightOf(chan'[p][j])
      <4>1. i + 1 < j + 1 /\ i + 1 \in DOMAIN chan[p] /\ j + 1 \in DOMAIN chan[p]
        BY <1>5, <3>2
      <4>2. HeightOf(chan[p][i + 1]) < HeightOf(chan[p][j + 1])
        BY <3>1, <4>1
      <4> QED BY <1>5, <4>2
    <3>3. ASSUME NEW i \in DOMAIN chan'[p]
          PROVE  HeightOf(cur'[p]) < HeightOf(chan'[p][i])
      <4>1. HeightOf(chan[p][1]) < HeightOf(chan[p][i + 1])
        BY <1>5, <3>1
      <4> QED BY <1>3, <1>5, <4>1
    <3> QED BY <2>2, <3>1, <3>2, <3>3
  <2> QED BY <2>1, <2>2
<1>8. WorkInTree' /\ RolledBelowHead' /\ HeadInWindow'
  BY <1>1, <1>6 DEF HeadInv, WorkInTree, RolledBelowHead, HeadInWindow, Tree, Chunk, HeightOf, BlockOf
<1>9. \A q \in Proc : (rpc'[q] # "idle" <=> rpc[q] # "idle") /\ (rpc'[q] = "broken" => rpc[q] = "broken")
  BY <1>2, <1>3, <1>4
<1>10. Boot \in Proc /\ Caller \subseteq Proc
  BY DEF Proc
<1>11. OneCall' /\ NoneBroken'
  BY <1>1, <1>9, <1>10 DEF HeadInv, OneCall, NoneBroken, Calling
<1> QED BY <1>7, <1>8, <1>11 DEF HeadInv

(* Once a chunk is rolled it is in flight no more.                          *)
LEMMA Landed ==
  ASSUME TypeInv, NEW p \in Proc, rpc[p] = "lock", UNCHANGED <<heap, chan, cur, todo, mode>>,
         rpc' = [rpc EXCEPT ![p] = "data"], HeadInv
  PROVE  /\ \A q \in Proc : InFlight(q)' \subseteq InFlight(q) /\ InFlight(q) \subseteq InFlight(q)' \union {cur[p]}
         /\ Ascending' /\ OneCall' /\ NoneBroken'
<1>1. \A q \in Proc : rpc'[q] = "lock" => rpc[q] = "lock"
  BY DEF TypeInv, TypeOK
<1>2. \A q \in Proc : q # p => rpc'[q] = rpc[q]
  BY DEF TypeInv, TypeOK
<1>3. \A q \in Proc : InFlight(q)' \subseteq InFlight(q) /\ InFlight(q) \subseteq InFlight(q)' \union {cur[p]}
  BY <1>1, <1>2 DEF InFlight
<1>4. Ascending'
  <2> SUFFICES ASSUME NEW q \in Proc
       PROVE  /\ \A i, j \in DOMAIN chan[q] : i < j => HeightOf(chan[q][i]) < HeightOf(chan[q][j])
              /\ rpc'[q] = "lock" => \A i \in DOMAIN chan[q] : HeightOf(cur[q]) < HeightOf(chan[q][i])
              /\ \A x \in InFlight(q)' : \A i \in DOMAIN todo[q] : HeightOf(x) < Height[todo[q][i]]
              /\ \A i, j \in DOMAIN todo[q] : i < j => Height[todo[q][i]] < Height[todo[q][j]]
    BY DEF Ascending, HeightOf, BlockOf
  <2> QED BY <1>1, <1>3 DEF HeadInv, Ascending
<1>5. OneCall' /\ NoneBroken'
  BY DEF HeadInv, OneCall, NoneBroken, Calling, TypeInv, TypeOK
<1> QED BY <1>3, <1>4, <1>5

LEMMA HeadRoll ==
  ASSUME TypeInv, ShapeInv, OneCaller, HeadInv, NEW p \in Proc,
         Uncle(p) \/ NewHead(p) \/ NewHeadAndRoot(p)
  PROVE  HeadInv'
<1>1. /\ UNCHANGED <<heap, chan, cur, todo, mode, epc, base>> /\ rpc' = [rpc EXCEPT ![p] = "data"]
      /\ rpc[p] = "lock" /\ Up /\ Calling(p)
  BY DEF Uncle, NewHead, NewHeadAndRoot, StartStore, Higher, Rolling, Calling, nodeVars, execVars
<1>2. /\ \A q \in Proc : InFlight(q)' \subseteq InFlight(q) /\ InFlight(q) \subseteq InFlight(q)' \union {cur[p]}
      /\ Ascending' /\ OneCall' /\ NoneBroken'
  BY <1>1, Landed
<1>3. cur[p] \in Tree /\ scusp \in Tree
  BY <1>1 DEF HeadInv, WorkInTree, HeadInWindow, InFlight
<1>4. CASE Uncle(p)
  <2>1. UNCHANGED <<sroot, scusp>> /\ HeightOf(cur[p]) <= HeightOf(scusp)
    BY <1>4 DEF Uncle
  <2>2. Tree' = Tree
    BY <1>1, <2>1 DEF Tree, Chunk
  <2>3. WorkInTree'
    BY <1>1, <1>2, <2>2 DEF HeadInv, WorkInTree
  <2>4. RolledBelowHead'
    <3> SUFFICES ASSUME NEW n \in Tree
                 PROVE  HeightOf(n) <= HeightOf(scusp) \/ \E q \in Proc : n \in InFlight(q)'
      BY <1>1, <2>1, <2>2 DEF RolledBelowHead, HeightOf, BlockOf
    <3> QED BY <1>2, <2>1 DEF HeadInv, RolledBelowHead
  <2>5. HeadInWindow'
    BY <1>1, <2>1, <2>2 DEF HeadInv, HeadInWindow, HeightOf, BlockOf
  <2> QED BY <1>2, <2>3, <2>4, <2>5 DEF HeadInv
<1>5. CASE NewHead(p) \/ NewHeadAndRoot(p)
  <2>1. Higher(p) /\ scusp' = cur[p]
    BY <1>5 DEF NewHead, NewHeadAndRoot
  <2>2. /\ HeightOf(cur[p]) = HeightOf(scusp) + 1
        /\ \A x \in InFlight(p) : cur[p] \in heap[x].path
        /\ epc[p] # "idle" => cur[p] \in heap[base[p]].path
    BY <2>1, HigherFacts
  <2>3. HeightOf(scusp) \in Nat /\ HeightOf(sroot) \in Nat /\ HeightOf(cur[p]) \in Nat /\ UnstableBlock \in Nat
    BY <1>3, TreeHeights, CallAssumption
  <2>4. /\ sroot' \in heap[cur[p]].path /\ sroot' \in Tree
        /\ HeightOf(cur[p]) <= HeightOf(sroot') + UnstableBlock
    <3>1. CASE NewHead(p)
      <4>1. sroot' = sroot /\ ~Deep(p)
        BY <3>1 DEF NewHead
      <4>2. sroot \in heap[cur[p]].path /\ sroot \in Tree
        BY <1>3 DEF Tree, TypeInv, TypeOK
      <4> QED BY <2>3, <4>1, <4>2 DEF Deep
    <3>2. CASE NewHeadAndRoot(p)
      <4>1. Deep(p) /\ sroot' \in NewRoots(cur[p]) /\ HeightOf(sroot') = HeightOf(sroot) + 1
        BY <3>2 DEF NewHeadAndRoot
      <4>2. /\ sroot' \in heap[cur[p]].path /\ sroot' \in Tree
            /\ HeightOf(cur[p]) = HeightOf(sroot) + UnstableBlock + 1
        BY <2>1, <4>1, NewRootFacts
      <4> QED BY <2>3, <4>1, <4>2
    <3> QED BY <1>5, <3>1, <3>2
  <2>5. TypeOK /\ PathsAreChains
    BY DEF TypeInv, ShapeInv
  <2>6. \A n \in Chunk : cur[p] \in heap[n].path => sroot' \in heap[n].path
    <3> SUFFICES ASSUME NEW n \in Chunk, cur[p] \in heap[n].path PROVE sroot' \in heap[n].path
      OBVIOUS
    <3>1. heap[cur[p]].path \subseteq heap[n].path
      BY <2>5, PathHeight
    <3> QED BY <2>4, <3>1
  <2>7. Tree' \subseteq Tree
    <3> SUFFICES ASSUME NEW n \in Chunk, sroot' \in heap[n].path PROVE sroot \in heap[n].path
      BY <1>1 DEF Tree, Chunk
    <3>1. heap[sroot'].path \subseteq heap[n].path
      BY <2>5, PathHeight
    <3>2. sroot \in heap[sroot'].path
      BY <2>4 DEF Tree
    <3> QED BY <3>1, <3>2
  <2>8. \A n \in Chunk : cur[p] \in heap[n].path => n \in Tree'
    BY <1>1, <2>6 DEF Tree, Chunk
  <2>9. WorkInTree'
    <3>1. \A q \in Proc \ {p} : InFlight(q) = {} /\ epc[q] = "idle"
      BY <1>1, Alone DEF HeadInv
    <3>2. \A x \in InFlight(p) : x \in Tree'
      BY <2>2, <2>8, InFlightChunks
    <3>3. epc[p] # "idle" => base[p] \in Chunk /\ base[p] \in Tree'
      BY <2>2, <2>8 DEF TypeInv, Pointers
    <3> QED BY <1>1, <1>2, <3>1, <3>2, <3>3 DEF WorkInTree
  <2>10. RolledBelowHead'
    <3> SUFFICES ASSUME NEW n \in Tree
                 PROVE  HeightOf(n) <= HeightOf(cur[p]) \/ \E q \in Proc : n \in InFlight(q)'
      BY <1>1, <2>1, <2>7 DEF RolledBelowHead, HeightOf, BlockOf
    <3>1. HeightOf(n) \in Nat
      BY TreeHeights
    <3>2. CASE HeightOf(n) <= HeightOf(scusp)
      BY <2>2, <2>3, <3>1, <3>2
    <3>3. CASE \E q \in Proc : n \in InFlight(q)
      BY <1>2, <2>3, <3>3
    <3> QED BY <3>2, <3>3 DEF HeadInv, RolledBelowHead
  <2>11. HeadInWindow'
    <3>1. cur[p] \in Chunk /\ cur[p] \in heap[cur[p]].path
      BY <1>3 DEF Tree, TypeInv, TypeOK
    <3>2. cur[p] \in Tree'
      BY <2>8, <3>1
    <3> QED BY <1>1, <2>1, <2>4, <3>2 DEF HeadInWindow, HeightOf, BlockOf
  <2> QED BY <1>2, <2>9, <2>10, <2>11 DEF HeadInv
<1> QED BY <1>4, <1>5

LEMMA HeadStore ==
  ASSUME TypeInv, ShapeInv, OneCaller, HeadInv, NEW p \in Proc,
         PutBlockData(p) \/ PutBlockPtr(p) \/ PutStatus(p) \/ RewritePtr(p) \/ EndRewrite(p)
  PROVE  HeadInv'
<1>1. UNCHANGED <<heap, sroot, scusp, chan, todo, epc, base, mode>>
  BY DEF PutBlockData, PutBlockPtr, PutStatus, RewritePtr, EndRewrite, StoreStep, engineVars, nodeVars, execVars
<1>2. rpc[p] \in {"data", "ptr", "status", "walk"} /\ rpc'[p] \in {"ptr", "status", "walk", "recv"}
  BY DEF PutBlockData, PutBlockPtr, PutStatus, RewritePtr, EndRewrite, StoreStep,
     AfterData, AfterPtr, AfterStatus, TypeInv, TypeOK
<1>3. \A q \in Proc \ {p} : rpc'[q] = rpc[q] /\ cur'[q] = cur[q]
  BY DEF PutBlockData, PutBlockPtr, PutStatus, RewritePtr, EndRewrite, StoreStep, TypeInv, TypeOK
<1>4. \A q \in Proc : (rpc'[q] # "idle" <=> rpc[q] # "idle") /\ (rpc'[q] = "broken" => rpc[q] = "broken")
  BY <1>2, <1>3
<1>5. Boot \in Proc /\ Caller \subseteq Proc
  BY DEF Proc
<1>6. OneCall' /\ NoneBroken'
  BY <1>1, <1>4, <1>5 DEF HeadInv, OneCall, NoneBroken, Calling
<1>7. \A q \in Proc : epc'[q] # "idle" => base'[q] \in Tree
  BY <1>1 DEF HeadInv, WorkInTree
<1>8. \A q \in Proc : /\ (rpc'[q] = "lock") <=> (rpc[q] = "lock")
                      /\ rpc[q] = "lock" => cur'[q] = cur[q]
  BY <1>2, <1>3
<1> QED BY <1>1, <1>6, <1>7, <1>8, HeadFrame

LEMMA HeadReturn ==
  ASSUME TypeInv, HeadInv, NEW p \in Proc, Return(p)
  PROVE  HeadInv'
<1>1. chan[p] = <<>> /\ rpc[p] = "recv"
  BY DEF Return, Finished, HeadInv, NoneBroken
<1>2. UNCHANGED <<heap, sroot, scusp, chan, todo, epc, base, cur>>
  BY <1>1 DEF Return, engineVars, execVars, TypeInv, TypeOK
<1>3. rpc' = [rpc EXCEPT ![p] = "idle"] /\ mode' \in {mode, "panic"}
  BY DEF Return
<1>4. OneCall' /\ NoneBroken'
  BY <1>3 DEF HeadInv, OneCall, NoneBroken, Calling, Proc, TypeInv, TypeOK
<1>5. \A q \in Proc : /\ (rpc'[q] = "lock") <=> (rpc[q] = "lock")
                      /\ epc'[q] # "idle" => base'[q] \in Tree
  BY <1>1, <1>2, <1>3 DEF HeadInv, WorkInTree, TypeInv, TypeOK
<1> QED BY <1>2, <1>4, <1>5, HeadFrame

(* The blocks of a call come in order, whoever calls.                       *)
LEMMA HeadStart ==
  ASSUME TypeInv, ShapeInv, OneCaller, HeadInv, (\E p \in Proc : Call(p)) \/ RebuildNext
  PROVE  HeadInv'
<1>1. ASSUME NEW p \in Proc, Call(p) PROVE HeadInv'
  <2>1. PICK s \in Batch : \E n \in 1..Len(s) : Consecutive(s, n) /\ Enter(p, SubSeq(s, 1, n))
    BY <1>1 DEF Call
  <2>0. PICK n \in 1..Len(s) : Consecutive(s, n) /\ Enter(p, SubSeq(s, 1, n))
    BY <2>1
  <2> DEFINE z == SubSeq(s, 1, n)
  <2>2. s \in Seq(Block)
    BY CallAssumption
  <2>3. z \in Seq(Block) /\ DOMAIN z = 1..n /\ n \in Nat /\ \A i \in 1..n : z[i] = s[i] /\ s[i] \in Block
    BY <2>2
  <2> HIDE DEF z
  <2>4. \A i, j \in DOMAIN z : i < j => Height[z[i]] < Height[z[j]]
    <3>1. \A i \in 1..n : Height[s[i]] = Height[s[1]] + i - 1 /\ Height[s[i]] \in Nat
      BY <2>0, <2>3, BlockAssumption DEF Consecutive
    <3>2. ASSUME NEW i \in DOMAIN z, NEW j \in DOMAIN z, i < j PROVE Height[z[i]] < Height[z[j]]
      <4>1. i \in 1..n /\ j \in 1..n /\ 1 \in 1..n /\ i \in Nat /\ j \in Nat
        BY <2>3
      <4>2. Height[s[1]] \in Nat
        BY <2>3, <4>1, BlockAssumption
      <4>3. Height[s[i]] = Height[s[1]] + i - 1 /\ Height[s[j]] = Height[s[1]] + j - 1
        BY <3>1, <4>1
      <4>4. z[i] = s[i] /\ z[j] = s[j]
        BY <2>3, <4>1
      <4> QED BY <3>2, <4>1, <4>2, <4>3, <4>4
    <3> QED BY <3>2
  <2>5. OneCall'
    <3>1. mode' = "run" /\ p \in Caller /\ Boot # p /\ Boot \in Proc
      BY <1>1, CallAssumption DEF Call, nodeVars, Proc
    <3>2. rpc'[Boot] = "idle"
      BY <1>1, <2>0, <3>1 DEF Call, Enter, HeadInv, OneCall, Calling, TypeInv, TypeOK
    <3> QED BY <3>1, <3>2 DEF OneCall, Calling
  <2>6. ~Calling(p) /\ Enter(p, z)
    BY <1>1, <2>0 DEF Call, Calling, z
  <2> QED BY <2>3, <2>4, <2>5, <2>6, HeadEnter
<1>2. CASE RebuildNext
  <2> DEFINE z == <<blockptr[nexth]>>
  <2>1. blockptr[nexth] \in Block
    BY <1>2 DEF RebuildNext, Loadable, TypeInv, TypeOK
  <2>2. z \in Seq(Block) /\ \A i, j \in DOMAIN z : i < j => Height[z[i]] < Height[z[j]]
    BY <2>1
  <2> HIDE DEF z
  <2>3. Boot \in Proc /\ ~Calling(Boot) /\ Enter(Boot, z) /\ mode = "rebuild" /\ mode' = mode
    BY <1>2 DEF RebuildNext, Proc, Calling, z
  <2>4. OneCall'
    BY <2>3, CallAssumption DEF Enter, HeadInv, OneCall, Calling, TypeInv, TypeOK, Proc
  <2> QED BY <2>2, <2>3, <2>4, HeadEnter
<1> QED BY <1>1, <1>2

LEMMA HeadRestart ==
  ASSUME TypeInv, NEW wipe \in BOOLEAN, Restart(wipe)
  PROVE  HeadInv'
<1>1. /\ Chunk' = {1} /\ heap'[1].path = {1} /\ sroot' = 1 /\ scusp' = 1
      /\ \A p \in Proc : /\ todo'[p] = <<>> /\ epc'[p] = "idle" /\ rpc'[p] = "idle" /\ chan'[p] = <<>>
  BY RestartHeap
<1>2. \A p \in Proc : InFlight(p)' = {}
  BY <1>1 DEF InFlight
<1>3. Tree' = {1}
  BY <1>1 DEF Tree
<1>4. Height[heap'[1].block] \in Nat
  <2>1. heap'[1].block \in Block
    <3>1. TypeInv'
      BY TypeRestart
    <3>2. heap' \in Seq(ChunkRecord)
      BY <3>1 DEF TypeInv, TypeOK
    <3>3. 1 \in DOMAIN heap'
      BY <1>1 DEF Chunk
    <3>4. heap'[1] \in ChunkRecord
      BY <3>2, <3>3
    <3> QED BY <3>4 DEF ChunkRecord
  <2> QED BY <2>1, BlockAssumption
<1>5. Ascending'
  BY <1>1, <1>2 DEF Ascending
<1>6. WorkInTree' /\ NoneBroken' /\ OneCall'
  BY <1>1, <1>2 DEF WorkInTree, NoneBroken, OneCall, Calling, Proc
<1>7. RolledBelowHead' /\ HeadInWindow'
  BY <1>1, <1>3, <1>4, CallAssumption DEF RolledBelowHead, HeadInWindow, HeightOf, BlockOf
<1> QED BY <1>5, <1>6, <1>7 DEF HeadInv

LEMMA HeadInit == Init => HeadInv
<1> SUFFICES ASSUME Init PROVE HeadInv
  OBVIOUS
<1>1. /\ Chunk = {1} /\ heap[1].path = {1} /\ heap[1].block = Genesis /\ sroot = 1 /\ scusp = 1
      /\ \A p \in Proc : /\ todo[p] = <<>> /\ epc[p] = "idle" /\ rpc[p] = "idle" /\ chan[p] = <<>>
  BY DEF Init, NoCalls, Each, Base, Chunk
<1>2. (\A p \in Proc : InFlight(p) = {}) /\ Tree = {1} /\ Height[heap[1].block] \in Nat
  BY <1>1, BlockAssumption DEF InFlight, Tree
<1>3. Ascending /\ WorkInTree /\ NoneBroken /\ OneCall
  BY <1>1, <1>2 DEF Ascending, WorkInTree, NoneBroken, OneCall, Calling, Proc
<1>4. RolledBelowHead /\ HeadInWindow
  BY <1>1, <1>2, CallAssumption DEF RolledBelowHead, HeadInWindow, HeightOf, BlockOf
<1> QED BY <1>3, <1>4 DEF HeadInv

LEMMA HeadNext == TypeInv /\ ShapeInv /\ OneCaller /\ HeadInv /\ [Next]_vars => HeadInv'
<1> SUFFICES ASSUME TypeInv, ShapeInv, OneCaller, HeadInv, [Next]_vars PROVE HeadInv'
  OBVIOUS
<1>1. ASSUME NEW p \in Proc, RollStep(p) PROVE HeadInv'
  <2>1. CASE Recv(p)
    BY <2>1, HeadRecv
  <2>2. CASE Uncle(p) \/ NewHead(p) \/ NewHeadAndRoot(p)
    BY <2>2, HeadRoll
  <2>3. CASE HeadGone(p) \/ RollError(p)
    BY <2>3, NoRollError
  <2>4. CASE PutBlockData(p) \/ PutBlockPtr(p) \/ PutStatus(p) \/ RewritePtr(p) \/ EndRewrite(p)
    BY <2>4, HeadStore
  <2>5. CASE Return(p)
    BY <2>5, HeadReturn
  <2> QED BY <1>1, <2>1, <2>2, <2>3, <2>4, <2>5 DEF RollStep
<1>2. CASE RebuildDone
  <2>1. UNCHANGED <<heap, sroot, scusp, chan, todo, epc, base, cur, rpc>> /\ mode = "rebuild" /\ ~Calling(Boot)
    BY <1>2 DEF RebuildDone, engineVars, execVars, rollVars, Calling
  <2>2. OneCall' /\ NoneBroken'
    BY <2>1 DEF RebuildDone, HeadInv, OneCall, NoneBroken, Calling
  <2>3. \A q \in Proc : epc'[q] # "idle" => base'[q] \in Tree
    BY <2>1 DEF HeadInv, WorkInTree
  <2> QED BY <2>1, <2>2, <2>3, HeadFrame
<1>3. CASE UNCHANGED vars
  <2>1. UNCHANGED <<heap, sroot, scusp, chan, todo, epc, base, cur, rpc, mode>>
    BY <1>3 DEF vars, engineVars, nodeVars, execVars, rollVars
  <2>2. OneCall' /\ NoneBroken'
    BY <2>1 DEF HeadInv, OneCall, NoneBroken, Calling
  <2>3. \A q \in Proc : epc'[q] # "idle" => base'[q] \in Tree
    BY <2>1 DEF HeadInv, WorkInTree
  <2> QED BY <2>1, <2>2, <2>3, HeadFrame
<1> QED BY <1>1, <1>2, <1>3, HeadStart, HeadExec, HeadRestart DEF Next

(* With one call at a time, wherever it is interleaved and killed, the head *)
(* never leaves the tree of the root nor its window: no upgrade of the      *)
(* roller's weak pointer fails and no roll is skipped or refused.           *)
THEOREM OneCallKeepsTheWindow == ASSUME OneCaller PROVE Spec => []HeadInWindow
<1>1. TypeInv /\ ShapeInv /\ HeadInv /\ [Next]_vars => HeadInv'
  BY HeadNext
<1>2. HeadInv => HeadInWindow
  BY DEF HeadInv
<1> QED BY <1>1, <1>2, HeadInit, TypeInvAlways, ShapeAlways, PTL DEF Spec

(* With one call at a time, once it has returned its head is a highest      *)
(* block of the tree: no block that was executed and sent on is forgotten.  *)
THEOREM OneCallHighestHead == ASSUME OneCaller PROVE Spec => []HeadIsHighest
<1>1. TypeInv /\ ShapeInv /\ HeadInv /\ [Next]_vars => HeadInv'
  BY HeadNext
<1>2. ShapeInv /\ HeadInv => HeadIsHighest
  <2> SUFFICES ASSUME ShapeInv, HeadInv, \A p \in Proc : ~Calling(p)
               PROVE  \A n \in Tree : HeightOf(n) <= HeightOf(scusp)
    BY DEF HeadIsHighest
  <2>1. \A p \in Proc : chan[p] = <<>> /\ rpc[p] # "lock"
    BY DEF ShapeInv, NothingLeft, Calling
  <2>2. \A p \in Proc : InFlight(p) = {}
    BY <2>1 DEF InFlight
  <2> QED BY <2>2 DEF HeadInv, RolledBelowHead
<1> QED BY <1>1, <1>2, HeadInit, TypeInvAlways, ShapeAlways, PTL DEF Spec

-----------------------------------------------------------------------------
(* One call at a time: the children of a chunk.                             *)

LEMMA ChildrenPush ==
  ASSUME TypeInv, ShapeInv, OneCaller, HeadInv, ChildrenDiffer, NEW p \in Proc, Push(p)
  PROVE  ChildrenDiffer'
<1> DEFINE n == Len(heap) + 1
           b == base[p]
<1>1. /\ n \notin Chunk /\ Chunk' = Chunk \union {n} /\ \A m \in Chunk : m < n /\ m \in Nat
      /\ n \in Nat /\ b \in Chunk
      /\ \A m \in Chunk : heap'[m] = heap[m]
      /\ heap'[n].path = heap[b].path \union {n}
      /\ heap'[n].block = Head(todo[p])
  BY PushHeap
<1>2. /\ Up /\ Calling(p) /\ epc[p] = "push" /\ epc' = [epc EXCEPT ![p] = "idle"]
      /\ Height[heap'[n].block] = HeightOf(b) + 1
  BY <1>1 DEF Push, Up, Calling, ShapeInv, BaseFits, NothingLeft
<1> HIDE DEF n, b
<1>3. TypeOK /\ PathsAreChains
  BY DEF TypeInv, ShapeInv
<1>4. \A m \in Chunk : heap[m].path \subseteq Chunk /\ HeightOf(m) \in Nat
  BY <1>3, PathHeight, ChunkType DEF TypeOK
<1>5. \A m \in Chunk' : \A k \in Chunk : k \in Children(m)' <=> m \in Chunk /\ k \in Children(m)
  <2> SUFFICES ASSUME NEW m \in Chunk', NEW k \in Chunk
               PROVE  k \in Children(m)' <=> m \in Chunk /\ k \in Children(m)
    OBVIOUS
  <2>1. CASE m = n
    BY <1>1, <1>4, <2>1 DEF Children
  <2>2. CASE m \in Chunk
    BY <1>1, <2>2 DEF Children, HeightOf, BlockOf
  <2> QED BY <1>1, <2>1, <2>2
<1>6. \A m \in Chunk' : n \in Children(m)' => m = b
  <2> SUFFICES ASSUME NEW m \in Chunk', n \in Children(m)' PROVE m = b
    OBVIOUS
  <2>1. m \in heap'[n].path /\ Height[heap'[n].block] = Height[heap'[m].block] + 1
    BY DEF Children, HeightOf, BlockOf
  <2>2. m # n
    BY <1>1, <1>2, <1>4, <2>1
  <2>3. m \in heap[b].path /\ m \in Chunk /\ HeightOf(m) = HeightOf(b)
    BY <1>1, <1>2, <1>4, <2>1, <2>2 DEF HeightOf, BlockOf
  <2>4. b \in heap[b].path
    BY <1>1, <1>3 DEF TypeOK
  <2> QED BY <1>1, <1>3, <2>3, <2>4, PathHeight
<1>7. \A k \in Children(b) : BlockOf(k) # heap'[n].block
  BY <1>1, <1>2 DEF ChildrenDiffer, b
<1>8. ASSUME NEW m \in Chunk', NEW j \in Children(m)', NEW k \in Children(m)',
             heap'[j].block = heap'[k].block
      PROVE  j = k
  <2>1. j \in Chunk' /\ k \in Chunk'
    BY DEF Children
  <2>2. CASE j \in Chunk /\ k \in Chunk
    BY <1>1, <1>5, <1>8, <2>2 DEF ChildrenDiffer, BlockOf
  <2>3. CASE j = n /\ k \in Chunk
    BY <1>1, <1>5, <1>6, <1>7, <1>8, <2>3 DEF BlockOf
  <2>4. CASE j \in Chunk /\ k = n
    BY <1>1, <1>5, <1>6, <1>7, <1>8, <2>4 DEF BlockOf
  <2> QED BY <1>1, <2>1, <2>2, <2>3, <2>4
<1>9. \A q \in Proc : epc'[q] = "idle"
  BY <1>2, Alone DEF HeadInv, TypeInv, TypeOK
<1> QED BY <1>8, <1>9 DEF ChildrenDiffer, BlockOf

LEMMA ChildrenRestart ==
  ASSUME TypeInv, NEW wipe \in BOOLEAN, Restart(wipe)
  PROVE  ChildrenDiffer'
<1>1. Chunk' = {1} /\ \A p \in Proc : epc'[p] = "idle"
  BY RestartHeap
<1>2. \A n \in Chunk' : \A j, k \in Children(n)' : j = k
  BY <1>1 DEF Children
<1> QED BY <1>1, <1>2 DEF ChildrenDiffer

(* Any other step leaves the tree, and what it does not check, as it is.    *)
LEMMA ChildrenFrame ==
  ASSUME ChildrenDiffer, heap' = heap,
         \A q \in Proc : epc'[q] \in {"exec", "push"} =>
           \/ epc[q] \in {"exec", "push"} /\ base'[q] = base[q] /\ todo'[q] = todo[q]
           \/ \A k \in Children(base'[q]) : BlockOf(k) # Head(todo'[q])
  PROVE  ChildrenDiffer'
<1>1. Chunk' = Chunk /\ \A n : Children(n)' = Children(n)
  BY DEF Chunk, Children, HeightOf, BlockOf
<1>2. ASSUME NEW q \in Proc, epc'[q] \in {"exec", "push"}, NEW k \in Children(base'[q])
      PROVE  heap[k].block # Head(todo'[q])
  BY <1>2 DEF ChildrenDiffer, BlockOf
<1>3. \A q \in Proc : Children(base[q])' = Children(base'[q])
  BY DEF Chunk, Children, HeightOf, BlockOf
<1>4. \A p \in Proc : epc'[p] \in {"exec", "push"} =>
        \A k \in Children(base[p])' : heap'[k].block # Head(todo'[p])
  BY <1>2, <1>3
<1>5. \A n \in Chunk' : \A j, k \in Children(n)' : heap'[j].block = heap'[k].block => j = k
  BY <1>1 DEF ChildrenDiffer, BlockOf
<1> QED BY <1>4, <1>5 DEF ChildrenDiffer, BlockOf

LEMMA ChildrenNext ==
  TypeInv /\ ShapeInv /\ OneCaller /\ HeadInv /\ ChildrenDiffer /\ [Next]_vars => ChildrenDiffer'
<1> SUFFICES ASSUME TypeInv, ShapeInv, OneCaller, HeadInv, ChildrenDiffer, [Next]_vars
             PROVE  ChildrenDiffer'
  OBVIOUS
<1>1. ASSUME NEW p \in Proc, Locate(p) \/ CheckRepeat(p) \/ Execute(p) PROVE ChildrenDiffer'
  <2>1. heap' = heap
    BY <1>1 DEF Locate, CheckRepeat, Execute, engineVars
  <2>2. \A q \in Proc \ {p} : epc'[q] = epc[q] /\ base'[q] = base[q] /\ todo'[q] = todo[q]
    BY <1>1 DEF Locate, CheckRepeat, Execute, ExecError, TypeInv, TypeOK
  <2>3. epc'[p] \in {"exec", "push"} =>
          \/ epc[p] \in {"exec", "push"} /\ base'[p] = base[p] /\ todo'[p] = todo[p]
          \/ \A k \in Children(base'[p]) : BlockOf(k) # Head(todo'[p])
    <3>1. CASE Locate(p)
      BY <3>1 DEF Locate, ExecError, TypeInv, TypeOK
    <3>2. CASE CheckRepeat(p)
      BY <3>2 DEF CheckRepeat, ExecError, TypeInv, TypeOK
    <3>3. CASE Execute(p)
      BY <3>3 DEF Execute, ExecError, TypeInv, TypeOK
    <3> QED BY <1>1, <3>1, <3>2, <3>3
  <2> QED BY <2>1, <2>2, <2>3, ChildrenFrame
<1>2. ASSUME NEW p \in Proc, Push(p) PROVE ChildrenDiffer'
  BY <1>2, ChildrenPush
<1>3. ASSUME NEW p \in Proc, NEW s, epc[p] = "idle", Enter(p, s) PROVE ChildrenDiffer'
  <2>1. heap' = heap /\ epc' = epc /\ base' = base /\ \A q \in Proc \ {p} : todo'[q] = todo[q]
    BY <1>3 DEF Enter, engineVars, TypeInv, TypeOK
  <2> QED BY <1>3, <2>1, ChildrenFrame
<1>4. ASSUME NEW p \in Proc, Call(p) PROVE ChildrenDiffer'
  <2>1. epc[p] = "idle"
    BY <1>4 DEF Call, ShapeInv, NothingLeft, Calling
  <2> QED BY <1>3, <1>4, <2>1 DEF Call
<1>5. CASE RebuildNext
  <2>1. epc[Boot] = "idle" /\ Boot \in Proc
    BY <1>5 DEF RebuildNext, ShapeInv, NothingLeft, Calling, Proc
  <2> QED BY <1>3, <1>5, <2>1 DEF RebuildNext
<1>6. ASSUME UNCHANGED <<heap, todo, epc, base>> PROVE ChildrenDiffer'
  BY <1>6, ChildrenFrame
<1>7. ASSUME NEW p \in Proc, RollStep(p) PROVE ChildrenDiffer'
  <2>1. UNCHANGED <<heap, todo, epc, base>>
    BY <1>7 DEF RollStep, Recv, HeadGone, Uncle, NewHead, NewHeadAndRoot, RollError, StartStore,
       PutBlockData, PutBlockPtr, PutStatus, RewritePtr, EndRewrite, Return, StoreStep, engineVars, execVars
  <2> QED BY <2>1, <1>6
<1>8. CASE RebuildDone
  BY <1>6, <1>8 DEF RebuildDone, engineVars, execVars
<1>9. CASE UNCHANGED vars
  BY <1>6, <1>9 DEF vars, engineVars, execVars
<1> QED BY <1>1, <1>2, <1>4, <1>5, <1>7, <1>8, <1>9, ChildrenRestart DEF Next, ExecStep

(* With one call at a time no chunk of the tree has two children of one     *)
(* block: what repeat_check saw still holds when the new chunk is pushed,   *)
(* although the lock was dropped in between.                                *)
THEOREM OneCallNoRepeat == ASSUME OneCaller PROVE Spec => []NoRepeat
<1>1. Init => ChildrenDiffer
  <2> SUFFICES ASSUME Init PROVE ChildrenDiffer
    OBVIOUS
  <2>1. Chunk = {1} /\ \A p \in Proc : epc[p] = "idle"
    BY DEF Init, NoCalls, Each, Base, Chunk
  <2>2. \A n \in Chunk : \A j, k \in Children(n) : j = k
    BY <2>1 DEF Children
  <2> QED BY <2>1, <2>2 DEF ChildrenDiffer
<1>2. TypeInv /\ ShapeInv /\ HeadInv /\ [Next]_vars => HeadInv'
  BY HeadNext
<1>3. TypeInv /\ ShapeInv /\ HeadInv /\ ChildrenDiffer /\ [Next]_vars => ChildrenDiffer'
  BY ChildrenNext
<1>4. ChildrenDiffer => NoRepeat
  BY DEF ChildrenDiffer, NoRepeat, Tree
<1> QED BY <1>1, <1>2, <1>3, <1>4, HeadInit, TypeInvAlways, ShapeAlways, PTL DEF Spec

-----------------------------------------------------------------------------
(* The tree of blocks. What holds of the blocks below one is proved by the   *)
(* least height at which it could fail.                                      *)

LEMMA Lowest ==
  ASSUME NEW S \in SUBSET Block, S # {}
  PROVE  \E b \in S : \A c \in S : Height[b] <= Height[c]
<1> DEFINE T == {Height[b] : b \in S}
<1>1. T \in SUBSET Nat /\ T # {}
  BY HeightType
<1>2. PICK h \in T : \A x \in T : h <= x
  BY <1>1, NatMin
<1> QED BY <1>2

(* A block and its parent.                                                   *)
LEMMA PrevFacts ==
  ASSUME NEW b \in Block \ {Genesis}
  PROVE  /\ Prev[b] \in Block /\ Height[b] = Height[Prev[b]] + 1
         /\ Height[b] \in Nat /\ Height[Prev[b]] \in Nat
         /\ Anc[b] = Anc[Prev[b]] \union {b} /\ b \notin Anc[Prev[b]]
         /\ Anc[b] \subseteq Block
<1>1. /\ Prev[b] \in Block /\ Height[b] = Height[Prev[b]] + 1
      /\ Height[b] \in Nat /\ Height[Prev[b]] \in Nat
  BY BlockAssumption
<1>2. Anc[b] = Anc[Prev[b]] \union {b} /\ Anc[b] \subseteq Block
  BY AncAssumption
<1>3. \A a \in Anc[Prev[b]] : Height[a] <= Height[Prev[b]]
  BY <1>1, AncAssumption
<1> QED BY <1>1, <1>2, <1>3

LEMMA AncFacts ==
  ASSUME NEW b \in Block
  PROVE  /\ b \in Anc[b] /\ Anc[b] \subseteq Block
         /\ \A a \in Anc[b] : a \in Block /\ Height[a] \in Nat /\ Height[a] <= Height[b]
         /\ \A a \in Anc[b] : Height[a] = Height[b] => a = b
         /\ Height[b] = 0 => b = Genesis
<1>1. b \in Anc[b]
  BY AncAssumption
<1>2. Anc[b] \subseteq Block
  BY AncAssumption
<1>3. Height[b] = 0 => b = Genesis
  BY PrevFacts
<1> QED BY <1>1, <1>2, <1>3, AncAssumption, HeightType

(* The chain of a block contains the chains of its blocks,                   *)
LEMMA AncClosed ==
  ASSUME NEW b \in Block, NEW a \in Anc[b]
  PROVE  Anc[a] \subseteq Anc[b]
<1> DEFINE S == {c \in Block : \E x \in Anc[c] : ~(Anc[x] \subseteq Anc[c])}
<1>1. ASSUME S # {} PROVE FALSE
  <2>1. PICK c \in S : \A d \in S : Height[c] <= Height[d]
    BY <1>1, Lowest
  <2>2. PICK x \in Anc[c] : ~(Anc[x] \subseteq Anc[c])
    BY <2>1
  <2>3. c # Genesis /\ x # c
    BY <2>2, AncAssumption
  <2>4. x \in Anc[Prev[c]] /\ Prev[c] \notin S
    BY <2>1, <2>2, <2>3, PrevFacts
  <2>5. Anc[x] \subseteq Anc[Prev[c]]
    BY <2>1, <2>3, <2>4, PrevFacts
  <2> QED BY <2>1, <2>2, <2>3, <2>5, PrevFacts
<1> QED BY <1>1

(* holds each of two blocks in it below the other,                           *)
LEMMA AncLinear ==
  ASSUME NEW b \in Block, NEW a \in Anc[b], NEW c \in Anc[b], Height[a] <= Height[c]
  PROVE  a \in Anc[c] /\ (Height[a] = Height[c] => a = c)
<1> DEFINE S == {d \in Block : \E x, y \in Anc[d] : Height[x] <= Height[y] /\ x \notin Anc[y]}
<1>1. ASSUME S # {} PROVE FALSE
  <2>1. PICK d \in S : \A e \in S : Height[d] <= Height[e]
    BY <1>1, Lowest
  <2>2. PICK x \in Anc[d], y \in Anc[d] : Height[x] <= Height[y] /\ x \notin Anc[y]
    BY <2>1
  <2>3. d \in Block /\ y # d
    BY <2>1, <2>2
  <2>4. x # d
    <3>1. ASSUME x = d PROVE FALSE
      <4>1. Height[y] <= Height[d] /\ Height[y] \in Nat /\ Height[d] \in Nat
        BY <2>2, <2>3, AncFacts, HeightType
      <4>2. Height[y] = Height[d]
        BY <2>2, <3>1, <4>1
      <4> QED BY <2>2, <2>3, <4>2, AncFacts
    <3> QED BY <3>1
  <2>5. d # Genesis
    BY <2>2, <2>3, AncAssumption
  <2>6. x \in Anc[Prev[d]] /\ y \in Anc[Prev[d]]
    BY <2>2, <2>3, <2>4, <2>5, PrevFacts
  <2>7. Prev[d] \in S
    BY <2>2, <2>3, <2>5, <2>6, PrevFacts
  <2> QED BY <2>1, <2>3, <2>5, <2>7, PrevFacts
<1>2. a \in Anc[c]
  BY <1>1
<1>3. c \in Block
  BY AncFacts
<1> QED BY <1>2, <1>3, AncFacts

(* and has one at every height.                                              *)
LEMMA AncAt ==
  ASSUME NEW b \in Block, NEW h \in Nat, h <= Height[b]
  PROVE  h \in Heights /\ \E a \in Anc[b] : Height[a] = h
<1> DEFINE S == {c \in Block : h <= Height[c] /\ \A x \in Anc[c] : Height[x] # h}
<1>1. ASSUME S # {} PROVE FALSE
  <2>1. PICK c \in S : \A d \in S : Height[c] <= Height[d]
    BY <1>1, Lowest
  <2>2. Height[c] # h /\ c \in Block /\ Height[c] \in Nat /\ h < Height[c]
    BY <2>1, AncFacts, HeightType
  <2>3. c # Genesis
    BY <2>2, BlockAssumption
  <2>4. Prev[c] \in S
    BY <2>1, <2>2, <2>3, PrevFacts
  <2> QED BY <2>1, <2>2, <2>3, <2>4, PrevFacts
<1>2. PICK a \in Anc[b] : Height[a] = h
  BY <1>1
<1> QED BY <1>2, AncFacts DEF Heights

(* Two blocks of a chain that follow each other are linked.                  *)
LEMMA AncChild ==
  ASSUME NEW b \in Block, NEW a \in Anc[b], NEW c \in Anc[b], Height[c] = Height[a] + 1
  PROVE  c # Genesis /\ Prev[c] = a
<1>1. c \in Block /\ a \in Block /\ Height[a] \in Nat
  BY AncFacts
<1>2. a \in Anc[c]
  BY <1>1, AncLinear
<1>3. c # Genesis /\ c # a
  BY <1>1, BlockAssumption
<1>4. a \in Anc[Prev[c]] /\ Height[Prev[c]] = Height[a] /\ Prev[c] \in Block
  BY <1>1, <1>2, <1>3, PrevFacts
<1> QED BY <1>3, <1>4, AncFacts

(* The ledger of a block is its parent's with what the block writes.         *)
LEMMA LedgerStep ==
  ASSUME NEW b \in Block \ {Genesis}, NEW k \in Key
  PROVE  Ledger(b)[k] = Ledger(Prev[b])[k] \union (IF k \in Writes[b] THEN {b} ELSE {})
  BY PrevFacts DEF Ledger

LEMMA LedgerType ==
  ASSUME NEW b \in Block
  PROVE  /\ Ledger(b) \in [Key -> SUBSET Block] /\ \A k \in Key : Ledger(b)[k] \subseteq Anc[b]
         /\ Ledger(Genesis) = [k \in Key |-> {}]
         /\ Mem(b) \in [Key -> {Absent} \union SUBSET Block]
         /\ \A k \in Key : Mem(b)[k] = (IF k \in Writes[b] THEN Ledger(b)[k] ELSE Absent)
         /\ \A k \in Key : Ledger(b)[k] # Absent
<1>1. \A k \in Key : Ledger(b)[k] \subseteq Anc[b] /\ Ledger(b)[k] \in SUBSET Block
  BY AncFacts DEF Ledger
<1>2. Ledger(b) \in [Key -> SUBSET Block]
  BY <1>1 DEF Ledger
<1>3. Ledger(Genesis) = [k \in Key |-> {}]
  BY AncAssumption, StateAssumption DEF Ledger
<1>4. \A k \in Key : Ledger(b)[k] # Absent
  BY <1>1, StateAssumption
<1> QED BY <1>1, <1>2, <1>3, <1>4 DEF Mem

-----------------------------------------------------------------------------
(* The chain under a chunk.                                                  *)

(* The chunk that one in a path hangs from.                                  *)
LEMMA PathStep ==
  ASSUME TypeInv, ShapeInv, NEW n \in Chunk, NEW a \in heap[n].path, NEW m \in heap[n].path, a < m
  PROVE  \E q \in heap[n].path : /\ q < m /\ a <= q /\ HeightOf(q) + 1 = HeightOf(m)
                                 /\ BlockOf(m) \in Block \ {Genesis} /\ Prev[BlockOf(m)] = BlockOf(q)
<1>1. TypeOK /\ PathsAreChains
  BY DEF TypeInv, ShapeInv
<1>2. /\ a \in Chunk /\ m \in Chunk /\ a \in Nat /\ m \in Nat
      /\ HeightOf(a) \in Nat /\ HeightOf(m) \in Nat /\ HeightOf(1) \in Nat /\ HeightOf(n) \in Nat
      /\ BlockOf(m) \in Block
  BY <1>1, ChunkType, PathHeight DEF TypeOK
<1>3. HeightOf(a) < HeightOf(m) /\ HeightOf(m) <= HeightOf(n)
  BY <1>1, PathHeight DEF PathsAreChains
<1>4. 1 \in heap[n].path /\ HeightOf(1) <= HeightOf(a)
  <2>1. 1 \in heap[n].path /\ (1 = a \/ 1 < a)
    BY <1>1, <1>2, ChunkType DEF PathsAreChains
  <2> QED BY <1>1, <1>2, <2>1 DEF PathsAreChains
<1>5. PICK q \in heap[n].path : HeightOf(q) = HeightOf(m) - 1
  <2>1. HeightOf(m) - 1 \in HeightOf(1)..HeightOf(n)
    BY <1>2, <1>3, <1>4
  <2> QED BY <1>1, <2>1 DEF PathsAreChains
<1>6. q \in Chunk /\ q \in Nat /\ HeightOf(q) \in Nat
  BY <1>1, ChunkType, PathHeight
<1>7. q < m /\ a <= q
  <2>1. HeightOf(a) <= HeightOf(q) /\ HeightOf(q) < HeightOf(m)
    BY <1>2, <1>3, <1>5
  <2>2. a <= q /\ q <= m
    BY <1>1, <1>2, <1>6, <2>1, PathHeight
  <2>3. q # m
    BY <1>6, <2>1
  <2> QED BY <1>2, <1>6, <2>2, <2>3
<1>8. BlockOf(m) # Genesis /\ Prev[BlockOf(m)] = BlockOf(q)
  <2>1. HeightOf(m) = HeightOf(q) + 1
    BY <1>2, <1>5
  <2> QED BY <1>1, <2>1 DEF PathsAreChains
<1> QED BY <1>2, <1>5, <1>7, <1>8

(* The blocks of a path are in the chain of its last,                        *)
LEMMA PathAnc ==
  ASSUME TypeInv, ShapeInv, NEW n \in Chunk, NEW a \in heap[n].path
  PROVE  BlockOf(a) \in Anc[BlockOf(n)]
<1> DEFINE S == {x \in heap[n].path : a <= x /\ BlockOf(a) \notin Anc[BlockOf(x)]}
<1>1. TypeOK /\ PathsAreChains
  BY DEF TypeInv, ShapeInv
<1>2. /\ \A x \in heap[n].path : x \in Nat /\ BlockOf(x) \in Block
      /\ a \in Nat /\ BlockOf(a) \in Block
  BY <1>1, ChunkType
<1>3. ASSUME S # {} PROVE FALSE
  <2>1. PICK m \in S : \A x \in S : m <= x
    BY <1>2, <1>3, NatMin
  <2>2. a # m /\ a < m
    BY <1>2, <2>1, AncFacts
  <2>3. PICK q \in heap[n].path : /\ q < m /\ a <= q
                                  /\ BlockOf(m) \in Block \ {Genesis} /\ Prev[BlockOf(m)] = BlockOf(q)
    BY <2>1, <2>2, PathStep
  <2>4. q \notin S
    BY <1>2, <2>1, <2>3
  <2>5. BlockOf(a) \in Anc[BlockOf(q)]
    BY <2>3, <2>4
  <2> QED BY <2>1, <2>3, <2>5, PrevFacts
<1>4. n \in heap[n].path /\ a <= n
  BY <1>1, PathHeight DEF TypeOK
<1> QED BY <1>3, <1>4

(* and what no chunk above one writes is as in its ledger.                   *)
LEMMA PathLedger ==
  ASSUME TypeInv, ShapeInv, NEW n \in Chunk, NEW a \in heap[n].path, NEW k \in Key,
         \A x \in heap[n].path : a < x => k \notin Writes[BlockOf(x)]
  PROVE  Ledger(BlockOf(n))[k] = Ledger(BlockOf(a))[k]
<1> DEFINE S == {x \in heap[n].path : a <= x /\ Ledger(BlockOf(x))[k] # Ledger(BlockOf(a))[k]}
<1>1. TypeOK /\ PathsAreChains
  BY DEF TypeInv, ShapeInv
<1>2. (\A x \in heap[n].path : x \in Nat) /\ a \in Nat
  BY <1>1, ChunkType
<1>3. ASSUME S # {} PROVE FALSE
  <2>1. PICK m \in S : \A x \in S : m <= x
    BY <1>2, <1>3, NatMin
  <2>2. a # m /\ a < m
    BY <1>2, <2>1
  <2>3. PICK q \in heap[n].path : /\ q < m /\ a <= q
                                  /\ BlockOf(m) \in Block \ {Genesis} /\ Prev[BlockOf(m)] = BlockOf(q)
    BY <2>1, <2>2, PathStep
  <2>4. q \notin S
    BY <1>2, <2>1, <2>3
  <2>5. k \notin Writes[BlockOf(m)]
    BY <2>1, <2>2
  <2>6. Ledger(BlockOf(m))[k] = Ledger(BlockOf(q))[k]
    <3>1. Ledger(BlockOf(m))[k] =
            Ledger(Prev[BlockOf(m)])[k] \union (IF k \in Writes[BlockOf(m)] THEN {BlockOf(m)} ELSE {})
      BY <2>3, LedgerStep
    <3> QED BY <2>3, <2>5, <3>1
  <2> QED BY <2>1, <2>3, <2>4, <2>6
<1>4. n \in heap[n].path /\ a <= n
  BY <1>1, PathHeight DEF TypeOK
<1> QED BY <1>3, <1>4

-----------------------------------------------------------------------------
(* What lives, and what is read.                                             *)

LEMMA TreeChunk ==
  ASSUME TypeInv, ShapeInv
  PROVE  /\ TypeOK /\ PathsAreChains /\ sroot \in Tree /\ Tree \subseteq Chunk /\ Chunk \subseteq Nat
         /\ NoChunk \notin Chunk
         /\ \A n \in Tree : \A x \in Chunk : n \in heap[x].path => x \in Tree
         /\ \A n \in Chunk : BlockOf(n) \in Block /\ HeightOf(n) \in Nat
<1>1. TypeOK /\ PathsAreChains
  BY DEF TypeInv, ShapeInv
<1>2. sroot \in Tree
  BY <1>1 DEF TypeOK, Tree
<1>3. \A n \in Tree : \A x \in Chunk : n \in heap[x].path => x \in Tree
  BY <1>1, PathHeight DEF Tree
<1> QED BY <1>1, <1>2, <1>3, ChunkType DEF Tree

(* Held is what the tree holds.                                              *)
LEMMA HeldIs ==
  ASSUME TypeInv, ShapeInv, HeadInv, PointersInTree
  PROVE  Held \subseteq Tree \union {NoChunk}
<1>1. \A p \in Proc : base[p] \in Tree \union {NoChunk}
  BY DEF HeadInv, WorkInTree, ShapeInv, NothingLeft
<1>2. \A p \in Proc : rpc[p] = "lock" => cur[p] \in Tree
  BY DEF HeadInv, WorkInTree, InFlight
<1>3. \A p \in Proc : cur[p] \in Tree \union {NoChunk}
  BY <1>2 DEF PointersInTree, HeadInv, NoneBroken, Storing, TypeInv, TypeOK
<1>4. \A p \in Proc : walk[p] \in Tree \union {NoChunk}
  BY DEF PointersInTree
<1>5. \A p \in Proc : \A i \in DOMAIN chan[p] : chan[p][i] \in Tree
  BY DEF HeadInv, WorkInTree, InFlight
<1> QED BY <1>1, <1>3, <1>4, <1>5, TreeChunk DEF Held

LEMMA AliveIs ==
  ASSUME TypeInv, ShapeInv, HeadInv, PointersInTree, NEW n \in Chunk
  PROVE  Alive(n) <=> n \in Tree
<1>1. sroot \in Held
  BY DEF Held
<1>2. n \in Tree => Alive(n)
  BY <1>1 DEF Tree, Alive
<1>3. ASSUME Alive(n) PROVE n \in Tree
  <2>1. PICK x \in heap[n].path : x \in Held
    BY <1>3 DEF Alive
  <2>2. x \in Chunk
    BY ChunkType DEF TypeInv
  <2>3. x \in Tree
    BY <2>1, <2>2, HeldIs, TreeChunk
  <2> QED BY <2>1, <2>3, TreeChunk
<1> QED BY <1>2, <1>3

(* Every block of the tree reads its own ledger.                             *)
LEMMA ViewIs ==
  ASSUME TypeInv, ShapeInv, HeadInv, PointersInTree, MemoryFits, NEW n \in Tree
  PROVE  View(n) = Ledger(BlockOf(n))
<1>1. /\ n \in Chunk /\ sroot \in heap[n].path /\ heap[n].path \subseteq Chunk /\ Chunk \subseteq Nat
      /\ \A x \in heap[n].path : x \in Nat
      /\ sroot \in Nat
      /\ \A x, y \in Nat : x < y => x <= y /\ x # y /\ ~(y <= x)
  BY TreeChunk, ChunkType DEF Tree
<1>2. \A a \in heap[n].path : sroot <= a => a \in Tree
  <2>1. ASSUME NEW a \in heap[n].path, sroot <= a PROVE HeightOf(sroot) <= HeightOf(a)
    <3>1. sroot = a \/ sroot < a
      BY <1>1, <2>1
    <3>2. HeightOf(sroot) \in Nat /\ HeightOf(a) \in Nat
      BY <1>1, TreeChunk
    <3> QED BY <1>1, <3>1, <3>2, TreeChunk DEF PathsAreChains
  <2> QED BY <1>1, <2>1, TreeUp
<1>3. \A a \in Tree : a \in heap[n].path => sroot <= a
  BY TreeChunk, PathHeight DEF Tree
<1>4. ASSUME NEW k \in Key
      PROVE  Writers(n, k) = {a \in heap[n].path : sroot <= a /\ heap[a].mem[k] # Absent}
  <2>1. \A a \in heap[n].path : (a = n \/ Alive(a)) <=> a \in Tree
    BY <1>1, AliveIs
  <2> QED BY <1>2, <1>3, <2>1 DEF Writers
<1>5. ASSUME NEW a \in Tree, NEW k \in Key
      PROVE  /\ heap[a].mem[k] # Absent => heap[a].mem[k] = Ledger(BlockOf(a))[k]
             /\ heap[a].mem[k] = Absent => k \notin Writes[BlockOf(a)] \/ a = sroot
  <2>1. BlockOf(a) \in Block
    BY TreeChunk
  <2> QED BY <1>5, <2>1, LedgerType DEF MemoryFits, NoWrites
<1>6. ASSUME NEW k \in Key PROVE View(n)[k] = Ledger(BlockOf(n))[k]
  <2>1. CASE Writers(n, k) = {}
    <3>1. View(n)[k] = Ledger(BlockOf(sroot))[k]
      BY <2>1 DEF View, MemoryFits
    <3>2. \A x \in heap[n].path : sroot < x => k \notin Writes[BlockOf(x)]
      <4> SUFFICES ASSUME NEW x \in heap[n].path, sroot < x PROVE k \notin Writes[BlockOf(x)]
        OBVIOUS
      <4>1. sroot <= x /\ x # sroot /\ x \in Tree
        BY <1>1, <1>2
      <4>2. heap[x].mem[k] = Absent
        BY <1>4, <2>1, <4>1
      <4> QED BY <1>5, <4>1, <4>2
    <3> QED BY <1>1, <3>1, <3>2, PathLedger
  <2>2. CASE Writers(n, k) # {}
    <3>1. PICK w \in Writers(n, k) : \A x \in Writers(n, k) : x <= w
      <4>1. \A x \in Writers(n, k) : x \in Nat /\ x <= n
        BY <1>1, <1>4, TreeChunk, PathHeight
      <4>2. n \in Nat /\ Writers(n, k) \in SUBSET Nat
        BY <1>1, <4>1
      <4> QED BY <2>2, <4>1, <4>2, NatMax
    <3>2. View(n)[k] = heap[w].mem[k]
      <4>0. \A v \in Writers(n, k) : v \in Nat
        BY <1>1, <1>4
      <4>1. \A v \in Writers(n, k) : (\A x \in Writers(n, k) : x <= v) => v = w
        BY <3>1, <4>0
      <4> QED BY <2>2, <3>1, <4>1 DEF View
    <3>3. w \in heap[n].path /\ sroot <= w /\ heap[w].mem[k] # Absent /\ w \in Tree
      BY <1>2, <1>4, <3>1
    <3>4. View(n)[k] = Ledger(BlockOf(w))[k]
      BY <1>5, <3>2, <3>3
    <3>5. \A x \in heap[n].path : w < x => k \notin Writes[BlockOf(x)]
      <4> SUFFICES ASSUME NEW x \in heap[n].path, w < x PROVE k \notin Writes[BlockOf(x)]
        OBVIOUS
      <4>0. x \in Nat /\ w \in Nat /\ sroot <= w
        BY <1>1, <3>3
      <4>1. sroot <= x /\ x # sroot /\ x \in Tree /\ ~(x <= w)
        BY <1>1, <1>2, <4>0
      <4>2. heap[x].mem[k] = Absent
        BY <1>4, <3>1, <4>1
      <4> QED BY <1>5, <4>1, <4>2
    <3> QED BY <1>1, <3>3, <3>4, <3>5, PathLedger
  <2> QED BY <2>1, <2>2
<1>7. Ledger(BlockOf(n)) = [k \in Key |-> Ledger(BlockOf(n))[k]]
  BY DEF Ledger
<1> QED BY <1>6, <1>7 DEF View

-----------------------------------------------------------------------------
(* The memory, while the tree stays as it is.                                *)

LEMMA TreeSame ==
  ASSUME UNCHANGED <<heap, sroot>>
  PROVE  /\ Tree' = Tree /\ Chunk' = Chunk
         /\ \A n \in Chunk : BlockOf(n)' = BlockOf(n) /\ HeightOf(n)' = HeightOf(n)
  BY DEF Tree, Chunk, HeightOf, BlockOf

LEMMA ExecFrame ==
  ASSUME TypeInv, MemoryFits, GoodBlocks, UNCHANGED <<heap, sroot, disk>>,
         blockdata' \intersect Bad \subseteq {Genesis},
         \A q \in Proc : epc'[q] = "push" =>
           \/ epc[q] = "push" /\ delta'[q] = delta[q] /\ todo'[q] = todo[q]
           \/ delta'[q] = Mem(Head(todo'[q])) /\ Head(todo'[q]) \notin Bad
  PROVE  MemoryFits' /\ GoodBlocks'
<1>1. /\ Tree' = Tree /\ Chunk' = Chunk /\ Tree \subseteq Chunk /\ sroot \in Chunk
      /\ \A n \in Chunk : BlockOf(n)' = BlockOf(n)
  BY TreeSame DEF Tree, TypeInv, TypeOK
<1>2. GoodBlocks'
  BY <1>1 DEF GoodBlocks
<1>3. \A n \in Tree : heap'[n].mem = Mem(BlockOf(n)) \/ (n = sroot' /\ heap'[n].mem = NoWrites)
  BY DEF MemoryFits
<1>4. disk' = Ledger(BlockOf(sroot)) /\ \A q \in Proc : epc'[q] = "push" => delta'[q] = Mem(Head(todo'[q]))
  BY DEF MemoryFits
<1> QED BY <1>1, <1>2, <1>3, <1>4 DEF MemoryFits, Ledger, Mem

LEMMA FlightFrame ==
  ASSUME TypeInv, FlightClosed, BodiesStored, UNCHANGED <<heap, sroot>>, blockdata \subseteq blockdata',
         \A q \in Proc :
           /\ InFlight(q)' = InFlight(q)
           /\ rpc[q] = "data" => \/ rpc'[q] = "data" /\ cur'[q] = cur[q]
                                 \/ BlockOf(cur[q]) \in blockdata'
  PROVE  FlightClosed' /\ BodiesStored'
<1>1. /\ Tree' = Tree /\ Tree \subseteq Chunk
      /\ \A n \in Chunk : BlockOf(n)' = BlockOf(n)
  BY TreeSame DEF Tree
<1>2. FlightClosed'
  BY <1>1 DEF FlightClosed
<1>3. ASSUME NEW n \in Tree
      PROVE  \/ BlockOf(n) = Genesis \/ BlockOf(n) \in blockdata'
             \/ \E q \in Proc : n \in InFlight(q)' \/ (rpc'[q] = "data" /\ cur'[q] = n)
  BY DEF BodiesStored
<1>4. BodiesStored'
  BY <1>1, <1>3 DEF BodiesStored
<1> QED BY <1>2, <1>4

LEMMA FlightSame ==
  ASSUME NEW q \in Proc, chan'[q] = chan[q], rpc'[q] = "lock" <=> rpc[q] = "lock",
         rpc[q] = "lock" => cur'[q] = cur[q]
  PROVE  InFlight(q)' = InFlight(q)
  BY DEF InFlight

LEMMA PointersFrame ==
  ASSUME TypeInv, PointersInTree, UNCHANGED <<heap, sroot>>,
         \A q \in Proc :
           /\ InFlight(q)' = InFlight(q)
           /\ \/ rpc'[q] = rpc[q] /\ cur'[q] = cur[q] /\ walk'[q] = walk[q]
              \/ rpc'[q] \in {"idle", "recv"} /\ cur'[q] = NoChunk /\ walk'[q] = NoChunk
              \/ rpc'[q] = "lock" /\ walk'[q] = NoChunk
              \/ /\ rpc'[q] \in {"ptr", "status", "walk"} /\ Storing(q)
                 /\ cur'[q] = cur[q] /\ walk'[q] \in Tree \intersect heap[cur[q]].path
  PROVE  PointersInTree'
<1>1. Tree' = Tree
  BY TreeSame
<1> SUFFICES ASSUME NEW q \in Proc
    PROVE /\ rpc'[q] \in {"idle", "recv"} => cur'[q] = NoChunk
          /\ Storing(q)' => cur'[q] \in Tree \ InFlight(q)
          /\ rpc'[q] \notin {"ptr", "status", "walk"} => walk'[q] = NoChunk
          /\ rpc'[q] \in {"ptr", "status", "walk"} => walk'[q] \in Tree /\ walk'[q] \in heap[cur'[q]].path
  BY <1>1 DEF PointersInTree
<1>2. CASE rpc'[q] = rpc[q] /\ cur'[q] = cur[q] /\ walk'[q] = walk[q]
  BY <1>2 DEF PointersInTree, Storing
<1>3. CASE ~(rpc'[q] = rpc[q] /\ cur'[q] = cur[q] /\ walk'[q] = walk[q])
  BY <1>3 DEF PointersInTree, Storing
<1> QED BY <1>2, <1>3

(* A block that is executed is good, on the chunk of its parent, and writes  *)
(* its own ledger.                                                           *)
LEMMA MemoryExec ==
  ASSUME TypeInv, ShapeInv, HeadInv, MemoryInv, NEW p \in Proc,
         Locate(p) \/ CheckRepeat(p) \/ Execute(p)
  PROVE  MemoryInv'
<1>1. /\ UNCHANGED <<heap, sroot, disk, blockdata, chan, rpc, cur, walk, chg>>
      /\ \A q \in Proc \ {p} : epc'[q] = epc[q] /\ delta'[q] = delta[q] /\ todo'[q] = todo[q]
  BY DEF Locate, CheckRepeat, Execute, ExecError, engineVars, storeVars, rollVars, TypeInv, TypeOK
<1>2. epc'[p] # "push" \/ (Execute(p) /\ ~Refused(Head(todo[p]), base[p]))
  BY DEF Locate, CheckRepeat, Execute, ExecError, TypeInv, TypeOK
<1>3. ASSUME Execute(p), ~Refused(Head(todo[p]), base[p])
      PROVE  todo' = todo /\ delta'[p] = Mem(Head(todo[p])) /\ Head(todo[p]) \notin Bad
  <2> DEFINE b == Head(todo[p])
  <2>1. epc[p] = "exec" /\ base[p] \in Tree /\ BlockOf(base[p]) = Prev[b]
    BY <1>3 DEF Execute, HeadInv, WorkInTree, ShapeInv, BaseFits
  <2>2. b \in Block
    BY <2>1 DEF TypeInv, TypeOK, Pointers
  <2>3. b \notin Bad /\ Height[b] = HeightOf(base[p]) + 1
    BY <1>3 DEF Refused
  <2>4. b \in Block \ {Genesis}
    <3>1. HeightOf(base[p]) \in Nat
      BY <2>1, TreeHeights
    <3> QED BY <2>2, <2>3, <3>1, BlockAssumption
  <2>5. View(base[p]) = Ledger(Prev[b])
    BY <2>1, ViewIs DEF MemoryInv
  <2>6. /\ delta'[p] = [k \in Key |-> IF k \in Writes[b] THEN View(base[p])[k] \union {b} ELSE Absent]
        /\ todo' = todo
    BY <1>3 DEF Execute, TypeInv, TypeOK
  <2>7. ASSUME NEW k \in Key, k \in Writes[b] PROVE Ledger(b)[k] = View(base[p])[k] \union {b}
    BY <2>4, <2>5, <2>7, LedgerStep
  <2>8. delta'[p] = Mem(b)
    BY <2>6, <2>7 DEF Mem
  <2> QED BY <2>3, <2>6, <2>8
<1>4. MemoryFits' /\ GoodBlocks'
  <2>1. \A q \in Proc : epc'[q] = "push" =>
           \/ epc[q] = "push" /\ delta'[q] = delta[q] /\ todo'[q] = todo[q]
           \/ delta'[q] = Mem(Head(todo'[q])) /\ Head(todo'[q]) \notin Bad
    BY <1>1, <1>2, <1>3
  <2> QED BY <1>1, <2>1, ExecFrame DEF MemoryInv, GoodBlocks
<1>5. \A q \in Proc : InFlight(q)' = InFlight(q)
  BY <1>1, FlightSame
<1>6. FlightClosed' /\ BodiesStored'
  BY <1>1, <1>5, FlightFrame DEF MemoryInv
<1>7. PointersInTree' /\ ChangeFits'
  BY <1>1, <1>5, PointersFrame DEF MemoryInv, ChangeFits, Storing
<1> QED BY <1>4, <1>6, <1>7 DEF MemoryInv

(* A new chunk holds what its block writes and is on its way.                *)
LEMMA MemoryPush ==
  ASSUME TypeInv, ShapeInv, OneCaller, HeadInv, MemoryInv, NEW p \in Proc, Push(p)
  PROVE  MemoryInv'
<1> DEFINE n == Len(heap) + 1
           b == base[p]
<1>1. /\ n \notin Chunk /\ Chunk' = Chunk \union {n} /\ b \in Chunk
      /\ \A m \in Chunk : heap'[m] = heap[m]
      /\ heap'[n].path = heap[b].path \union {n} /\ heap'[n].block = Head(todo[p])
      /\ heap'[n].mem = delta[p]
  BY PushHeap
<1>2. /\ UNCHANGED <<sroot, disk, blockdata, rpc, cur, walk, chg>> /\ epc[p] = "push"
      /\ epc'[p] = "idle"
      /\ \A q \in Proc \ {p} : /\ epc'[q] = epc[q] /\ delta'[q] = delta[q] /\ todo'[q] = todo[q]
                               /\ chan'[q] = chan[q]
  BY DEF Push, storeVars, rollVars, TypeInv, TypeOK
<1>3. b \in Tree /\ Calling(p) /\ Up
  BY <1>2 DEF HeadInv, WorkInTree, ShapeInv, NothingLeft, Push
<1>4. /\ Tree' = Tree \union {n} /\ Tree \subseteq Chunk /\ sroot \in Chunk
      /\ \A m \in Chunk : heap[m].path \subseteq Chunk
  <2>1. sroot \in heap[b].path /\ Tree \subseteq Chunk /\ \A m \in Chunk : heap[m].path \subseteq Chunk
    BY <1>3, ChunkType DEF Tree, TypeInv
  <2> QED BY <1>1, <1>2, <2>1 DEF Tree, TypeInv, TypeOK
<1>5. \A m \in Chunk : heap'[m].block = BlockOf(m)
  BY <1>1 DEF BlockOf
<1>6. InFlight(p)' = InFlight(p) \union {n} /\ \A q \in Proc \ {p} : InFlight(q)' = InFlight(q) /\ InFlight(q) = {}
  <2>1. chan[p] \in Seq(Chunk) /\ chan'[p] = Append(chan[p], n)
    BY DEF Push, TypeInv, TypeOK
  <2>2. {chan'[p][i] : i \in DOMAIN chan'[p]} = {chan[p][i] : i \in DOMAIN chan[p]} \union {n}
    <3>1. /\ DOMAIN chan'[p] = DOMAIN chan[p] \union {Len(chan[p]) + 1}
          /\ chan'[p][Len(chan[p]) + 1] = n
          /\ \A i \in DOMAIN chan[p] : chan'[p][i] = chan[p][i]
      BY <2>1
    <3> QED BY <3>1
  <2>3. InFlight(p)' = InFlight(p) \union {n}
    BY <1>2, <2>2 DEF InFlight
  <2>4. \A q \in Proc \ {p} : InFlight(q)' = InFlight(q)
    BY <1>2, FlightSame
  <2>5. \A q \in Proc \ {p} : InFlight(q) = {}
    BY <1>3, Alone DEF HeadInv
  <2> QED BY <2>3, <2>4, <2>5
<1>7. MemoryFits'
  <2>1. delta[p] = Mem(Head(todo[p]))
    BY <1>2 DEF MemoryInv, MemoryFits
  <2>2. disk' = Ledger(heap'[sroot'].block)
    BY <1>2, <1>4, <1>5 DEF MemoryInv, MemoryFits
  <2>3. ASSUME NEW m \in Tree'
        PROVE  heap'[m].mem = Mem(heap'[m].block) \/ (m = sroot' /\ heap'[m].mem = NoWrites)
    <3>1. CASE m = n
      BY <1>1, <2>1, <3>1
    <3>2. CASE m \in Tree
      BY <1>1, <1>2, <1>4, <1>5, <3>2 DEF MemoryInv, MemoryFits
    <3> QED BY <1>4, <3>1, <3>2
  <2>4. \A q \in Proc : epc'[q] = "push" => delta'[q] = Mem(Head(todo'[q]))
    BY <1>2 DEF MemoryInv, MemoryFits
  <2> QED BY <2>2, <2>3, <2>4 DEF MemoryFits, Ledger, Mem, BlockOf
<1>8. PointersInTree'
  BY <1>1, <1>2, <1>4, <1>6 DEF MemoryInv, PointersInTree, Storing
<1>9. GoodBlocks'
  <2>1. Head(todo[p]) \notin Bad
    BY <1>2 DEF MemoryInv, GoodBlocks
  <2>2. \A m \in Chunk' : heap'[m].block \notin Bad \ {Genesis}
    BY <1>1, <1>5, <2>1 DEF MemoryInv, GoodBlocks
  <2>3. \A q \in Proc : epc'[q] = "push" => Head(todo'[q]) \notin Bad
    BY <1>2 DEF MemoryInv, GoodBlocks
  <2> QED BY <1>2, <2>2, <2>3 DEF MemoryInv, GoodBlocks, BlockOf
<1>10. FlightClosed'
  <2> SUFFICES ASSUME NEW q \in Proc, NEW x \in InFlight(q)', NEW m \in Tree', x \in heap'[m].path
               PROVE  m \in InFlight(q)'
    BY DEF FlightClosed
  <2>1. q = p
    BY <1>6
  <2>2. CASE m = n
    BY <1>6, <2>1, <2>2
  <2>3. CASE m \in Tree
    <3>1. x \in heap[m].path /\ x # n
      BY <1>1, <1>4, <2>3
    <3> QED BY <1>6, <2>1, <2>3, <3>1 DEF MemoryInv, FlightClosed
  <2> QED BY <1>4, <2>2, <2>3
<1>11. BodiesStored'
  <2> SUFFICES ASSUME NEW m \in Tree'
               PROVE  \/ heap'[m].block = Genesis \/ heap'[m].block \in blockdata
                      \/ \E q \in Proc : m \in InFlight(q)' \/ (rpc[q] = "data" /\ cur[q] = m)
    BY <1>2 DEF BodiesStored, BlockOf
  <2>1. CASE m = n
    BY <1>6, <2>1
  <2>2. CASE m \in Tree
    BY <1>4, <1>5, <1>6, <2>2 DEF MemoryInv, BodiesStored
  <2> QED BY <1>4, <2>1, <2>2
<1>12. ChangeFits'
  BY <1>2 DEF MemoryInv, ChangeFits, Storing
<1> QED BY <1>7, <1>8, <1>9, <1>10, <1>11, <1>12 DEF MemoryInv

LEMMA RecvFlight ==
  ASSUME TypeInv, NEW p \in Proc, Recv(p)
  PROVE  /\ \A q \in Proc : InFlight(q)' = InFlight(q)
         /\ cur'[p] = chan[p][1] /\ chan'[p] = Tail(chan[p]) /\ rpc'[p] = "lock" /\ rpc[p] = "recv"
         /\ chan[p] \in Seq(Chunk) /\ chan[p] # <<>>
         /\ \A q \in Proc \ {p} : cur'[q] = cur[q] /\ rpc'[q] = rpc[q] /\ chan'[q] = chan[q]
<1>1. chan[p] \in Seq(Chunk) /\ chan[p] # <<>> /\ rpc[p] = "recv"
  BY DEF Recv, TypeInv, TypeOK
<1>2. chan'[p] = Tail(chan[p]) /\ cur'[p] = chan[p][1] /\ rpc'[p] = "lock"
  BY <1>1 DEF Recv, TypeInv, TypeOK
<1>3. \A q \in Proc \ {p} : chan'[q] = chan[q] /\ cur'[q] = cur[q] /\ rpc'[q] = rpc[q]
  BY DEF Recv, TypeInv, TypeOK
<1>4. /\ 1 \in DOMAIN chan[p]
      /\ \A i \in DOMAIN chan'[p] : i + 1 \in DOMAIN chan[p] /\ chan'[p][i] = chan[p][i + 1]
      /\ \A i \in DOMAIN chan[p] : i # 1 => i - 1 \in DOMAIN chan'[p] /\ chan'[p][i - 1] = chan[p][i]
  BY <1>1, <1>2
<1>5. InFlight(p)' = {chan'[p][i] : i \in DOMAIN chan'[p]} \union {chan[p][1]}
  BY <1>2 DEF InFlight
<1>6. InFlight(p) = {chan[p][i] : i \in DOMAIN chan[p]}
  BY <1>1 DEF InFlight
<1>7. InFlight(p)' = InFlight(p)
  BY <1>4, <1>5, <1>6
<1>8. \A q \in Proc \ {p} : InFlight(q)' = InFlight(q)
  BY <1>3 DEF InFlight
<1> QED BY <1>1, <1>2, <1>3, <1>7, <1>8

LEMMA MemoryRecv ==
  ASSUME TypeInv, HeadInv, MemoryInv, NEW p \in Proc, Recv(p)
  PROVE  MemoryInv'
<1>1. UNCHANGED <<heap, sroot, disk, blockdata, todo, epc, delta, walk, chg>>
  BY DEF Recv, engineVars, storeVars, execVars
<1>2. /\ \A q \in Proc : InFlight(q)' = InFlight(q)
      /\ rpc'[p] = "lock" /\ rpc[p] = "recv"
      /\ \A q \in Proc \ {p} : cur'[q] = cur[q] /\ rpc'[q] = rpc[q]
  BY RecvFlight
<1>3. MemoryFits' /\ GoodBlocks'
  BY <1>1, ExecFrame DEF MemoryInv, GoodBlocks
<1>4. FlightClosed' /\ BodiesStored'
  BY <1>1, <1>2, FlightFrame DEF MemoryInv
<1>5. walk'[p] = NoChunk
  BY <1>1, <1>2 DEF MemoryInv, PointersInTree
<1>6. PointersInTree' /\ ChangeFits'
  BY <1>1, <1>2, <1>5, PointersFrame DEF MemoryInv, ChangeFits, Storing
<1> QED BY <1>3, <1>4, <1>6 DEF MemoryInv

LEMMA MemoryReturn ==
  ASSUME TypeInv, HeadInv, MemoryInv, NEW p \in Proc, Return(p)
  PROVE  MemoryInv'
<1>1. UNCHANGED <<heap, sroot, disk, blockdata, todo, epc, delta, walk, cur, chg>>
  BY DEF Return, engineVars, storeVars, execVars
<1>2. rpc[p] = "recv" /\ chan[p] = <<>>
  BY DEF Return, Finished, HeadInv, NoneBroken
<1>3. /\ rpc'[p] = "idle" /\ chan'[p] = <<>>
      /\ \A q \in Proc \ {p} : chan'[q] = chan[q] /\ rpc'[q] = rpc[q]
  BY DEF Return, TypeInv, TypeOK
<1>4. \A q \in Proc : InFlight(q)' = InFlight(q)
  BY <1>1, <1>2, <1>3, FlightSame
<1>5. MemoryFits' /\ GoodBlocks'
  BY <1>1, ExecFrame DEF MemoryInv, GoodBlocks
<1>6. FlightClosed' /\ BodiesStored'
  BY <1>1, <1>2, <1>3, <1>4, FlightFrame DEF MemoryInv
<1>7. walk[p] = NoChunk /\ cur[p] = NoChunk
  BY <1>2 DEF MemoryInv, PointersInTree
<1>8. PointersInTree' /\ ChangeFits'
  BY <1>1, <1>2, <1>3, <1>4, <1>7, PointersFrame DEF MemoryInv, ChangeFits, Storing
<1> QED BY <1>5, <1>6, <1>8 DEF MemoryInv

LEMMA MemoryEnter ==
  ASSUME TypeInv, ShapeInv, MemoryInv, NEW p \in Proc, rpc[p] = "idle", NEW s, Enter(p, s)
  PROVE  MemoryInv'
<1>1. UNCHANGED <<heap, sroot, disk, blockdata, epc, delta, chan, walk, cur, chg>>
  BY DEF Enter, engineVars, storeVars
<1>2. rpc'[p] = "recv" /\ \A q \in Proc \ {p} : todo'[q] = todo[q] /\ rpc'[q] = rpc[q]
  BY DEF Enter, TypeInv, TypeOK
<1>3. \A q \in Proc : InFlight(q)' = InFlight(q)
  BY <1>1, <1>2, FlightSame
<1>4. epc[p] = "idle"
  BY DEF ShapeInv, NothingLeft, Calling
<1>5. MemoryFits' /\ GoodBlocks'
  BY <1>1, <1>2, <1>4, ExecFrame DEF MemoryInv, GoodBlocks
<1>6. FlightClosed' /\ BodiesStored'
  BY <1>1, <1>2, <1>3, FlightFrame DEF MemoryInv
<1>7. walk[p] = NoChunk /\ cur[p] = NoChunk
  BY DEF MemoryInv, PointersInTree
<1>8. PointersInTree' /\ ChangeFits'
  BY <1>1, <1>2, <1>3, <1>7, PointersFrame DEF MemoryInv, ChangeFits, Storing
<1> QED BY <1>5, <1>6, <1>8 DEF MemoryInv

(* A roll drops what does not hang from the new root, and flushes what the   *)
(* block of the new root wrote.                                              *)
LEMMA RollTree ==
  ASSUME TypeInv, ShapeInv, OneCaller, HeadInv, NEW p \in Proc,
         Uncle(p) \/ NewHead(p) \/ NewHeadAndRoot(p)
  PROVE  /\ UNCHANGED <<heap, chan, cur, todo, mode, epc, base, delta, storeVars, walk, nexth, err>>
         /\ rpc' = [rpc EXCEPT ![p] = "data"] /\ rpc[p] = "lock" /\ Up /\ Calling(p) /\ ~Locked
         /\ Tree' \subseteq Tree /\ cur[p] \in Tree'
         /\ sroot' # sroot =>
              /\ NewHeadAndRoot(p)
              /\ sroot' \in Tree /\ HeightOf(sroot') = HeightOf(sroot) + 1 /\ sroot' \in heap[cur[p]].path
              /\ disk' = Flushed(sroot')
         /\ sroot' = sroot => disk' = disk /\ ~NewHeadAndRoot(p)
<1>1. /\ UNCHANGED <<heap, chan, cur, todo, mode, epc, base, delta, storeVars, walk, nexth, err>>
      /\ rpc' = [rpc EXCEPT ![p] = "data"] /\ rpc[p] = "lock" /\ Up /\ Calling(p) /\ ~Locked
  BY DEF Uncle, NewHead, NewHeadAndRoot, StartStore, Higher, Rolling, Calling, nodeVars, execVars, storeVars
<1>2. cur[p] \in Tree /\ sroot \in Tree /\ Tree \subseteq Chunk /\ TypeOK /\ PathsAreChains
  BY <1>1, TreeChunk DEF HeadInv, WorkInTree, InFlight
<1>3. CASE ~NewHeadAndRoot(p)
  <2>1. UNCHANGED <<sroot, disk>>
    BY <1>3 DEF Uncle, NewHead
  <2>2. Tree' = Tree
    BY <1>1, <2>1, TreeSame
  <2> QED BY <1>1, <1>2, <1>3, <2>1, <2>2
<1>4. CASE NewHeadAndRoot(p)
  <2>1. PICK r \in NewRoots(cur[p]) :
          HeightOf(r) = HeightOf(sroot) + 1 /\ sroot' = r /\ disk' = Flushed(r)
    BY <1>4 DEF NewHeadAndRoot
  <2>2. r \in heap[cur[p]].path /\ r \in Tree
    BY <1>4, <2>1, NewRootFacts DEF NewHeadAndRoot
  <2>3. HeightOf(sroot) \in Nat
    BY <1>2, TreeHeights
  <2>4. r # sroot
    BY <2>1, <2>3
  <2>5. \A n \in Chunk : r \in heap[n].path => n \in Tree
    BY <2>2, TreeChunk
  <2>6. Tree' = {n \in Chunk : r \in heap[n].path}
    BY <1>1, <2>1 DEF Tree, Chunk
  <2> QED BY <1>1, <1>2, <1>4, <2>1, <2>2, <2>4, <2>5, <2>6
<1> QED BY <1>3, <1>4

LEMMA MemoryRoll ==
  ASSUME TypeInv, ShapeInv, OneCaller, HeadInv, MemoryInv, NEW p \in Proc,
         Uncle(p) \/ NewHead(p) \/ NewHeadAndRoot(p)
  PROVE  MemoryInv'
<1>1. /\ UNCHANGED <<heap, chan, cur, todo, mode, epc, base, delta, blockdata, walk>>
      /\ rpc' = [rpc EXCEPT ![p] = "data"] /\ rpc[p] = "lock" /\ Up /\ Calling(p) /\ ~Locked
      /\ Tree' \subseteq Tree /\ cur[p] \in Tree'
  BY RollTree DEF storeVars
<1>2. /\ Tree \subseteq Chunk /\ Chunk' = Chunk /\ cur[p] \in Tree
      /\ \A n \in Chunk : BlockOf(n)' = BlockOf(n)
  BY <1>1 DEF Tree, Chunk, BlockOf
<1>3. /\ rpc'[p] = "data" /\ \A q \in Proc \ {p} : rpc'[q] = rpc[q]
      /\ \A q \in Proc : ~Storing(q)
  BY <1>1 DEF TypeInv, TypeOK, Locked
<1>4. /\ \A q \in Proc : InFlight(q)' \subseteq InFlight(q) /\ InFlight(q) \subseteq InFlight(q)' \union {cur[p]}
      /\ \A q \in Proc \ {p} : InFlight(q) = {}
      /\ \A x \in InFlight(p)' : HeightOf(cur[p]) < HeightOf(x)
      /\ cur[p] \notin InFlight(p)'
  <2>1. \A q \in Proc : InFlight(q)' \subseteq InFlight(q) /\ InFlight(q) \subseteq InFlight(q)' \union {cur[p]}
    BY <1>1, Landed
  <2>2. \A q \in Proc \ {p} : InFlight(q) = {}
    BY <1>1, Alone DEF HeadInv
  <2>3. InFlight(p)' = {chan[p][i] : i \in DOMAIN chan[p]}
    BY <1>1, <1>3 DEF InFlight
  <2>4. \A x \in InFlight(p)' : HeightOf(cur[p]) < HeightOf(x)
    BY <1>1, <2>3 DEF HeadInv, Ascending
  <2>5. HeightOf(cur[p]) \in Nat
    BY <1>2, TreeHeights
  <2> QED BY <2>1, <2>2, <2>4, <2>5
<1>5. MemoryFits'
  <2>1. disk' = Ledger(BlockOf(sroot'))
    <3>1. CASE sroot' = sroot
      BY <3>1, RollTree DEF MemoryInv, MemoryFits
    <3>2. CASE sroot' # sroot
      <4> DEFINE r == sroot'
                 c == BlockOf(r)
      <4>1. r \in Tree /\ HeightOf(r) = HeightOf(sroot) + 1 /\ disk' = Flushed(r)
        BY <3>2, RollTree
      <4>2. /\ r \in Chunk /\ c \in Block /\ sroot \in heap[r].path /\ r \in heap[r].path
            /\ PathsAreChains
        BY <4>1, TreeChunk DEF Tree, TypeOK
      <4>3. c # Genesis /\ Prev[c] = BlockOf(sroot)
        BY <4>1, <4>2 DEF PathsAreChains
      <4>4. heap[r].mem = Mem(c) /\ disk = Ledger(Prev[c])
        BY <3>2, <4>1, <4>3 DEF MemoryInv, MemoryFits
      <4>5. ASSUME NEW k \in Key
            PROVE (IF heap[r].mem[k] = Absent THEN disk[k] ELSE heap[r].mem[k]) = Ledger(c)[k]
        <5>1. Ledger(c)[k] = Ledger(Prev[c])[k] \union (IF k \in Writes[c] THEN {c} ELSE {})
          BY <4>2, <4>3, LedgerStep
        <5>2. Mem(c)[k] = (IF k \in Writes[c] THEN Ledger(c)[k] ELSE Absent) /\ Ledger(c)[k] # Absent
          BY <4>2, LedgerType
        <5> QED BY <4>4, <5>1, <5>2
      <4>6. disk' = [k \in Key |-> Ledger(c)[k]]
        BY <4>1, <4>5 DEF Flushed
      <4> QED BY <4>6 DEF Ledger
    <3> QED BY <3>1, <3>2
  <2>2. ASSUME NEW n \in Tree'
        PROVE  heap[n].mem = Mem(BlockOf(n)) \/ (n = sroot' /\ heap[n].mem = NoWrites)
    <3>1. CASE sroot' = sroot
      BY <1>1, <3>1 DEF MemoryInv, MemoryFits
    <3>2. CASE sroot' # sroot
      <4>1. n # sroot
        <5>1. HeightOf(sroot') = HeightOf(sroot) + 1 /\ sroot' \in Tree
          BY <3>2, RollTree
        <5>2. sroot' \in heap[n].path /\ n \in Chunk
          BY <1>1 DEF Tree, Chunk
        <5>3. HeightOf(sroot') <= HeightOf(n)
          BY <5>2, TreeChunk, PathHeight
        <5>4. HeightOf(sroot) \in Nat
          BY TreeChunk
        <5> QED BY <5>1, <5>3, <5>4
      <4> QED BY <1>1, <4>1 DEF MemoryInv, MemoryFits
    <3> QED BY <3>1, <3>2
  <2>3. sroot' \in Chunk
    BY <1>2, RollTree, TreeChunk
  <2> QED BY <1>1, <1>2, <2>1, <2>2, <2>3 DEF MemoryInv, MemoryFits, Ledger, Mem
<1>6. PointersInTree'
  <2> SUFFICES ASSUME NEW q \in Proc
      PROVE /\ rpc'[q] \in {"idle", "recv"} => cur[q] = NoChunk
            /\ Storing(q)' => cur[q] \in Tree' \ InFlight(q)'
            /\ rpc'[q] \notin {"ptr", "status", "walk"} => walk[q] = NoChunk
            /\ rpc'[q] \in {"ptr", "status", "walk"} => walk[q] \in Tree' /\ walk[q] \in heap[cur[q]].path
    BY <1>1 DEF PointersInTree
  <2>1. CASE q = p
    BY <1>1, <1>3, <1>4, <2>1 DEF MemoryInv, PointersInTree, Storing
  <2>2. CASE q # p
    BY <1>3, <2>2 DEF MemoryInv, PointersInTree, Storing
  <2> QED BY <2>1, <2>2
<1>7. GoodBlocks'
  BY <1>1, <1>2 DEF MemoryInv, GoodBlocks
<1>8. FlightClosed'
  <2> SUFFICES ASSUME NEW q \in Proc, NEW x \in InFlight(q)', NEW n \in Tree', x \in heap[n].path
               PROVE  n \in InFlight(q)'
    BY <1>1 DEF FlightClosed
  <2>1. q = p
    BY <1>4
  <2>2. n \in InFlight(p)
    BY <1>1, <1>4, <2>1 DEF MemoryInv, FlightClosed
  <2>3. n # cur[p]
    <3>1. n \in Chunk /\ TypeOK /\ PathsAreChains
      BY <1>1, <1>2, TreeChunk
    <3>2. HeightOf(x) <= HeightOf(n) /\ x \in Chunk
      BY <3>1, PathHeight
    <3>3. HeightOf(cur[p]) < HeightOf(x) /\ HeightOf(x) \in Nat /\ HeightOf(cur[p]) \in Nat
      BY <1>2, <1>4, <2>1, <3>2, TreeChunk
    <3> QED BY <3>2, <3>3
  <2> QED BY <1>4, <2>1, <2>2, <2>3
<1>9. BodiesStored'
  <2> SUFFICES ASSUME NEW n \in Tree'
               PROVE  \/ BlockOf(n) = Genesis \/ BlockOf(n) \in blockdata
                      \/ \E q \in Proc : n \in InFlight(q)' \/ (rpc'[q] = "data" /\ cur[q] = n)
    BY <1>1, <1>2 DEF BodiesStored
  <2>1. ASSUME NEW q \in Proc, n \in InFlight(q)
        PROVE  n \in InFlight(q)' \/ (rpc'[p] = "data" /\ cur[p] = n)
    BY <1>3, <1>4, <2>1
  <2>2. \A q \in Proc : rpc[q] # "data"
    BY <1>3 DEF Storing
  <2> QED BY <1>1, <2>1, <2>2 DEF MemoryInv, BodiesStored
<1>10. ChangeFits'
  <2>1. chg'[p] = NoChange \/ chg'[p] = Change(p, FALSE) \/ chg'[p] = Change(p, TRUE)
    BY DEF Uncle, NewHead, NewHeadAndRoot, StartStore, TypeInv, TypeOK
  <2>2. chg'[p].roll => chg'[p].append
    BY <2>1 DEF NoChange, Change
  <2>3. \A q \in Proc \ {p} : ~Storing(q)'
    BY <1>3 DEF Storing
  <2> QED BY <1>3, <2>2, <2>3 DEF ChangeFits, Storing
<1> QED BY <1>5, <1>6, <1>7, <1>8, <1>9, <1>10 DEF MemoryInv

(* Storing touches no memory; the walk for a switch of fork stays in the     *)
(* tree below the head.                                                      *)
LEMMA StoreMoves ==
  ASSUME TypeInv, NEW p \in Proc,
         PutBlockData(p) \/ PutBlockPtr(p) \/ PutStatus(p) \/ RewritePtr(p) \/ EndRewrite(p)
  PROVE  /\ UNCHANGED <<engineVars, nodeVars, execVars, chan, err>> /\ Up /\ Storing(p)
         /\ \A q \in Proc \ {p} : /\ rpc'[q] = rpc[q] /\ cur'[q] = cur[q] /\ walk'[q] = walk[q]
                                  /\ chg'[q] = chg[q]
         /\ \/ PutBlockData(p) /\ rpc[p] = "data" /\ rpc'[p] = AfterData(p)
            \/ PutBlockPtr(p) /\ rpc[p] = "ptr" /\ rpc'[p] = AfterPtr(p)
            \/ PutStatus(p) /\ rpc[p] = "status" /\ rpc'[p] = AfterStatus(p)
            \/ RewritePtr(p) /\ rpc[p] = "walk" /\ rpc'[p] = "walk"
            \/ EndRewrite(p) /\ rpc[p] = "walk" /\ rpc'[p] = "recv"
         /\ rpc'[p] \in {"recv", "ptr", "status", "walk"}
         /\ IF rpc'[p] = "recv" THEN cur'[p] = NoChunk /\ walk'[p] = NoChunk /\ chg'[p] = NoChange
            ELSE /\ cur'[p] = cur[p] /\ chg'[p] = chg[p]
                 /\ walk'[p] = cur[p] \/ (RewritePtr(p) /\ walk'[p] \in LiveParent(walk[p]))
<1>1. CASE RewritePtr(p)
  BY <1>1 DEF RewritePtr, Storing, engineVars, nodeVars, TypeInv, TypeOK
<1>2. CASE ~RewritePtr(p)
  <2>1. PICK at \in {"data", "ptr", "status", "walk"} :
          /\ StoreStep(p, at, rpc'[p]) /\ rpc[p] = at
          /\ \/ PutBlockData(p) /\ rpc[p] = "data" /\ rpc'[p] = AfterData(p)
             \/ PutBlockPtr(p) /\ rpc[p] = "ptr" /\ rpc'[p] = AfterPtr(p)
             \/ PutStatus(p) /\ rpc[p] = "status" /\ rpc'[p] = AfterStatus(p)
             \/ EndRewrite(p) /\ rpc[p] = "walk" /\ rpc'[p] = "recv"
    BY <1>2 DEF PutBlockData, PutBlockPtr, PutStatus, EndRewrite, StoreStep, TypeInv, TypeOK
  <2>2. rpc'[p] \in {"recv", "ptr", "status", "walk"}
    BY <2>1 DEF AfterData, AfterPtr, AfterStatus
  <2> QED BY <2>1, <2>2 DEF StoreStep, Storing, TypeInv, TypeOK
<1> QED BY <1>1, <1>2

LEMMA MemoryStore ==
  ASSUME TypeInv, ShapeInv, OneCaller, HeadInv, MemoryInv, NEW p \in Proc,
         PutBlockData(p) \/ PutBlockPtr(p) \/ PutStatus(p) \/ RewritePtr(p) \/ EndRewrite(p)
  PROVE  MemoryInv'
<1>1. UNCHANGED <<heap, sroot, disk, todo, epc, delta, chan>>
  BY StoreMoves DEF engineVars, execVars
<1>2. cur[p] \in Tree \ InFlight(p) /\ cur[p] \in Chunk
  BY StoreMoves DEF MemoryInv, PointersInTree, Tree
<1>3. blockdata' = blockdata \/ (rpc[p] = "data" /\ blockdata' = blockdata \union {BlockOf(cur[p])})
  BY DEF PutBlockData, PutBlockPtr, PutStatus, RewritePtr, EndRewrite, StoreStep, storeVars
<1>4. rpc[p] = "data" => blockdata' = blockdata \union {BlockOf(cur[p])}
  BY DEF PutBlockData, PutBlockPtr, PutStatus, RewritePtr, EndRewrite, StoreStep
<1>5. MemoryFits' /\ GoodBlocks'
  <2>1. blockdata' \intersect Bad \subseteq {Genesis}
    BY <1>2, <1>3 DEF MemoryInv, GoodBlocks
  <2> QED BY <1>1, <2>1, ExecFrame DEF MemoryInv
<1>6. \A q \in Proc : InFlight(q)' = InFlight(q)
  <2>1. /\ rpc[p] # "lock" /\ rpc'[p] # "lock"
        /\ \A q \in Proc \ {p} : rpc'[q] = rpc[q] /\ cur'[q] = cur[q]
    BY StoreMoves DEF Storing
  <2> QED BY <1>1, <2>1, FlightSame
<1>7. FlightClosed' /\ BodiesStored'
  <2>1. \A q \in Proc \ {p} : rpc'[q] = rpc[q] /\ cur'[q] = cur[q]
    BY StoreMoves
  <2>2. blockdata \subseteq blockdata' /\ (rpc[p] = "data" => BlockOf(cur[p]) \in blockdata')
    BY <1>3, <1>4
  <2> QED BY <1>1, <1>6, <2>1, <2>2, FlightFrame DEF MemoryInv
<1>8. PointersInTree'
  <2>1. \A q \in Proc \ {p} : rpc'[q] = rpc[q] /\ cur'[q] = cur[q] /\ walk'[q] = walk[q]
    BY StoreMoves
  <2>2. CASE rpc'[p] = "recv"
    <3>1. cur'[p] = NoChunk /\ walk'[p] = NoChunk
      BY <2>2, StoreMoves
    <3> QED BY <1>1, <1>6, <2>1, <2>2, <3>1, PointersFrame DEF MemoryInv
  <2>3. CASE rpc'[p] # "recv"
    <3>1. /\ rpc'[p] \in {"ptr", "status", "walk"} /\ Storing(p) /\ cur'[p] = cur[p]
          /\ walk'[p] = cur[p] \/ (RewritePtr(p) /\ walk'[p] \in LiveParent(walk[p]))
      BY <2>3, StoreMoves
    <3>2. TypeOK /\ PathsAreChains /\ cur[p] \in heap[cur[p]].path
      BY <1>2, TreeChunk DEF TypeOK
    <3>3. ASSUME RewritePtr(p), walk'[p] \in LiveParent(walk[p])
          PROVE  walk'[p] \in Tree \intersect heap[cur[p]].path
      <4>1. walk[p] \in Tree /\ walk[p] \in heap[cur[p]].path
        BY <3>3 DEF RewritePtr, MemoryInv, PointersInTree
      <4>2. walk'[p] \in heap[walk[p]].path /\ Alive(walk'[p])
        BY <3>3 DEF LiveParent
      <4>3. walk'[p] \in heap[cur[p]].path
        BY <1>2, <3>2, <4>1, <4>2, PathHeight
      <4>4. walk'[p] \in Chunk
        BY <1>2, <3>2, <4>3, PathHeight
      <4> QED BY <4>2, <4>3, <4>4, AliveIs DEF MemoryInv
    <3>4. walk'[p] \in Tree \intersect heap[cur[p]].path
      BY <1>2, <3>1, <3>2, <3>3
    <3> QED BY <1>1, <1>6, <2>1, <3>1, <3>4, PointersFrame DEF MemoryInv
  <2> QED BY <2>2, <2>3
<1>9. ChangeFits'
  <2>1. \A q \in Proc \ {p} : rpc'[q] = rpc[q] /\ chg'[q] = chg[q]
    BY StoreMoves
  <2>2. CASE rpc'[p] = "recv"
    BY <2>1, <2>2 DEF MemoryInv, ChangeFits, Storing
  <2>3. CASE rpc'[p] # "recv"
    <3>1. chg'[p] = chg[p] /\ Storing(p)
      BY <2>3, StoreMoves
    <3>2. (chg[p].roll => chg[p].append) /\ (rpc[p] \in {"ptr", "status", "walk"} => chg[p].append)
          /\ (rpc[p] = "walk" => chg[p].switchfork)
      BY <3>1 DEF MemoryInv, ChangeFits
    <3>3. chg[p].append /\ (rpc'[p] = "walk" => chg[p].switchfork)
      BY <2>3, <3>2, StoreMoves DEF AfterData, AfterPtr, AfterStatus
    <3> QED BY <2>1, <3>1, <3>2, <3>3 DEF MemoryInv, ChangeFits, Storing
  <2> QED BY <2>2, <2>3
<1> QED BY <1>5, <1>7, <1>8, <1>9 DEF MemoryInv

-----------------------------------------------------------------------------
(* The block store.                                                          *)

LEMMA KeptType ==
  ASSUME NEW h \in Nat
  PROVE  /\ UnstableBlock \in Nat /\ Kept(h) \in Nat /\ Kept(0) = 0
         /\ h >= UnstableBlock => Kept(h) + UnstableBlock = h
         /\ h < UnstableBlock => Kept(h) = 0
         /\ Kept(h) + UnstableBlock >= h
         /\ h + 1 <= Kept(h) + UnstableBlock => Kept(h + 1) = Kept(h)
         /\ h + 1 > Kept(h) + UnstableBlock => Kept(h + 1) = Kept(h) + 1
  BY CallAssumption DEF Kept

(* A store that holds the chain of b finds b again.                          *)
LEMMA StoredHeadIs ==
  ASSUME NEW b \in Block, StoresChain(b), TypeInv
  PROVE  StoredHead = b
<1>1. Height[b] \in Heights /\ Height[b] \in Nat /\ Heights \subseteq Nat
  BY HeightType
<1>2. NoBlock \notin blockdata
  BY BlockAssumption DEF TypeInv, TypeOK
<1>3. Height[b] # 0 => blockptr[Height[b]] = b
  <2> SUFFICES ASSUME Height[b] # 0 PROVE blockptr[Height[b]] = b
    OBVIOUS
  <2>1. Points(Height[b], b)
    BY <1>1 DEF StoresChain
  <2> QED BY <2>1, AncFacts DEF Points
<1> DEFINE Top(h) == (h = 0 \/ blockptr[h] # NoBlock) /\ \A i \in Heights : i > h => blockptr[i] = NoBlock
<1>4. Top(Height[b])
  <2>1. \A i \in Heights : i > Height[b] => blockptr[i] = NoBlock
    BY <1>1 DEF StoresChain
  <2> QED BY <1>3, <2>1, BlockAssumption
<1>5. ASSUME NEW h \in Heights, Top(h) PROVE h = Height[b]
  <2>1. h \in Nat
    BY <1>1
  <2>2. ~(h > Height[b])
    BY <1>1, <1>4, <1>5, <2>1
  <2>3. ~(h < Height[b])
    BY <1>1, <1>4, <1>5, <2>1
  <2> QED BY <1>1, <2>1, <2>2, <2>3
<1>6. TopHeight = Height[b]
  BY <1>1, <1>4, <1>5 DEF TopHeight
<1>7. Height[b] = 0 => b = Genesis
  BY AncFacts
<1> QED BY <1>3, <1>6, <1>7 DEF StoredHead

(* Nothing pends while nothing stores.                                       *)
LEMMA NonePending ==
  ASSUME \A q \in Proc : ~Storing(q)
  PROVE  ~StatusPending /\ \A h : ~PointerPending(h)
  BY DEF StatusPending, PointerPending, Storing

(* Steps beside the store.                                                   *)
LEMMA StoreQuiet ==
  ASSUME TypeInv, RunStores, RebuildStores, mode' = mode,
         UNCHANGED <<sroot, scusp, blockdata, blockptr, status, walk, chg>>,
         \A n \in Chunk : heap'[n] = heap[n],
         \A q \in Proc : rpc'[q] = rpc[q] \/ (~Storing(q) /\ ~Storing(q)')
  PROVE  RunStores' /\ RebuildStores'
<1>1. /\ sroot \in Chunk /\ scusp \in Chunk /\ \A q \in Proc : rpc[q] = "walk" => walk[q] \in Chunk
      /\ \A n \in Chunk : heap'[n] = heap[n]
  BY DEF TypeInv, TypeOK, Pointers
<1>2. /\ HeightOf(sroot)' = HeightOf(sroot) /\ HeightOf(scusp)' = HeightOf(scusp)
      /\ BlockOf(scusp)' = BlockOf(scusp)
      /\ \A q \in Proc : rpc[q] = "walk" => HeightOf(walk[q])' = HeightOf(walk[q])
  BY <1>1 DEF HeightOf, BlockOf
<1>3. StatusPending' = StatusPending
  BY DEF StatusPending, Storing
<1>4. ASSUME NEW h PROVE PointerPending(h)' <=> PointerPending(h)
  BY <1>2 DEF PointerPending, Storing
<1>5. \A h, b : Points(h, b)' <=> Points(h, b)
  BY DEF Points
<1>6. StoredHead' = StoredHead /\ \A b : StoresChain(b)' <=> StoresChain(b)
  BY <1>5 DEF StoredHead, TopHeight, StoresChain
<1>7. RunStores'
  BY <1>2, <1>3, <1>4, <1>5 DEF RunStores
<1>8. RebuildStores'
  BY <1>2, <1>3, <1>6 DEF RebuildStores
<1> QED BY <1>7, <1>8

(* What a chain has up to the root of the tree, every chain of the tree has. *)
LEMMA SharedBelow ==
  ASSUME TypeInv, ShapeInv, NEW n \in Tree, NEW m \in Tree,
         NEW a \in Anc[BlockOf(n)], Height[a] <= HeightOf(sroot)
  PROVE  a \in Anc[BlockOf(m)]
<1>1. /\ sroot \in heap[n].path /\ sroot \in heap[m].path /\ n \in Chunk /\ m \in Chunk /\ sroot \in Chunk
      /\ BlockOf(n) \in Block /\ BlockOf(m) \in Block
  BY TreeChunk DEF Tree
<1>2. BlockOf(sroot) \in Anc[BlockOf(n)] /\ BlockOf(sroot) \in Anc[BlockOf(m)]
  BY <1>1, PathAnc
<1>3. a \in Anc[BlockOf(sroot)]
  BY <1>1, <1>2, AncLinear DEF HeightOf
<1> QED BY <1>1, <1>2, <1>3, AncClosed

(* The root keeps its distance to the head.                                  *)
LEMMA RollHeights ==
  ASSUME TypeInv, ShapeInv, OneCaller, HeadInv, NEW p \in Proc, NewHead(p) \/ NewHeadAndRoot(p)
  PROVE  /\ cur[p] \in Tree /\ scusp \in Tree /\ scusp' = cur[p]
         /\ HeightOf(cur[p]) = HeightOf(scusp) + 1
         /\ HeightOf(scusp) \in Nat /\ HeightOf(sroot) \in Nat
         /\ BlockOf(scusp)' = BlockOf(cur[p]) /\ HeightOf(scusp)' = HeightOf(scusp) + 1
         /\ NewHead(p) => /\ HeightOf(sroot)' = HeightOf(sroot) /\ chg'[p] = Change(p, FALSE)
                          /\ HeightOf(scusp) + 1 <= HeightOf(sroot) + UnstableBlock
         /\ NewHeadAndRoot(p) => /\ HeightOf(sroot)' = HeightOf(sroot) + 1 /\ chg'[p] = Change(p, TRUE)
                                 /\ HeightOf(sroot)' = Kept(HeightOf(scusp) + 1)
         /\ HeightOf(sroot) = Kept(HeightOf(scusp)) => HeightOf(sroot)' = Kept(HeightOf(scusp) + 1)
<1>1. Higher(p) /\ scusp' = cur[p] /\ heap' = heap
  BY DEF NewHead, NewHeadAndRoot, StartStore
<1>2. /\ cur[p] \in Tree /\ scusp \in Tree /\ HeightOf(cur[p]) = HeightOf(scusp) + 1
      /\ HeightOf(scusp) \in Nat /\ HeightOf(sroot) \in Nat
  BY <1>1, HigherFacts, TreeHeights DEF HeadInv, HeadInWindow
<1>3. BlockOf(scusp)' = BlockOf(cur[p]) /\ HeightOf(scusp)' = HeightOf(scusp) + 1
  BY <1>1, <1>2 DEF BlockOf, HeightOf
<1>4. /\ UnstableBlock \in Nat /\ Kept(HeightOf(scusp)) \in Nat
      /\ Kept(HeightOf(scusp)) + UnstableBlock >= HeightOf(scusp)
      /\ HeightOf(scusp) + 1 <= Kept(HeightOf(scusp)) + UnstableBlock =>
           Kept(HeightOf(scusp) + 1) = Kept(HeightOf(scusp))
      /\ HeightOf(scusp) >= UnstableBlock => Kept(HeightOf(scusp)) + UnstableBlock = HeightOf(scusp)
      /\ HeightOf(scusp) + 1 > Kept(HeightOf(scusp)) + UnstableBlock =>
           Kept(HeightOf(scusp) + 1) = Kept(HeightOf(scusp)) + 1
  BY <1>2, KeptType
<1>5. CASE NewHead(p)
  <2>1. /\ sroot' = sroot /\ chg'[p] = Change(p, FALSE)
        /\ ~(HeightOf(scusp) + 1 > HeightOf(sroot) + UnstableBlock)
    BY <1>2, <1>5 DEF NewHead, StartStore, Deep, TypeInv, TypeOK
  <2>2. HeightOf(sroot)' = HeightOf(sroot)
    BY <1>1, <2>1 DEF HeightOf, BlockOf
  <2>3. ~NewHeadAndRoot(p)
    BY <1>5 DEF NewHead, NewHeadAndRoot
  <2>4. HeightOf(scusp) + 1 <= HeightOf(sroot) + UnstableBlock
    BY <1>2, <1>4, <2>1
  <2> QED BY <1>1, <1>2, <1>3, <1>4, <2>1, <2>2, <2>3, <2>4
<1>6. CASE NewHeadAndRoot(p)
  <2>1. Deep(p) /\ chg'[p] = Change(p, TRUE) /\ HeightOf(sroot') = HeightOf(sroot) + 1
    BY <1>6 DEF NewHeadAndRoot, StartStore, TypeInv, TypeOK
  <2>2. HeightOf(sroot)' = HeightOf(sroot) + 1
    BY <1>1, <2>1 DEF HeightOf, BlockOf
  <2>3. HeightOf(scusp) + 1 = HeightOf(sroot) + UnstableBlock + 1
    BY <1>1, <1>2, <2>1, NewRootFacts
  <2>4. HeightOf(sroot) = Kept(HeightOf(scusp))
    BY <1>2, <1>4, <2>3
  <2>5. Kept(HeightOf(scusp) + 1) = HeightOf(sroot) + 1
    BY <1>2, <1>4, <2>3, <2>4
  <2>6. ~NewHead(p)
    BY <2>1 DEF NewHead
  <2> QED BY <1>1, <1>2, <1>3, <2>1, <2>2, <2>5, <2>6
<1> QED BY <1>5, <1>6

LEMMA ChangeIs ==
  ASSUME NEW p \in Proc, NEW roll \in BOOLEAN
  PROVE  /\ Change(p, roll).append /\ Change(p, roll).roll = roll
         /\ ~Change(p, roll).switchfork => BlockOf(scusp) = Prev[BlockOf(cur[p])]
         /\ BlockOf(scusp) = Prev[BlockOf(cur[p])] => ~Change(p, roll).switchfork
<1>1. Change(p, roll).append
  BY DEF Change
<1>2. Change(p, roll).roll = roll
  BY DEF Change
<1>3. Change(p, roll).switchfork = (BlockOf(scusp) # Prev[BlockOf(cur[p])])
  BY DEF Change
<1>4. ~Change(p, roll).switchfork => BlockOf(scusp) = Prev[BlockOf(cur[p])]
  BY <1>3
<1>5. BlockOf(scusp) = Prev[BlockOf(cur[p])] => ~Change(p, roll).switchfork
  BY <1>3
<1> QED BY <1>1, <1>2, <1>4, <1>5

(* After a roll the store lags by what do_store is about to write.           *)
LEMMA RunRoll ==
  ASSUME TypeInv, ShapeInv, OneCaller, HeadInv, RunStores, mode = "run", NEW p \in Proc,
         Uncle(p) \/ NewHead(p) \/ NewHeadAndRoot(p)
  PROVE  RunStores'
<1>1. /\ UNCHANGED <<heap, blockdata, blockptr, status, walk>>
      /\ rpc'[p] = "data" /\ \A q \in Proc : ~Storing(q)
  BY RollTree DEF storeVars, Locked, TypeInv, TypeOK
<1>2. ~StatusPending /\ \A h : ~PointerPending(h)
  BY <1>1, NonePending
<1>3. /\ HeightOf(sroot) = Kept(HeightOf(scusp)) /\ status = HeightOf(sroot)
      /\ \A h \in Heights \ {0} : /\ h > HeightOf(scusp) => blockptr[h] = NoBlock
                                  /\ h <= HeightOf(scusp) => Points(h, BlockOf(scusp))
  BY <1>2 DEF RunStores
<1>4. \A h, b : Points(h, b)' <=> Points(h, b)
  BY <1>1 DEF Points
<1>5. CASE Uncle(p)
  <2>1. HeightOf(sroot)' = HeightOf(sroot) /\ HeightOf(scusp)' = HeightOf(scusp) /\ BlockOf(scusp)' = BlockOf(scusp)
    BY <1>1, <1>5 DEF Uncle, HeightOf, BlockOf
  <2> QED BY <1>1, <1>3, <1>4, <2>1 DEF RunStores
<1>6. CASE NewHead(p) \/ NewHeadAndRoot(p)
  <2> DEFINE H == HeightOf(scusp)
  <2>1. /\ cur[p] \in Tree /\ scusp \in Tree /\ H \in Nat /\ HeightOf(sroot) \in Nat
        /\ BlockOf(scusp)' = BlockOf(cur[p]) /\ HeightOf(scusp)' = H + 1
        /\ HeightOf(sroot)' = Kept(H + 1) /\ HeightOf(sroot)' \in {HeightOf(sroot), HeightOf(sroot) + 1}
        /\ HeightOf(cur[p]) = H + 1
    BY <1>3, <1>6, RollHeights
  <2>2. /\ chg'[p].append
        /\ ~chg'[p].switchfork => BlockOf(scusp) = Prev[BlockOf(cur[p])]
        /\ chg'[p].roll \/ HeightOf(sroot)' = HeightOf(sroot)
    <3>1. CASE NewHead(p)
      <4>1. chg'[p] = Change(p, FALSE) /\ HeightOf(sroot)' = HeightOf(sroot)
        BY <3>1, RollHeights
      <4> QED BY <4>1, ChangeIs
    <3>2. CASE NewHeadAndRoot(p)
      <4>1. chg'[p] = Change(p, TRUE)
        BY <3>2, RollHeights
      <4> QED BY <4>1, ChangeIs
    <3> QED BY <1>6, <3>1, <3>2
  <2>3. status = HeightOf(sroot)' \/ StatusPending'
    BY <1>1, <1>3, <2>2 DEF StatusPending
  <2>4. ASSUME NEW h \in Heights \ {0} PROVE h > H + 1 => blockptr[h] = NoBlock
    <3>1. h \in Nat
      BY HeightType
    <3> QED BY <1>3, <2>1, <3>1
  <2>5. ASSUME NEW h \in Heights \ {0}, h <= H + 1
        PROVE  Points(h, BlockOf(cur[p])) \/ PointerPending(h)'
    <3>0. h \in Nat /\ cur[p] \in Chunk /\ BlockOf(cur[p]) \in Block
      BY <2>1, HeightType, TreeChunk
    <3>1. CASE h = H + 1
      BY <1>1, <2>1, <2>2, <3>1 DEF PointerPending, Storing
    <3>2. CASE h <= H /\ ~chg'[p].switchfork
      <4>1. BlockOf(cur[p]) # Genesis /\ BlockOf(scusp) = Prev[BlockOf(cur[p])]
        BY <2>1, <2>2, <3>2, BlockAssumption DEF HeightOf
      <4>2. Anc[BlockOf(scusp)] \subseteq Anc[BlockOf(cur[p])]
        BY <3>0, <4>1, PrevFacts
      <4> QED BY <1>3, <3>2, <4>2 DEF Points
    <3>3. CASE h <= H /\ chg'[p].switchfork /\ HeightOf(sroot)' <= h
      <4>1. h < HeightOf(scusp)'
        BY <2>1, <3>0, <3>3
      <4>2. rpc'[p] # "walk" /\ Storing(p)'
        BY <1>1 DEF Storing
      <4> QED BY <2>2, <3>3, <4>1, <4>2 DEF PointerPending
    <3>4. CASE h <= H /\ ~(HeightOf(sroot)' <= h)
      <4>1. h <= HeightOf(sroot)
        BY <2>1, <3>0, <3>4
      <4>2. Points(h, BlockOf(scusp))
        BY <1>3, <3>4
      <4>3. blockptr[h] \in Anc[BlockOf(cur[p])]
        BY <2>1, <4>1, <4>2, SharedBelow DEF Points
      <4> QED BY <4>2, <4>3 DEF Points
    <3>5. h = H + 1 \/ h <= H
      BY <2>1, <2>5, <3>0
    <3> QED BY <3>1, <3>2, <3>3, <3>4, <3>5
  <2> QED BY <1>1, <1>4, <2>1, <2>3, <2>4, <2>5 DEF RunStores
<1> QED BY <1>5, <1>6

(* What a store writes as a pointer has its body stored.                     *)
LEMMA StoredBody ==
  ASSUME TypeInv, ShapeInv, OneCaller, HeadInv, MemoryInv, Up, NEW p \in Proc,
         rpc[p] \in {"ptr", "status", "walk"}, StoreInv,
         NEW a \in Tree, a \in heap[cur[p]].path, HeightOf(a) # 0
  PROVE  BlockOf(a) \in blockdata
<1>1. Storing(p) /\ cur[p] \in Tree \ InFlight(p)
  BY DEF Storing, MemoryInv, PointersInTree
<1>2. \A q \in Proc \ {p} : InFlight(q) = {}
  BY <1>1, Alone DEF HeadInv, Calling, Storing
<1>3. \A q \in Proc : a \notin InFlight(q)
  BY <1>1, <1>2 DEF MemoryInv, FlightClosed
<1>4. \A q \in Proc : rpc[q] # "data"
  BY <1>1 DEF StoreInv, OneStores, Storing
<1>5. BlockOf(a) # Genesis
  BY BlockAssumption DEF HeightOf
<1> QED BY <1>3, <1>4, <1>5 DEF MemoryInv, BodiesStored

(* Each write of do_store takes one thing off what the store lags by.        *)
LEMMA RunStore ==
  ASSUME TypeInv, ShapeInv, OneCaller, HeadInv, StoreInv, MemoryInv, RunStores, mode = "run",
         NEW p \in Proc,
         PutBlockData(p) \/ PutBlockPtr(p) \/ PutStatus(p) \/ RewritePtr(p) \/ EndRewrite(p)
  PROVE  RunStores'
<1> DEFINE B == BlockOf(scusp)
           H == HeightOf(scusp)
           R == HeightOf(sroot)
           Good(h) == blockptr'[h] \in Anc[B] \intersect blockdata' /\ Height[blockptr'[h]] = h
<1>1. /\ UNCHANGED <<heap, sroot, scusp, mode>> /\ Up /\ Storing(p)
      /\ BlockOf(scusp)' = B /\ HeightOf(scusp)' = H /\ HeightOf(sroot)' = R
  <2>1. UNCHANGED <<heap, sroot, scusp, mode>> /\ Up /\ Storing(p)
    BY StoreMoves DEF engineVars, nodeVars
  <2> QED BY <2>1 DEF BlockOf, HeightOf
<1>2. \A q \in Proc \ {p} : ~Storing(q) /\ rpc'[q] = rpc[q] /\ chg'[q] = chg[q] /\ walk'[q] = walk[q]
  BY <1>1, StoreMoves DEF StoreInv, OneStores
<1>3. /\ chg[p].append => cur[p] = scusp
      /\ chg[p].roll => chg[p].append
      /\ rpc[p] \in {"ptr", "status", "walk"} => chg[p].append
      /\ cur[p] \in Tree /\ scusp \in Tree
  BY <1>1 DEF MemoryInv, ChangeFits, StoreInv, StoresItsOwnHead, PointersInTree, HeadInv, HeadInWindow
<1>4. /\ TypeOK /\ PathsAreChains /\ cur[p] \in Chunk /\ scusp \in Chunk /\ B \in Block
      /\ H \in Nat /\ R \in Nat /\ \A h \in Heights : h \in Nat
      /\ \A a \in heap[cur[p]].path : a \in Chunk /\ HeightOf(a) \in Nat
  BY <1>3, TreeChunk, PathHeight, HeightType DEF Tree
<1>5. StatusPending => rpc[p] \in {"data", "ptr", "status"} /\ chg[p].roll
  BY <1>2 DEF StatusPending, Storing
<1>6. ASSUME NEW h, PointerPending(h)
      PROVE  /\ chg[p].append
             /\ \/ rpc[p] \in {"data", "ptr"} /\ h = H
                \/ /\ chg[p].switchfork /\ R <= h /\ h < H
                   /\ rpc[p] = "walk" => h < HeightOf(walk[p])
  BY <1>2, <1>6 DEF PointerPending
<1>7. status' = R \/ StatusPending'
  <2>1. CASE PutStatus(p)
    BY <2>1 DEF PutStatus
  <2>2. CASE ~PutStatus(p)
    <3>1. status' = status
      BY <2>2 DEF PutBlockData, PutBlockPtr, RewritePtr, EndRewrite, storeVars
    <3>2. ASSUME StatusPending PROVE StatusPending'
      <4>1. rpc[p] \in {"data", "ptr", "status"} /\ chg[p].roll /\ chg[p].append
        BY <1>3, <1>5, <3>2
      <4>2. rpc'[p] \in {"ptr", "status"}
        BY <2>2, <4>1, StoreMoves DEF AfterData, AfterPtr
      <4>3. chg'[p] = chg[p]
        BY <4>2, StoreMoves
      <4> QED BY <4>1, <4>2, <4>3 DEF StatusPending
    <3> QED BY <3>1, <3>2 DEF RunStores
  <2> QED BY <2>1, <2>2
<1>8. blockdata \subseteq blockdata'
  BY DEF PutBlockData, PutBlockPtr, PutStatus, RewritePtr, EndRewrite, StoreStep, storeVars
<1>9. ASSUME NEW a \in Tree, a \in heap[cur[p]].path, chg[p].append, HeightOf(a) # 0,
             rpc[p] \in {"ptr", "status", "walk"}, blockptr'[HeightOf(a)] = BlockOf(a)
      PROVE  Good(HeightOf(a))
  <2>1. BlockOf(a) \in blockdata'
    BY <1>1, <1>8, <1>9, StoredBody
  <2>2. BlockOf(a) \in Anc[B]
    BY <1>3, <1>4, <1>9, PathAnc
  <2> QED BY <1>9, <2>1, <2>2 DEF HeightOf
<1>10. ASSUME NEW h \in Heights, h # 0
       PROVE  blockptr'[h] = blockptr[h] \/ (Good(h) /\ h <= H)
  <2>1. CASE PutBlockPtr(p)
    <3>1. rpc[p] = "ptr" /\ cur[p] = scusp /\ blockptr' = [blockptr EXCEPT ![H] = B]
      BY <1>3, <2>1 DEF PutBlockPtr, StoreStep
    <3>2. CASE h = H
      <4>1. scusp \in heap[cur[p]].path
        BY <1>4, <3>1 DEF TypeOK
      <4>2. blockptr'[H] = B
        BY <1>4, <1>10, <3>1, <3>2 DEF TypeOK
      <4>3. Good(HeightOf(scusp))
        BY <1>3, <1>9, <1>10, <3>1, <3>2, <4>1, <4>2
      <4> QED BY <1>4, <3>2, <4>3
    <3> QED BY <1>4, <3>1, <3>2 DEF TypeOK
  <2>2. CASE RewritePtr(p)
    <3>1. PICK a \in LiveParent(walk[p]) : blockptr' = [blockptr EXCEPT ![HeightOf(a)] = BlockOf(a)]
      BY <2>2 DEF RewritePtr
    <3>2. /\ rpc[p] = "walk" /\ cur[p] = scusp /\ chg[p].append
          /\ walk[p] \in heap[cur[p]].path
      BY <1>3, <2>2 DEF RewritePtr, MemoryInv, PointersInTree
    <3>3. a \in heap[cur[p]].path /\ Alive(a) /\ HeightOf(a) <= H
      <4>1. a \in heap[walk[p]].path /\ Alive(a)
        BY <3>1 DEF LiveParent
      <4>2. a \in heap[cur[p]].path
        BY <1>4, <3>2, <4>1, PathHeight
      <4> QED BY <1>4, <3>2, <4>1, <4>2, PathHeight
    <3>4. a \in Tree
      BY <1>4, <3>3, AliveIs DEF MemoryInv
    <3>5. CASE h = HeightOf(a)
      <4>1. blockptr'[HeightOf(a)] = BlockOf(a)
        BY <1>10, <3>1, <3>5 DEF TypeInv, TypeOK
      <4>2. Good(HeightOf(a))
        BY <1>9, <1>10, <3>2, <3>3, <3>4, <3>5, <4>1
      <4> QED BY <3>3, <3>5, <4>2
    <3> QED BY <1>4, <3>1, <3>5 DEF TypeOK
  <2>3. CASE ~PutBlockPtr(p) /\ ~RewritePtr(p)
    BY <2>3 DEF PutBlockData, PutStatus, EndRewrite, storeVars
  <2> QED BY <2>1, <2>2, <2>3

<1>11. ASSUME NEW h \in Heights \ {0}, Points(h, B) PROVE Good(h)
  <2>1. blockptr'[h] = blockptr[h] \/ Good(h)
    BY <1>10
  <2> QED BY <1>8, <1>11, <2>1 DEF Points
<1>12. ASSUME NEW h \in Heights \ {0}, PointerPending(h) PROVE Good(h) \/ PointerPending(h)'
  <2>0. /\ chg[p].append /\ cur[p] = scusp /\ h \in Nat
        /\ \/ rpc[p] \in {"data", "ptr"} /\ h = H
           \/ /\ chg[p].switchfork /\ R <= h /\ h < H
              /\ rpc[p] = "walk" => h < HeightOf(walk[p])
    BY <1>3, <1>4, <1>6, <1>12
  <2>1. ASSUME chg'[p] = chg[p], rpc'[p] \in {"ptr", "status", "walk"},
               chg[p].switchfork, R <= h, h < H, rpc'[p] = "walk" => h < HeightOf(walk'[p])
        PROVE  PointerPending(h)'
    <3>1. rpc'[p] = "walk" => h < HeightOf(walk[p])'
      BY <1>1, <2>1 DEF HeightOf, BlockOf
    <3> QED BY <1>1, <2>0, <2>1, <3>1 DEF PointerPending, Storing
  <2>2. CASE PutBlockData(p)
    <3>1. rpc'[p] = "ptr" /\ chg'[p] = chg[p] /\ rpc[p] = "data"
      BY <2>0, <2>2, StoreMoves DEF AfterData, PutBlockData, StoreStep, TypeInv, TypeOK
    <3>2. CASE h = H
      BY <1>1, <2>0, <3>1, <3>2 DEF PointerPending, Storing
    <3> QED BY <2>0, <2>1, <3>1, <3>2
  <2>3. CASE PutBlockPtr(p)
    <3>0. rpc[p] = "ptr" /\ rpc'[p] = AfterPtr(p) /\ blockptr' = [blockptr EXCEPT ![H] = B]
      BY <2>0, <2>3 DEF PutBlockPtr, StoreStep, TypeInv, TypeOK
    <3>1. CASE h = H
      <4>1. blockptr'[HeightOf(scusp)] = BlockOf(scusp)
        BY <3>0, <3>1 DEF TypeInv, TypeOK
      <4>2. scusp \in heap[cur[p]].path /\ HeightOf(scusp) # 0
        BY <1>4, <2>0, <3>1 DEF TypeOK
      <4>3. Good(HeightOf(scusp))
        BY <1>3, <1>9, <2>0, <3>0, <4>1, <4>2
      <4> QED BY <3>1, <4>3
    <3>2. CASE h # H
      <4>1. chg[p].switchfork /\ R <= h /\ h < H
        BY <2>0, <3>2
      <4>2. rpc'[p] \in {"status", "walk"}
        BY <3>0, <4>1 DEF AfterPtr, AfterStatus
      <4>3. chg'[p] = chg[p] /\ (walk'[p] = cur[p] \/ RewritePtr(p))
        BY <4>2, StoreMoves
      <4>4. ~RewritePtr(p)
        BY <3>0 DEF RewritePtr
      <4> QED BY <2>0, <2>1, <4>1, <4>2, <4>3, <4>4
    <3> QED BY <3>1, <3>2
  <2>4. CASE PutStatus(p)
    <3>0. rpc[p] = "status" /\ rpc'[p] = AfterStatus(p)
      BY <2>4 DEF PutStatus, StoreStep, TypeInv, TypeOK
    <3>1. chg[p].switchfork /\ R <= h /\ h < H
      BY <2>0, <3>0
    <3>2. rpc'[p] = "walk"
      BY <3>0, <3>1 DEF AfterStatus
    <3>3. chg'[p] = chg[p] /\ (walk'[p] = cur[p] \/ RewritePtr(p))
      BY <3>2, StoreMoves
    <3>4. ~RewritePtr(p)
      BY <3>0 DEF RewritePtr
    <3> QED BY <2>0, <2>1, <3>1, <3>2, <3>3, <3>4
  <2>5. CASE RewritePtr(p)
    <3>1. PICK a \in LiveParent(walk[p]) :
            /\ blockptr' = [blockptr EXCEPT ![HeightOf(a)] = BlockOf(a)]
            /\ walk' = [walk EXCEPT ![p] = a]
      BY <2>5 DEF RewritePtr
    <3>2. /\ rpc[p] = "walk" /\ rpc'[p] = "walk" /\ chg'[p] = chg[p] /\ walk'[p] = a
          /\ walk[p] \in heap[cur[p]].path
      BY <2>5, <3>1 DEF RewritePtr, MemoryInv, PointersInTree, TypeInv, TypeOK
    <3>3. /\ a \in heap[cur[p]].path /\ Alive(a)
          /\ HeightOf(a) + 1 = HeightOf(walk[p]) /\ HeightOf(a) \in Nat
      <4>1. a \in heap[walk[p]].path /\ Alive(a) /\ HeightOf(a) + 1 = HeightOf(walk[p])
        BY <3>1 DEF LiveParent
      <4>2. a \in heap[cur[p]].path
        BY <1>4, <3>2, <4>1, PathHeight
      <4> QED BY <1>4, <4>1, <4>2
    <3>4. chg[p].switchfork /\ R <= h /\ h < H /\ h < HeightOf(a) + 1
      BY <2>0, <3>2, <3>3
    <3>5. CASE h = HeightOf(a)
      <4>1. blockptr'[HeightOf(a)] = BlockOf(a)
        BY <3>1, <3>5 DEF TypeInv, TypeOK
      <4>2. a \in Tree
        BY <1>4, <3>3, AliveIs DEF MemoryInv
      <4>3. Good(HeightOf(a))
        BY <1>9, <2>0, <3>2, <3>3, <3>5, <4>1, <4>2
      <4> QED BY <3>5, <4>3
    <3>6. CASE h # HeightOf(a)
      <4>1. h < HeightOf(a)
        BY <2>0, <3>3, <3>4, <3>6
      <4> QED BY <2>1, <3>2, <3>4, <4>1
    <3> QED BY <3>5, <3>6
  <2>6. CASE EndRewrite(p)
    <3>1. rpc[p] = "walk" /\ LiveParent(walk[p]) = {} /\ walk[p] \in Tree
      BY <2>6 DEF EndRewrite, MemoryInv, PointersInTree
    <3>2. R <= h /\ h < HeightOf(walk[p]) /\ HeightOf(walk[p]) \in Nat
      BY <2>0, <3>1, TreeHeights
    <3>3. HeightOf(walk[p]) - 1 \in R..HeightOf(walk[p])
      BY <1>4, <2>0, <3>2
    <3>4. PICK a \in heap[walk[p]].path : HeightOf(a) = HeightOf(walk[p]) - 1 /\ a \in Tree
      BY <3>1, <3>3, TreeHeights
    <3>5. Alive(a) /\ a # walk[p] /\ HeightOf(a) + 1 = HeightOf(walk[p])
      BY <3>2, <3>4, AliveIs, TreeChunk DEF MemoryInv
    <3> QED BY <3>1, <3>4, <3>5 DEF LiveParent
  <2> QED BY <2>2, <2>3, <2>4, <2>5, <2>6
<1>13. \A h \in Heights \ {0} :
         /\ h > H => blockptr'[h] = NoBlock
         /\ h <= H => Good(h) \/ PointerPending(h)'
  <2> SUFFICES ASSUME NEW h \in Heights \ {0}
               PROVE  /\ h > H => blockptr'[h] = NoBlock
                      /\ h <= H => Good(h) \/ PointerPending(h)'
    OBVIOUS
  <2>1. /\ h > H => blockptr[h] = NoBlock
        /\ h <= H => Points(h, B) \/ PointerPending(h)
    BY DEF RunStores
  <2>2. h > H => blockptr'[h] = blockptr[h]
    BY <1>4, <1>10
  <2> QED BY <1>11, <1>12, <2>1, <2>2
<1>14. \A h : Points(h, B)' <=> Good(h)
  BY <1>1 DEF Points
<1>15. \A h \in Heights \ {0} :
         /\ h > HeightOf(scusp)' => blockptr'[h] = NoBlock
         /\ h <= HeightOf(scusp)' => Points(h, BlockOf(scusp))' \/ PointerPending(h)'
  BY <1>1, <1>13, <1>14
<1>16. HeightOf(sroot)' = Kept(HeightOf(scusp)')
  BY <1>1 DEF RunStores
<1> QED BY <1>1, <1>7, <1>15, <1>16 DEF RunStores

-----------------------------------------------------------------------------
(* The rebuild.                                                              *)

LEMMA OnlyBoot ==
  ASSUME OneCall, mode = "rebuild", NEW p \in Proc, Calling(p)
  PROVE  p = Boot
  BY DEF OneCall, Proc

(* The block a rebuild is at continues the chain of its head.                *)
LEMMA NextBlock ==
  ASSUME TypeInv, ShapeInv, HeadInv, RebuildStores, RebuildCall, mode = "rebuild", Calling(Boot)
  PROVE  \E b \in Anc[StoredHead] :
           /\ b = blockptr[nexth - 1] /\ b \in blockdata /\ b \in Block \ {Genesis}
           /\ nexth \in Nat \ {0, 1} /\ nexth - 1 \in Heights /\ nexth - 1 <= Height[StoredHead]
           /\ Height[b] = nexth - 1
           /\ \/ /\ Executes(Boot, b) \/ Sends(Boot, b) \/ Takes(Boot, b)
                 /\ nexth = HeightOf(scusp) + 2 /\ Prev[b] = BlockOf(scusp)
              \/ Stores(Boot, b)
<1> DEFINE b == blockptr[nexth - 1]
<1>1. /\ nexth \in Nat \ {0, 1} /\ nexth - 1 \in Heights /\ nexth - 1 <= Height[StoredHead]
      /\ \/ (Executes(Boot, b) \/ Sends(Boot, b) \/ Takes(Boot, b)) /\ nexth = HeightOf(scusp) + 2
         \/ Stores(Boot, b)
  BY DEF RebuildCall
<1>2. StoredHead \in Block /\ StoresChain(StoredHead) /\ BlockOf(scusp) \in Anc[StoredHead]
  BY DEF RebuildStores
<1>3. nexth - 1 # 0
  BY <1>1
<1>4. b \in Anc[StoredHead] /\ b \in blockdata /\ Height[b] = nexth - 1
  <2>1. Points(nexth - 1, StoredHead)
    BY <1>1, <1>2, <1>3 DEF StoresChain
  <2> QED BY <2>1 DEF Points
<1>5. b \in Block \ {Genesis}
  BY <1>2, <1>3, <1>4, AncFacts, BlockAssumption
<1>6. ASSUME nexth = HeightOf(scusp) + 2 PROVE Prev[b] = BlockOf(scusp)
  <2>1. Height[b] = Height[BlockOf(scusp)] + 1 /\ HeightOf(scusp) \in Nat
    <3>1. HeightOf(scusp) \in Nat
      BY TreeHeights DEF HeadInv, HeadInWindow
    <3> QED BY <1>4, <1>6, <3>1 DEF HeightOf
  <2> QED BY <1>2, <1>4, <2>1, AncChild
<1> QED BY <1>1, <1>4, <1>5, <1>6

LEMMA CallIs ==
  ASSUME mode' = "rebuild", UNCHANGED blockptr, ~err'[Boot], NEW b, b = blockptr[nexth' - 1],
         nexth' \in Nat \ {0, 1}, nexth' - 1 \in Heights, nexth' - 1 <= Height[StoredHead],
         \/ /\ Executes(Boot, b)' \/ Sends(Boot, b)' \/ Takes(Boot, b)'
            /\ nexth' = HeightOf(scusp)' + 2
         \/ Stores(Boot, b)',
         rpc'[Boot] # "idle", epc'[Boot] # "idle" => base'[Boot] = scusp'
  PROVE  RebuildCall'
<1>1. StoredHead' = StoredHead
  BY DEF StoredHead, TopHeight
<1> QED BY <1>1 DEF RebuildCall, Calling

(* Its execution extends the head and is never refused.                      *)
LEMMA RebuildExec ==
  ASSUME TypeInv, ShapeInv, OneCaller, HeadInv, MemoryInv, RebuildStores, RebuildCall,
         mode = "rebuild", NEW p \in Proc, ExecStep(p)
  PROVE  RebuildCall'
<1>1. todo[p] # <<>> /\ Calling(p) /\ p = Boot /\ Up /\ Boot \in Proc
  <2>1. todo[p] # <<>>
    BY DEF ExecStep, Locate, CheckRepeat, Execute, Push, TypeInv, Pointers
  <2>2. Calling(p)
    BY <2>1 DEF ShapeInv, NothingLeft
  <2> QED BY <2>1, <2>2, OnlyBoot DEF HeadInv, Up
<1>2. PICK b \in Anc[StoredHead] :
           /\ b = blockptr[nexth - 1] /\ b \in blockdata /\ b \in Block \ {Genesis}
           /\ nexth \in Nat \ {0, 1} /\ nexth - 1 \in Heights /\ nexth - 1 <= Height[StoredHead]
           /\ Executes(Boot, b)
           /\ nexth = HeightOf(scusp) + 2 /\ Prev[b] = BlockOf(scusp)
  BY <1>1, NextBlock DEF Sends, Takes, Stores
<1>3. /\ todo[p] = <<b>> /\ Head(todo[p]) = b /\ Tail(todo[p]) = <<>> /\ chan[p] = <<>> /\ rpc[p] = "recv"
  BY <1>1, <1>2 DEF Executes
<1>4. /\ scusp \in Tree /\ scusp \in Chunk /\ Alive(scusp) /\ ~err[Boot]
      /\ UNCHANGED <<scusp, blockptr, mode, nexth, rpc>>
  <2>1. scusp \in Tree /\ scusp \in Chunk
    BY DEF HeadInv, HeadInWindow, Tree
  <2>2. UNCHANGED <<scusp, blockptr, mode, nexth, rpc>>
    BY DEF ExecStep, Locate, CheckRepeat, Execute, Push, engineVars, storeVars, nodeVars, rollVars
  <2> QED BY <2>1, <2>2, AliveIs DEF MemoryInv, RebuildCall
<1>5. base[p] = scusp \/ epc[p] = "idle"
  BY <1>1 DEF RebuildCall
<1>6. ASSUME ~ExecError(p), Locate(p) \/ CheckRepeat(p) \/ Execute(p) PROVE RebuildCall'
  <2>1. UNCHANGED <<heap, chan, err>> /\ todo' = todo
    BY <1>6 DEF Locate, CheckRepeat, Execute, engineVars
  <2>2. HeightOf(scusp)' = HeightOf(scusp)
    BY <1>4, <2>1 DEF HeightOf, BlockOf
  <2>3. base'[p] = scusp
    <3>1. CASE Locate(p)
      <4>1. BaseChunks(Prev[b]) = {scusp}
        BY <1>2, <1>4 DEF BaseChunks
      <4>2. \E n \in BaseChunks(Prev[b]) : base' = [base EXCEPT ![p] = n]
        BY <1>3, <1>6, <3>1 DEF Locate
      <4> QED BY <4>1, <4>2 DEF TypeInv, TypeOK
    <3>2. CASE CheckRepeat(p) \/ Execute(p)
      BY <1>5, <1>6, <3>2 DEF CheckRepeat, Execute
    <3> QED BY <1>6, <3>1, <3>2
  <2>4. Executes(Boot, b)'
    BY <1>2, <1>4, <2>1 DEF Executes
  <2> QED BY <1>1, <1>2, <1>3, <1>4, <2>1, <2>2, <2>3, <2>4, CallIs
<1>7. CASE Locate(p)
  <2>1. BaseChunks(Prev[b]) = {scusp}
    BY <1>2, <1>4 DEF BaseChunks
  <2>2. epc'[p] = "repeat"
    BY <1>3, <1>7, <2>1 DEF Locate, TypeInv, TypeOK
  <2>3. ~ExecError(p)
    BY <2>2 DEF ExecError, TypeInv, TypeOK
  <2> QED BY <1>6, <1>7, <2>3
<1>8. CASE CheckRepeat(p)
  <2>1. base[p] = scusp /\ epc[p] = "repeat"
    BY <1>5, <1>8 DEF CheckRepeat
  <2>2. ASSUME NEW k \in Children(scusp) PROVE FALSE
    <3>1. k \in Tree /\ HeightOf(k) = HeightOf(scusp) + 1
      BY <1>4, TreeChunk DEF Children
    <3>2. \A q \in Proc : k \notin InFlight(q)
      <4>1. InFlight(p) = {}
        BY <1>3 DEF InFlight
      <4> QED BY <1>1, <4>1, Alone DEF HeadInv
    <3>3. HeightOf(k) <= HeightOf(scusp) /\ HeightOf(scusp) \in Nat
      BY <1>4, <3>1, <3>2, TreeChunk DEF HeadInv, RolledBelowHead
    <3> QED BY <3>1, <3>3
  <2>3. epc'[p] = "exec"
    BY <1>8, <2>1, <2>2 DEF CheckRepeat, TypeInv, TypeOK
  <2>4. ~ExecError(p)
    BY <2>3 DEF ExecError, TypeInv, TypeOK
  <2> QED BY <1>6, <1>8, <2>4
<1>9. CASE Execute(p)
  <2>1. base[p] = scusp /\ epc[p] = "exec"
    BY <1>5, <1>9 DEF Execute
  <2>2. b \notin Bad
    BY <1>2 DEF MemoryInv, GoodBlocks
  <2>3. Height[b] = HeightOf(scusp) + 1
    BY <1>2, PrevFacts DEF HeightOf
  <2>4. View(scusp) = Ledger(Prev[b])
    BY <1>2, <1>4, ViewIs DEF MemoryInv
  <2>5. \A k \in Key : b \notin Ledger(Prev[b])[k]
    BY <1>2, PrevFacts, LedgerType
  <2>6. Writes[b] \subseteq Key
    BY <1>2, StateAssumption
  <2>7. ~Refused(Head(todo[p]), base[p])
    BY <1>3, <2>1, <2>2, <2>3, <2>4, <2>5, <2>6 DEF Refused
  <2>8. epc'[p] = "push"
    BY <1>9, <2>7 DEF Execute, TypeInv, TypeOK
  <2>9. ~ExecError(p)
    BY <2>8 DEF ExecError, TypeInv, TypeOK
  <2> QED BY <1>6, <1>9, <2>9
<1>10. CASE Push(p)
  <2> DEFINE n == Len(heap) + 1
  <2>1. /\ todo'[p] = <<>> /\ epc'[p] = "idle" /\ chan'[p] = Append(<<>>, n) /\ UNCHANGED err
    BY <1>3, <1>10 DEF Push, TypeInv, TypeOK
  <2>2. Len(chan'[p]) = 1 /\ chan'[p][1] = n
    BY <2>1
  <2>3. heap'[n].block = b /\ heap'[scusp] = heap[scusp]
    BY <1>3, <1>4, <1>10, PushHeap
  <2>4. HeightOf(scusp)' = HeightOf(scusp)
    BY <1>4, <2>3 DEF HeightOf, BlockOf
  <2>5. Sends(Boot, b)'
    BY <1>1, <1>3, <1>4, <2>1, <2>2, <2>3 DEF Sends, BlockOf
  <2> QED BY <1>1, <1>2, <1>3, <1>4, <2>1, <2>4, <2>5, CallIs
<1> QED BY <1>7, <1>8, <1>9, <1>10 DEF ExecStep

LEMMA RebuildRecv ==
  ASSUME TypeInv, ShapeInv, HeadInv, RebuildStores, RebuildCall, mode = "rebuild",
         NEW p \in Proc, Recv(p)
  PROVE  RebuildCall'
<1>1. /\ UNCHANGED <<heap, scusp, blockptr, mode, nexth, todo, epc, base, err>>
      /\ rpc[p] = "recv" /\ Calling(p)
  BY DEF Recv, engineVars, storeVars, nodeVars, execVars, Calling
<1>2. p = Boot
  BY <1>1, OnlyBoot DEF HeadInv
<1>3. cur'[p] = chan[p][1] /\ chan'[p] = Tail(chan[p]) /\ rpc'[p] = "lock" /\ chan[p] \in Seq(Chunk)
      /\ chan[p] # <<>>
  BY RecvFlight
<1>4. PICK b \in Anc[StoredHead] :
           /\ b = blockptr[nexth - 1] /\ nexth \in Nat \ {0, 1} /\ nexth - 1 \in Heights
           /\ nexth - 1 <= Height[StoredHead] /\ Sends(Boot, b) /\ nexth = HeightOf(scusp) + 2
  BY <1>1, <1>2, <1>3, NextBlock DEF Executes, Takes, Stores
<1>5. Takes(Boot, b)'
  <2>0. Len(chan[p]) = 1
    BY <1>2, <1>4 DEF Sends
  <2>1. Tail(chan[p]) = <<>>
    <3>1. chan[p] = <<chan[p][1]>>
      BY <1>3, <2>0
    <3>2. \A x : Tail(<<x>>) = <<>>
      OBVIOUS
    <3> QED BY <3>1, <3>2
  <2> QED BY <1>1, <1>2, <1>3, <1>4, <2>1 DEF Sends, Takes, BlockOf
<1>6. HeightOf(scusp)' = HeightOf(scusp)
  BY <1>1 DEF HeightOf, BlockOf
<1>7. ~err[Boot] /\ (epc[Boot] # "idle" => base[Boot] = scusp)
  BY DEF RebuildCall
<1> QED BY <1>1, <1>2, <1>3, <1>4, <1>5, <1>6, <1>7, CallIs

(* It becomes the head on the branch of the head.                            *)
LEMMA RebuildRoll ==
  ASSUME TypeInv, ShapeInv, OneCaller, HeadInv, RebuildStores, RebuildCall, mode = "rebuild",
         NEW p \in Proc, Uncle(p) \/ NewHead(p) \/ NewHeadAndRoot(p)
  PROVE  RebuildStores' /\ RebuildCall'
<1> DEFINE T == StoredHead
           H == HeightOf(scusp)
<1>1. /\ UNCHANGED <<heap, chan, cur, todo, mode, epc, base, blockdata, blockptr, status, nexth, err>>
      /\ rpc'[p] = "data" /\ rpc[p] = "lock" /\ Calling(p) /\ \A q \in Proc : ~Storing(q)
  BY RollTree DEF storeVars, Locked, TypeInv, TypeOK
<1>2. p = Boot
  BY <1>1, OnlyBoot DEF HeadInv
<1>3. PICK b \in Anc[StoredHead] :
           /\ b = blockptr[nexth - 1] /\ b \in Block \ {Genesis}
           /\ nexth \in Nat \ {0, 1} /\ nexth - 1 \in Heights
           /\ nexth - 1 <= Height[StoredHead] /\ Height[b] = nexth - 1
           /\ Takes(Boot, b) /\ nexth = H + 2 /\ Prev[b] = BlockOf(scusp)
  BY <1>1, <1>2, NextBlock DEF Executes, Sends, Stores
<1>4. BlockOf(cur[p]) = b /\ H \in Nat /\ HeightOf(cur[p]) = H + 1
  <2>1. BlockOf(cur[p]) = b /\ H \in Nat
    BY <1>2, <1>3, TreeHeights DEF Takes, HeadInv, HeadInWindow
  <2> QED BY <1>3, <2>1 DEF HeightOf
<1>5. NewHead(p) \/ NewHeadAndRoot(p)
  BY <1>4 DEF Uncle
<1>6. /\ scusp' = cur[p] /\ BlockOf(scusp)' = b /\ HeightOf(scusp)' = H + 1
      /\ HeightOf(sroot) = Kept(H) => HeightOf(sroot)' = Kept(H + 1)
      /\ NewHead(p) => HeightOf(sroot)' = HeightOf(sroot) /\ chg'[p] = Change(p, FALSE)
      /\ NewHeadAndRoot(p) => HeightOf(sroot)' = Kept(H + 1) /\ chg'[p] = Change(p, TRUE)
  BY <1>4, <1>5, RollHeights
<1>7. chg'[p].append /\ ~chg'[p].switchfork /\ (NewHeadAndRoot(p) => chg'[p].roll)
  <2>1. Prev[BlockOf(cur[p])] = BlockOf(scusp)
    BY <1>3, <1>4
  <2> QED BY <1>5, <1>6, <2>1, ChangeIs
<1>8. StoredHead' = T /\ (StoresChain(T)' <=> StoresChain(T))
  BY <1>1 DEF StoredHead, TopHeight, StoresChain, Points
<1>9. T \in Block /\ StoresChain(T) /\ BlockOf(scusp)' \in Anc[T]
  BY <1>3, <1>6 DEF RebuildStores
<1>10. HeightOf(sroot)' \in {Kept(HeightOf(scusp)'), Kept(Height[T])}
  BY <1>5, <1>6 DEF RebuildStores
<1>11. status \in {HeightOf(sroot)', Kept(Height[T])} \/ StatusPending'
  <2>1. CASE NewHead(p)
    <3>1. ~StatusPending
      BY <1>1, NonePending
    <3> QED BY <1>6, <2>1, <3>1 DEF RebuildStores
  <2>2. CASE NewHeadAndRoot(p)
    BY <1>1, <1>7, <2>2 DEF StatusPending
  <2> QED BY <1>5, <2>1, <2>2
<1>12. StoresChain(StoredHead)'
  BY <1>8, <1>9 DEF StoresChain, Points
<1>13. RebuildStores'
  BY <1>1, <1>8, <1>9, <1>10, <1>11, <1>12 DEF RebuildStores
<1>14. Stores(Boot, b)'
  BY <1>1, <1>2, <1>3, <1>6, <1>7 DEF Stores, Takes
<1>15. ~err[Boot] /\ epc[Boot] = "idle"
  BY <1>3 DEF RebuildCall, Takes
<1> QED BY <1>1, <1>2, <1>3, <1>13, <1>14, <1>15, CallIs

(* Storing it changes nothing the store pointed to.                          *)
LEMMA RebuildStore ==
  ASSUME TypeInv, ShapeInv, OneCaller, HeadInv, MemoryInv, RebuildStores, RebuildCall, mode = "rebuild",
         NEW p \in Proc,
         PutBlockData(p) \/ PutBlockPtr(p) \/ PutStatus(p) \/ RewritePtr(p) \/ EndRewrite(p)
  PROVE  RebuildStores' /\ RebuildCall' /\ UNCHANGED blockptr
<1> DEFINE T == StoredHead
<1>1. /\ UNCHANGED <<heap, sroot, scusp, chan, todo, epc, base, mode, nexth, err>> /\ Storing(p)
      /\ BlockOf(scusp)' = BlockOf(scusp) /\ HeightOf(scusp)' = HeightOf(scusp)
      /\ HeightOf(sroot)' = HeightOf(sroot)
  <2>1. UNCHANGED <<heap, sroot, scusp, chan, todo, epc, base, mode, nexth, err>> /\ Storing(p)
    BY StoreMoves DEF engineVars, execVars, nodeVars
  <2> QED BY <2>1 DEF BlockOf, HeightOf
<1>2. p = Boot /\ Calling(p)
  BY <1>1, OnlyBoot DEF HeadInv, Calling, Storing
<1>3. PICK b \in Anc[StoredHead] :
           /\ b = blockptr[nexth - 1] /\ b \in blockdata /\ b \in Block \ {Genesis}
           /\ nexth \in Nat \ {0, 1} /\ nexth - 1 \in Heights
           /\ nexth - 1 <= Height[StoredHead] /\ Height[b] = nexth - 1
           /\ Stores(Boot, b)
  BY <1>1, <1>2, NextBlock DEF Executes, Sends, Takes, Storing
<1>4. /\ rpc[p] \in {"data", "ptr", "status"} /\ chg[p].append /\ ~chg[p].switchfork /\ cur[p] = scusp
      /\ BlockOf(cur[p]) = b /\ HeightOf(cur[p]) = nexth - 1
  <2>1. /\ rpc[p] \in {"data", "ptr", "status"} /\ chg[p].append /\ ~chg[p].switchfork /\ cur[p] = scusp
        /\ BlockOf(scusp) = b
    BY <1>1, <1>2, <1>3 DEF Stores, Storing
  <2> QED BY <1>3, <2>1 DEF HeightOf
<1>5. blockptr' = blockptr /\ blockdata' = blockdata
  <2>1. CASE PutBlockData(p)
    BY <1>3, <1>4, <2>1 DEF PutBlockData
  <2>2. CASE PutBlockPtr(p)
    <3>1. blockptr' = [blockptr EXCEPT ![nexth - 1] = b] /\ blockdata' = blockdata
      BY <1>4, <2>2 DEF PutBlockPtr
    <3>2. blockptr \in [Heights -> Block \union {NoBlock}]
      BY DEF TypeInv, TypeOK
    <3> QED BY <1>3, <3>1, <3>2
  <2>3. CASE PutStatus(p)
    BY <2>3 DEF PutStatus
  <2>4. CASE RewritePtr(p) \/ EndRewrite(p)
    BY <1>4, <2>4 DEF RewritePtr, EndRewrite
  <2> QED BY <2>1, <2>2, <2>3, <2>4
<1>6. StoredHead' = T /\ StoresChain(T) /\ StoresChain(StoredHead)'
  BY <1>5 DEF RebuildStores, StoredHead, TopHeight, StoresChain, Points
<1>7. status' \in {HeightOf(sroot), Kept(Height[T])} \/ StatusPending'
  <2>1. CASE PutStatus(p)
    BY <2>1 DEF PutStatus
  <2>2. CASE ~PutStatus(p)
    <3>1. status' = status
      BY <1>4, <2>2 DEF PutBlockData, PutBlockPtr, RewritePtr, EndRewrite
    <3>2. ASSUME StatusPending PROVE StatusPending'
      <4>1. PICK q \in Proc : rpc[q] \in {"data", "ptr", "status"} /\ chg[q].roll
        BY <3>2 DEF StatusPending
      <4>2. q = p
        BY <1>2, <4>1, OnlyBoot DEF HeadInv, Calling
      <4>3. rpc'[p] \in {"ptr", "status"}
        BY <1>4, <2>2, <4>1, <4>2, StoreMoves DEF AfterData, AfterPtr
      <4>4. chg'[p] = chg[p]
        BY <4>3, StoreMoves
      <4> QED BY <4>1, <4>2, <4>3, <4>4 DEF StatusPending
    <3> QED BY <3>1, <3>2 DEF RebuildStores
  <2> QED BY <2>1, <2>2
<1>8. RebuildStores'
  BY <1>1, <1>6, <1>7 DEF RebuildStores
<1>9. rpc'[p] \in {"ptr", "status", "recv"} /\ (rpc'[p] # "recv" => cur'[p] = cur[p] /\ chg'[p] = chg[p])
  BY <1>4, StoreMoves DEF AfterData, AfterPtr, AfterStatus
<1>10. Stores(Boot, b)'
  BY <1>1, <1>2, <1>3, <1>4, <1>9 DEF Stores
<1>11. ~err[Boot] /\ epc[Boot] = "idle"
  BY <1>3 DEF RebuildCall, Stores
<1>12. RebuildCall'
  BY <1>1, <1>2, <1>3, <1>5, <1>9, <1>10, <1>11, CallIs
<1> QED BY <1>5, <1>8, <1>12

(* A call that returns has brought the head up to where the rebuild is,      *)
LEMMA RebuildReturn ==
  ASSUME TypeInv, ShapeInv, HeadInv, RebuildStores, RebuildCall, mode = "rebuild",
         NEW p \in Proc, Return(p)
  PROVE  mode' = "rebuild" /\ RebuildCall'
<1>1. /\ UNCHANGED <<heap, scusp, nexth>>
      /\ rpc[p] = "recv" /\ chan[p] = <<>> /\ todo[p] = <<>> /\ Calling(p) /\ rpc'[p] = "idle"
      /\ epc' = epc /\ epc[p] = "idle"
  BY DEF Return, Finished, HeadInv, NoneBroken, engineVars, execVars, Calling, TypeInv, TypeOK
<1>2. p = Boot
  BY <1>1, OnlyBoot DEF HeadInv
<1>3. mode' = "rebuild" /\ ~err'[Boot]
  BY <1>2 DEF Return, RebuildCall, TypeInv, TypeOK
<1>4. PICK b \in Anc[StoredHead] :
           nexth \in Nat \ {0, 1} /\ Height[b] = nexth - 1 /\ Stores(Boot, b)
  <2>1. PICK b \in Anc[StoredHead] :
           /\ nexth \in Nat \ {0, 1} /\ Height[b] = nexth - 1
           /\ Executes(Boot, b) \/ Sends(Boot, b) \/ Takes(Boot, b) \/ Stores(Boot, b)
    BY <1>1, <1>2, NextBlock
  <2>2. ~Executes(Boot, b) /\ ~Takes(Boot, b)
    <3>1. todo[Boot] = <<>> /\ rpc[Boot] = "recv" /\ <<b>> # <<>>
      BY <1>1, <1>2
    <3> QED BY <3>1 DEF Executes, Takes
  <2>3. ~Sends(Boot, b)
    <3>1. Len(chan[Boot]) = 0
      BY <1>1, <1>2
    <3> QED BY <3>1 DEF Sends
  <2> QED BY <2>1, <2>2, <2>3
<1>5. nexth' = HeightOf(scusp)' + 1
  <2>1. nexth = HeightOf(scusp) + 1
    BY <1>4 DEF Stores, HeightOf
  <2> QED BY <1>1, <2>1 DEF HeightOf, BlockOf
<1> QED BY <1>1, <1>2, <1>3, <1>5 DEF RebuildCall, Calling

(* and the next one takes the next block the store points to.                *)
LEMMA RebuildStart ==
  ASSUME TypeInv, ShapeInv, HeadInv, RebuildStores, RebuildCall, RebuildNext
  PROVE  RebuildCall'
<1> DEFINE b == blockptr[nexth]
<1>1. /\ mode = "rebuild" /\ rpc[Boot] = "idle" /\ Loadable(nexth) /\ nexth' = nexth + 1
      /\ UNCHANGED <<heap, scusp, blockptr, mode, epc, base, chan, err>>
      /\ Boot \in Proc /\ todo'[Boot] = <<b>> /\ rpc'[Boot] = "recv"
  BY DEF RebuildNext, Enter, engineVars, storeVars, Proc, TypeInv, TypeOK
<1>2. nexth = HeightOf(scusp) + 1 /\ ~err[Boot] /\ HeightOf(scusp) \in Nat
  <2>1. HeightOf(scusp) \in Nat
    BY TreeHeights DEF HeadInv, HeadInWindow
  <2> QED BY <1>1, <2>1 DEF RebuildCall, Calling
<1>3. chan[Boot] = <<>> /\ epc[Boot] = "idle"
  BY <1>1 DEF ShapeInv, NothingLeft, Calling
<1>4. nexth <= Height[StoredHead]
  <2>1. StoredHead \in Block /\ StoresChain(StoredHead) /\ nexth \in Heights \ {0} /\ b # NoBlock
    BY <1>1, <1>2, BlockAssumption DEF RebuildStores, Loadable, TypeInv, TypeOK
  <2>2. ~(nexth > Height[StoredHead]) /\ nexth \in Nat /\ Height[StoredHead] \in Nat
    BY <2>1, HeightType DEF StoresChain
  <2> QED BY <2>2
<1>5. /\ nexth' \in Nat \ {0, 1} /\ nexth' - 1 = nexth /\ nexth \in Heights
      /\ HeightOf(scusp)' = HeightOf(scusp) /\ nexth' = HeightOf(scusp) + 2
  BY <1>1, <1>2 DEF Loadable, HeightOf, BlockOf
<1>6. ASSUME NEW c, c = b PROVE Executes(Boot, c)'
  BY <1>1, <1>3, <1>6 DEF Executes
<1>7. \E c : c = b
  OBVIOUS
<1> QED BY <1>1, <1>2, <1>3, <1>4, <1>5, <1>6, <1>7, CallIs

(* When it ends, the head is the one the store had.                          *)
LEMMA RebuildEnd ==
  ASSUME TypeInv, ShapeInv, HeadInv, RebuildStores, RebuildCall, RebuildDone
  PROVE  RunStores' /\ StoredHead = BlockOf(scusp)
<1> DEFINE T == StoredHead
           H == HeightOf(scusp)
<1>1. /\ UNCHANGED <<heap, scusp, sroot, blockdata, blockptr, status, rpc, chg, walk>>
      /\ mode = "rebuild" /\ rpc[Boot] = "idle" /\ ~Loadable(nexth)
  BY DEF RebuildDone, engineVars, storeVars, rollVars
<1>2. nexth = H + 1 /\ H \in Nat
  <2>1. H \in Nat
    BY TreeHeights DEF HeadInv, HeadInWindow
  <2> QED BY <1>1, <2>1 DEF RebuildCall, Calling
<1>3. T \in Block /\ StoresChain(T) /\ BlockOf(scusp) \in Anc[T] /\ Height[T] \in Nat
  BY <1>1, HeightType DEF RebuildStores
<1>4. H <= Height[T]
  BY <1>3, AncFacts DEF HeightOf
<1>5. ~(H < Height[T])
  <2> SUFFICES ASSUME H < Height[T] PROVE FALSE
    OBVIOUS
  <2>1. H + 1 <= Height[T] /\ H + 1 \in Nat /\ H + 1 # 0
    BY <1>2, <1>3
  <2>2. H + 1 \in Heights \ {0}
    BY <1>3, <2>1, AncAt
  <2>3. Points(H + 1, T)
    BY <1>3, <2>1, <2>2 DEF StoresChain
  <2> QED BY <1>1, <1>2, <2>2, <2>3 DEF Points, Loadable
<1>6. BlockOf(scusp) = T
  <2>1. H = Height[T]
    BY <1>2, <1>3, <1>4, <1>5
  <2> QED BY <1>3, <2>1, AncFacts DEF HeightOf
<1>7. HeightOf(scusp) = Height[T]
  BY <1>6 DEF HeightOf
<1>8. \A q \in Proc : ~Storing(q)
  BY <1>1, OnlyBoot DEF HeadInv, Calling, Storing
<1>9. status = HeightOf(sroot) /\ HeightOf(sroot) = Kept(H)
  BY <1>1, <1>7, <1>8, NonePending DEF RebuildStores
<1>10. \A h \in Heights \ {0} : /\ h > H => blockptr[h] = NoBlock
                                /\ h <= H => Points(h, BlockOf(scusp))
  BY <1>3, <1>6, <1>7 DEF StoresChain
<1>11. /\ HeightOf(sroot)' = HeightOf(sroot) /\ HeightOf(scusp)' = H /\ BlockOf(scusp)' = BlockOf(scusp)
       /\ \A h, b : Points(h, b)' <=> Points(h, b)
  BY <1>1 DEF HeightOf, BlockOf, Points
<1> QED BY <1>1, <1>6, <1>9, <1>10, <1>11 DEF RunStores

-----------------------------------------------------------------------------
(* The start of the node.                                                    *)

(* At rest the store holds the chain of the head, and its status leads to    *)
(* the block of the root.                                                    *)
LEMMA AtRest ==
  ASSUME TypeInv, ShapeInv, HeadInv, RunStores, mode = "run", \A q \in Proc : ~Storing(q)
  PROVE  /\ StoresChain(BlockOf(scusp)) /\ StoredHead = BlockOf(scusp) /\ BlockOf(scusp) \in Block
         /\ status = HeightOf(sroot) /\ status = Kept(HeightOf(scusp)) /\ status \in Nat
         /\ status = 0 => BlockOf(sroot) = Genesis
         /\ status # 0 => blockptr[status] = BlockOf(sroot) /\ Loadable(status)
         /\ BlockOf(sroot) \in Anc[BlockOf(scusp)]
<1>1. scusp \in Tree /\ scusp \in Chunk /\ sroot \in heap[scusp].path /\ BlockOf(scusp) \in Block
  BY TreeChunk DEF HeadInv, HeadInWindow, Tree
<1>2. /\ HeightOf(sroot) = Kept(HeightOf(scusp)) /\ status = HeightOf(sroot)
      /\ \A h \in Heights \ {0} : /\ h > HeightOf(scusp) => blockptr[h] = NoBlock
                                  /\ h <= HeightOf(scusp) => Points(h, BlockOf(scusp))
  BY NonePending DEF RunStores
<1>3. StoresChain(BlockOf(scusp))
  BY <1>2 DEF StoresChain, HeightOf
<1>4. StoredHead = BlockOf(scusp)
  BY <1>1, <1>3, StoredHeadIs
<1>5. /\ BlockOf(sroot) \in Anc[BlockOf(scusp)] /\ BlockOf(sroot) \in Block
      /\ status \in Nat /\ status \in Heights /\ status <= HeightOf(scusp)
  BY <1>1, <1>2, PathAnc, TreeChunk, TreeHeights, HeightType DEF HeightOf
<1>6. status = 0 => BlockOf(sroot) = Genesis
  BY <1>2, <1>5, AncFacts DEF HeightOf
<1>7. ASSUME status # 0 PROVE blockptr[status] = BlockOf(sroot) /\ Loadable(status)
  <2>1. Points(status, BlockOf(scusp))
    BY <1>2, <1>5, <1>7
  <2>2. blockptr[status] \in Anc[BlockOf(scusp)] /\ Height[blockptr[status]] = Height[BlockOf(sroot)]
    BY <1>2, <2>1 DEF Points, HeightOf
  <2>3. Height[BlockOf(sroot)] <= Height[BlockOf(sroot)]
    BY <1>2, <1>5 DEF HeightOf
  <2>4. blockptr[status] = BlockOf(sroot)
    BY <1>1, <1>5, <2>2, <2>3, AncLinear
  <2> QED BY <1>5, <2>1, <2>4 DEF Points, Loadable
<1> QED BY <1>1, <1>2, <1>3, <1>4, <1>5, <1>6, <1>7

(* What a new tree of one chunk starts from.                                 *)
LEMMA FreshMemory ==
  ASSUME NEW b \in Block, b \notin Bad \ {Genesis}, b = Genesis \/ b \in blockdata',
         heap' = Base(b), sroot' = 1, disk' = Ledger(b), blockdata' \intersect Bad \subseteq {Genesis},
         \A q \in Proc : epc'[q] = "idle" /\ rpc'[q] = "idle" /\ cur'[q] = NoChunk /\ walk'[q] = NoChunk
                         /\ chan'[q] = <<>>
  PROVE  MemoryInv'
<1>1. /\ Chunk' = {1} /\ Tree' = {1} /\ BlockOf(1)' = b /\ heap'[1].mem = NoWrites
  BY DEF Base, Chunk, Tree, BlockOf
<1>2. MemoryFits'
  BY <1>1 DEF MemoryFits, Ledger, NoWrites, BlockOf
<1>3. PointersInTree'
  BY DEF PointersInTree, Storing
<1>4. GoodBlocks'
  BY <1>1 DEF GoodBlocks
<1>5. \A q \in Proc : InFlight(q)' = {}
  BY DEF InFlight
<1>6. FlightClosed' /\ BodiesStored'
  BY <1>1, <1>5 DEF FlightClosed, BodiesStored
<1>7. ChangeFits'
  BY DEF ChangeFits, Storing
<1> QED BY <1>2, <1>3, <1>4, <1>6, <1>7 DEF MemoryInv

LEMMA FreshStore ==
  ASSUME NEW b \in Block, heap' = Base(b), sroot' = 1, scusp' = 1, mode' = "rebuild",
         nexth' = Height[b] + 1,
         \A q \in Proc : epc'[q] = "idle" /\ rpc'[q] = "idle",
         ~err'[Boot], StoredHead' \in Block, StoresChain(StoredHead)', b \in Anc[StoredHead'],
         Height[b] = 0 \/ Height[b] = Kept(Height[StoredHead']), status' = Kept(Height[StoredHead'])
  PROVE  StoredInv'
<1>1. BlockOf(scusp)' = b /\ HeightOf(scusp)' = Height[b] /\ HeightOf(sroot)' = Height[b]
  BY DEF Base, BlockOf, HeightOf
<1>2. NoPanic' /\ RunStores'
  BY DEF NoPanic, RunStores
<1>3. Height[b] \in {Kept(Height[b]), Kept(Height[StoredHead'])}
  BY KeptType
<1>4. RebuildStores'
  BY <1>1, <1>3 DEF RebuildStores
<1>5. RebuildCall'
  BY <1>1, CallAssumption DEF RebuildCall, Calling, Proc
<1> QED BY <1>2, <1>4, <1>5 DEF StoredInv

LEMMA InvInit == Init => MemoryInv /\ StoredInv
<1> SUFFICES ASSUME Init PROVE MemoryInv /\ StoredInv
  OBVIOUS
<1>1. /\ heap = Base(Genesis) /\ sroot = 1 /\ scusp = 1 /\ mode = "rebuild" /\ nexth = 1 /\ status = 0
      /\ blockdata = {} /\ disk = [k \in Key |-> {}] /\ Genesis \in Block
      /\ \A q \in Proc : /\ epc[q] = "idle" /\ rpc[q] = "idle" /\ cur[q] = NoChunk /\ walk[q] = NoChunk
                         /\ chan[q] = <<>> /\ ~err[q]
  BY HeightType DEF Init, NoCalls, Each
<1>2. /\ Chunk = {1} /\ Tree = {1} /\ BlockOf(1) = Genesis /\ heap[1].mem = NoWrites
  BY <1>1 DEF Base, Chunk, Tree, BlockOf
<1>3. disk = Ledger(Genesis)
  BY <1>1, LedgerType
<1>4. \A q \in Proc : InFlight(q) = {} /\ ~Storing(q)
  BY <1>1 DEF InFlight, Storing
<1>5. MemoryInv
  <2>1. MemoryFits
    BY <1>1, <1>2, <1>3 DEF MemoryFits
  <2>2. PointersInTree /\ GoodBlocks /\ FlightClosed
    BY <1>1, <1>2, <1>4 DEF PointersInTree, GoodBlocks, FlightClosed, Storing
  <2>3. BodiesStored /\ ChangeFits
    BY <1>1, <1>2, <1>4 DEF BodiesStored, ChangeFits, Storing
  <2> QED BY <2>1, <2>2, <2>3 DEF MemoryInv
<1>6. StoresChain(Genesis)
  <2>1. \A h \in Heights : h \in Nat /\ blockptr[h] = NoBlock
    BY HeightType DEF Init
  <2>2. \A h \in Heights \ {0} : ~(h <= Height[Genesis])
    BY <2>1, BlockAssumption
  <2> QED BY <2>1, <2>2 DEF StoresChain
<1>7. StoredHead = Genesis
  BY <1>1, <1>6, TypeInit, StoredHeadIs
<1>8. /\ BlockOf(scusp) = Genesis /\ HeightOf(scusp) = 0 /\ HeightOf(sroot) = 0
      /\ Height[Genesis] = 0 /\ Kept(0) = 0 /\ Genesis \in Anc[Genesis] /\ Boot \in Proc
  BY <1>1, <1>2, BlockAssumption, AncAssumption, KeptType DEF HeightOf, BlockOf, Proc
<1>9. RunStores /\ RebuildStores /\ NoPanic
  BY <1>1, <1>6, <1>7, <1>8 DEF RunStores, RebuildStores, NoPanic
<1>10. RebuildCall
  BY <1>1, <1>8 DEF RebuildCall, Calling
<1> QED BY <1>5, <1>9, <1>10 DEF StoredInv

LEMMA MemoryStays ==
  ASSUME TypeInv, MemoryInv, UNCHANGED <<heap, sroot, disk, blockdata, execVars, rollVars, chan>>
  PROVE  MemoryInv'
<1>1. UNCHANGED <<heap, sroot, disk, blockdata, todo, epc, delta, chan, rpc, cur, walk, chg>>
  BY DEF execVars, rollVars
<1>2. MemoryFits' /\ GoodBlocks'
  BY <1>1, ExecFrame DEF MemoryInv, GoodBlocks
<1>3. \A q \in Proc : InFlight(q)' = InFlight(q)
  BY <1>1, FlightSame
<1>4. FlightClosed' /\ BodiesStored'
  BY <1>1, <1>3, FlightFrame DEF MemoryInv
<1>5. PointersInTree' /\ ChangeFits'
  BY <1>1, <1>3, PointersFrame DEF MemoryInv, ChangeFits, Storing
<1> QED BY <1>2, <1>4, <1>5 DEF MemoryInv

(* A restart between two calls starts from the block of the root or, wiped,  *)
(* from the genesis block: both are in the chain the store holds.            *)
LEMMA RestartAgain ==
  ASSUME TypeInv, ShapeInv, HeadInv, MemoryInv, StoredInv, KillAnywhere = FALSE,
         NEW wipe \in BOOLEAN, Restart(wipe)
  PROVE  /\ MemoryInv' /\ StoredInv'
         /\ mode = "run" /\ mode' = "rebuild" /\ StoredHead' = BlockOf(scusp)
<1>1. mode = "run" /\ \A q \in Proc : ~Calling(q)
  BY DEF Restart, StoredInv, NoPanic
<1>2. \A q \in Proc : ~Storing(q)
  BY <1>1 DEF Calling, Storing
<1>3. /\ StoresChain(BlockOf(scusp)) /\ StoredHead = BlockOf(scusp) /\ BlockOf(scusp) \in Block
      /\ status = HeightOf(sroot) /\ status = Kept(HeightOf(scusp)) /\ status \in Nat
      /\ status = 0 => BlockOf(sroot) = Genesis
      /\ status # 0 => blockptr[status] = BlockOf(sroot) /\ Loadable(status)
      /\ BlockOf(sroot) \in Anc[BlockOf(scusp)]
  BY <1>1, <1>2, AtRest DEF StoredInv
<1> DEFINE b == IF wipe THEN Genesis ELSE BlockOf(sroot)
<1>4. /\ heap' = Base(b) /\ sroot' = 1 /\ scusp' = 1 /\ mode' = "rebuild" /\ nexth' = Height[b] + 1
      /\ disk' = IF wipe THEN [k \in Key |-> {}] ELSE disk
      /\ UNCHANGED <<blockdata, blockptr, status>>
  BY <1>3, BlockAssumption DEF Restart, Create, storeVars
<1>5. \A q \in Proc : /\ epc'[q] = "idle" /\ rpc'[q] = "idle" /\ cur'[q] = NoChunk /\ walk'[q] = NoChunk
                      /\ chan'[q] = <<>> /\ ~err'[q]
  BY DEF Restart, CallsLost, Each
<1>6. b \in Block /\ b \notin Bad \ {Genesis}
  <2>1. sroot \in Chunk
    BY DEF TypeInv, TypeOK
  <2> QED BY <2>1, HeightType, TreeChunk DEF MemoryInv, GoodBlocks
<1>7. b = Genesis \/ b \in blockdata
  BY <1>3 DEF Loadable
<1>8. disk' = Ledger(b)
  BY <1>4, <1>6, LedgerType DEF MemoryInv, MemoryFits
<1>9. MemoryInv'
  BY <1>4, <1>5, <1>6, <1>7, <1>8, FreshMemory DEF MemoryInv, GoodBlocks
<1>10. StoredHead' = BlockOf(scusp) /\ StoresChain(StoredHead)'
  <2>1. StoredHead' = StoredHead
    BY <1>4 DEF StoredHead, TopHeight
  <2>2. \A h, c : Points(h, c)' <=> Points(h, c)
    BY <1>4 DEF Points
  <2>3. StoresChain(StoredHead)
    BY <1>3
  <2> QED BY <1>3, <1>4, <2>1, <2>2, <2>3 DEF StoresChain
<1>11. b \in Anc[BlockOf(scusp)]
  <2>1. Genesis \in Anc[BlockOf(scusp)]
    <3>1. PICK a \in Anc[BlockOf(scusp)] : Height[a] = 0
      BY <1>3, HeightType, AncAt
    <3> QED BY <1>3, <3>1, AncFacts
  <2> QED BY <1>3, <2>1
<1>12. Height[b] = 0 \/ Height[b] = Kept(Height[BlockOf(scusp)])
  BY <1>3, BlockAssumption DEF HeightOf
<1>13. status' = Kept(Height[BlockOf(scusp)]) /\ ~err'[Boot]
  BY <1>3, <1>4, <1>5 DEF HeightOf, Proc
<1>14. StoredInv'
  BY <1>3, <1>4, <1>5, <1>6, <1>10, <1>11, <1>12, <1>13, FreshStore
<1> QED BY <1>1, <1>4, <1>9, <1>10, <1>14

-----------------------------------------------------------------------------
(* The theorems.                                                             *)

KeptInv == MemoryInv /\ StoredInv
SerialInv == TypeInv /\ ShapeInv /\ HeadInv /\ StoreInv /\ KeptInv

LEMMA StoredQuiet ==
  ASSUME TypeInv, StoredInv, mode' = mode,
         UNCHANGED <<sroot, scusp, blockdata, blockptr, status, walk, chg>>,
         \A n \in Chunk : heap'[n] = heap[n],
         \A q \in Proc : rpc'[q] = rpc[q] \/ (~Storing(q) /\ ~Storing(q)'),
         mode = "rebuild" => RebuildCall'
  PROVE  StoredInv'
<1>1. RunStores' /\ RebuildStores'
  BY StoreQuiet DEF StoredInv
<1>2. NoPanic' /\ RebuildCall'
  BY DEF StoredInv, NoPanic, RebuildCall
<1> QED BY <1>1, <1>2 DEF StoredInv

LEMMA KeptNext ==
  ASSUME OneCaller, KillAnywhere = FALSE, SerialInv, [Next]_vars
  PROVE  KeptInv'
<1>0. TypeInv /\ ShapeInv /\ HeadInv /\ StoreInv /\ MemoryInv /\ StoredInv /\ RunStores /\ RebuildStores
      /\ RebuildCall /\ (mode = "run" \/ mode = "rebuild")
  BY DEF SerialInv, KeptInv, StoredInv, NoPanic, TypeInv, TypeOK
<1>1. ASSUME NEW p \in Proc, Call(p) PROVE KeptInv'
  <2>1. /\ rpc[p] = "idle" /\ mode = "run" /\ mode' = mode
        /\ UNCHANGED <<heap, sroot, scusp, blockdata, blockptr, status, walk, chg>>
    BY <1>1 DEF Call, Enter, engineVars, storeVars, nodeVars
  <2>2. \A q \in Proc : rpc'[q] = rpc[q] \/ (~Storing(q) /\ ~Storing(q)')
    BY <1>0, <1>1, <2>1 DEF Call, Enter, Storing, TypeInv, TypeOK
  <2>3. MemoryInv'
    BY <1>0, <1>1, <2>1, MemoryEnter DEF Call
  <2> QED BY <1>0, <2>1, <2>2, <2>3, StoredQuiet DEF KeptInv
<1>2. ASSUME NEW p \in Proc, ExecStep(p) PROVE KeptInv'
  <2>1. MemoryInv'
    BY <1>0, <1>2, MemoryExec, MemoryPush DEF ExecStep
  <2>2. UNCHANGED <<sroot, scusp, blockdata, blockptr, status, walk, chg, rpc, mode>>
    BY <1>2 DEF ExecStep, Locate, CheckRepeat, Execute, Push, engineVars, storeVars, nodeVars, rollVars
  <2>3. \A n \in Chunk : heap'[n] = heap[n]
    BY <1>0, <1>2, PushHeap DEF ExecStep, Locate, CheckRepeat, Execute, engineVars
  <2>4. mode = "rebuild" => RebuildCall'
    BY <1>0, <1>2, RebuildExec
  <2> QED BY <1>0, <2>1, <2>2, <2>3, <2>4, StoredQuiet DEF KeptInv
<1>3. ASSUME NEW p \in Proc, Recv(p) PROVE KeptInv'
  <2>1. MemoryInv'
    BY <1>0, <1>3, MemoryRecv
  <2>2. UNCHANGED <<heap, sroot, scusp, blockdata, blockptr, status, walk, chg, mode>>
    BY <1>3 DEF Recv, engineVars, storeVars, nodeVars
  <2>3. \A q \in Proc : rpc'[q] = rpc[q] \/ (~Storing(q) /\ ~Storing(q)')
    BY <1>0, <1>3, RecvFlight DEF Storing
  <2>4. mode = "rebuild" => RebuildCall'
    BY <1>0, <1>3, RebuildRecv
  <2> QED BY <1>0, <2>1, <2>2, <2>3, <2>4, StoredQuiet DEF KeptInv
<1>4. ASSUME NEW p \in Proc, Uncle(p) \/ NewHead(p) \/ NewHeadAndRoot(p) PROVE KeptInv'
  <2>1. MemoryInv'
    BY <1>0, <1>4, MemoryRoll
  <2>2. mode' = mode
    BY <1>4, <1>0, RollTree
  <2>3. CASE mode = "run"
    <3>1. RunStores'
      BY <1>0, <1>4, <2>3, RunRoll
    <3> QED BY <2>1, <2>2, <2>3, <3>1 DEF KeptInv, StoredInv, NoPanic, RebuildStores, RebuildCall
  <2>4. CASE mode = "rebuild"
    <3>1. RebuildStores' /\ RebuildCall'
      BY <1>0, <1>4, <2>4, RebuildRoll
    <3> QED BY <2>1, <2>2, <2>4, <3>1 DEF KeptInv, StoredInv, NoPanic, RunStores
  <2> QED BY <1>0, <2>3, <2>4
<1>5. ASSUME NEW p \in Proc,
             PutBlockData(p) \/ PutBlockPtr(p) \/ PutStatus(p) \/ RewritePtr(p) \/ EndRewrite(p)
      PROVE  KeptInv'
  <2>1. MemoryInv'
    BY <1>0, <1>5, MemoryStore
  <2>2. mode' = mode
    BY <1>0, <1>5, StoreMoves DEF nodeVars
  <2>3. CASE mode = "run"
    <3>1. RunStores'
      BY <1>0, <1>5, <2>3, RunStore
    <3> QED BY <2>1, <2>2, <2>3, <3>1 DEF KeptInv, StoredInv, NoPanic, RebuildStores, RebuildCall
  <2>4. CASE mode = "rebuild"
    <3>1. RebuildStores' /\ RebuildCall'
      BY <1>0, <1>5, <2>4, RebuildStore
    <3> QED BY <2>1, <2>2, <2>4, <3>1 DEF KeptInv, StoredInv, NoPanic, RunStores
  <2> QED BY <1>0, <2>3, <2>4
<1>6. ASSUME NEW p \in Proc, Return(p) PROVE KeptInv'
  <2>1. MemoryInv'
    BY <1>0, <1>6, MemoryReturn
  <2>2. UNCHANGED <<heap, sroot, scusp, blockdata, blockptr, status, walk, chg>>
    BY <1>6 DEF Return, engineVars, storeVars
  <2>3. \A q \in Proc : rpc'[q] = rpc[q] \/ (~Storing(q) /\ ~Storing(q)')
    BY <1>0, <1>6 DEF Return, Finished, Storing, TypeInv, TypeOK
  <2>4. mode' = mode /\ (mode = "rebuild" => RebuildCall')
    <3>1. CASE mode = "run"
      <4>1. rpc[p] # "idle" /\ rpc[Boot] = "idle"
        BY <1>0, <1>6, <3>1 DEF Return, Finished, HeadInv, OneCall, Calling
      <4> QED BY <1>6, <3>1, <4>1 DEF Return
    <3>2. CASE mode = "rebuild"
      BY <1>0, <1>6, <3>2, RebuildReturn
    <3> QED BY <1>0, <3>1, <3>2
  <2> QED BY <1>0, <2>1, <2>2, <2>3, <2>4, StoredQuiet DEF KeptInv
<1>7. CASE RebuildNext
  <2>1. /\ rpc[Boot] = "idle" /\ mode' = mode /\ Boot \in Proc
        /\ UNCHANGED <<heap, sroot, scusp, blockdata, blockptr, status, walk, chg>>
    BY <1>7 DEF RebuildNext, Enter, engineVars, storeVars, Proc
  <2>2. \A q \in Proc : rpc'[q] = rpc[q] \/ (~Storing(q) /\ ~Storing(q)')
    BY <1>0, <1>7, <2>1 DEF RebuildNext, Enter, Storing, TypeInv, TypeOK
  <2>3. MemoryInv'
    BY <1>0, <1>7, <2>1, MemoryEnter DEF RebuildNext
  <2>4. RebuildCall'
    BY <1>0, <1>7, RebuildStart
  <2> QED BY <1>0, <2>1, <2>2, <2>3, <2>4, StoredQuiet DEF KeptInv
<1>8. CASE RebuildDone
  <2>1. MemoryInv'
    BY <1>0, <1>8, MemoryStays DEF RebuildDone, engineVars, storeVars
  <2>2. RunStores' /\ mode' = "run"
    BY <1>0, <1>8, RebuildEnd DEF RebuildDone
  <2> QED BY <2>1, <2>2 DEF KeptInv, StoredInv, NoPanic, RebuildStores, RebuildCall
<1>9. ASSUME NEW wipe \in BOOLEAN, Restart(wipe) PROVE KeptInv'
  BY <1>0, <1>9, RestartAgain DEF KeptInv
<1>10. CASE UNCHANGED vars
  <2>1. UNCHANGED <<heap, sroot, scusp, disk, blockdata, blockptr, status, mode, nexth, todo, epc, base, delta,
                    chan, rpc, cur, walk, chg, err>>
    BY <1>10 DEF vars, engineVars, storeVars, nodeVars, execVars, rollVars
  <2>2. MemoryInv'
    BY <1>0, <2>1, MemoryStays DEF execVars, rollVars
  <2>3. RebuildCall'
    BY <1>0, <2>1 DEF RebuildCall, Calling, Executes, Sends, Takes, Stores, HeightOf, BlockOf, StoredHead, TopHeight
  <2> QED BY <1>0, <2>1, <2>2, <2>3, StoredQuiet DEF KeptInv
<1>11. \A p \in Proc : ~HeadGone(p) /\ ~RollError(p)
  BY <1>0, NoRollError
<1> QED BY <1>1, <1>2, <1>3, <1>4, <1>5, <1>6, <1>7, <1>8, <1>9, <1>10, <1>11 DEF Next, RollStep

LEMMA SerialAlways == ASSUME OneCaller, KillAnywhere = FALSE PROVE Spec => []SerialInv
<1>1. Init => SerialInv
  <2> SUFFICES ASSUME Init PROVE SerialInv
    OBVIOUS
  <2>1. StoreInv
    BY DEF Init, NoCalls, Each, StoreInv, OneStores, StoresItsOwnHead, Storing
  <2> QED BY <2>1, TypeInit, ShapeInit, HeadInit, InvInit DEF SerialInv, KeptInv
<1>2. SerialInv /\ [Next]_vars => SerialInv'
  <2> SUFFICES ASSUME SerialInv, [Next]_vars PROVE SerialInv'
    OBVIOUS
  <2>1. TypeInv' /\ ShapeInv' /\ HeadInv'
    BY TypeNext, ShapeNext, HeadNext DEF SerialInv
  <2>2. StoreInv'
    BY StoreInvNext DEF SerialInv, TypeInv
  <2>3. KeptInv'
    BY KeptNext
  <2> QED BY <2>1, <2>2, <2>3 DEF SerialInv
<1> QED BY <1>1, <1>2, PTL DEF Spec

(* With one call at a time and no kill in its middle, every block of the     *)
(* tree reads the ledger of its own chain, whatever was rolled, flushed,     *)
(* dropped or restarted before.                                              *)
THEOREM OneCallTreeViews == ASSUME OneCaller, KillAnywhere = FALSE PROVE Spec => []TreeViews
<1>1. SerialInv => TreeViews
  BY ViewIs DEF SerialInv, KeptInv, MemoryInv, TreeViews
<1> QED BY <1>1, SerialAlways, PTL

(* Likewise, between two insertions the store holds what a restart needs to  *)
(* find this head again.                                                     *)
THEOREM OneCallStoreRebuilds == ASSUME OneCaller, KillAnywhere = FALSE PROVE Spec => []StoreRebuildsHead
<1>1. SerialInv => StoreRebuildsHead
  <2> SUFFICES ASSUME SerialInv, mode = "run", ~Locked
               PROVE  /\ status = HeightOf(sroot)
                      /\ \A h \in Heights \ {0} :
                           /\ h > HeightOf(scusp) => blockptr[h] = NoBlock
                           /\ h <= HeightOf(scusp) => blockptr[h] \in Anc[BlockOf(scusp)] \intersect blockdata
    BY DEF StoreRebuildsHead
  <2>1. ~StatusPending /\ \A h : ~PointerPending(h)
    BY NonePending DEF Locked
  <2> QED BY <2>1 DEF SerialInv, KeptInv, StoredInv, RunStores, Points
<1> QED BY <1>1, SerialAlways, PTL

(* Likewise, no unwrap of the head fails and no rebuild meets a block it      *)
(* cannot load, execute or roll.                                             *)
THEOREM OneCallNoPanic == ASSUME OneCaller, KillAnywhere = FALSE PROVE Spec => []NoPanic
<1>1. SerialInv => NoPanic
  BY DEF SerialInv, KeptInv, StoredInv
<1> QED BY <1>1, SerialAlways, PTL

(* The head of a running node, and the one a starting node is on its way to. *)
HeadReads == HeadLedger = Ledger(HeadBlock) /\ HeadBlock \in Block

Extends(a, b) == Height[b] = Height[a] + 1 /\ Promise!Final(a) \subseteq Anc[b]

LEMMA HeadStep ==
  ASSUME OneCaller, KillAnywhere = FALSE, SerialInv, SerialInv', [Next]_vars
  PROVE  HeadBlock' = HeadBlock \/ Extends(HeadBlock, HeadBlock')
<1>1. /\ TypeInv /\ ShapeInv /\ HeadInv /\ StoreInv /\ MemoryInv /\ StoredInv /\ RunStores /\ RebuildStores
      /\ RebuildCall /\ (mode = "run" \/ mode = "rebuild") /\ (mode' = "run" \/ mode' = "rebuild")
      /\ TypeInv'
  BY DEF SerialInv, KeptInv, StoredInv, NoPanic, TypeInv, TypeOK
<1>2. ASSUME NEW p \in Proc, NewHead(p) \/ NewHeadAndRoot(p), mode = "run"
      PROVE  Extends(HeadBlock, HeadBlock')
  <2>1. /\ cur[p] \in Tree /\ scusp \in Tree /\ HeightOf(cur[p]) = HeightOf(scusp) + 1
        /\ BlockOf(scusp)' = BlockOf(cur[p]) /\ HeightOf(scusp) \in Nat /\ HeightOf(sroot) \in Nat
    BY <1>1, <1>2, RollHeights
  <2>2. mode' = "run"
    BY <1>1, <1>2, RollTree
  <2>3. HeadBlock = BlockOf(scusp) /\ HeadBlock' = BlockOf(cur[p])
    BY <1>2, <2>1, <2>2 DEF HeadBlock
  <2>4. ASSUME NEW a \in Promise!Final(BlockOf(scusp)) PROVE a \in Anc[BlockOf(cur[p])]
    <3>1. a \in Anc[BlockOf(scusp)] /\ Height[a] + UnstableBlock <= HeightOf(scusp)
      BY <2>4 DEF Promise!Final, HeightOf
    <3>2. HeightOf(scusp) <= HeightOf(sroot) + UnstableBlock /\ UnstableBlock \in Nat
      BY <1>1, CallAssumption DEF HeadInv, HeadInWindow
    <3>3. Height[a] \in Nat
      BY <1>1, <2>1, <3>1, TreeChunk, AncFacts
    <3>4. Height[a] <= HeightOf(sroot)
      BY <2>1, <3>1, <3>2, <3>3
    <3> QED BY <1>1, <2>1, <3>1, <3>4, SharedBelow
  <2> QED BY <2>1, <2>3, <2>4 DEF Extends, HeightOf
<1>3. ASSUME mode = "rebuild", mode' = "rebuild", UNCHANGED blockptr PROVE HeadBlock' = HeadBlock
  BY <1>3 DEF HeadBlock, StoredHead, TopHeight
<1>4. ASSUME mode' = mode, UNCHANGED <<scusp, blockptr>>, \A n \in Chunk : heap'[n] = heap[n]
      PROVE  HeadBlock' = HeadBlock
  <2>1. scusp \in Chunk
    BY <1>1 DEF TypeInv, TypeOK
  <2> QED BY <1>1, <1>3, <1>4, <2>1 DEF HeadBlock, BlockOf
<1>5. ASSUME NEW p \in Proc, Call(p) PROVE HeadBlock' = HeadBlock
  BY <1>4, <1>5 DEF Call, Enter, engineVars, storeVars, nodeVars
<1>6. ASSUME NEW p \in Proc, ExecStep(p) PROVE HeadBlock' = HeadBlock
  <2>1. UNCHANGED <<scusp, blockptr, mode>>
    BY <1>6 DEF ExecStep, Locate, CheckRepeat, Execute, Push, engineVars, storeVars, nodeVars
  <2>2. \A n \in Chunk : heap'[n] = heap[n]
    BY <1>1, <1>6, PushHeap DEF ExecStep, Locate, CheckRepeat, Execute, engineVars
  <2> QED BY <1>4, <2>1, <2>2
<1>7. ASSUME NEW p \in Proc, Recv(p) \/ Uncle(p) PROVE HeadBlock' = HeadBlock
  BY <1>4, <1>7 DEF Recv, Uncle, StartStore, engineVars, storeVars, nodeVars
<1>8. ASSUME NEW p \in Proc, NewHead(p) \/ NewHeadAndRoot(p)
      PROVE  HeadBlock' = HeadBlock \/ Extends(HeadBlock, HeadBlock')
  <2>1. mode' = mode /\ UNCHANGED blockptr
    BY <1>1, <1>8, RollTree DEF storeVars
  <2> QED BY <1>1, <1>2, <1>3, <1>8, <2>1
<1>9. ASSUME NEW p \in Proc,
             PutBlockData(p) \/ PutBlockPtr(p) \/ PutStatus(p) \/ RewritePtr(p) \/ EndRewrite(p)
      PROVE  HeadBlock' = HeadBlock
  <2>1. mode' = mode /\ UNCHANGED <<heap, scusp>>
    BY <1>1, <1>9, StoreMoves DEF engineVars, nodeVars
  <2>2. CASE mode = "run"
    BY <2>1, <2>2 DEF HeadBlock, BlockOf
  <2>3. CASE mode = "rebuild"
    BY <1>1, <1>3, <1>9, <2>1, <2>3, RebuildStore
  <2> QED BY <1>1, <2>2, <2>3
<1>10. ASSUME NEW p \in Proc, Return(p) PROVE HeadBlock' = HeadBlock
  <2>1. mode' = mode
    BY <1>1, <1>10 DEF Return
  <2> QED BY <1>4, <1>10, <2>1 DEF Return, engineVars, storeVars
<1>11. CASE RebuildNext
  BY <1>4, <1>11 DEF RebuildNext, Enter, engineVars, storeVars
<1>12. CASE RebuildDone
  <2>1. StoredHead = BlockOf(scusp) /\ mode = "rebuild" /\ mode' = "run" /\ UNCHANGED <<heap, scusp>>
    BY <1>1, <1>12, RebuildEnd DEF RebuildDone, engineVars
  <2> QED BY <2>1 DEF HeadBlock, BlockOf
<1>13. ASSUME NEW wipe \in BOOLEAN, Restart(wipe) PROVE HeadBlock' = HeadBlock
  <2>1. mode = "run" /\ mode' = "rebuild" /\ StoredHead' = BlockOf(scusp)
    BY <1>1, <1>13, RestartAgain
  <2> QED BY <2>1 DEF HeadBlock
<1>14. CASE UNCHANGED vars
  BY <1>4, <1>14 DEF vars, engineVars, storeVars, nodeVars
<1>15. \A p \in Proc : ~HeadGone(p) /\ ~RollError(p)
  BY <1>1, NoRollError
<1> QED BY <1>5, <1>6, <1>7, <1>8, <1>9, <1>10, <1>11, <1>12, <1>13, <1>14, <1>15 DEF Next, RollStep

LEMMA HeadReadsItself ==
  ASSUME SerialInv
  PROVE  HeadReads
<1>1. /\ TypeInv /\ ShapeInv /\ HeadInv /\ MemoryInv /\ RebuildStores /\ (mode = "run" \/ mode = "rebuild")
  BY DEF SerialInv, KeptInv, StoredInv, NoPanic, TypeInv, TypeOK
<1>2. CASE mode = "run"
  <2>1. scusp \in Tree /\ BlockOf(scusp) \in Block
    BY <1>1, TreeChunk DEF HeadInv, HeadInWindow
  <2> QED BY <1>1, <1>2, <2>1, ViewIs DEF HeadReads, HeadLedger, HeadBlock, MemoryInv
<1>3. CASE mode = "rebuild"
  BY <1>1, <1>3 DEF HeadReads, HeadLedger, HeadBlock, RebuildStores
<1> QED BY <1>1, <1>2, <1>3

(* Likewise, the engine is a ForkChoice: through every fork, roll and        *)
(* restart its head climbs one block at a time, never gives up a block more  *)
(* than UnstableBlock below, and its state is the ledger of its head.        *)
THEOREM OneCallImplements == ASSUME OneCaller, KillAnywhere = FALSE PROVE Spec => ImplementsForkChoice
<1>1. Init => Promise!Init
  <2> SUFFICES ASSUME Init PROVE HeadBlock = Genesis /\ HeadLedger = Ledger(Genesis)
    BY DEF Promise!Init, Promise!LedgerOf, Ledger
  <2>1. mode = "rebuild" /\ StoredHead = Genesis
    <3>1. \A h \in Heights : blockptr[h] = NoBlock /\ h \in Nat
      BY HeightType DEF Init
    <3>2. StoresChain(Genesis)
      <4>1. \A h \in Heights \ {0} : ~(h <= Height[Genesis])
        BY <3>1, BlockAssumption
      <4> QED BY <3>1, <4>1 DEF StoresChain
    <3> QED BY <3>2, HeightType, TypeInit, StoredHeadIs DEF Init
  <2> QED BY <2>1 DEF HeadBlock, HeadLedger
<1>2. ASSUME SerialInv, SerialInv', HeadReads, HeadReads', [Next]_vars
      PROVE  [Promise!Next]_<<HeadBlock, HeadLedger>>
  <2>1. CASE HeadBlock' = HeadBlock
    BY <1>2, <2>1 DEF HeadReads, Ledger
  <2>2. CASE Extends(HeadBlock, HeadBlock')
    <3>1. HeadLedger' = Promise!LedgerOf(HeadBlock')
      BY <1>2 DEF HeadReads, Ledger, Promise!LedgerOf
    <3>2. Promise!Advance(HeadBlock')
      BY <2>2, <3>1 DEF Promise!Advance, Extends
    <3> QED BY <1>2, <3>2 DEF HeadReads, Promise!Next
  <2> QED BY <1>2, <2>1, <2>2, HeadStep
<1>3. SerialInv => HeadReads
  BY HeadReadsItself
<1> QED BY <1>1, <1>2, <1>3, SerialAlways, PTL DEF Spec, ImplementsForkChoice, Promise!Spec
============================================================================
