---------------------------- MODULE SyncHandler ----------------------------
(***************************************************************************)
(* How a node keeps up with its peers: node/handler.  On connecting it     *)
(* asks a peer for its status; if the peer is higher it asks for the       *)
(* hashes of the last blocks below its own head, looks for the highest     *)
(* block both have, and asks for the peer's blocks from there, batch after *)
(* batch.  Blocks the peers announce come in beside that.                  *)
(*                                                                         *)
(* The node under study is one; its peers run the same code, of which they *)
(* use the answering half (send_status, send_hashs, send_blocks).  What a  *)
(* peer's chain does otherwise is up to the environment, until calm.  The  *)
(* engine is reduced to a tree, a head and the insertion of one block.     *)
(***************************************************************************)
EXTENDS Naturals, Sequences, FiniteSets, FiniteSetsExt

CONSTANTS
  Block, Genesis,
  Line,        \* the blocks from height 1 up to a block, which ends it
  Peer,
  Public,      \* the peers with a public address, where a sync goes on
  NoPeer,      \* who announces a block of the node's own miner
  Window,      \* unstable_block
  MaxHashes,   \* 80, the hashes a peer is ready to send
  MaxBlocks,   \* 10000, the blocks of one answer (or 20 MB of them)
  MaxNews,     \* bound: announced blocks waiting for the handler
  Heads,       \* bound: per peer, the heads its chain may have
  Announced,   \* bound: the blocks that peers announce
  Mined,       \* bound: the blocks the node's own miner finds
  Shaky        \* bound: the peers whose connections break and lose messages

HeightOf(b) == Len(Line[b])

ASSUME BlockAssumption ==
  /\ Genesis \in Block
  /\ Line \in [Block -> Seq(Block \ {Genesis})]
  /\ Line[Genesis] = <<>>
  /\ \A b \in Block \ {Genesis} : HeightOf(b) > 0 /\ Line[b][HeightOf(b)] = b
  /\ \A b \in Block : \A h \in 1..HeightOf(b) : Line[Line[b][h]] = SubSeq(Line[b], 1, h)
ASSUME PeerAssumption == Public \subseteq Peer /\ NoPeer \notin Peer
ASSUME BoundAssumption ==
  /\ Heads \in [Peer -> SUBSET Block]
  /\ Announced \subseteq Block /\ Mined \subseteq Block \ {Genesis}
  /\ Window \in Nat \ {0} /\ MaxHashes \in Nat /\ MaxNews \in Nat
  /\ MaxBlocks \in Nat \ {0}

VARIABLES
  tree,        \* the blocks the engine holds in memory, from the root up
  head,        \* the latest block
  knows,       \* MsgHandler.knows: the announced blocks that were looked at
  news,        \* the channel blktx: announced blocks with the peer they came from
  inserting,   \* blocks in the hands of a thread that inserts them
  holding,     \* the last sync began less than ten seconds ago
  linked,      \* the peers a connection stands to
  toPeer,      \* per peer, the messages on their way there
  toMe,        \* per peer, the messages on their way here
  batch,       \* per peer, the answer whose blocks insert_sync is inserting
  peerHead,    \* per peer, the latest block of its chain
  calm,        \* nothing disturbs the node from now on
  late         \* auxiliary: the last hold ran out while a sync was under way

engineVars == <<tree, head>>
handlerVars == <<knows, news, inserting>>
netVars == <<linked, toPeer, toMe>>
envVars == <<peerHead, calm>>
vars == <<engineVars, handlerVars, holding, netVars, batch, envVars, late>>

-----------------------------------------------------------------------------
(* The engine *)

Lower(a, b) == IF a < b THEN a ELSE b
Minus(a, b) == IF a < b THEN 0 ELSE a - b

At(b, h) == IF h = 0 THEN Genesis ELSE Line[b][h]

Prev(b) == At(b, HeightOf(b) - 1)

\* The root of the tree: what is Window below the head is final.
Root(b) == At(b, Minus(HeightOf(b), Window))

From(r, b) == r = Genesis \/ (HeightOf(b) >= HeightOf(r) /\ At(b, HeightOf(r)) = r)

\* exec_state takes a block whose parent is in the tree and that is not there yet.
Fits(b) == b \notin tree /\ b # Genesis /\ Prev(b) \in tree

NewHead(b) == IF HeightOf(b) > HeightOf(head) THEN b ELSE head

Insert(b) ==
  /\ head' = NewHead(b)
  /\ tree' = {t \in tree \union {b} : From(Root(head'), t)}

-----------------------------------------------------------------------------
(* Messages *)

ReqStatus == [ty |-> "reqStatus"]
ReqHashs(num, height) == [ty |-> "reqHashs", num |-> num, height |-> height]
\* Mistake: two blocks are asked for again, below zero at the first.
ReqBlocksAgain(start) == [ty |-> "reqBlocks", start |-> start - 2]

ReqBlocks(start) == [ty |-> "reqBlocks", start |-> start]

\* A message to a peer without a connection goes nowhere.
Posted(p, m) == IF p \in linked THEN [toPeer EXCEPT ![p] = Append(@, m)] ELSE toPeer

\* The message type at the head of a channel.
Next1(ch, ty) == ch # <<>> /\ Head(ch).ty = ty

NoBatch == [ty |-> "none"]

\* What is under way of a sync with p: requests for blocks, answers, an insertion.
Requests(p) == {<<p, "request", i>> : i \in {j \in DOMAIN toPeer[p] : toPeer[p][j].ty = "reqBlocks"}}
Answers(p) == {<<p, "answer", i>> : i \in {j \in DOMAIN toMe[p] : toMe[p][j].ty = "blocks"}}
Insertion(p) == IF batch[p] = NoBatch THEN {} ELSE {<<p, "insertion", 0>>}
Syncs == UNION {Requests(p) \union Answers(p) \union Insertion(p) : p \in Peer}

-----------------------------------------------------------------------------
Init ==
  /\ tree = {Genesis} /\ head = Genesis
  /\ knows = {} /\ news = <<>> /\ inserting = {}
  /\ holding = FALSE /\ late = FALSE
  /\ linked = {}
  /\ toPeer = [p \in Peer |-> <<>>] /\ toMe = [p \in Peer |-> <<>>]
  /\ batch = [p \in Peer |-> NoBatch]
  /\ peerHead \in {f \in [Peer -> Block] : \A p \in Peer : f[p] \in Heads[p]}
  /\ calm = FALSE

-----------------------------------------------------------------------------
(* The environment, until it calms down *)

\* A connection is made: on_connect asks for the peer's status.
Connect(p) ==
  /\ ~calm /\ p \notin linked /\ batch[p] = NoBatch
  /\ linked' = linked \union {p}
  /\ toPeer' = [toPeer EXCEPT ![p] = <<ReqStatus>>]
  /\ UNCHANGED <<engineVars, handlerVars, holding, toMe, batch, envVars, late>>

\* It breaks, and what was on its way is lost.  An insertion goes on.
Disconnect(p) ==
  /\ ~calm /\ p \in linked /\ p \in Shaky
  /\ linked' = linked \ {p}
  /\ toPeer' = [toPeer EXCEPT ![p] = <<>>]
  /\ toMe' = [toMe EXCEPT ![p] = <<>>]
  /\ UNCHANGED <<engineVars, handlerVars, holding, batch, envVars, late>>

\* A message is dropped because its sender's slot was taken by another send.
Lose(p) ==
  /\ ~calm /\ p \in Shaky
  /\ \/ toPeer[p] # <<>> /\ toPeer' = [toPeer EXCEPT ![p] = Tail(@)] /\ UNCHANGED toMe
     \/ toMe[p] # <<>> /\ toMe' = [toMe EXCEPT ![p] = Tail(@)] /\ UNCHANGED toPeer
  /\ UNCHANGED <<engineVars, handlerVars, holding, linked, batch, envVars, late>>

\* A peer's chain gets a higher head, which it announces or not.
PeerAdvances(p, b) ==
  /\ ~calm /\ b \in Heads[p]
  /\ HeightOf(b) > HeightOf(peerHead[p]) /\ From(Root(peerHead[p]), b)
  /\ peerHead' = [peerHead EXCEPT ![p] = b]
  /\ \/ UNCHANGED news
     \/ /\ p \in linked /\ b \in Announced /\ Len(news) < MaxNews
        /\ news' = Append(news, <<p, b>>)
  /\ UNCHANGED <<engineVars, knows, inserting, holding, netVars, batch, calm, late>>

\* submit_block: a block from the node's own miner.
Submit(b) ==
  /\ ~calm /\ b \in Mined /\ Len(news) < MaxNews /\ Prev(b) = head
  /\ news' = Append(news, <<NoPeer, b>>)
  /\ UNCHANGED <<engineVars, knows, inserting, holding, netVars, batch, envVars, late>>

CalmDown ==
  /\ ~calm /\ calm' = TRUE
  /\ UNCHANGED <<engineVars, handlerVars, holding, netVars, batch, peerHead, late>>

\* Ten seconds have passed since the last sync began.
HoldEnds ==
  /\ holding /\ holding' = FALSE
  /\ late' = (Syncs # {})
  /\ UNCHANGED <<engineVars, handlerVars, netVars, batch, envVars>>

-----------------------------------------------------------------------------
(* A peer answers: send_status, send_hashs, send_blocks *)

Reply(p, m) ==
  /\ toPeer' = [toPeer EXCEPT ![p] = Tail(@)]
  /\ toMe' = [toMe EXCEPT ![p] = Append(@, m)]
  /\ UNCHANGED <<engineVars, handlerVars, holding, linked, batch, envVars, late>>

SendStatus(p) ==
  /\ Next1(toPeer[p], "reqStatus")
  /\ Reply(p, [ty |-> "status", height |-> HeightOf(peerHead[p])])

\* Mistake: as many hashes as asked for, without the block the answer starts from.
LowEndOneUp(num, end) == IF num >= end THEN 1 ELSE end - num + 1

\* The heights send_hashs covers, and the blocks of chain b there, from the top down.
LowEnd(num, end) == IF num >= end THEN 1 ELSE end - num
HashsOf(b, num, end) == [i \in 1..(end + 1 - LowEnd(num, end)) |-> Line[b][end + 1 - i]]

SendHashs(p) ==
  /\ Next1(toPeer[p], "reqHashs")
  /\ LET q == Head(toPeer[p]) IN
     IF q.num > MaxHashes \/ q.height > HeightOf(peerHead[p])
     THEN /\ toPeer' = [toPeer EXCEPT ![p] = Tail(@)]
          /\ UNCHANGED <<engineVars, handlerVars, holding, linked, toMe, batch, envVars, late>>
     ELSE Reply(p, [ty |-> "hashs", end |-> q.height,
                    list |-> HashsOf(peerHead[p], q.num, q.height)])

\* The last height of an answer: 0 when the request starts above the chain.
LastSent(b, start) ==
  IF start > HeightOf(b) THEN 0 ELSE Lower(HeightOf(b), start + MaxBlocks - 1)

SendBlocks(p) ==
  /\ Next1(toPeer[p], "reqBlocks")
  /\ LET start == Head(toPeer[p]).start
         end == LastSent(peerHead[p], start) IN
     Reply(p, [ty |-> "blocks", latest |-> HeightOf(peerHead[p]), end |-> end,
               todo |-> SubSeq(Line[peerHead[p]], start, end)])

-----------------------------------------------------------------------------
(* The node *)

Taken(p) == toMe' = [toMe EXCEPT ![p] = Tail(@)]

\* send_req_block_msg
SyncFrom(p, start) ==
  /\ toPeer' = Posted(p, ReqBlocks(start))
  /\ holding' = TRUE

\* Mistake: the hold is not looked at.
TrySyncAnyway(p, start) == SyncFrom(p, start)

\* get_status_try_sync_blocks
TrySync(p, start) ==
  IF holding THEN UNCHANGED <<toPeer, holding>> ELSE SyncFrom(p, start)

ReceiveStatus(p) ==
  /\ Next1(toMe[p], "status")
  /\ Taken(p)
  /\ LET theirs == Head(toMe[p]).height IN
     \/ /\ HeightOf(head) = 0 /\ theirs > 0
        /\ TrySync(p, 1)
     \/ /\ HeightOf(head) > 0 /\ HeightOf(head) < theirs
        /\ toPeer' = Posted(p, ReqHashs(Lower(Window, 255), HeightOf(head)))
        /\ UNCHANGED holding
     \/ /\ HeightOf(head) >= theirs
        /\ UNCHANGED <<toPeer, holding>>
  /\ UNCHANGED <<engineVars, handlerVars, linked, batch, envVars, late>>

\* Mistake: one height less is compared.
ComparedOneLess(m) ==
  LET num == Lower(Len(m.list), Window)
      low == IF m.end <= num THEN 1 ELSE m.end - num + 1
  IN low..m.end

\* The heights receive_hashs compares, and the index in the answer of each.
Compared(m) ==
  LET num == Lower(Len(m.list), Window)
      low == IF m.end <= num THEN 1 ELSE m.end - num
  IN low..m.end
Slot(m, h) == m.end - h + 1

Shared(m) == {h \in Compared(m) : Line[head][h] = m.list[Slot(m, h)]}

\* Mistake: without a shared block the hashes are asked for again.
ReceiveHashsRetries(p) ==
  /\ Next1(toMe[p], "hashs")
  /\ Taken(p)
  /\ LET m == Head(toMe[p]) IN
     IF m.list = <<>> \/ m.end > HeightOf(head) \/ Shared(m) = {}
     THEN /\ toPeer' = Posted(p, ReqHashs(Lower(Window, 255), HeightOf(head)))
          /\ UNCHANGED holding
     ELSE TrySync(p, Max(Shared(m)) + 1)
  /\ UNCHANGED <<engineVars, handlerVars, linked, batch, envVars, late>>

ReceiveHashs(p) ==
  /\ Next1(toMe[p], "hashs")
  /\ Taken(p)
  /\ LET m == Head(toMe[p]) IN
     IF m.list = <<>> \/ m.end > HeightOf(head) \/ Shared(m) = {}
     THEN UNCHANGED <<toPeer, holding>>
     ELSE TrySync(p, Max(Shared(m)) + 1)
  /\ UNCHANGED <<engineVars, handlerVars, linked, batch, envVars, late>>

ReceiveBlocks(p) ==
  /\ Next1(toMe[p], "blocks") /\ batch[p] = NoBatch
  /\ Taken(p)
  /\ batch' = [batch EXCEPT ![p] = Head(toMe[p])]
  /\ UNCHANGED <<engineVars, handlerVars, holding, linked, toPeer, envVars, late>>

\* Mistake: a block that does not fit is passed over.
InsertNextSkips(p) ==
  /\ batch[p] # NoBatch /\ batch[p].todo # <<>>
  /\ LET b == Head(batch[p].todo) IN
     IF Fits(b) THEN Insert(b) ELSE UNCHANGED engineVars
  /\ batch' = [batch EXCEPT ![p].todo = Tail(@)]
  /\ UNCHANGED <<handlerVars, holding, netVars, envVars, late>>

\* insert_sync takes the next block of the answer, or stops at one that does not fit.
InsertNext(p) ==
  /\ batch[p] # NoBatch /\ batch[p].todo # <<>>
  /\ LET b == Head(batch[p].todo) IN
     IF Fits(b)
     THEN /\ Insert(b)
          /\ batch' = [batch EXCEPT ![p].todo = Tail(@)]
     ELSE /\ UNCHANGED engineVars
          /\ batch' = [batch EXCEPT ![p] = NoBatch]
  /\ UNCHANGED <<handlerVars, holding, netVars, envVars, late>>

\* switch_peer: a sync goes on with a public peer, with the same if it is one.
SwitchPeer(p) ==
  IF p \in Public \intersect linked \/ Public \intersect linked = {}
  THEN {p} ELSE Public \intersect linked

\* receive_blocks after the insertion: done, or the next batch.
EndBatch(p) ==
  /\ batch[p] # NoBatch /\ batch[p].todo = <<>>
  /\ batch' = [batch EXCEPT ![p] = NoBatch]
  /\ IF batch[p].end >= batch[p].latest
     THEN UNCHANGED <<toPeer, holding>>
     ELSE \E q \in SwitchPeer(p) : SyncFrom(q, batch[p].end + 1)
  /\ UNCHANGED <<engineVars, handlerVars, linked, toMe, envVars, late>>

\* handle_new_block: latest height - span is a subtraction of u64, which wraps
\* while the chain is shorter than the span.
TooLate(b) ==
  /\ HeightOf(b) > Window
  /\ HeightOf(head) < Window \/ HeightOf(b) < HeightOf(head) - Window

HandleNewBlock ==
  /\ news # <<>> /\ news' = Tail(news)
  /\ LET p == Head(news)[1]
         b == Head(news)[2] IN
     \/ /\ b \in knows
        /\ UNCHANGED <<knows, inserting, toPeer>>
     \/ /\ b \notin knows /\ TooLate(b)
        /\ knows' = knows \union {b}
        /\ UNCHANGED <<inserting, toPeer>>
     \/ /\ b \notin knows /\ ~TooLate(b) /\ HeightOf(b) <= HeightOf(head) + 1
        /\ knows' = knows \union {b}
        /\ inserting' = inserting \union {b}
        /\ UNCHANGED toPeer
     \/ /\ b \notin knows /\ ~TooLate(b) /\ HeightOf(b) > HeightOf(head) + 1
        /\ knows' = knows \union {b}
        /\ toPeer' = IF p = NoPeer THEN toPeer
                     ELSE Posted(p, ReqHashs((Window + 1) % 256, HeightOf(head)))
        /\ UNCHANGED inserting
  /\ UNCHANGED <<engineVars, holding, linked, toMe, batch, envVars, late>>

\* The thread of a block ends its insertion.
InsertBlock(b) ==
  /\ b \in inserting /\ inserting' = inserting \ {b}
  /\ IF Fits(b) THEN Insert(b) ELSE UNCHANGED engineVars
  /\ UNCHANGED <<knows, news, holding, netVars, batch, envVars, late>>

-----------------------------------------------------------------------------
Answer(p) == SendStatus(p) \/ SendHashs(p) \/ SendBlocks(p)

Receive(p) == ReceiveStatus(p) \/ ReceiveHashs(p) \/ ReceiveBlocks(p)

Environment ==
  \/ \E p \in Peer : Connect(p) \/ Disconnect(p) \/ Lose(p)
  \/ \E p \in Peer, b \in Block : PeerAdvances(p, b)
  \/ \E b \in Block : Submit(b)
  \/ CalmDown
  \/ HoldEnds

Work ==
  \/ \E p \in Peer : Answer(p) \/ Receive(p) \/ InsertNext(p) \/ EndBatch(p)
  \/ HandleNewBlock
  \/ \E b \in Block : InsertBlock(b)

Next == Environment \/ Work

\* While some task or thread of the node or an answer of a peer is ready, one of
\* them runs.  Nothing is assumed of the environment.
Fairness == WF_vars(Work)

Spec == Init /\ [][Next]_vars /\ Fairness

-----------------------------------------------------------------------------
(* Properties *)

Message ==
  [ty : {"reqStatus"}] \union
  [ty : {"reqHashs"}, num : 0..255, height : Nat] \union
  [ty : {"reqBlocks"}, start : Nat]
Answered ==
  [ty : {"status"}, height : Nat] \union
  [ty : {"hashs"}, end : Nat, list : Seq(Block)] \union
  [ty : {"blocks"}, latest : Nat, end : Nat, todo : Seq(Block)]

\* Types of all variables.
TypeOK ==
  /\ tree \subseteq Block /\ head \in Block
  /\ knows \subseteq Block /\ inserting \subseteq Block
  /\ news \in Seq((Peer \union {NoPeer}) \X Block)
  /\ holding \in BOOLEAN /\ late \in BOOLEAN /\ calm \in BOOLEAN
  /\ linked \subseteq Peer
  /\ toPeer \in [Peer -> Seq(Message)] /\ toMe \in [Peer -> Seq(Answered)]
  /\ batch \in [Peer -> Answered \union {NoBatch}]
  /\ peerHead \in [Peer -> Block]

\* receive_hashs cuts one hash per height out of the answer (hashs.rs:77) without
\* looking at its length: however the node's chain and the peer's have moved since
\* the request, the answer covers every height it compares.
ComparesWithinReply ==
  \A p \in Peer : Next1(toMe[p], "hashs") =>
    LET m == Head(toMe[p]) IN
    (m.list # <<>> /\ m.end <= HeightOf(head)) =>
      \A h \in Compared(m) : h \in 1..HeightOf(head) /\ Slot(m, h) \in 1..Len(m.list)

\* Blocks are never asked for beyond the block after the head: what is asked for
\* never leaves a gap, in whatever order answers, insertions and announcements come.
AsksWithoutGap ==
  \A p \in Peer : \A i \in 1..Len(toPeer[p]) :
    toPeer[p][i].ty = "reqBlocks" => toPeer[p][i].start <= HeightOf(head) + 1

\* The ten-second hold (msg.rs:39-42) is all that keeps syncs apart: as long as no
\* sync outlasts it, there is one request, answer or insertion under way at a time.
HoldKeepsOneSync == ~late => \A x, y \in Syncs : x = y

\* When the environment is calm, all syncing comes to an end.
Idle ==
  /\ news = <<>> /\ inserting = {}
  /\ \A p \in Peer : toPeer[p] = <<>> /\ toMe[p] = <<>> /\ batch[p] = NoBatch
SyncEnds == calm ~> Idle

\* A node that has just connected to p and has nothing else to do.
FreshStart(p) ==
  /\ calm /\ ~holding
  /\ news = <<>> /\ inserting = {}
  /\ toPeer = [q \in Peer |-> IF q = p THEN <<ReqStatus>> ELSE <<>>]
  /\ \A q \in Peer : toMe[q] = <<>> /\ batch[q] = NoBatch

\* How far the chain of the node and the one of b go together.
Common(b) == Max({0} \union {h \in 1..Lower(HeightOf(head), HeightOf(b)) : Line[head][h] = Line[b][h]})

\* The hashes compared reach the fork, which for a node past genesis must leave at
\* least block 1 in common.
InReach(b) ==
  \/ HeightOf(head) = 0
  \/ Common(b) >= 1 /\ Common(b) + Window >= HeightOf(head)

\* The first block of the other branch is in the tree already, beside the head: a batch
\* that begins with it ends there (insert_sync takes "repetitive block" as any error),
\* on every connection, and the node stays behind until some other block moves its head.
UncleInTheWay(b) == Common(b) < HeightOf(b) /\ At(b, Common(b) + 1) \in tree

CaughtUp(p) == HeightOf(head) >= HeightOf(peerHead[p])

\* A node that connects to a public peer ends up at least as high as that peer, if
\* the fork is in reach and no block of the peer's branch is known yet.
FreshPeerCatchesUp ==
  \A p \in Public :
    (FreshStart(p) /\ InReach(peerHead[p]) /\ ~UncleInTheWay(peerHead[p])) ~> CaughtUp(p)
=============================================================================
