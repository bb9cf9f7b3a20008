-------------------------- MODULE SyncHandlerProofs -------------------------
(* Theorems about SyncHandler, for every block tree, any peers with any      *)
(* chains, and connections that break and lose messages at any step.         *)
EXTENDS SyncHandler, TLAPS, SequenceTheorems, WellFoundedInduction

-----------------------------------------------------------------------------
(* What a message may say when the head of the node is at height h.          *)

\* A peer is never asked for blocks beyond the next one; and where the window can be
\* asked for in one byte, it is.
AsksAt(h) ==
  {m \in Message :
     /\ m.ty = "reqBlocks" => 1 <= m.start /\ m.start <= h + 1
     /\ m.ty = "reqHashs" /\ Window < 255 => Window <= m.num}

\* The last of the blocks of an answer is the one at its end, or the node has it; and
\* an answer of hashes goes down to the first block or through the window.
BlocksAt(h) ==
  {m \in [ty : {"blocks"}, latest : Nat, end : Nat, todo : Seq(Block)] :
     IF m.todo = <<>> THEN m.end <= h ELSE HeightOf(m.todo[Len(m.todo)]) = m.end}
Hashs ==
  {m \in [ty : {"hashs"}, end : Nat, list : Seq(Block)] :
     Window < 255 => Len(m.list) >= m.end \/ Len(m.list) > Window}
TellsAt(h) == [ty : {"status"}, height : Nat] \union Hashs \union BlocksAt(h)

Inv ==
  /\ tree \subseteq Block /\ head \in Block
  /\ knows \subseteq Block /\ inserting \subseteq Block
  /\ news \in Seq((Peer \union {NoPeer}) \X Block)
  /\ holding \in BOOLEAN /\ late \in BOOLEAN /\ calm \in BOOLEAN
  /\ linked \subseteq Peer
  /\ peerHead \in [Peer -> Block]
  /\ toPeer \in [Peer -> Seq(AsksAt(HeightOf(head)))]
  /\ toMe \in [Peer -> Seq(TellsAt(HeightOf(head)))]
  /\ batch \in [Peer -> BlocksAt(HeightOf(head)) \union {NoBatch}]

LEMMA LineType ==
  /\ \A b \in Block : Line[b] \in Seq(Block) /\ HeightOf(b) \in Nat
  /\ \A b \in Block : \A h \in 1..HeightOf(b) : Line[b][h] \in Block /\ HeightOf(Line[b][h]) = h
<1>1. ASSUME NEW b \in Block PROVE Line[b] \in Seq(Block) /\ HeightOf(b) \in Nat
  <2>1. Line[b] \in Seq(Block \ {Genesis})
    BY BlockAssumption
  <2> QED BY <2>1 DEF HeightOf
<1>2. ASSUME NEW b \in Block, NEW h \in 1..HeightOf(b)
      PROVE  Line[b][h] \in Block /\ HeightOf(Line[b][h]) = h
  <2>1. Line[b] \in Seq(Block) /\ h \in 1..Len(Line[b]) /\ Line[Line[b][h]] = SubSeq(Line[b], 1, h)
    BY <1>1, BlockAssumption DEF HeightOf
  <2>2. Line[b][h] \in Block
    BY <2>1
  <2>3. Len(SubSeq(Line[b], 1, h)) = h
    BY <2>1
  <2> QED BY <2>1, <2>2, <2>3 DEF HeightOf
<1> QED BY <1>1, <1>2

LEMMA MaxIs ==
  ASSUME NEW T \in SUBSET Nat, T # {}, NEW u \in Nat, \A x \in T : x <= u
  PROVE  Max(T) \in T /\ Max(T) <= u
<1> DEFINE U == {n \in Nat : \A x \in T : x <= n}
<1>1. PICK m \in U : \A n \in U : m <= n
  <2>1. U \in SUBSET Nat /\ U # {}
    OBVIOUS
  <2> HIDE DEF U
  <2>2. PICK m \in U : \A n \in U : ~(<<n, m>> \in OpToRel(<, Nat))
    BY <2>1, NatLessThanWellFounded, WFMin
  <2>3. \A n \in U : ~(n < m)
    BY <2>1, <2>2 DEF OpToRel
  <2> QED BY <2>1, <2>3
<1>2. m \in T
  <2>1. SUFFICES ASSUME m \notin T PROVE FALSE
    OBVIOUS
  <2>2. \A x \in T : x \in Nat /\ x < m
    BY <1>1, <2>1
  <2>3. PICK x \in T : TRUE
    OBVIOUS
  <2>4. m - 1 \in U
    BY <2>2, <2>3
  <2> QED BY <1>1, <2>4
<1>3. \A x \in T : m >= x
  BY <1>1
<1> QED BY <1>2, <1>3 DEF Max

-----------------------------------------------------------------------------
(* Channels.                                                                 *)

LEMMA SeqWider ==
  ASSUME NEW S, NEW T, S \subseteq T, NEW s \in Seq(S)
  PROVE  s \in Seq(T)
  BY SeqDef

LEMMA HeadTail ==
  ASSUME NEW S, NEW P, NEW ch \in [P -> Seq(S)], NEW p \in P, ch[p] # <<>>
  PROVE  Head(ch[p]) \in S /\ [ch EXCEPT ![p] = Tail(@)] \in [P -> Seq(S)]
<1>1. ch[p] \in Seq(S)
  OBVIOUS
<1>2. Head(ch[p]) \in S /\ Tail(ch[p]) \in Seq(S)
  BY <1>1, HeadTailProperties
<1> QED BY <1>2

LEMMA Appended ==
  ASSUME NEW S, NEW P, NEW ch \in [P -> Seq(S)], NEW p \in P, NEW m \in S
  PROVE  [ch EXCEPT ![p] = Append(@, m)] \in [P -> Seq(S)]
<1>1. Append(ch[p], m) \in Seq(S)
  OBVIOUS
<1> QED BY <1>1

LEMMA PostedIs ==
  ASSUME Inv, NEW p \in Peer, NEW m \in AsksAt(HeightOf(head))
  PROVE  Posted(p, m) \in [Peer -> Seq(AsksAt(HeightOf(head)))]
  BY Appended DEF Posted, Inv

LEMMA AsksAre ==
  ASSUME NEW h \in Nat
  PROVE  /\ ReqStatus \in AsksAt(h)
         /\ \A n \in 0..255, k \in Nat : (Window < 255 => Window <= n) => ReqHashs(n, k) \in AsksAt(h)
         /\ \A s \in 1..(h + 1) : ReqBlocks(s) \in AsksAt(h)
         /\ AsksAt(h) \subseteq Message
<1>1. ReqStatus \in AsksAt(h)
  BY DEF AsksAt, Message, ReqStatus
<1>2. ASSUME NEW n \in 0..255, NEW k \in Nat, Window < 255 => Window <= n
      PROVE  ReqHashs(n, k) \in AsksAt(h)
  BY <1>2 DEF AsksAt, Message, ReqHashs
<1>3. ASSUME NEW s \in 1..(h + 1) PROVE ReqBlocks(s) \in AsksAt(h)
  BY <1>3 DEF AsksAt, Message, ReqBlocks
<1> QED BY <1>1, <1>2, <1>3 DEF AsksAt

LEMMA Grows ==
  ASSUME NEW h \in Nat, NEW k \in Nat, h <= k
  PROVE  AsksAt(h) \subseteq AsksAt(k) /\ BlocksAt(h) \subseteq BlocksAt(k) /\ TellsAt(h) \subseteq TellsAt(k)
<1>1. ASSUME NEW m \in AsksAt(h) PROVE m \in AsksAt(k)
  <2>1. m.ty = "reqBlocks" => m.start \in Nat
    BY DEF AsksAt, Message
  <2> QED BY <2>1 DEF AsksAt
<1>2. ASSUME NEW m \in BlocksAt(h) PROVE m \in BlocksAt(k)
  BY DEF BlocksAt
<1> QED BY <1>1, <1>2 DEF TellsAt

(* The head only climbs, and what was said of it stays true.                *)
LEMMA HeadChanges ==
  ASSUME Inv, head' \in Block, HeightOf(head) <= HeightOf(head')
  PROVE  /\ toPeer \in [Peer -> Seq(AsksAt(HeightOf(head')))]
         /\ toMe \in [Peer -> Seq(TellsAt(HeightOf(head')))]
         /\ batch \in [Peer -> BlocksAt(HeightOf(head')) \union {NoBatch}]
<1> DEFINE h == HeightOf(head)  k == HeightOf(head')
<1>1. h \in Nat /\ k \in Nat /\ h <= k
  BY LineType DEF Inv
<1>2. toPeer \in [Peer -> Seq(AsksAt(h))] /\ toMe \in [Peer -> Seq(TellsAt(h))] /\ batch \in [Peer -> BlocksAt(h) \union {NoBatch}]
  BY DEF Inv
<1> HIDE DEF h, k
<1>3. AsksAt(h) \subseteq AsksAt(k) /\ BlocksAt(h) \subseteq BlocksAt(k) /\ TellsAt(h) \subseteq TellsAt(k)
  BY <1>1, Grows
<1>4. \A p \in Peer : toPeer[p] \in Seq(AsksAt(k)) /\ toMe[p] \in Seq(TellsAt(k))
  BY <1>2, <1>3, SeqWider
<1>5. batch \in [Peer -> BlocksAt(k) \union {NoBatch}]
  BY <1>2, <1>3
<1> QED BY <1>2, <1>4, <1>5 DEF k

LEMMA InsertClimbs ==
  ASSUME Inv, NEW b \in Block, Insert(b)
  PROVE  head' \in Block /\ tree' \subseteq Block /\ HeightOf(head) <= HeightOf(head')
         /\ HeightOf(b) <= HeightOf(head')
  BY LineType DEF Inv, Insert, NewHead

-----------------------------------------------------------------------------
(* The steps.                                                                *)

LEMMA InitInv == ASSUME Init PROVE Inv
<1>1. peerHead \in [Peer -> Block]
  BY BoundAssumption DEF Init
<1>2. /\ toPeer \in [Peer -> Seq(AsksAt(HeightOf(head)))]
      /\ toMe \in [Peer -> Seq(TellsAt(HeightOf(head)))]
      /\ batch \in [Peer -> BlocksAt(HeightOf(head)) \union {NoBatch}]
  BY DEF Init
<1>3. news \in Seq((Peer \union {NoPeer}) \X Block)
  BY DEF Init
<1>4. tree \subseteq Block /\ head \in Block
  BY BlockAssumption DEF Init
<1> QED BY <1>1, <1>2, <1>3, <1>4 DEF Init, Inv

\* Steps that leave the head alone: what remains are the channels.
LEMMA HeadStays ==
  ASSUME Inv, UNCHANGED engineVars,
         knows' \subseteq Block, inserting' \subseteq Block, news' \in Seq((Peer \union {NoPeer}) \X Block),
         holding' \in BOOLEAN, late' \in BOOLEAN, calm' \in BOOLEAN,
         linked' \subseteq Peer, peerHead' \in [Peer -> Block],
         toPeer' \in [Peer -> Seq(AsksAt(HeightOf(head)))],
         toMe' \in [Peer -> Seq(TellsAt(HeightOf(head)))],
         batch' \in [Peer -> BlocksAt(HeightOf(head)) \union {NoBatch}]
  PROVE  Inv'
  BY DEF Inv, engineVars

LEMMA HeightType == ASSUME Inv PROVE HeightOf(head) \in Nat
  BY LineType DEF Inv

LEMMA NetKeeps ==
  ASSUME Inv, NEW p \in Peer, Connect(p) \/ Disconnect(p) \/ Lose(p)
  PROVE  Inv'
<1> DEFINE A == AsksAt(HeightOf(head))  T == TellsAt(HeightOf(head))
<1>1. toPeer \in [Peer -> Seq(A)] /\ toMe \in [Peer -> Seq(T)]
  BY DEF Inv
<1>2. CASE Connect(p)
  <2>1. <<ReqStatus>> \in Seq(A)
    BY HeightType, AsksAre
  <2> HIDE DEF A
  <2>2. toPeer' \in [Peer -> Seq(A)]
    BY <1>1, <1>2, <2>1 DEF Connect
  <2> QED BY <1>2, <2>2, HeadStays DEF Connect, Inv, engineVars, handlerVars, envVars, A
<1>3. CASE Disconnect(p)
  <2>1. <<>> \in Seq(A) /\ <<>> \in Seq(T)
    OBVIOUS
  <2> HIDE DEF A, T
  <2>2. toPeer' \in [Peer -> Seq(A)] /\ toMe' \in [Peer -> Seq(T)]
    BY <1>1, <1>3, <2>1 DEF Disconnect
  <2> QED BY <1>3, <2>2, HeadStays DEF Disconnect, Inv, engineVars, handlerVars, envVars, A, T
<1>4. CASE Lose(p)
  <2> HIDE DEF A, T
  <2>1. CASE toPeer[p] # <<>> /\ toPeer' = [toPeer EXCEPT ![p] = Tail(@)] /\ UNCHANGED toMe
    <3>1. toPeer' \in [Peer -> Seq(A)] /\ toMe' \in [Peer -> Seq(T)]
      BY <1>1, <2>1, HeadTail
    <3> QED BY <1>4, <3>1, HeadStays DEF Lose, Inv, engineVars, handlerVars, envVars, A, T
  <2>2. CASE toMe[p] # <<>> /\ toMe' = [toMe EXCEPT ![p] = Tail(@)] /\ UNCHANGED toPeer
    <3>1. toPeer' \in [Peer -> Seq(A)] /\ toMe' \in [Peer -> Seq(T)]
      BY <1>1, <2>2, HeadTail
    <3> QED BY <1>4, <3>1, HeadStays DEF Lose, Inv, engineVars, handlerVars, envVars, A, T
  <2> QED BY <1>4, <2>1, <2>2 DEF Lose
<1> QED BY <1>2, <1>3, <1>4

LEMMA NewsKeeps ==
  ASSUME Inv, NEW b \in Block, Submit(b) \/ \E p \in Peer : PeerAdvances(p, b)
  PROVE  Inv'
<1> DEFINE N == (Peer \union {NoPeer}) \X Block
<1>1. news \in Seq(N)
  BY DEF Inv
<1>2. CASE Submit(b)
  <2>1. <<NoPeer, b>> \in N
    OBVIOUS
  <2>2. news' \in Seq(N)
    <3> HIDE DEF N
    <3> QED BY <1>1, <1>2, <2>1 DEF Submit
  <2> QED BY <1>2, <2>2, HeadStays DEF Submit, Inv, engineVars, netVars, envVars
<1>3. ASSUME NEW p \in Peer, PeerAdvances(p, b) PROVE Inv'
  <2>1. <<p, b>> \in N
    OBVIOUS
  <2>2. news' \in Seq(N)
    <3> HIDE DEF N
    <3> QED BY <1>1, <1>3, <2>1 DEF PeerAdvances
  <2>3. peerHead' \in [Peer -> Block]
    BY <1>3 DEF PeerAdvances, Inv
  <2> QED BY <1>3, <2>2, <2>3, HeadStays DEF PeerAdvances, Inv, engineVars, netVars
<1> QED BY <1>2, <1>3

LEMMA ClockKeeps == ASSUME Inv, CalmDown \/ HoldEnds PROVE Inv'
<1>1. CASE CalmDown
  BY <1>1, HeadStays DEF CalmDown, Inv, engineVars, handlerVars, netVars, envVars
<1>2. CASE HoldEnds
  BY <1>2, HeadStays DEF HoldEnds, Inv, engineVars, handlerVars, netVars, envVars
<1> QED BY <1>1, <1>2

\* The answers of a peer are what the node counts on.
LEMMA ReplyKeeps ==
  ASSUME Inv, NEW p \in Peer, toPeer[p] # <<>>, NEW m \in TellsAt(HeightOf(head)), Reply(p, m)
  PROVE  Inv'
<1> DEFINE A == AsksAt(HeightOf(head))  T == TellsAt(HeightOf(head))
<1>1. toPeer \in [Peer -> Seq(A)] /\ toMe \in [Peer -> Seq(T)] /\ m \in T
  BY DEF Inv
<1> HIDE DEF A, T
<1>2. toPeer' \in [Peer -> Seq(A)] /\ toMe' \in [Peer -> Seq(T)]
  BY <1>1, HeadTail, Appended DEF Reply
<1> QED BY <1>2, HeadStays DEF Reply, Inv, engineVars, handlerVars, envVars, A, T

LEMMA SendStatusKeeps == ASSUME Inv, NEW p \in Peer, SendStatus(p) PROVE Inv'
<1>1. HeightOf(peerHead[p]) \in Nat
  BY LineType DEF Inv
<1>2. [ty |-> "status", height |-> HeightOf(peerHead[p])] \in TellsAt(HeightOf(head))
  BY <1>1 DEF TellsAt
<1> QED BY <1>2, ReplyKeeps DEF SendStatus, Next1

LEMMA RequestIs ==
  ASSUME Inv, NEW p \in Peer, toPeer[p] # <<>>
  PROVE  /\ Head(toPeer[p]) \in AsksAt(HeightOf(head))
         /\ Head(toPeer[p]).ty = "reqHashs" =>
              /\ Head(toPeer[p]).num \in 0..255 /\ Head(toPeer[p]).height \in Nat
              /\ Window < 255 => Window <= Head(toPeer[p]).num
         /\ Head(toPeer[p]).ty = "reqBlocks" =>
              Head(toPeer[p]).start \in Nat /\ 1 <= Head(toPeer[p]).start
<1>1. Head(toPeer[p]) \in AsksAt(HeightOf(head))
  BY HeadTail DEF Inv
<1> QED BY <1>1 DEF AsksAt, Message

LEMMA SendHashsKeeps == ASSUME Inv, NEW p \in Peer, SendHashs(p) PROVE Inv'
<1> DEFINE q == Head(toPeer[p])  b == peerHead[p]
           l == HashsOf(b, q.num, q.height)  m == [ty |-> "hashs", end |-> q.height, list |-> l]
<1>1. toPeer[p] # <<>> /\ q.ty = "reqHashs"
  BY DEF SendHashs, Next1
<1>2. q.num \in Nat /\ q.height \in Nat /\ (Window < 255 => Window <= q.num)
  <2>1. q.num \in 0..255 /\ q.height \in Nat /\ (Window < 255 => Window <= q.num)
    BY <1>1, RequestIs
  <2> HIDE DEF q
  <2> QED BY <2>1
<1>3. b \in Block /\ HeightOf(b) \in Nat /\ \A h \in 1..HeightOf(b) : Line[b][h] \in Block
  BY LineType DEF Inv
<1>4. CASE q.num > MaxHashes \/ q.height > HeightOf(b)
  <2>1. toPeer' = [toPeer EXCEPT ![p] = Tail(@)] /\ UNCHANGED <<engineVars, handlerVars, holding, linked, toMe, batch, envVars, late>>
    BY <1>4 DEF SendHashs
  <2>2. toPeer' \in [Peer -> Seq(AsksAt(HeightOf(head)))]
    BY <1>1, <2>1, HeadTail DEF Inv
  <2> QED BY <2>1, <2>2, HeadStays DEF Inv, engineVars, handlerVars, envVars
<1>5. CASE ~(q.num > MaxHashes \/ q.height > HeightOf(b))
  <2>1. Reply(p, m)
    BY <1>5 DEF SendHashs
  <2>2. q.height <= HeightOf(b)
    BY <1>2, <1>3, <1>5
  <2> DEFINE low == LowEnd(q.num, q.height)  n == q.height + 1 - low
  <2>3. low \in Nat /\ 1 <= low /\ low <= q.height + 1 /\ n \in Nat
        /\ (Window < 255 => n >= q.height \/ n > Window)
    BY <1>2, BoundAssumption DEF LowEnd
  <2>4. l = [i \in 1..n |-> Line[b][q.height + 1 - i]]
    BY DEF HashsOf
  <2>5. \A i \in 1..n : Line[b][q.height + 1 - i] \in Block
    <3> SUFFICES ASSUME NEW i \in 1..n PROVE q.height + 1 - i \in 1..HeightOf(b)
      BY <1>3
    <3> HIDE DEF q, b
    <3> QED BY <1>2, <1>3, <2>2, <2>3
  <2> HIDE DEF low, n, l, q, b
  <2>6. l \in Seq(Block) /\ Len(l) = n
    BY <2>3, <2>4, <2>5
  <2>7. m \in TellsAt(HeightOf(head))
    BY <1>2, <2>3, <2>6 DEF TellsAt, Hashs
  <2> HIDE DEF m
  <2> QED BY <1>1, <2>1, <2>7, ReplyKeeps
<1> QED BY <1>4, <1>5

LEMMA SendBlocksKeeps == ASSUME Inv, NEW p \in Peer, SendBlocks(p) PROVE Inv'
<1> DEFINE start == Head(toPeer[p]).start  b == peerHead[p]  end == LastSent(b, start)
           l == SubSeq(Line[b], start, end)
           m == [ty |-> "blocks", latest |-> HeightOf(b), end |-> end, todo |-> l]
<1>1. toPeer[p] # <<>> /\ Head(toPeer[p]).ty = "reqBlocks" /\ Reply(p, m)
  BY DEF SendBlocks, Next1
<1>2. start \in Nat /\ 1 <= start
  BY <1>1, RequestIs
<1>3. /\ b \in Block /\ HeightOf(b) \in Nat
      /\ \A h \in 1..HeightOf(b) : Line[b][h] \in Block /\ HeightOf(Line[b][h]) = h
  BY LineType DEF Inv
<1>4. /\ end \in Nat /\ end <= HeightOf(b)
      /\ start <= end \/ (start > end /\ end = 0)
  <2> HIDE DEF start, b
  <2> QED BY <1>2, <1>3, BoundAssumption DEF LastSent, Lower
<1> HIDE DEF start, end, b
<1>5. \A i \in start..end : Line[b][i] \in Block
  BY <1>2, <1>3, <1>4
<1>6. /\ l \in Seq(Block) /\ Len(l) = IF start <= end THEN end - start + 1 ELSE 0
      /\ \A i \in 1..(end - start + 1) : l[i] = Line[b][start + i - 1]
  BY <1>2, <1>4, <1>5, SubSeqProperties
<1> HIDE DEF l
<1>7. IF l = <<>> THEN end <= HeightOf(head) ELSE HeightOf(l[Len(l)]) = end
  <2>1. CASE start <= end
    <3>1. Len(l) = end - start + 1 /\ Len(l) \in 1..(end - start + 1) /\ start + Len(l) - 1 = end
      BY <1>2, <1>4, <1>6, <2>1
    <3>2. l[Len(l)] = Line[b][end] /\ end \in 1..HeightOf(b) /\ l # <<>>
      BY <1>2, <1>4, <1>6, <2>1, <3>1
    <3> QED BY <1>3, <3>2
  <2>2. CASE ~(start <= end)
    <3>1. end = 0 /\ Len(l) = 0
      BY <1>2, <1>4, <1>6, <2>2
    <3>2. l = <<>>
      BY <1>6, <3>1
    <3> QED BY <3>1, <3>2, HeightType
  <2> QED BY <2>1, <2>2
<1>8. m \in TellsAt(HeightOf(head))
  BY <1>3, <1>4, <1>6, <1>7 DEF TellsAt, BlocksAt
<1> HIDE DEF m
<1> QED BY <1>1, <1>8, ReplyKeeps

LEMMA AnswerIs ==
  ASSUME Inv, NEW p \in Peer, toMe[p] # <<>>
  PROVE  /\ Head(toMe[p]).ty = "status" => Head(toMe[p]).height \in Nat
         /\ Head(toMe[p]).ty = "hashs" => Head(toMe[p]) \in Hashs
         /\ Head(toMe[p]).ty = "blocks" => Head(toMe[p]) \in BlocksAt(HeightOf(head))
         /\ [toMe EXCEPT ![p] = Tail(@)] \in [Peer -> Seq(TellsAt(HeightOf(head)))]
<1>1. /\ Head(toMe[p]) \in TellsAt(HeightOf(head))
      /\ [toMe EXCEPT ![p] = Tail(@)] \in [Peer -> Seq(TellsAt(HeightOf(head)))]
  BY HeadTail DEF Inv
<1> QED BY <1>1 DEF TellsAt, Hashs, BlocksAt

\* A request for blocks that goes to p, or to nobody.
LEMMA SyncFromKeeps ==
  ASSUME Inv, NEW p \in Peer, NEW s \in 1..(HeightOf(head) + 1), SyncFrom(p, s) \/ TrySync(p, s)
  PROVE  toPeer' \in [Peer -> Seq(AsksAt(HeightOf(head)))] /\ holding' \in BOOLEAN
<1>1. Posted(p, ReqBlocks(s)) \in [Peer -> Seq(AsksAt(HeightOf(head)))]
  BY HeightType, AsksAre, PostedIs
<1>2. toPeer \in [Peer -> Seq(AsksAt(HeightOf(head)))] /\ holding \in BOOLEAN
  BY DEF Inv
<1> QED BY <1>1, <1>2 DEF SyncFrom, TrySync

LEMMA ReceiveStatusKeeps == ASSUME Inv, NEW p \in Peer, ReceiveStatus(p) PROVE Inv'
<1> DEFINE theirs == Head(toMe[p]).height
<1>1. toMe[p] # <<>> /\ Head(toMe[p]).ty = "status"
  BY DEF ReceiveStatus, Next1
<1>2. toMe' \in [Peer -> Seq(TellsAt(HeightOf(head)))]
  BY <1>1, AnswerIs DEF ReceiveStatus, Taken
<1>3. toPeer' \in [Peer -> Seq(AsksAt(HeightOf(head)))] /\ holding' \in BOOLEAN
  <2>1. CASE HeightOf(head) = 0 /\ theirs > 0 /\ TrySync(p, 1)
    <3>1. 1 \in 1..(HeightOf(head) + 1)
      BY HeightType
    <3> QED BY <2>1, <3>1, SyncFromKeeps
  <2>2. CASE toPeer' = Posted(p, ReqHashs(Lower(Window, 255), HeightOf(head))) /\ UNCHANGED holding
    <3>1. Lower(Window, 255) \in 0..255 /\ (Window < 255 => Window <= Lower(Window, 255))
      BY BoundAssumption DEF Lower
    <3>2. ReqHashs(Lower(Window, 255), HeightOf(head)) \in AsksAt(HeightOf(head))
      BY <3>1, HeightType, AsksAre
    <3> QED BY <2>2, <3>2, PostedIs DEF Inv
  <2>3. CASE UNCHANGED <<toPeer, holding>>
    BY <2>3 DEF Inv
  <2> QED BY <2>1, <2>2, <2>3 DEF ReceiveStatus
<1> QED BY <1>2, <1>3, HeadStays DEF ReceiveStatus, Inv, engineVars, handlerVars, envVars

\* What the two chains share is at most at the node's own height.
LEMMA SharedIs ==
  ASSUME Inv, NEW m \in Hashs, m.end <= HeightOf(head), Shared(m) # {}
  PROVE  Max(Shared(m)) + 1 \in 1..(HeightOf(head) + 1)
<1>1. m.end \in Nat /\ Len(m.list) \in Nat
  BY DEF Hashs
<1> DEFINE num == Lower(Len(m.list), Window)  low == IF m.end <= num THEN 1 ELSE m.end - num
<1>2. low \in Nat
  BY <1>1, BoundAssumption DEF Lower
<1>3. Shared(m) \subseteq low..m.end
  BY DEF Shared, Compared
<1> HIDE DEF low
<1>4. Shared(m) \in SUBSET Nat /\ \A x \in Shared(m) : x <= HeightOf(head)
  BY <1>1, <1>2, <1>3, HeightType
<1>5. Max(Shared(m)) \in Shared(m) /\ Max(Shared(m)) <= HeightOf(head)
  BY <1>4, HeightType, MaxIs
<1> QED BY <1>4, <1>5, HeightType

LEMMA ReceiveHashsKeeps == ASSUME Inv, NEW p \in Peer, ReceiveHashs(p) PROVE Inv'
<1> DEFINE m == Head(toMe[p])
<1>1. toMe[p] # <<>> /\ m.ty = "hashs"
  BY DEF ReceiveHashs, Next1
<1>2. m \in Hashs /\ toMe' \in [Peer -> Seq(TellsAt(HeightOf(head)))]
  BY <1>1, AnswerIs DEF ReceiveHashs, Taken
<1>3. toPeer' \in [Peer -> Seq(AsksAt(HeightOf(head)))] /\ holding' \in BOOLEAN
  <2>1. CASE m.list = <<>> \/ m.end > HeightOf(head) \/ Shared(m) = {}
    <3>1. UNCHANGED <<toPeer, holding>>
      BY <2>1 DEF ReceiveHashs
    <3> QED BY <3>1 DEF Inv
  <2>2. CASE ~(m.list = <<>> \/ m.end > HeightOf(head) \/ Shared(m) = {})
    <3>1. TrySync(p, Max(Shared(m)) + 1)
      BY <2>2 DEF ReceiveHashs
    <3>2. m.end <= HeightOf(head) /\ Shared(m) # {}
      <4>1. m.end \in Nat
        BY <1>2 DEF Hashs
      <4> HIDE DEF m
      <4> QED BY <2>2, <4>1, HeightType
    <3> HIDE DEF m
    <3>3. Max(Shared(m)) + 1 \in 1..(HeightOf(head) + 1)
      BY <1>2, <3>2, SharedIs
    <3> QED BY <3>1, <3>3, SyncFromKeeps
  <2> QED BY <2>1, <2>2
<1> QED BY <1>2, <1>3, HeadStays DEF ReceiveHashs, Inv, engineVars, handlerVars, envVars

LEMMA ReceiveBlocksKeeps == ASSUME Inv, NEW p \in Peer, ReceiveBlocks(p) PROVE Inv'
<1>1. toMe[p] # <<>> /\ Head(toMe[p]).ty = "blocks"
  BY DEF ReceiveBlocks, Next1
<1>2. /\ Head(toMe[p]) \in BlocksAt(HeightOf(head))
      /\ toMe' \in [Peer -> Seq(TellsAt(HeightOf(head)))]
  BY <1>1, AnswerIs DEF ReceiveBlocks, Taken
<1>3. batch' \in [Peer -> BlocksAt(HeightOf(head)) \union {NoBatch}]
  BY <1>2 DEF ReceiveBlocks, Inv
<1> QED BY <1>2, <1>3, HeadStays DEF ReceiveBlocks, Inv, engineVars, handlerVars, envVars

LEMMA TailIs ==
  ASSUME NEW S, NEW s \in Seq(S), s # <<>>
  PROVE  /\ Head(s) \in S /\ Tail(s) \in Seq(S)
         /\ \/ Tail(s) = <<>> /\ s[Len(s)] = Head(s)
            \/ Tail(s) # <<>> /\ Tail(s)[Len(Tail(s))] = s[Len(s)]
<1> DEFINE r == Tail(s)
<1>1. /\ Head(s) \in S /\ r \in Seq(S) /\ Len(r) = Len(s) - 1
      /\ \A i \in 1..Len(r) : r[i] = s[i + 1]
  BY HeadTailProperties
<1>2. Len(s) \in Nat /\ Head(s) = s[1]
  OBVIOUS
<1> HIDE DEF r
<1>3. CASE r = <<>>
  <2>1. Len(s) = 1
    BY <1>1, <1>2, <1>3
  <2> QED BY <1>1, <1>2, <1>3, <2>1 DEF r
<1>4. CASE r # <<>>
  <2>1. Len(r) \in 1..Len(r)
    BY <1>1, <1>4
  <2>2. r[Len(r)] = s[Len(s)]
    BY <1>1, <1>2, <2>1
  <2> QED BY <1>1, <1>4, <2>2 DEF r
<1> QED BY <1>3, <1>4

\* An answer all of whose blocks are inserted ends at most at the head.
LEMMA RestIs ==
  ASSUME NEW h, NEW k, NEW m \in BlocksAt(h), m.todo # <<>>, HeightOf(Head(m.todo)) <= k
  PROVE  [m EXCEPT !.todo = Tail(@)] \in BlocksAt(k)
<1> DEFINE rest == [m EXCEPT !.todo = Tail(@)]
<1>1. /\ m \in [ty : {"blocks"}, latest : Nat, end : Nat, todo : Seq(Block)]
      /\ m.todo \in Seq(Block) /\ HeightOf(m.todo[Len(m.todo)]) = m.end
  BY DEF BlocksAt
<1>2. /\ Tail(m.todo) \in Seq(Block)
      /\ \/ Tail(m.todo) = <<>> /\ m.todo[Len(m.todo)] = Head(m.todo)
         \/ Tail(m.todo) # <<>> /\ Tail(m.todo)[Len(Tail(m.todo))] = m.todo[Len(m.todo)]
  BY <1>1, TailIs
<1>3. /\ rest \in [ty : {"blocks"}, latest : Nat, end : Nat, todo : Seq(Block)]
      /\ rest.todo = Tail(m.todo) /\ rest.end = m.end
  BY <1>1, <1>2
<1> HIDE DEF rest
<1>4. IF rest.todo = <<>> THEN rest.end <= k ELSE HeightOf(rest.todo[Len(rest.todo)]) = rest.end
  <2>1. CASE Tail(m.todo) = <<>>
    BY <1>1, <1>2, <1>3, <2>1
  <2>2. CASE Tail(m.todo) # <<>>
    BY <1>1, <1>2, <1>3, <2>2
  <2> QED BY <2>1, <2>2
<1> QED BY <1>3, <1>4 DEF BlocksAt, rest

LEMMA InsertNextKeeps == ASSUME Inv, NEW p \in Peer, InsertNext(p) PROVE Inv'
<1> DEFINE m == batch[p]  b == Head(m.todo)  BB == BlocksAt(HeightOf(head)) \union {NoBatch}
<1>1. m \in BlocksAt(HeightOf(head)) /\ m.todo # <<>> /\ batch \in [Peer -> BB]
  BY DEF InsertNext, Inv
<1>2. b \in Block
  <2>1. m.todo \in Seq(Block)
    BY <1>1 DEF BlocksAt
  <2> QED BY <1>1, <2>1, TailIs
<1>3. CASE Fits(b)
  <2> DEFINE rest == [m EXCEPT !.todo = Tail(@)]
  <2>1. Insert(b) /\ batch' = [batch EXCEPT ![p] = rest]
        /\ UNCHANGED <<handlerVars, holding, netVars, envVars, late>>
    BY <1>3 DEF InsertNext
  <2>2. head' \in Block /\ tree' \subseteq Block /\ HeightOf(head) <= HeightOf(head') /\ HeightOf(b) <= HeightOf(head')
    BY <1>2, <2>1, InsertClimbs
  <2> DEFINE k == HeightOf(head')  BK == BlocksAt(k) \union {NoBatch}
  <2>3. toPeer \in [Peer -> Seq(AsksAt(k))] /\ toMe \in [Peer -> Seq(TellsAt(k))] /\ batch \in [Peer -> BK]
    BY <2>2, HeadChanges
  <2>4. rest \in BlocksAt(k)
    BY <1>1, <2>2, RestIs
  <2> HIDE DEF rest, k, m, b
  <2>5. batch' \in [Peer -> BK]
    BY <2>1, <2>3, <2>4
  <2> QED BY <2>1, <2>2, <2>3, <2>5 DEF Inv, handlerVars, netVars, envVars, k
<1>4. CASE ~Fits(b)
  <2>1. UNCHANGED engineVars /\ batch' = [batch EXCEPT ![p] = NoBatch]
        /\ UNCHANGED <<handlerVars, holding, netVars, envVars, late>>
    BY <1>4 DEF InsertNext
  <2> HIDE DEF m, b
  <2>2. batch' \in [Peer -> BB]
    BY <1>1, <2>1
  <2> QED BY <2>1, <2>2, HeadStays DEF Inv, handlerVars, netVars, envVars
<1> QED BY <1>3, <1>4

LEMMA EndBatchKeeps == ASSUME Inv, NEW p \in Peer, EndBatch(p) PROVE Inv'
<1>1. batch[p].end \in Nat /\ batch[p].end <= HeightOf(head)
  BY DEF EndBatch, Inv, BlocksAt
<1>2. batch' \in [Peer -> BlocksAt(HeightOf(head)) \union {NoBatch}]
  BY DEF EndBatch, Inv
<1>3. toPeer' \in [Peer -> Seq(AsksAt(HeightOf(head)))] /\ holding' \in BOOLEAN
  <2>1. CASE UNCHANGED <<toPeer, holding>>
    BY <2>1 DEF Inv
  <2>2. ASSUME NEW q \in SwitchPeer(p), SyncFrom(q, batch[p].end + 1)
        PROVE  toPeer' \in [Peer -> Seq(AsksAt(HeightOf(head)))] /\ holding' \in BOOLEAN
    <3>1. q \in Peer /\ batch[p].end + 1 \in 1..(HeightOf(head) + 1)
      BY <1>1, HeightType, PeerAssumption DEF SwitchPeer
    <3> QED BY <2>2, <3>1, SyncFromKeeps
  <2> QED BY <2>1, <2>2 DEF EndBatch
<1> QED BY <1>2, <1>3, HeadStays DEF EndBatch, Inv, engineVars, handlerVars, envVars

LEMMA HandleNewBlockKeeps == ASSUME Inv, HandleNewBlock PROVE Inv'
<1> DEFINE N == (Peer \union {NoPeer}) \X Block  p == Head(news)[1]  b == Head(news)[2]
<1>1. p \in Peer \union {NoPeer} /\ b \in Block /\ news' \in Seq(N)
  <2>1. news \in Seq(N) /\ news # <<>> /\ news' = Tail(news)
    BY DEF HandleNewBlock, Inv
  <2>2. Head(news) \in N /\ Tail(news) \in Seq(N)
    <3> HIDE DEF N
    <3> QED BY <2>1, HeadTailProperties
  <2> QED BY <2>1, <2>2
<1>2. knows' \subseteq Block /\ inserting' \subseteq Block
  <2> HIDE DEF p
  <2> QED BY <1>1 DEF HandleNewBlock, Inv
<1>3. toPeer' \in [Peer -> Seq(AsksAt(HeightOf(head)))]
  <2>1. CASE UNCHANGED toPeer
    BY <2>1 DEF Inv
  <2>2. CASE p # NoPeer /\ toPeer' = Posted(p, ReqHashs((Window + 1) % 256, HeightOf(head)))
    <3>1. (Window + 1) % 256 \in 0..255 /\ (Window < 255 => Window <= (Window + 1) % 256)
      BY BoundAssumption
    <3>2. ReqHashs((Window + 1) % 256, HeightOf(head)) \in AsksAt(HeightOf(head))
      BY <3>1, HeightType, AsksAre
    <3> HIDE DEF p
    <3> QED BY <1>1, <2>2, <3>2, PostedIs
  <2> QED BY <2>1, <2>2 DEF HandleNewBlock
<1> QED BY <1>1, <1>2, <1>3, HeadStays DEF HandleNewBlock, Inv, engineVars, envVars

LEMMA InsertBlockKeeps == ASSUME Inv, NEW b \in Block, InsertBlock(b) PROVE Inv'
<1>1. CASE Fits(b)
  <2>1. Insert(b)
    BY <1>1 DEF InsertBlock
  <2>2. head' \in Block /\ tree' \subseteq Block /\ HeightOf(head) <= HeightOf(head')
    BY <2>1, InsertClimbs
  <2>3. /\ toPeer \in [Peer -> Seq(AsksAt(HeightOf(head')))]
        /\ toMe \in [Peer -> Seq(TellsAt(HeightOf(head')))]
        /\ batch \in [Peer -> BlocksAt(HeightOf(head')) \union {NoBatch}]
    BY <2>2, HeadChanges
  <2> QED BY <2>2, <2>3 DEF InsertBlock, Inv, netVars, envVars
<1>2. CASE ~Fits(b)
  BY <1>2, HeadStays DEF InsertBlock, Inv, engineVars, netVars, envVars
<1> QED BY <1>1, <1>2

LEMMA StepKeeps == ASSUME Inv, [Next]_vars PROVE Inv'
<1>1. CASE Environment
  BY <1>1, NetKeeps, NewsKeeps, ClockKeeps DEF Environment
<1>2. ASSUME NEW p \in Peer, Answer(p) \/ Receive(p) \/ InsertNext(p) \/ EndBatch(p) PROVE Inv'
  <2>1. CASE Answer(p)
    BY <2>1, SendStatusKeeps, SendHashsKeeps, SendBlocksKeeps DEF Answer
  <2>2. CASE Receive(p)
    BY <2>2, ReceiveStatusKeeps, ReceiveHashsKeeps, ReceiveBlocksKeeps DEF Receive
  <2> QED BY <1>2, <2>1, <2>2, InsertNextKeeps, EndBatchKeeps
<1>3. CASE HandleNewBlock
  BY <1>3, HandleNewBlockKeeps
<1>4. ASSUME NEW b \in Block, InsertBlock(b) PROVE Inv'
  BY <1>4, InsertBlockKeeps
<1>5. CASE UNCHANGED vars
  BY <1>5, HeadStays DEF vars, Inv, handlerVars, netVars, envVars
<1> QED BY <1>1, <1>2, <1>3, <1>4, <1>5 DEF Next, Work

-----------------------------------------------------------------------------
(* One sync at a time, while none outlasts the hold.                         *)

Marks(ch, ty) == {i \in 1..Len(ch) : ch[i].ty = ty}
Req(p) == Marks(toPeer[p], "reqBlocks")
Ans(p) == Marks(toMe[p], "blocks")
Ins(p) == batch[p] # NoBatch

NoSync == \A p \in Peer : Req(p) = {} /\ Ans(p) = {} /\ ~Ins(p)
AtMostOne ==
  /\ \A p, q \in Peer : \A i \in Req(p), j \in Req(q) : p = q /\ i = j
  /\ \A p, q \in Peer : \A i \in Ans(p), j \in Ans(q) : p = q /\ i = j
  /\ \A p, q \in Peer : Ins(p) /\ Ins(q) => p = q
  /\ \A p, q \in Peer : Req(p) # {} => Ans(q) = {} /\ ~Ins(q)
  /\ \A p, q \in Peer : Ans(p) # {} => ~Ins(q)

\* A sync under way at all is within the hold.
HoldInv == ~late => AtMostOne /\ (~holding => NoSync)

LEMMA ChannelTypes ==
  ASSUME Inv, NEW p \in Peer
  PROVE  /\ toPeer[p] \in Seq(AsksAt(HeightOf(head))) /\ toMe[p] \in Seq(TellsAt(HeightOf(head)))
         /\ DOMAIN toPeer = Peer /\ DOMAIN toMe = Peer /\ DOMAIN batch = Peer
  BY DEF Inv

LEMMA SyncsAre ==
  ASSUME Inv
  PROVE  /\ NoSync <=> Syncs = {}
         /\ AtMostOne => \A x, y \in Syncs : x = y
<1>1. \A x : x \in Syncs <=> \E p \in Peer : \/ \E i \in Req(p) : x = <<p, "request", i>>
                                             \/ \E i \in Ans(p) : x = <<p, "answer", i>>
                                             \/ Ins(p) /\ x = <<p, "insertion", 0>>
  <2>1. ASSUME NEW p \in Peer
        PROVE  /\ Requests(p) = {<<p, "request", i>> : i \in Req(p)}
               /\ Answers(p) = {<<p, "answer", i>> : i \in Ans(p)}
               /\ Insertion(p) = IF Ins(p) THEN {<<p, "insertion", 0>>} ELSE {}
    <3>1. DOMAIN toPeer[p] = 1..Len(toPeer[p]) /\ DOMAIN toMe[p] = 1..Len(toMe[p])
      BY ChannelTypes, LenProperties
    <3> QED BY <3>1 DEF Requests, Answers, Insertion, Req, Ans, Ins, Marks
  <2> QED BY <2>1 DEF Syncs
<1>2. NoSync <=> Syncs = {}
  <2>1. ASSUME NoSync PROVE Syncs = {}
    BY <1>1, <2>1 DEF NoSync
  <2>2. ASSUME Syncs = {}, NEW p \in Peer PROVE Req(p) = {} /\ Ans(p) = {} /\ ~Ins(p)
    BY <1>1, <2>2
  <2> QED BY <2>1, <2>2 DEF NoSync
<1>3. ASSUME AtMostOne, NEW x \in Syncs, NEW y \in Syncs PROVE x = y
  <2>1. PICK p \in Peer : \/ \E i \in Req(p) : x = <<p, "request", i>>
                          \/ \E i \in Ans(p) : x = <<p, "answer", i>>
                          \/ Ins(p) /\ x = <<p, "insertion", 0>>
    BY <1>1
  <2>2. PICK q \in Peer : \/ \E i \in Req(q) : y = <<q, "request", i>>
                          \/ \E i \in Ans(q) : y = <<q, "answer", i>>
                          \/ Ins(q) /\ y = <<q, "insertion", 0>>
    BY <1>1
  <2> QED BY <1>3, <2>1, <2>2 DEF AtMostOne
<1> QED BY <1>2, <1>3

LEMMA MarksTail ==
  ASSUME NEW S, NEW ch \in Seq(S), ch # <<>>, NEW ty
  PROVE  \A i \in Marks(Tail(ch), ty) : i \in Nat /\ i + 1 \in Marks(ch, ty)
<1>1. Len(Tail(ch)) = Len(ch) - 1 /\ \A i \in 1..Len(Tail(ch)) : Tail(ch)[i] = ch[i + 1]
  BY HeadTailProperties
<1>2. Len(ch) \in Nat
  OBVIOUS
<1> QED BY <1>1, <1>2 DEF Marks

LEMMA MarksAppend ==
  ASSUME NEW S, NEW ch \in Seq(S), NEW m, NEW ty
  PROVE  Marks(Append(ch, m), ty) = Marks(ch, ty) \union (IF m.ty = ty THEN {Len(ch) + 1} ELSE {})
<1>1. /\ Len(ch) \in Nat /\ Len(Append(ch, m)) = Len(ch) + 1
      /\ \A i \in 1..Len(ch) : Append(ch, m)[i] = ch[i]
      /\ Append(ch, m)[Len(ch) + 1] = m
  BY AppendProperties
<1> QED BY <1>1 DEF Marks

LEMMA MarksHead ==
  ASSUME NEW S, NEW ch \in Seq(S), NEW ty, Next1(ch, ty)
  PROVE  1 \in Marks(ch, ty)
<1>1. Len(ch) \in Nat /\ Len(ch) # 0 /\ Head(ch) = ch[1] /\ Head(ch).ty = ty
  BY DEF Next1
<1> QED BY <1>1 DEF Marks

\* A channel that kept its place or moved up, perhaps with an end cut off.
Fewer(N, M) == (\A i \in N : i \in M) \/ (\A i \in N : i \in Nat /\ i + 1 \in M)

LEMMA FewerKeeps ==
  ASSUME HoldInv, late' = late, holding' = holding,
         \A p \in Peer : Fewer(Req(p)', Req(p)) /\ Fewer(Ans(p)', Ans(p)) /\ (Ins(p)' => Ins(p))
  PROVE  HoldInv'
<1>1. ASSUME AtMostOne PROVE AtMostOne'
  <2>1. ASSUME NEW p \in Peer, NEW q \in Peer, NEW i \in Req(p)', NEW j \in Req(q)' PROVE p = q /\ i = j
    BY <1>1, <2>1 DEF AtMostOne, Fewer
  <2>2. ASSUME NEW p \in Peer, NEW q \in Peer, NEW i \in Ans(p)', NEW j \in Ans(q)' PROVE p = q /\ i = j
    BY <1>1, <2>2 DEF AtMostOne, Fewer
  <2>3. \A p \in Peer : (Req(p)' # {} => Req(p) # {}) /\ (Ans(p)' # {} => Ans(p) # {})
    BY DEF Fewer
  <2> QED BY <1>1, <2>1, <2>2, <2>3 DEF AtMostOne
<1>2. ASSUME NoSync PROVE NoSync'
  BY <1>2 DEF NoSync, Fewer
<1> QED BY <1>1, <1>2 DEF HoldInv

LEMMA Shorter ==
  ASSUME NEW S, NEW P, NEW ch \in [P -> Seq(S)], NEW p \in P, ch[p] # <<>>,
         NEW new, new = [ch EXCEPT ![p] = Tail(@)], NEW ty
  PROVE  \A q \in P : Fewer(Marks(new[q], ty), Marks(ch[q], ty))
<1>1. ASSUME NEW q \in P PROVE Fewer(Marks(new[q], ty), Marks(ch[q], ty))
  <2>1. CASE q = p
    <3>1. new[q] = Tail(ch[q]) /\ ch[q] \in Seq(S) /\ ch[q] # <<>>
      BY <2>1
    <3> QED BY <3>1, MarksTail DEF Fewer
  <2>2. CASE q # p
    BY <2>2 DEF Fewer
  <2> QED BY <2>1, <2>2
<1> QED BY <1>1

\* A message of another kind adds nothing.
LEMMA PostedOther ==
  ASSUME Inv, NEW p \in Peer, NEW m, m.ty # "reqBlocks"
  PROVE  \A q \in Peer : Marks(Posted(p, m)[q], "reqBlocks") = Req(q)
<1>1. ASSUME NEW q \in Peer PROVE Marks(Posted(p, m)[q], "reqBlocks") = Req(q)
  <2>1. CASE q = p /\ p \in linked
    <3>1. Posted(p, m)[q] = Append(toPeer[q], m) /\ toPeer[q] \in Seq(AsksAt(HeightOf(head)))
      BY <2>1, ChannelTypes DEF Posted
    <3>2. Marks(Append(toPeer[q], m), "reqBlocks")
            = Marks(toPeer[q], "reqBlocks") \union (IF m.ty = "reqBlocks" THEN {Len(toPeer[q]) + 1} ELSE {})
      BY <3>1, MarksAppend
    <3> QED BY <3>1, <3>2 DEF Req
  <2>2. CASE ~(q = p /\ p \in linked)
    <3>1. Posted(p, m)[q] = toPeer[q]
      BY <2>2 DEF Posted
    <3> QED BY <3>1 DEF Req
  <2> QED BY <2>1, <2>2
<1> QED BY <1>1

\* A sync that begins when there is none.
LEMMA SyncBegins ==
  ASSUME Inv, NEW p \in Peer, NEW s, SyncFrom(p, s), late' = late,
         ~late => /\ \A q \in Peer : Req(q) = {} /\ Ans(q)' = {} /\ ~Ins(q)'
  PROVE  HoldInv'
<1>1. CASE p \in linked
  <2>1. toPeer' = [toPeer EXCEPT ![p] = Append(@, ReqBlocks(s))] /\ holding' = TRUE
    BY <1>1 DEF SyncFrom, Posted
  <2>2. ASSUME ~late, NEW q \in Peer PROVE Req(q)' = IF q = p THEN {Len(toPeer[p]) + 1} ELSE {}
    <3>1. CASE q = p
      <4>1. toPeer'[q] = Append(toPeer[q], ReqBlocks(s)) /\ toPeer[q] \in Seq(AsksAt(HeightOf(head)))
        BY <2>1, <3>1, ChannelTypes
      <4>2. Marks(toPeer'[q], "reqBlocks") = Marks(toPeer[q], "reqBlocks") \union {Len(toPeer[q]) + 1}
        BY <4>1, MarksAppend DEF ReqBlocks
      <4> QED BY <2>2, <3>1, <4>2 DEF Req
    <3>2. CASE q # p
      BY <2>1, <2>2, <3>2 DEF Req
    <3> QED BY <3>1, <3>2
  <2>3. ~late => AtMostOne'
    BY <2>2 DEF AtMostOne
  <2> QED BY <2>1, <2>3 DEF HoldInv
<1>2. CASE p \notin linked
  <2>1. toPeer' = toPeer /\ holding' = TRUE
    BY <1>2 DEF SyncFrom, Posted
  <2>2. ~late => AtMostOne'
    BY <2>1 DEF AtMostOne, Req
  <2> QED BY <2>1, <2>2 DEF HoldInv
<1> QED BY <1>1, <1>2

LEMMA TrySyncHolds ==
  ASSUME Inv, HoldInv, NEW p \in Peer, NEW s, TrySync(p, s), late' = late,
         \A q \in Peer : Fewer(Ans(q)', Ans(q)) /\ (Ins(q)' => Ins(q))
  PROVE  HoldInv'
<1>1. CASE holding
  <2>1. toPeer' = toPeer /\ holding' = holding
    BY <1>1 DEF TrySync
  <2>2. \A q \in Peer : Fewer(Req(q)', Req(q))
    BY <2>1 DEF Req, Fewer
  <2> QED BY <2>1, <2>2, FewerKeeps
<1>2. CASE ~holding
  <2>1. SyncFrom(p, s)
    BY <1>2 DEF TrySync
  <2>2. ~late => \A q \in Peer : Req(q) = {} /\ Ans(q)' = {} /\ ~Ins(q)'
    BY <1>2 DEF HoldInv, NoSync, Fewer
  <2> QED BY <2>1, <2>2, SyncBegins
<1> QED BY <1>1, <1>2

\* Steps that touch no channel and no answer being inserted.
LEMMA AsideHolds ==
  ASSUME HoldInv, UNCHANGED <<toPeer, toMe, batch, holding, late>>
  PROVE  HoldInv'
<1>1. \A q \in Peer : Fewer(Req(q)', Req(q)) /\ Fewer(Ans(q)', Ans(q)) /\ (Ins(q)' => Ins(q))
  BY DEF Req, Ans, Ins, Fewer
<1> QED BY <1>1, FewerKeeps

LEMMA NetHolds ==
  ASSUME Inv, HoldInv, NEW p \in Peer, Connect(p) \/ Disconnect(p) \/ Lose(p)
  PROVE  HoldInv'
<1>1. batch' = batch /\ late' = late /\ holding' = holding
  BY DEF Connect, Disconnect, Lose
<1>2. \A q \in Peer : Ins(q)' => Ins(q)
  BY <1>1 DEF Ins
<1>3. toPeer \in [Peer -> Seq(AsksAt(HeightOf(head)))] /\ toMe \in [Peer -> Seq(TellsAt(HeightOf(head)))]
  BY DEF Inv
<1>4. CASE Connect(p)
  <2>1. Marks(<<ReqStatus>>, "reqBlocks") = {}
    BY DEF Marks, ReqStatus
  <2>2. \A q \in Peer : Req(q)' = {} \/ Req(q)' = Req(q)
    BY <1>3, <1>4, <2>1 DEF Connect, Req
  <2>3. \A q \in Peer : Ans(q)' = Ans(q)
    BY <1>4 DEF Connect, Ans
  <2> QED BY <1>1, <1>2, <2>2, <2>3, FewerKeeps DEF Fewer
<1>5. CASE Disconnect(p)
  <2>1. Marks(<<>>, "reqBlocks") = {} /\ Marks(<<>>, "blocks") = {}
    BY DEF Marks
  <2>2. \A q \in Peer : (Req(q)' = {} \/ Req(q)' = Req(q)) /\ (Ans(q)' = {} \/ Ans(q)' = Ans(q))
    BY <1>3, <1>5, <2>1 DEF Disconnect, Req, Ans
  <2> QED BY <1>1, <1>2, <2>2, FewerKeeps DEF Fewer
<1>6. CASE Lose(p)
  <2>1. \A q \in Peer : Fewer(Req(q)', Req(q)) /\ Fewer(Ans(q)', Ans(q))
    <3>1. CASE toPeer[p] # <<>> /\ toPeer' = [toPeer EXCEPT ![p] = Tail(@)] /\ UNCHANGED toMe
      <4>1. \A q \in Peer : Fewer(Marks(toPeer'[q], "reqBlocks"), Marks(toPeer[q], "reqBlocks"))
        BY <1>3, <3>1, Shorter
      <4> QED BY <3>1, <4>1 DEF Req, Ans, Fewer
    <3>2. CASE toMe[p] # <<>> /\ toMe' = [toMe EXCEPT ![p] = Tail(@)] /\ UNCHANGED toPeer
      <4>1. \A q \in Peer : Fewer(Marks(toMe'[q], "blocks"), Marks(toMe[q], "blocks"))
        BY <1>3, <3>2, Shorter
      <4> QED BY <3>2, <4>1 DEF Req, Ans, Fewer
    <3> QED BY <1>6, <3>1, <3>2 DEF Lose
  <2> QED BY <1>1, <1>2, <2>1, FewerKeeps
<1> QED BY <1>4, <1>5, <1>6

\* An answer is sent instead of the request it answers.
LEMMA SendBlocksHolds == ASSUME Inv, HoldInv, NEW p \in Peer, SendBlocks(p) PROVE HoldInv'
<1>1. Next1(toPeer[p], "reqBlocks") /\ \E m : m.ty = "blocks" /\ Reply(p, m)
  BY DEF SendBlocks
<1>2. PICK m : m.ty = "blocks" /\ Reply(p, m)
  BY <1>1
<1>3. /\ toPeer' = [toPeer EXCEPT ![p] = Tail(@)] /\ toMe' = [toMe EXCEPT ![p] = Append(@, m)]
      /\ batch' = batch /\ holding' = holding /\ late' = late
  BY <1>2 DEF Reply
<1>4. 1 \in Req(p)
  BY <1>1, ChannelTypes, MarksHead DEF Req
<1>5. \A q \in Peer : Fewer(Req(q)', Req(q))
  <2>1. toPeer \in [Peer -> Seq(AsksAt(HeightOf(head)))] /\ toPeer[p] # <<>>
    BY <1>1 DEF Inv, Next1
  <2>2. \A q \in Peer : Fewer(Marks(toPeer'[q], "reqBlocks"), Marks(toPeer[q], "reqBlocks"))
    BY <1>3, <2>1, Shorter
  <2> QED BY <2>2 DEF Req
<1>6. \A q \in Peer : Ans(q)' = Ans(q) \union (IF q = p THEN {Len(toMe[p]) + 1} ELSE {})
  <2> SUFFICES ASSUME NEW q \in Peer PROVE Ans(q)' = Ans(q) \union (IF q = p THEN {Len(toMe[p]) + 1} ELSE {})
    OBVIOUS
  <2>1. CASE q = p
    <3>1. toMe'[q] = Append(toMe[q], m) /\ toMe[q] \in Seq(TellsAt(HeightOf(head)))
      BY <1>3, <2>1, ChannelTypes
    <3>2. Marks(toMe'[q], "blocks") = Marks(toMe[q], "blocks") \union {Len(toMe[q]) + 1}
      BY <1>2, <3>1, MarksAppend
    <3> QED BY <2>1, <3>2 DEF Ans
  <2>2. CASE q # p
    BY <1>3, <2>2 DEF Ans, Inv
  <2> QED BY <2>1, <2>2
<1>7. ASSUME ~late PROVE AtMostOne' /\ holding
  <2>1. AtMostOne /\ holding
    BY <1>4, <1>7 DEF HoldInv, NoSync
  <2>2. \A q \in Peer : Req(q)' = {}
    <3>1. \A q \in Peer : \A i \in Req(q) : q = p /\ i = 1
      BY <1>4, <2>1 DEF AtMostOne
    <3>2. ASSUME NEW q \in Peer, NEW i \in Req(q)' PROVE FALSE
      <4>1. CASE q = p
        <5>1. i \in Nat /\ i + 1 \in Req(p)
          <6>1. toPeer'[p] = Tail(toPeer[p]) /\ toPeer[p] # <<>>
                /\ toPeer[p] \in Seq(AsksAt(HeightOf(head)))
            BY <1>1, <1>3, ChannelTypes DEF Next1
          <6>2. i \in Marks(Tail(toPeer[p]), "reqBlocks")
            BY <3>2, <4>1, <6>1 DEF Req
          <6> QED BY <6>1, <6>2, MarksTail DEF Req
        <5>2. i + 1 = 1
          BY <3>1, <5>1
        <5>3. i \in 1..Len(toPeer'[p])
          BY <3>2, <4>1 DEF Req, Marks
        <5> QED BY <5>1, <5>2, <5>3
      <4>2. CASE q # p
        <5>1. Req(q)' = Req(q)
          BY <1>3, <4>2, ChannelTypes DEF Req
        <5> QED BY <3>1, <3>2, <4>2, <5>1
      <4> QED BY <4>1, <4>2
    <3> QED BY <3>2
  <2>3. \A q \in Peer : Ans(q) = {} /\ ~Ins(q) /\ ~Ins(q)'
    BY <1>3, <1>4, <2>1 DEF AtMostOne, Ins
  <2>4. \A q \in Peer : Ans(q)' = IF q = p THEN {Len(toMe[p]) + 1} ELSE {}
    BY <1>6, <2>3
  <2> QED BY <2>1, <2>2, <2>3, <2>4 DEF AtMostOne
<1> QED BY <1>3, <1>7 DEF HoldInv

\* Other answers.
LEMMA ReplyHolds ==
  ASSUME Inv, HoldInv, NEW p \in Peer, toPeer[p] # <<>>, NEW m, m.ty # "blocks", Reply(p, m)
  PROVE  HoldInv'
<1>1. /\ toPeer' = [toPeer EXCEPT ![p] = Tail(@)] /\ toMe' = [toMe EXCEPT ![p] = Append(@, m)]
      /\ batch' = batch /\ holding' = holding /\ late' = late
  BY DEF Reply
<1>2. \A q \in Peer : Fewer(Req(q)', Req(q))
  <2>1. toPeer \in [Peer -> Seq(AsksAt(HeightOf(head)))]
    BY DEF Inv
  <2>2. \A q \in Peer : Fewer(Marks(toPeer'[q], "reqBlocks"), Marks(toPeer[q], "reqBlocks"))
    BY <1>1, <2>1, Shorter
  <2> QED BY <2>2 DEF Req
<1>3. \A q \in Peer : Ans(q)' = Ans(q)
  <2> SUFFICES ASSUME NEW q \in Peer PROVE Ans(q)' = Ans(q)
    OBVIOUS
  <2>1. CASE q = p
    <3>1. toMe'[q] = Append(toMe[q], m) /\ toMe[q] \in Seq(TellsAt(HeightOf(head)))
      BY <1>1, <2>1, ChannelTypes
    <3>2. Marks(Append(toMe[q], m), "blocks")
            = Marks(toMe[q], "blocks") \union (IF m.ty = "blocks" THEN {Len(toMe[q]) + 1} ELSE {})
      BY <3>1, MarksAppend
    <3> QED BY <3>1, <3>2 DEF Ans
  <2>2. CASE q # p
    BY <1>1, <2>2, ChannelTypes DEF Ans
  <2> QED BY <2>1, <2>2
<1>4. \A q \in Peer : Ins(q)' => Ins(q)
  BY <1>1 DEF Ins
<1> QED BY <1>1, <1>2, <1>3, <1>4, FewerKeeps DEF Fewer

LEMMA SendStatusHolds == ASSUME Inv, HoldInv, NEW p \in Peer, SendStatus(p) PROVE HoldInv'
  BY ReplyHolds DEF SendStatus, Next1

LEMMA SendHashsHolds == ASSUME Inv, HoldInv, NEW p \in Peer, SendHashs(p) PROVE HoldInv'
<1>1. toPeer[p] # <<>>
  BY DEF SendHashs, Next1
<1>2. CASE \E m : m.ty = "hashs" /\ Reply(p, m)
  BY <1>1, <1>2, ReplyHolds
<1>3. CASE toPeer' = [toPeer EXCEPT ![p] = Tail(@)] /\ UNCHANGED <<holding, toMe, batch, late>>
  <2>1. toPeer \in [Peer -> Seq(AsksAt(HeightOf(head)))]
    BY DEF Inv
  <2>2. \A q \in Peer : Fewer(Marks(toPeer'[q], "reqBlocks"), Marks(toPeer[q], "reqBlocks"))
    BY <1>1, <1>3, <2>1, Shorter
  <2>3. \A q \in Peer : Fewer(Req(q)', Req(q)) /\ Fewer(Ans(q)', Ans(q)) /\ (Ins(q)' => Ins(q))
    BY <1>3, <2>2 DEF Req, Ans, Ins, Fewer
  <2> QED BY <1>3, <2>3, FewerKeeps
<1> QED BY <1>2, <1>3 DEF SendHashs

\* What a taken message leaves in its channel.
LEMMA TakenFewer ==
  ASSUME Inv, NEW p \in Peer, toMe[p] # <<>>, Taken(p)
  PROVE  \A q \in Peer : Fewer(Ans(q)', Ans(q))
<1>1. toMe \in [Peer -> Seq(TellsAt(HeightOf(head)))] /\ toMe' = [toMe EXCEPT ![p] = Tail(@)]
  BY DEF Inv, Taken
<1>2. \A q \in Peer : Fewer(Marks(toMe'[q], "blocks"), Marks(toMe[q], "blocks"))
  BY <1>1, Shorter
<1> QED BY <1>2 DEF Ans

LEMMA ReceiveHolds ==
  ASSUME Inv, HoldInv, NEW p \in Peer, ReceiveStatus(p) \/ ReceiveHashs(p)
  PROVE  HoldInv'
<1>1. toMe[p] # <<>> /\ Taken(p) /\ batch' = batch /\ late' = late
  BY DEF ReceiveStatus, ReceiveHashs, Next1
<1>2. \A q \in Peer : Fewer(Ans(q)', Ans(q)) /\ (Ins(q)' => Ins(q))
  BY <1>1, TakenFewer DEF Ins
<1>3. ASSUME NEW s, TrySync(p, s) PROVE HoldInv'
  BY <1>1, <1>2, <1>3, TrySyncHolds
<1>4. ASSUME NEW n, toPeer' = Posted(p, ReqHashs(n, HeightOf(head))), holding' = holding PROVE HoldInv'
  <2>1. \A q \in Peer : Marks(toPeer'[q], "reqBlocks") = Req(q)
    BY <1>4, PostedOther DEF ReqHashs
  <2> QED BY <1>1, <1>2, <1>4, <2>1, FewerKeeps DEF Req, Fewer
<1>5. ASSUME UNCHANGED <<toPeer, holding>> PROVE HoldInv'
  <2>1. \A q \in Peer : Fewer(Req(q)', Req(q))
    BY <1>5 DEF Req, Fewer
  <2> QED BY <1>1, <1>2, <1>5, <2>1, FewerKeeps
<1>6. CASE ReceiveStatus(p)
  BY <1>3, <1>4, <1>5, <1>6 DEF ReceiveStatus
<1>7. CASE ReceiveHashs(p)
  BY <1>3, <1>5, <1>7 DEF ReceiveHashs
<1> QED BY <1>6, <1>7

\* An answer is inserted instead of waiting.
LEMMA ReceiveBlocksHolds == ASSUME Inv, HoldInv, NEW p \in Peer, ReceiveBlocks(p) PROVE HoldInv'
<1>1. /\ Next1(toMe[p], "blocks") /\ toMe[p] # <<>> /\ Taken(p) /\ toPeer' = toPeer /\ holding' = holding /\ late' = late
      /\ batch' = [batch EXCEPT ![p] = Head(toMe[p])]
  BY DEF ReceiveBlocks, Next1
<1>2. 1 \in Ans(p)
  BY <1>1, ChannelTypes, MarksHead DEF Ans
<1>3. ASSUME ~late PROVE AtMostOne' /\ holding
  <2>1. AtMostOne /\ holding
    BY <1>2, <1>3 DEF HoldInv, NoSync
  <2>2. \A q \in Peer : Req(q)' = {} /\ ~Ins(q)
    BY <1>1, <1>2, <2>1 DEF AtMostOne, Req
  <2>3. \A q \in Peer : Ins(q)' => q = p
    BY <1>1, <2>2, ChannelTypes DEF Ins
  <2>4. \A q \in Peer : Ans(q)' = {}
    <3>1. \A q \in Peer : \A i \in Ans(q) : q = p /\ i = 1
      BY <1>2, <2>1 DEF AtMostOne
    <3>2. ASSUME NEW q \in Peer, NEW i \in Ans(q)' PROVE FALSE
      <4>1. CASE q = p
        <5>1. toMe'[p] = Tail(toMe[p]) /\ toMe[p] \in Seq(TellsAt(HeightOf(head)))
          BY <1>1, ChannelTypes DEF Taken
        <5>2. i \in Marks(Tail(toMe[p]), "blocks")
          BY <3>2, <4>1, <5>1 DEF Ans
        <5>3. i \in Nat /\ i + 1 \in Ans(p)
          BY <1>1, <5>1, <5>2, MarksTail DEF Ans
        <5>4. i + 1 = 1
          BY <3>1, <5>3
        <5>5. i \in 1..Len(toMe'[p])
          BY <3>2, <4>1 DEF Ans, Marks
        <5> QED BY <5>3, <5>4, <5>5
      <4>2. CASE q # p
        <5>1. Ans(q)' = Ans(q)
          BY <1>1, <4>2, ChannelTypes DEF Ans, Taken
        <5> QED BY <3>1, <3>2, <4>2, <5>1
      <4> QED BY <4>1, <4>2
    <3> QED BY <3>2
  <2> QED BY <2>1, <2>2, <2>3, <2>4 DEF AtMostOne
<1> QED BY <1>1, <1>3 DEF HoldInv

LEMMA InsertNextHolds == ASSUME Inv, HoldInv, NEW p \in Peer, InsertNext(p) PROVE HoldInv'
<1>1. /\ toPeer' = toPeer /\ toMe' = toMe /\ holding' = holding /\ late' = late
      /\ Ins(p) /\ \A q \in Peer : q # p => batch'[q] = batch[q]
  BY ChannelTypes DEF InsertNext, netVars, Ins
<1>2. \A q \in Peer : Fewer(Req(q)', Req(q)) /\ Fewer(Ans(q)', Ans(q)) /\ (Ins(q)' => Ins(q))
  BY <1>1 DEF Req, Ans, Ins, Fewer
<1> QED BY <1>1, <1>2, FewerKeeps

\* A batch ends, and the sync or its next request with it.
LEMMA EndBatchHolds == ASSUME Inv, HoldInv, NEW p \in Peer, EndBatch(p) PROVE HoldInv'
<1>1. /\ Ins(p) /\ batch' = [batch EXCEPT ![p] = NoBatch] /\ toMe' = toMe /\ late' = late
      /\ DOMAIN batch = Peer
  BY ChannelTypes DEF EndBatch, Ins
<1>2. \A q \in Peer : Fewer(Ans(q)', Ans(q)) /\ (Ins(q)' => Ins(q))
  BY <1>1 DEF Ans, Ins, Fewer
<1>3. CASE UNCHANGED <<toPeer, holding>>
  <2>1. \A q \in Peer : Fewer(Req(q)', Req(q))
    BY <1>3 DEF Req, Fewer
  <2> QED BY <1>1, <1>2, <1>3, <2>1, FewerKeeps
<1>4. ASSUME NEW q \in SwitchPeer(p), SyncFrom(q, batch[p].end + 1) PROVE HoldInv'
  <2>1. q \in Peer
    BY PeerAssumption DEF SwitchPeer
  <2>2. ASSUME ~late PROVE \A r \in Peer : Req(r) = {} /\ Ans(r)' = {} /\ ~Ins(r)'
    <3>1. AtMostOne
      BY <2>2 DEF HoldInv
    <3>2. \A r \in Peer : Req(r) = {} /\ Ans(r) = {} /\ (Ins(r) => r = p)
      BY <1>1, <3>1 DEF AtMostOne
    <3>3. \A r \in Peer : Ans(r)' = {} /\ ~Ins(r)'
      BY <1>1, <3>2 DEF Ans, Ins
    <3> QED BY <3>2, <3>3
  <2> QED BY <1>1, <1>4, <2>1, <2>2, SyncBegins
<1> QED BY <1>3, <1>4 DEF EndBatch

LEMMA HandleNewBlockHolds == ASSUME Inv, HoldInv, HandleNewBlock PROVE HoldInv'
<1>1. toMe' = toMe /\ batch' = batch /\ holding' = holding /\ late' = late
  BY DEF HandleNewBlock
<1>2. \A q \in Peer : Fewer(Ans(q)', Ans(q)) /\ (Ins(q)' => Ins(q))
  BY <1>1 DEF Ans, Ins, Fewer
<1>3. CASE UNCHANGED toPeer
  BY <1>1, <1>3, AsideHolds
<1>4. ASSUME NEW p, p # NoPeer, p = Head(news)[1],
             NEW n, toPeer' = Posted(p, ReqHashs(n, HeightOf(head))) PROVE HoldInv'
  <2>1. CASE p \in Peer
    <3>1. \A q \in Peer : Marks(toPeer'[q], "reqBlocks") = Req(q)
      BY <1>4, <2>1, PostedOther DEF ReqHashs
    <3> QED BY <1>1, <1>2, <3>1, FewerKeeps DEF Req, Fewer
  <2>2. CASE p \notin Peer
    <3>1. toPeer' = toPeer
      BY <1>4, <2>2 DEF Posted, Inv
    <3> QED BY <1>3, <3>1
  <2> QED BY <2>1, <2>2
<1> QED BY <1>3, <1>4 DEF HandleNewBlock

LEMMA StepHolds == ASSUME Inv, HoldInv, [Next]_vars PROVE HoldInv'
<1>1. CASE HoldEnds
  <2>1. UNCHANGED <<toPeer, toMe, batch>> /\ late' = (Syncs # {})
    BY <1>1 DEF HoldEnds, netVars
  <2>2. ASSUME Syncs = {} PROVE NoSync'
    <3>1. NoSync
      BY <2>2, SyncsAre
    <3> QED BY <2>1, <3>1 DEF NoSync, Req, Ans, Ins
  <2>3. NoSync' => AtMostOne'
    BY DEF NoSync, AtMostOne
  <2> QED BY <2>1, <2>2, <2>3 DEF HoldInv
<1>2. ASSUME NEW b \in Block, Submit(b) \/ InsertBlock(b) \/ \E p \in Peer : PeerAdvances(p, b) PROVE HoldInv'
  BY <1>2, AsideHolds DEF Submit, PeerAdvances, InsertBlock, netVars
<1>3. CASE CalmDown
  BY <1>3, AsideHolds DEF CalmDown, netVars
<1>4. ASSUME NEW p \in Peer, Connect(p) \/ Disconnect(p) \/ Lose(p) PROVE HoldInv'
  BY <1>4, NetHolds
<1>5. ASSUME NEW p \in Peer, Answer(p) \/ Receive(p) \/ InsertNext(p) \/ EndBatch(p) PROVE HoldInv'
  BY <1>5, SendStatusHolds, SendHashsHolds, SendBlocksHolds, ReceiveHolds, ReceiveBlocksHolds,
     InsertNextHolds, EndBatchHolds DEF Answer, Receive
<1>6. CASE HandleNewBlock
  BY <1>6, HandleNewBlockHolds
<1>7. CASE UNCHANGED vars
  BY <1>7, AsideHolds DEF vars, netVars
<1> QED BY <1>1, <1>2, <1>3, <1>4, <1>5, <1>6, <1>7 DEF Next, Environment, Work

LEMMA InitHolds == ASSUME Init PROVE HoldInv
<1>1. NoSync
  BY DEF Init, NoSync, Req, Ans, Ins, Marks
<1> QED BY <1>1 DEF NoSync, AtMostOne, HoldInv

-----------------------------------------------------------------------------
(* The theorems.                                                             *)

(* Messages, answers being inserted and all other variables keep their      *)
(* types, whatever is lost and whenever connections break.                   *)
THEOREM SyncTypeCorrect == Spec => []TypeOK
<1>1. Inv /\ [Next]_vars => Inv'
  BY StepKeeps
<1>2. Inv => TypeOK
  <2> SUFFICES ASSUME Inv PROVE TypeOK
    OBVIOUS
  <2> DEFINE h == HeightOf(head)
  <2>1. AsksAt(h) \subseteq Message /\ TellsAt(h) \subseteq Answered /\ BlocksAt(h) \subseteq Answered
    BY DEF AsksAt, TellsAt, Hashs, BlocksAt, Answered
  <2>2. \A p \in Peer : toPeer[p] \in Seq(Message) /\ toMe[p] \in Seq(Answered)
    BY <2>1, SeqWider DEF Inv
  <2>3. batch \in [Peer -> Answered \union {NoBatch}]
    BY <2>1 DEF Inv
  <2> QED BY <2>2, <2>3 DEF Inv, TypeOK
<1> QED BY <1>1, <1>2, InitInv, PTL DEF Spec

(* A sync never leaves a gap: blocks are asked for from at most one above    *)
(* the head on, whatever has come in between the question and its cause.     *)
THEOREM NeverAsksBeyondNext == Spec => []AsksWithoutGap
<1>1. Inv /\ [Next]_vars => Inv'
  BY StepKeeps
<1>2. Inv => AsksWithoutGap
  <2> SUFFICES ASSUME Inv, NEW p \in Peer, NEW i \in 1..Len(toPeer[p]), toPeer[p][i].ty = "reqBlocks"
               PROVE  toPeer[p][i].start <= HeightOf(head) + 1
    BY DEF AsksWithoutGap
  <2>1. toPeer[p] \in Seq(AsksAt(HeightOf(head)))
    BY DEF Inv
  <2>2. toPeer[p][i] \in AsksAt(HeightOf(head))
    BY <2>1
  <2> QED BY <2>2 DEF AsksAt
<1> QED BY <1>1, <1>2, InitInv, PTL DEF Spec

(* receive_hashs never cuts beyond the end of an answer, if one more than    *)
(* the window fits the byte that asks for it. (It is 4 by default.)          *)
THEOREM ComparesWhatWasSent == ASSUME Window < 255 PROVE Spec => []ComparesWithinReply
<1>1. Inv /\ [Next]_vars => Inv'
  BY StepKeeps
<1>2. Inv => ComparesWithinReply
  <2> SUFFICES ASSUME Inv, NEW p \in Peer, toMe[p] # <<>>, Head(toMe[p]).ty = "hashs",
                      NEW m, m = Head(toMe[p]), m.list # <<>>, m.end <= HeightOf(head),
                      NEW h \in Compared(m)
               PROVE  h \in 1..HeightOf(head) /\ Slot(m, h) \in 1..Len(m.list)
    BY DEF ComparesWithinReply, Next1
  <2>1. m \in Hashs
    BY AnswerIs
  <2>2. m.end \in Nat /\ Len(m.list) \in Nat /\ (Len(m.list) >= m.end \/ Len(m.list) > Window)
    BY <2>1 DEF Hashs
  <2> DEFINE num == Lower(Len(m.list), Window)  low == IF m.end <= num THEN 1 ELSE m.end - num
  <2>3. h \in low..m.end
    BY DEF Compared
  <2>4. low \in Nat /\ 1 <= low /\ m.end - low + 1 <= Len(m.list)
    <3>1. Len(m.list) # 0
      BY <2>1 DEF Hashs
    <3> QED BY <2>2, <3>1, BoundAssumption DEF Lower
  <2> HIDE DEF low
  <2>5. h \in Nat /\ 1 <= h /\ h <= m.end /\ m.end - h + 1 <= Len(m.list)
    <3>1. \A e, l, n \in Nat : \A x \in l..e :
            1 <= l /\ e - l + 1 <= n => x \in Nat /\ 1 <= x /\ x <= e /\ e - x + 1 <= n
      OBVIOUS
    <3> QED BY <2>2, <2>3, <2>4, <3>1
  <2>6. h <= HeightOf(head)
    BY <2>2, <2>5, HeightType
  <2> QED BY <2>2, <2>5, <2>6, HeightType DEF Slot
<1> QED BY <1>1, <1>2, InitInv, PTL DEF Spec

(* As long as no sync outlasts the ten-second hold, at most one request,     *)
(* answer or insertion is under way, with any number of peers.               *)
THEOREM OneSyncWithinHold == Spec => []HoldKeepsOneSync
<1>1. Inv /\ HoldInv /\ [Next]_vars => Inv' /\ HoldInv'
  BY StepKeeps, StepHolds
<1>2. Inv /\ HoldInv => HoldKeepsOneSync
  BY SyncsAre DEF HoldInv, HoldKeepsOneSync
<1> QED BY <1>1, <1>2, InitInv, InitHolds, PTL DEF Spec
=============================================================================
