---------------------------- MODULE MiningProofs ----------------------------
(***************************************************************************)
(* What holds of difficulty and of the work for miners for every cycle,    *)
(* window and network.                                                     *)
(*                                                                         *)
(* The theorems rest on what the engine keeps in memory : a tree whose     *)
(* blocks share the chain up to the root of the head, none higher than the *)
(* head (TreeInv).  The cycle's block that a difficulty needs is never     *)
(* above that root, for the window is shorter than a cycle.  That the work *)
(* counts rests on two more: the chains of the tree are as the checks left *)
(* them (SoundInv), and what the node gave out has the difficulty that is  *)
(* still due on the head (OwnInv).                                         *)
(***************************************************************************)
EXTENDS Mining, TLAPS, SequenceTheorems, WellFoundedInduction

IsSeq(b) == \E S : b \in Seq(S)

(* The blocks of the tree.                                                   *)
Rooted(b) == IsSeq(b) /\ Height(b) <= Height(head) /\ IsPrefix(Root(head), b)
TreeInv ==
  /\ head \in tree /\ \A b \in tree : Rooted(b)
  /\ IsSeq(pending) /\ \A i \in DOMAIN pending : IsSeq(pending[i])
  /\ \A b \in inserting \union submitted : IsSeq(b)

(* What a request has read is at most the height of the head, which only     *)
(* climbs, and what is pending when a new block is made is not higher.       *)
RequestInv ==
  /\ asked = [r \in Request |-> asked[r]] /\ making \subseteq Request
  /\ \A r \in Request :
       asked[r] # Idle => asked[r][1] \in Nat /\ asked[r][1] <= Height(head)
  /\ \A r \in making : \A i \in DOMAIN pending : Height(pending[i]) <= Height(head)

OneRequest == \A q, r \in Request : q = r

(* The chain of a block as the checks leave it.  Below twice the cycle every *)
(* checked block has the lowest difficulty, and above, that of the first one *)
(* of its cycle: prepare reads the one, and consensus the block before.      *)
SoundChain(b) ==
  \A k \in 1..Height(b) : k >= Unchecked =>
    b[k].diff = IF k < 2 * Cycle THEN Lowest ELSE b[First(k)].diff
SoundInv == \A b \in tree : SoundChain(b)

(* Work that the node gave out, from the queue to the end of its insertion.  *)
(* As long as the head it was made for stays, it has the difficulty that is  *)
(* due on it, whatever came to the cache and went from it in the meantime.   *)
Next1 == Height(head) + 1
Own(b) ==
  /\ Height(b) > 0 /\ Height(Prev(b)) <= Height(head) /\ Time(b) \in Nat /\ Time(b) <= now
  /\ IF Height(b) % Cycle = 0
     THEN Prev(b) = head => Diff(b) = Target(head)
     ELSE Diff(b) = IF Diff(Prev(b)) = 0 THEN Lowest ELSE Diff(Prev(b))
Held == {pending[i] : i \in DOMAIN pending} \union submitted \union (inserting \ Net)
OwnInv == now \in Nat /\ \A b \in Held : Own(b)

(* OwnWorkCounts of one step.                                                *)
Counts ==
  /\ \A b \in submitted \ submitted' : (Good(b) /\ b \notin knows) => b \in inserting'
  /\ \A b \in inserting \ inserting' : (b \notin Net /\ Good(b)) => b \in tree'

(* The heights that are not checked are whole cycles: 200 of them on the     *)
(* main chain and none on another (consensus.rs).                            *)
WholeCycles == Unchecked % Cycle = 0

(* No adjustment has come down to zero.  No hash is below such a target, and *)
(* the miner takes a difficulty of zero for that of the genesis block.       *)
NoneIsZero == Height(head) > 0 => Diff(head) # 0

(* What defines the powers of two, of which the provers know nothing.        *)
Powers == \A n \in Nat : 2^n \in Nat /\ 2^n > 0 /\ 2^(n + 1) = 2 * 2^n

Block == [time : Nat, diff : Number, no : Nat]
CacheOK(c) == \A k \in DOMAIN c : k > 0 /\ k % Cycle = 0 /\ c[k] \in Entry

-----------------------------------------------------------------------------
(* Sequences.                                                                *)

(* A sequence and its elements.                                              *)
LEMMA SeqIs ==
  ASSUME NEW s, IsSeq(s)
  PROVE  /\ Len(s) \in Nat /\ DOMAIN s = 1..Len(s)
         /\ Len(s) = 0 => s = <<>>
<1>1. PICK S : s \in Seq(S)
  BY DEF IsSeq
<1> QED BY <1>1, LenProperties, EmptySeq

(* Two sequences with the same elements are one.                             *)
LEMMA SameSeq ==
  ASSUME NEW s, IsSeq(s), NEW t, IsSeq(t), Len(s) = Len(t),
         \A k \in 1..Len(s) : s[k] = t[k]
  PROVE  s = t
<1>1. PICK S : s \in Seq(S)
  BY DEF IsSeq
<1>2. PICK T : t \in Seq(T)
  BY DEF IsSeq
<1>3. s \in Seq(S \union T) /\ t \in Seq(S \union T)
  BY <1>1, <1>2, SeqMonotonic
<1> QED BY <1>3, SeqEqual

(* The first n elements.                                                     *)
LEMMA FirstOnes ==
  ASSUME NEW s, IsSeq(s), NEW n \in Int, n <= Len(s)
  PROVE  /\ IsSeq(SubSeq(s, 1, n))
         /\ Len(SubSeq(s, 1, n)) = IF 1 <= n THEN n ELSE 0
         /\ \A k \in 1..n : SubSeq(s, 1, n)[k] = s[k]
<1>1. PICK S : s \in Seq(S)
  BY DEF IsSeq
<1>2. \A i \in 1..n : s[i] \in S
  BY <1>1, SeqIs
<1>3. /\ SubSeq(s, 1, n) \in Seq(S)
      /\ Len(SubSeq(s, 1, n)) = IF 1 <= n THEN n - 1 + 1 ELSE 0
      /\ \A k \in 1..(n - 1 + 1) : SubSeq(s, 1, n)[k] = s[1 + k - 1]
  BY <1>2, SubSeqProperties
<1>4. IsSeq(SubSeq(s, 1, n))
  BY <1>3 DEF IsSeq
<1> QED BY <1>3, <1>4

(* A prefix, element by element.                                             *)
LEMMA PrefixIs ==
  ASSUME NEW s, IsSeq(s), NEW t, IsSeq(t)
  PROVE  IsPrefix(s, t) <=> Len(s) <= Len(t) /\ \A k \in 1..Len(s) : s[k] = t[k]
<1>1. Len(s) \in Nat /\ Len(t) \in Nat
  BY SeqIs
<1>2. SUFFICES ASSUME Len(s) <= Len(t)
               PROVE  SubSeq(s, 1, Len(s)) = SubSeq(t, 1, Len(s))
                        <=> \A k \in 1..Len(s) : s[k] = t[k]
  BY DEF IsPrefix
<1> DEFINE a == SubSeq(s, 1, Len(s))  b == SubSeq(t, 1, Len(s))
<1>3. IsSeq(a) /\ Len(a) = Len(s) /\ \A k \in 1..Len(s) : a[k] = s[k]
  BY <1>1, FirstOnes
<1>4. IsSeq(b) /\ Len(b) = Len(s) /\ \A k \in 1..Len(s) : b[k] = t[k]
  BY <1>1, <1>2, FirstOnes
<1> HIDE DEF a, b
<1>5. a = b <=> \A k \in 1..Len(s) : s[k] = t[k]
  BY <1>3, <1>4, SameSeq
<1> QED BY <1>5 DEF a, b

(* The block before, and the genesis block, which is its own.                *)
LEMMA PrevIs ==
  ASSUME NEW b, IsSeq(b)
  PROVE  /\ IsSeq(Prev(b))
         /\ Height(b) = 0 => Prev(b) = b
         /\ Height(b) > 0 => Height(b) = Height(Prev(b)) + 1
         /\ \A k \in 1..Height(Prev(b)) : Prev(b)[k] = b[k]
<1>1. Len(b) \in Nat /\ (Len(b) = 0 => b = <<>>)
  BY SeqIs
<1>2. Prev(b) = SubSeq(b, 1, Len(b) - 1)
  BY DEF Prev, Front
<1>3. /\ IsSeq(Prev(b)) /\ Len(Prev(b)) = IF 1 <= Len(b) - 1 THEN Len(b) - 1 ELSE 0
      /\ \A k \in 1..(Len(b) - 1) : Prev(b)[k] = b[k]
  BY <1>1, <1>2, FirstOnes
<1>4. Len(b) = 0 => Prev(b) = b
  BY <1>1, <1>3, SameSeq
<1> DEFINE n == Len(b)
<1>5. n \in Nat /\ Len(Prev(b)) = IF 1 <= n - 1 THEN n - 1 ELSE 0
  BY <1>1, <1>3
<1> HIDE DEF n
<1>6. (n > 0 => Len(Prev(b)) = n - 1) /\ (n = 0 => Len(Prev(b)) = 0)
  BY <1>5
<1>7. \A k \in 1..Len(Prev(b)) : Prev(b)[k] = b[k]
  <2>1. \A k \in 1..(n - 1) : Prev(b)[k] = b[k]
    BY <1>3 DEF n
  <2> QED BY <1>5, <1>6, <2>1
<1>8. n > 0 => n = Len(Prev(b)) + 1
  BY <1>5, <1>6
<1> QED BY <1>3, <1>4, <1>7, <1>8 DEF Height, n

(* The block after.                                                          *)
LEMMA AppendIs ==
  ASSUME NEW b, IsSeq(b), NEW e
  PROVE  /\ IsSeq(Append(b, e)) /\ Height(Append(b, e)) = Height(b) + 1
         /\ Prev(Append(b, e)) = b
<1>1. PICK S : b \in Seq(S)
  BY DEF IsSeq
<1> DEFINE c == Append(b, e)
<1>2. b \in Seq(S \union {e})
  BY <1>1, SeqMonotonic
<1>3. c \in Seq(S \union {e}) /\ Len(c) = Len(b) + 1 /\ \A k \in 1..Len(b) : c[k] = b[k]
  BY <1>2
<1>4. IsSeq(c)
  BY <1>3 DEF IsSeq
<1> HIDE DEF c
<1>5. Len(b) \in Nat
  BY SeqIs
<1>6. IsSeq(Prev(c)) /\ Len(Prev(c)) = Len(b) /\ \A k \in 1..Len(b) : Prev(c)[k] = b[k]
  BY <1>3, <1>4, <1>5, PrevIs DEF Height
<1>7. Prev(c) = b
  BY <1>6, SameSeq
<1> QED BY <1>3, <1>4, <1>7 DEF c, Height

(* The root of a block.                                                      *)
LEMMA RootIs ==
  ASSUME NEW b, IsSeq(b)
  PROVE  /\ IsSeq(Root(b))
         /\ Height(Root(b)) = IF Window <= Height(b) THEN Height(b) - Window ELSE 0
         /\ \A k \in 1..Height(Root(b)) : Root(b)[k] = b[k]
<1>1. Len(b) \in Nat /\ Window \in Nat
  BY SeqIs, SizeAssumption
<1>2. /\ IsSeq(Root(b))
      /\ Len(Root(b)) = IF 1 <= Len(b) - Window THEN Len(b) - Window ELSE 0
      /\ \A k \in 1..(Len(b) - Window) : Root(b)[k] = b[k]
  BY <1>1, FirstOnes DEF Root, Height
<1> QED BY <1>1, <1>2 DEF Height

(* A block shares its own root.                                              *)
LEMMA OwnRoot ==
  ASSUME NEW b, IsSeq(b)
  PROVE  IsPrefix(Root(b), b)
<1>1. Len(b) \in Nat /\ Window \in Nat
  BY SeqIs, SizeAssumption
<1> QED BY <1>1, RootIs, PrefixIs DEF Height

-----------------------------------------------------------------------------
(* The tree of the engine.                                                   *)

(* An insertion keeps it.  A block one higher moves the root by at most      *)
(* one, and the others are dropped if they do not share it.                  *)
LEMMA InsertKeeps ==
  ASSUME NEW b, IsSeq(b), Insert(b), head \in tree, \A c \in tree : Rooted(c)
  PROVE  /\ head' \in tree' /\ \A c \in tree' : Rooted(c)'
         /\ head' = head \/ Height(head') > Height(head)
<1>1. IsSeq(head) /\ Height(head) \in Nat /\ Height(b) \in Nat
  BY SeqIs DEF Rooted, Height
<1>2. CASE ~(Fits(b) /\ Agreed(b))
  BY <1>2 DEF Insert, engine, Rooted
<1>3. CASE Fits(b) /\ Agreed(b) /\ Higher(b)
  <2>1. head' = b /\ tree' = From(Root(b), tree \union {b})
    BY <1>3 DEF Insert, Roll
  <2>2. Height(b) > Height(head)
    BY <1>3 DEF Higher
  <2>3. b \in tree'
    BY <2>1, OwnRoot DEF From
  <2>4. \A c \in tree' : IsSeq(c) /\ Height(c) \in Nat /\ Height(c) <= Height(b) /\ IsPrefix(Root(b), c)
    BY <1>1, <2>1, <2>2, SeqIs DEF From, Rooted, Height
  <2> QED BY <2>1, <2>2, <2>3, <2>4 DEF Rooted
<1>4. CASE Fits(b) /\ Agreed(b) /\ ~Higher(b)
  <2>1. head' = head /\ tree' = tree \union {b}
    BY <1>4 DEF Insert, Roll
  <2>2. Height(b) <= Height(head)
    BY <1>1, <1>4 DEF Higher
  <2>3. Prev(b) \in tree /\ b \notin tree
    BY <1>4 DEF Fits
  <2>4. IsSeq(Prev(b)) /\ Height(b) = Height(Prev(b)) + 1
        /\ \A k \in 1..Height(Prev(b)) : Prev(b)[k] = b[k]
    BY <1>1, <2>3, PrevIs
  <2>5. IsPrefix(Root(head), b)
    <3>1. IsSeq(Root(head)) /\ IsPrefix(Root(head), Prev(b))
      BY <1>1, <2>3, RootIs DEF Rooted
    <3>2. Len(Root(head)) \in Nat /\ Len(Prev(b)) \in Nat /\ Len(b) = Len(Prev(b)) + 1
      BY <2>4, <3>1, SeqIs DEF Height
    <3>3. /\ Len(Root(head)) <= Len(Prev(b))
          /\ \A k \in 1..Len(Root(head)) : Root(head)[k] = Prev(b)[k]
      BY <2>4, <3>1, PrefixIs
    <3>4. \A k \in 1..Len(Root(head)) : Prev(b)[k] = b[k]
      BY <2>4, <3>2, <3>3 DEF Height
    <3> QED BY <3>1, <3>2, <3>3, <3>4, PrefixIs
  <2> QED BY <2>1, <2>2, <2>5 DEF Rooted
<1> QED BY <1>2, <1>3, <1>4

(* The newest pending block goes first and the oldest may go.                *)
LEMMA PushedIs ==
  ASSUME NEW b, IsSeq(pending)
  PROVE  /\ IsSeq(Pushed(b)) /\ Len(Pushed(b)) <= Len(pending) + 1
         /\ \A k \in 1..Len(Pushed(b)) :
              Pushed(b)[k] = IF k = 1 THEN b ELSE pending[k - 1]
<1>1. PICK S : pending \in Seq(S)
  BY DEF IsSeq
<1> DEFINE all == <<b>> \o pending
<1>2. <<b>> \in Seq(S \union {b}) /\ pending \in Seq(S \union {b}) /\ Len(pending) \in Nat
  BY <1>1, SeqMonotonic, LenProperties
<1>3. /\ all \in Seq(S \union {b}) /\ Len(all) = Len(pending) + 1
      /\ \A k \in 1..Len(all) : all[k] = IF k = 1 THEN b ELSE pending[k - 1]
  <2>1. Len(<<b>>) = 1 /\ <<b>>[1] = b
    OBVIOUS
  <2>2. /\ all \in Seq(S \union {b}) /\ Len(all) = 1 + Len(pending)
        /\ \A k \in 1..(1 + Len(pending)) :
             all[k] = IF k <= 1 THEN <<b>>[k] ELSE pending[k - 1]
    BY <1>2, <2>1, ConcatProperties
  <2> HIDE DEF all
  <2> QED BY <1>2, <2>1, <2>2
<1>4. IsSeq(all)
  BY <1>3 DEF IsSeq
<1>5. Pushed(b) = all \/ Pushed(b) = SubSeq(all, 1, Len(all) - 1)
  BY DEF Pushed, Front
<1> HIDE DEF all
<1>6. LET r == SubSeq(all, 1, Len(all) - 1) IN
      IsSeq(r) /\ Len(r) = Len(pending) /\ \A k \in 1..Len(pending) : r[k] = all[k]
  BY <1>2, <1>3, <1>4, FirstOnes
<1>7. CASE Pushed(b) = all
  BY <1>2, <1>3, <1>4, <1>7
<1>8. CASE Pushed(b) = SubSeq(all, 1, Len(all) - 1)
  <2> DEFINE r == SubSeq(all, 1, Len(all) - 1)
  <2>1. IsSeq(r) /\ Len(r) = Len(pending) /\ \A k \in 1..Len(pending) : r[k] = all[k]
    BY <1>6
  <2>2. Pushed(b) = r
    BY <1>8
  <2> HIDE DEF r
  <2> QED BY <1>2, <1>3, <2>1, <2>2
<1> QED BY <1>5, <1>7, <1>8

(* A solution takes one out.                                                 *)
LEMMA RemoveIs ==
  ASSUME NEW s, IsSeq(s), NEW i \in 1..Len(s)
  PROVE  /\ IsSeq(RemoveAt(s, i)) /\ Len(RemoveAt(s, i)) = Len(s) - 1
         /\ \A k \in 1..(Len(s) - 1) :
              RemoveAt(s, i)[k] = IF k < i THEN s[k] ELSE s[k + 1]
<1>1. PICK S : s \in Seq(S)
  BY DEF IsSeq
<1> DEFINE a == SubSeq(s, 1, i - 1)  b == SubSeq(s, i + 1, Len(s))
<1>2. Len(s) \in Nat /\ i \in Nat /\ 1 <= i /\ i <= Len(s)
  BY <1>1, LenProperties
<1>3. a \in Seq(S) /\ Len(a) = i - 1 /\ \A k \in 1..(i - 1) : a[k] = s[k]
  BY <1>1, <1>2
<1>4. b \in Seq(S) /\ Len(b) = Len(s) - i /\ \A k \in 1..(Len(s) - i) : b[k] = s[i + k]
  BY <1>1, <1>2
<1>5. RemoveAt(s, i) = a \o b
  BY DEF RemoveAt
<1> HIDE DEF a, b
<1>6. /\ a \o b \in Seq(S) /\ Len(a \o b) = Len(s) - 1
      /\ \A k \in 1..(Len(s) - 1) : (a \o b)[k] = IF k < i THEN s[k] ELSE s[k + 1]
  <2>1. /\ a \o b \in Seq(S) /\ Len(a \o b) = Len(s) - 1
        /\ \A k \in 1..(Len(s) - 1) : (a \o b)[k] = IF k <= i - 1 THEN a[k] ELSE b[k - (i - 1)]
    <3>1. Len(a) + Len(b) = Len(s) - 1
      BY <1>2, <1>3, <1>4
    <3>2. /\ a \o b \in Seq(S) /\ Len(a \o b) = Len(a) + Len(b)
          /\ \A k \in 1..(Len(a) + Len(b)) :
               (a \o b)[k] = IF k <= Len(a) THEN a[k] ELSE b[k - Len(a)]
      BY <1>3, <1>4, ConcatProperties
    <3> QED BY <1>3, <3>1, <3>2
  <2>2. \A k \in 1..(Len(s) - 1) : ~(k < i) => b[k - (i - 1)] = s[k + 1]
    <3> SUFFICES ASSUME NEW k \in 1..(Len(s) - 1), ~(k < i)
                 PROVE  b[k - (i - 1)] = s[k + 1]
      OBVIOUS
    <3>1. k - (i - 1) \in 1..(Len(s) - i) /\ i + (k - (i - 1)) = k + 1
      BY <1>2
    <3> QED BY <1>4, <3>1
  <2>3. \A k \in 1..(Len(s) - 1) : k < i => a[k] = s[k]
    BY <1>2, <1>3
  <2> QED BY <1>2, <2>1, <2>2, <2>3
<1>7. IsSeq(a \o b)
  BY <1>6 DEF IsSeq
<1> QED BY <1>5, <1>6, <1>7

-----------------------------------------------------------------------------
(* The tree, the pending blocks and the solutions, from the start on.        *)

LEMMA InitTree == Init => TreeInv
<1> SUFFICES ASSUME Init PROVE TreeInv
  OBVIOUS
<1>1. IsSeq(Start)
  BY BlockAssumption DEF IsBlock, IsSeq
<1>2. head = Start /\ tree = {b \in {SubSeq(Start, 1, h) : h \in 0..Height(Start)} : IsPrefix(Root(Start), b)}
  BY DEF Init
<1>3. Len(Start) \in Nat /\ Height(Start) = Len(Start)
  BY <1>1, SeqIs DEF Height
<1>4. Start = SubSeq(Start, 1, Len(Start))
  BY <1>1, SubSeqFull DEF IsSeq
<1>5. head \in tree
  BY <1>1, <1>2, <1>3, <1>4, OwnRoot
<1>6. ASSUME NEW b \in tree PROVE Rooted(b)
  <2>1. PICK h \in 0..Len(Start) : b = SubSeq(Start, 1, h)
    BY <1>2, <1>3
  <2>2. IsSeq(b) /\ Len(b) <= Len(Start)
    BY <1>1, <1>3, <2>1, FirstOnes
  <2> QED BY <1>2, <2>2 DEF Rooted, Height
<1>7. IsSeq(pending) /\ \A i \in DOMAIN pending : IsSeq(pending[i])
  <2>1. pending = <<>>
    BY DEF Init
  <2>2. IsSeq(pending)
    BY <2>1, EmptySeq DEF IsSeq
  <2> QED BY <2>1, <2>2
<1>8. inserting = {} /\ submitted = {}
  BY DEF Init
<1> QED BY <1>5, <1>6, <1>7, <1>8 DEF TreeInv

LEMMA StepTree ==
  ASSUME TreeInv, [Next]_vars
  PROVE  TreeInv' /\ (head' = head \/ Height(head') > Height(head))
<1>1. head \in tree /\ (\A b \in tree : Rooted(b)) /\ IsSeq(head)
  BY DEF TreeInv, Rooted
<1>2. IsSeq(pending) /\ DOMAIN pending = 1..Len(pending) /\ Len(pending) \in Nat
  BY SeqIs DEF TreeInv
<1>3. ASSUME NEW b, IsSeq(b), Insert(b), UNCHANGED pending,
             inserting' \subseteq inserting, UNCHANGED submitted
      PROVE  TreeInv' /\ (head' = head \/ Height(head') > Height(head))
  BY <1>1, <1>3, InsertKeeps DEF TreeInv
<1>4. ASSUME NEW b, IsSeq(b), HandleNewBlock(b), UNCHANGED pending, submitted' \subseteq submitted
      PROVE  TreeInv' /\ head' = head
  <2>1. UNCHANGED <<tree, head>> /\ inserting' \subseteq inserting \union {b}
    BY <1>4 DEF HandleNewBlock, engine
  <2> QED BY <1>4, <2>1 DEF TreeInv, Rooted
<1>5. CASE Tick \/ UNCHANGED vars
  BY <1>5 DEF Tick, vars, engine, miner, TreeInv, Rooted
<1>6. CASE \E b \in Net : SyncBlock(b) \/ Announce(b)
  <2>1. PICK b \in Net : SyncBlock(b) \/ Announce(b)
    BY <1>6
  <2>2. IsSeq(b)
    BY BlockAssumption DEF IsBlock, IsSeq
  <2>3. CASE SyncBlock(b)
    BY <1>3, <2>2, <2>3 DEF SyncBlock, miner
  <2>4. CASE Announce(b)
    BY <1>4, <2>2, <2>4 DEF Announce, miner
  <2> QED BY <2>1, <2>3, <2>4
<1>7. CASE \E b \in inserting : InsertBlock(b)
  <2>1. PICK b \in inserting : InsertBlock(b)
    BY <1>7
  <2>2. IsSeq(b)
    BY DEF TreeInv
  <2> QED BY <1>3, <2>1, <2>2 DEF InsertBlock, miner
<1>8. CASE \E b \in submitted : HandleSubmitted(b)
  <2>1. PICK b \in submitted : HandleSubmitted(b)
    BY <1>8
  <2>2. IsSeq(b)
    BY DEF TreeInv
  <2> QED BY <1>4, <2>1, <2>2 DEF HandleSubmitted
<1>9. CASE \E r \in Request : Ask(r) \/ Compare(r)
  BY <1>9 DEF Ask, Compare, engine, TreeInv, Rooted
<1>10. CASE \E r \in Request : Make(r)
  <2>1. pending' = Pushed(Template) /\ UNCHANGED <<tree, head, inserting, submitted>>
    BY <1>10 DEF Make, engine
  <2>2. IsSeq(Template)
    BY <1>1, AppendIs DEF Template
  <2>3. IsSeq(pending') /\ DOMAIN pending' = 1..Len(pending') /\ Len(pending') \in Nat
    BY <1>2, <2>1, PushedIs, SeqIs
  <2>4. ASSUME NEW k \in 1..Len(pending') PROVE IsSeq(pending'[k])
    <3>1. pending'[k] = (IF k = 1 THEN Template ELSE pending[k - 1]) /\ Len(pending') <= Len(pending) + 1
      BY <1>2, <2>1, PushedIs
    <3>2. k # 1 => k - 1 \in DOMAIN pending
      BY <1>2, <2>3, <3>1
    <3> QED BY <2>2, <3>1, <3>2 DEF TreeInv
  <2> QED BY <2>1, <2>3, <2>4 DEF TreeInv, Rooted
<1>11. CASE \E i \in DOMAIN pending : Success(i)
  <2>1. PICK i \in 1..Len(pending) : Success(i)
    BY <1>2, <1>11
  <2>2. /\ pending' = RemoveAt(pending, i) /\ submitted' = submitted \union {pending[i]}
        /\ UNCHANGED <<tree, head, inserting>>
    BY <2>1 DEF Success, engine
  <2>3. IsSeq(pending') /\ DOMAIN pending' = 1..Len(pending') /\ Len(pending') = Len(pending) - 1
    BY <1>2, <2>2, RemoveIs, SeqIs
  <2>4. ASSUME NEW k \in 1..Len(pending') PROVE IsSeq(pending'[k])
    <3>1. pending'[k] = IF k < i THEN pending[k] ELSE pending[k + 1]
      BY <1>2, <2>2, <2>3, RemoveIs
    <3>2. k \in DOMAIN pending /\ k + 1 \in DOMAIN pending
      BY <1>2, <2>3
    <3> QED BY <3>1, <3>2 DEF TreeInv
  <2>5. IsSeq(pending[i])
    BY <1>2 DEF TreeInv
  <2> QED BY <2>2, <2>3, <2>4, <2>5 DEF TreeInv, Rooted
<1> QED BY <1>5, <1>6, <1>7, <1>8, <1>9, <1>10, <1>11 DEF Next

-----------------------------------------------------------------------------
(* Difficulty.                                                               *)

(* The height that begins a cycle is its own beginning.                      *)
LEMMA FirstIs ==
  ASSUME NEW h \in Nat, h % Cycle = 0, h >= Cycle
  PROVE  First(h - Cycle) = h - Cycle
<1>1. Cycle \in Nat /\ Cycle > 0
  BY SizeAssumption
<1>2. \A n \in Nat : /\ n \div Cycle \in Int /\ n % Cycle \in 0..(Cycle - 1)
                     /\ n = Cycle * (n \div Cycle) + (n % Cycle)
  BY <1>1
<1> DEFINE p == h - Cycle  q == h \div Cycle  m == p \div Cycle  t == p % Cycle
<1>3. p \in Nat /\ q \in Int /\ m \in Int /\ t \in 0..(Cycle - 1)
  BY <1>1, <1>2
<1>4. h = Cycle * q /\ p = h - Cycle /\ p = Cycle * m + t
  BY <1>1, <1>2, <1>3
<1> HIDE DEF p, q, m, t
<1> DEFINE d == q - 1 - m
<1>5. d \in Int /\ t = Cycle * d
  BY <1>1, <1>3, <1>4
<1> HIDE DEF d
<1>6. ~(d >= 1)
  <2> SUFFICES ASSUME d >= 1 PROVE Cycle * d >= Cycle
    BY <1>1, <1>3, <1>5
  <2> QED BY <1>1, <1>5
<1>7. ~(d <= 0 - 1)
  <2> SUFFICES ASSUME d <= 0 - 1 PROVE Cycle * d < 0
    BY <1>1, <1>3, <1>5
  <2> QED BY <1>1, <1>5
<1>8. t = 0
  BY <1>1, <1>5, <1>6, <1>7
<1>9. p = m * Cycle
  BY <1>1, <1>3, <1>4, <1>8
<1> QED BY <1>9 DEF First, p, m

(* What a cycle's block is read from is the chain of the head; below the     *)
(* root of the head it is the chain of every block of the tree.              *)
LEMMA RightTarget == TreeInv => OnlyStaleMisleads
<1> SUFFICES ASSUME TreeInv, ~Misled, NEW b \in tree PROVE Target(b) = OwnTarget(b)
  BY DEF OnlyStaleMisleads, DemandsOwnTarget
<1> DEFINE h == Height(b) + 1  g == h - Cycle
<1>1. Cycle \in Nat /\ Window \in Nat /\ Window > 0 /\ Window < Cycle
  BY SizeAssumption
<1>2. IsSeq(b) /\ IsSeq(head) /\ Height(b) <= Height(head) /\ IsPrefix(Root(head), b)
  BY DEF TreeInv, Rooted
<1>3. Height(b) \in Nat /\ Height(head) \in Nat /\ DOMAIN head = 1..Height(head)
  BY <1>2, SeqIs DEF Height
<1>4. CASE h < 2 * Cycle
  BY <1>1, <1>3, <1>4 DEF Target, OwnTarget
<1>5. CASE h >= 2 * Cycle /\ h % Cycle # 0
  BY <1>1, <1>3, <1>5 DEF Target, OwnTarget
<1>6. CASE h >= 2 * Cycle /\ h % Cycle = 0
  <2>1. g \in Nat /\ g >= Cycle /\ g > 0 /\ Window <= Height(head) /\ g <= Height(head) - Window
    BY <1>1, <1>2, <1>3, <1>6
  <2>2. First(g) = g
    BY <1>1, <1>3, <1>6, FirstIs
  <2>3. head[g] = b[g]
    <3>1. /\ IsSeq(Root(head)) /\ Height(Root(head)) = Height(head) - Window
          /\ \A k \in 1..Height(Root(head)) : Root(head)[k] = head[k]
      BY <1>2, <2>1, RootIs
    <3>2. \A k \in 1..Height(Root(head)) : Root(head)[k] = b[k]
      BY <1>2, <3>1, PrefixIs DEF Height
    <3>3. g \in 1..Height(Root(head))
      BY <1>1, <1>3, <2>1, <3>1
    <3> QED BY <3>1, <3>2, <3>3
  <2>4. CycleBlock(g).time = b[g].time
    <3>1. ~(g < Cycle) /\ g \in DOMAIN head
      BY <1>1, <1>3, <2>1
    <3> HIDE DEF g
    <3>2. CASE g \in DOMAIN cache
      BY <2>2, <2>3, <3>1, <3>2 DEF CycleBlock, Misled
    <3>3. CASE g \notin DOMAIN cache
      BY <2>2, <2>3, <3>1, <3>3 DEF CycleBlock
    <3> QED BY <3>2, <3>3
  <2>5. Target(b) = Adjusted(b, CycleBlock(g))
    BY <1>1, <1>3, <1>6 DEF Target
  <2>6. OwnTarget(b) = Adjusted(b, b[g])
    BY <1>1, <1>3, <1>6 DEF OwnTarget
  <2>7. Adjusted(b, CycleBlock(g)) = Adjusted(b, b[g])
    BY <2>4 DEF Adjusted, Span
  <2> QED BY <2>5, <2>6, <2>7
<1> QED BY <1>1, <1>3, <1>4, <1>5, <1>6

-----------------------------------------------------------------------------
(* The work for miners, with one request at a time.                          *)

LEMMA InitRequests == Init => RequestInv /\ PendingOnHead
BY DEF Init, RequestInv, PendingOnHead, Idle

(* While the head stays or climbs and nothing becomes pending, nothing       *)
(* pending is further above it than one.                                     *)
LEMMA HeadMoves ==
  ASSUME TreeInv, TreeInv', RequestInv, PendingOnHead, head' = head \/ Height(head') > Height(head),
         UNCHANGED <<pending, asked, making>>
  PROVE  RequestInv' /\ PendingOnHead'
<1>1. Height(head) \in Nat /\ Height(head') \in Nat
  BY SeqIs DEF TreeInv, Rooted, Height
<1>2. \A i \in DOMAIN pending : Height(pending[i]) \in Nat
  BY SeqIs DEF TreeInv, Height
<1>3. RequestInv'
  BY <1>1, <1>2 DEF RequestInv
<1>4. ASSUME NEW i \in DOMAIN pending, Height(pending[i]) > Height(head')
      PROVE  Prev(pending[i]) = head'
  <2>1. IsSeq(pending[i])
    BY DEF TreeInv
  <2>2. Height(pending[i]) > Height(head)
    BY <1>1, <1>2, <1>4
  <2>3. Prev(pending[i]) = head
    BY <2>2 DEF PendingOnHead
  <2>4. Height(pending[i]) = Height(head) + 1
    BY <1>1, <1>2, <2>1, <2>2, <2>3, PrevIs
  <2>5. head' = head
    BY <1>1, <1>4, <2>4
  <2> QED BY <2>3, <2>5
<1> QED BY <1>3, <1>4 DEF PendingOnHead

LEMMA StepRequests ==
  ASSUME OneRequest, TreeInv, RequestInv, PendingOnHead, [Next]_vars
  PROVE  RequestInv' /\ PendingOnHead'
<1>1. TreeInv' /\ (head' = head \/ Height(head') > Height(head))
  BY StepTree
<1>2. IsSeq(pending) /\ DOMAIN pending = 1..Len(pending) /\ Len(pending) \in Nat
      /\ \A i \in DOMAIN pending : Height(pending[i]) \in Nat
  BY SeqIs DEF TreeInv, Height
<1>3. IsSeq(head) /\ Height(head) \in Nat
  BY SeqIs DEF TreeInv, Rooted, Height
<1>4. CASE UNCHANGED <<pending, asked, making>>
  BY <1>1, <1>4, HeadMoves
<1>5. ASSUME NEW r \in Request, Ask(r) PROVE RequestInv' /\ PendingOnHead'
  <2>1. /\ asked' = [asked EXCEPT ![r] = <<Height(head)>>]
        /\ UNCHANGED <<head, pending, making>>
    BY <1>5 DEF Ask, engine
  <2>2. /\ asked' = [q \in Request |-> asked'[q]]
        /\ \A q \in Request : asked'[q] = IF q = r THEN <<Height(head)>> ELSE asked[q]
    BY <2>1 DEF RequestInv
  <2> QED BY <1>3, <2>1, <2>2 DEF RequestInv, PendingOnHead
<1>6. ASSUME NEW r \in Request, Compare(r) PROVE RequestInv' /\ PendingOnHead'
  <2>1. /\ asked[r] # Idle /\ asked' = [asked EXCEPT ![r] = Idle]
        /\ making' = IF NeedNew(asked[r][1]) THEN making \union {r} ELSE making
        /\ UNCHANGED <<head, pending>>
    BY <1>6 DEF Compare, engine
  <2>2. /\ asked' = [q \in Request |-> asked'[q]]
        /\ \A q \in Request : asked'[q] = IF q = r THEN Idle ELSE asked[q]
    BY <2>1 DEF RequestInv
  <2>3. ASSUME NeedNew(asked[r][1]), NEW i \in DOMAIN pending
        PROVE  Height(pending[i]) <= Height(head)
    <3>1. asked[r][1] \in Nat /\ asked[r][1] <= Height(head)
      BY <2>1 DEF RequestInv
    <3>2. 1 \in DOMAIN pending /\ pending # <<>>
      BY <1>2
    <3>3. Height(pending[1]) <= asked[r][1]
      BY <2>3, <3>2 DEF NeedNew
    <3>4. i = 1 \/ Height(pending[1]) > Height(pending[i])
      BY <1>2, <3>2 DEF PendingOnHead
    <3> QED BY <1>2, <1>3, <3>1, <3>2, <3>3, <3>4
  <2> QED BY <2>1, <2>2, <2>3 DEF RequestInv, PendingOnHead
<1>7. ASSUME NEW r \in Request, Make(r) PROVE RequestInv' /\ PendingOnHead'
  <2>1. /\ r \in making /\ making' = making \ {r} /\ pending' = Pushed(Template)
        /\ UNCHANGED <<head, asked>>
    BY <1>7 DEF Make, engine
  <2>2. making' = {}
    BY <2>1 DEF RequestInv, OneRequest
  <2>3. Height(Template) = Height(head) + 1 /\ Prev(Template) = head
    BY <1>3, AppendIs DEF Template
  <2>4. /\ DOMAIN pending' = 1..Len(pending') /\ Len(pending') \in Nat
        /\ Len(pending') <= Len(pending) + 1
        /\ \A k \in 1..Len(pending') :
             pending'[k] = IF k = 1 THEN Template ELSE pending[k - 1]
    BY <1>2, <2>1, PushedIs, SeqIs
  <2>5. \A k \in 1..Len(pending') : k # 1 =>
          k - 1 \in DOMAIN pending /\ Height(pending[k - 1]) <= Height(head)
    BY <1>2, <2>1, <2>4 DEF RequestInv
  <2>6. ASSUME NEW i \in DOMAIN pending', NEW j \in DOMAIN pending', i < j
        PROVE  Height(pending'[i]) > Height(pending'[j])
    <3>1. j # 1 /\ pending'[j] = pending[j - 1] /\ j - 1 \in DOMAIN pending
          /\ Height(pending[j - 1]) <= Height(head)
      BY <2>4, <2>5, <2>6
    <3>2. CASE i = 1
      BY <1>2, <1>3, <2>3, <2>4, <3>1, <3>2
    <3>3. CASE i # 1
      <4>1. pending'[i] = pending[i - 1] /\ i - 1 \in DOMAIN pending /\ i - 1 < j - 1
        BY <2>4, <2>5, <2>6, <3>3
      <4> QED BY <3>1, <4>1 DEF PendingOnHead
    <3> QED BY <3>2, <3>3
  <2>7. ASSUME NEW i \in DOMAIN pending', Height(pending'[i]) > Height(head)
        PROVE  Prev(pending'[i]) = head
    <3>1. CASE i = 1
      BY <2>3, <2>4, <3>1
    <3>2. CASE i # 1
      BY <1>2, <1>3, <2>4, <2>5, <2>7, <3>2
    <3> QED BY <3>1, <3>2
  <2>8. PendingOnHead'
    BY <2>1, <2>6, <2>7 DEF PendingOnHead
  <2>9. RequestInv'
    BY <2>1, <2>2 DEF RequestInv
  <2> QED BY <2>8, <2>9
<1>8. ASSUME NEW n \in DOMAIN pending, Success(n) PROVE RequestInv' /\ PendingOnHead'
  <2>1. pending' = RemoveAt(pending, n) /\ UNCHANGED <<head, asked, making>>
    BY <1>8 DEF Success, engine
  <2>2. /\ DOMAIN pending' = 1..(Len(pending) - 1)
        /\ \A k \in DOMAIN pending' : pending'[k] = IF k < n THEN pending[k] ELSE pending[k + 1]
    BY <1>2, <2>1, RemoveIs, SeqIs
  <2> DEFINE at(k) == IF k < n THEN k ELSE k + 1
  <2>3. \A k \in DOMAIN pending' : at(k) \in DOMAIN pending /\ pending'[k] = pending[at(k)]
    BY <1>2, <2>2
  <2>4. \A i, j \in DOMAIN pending' : i < j => at(i) < at(j)
    BY <1>2, <2>2
  <2> HIDE DEF at
  <2>5. PendingOnHead'
    BY <2>1, <2>3, <2>4 DEF PendingOnHead
  <2>6. RequestInv'
    BY <2>1, <2>3 DEF RequestInv
  <2> QED BY <2>5, <2>6
<1>9. CASE Tick \/ (\E b \in Net : SyncBlock(b) \/ Announce(b)) \/ (\E b \in inserting : InsertBlock(b))
           \/ (\E b \in submitted : HandleSubmitted(b)) \/ UNCHANGED vars
  <2>1. UNCHANGED <<pending, asked, making>>
    BY <1>9 DEF Tick, SyncBlock, Announce, InsertBlock, HandleSubmitted, vars, miner
  <2> QED BY <1>4, <2>1
<1> QED BY <1>5, <1>6, <1>7, <1>8, <1>9 DEF Next

-----------------------------------------------------------------------------
(* Cycles, and the chains that pass the checks.                              *)

LEMMA FirstBounds ==
  ASSUME NEW h \in Nat
  PROVE  /\ First(h) \in Nat /\ First(h) <= h /\ h < First(h) + Cycle
         /\ First(h) % Cycle = 0 /\ (h % Cycle = 0 <=> First(h) = h)
<1>1. Cycle \in Nat /\ Cycle > 0
  BY SizeAssumption
<1> DEFINE q == h \div Cycle  r == h % Cycle
<1>2. q \in Nat /\ r \in 0..(Cycle - 1) /\ h = Cycle * q + r
  BY <1>1
<1>3. First(h) = q * Cycle
  BY DEF First
<1> HIDE DEF q, r
<1>4. q * Cycle = Cycle * q /\ Cycle * q \in Nat
  BY <1>1, <1>2
<1>5. First(h) \in Nat /\ First(h) <= h /\ h < First(h) + Cycle /\ (r = 0 <=> First(h) = h)
  <2> DEFINE m == Cycle * q
  <2>1. First(h) = m /\ m \in Nat /\ h = m + r
    BY <1>2, <1>3, <1>4
  <2> HIDE DEF m
  <2> QED BY <1>1, <1>2, <2>1
<1>6. First(h) % Cycle = 0
  BY <1>1, <1>2, <1>3
<1> QED BY <1>5, <1>6 DEF r

LEMMA Multiples ==
  ASSUME NEW a \in Nat, a % Cycle = 0, NEW b \in Nat, b % Cycle = 0, a < b
  PROVE  a + Cycle <= b
<1>1. Cycle \in Nat /\ Cycle > 0
  BY SizeAssumption
<1> DEFINE p == a \div Cycle  q == b \div Cycle
<1>2. p \in Nat /\ q \in Nat /\ a = Cycle * p /\ b = Cycle * q
  BY <1>1
<1> HIDE DEF p, q
<1>3. p < q
  <2> SUFFICES ASSUME q <= p PROVE Cycle * q <= Cycle * p
    BY <1>1, <1>2
  <2> QED BY <1>1, <1>2
<1>4. Cycle * (p + 1) <= Cycle * q
  <2>1. p + 1 <= q
    BY <1>2, <1>3
  <2> QED BY <1>1, <1>2, <2>1
<1>5. Cycle * (p + 1) = Cycle * p + Cycle
  BY <1>1, <1>2
<1> QED BY <1>1, <1>2, <1>4, <1>5

LEMMA SameCycle ==
  ASSUME NEW h \in Nat, NEW k \in Nat, k % Cycle = 0, k <= h, h < k + Cycle
  PROVE  First(h) = k
<1>1. First(h) \in Nat /\ First(h) <= h /\ h < First(h) + Cycle /\ First(h) % Cycle = 0
  BY FirstBounds
<1>2. Cycle \in Nat
  BY SizeAssumption
<1>3. ~(First(h) < k)
  <2> SUFFICES ASSUME First(h) < k PROVE First(h) + Cycle <= k
    BY <1>1, <1>2
  <2> QED BY <1>1, Multiples
<1>4. ~(k < First(h))
  <2> SUFFICES ASSUME k < First(h) PROVE k + Cycle <= First(h)
    BY <1>1, <1>2
  <2> QED BY <1>1, Multiples
<1> QED BY <1>1, <1>3, <1>4

LEMMA TipIs ==
  ASSUME NEW b, IsSeq(b)
  PROVE  /\ Height(b) > 0 => Tip(b) = b[Height(b)]
         /\ \A e : Tip(Append(b, e)) = e
<1>1. PICK S : b \in Seq(S)
  BY DEF IsSeq
<1>2. Height(b) > 0 => b # <<>>
  BY <1>1 DEF Height
<1>3. ASSUME NEW e PROVE Tip(Append(b, e)) = e
  <2>1. b \in Seq(S \union {e}) /\ e \in S \union {e}
    BY <1>1, SeqMonotonic
  <2>2. Append(b, e) # <<>> /\ Len(Append(b, e)) = Len(b) + 1 /\ Append(b, e)[Len(b) + 1] = e
    BY <2>1, AppendProperties
  <2> QED BY <2>2 DEF Tip, Last
<1> QED BY <1>2, <1>3 DEF Tip, Last, Height

(* A block that is agreed is sound on a sound chain.                         *)
LEMMA AgreedSound ==
  ASSUME NEW b, IsSeq(b), Prev(b) # b, SoundChain(Prev(b)), Agreed(b), WholeCycles
  PROVE  SoundChain(b)
<1>1. Cycle \in Nat /\ Cycle > 0 /\ Unchecked \in Nat
  BY SizeAssumption
<1> DEFINE a == Prev(b)  h == Height(b)
<1>2. /\ IsSeq(a) /\ h \in Nat /\ h > 0 /\ Height(a) \in Nat /\ h = Height(a) + 1
      /\ \A k \in 1..Height(a) : a[k] = b[k]
  BY PrevIs, SeqIs DEF Height
<1>3. Diff(b) = b[h].diff /\ (Height(a) > 0 => Diff(a) = a[Height(a)].diff)
  BY <1>2, TipIs DEF Diff
<1>4. Agreed(b) <=> h < Unchecked \/ Diff(b) = Target(a)
  BY DEF Agreed
<1>5. Target(a) = IF h < 2 * Cycle THEN Lowest ELSE IF h % Cycle # 0 THEN Diff(a) ELSE Adjusted(a, CycleBlock(h - Cycle))
  BY <1>2 DEF Target
<1>6. SoundChain(a)
  OBVIOUS
<1>7. SoundChain(b) <=> \A k \in 1..h : k >= Unchecked =>
        b[k].diff = IF k < 2 * Cycle THEN Lowest ELSE b[First(k)].diff
  BY DEF SoundChain
<1> HIDE DEF a, h
<1>8. ASSUME NEW k \in 1..h, k >= Unchecked
      PROVE  b[k].diff = IF k < 2 * Cycle THEN Lowest ELSE b[First(k)].diff
  <2>1. k \in Nat /\ First(k) \in Nat /\ First(k) <= k /\ k < First(k) + Cycle
        /\ (k % Cycle = 0 <=> First(k) = k)
    BY FirstBounds, <1>2
  <2>2. k >= 2 * Cycle => First(k) >= 1
    BY <1>1, <2>1
  <2>3. CASE k # h
    <3>1. k \in 1..Height(a)
      BY <1>2, <2>3
    <3>2. a[k].diff = IF k < 2 * Cycle THEN Lowest ELSE a[First(k)].diff
      BY <1>6, <1>8, <3>1 DEF SoundChain
    <3>3. k >= 2 * Cycle => First(k) \in 1..Height(a)
      BY <2>1, <2>2, <3>1, <1>2
    <3>4. a[k] = b[k] /\ (k >= 2 * Cycle => a[First(k)] = b[First(k)])
      BY <1>2, <3>1, <3>3
    <3> QED BY <1>1, <2>1, <3>2, <3>4
  <2>4. CASE k = h
    <3>1. Diff(b) = Target(a)
      BY <1>1, <1>2, <1>4, <1>8, <2>4
    <3>2. CASE h < 2 * Cycle
      BY <1>3, <1>5, <2>4, <3>1, <3>2
    <3>3. CASE h >= 2 * Cycle /\ h % Cycle = 0
      BY <1>1, <1>2, <2>1, <2>4, <3>3
    <3>4. CASE h >= 2 * Cycle /\ h % Cycle # 0
      <4>1. Diff(b) = Diff(a)
        BY <1>1, <1>2, <1>5, <3>1, <3>4
      <4> DEFINE j == Height(a)
      <4>2. First(h) <= j /\ j \in Nat /\ j >= 2 * Cycle /\ j < First(h) + Cycle /\ j = h - 1 /\ j > 0
        <5>1. First(h) # h /\ First(h) <= h /\ First(h) \in Nat /\ h < First(h) + Cycle
          BY <2>1, <2>4, <3>4
        <5>2. h # 2 * Cycle
          <6>1. (2 * Cycle) % Cycle = 0
            BY <1>1
          <6> QED BY <3>4, <6>1
        <5> QED BY <1>1, <1>2, <3>4, <5>1, <5>2
      <4>3. First(h) % Cycle = 0 /\ First(h) \in Nat
        BY <1>2, FirstBounds
      <4>4. First(j) = First(h)
        BY <4>2, <4>3, SameCycle
      <4>5. j >= Unchecked
        <5> SUFFICES ASSUME j < Unchecked PROVE FALSE
          BY <1>1, <4>2
        <5>1. First(h) < Unchecked
          BY <1>1, <4>2, <4>3
        <5>2. First(h) + Cycle <= Unchecked
          BY <1>1, <4>3, <5>1, Multiples DEF WholeCycles
        <5> QED BY <1>1, <1>2, <1>8, <2>1, <2>4, <5>2
      <4>6. a[j].diff = a[First(j)].diff
        <5>1. j \in 1..Height(a) /\ ~(j < 2 * Cycle)
          BY <1>1, <4>2
        <5> HIDE DEF j
        <5> QED BY <1>6, <4>5, <5>1 DEF SoundChain
      <4>7. First(h) \in 1..Height(a)
        BY <1>2, <2>2, <2>4, <3>4, <4>2, <4>3
      <4>8. a[First(h)] = b[First(h)]
        BY <1>2, <4>7
      <4>9. b[h].diff = a[j].diff
        BY <1>2, <1>3, <4>1, <4>2
      <4>10. b[h].diff = b[First(h)].diff
        BY <4>4, <4>6, <4>8, <4>9
      <4> QED BY <1>1, <1>2, <2>4, <3>4, <4>10
    <3> QED BY <1>1, <1>2, <3>2, <3>3, <3>4
  <2> QED BY <2>3, <2>4
<1> QED BY <1>7, <1>8

LEMMA InsertSound ==
  ASSUME NEW b, IsSeq(b), Insert(b), SoundInv, WholeCycles
  PROVE  SoundInv'
<1>1. CASE ~(Fits(b) /\ Agreed(b))
  BY <1>1 DEF Insert, engine, SoundInv
<1>2. CASE Fits(b) /\ Agreed(b)
  <2>1. tree' \subseteq tree \union {b}
    BY <1>2 DEF Insert, Roll, From
  <2>2. b \notin tree /\ Prev(b) \in tree
    BY <1>2 DEF Fits
  <2>3. Prev(b) # b /\ SoundChain(Prev(b))
    BY <2>2 DEF SoundInv
  <2>4. SoundChain(b)
    BY <1>2, <2>3, AgreedSound
  <2> QED BY <2>1, <2>4 DEF SoundInv
<1> QED BY <1>1, <1>2

LEMMA StepSound ==
  ASSUME TreeInv, SoundInv, WholeCycles, [Next]_vars
  PROVE  SoundInv'
<1>1. CASE \E b \in Net : SyncBlock(b)
  BY <1>1, InsertSound, BlockAssumption DEF SyncBlock, IsBlock, IsSeq
<1>2. CASE \E b \in inserting : InsertBlock(b)
  BY <1>2, InsertSound DEF InsertBlock, TreeInv
<1>3. CASE UNCHANGED tree
  BY <1>3 DEF SoundInv
<1>4. ASSUME [Next]_vars PROVE (\E b \in Net : SyncBlock(b)) \/ (\E b \in inserting : InsertBlock(b)) \/ UNCHANGED tree
  BY <1>4 DEF Next, Tick, Announce, HandleSubmitted, HandleNewBlock, Ask, Compare, Make, Success, vars, engine
<1> QED BY <1>1, <1>2, <1>3, <1>4

(* The cycle's block that the next difficulty needs stays what it is while   *)
(* the head stays, whether it comes to the cache, was there, or went with    *)
(* all of it.                                                                *)
LEMMA CachingKeeps ==
  ASSUME TreeInv, head' = head, Next1 % Cycle = 0, Next1 >= 2 * Cycle,
         NEW CONSTANT k, k = Next1 - Cycle,
         NEW CONSTANT h \in Nat, First(h) = k \/ cache' = cache, cache' = cache \/ cache' = Caching(h)
  PROVE  Target(head)' = Target(head)
<1>1. Cycle \in Nat /\ Cycle > 0
  BY SizeAssumption
<1>2. IsSeq(head) /\ Height(head) \in Nat
  BY SeqIs DEF TreeInv, Rooted, Height
<1>3. k \in Nat /\ k >= Cycle /\ First(k) = k /\ ~(k < Cycle)
  <2>1. First(Next1 - Cycle) = Next1 - Cycle
    BY <1>1, <1>2, FirstIs DEF Next1
  <2> QED BY <1>1, <1>2, <2>1 DEF Next1
<1> DEFINE c == CycleBlock(k)
<1>4. Target(head) = Adjusted(head, c)
  <2>1. Target(head) = Adjusted(head, CycleBlock(Next1 - Cycle))
    BY <1>1, <1>2 DEF Target, Next1
  <2>2. k = Next1 - Cycle
    OBVIOUS
  <2> QED BY <2>1, <2>2
<1>5. Target(head)' = Adjusted(head, c')
  <2>1. (Height(head) + 1 - Cycle)' = k
    <3>1. Height(head)' = Height(head)
      BY DEF Height
    <3>2. k = Height(head) + 1 - Cycle
      BY <1>1, <1>2 DEF Next1
    <3> QED BY <3>1, <3>2
  <2>2. Target(head)' = LET h1 == Height(head) + 1 IN
          IF h1 < 2 * Cycle THEN Lowest
          ELSE IF h1 % Cycle # 0 THEN Diff(head) ELSE Adjusted(head, c')
    BY <2>1 DEF Target, Next1
  <2> QED BY <1>1, <1>2, <2>2 DEF Next1
<1> HIDE DEF c
<1>6. c = IF k \in DOMAIN cache THEN cache[k] ELSE [time |-> head[k].time, diff |-> head[k].diff]
  BY <1>3 DEF c, CycleBlock
<1>7. c' = IF k \in DOMAIN cache' THEN cache'[k] ELSE [time |-> head[k].time, diff |-> head[k].diff]
  BY <1>3 DEF c, CycleBlock
<1>8. CASE cache' = cache
  BY <1>4, <1>5, <1>6, <1>7, <1>8
<1>9. CASE First(h) = k /\ cache' = Caching(h)
  <2>1. h >= Cycle /\ ~(h < Cycle) /\ CycleBlock(h) = c
    <3>1. h >= k
      BY <1>9, FirstBounds
    <3> QED BY <1>1, <1>3, <1>9, <3>1 DEF CycleBlock, c
  <2> DEFINE full == [j \in DOMAIN cache \union {k} |-> IF j \in DOMAIN cache THEN cache[j] ELSE CycleBlock(h)]
  <2>2. k \notin DOMAIN cache => k \in DOMAIN full /\ full[k] = c
    BY <2>1
  <2>3. cache' = IF k \in DOMAIN cache THEN cache ELSE IF Cardinality(DOMAIN full) > Cycle THEN <<>> ELSE full
    BY <1>9, <2>1 DEF Caching
  <2> HIDE DEF full
  <2>4. CASE k \in DOMAIN cache
    BY <1>8, <2>3, <2>4
  <2>5. CASE k \notin DOMAIN cache /\ cache' = full
    BY <1>4, <1>5, <1>7, <2>2, <2>5
  <2>6. CASE k \notin DOMAIN cache /\ cache' = <<>>
    <3>1. k \notin DOMAIN cache'
      BY <1>1, <1>3, <2>6
    <3> QED BY <1>4, <1>5, <1>6, <1>7, <2>6, <3>1
  <2> QED BY <2>3, <2>4, <2>5, <2>6
<1> QED BY <1>8, <1>9

(* What a check of an announced block reads.                                 *)
LEMMA PrepareKeeps ==
  ASSUME TreeInv, head' = head, Next1 % Cycle = 0, Next1 >= 2 * Cycle,
         NEW b, IsSeq(b), ~TooLate(b), Height(b) <= Next1, cache' = PrepareCaching(b)
  PROVE  Target(head)' = Target(head)
<1>1. Cycle \in Nat /\ Cycle > 0 /\ Window \in Nat /\ Window < Cycle
  BY SizeAssumption
<1>2. IsSeq(head) /\ Height(head) \in Nat /\ Height(b) \in Nat
  BY SeqIs DEF TreeInv, Rooted, Height
<1>3. CASE Unprepared(b)
  <2>1. cache' = cache
    BY <1>3 DEF PrepareCaching
  <2> QED BY <1>2, <2>1, CachingKeeps
<1>4. CASE ~Unprepared(b)
  <2>1. Height(b) > Cycle /\ Height(b) % Cycle # 0
    BY <1>1, <1>2, <1>4 DEF Unprepared
  <2>2. Height(b) >= Height(head) - Window /\ Height(b) # Next1
    BY <1>1, <1>2, <2>1 DEF TooLate, Next1
  <2> DEFINE k == Next1 - Cycle
  <2>3. k \in Nat /\ First(k) = k
    <3>1. First(Next1 - Cycle) = Next1 - Cycle
      <4>1. Next1 \in Nat /\ Next1 >= Cycle
        BY <1>1, <1>2 DEF Next1
      <4> QED BY <4>1, FirstIs
    <3> QED BY <1>1, <1>2, <3>1 DEF Next1
  <2>4. k % Cycle = 0
    BY <2>3, FirstBounds
  <2>5. k <= Height(b) /\ Height(b) < k + Cycle
    BY <1>1, <1>2, <2>1, <2>2 DEF Next1
  <2> HIDE DEF k
  <2>6. First(Height(b)) = k
    BY <1>2, <2>3, <2>4, <2>5, SameCycle
  <2>7. cache' = Caching(Height(b))
    BY <1>4 DEF PrepareCaching
  <2> QED BY <1>2, <2>6, <2>7, CachingKeeps DEF k
<1> QED BY <1>3, <1>4

(* What the consensus on a block of the tree reads.                          *)
LEMMA ConsensusKeeps ==
  ASSUME TreeInv, head' = head, Next1 % Cycle = 0, Next1 >= 2 * Cycle,
         NEW a \in tree, cache' = cache \/ cache' = TargetCaching(a)
  PROVE  Target(head)' = Target(head)
<1>1. Cycle \in Nat /\ Cycle > 0 /\ Window \in Nat /\ Window < Cycle
  BY SizeAssumption
<1>2. IsSeq(head) /\ Height(head) \in Nat /\ IsSeq(a) /\ Height(a) \in Nat /\ Height(a) <= Height(head)
  BY SeqIs DEF TreeInv, Rooted, Height
<1> DEFINE h == Height(a) + 1  k == Next1 - Cycle
<1>3. CASE cache' = cache
  BY <1>2, <1>3, CachingKeeps
<1>4. CASE cache' # cache
  <2>1. h >= 2 * Cycle /\ h % Cycle = 0 /\ cache' = Caching(h - Cycle)
    <3>1. cache' = TargetCaching(a)
      BY <1>4
    <3>2. TargetCaching(a) = IF h >= 2 * Cycle /\ h % Cycle = 0 THEN Caching(h - Cycle) ELSE cache
      BY <1>1, <1>2 DEF TargetCaching
    <3> HIDE DEF h
    <3> QED BY <1>4, <3>1, <3>2
  <2>2. Height(a) >= Height(head) - Window
    <3>1. IsSeq(Root(head)) /\ IsPrefix(Root(head), a)
      BY <1>2, RootIs DEF TreeInv, Rooted
    <3>2. Height(Root(head)) <= Height(a)
      BY <1>2, <3>1, PrefixIs DEF Height
    <3> QED BY <1>1, <1>2, <3>2, RootIs
  <2>3. ~(h < Next1)
    <3> SUFFICES ASSUME h < Next1 PROVE FALSE
      OBVIOUS
    <3>1. h \in Nat /\ Next1 \in Nat
      BY <1>2 DEF Next1
    <3>2. h + Cycle <= Next1
      BY <2>1, <3>1, Multiples
    <3> QED BY <1>1, <1>2, <2>2, <3>2 DEF Next1
  <2>4. h = Next1
    BY <1>2, <2>3 DEF Next1
  <2>5. k \in Nat /\ First(k) = k /\ cache' = Caching(k)
    <3>1. First(Next1 - Cycle) = Next1 - Cycle
      <4>1. Next1 \in Nat /\ Next1 >= Cycle
        BY <1>1, <1>2 DEF Next1
      <4> QED BY <4>1, FirstIs
    <3> QED BY <1>1, <1>2, <2>1, <2>4, <3>1 DEF Next1
  <2> HIDE DEF k
  <2> QED BY <2>5, CachingKeeps DEF k
<1> QED BY <1>3, <1>4

(* So the difficulty due on the head changes in no step that keeps it.       *)
LEMMA TargetKeeps ==
  ASSUME TreeInv, [Next]_vars, head' = head, Next1 % Cycle = 0
  PROVE  Target(head)' = Target(head)
<1>1. IsSeq(head) /\ Height(head) \in Nat /\ head \in tree
  BY SeqIs DEF TreeInv, Rooted, Height
<1>2. CASE Next1 < 2 * Cycle
  <2>1. Target(head) = Lowest
    BY <1>2 DEF Target, Next1
  <2>2. Height(head)' = Height(head)
    BY DEF Height
  <2>3. Target(head)' = Lowest
    BY <1>2, <2>2 DEF Target, Next1
  <2> QED BY <2>1, <2>3
<1>3. CASE Next1 >= 2 * Cycle
  <2>1. ASSUME NEW a \in tree, cache' = cache \/ cache' = TargetCaching(a)
        PROVE  Target(head)' = Target(head)
    BY <1>3, <2>1, ConsensusKeeps
  <2>2. ASSUME NEW b, Insert(b) PROVE Target(head)' = Target(head)
    <3>1. CASE cache' = cache
      BY <1>1, <2>1, <3>1
    <3>2. CASE cache' # cache
      <4>1. Prev(b) \in tree /\ cache' = TargetCaching(Prev(b))
        BY <2>2, <3>2 DEF Insert, Fits, ConsensusCaching
      <4> QED BY <2>1, <4>1
    <3> QED BY <3>1, <3>2
  <2>3. ASSUME NEW b, IsSeq(b), HandleNewBlock(b) PROVE Target(head)' = Target(head)
    <3>1. CASE cache' = cache
      BY <1>1, <2>1, <3>1
    <3>2. CASE cache' # cache
      <4>1. ~TooLate(b) /\ ~(Height(b) > Height(head) + 1) /\ cache' = PrepareCaching(b)
        BY <2>3, <3>2 DEF HandleNewBlock
      <4>2. Height(b) <= Next1
        BY <1>1, <2>3, <4>1, SeqIs DEF Next1, Height
      <4> QED BY <1>3, <2>3, <4>1, <4>2, PrepareKeeps
    <3> QED BY <3>1, <3>2
  <2>4. CASE \E b \in Net : SyncBlock(b) \/ Announce(b)
    <3>1. PICK b \in Net : SyncBlock(b) \/ Announce(b)
      BY <2>4
    <3>2. IsSeq(b)
      BY BlockAssumption DEF IsBlock, IsSeq
    <3> QED BY <2>2, <2>3, <3>1, <3>2 DEF SyncBlock, Announce
  <2>5. CASE \E b \in inserting : InsertBlock(b)
    BY <2>2, <2>5 DEF InsertBlock
  <2>6. CASE \E b \in submitted : HandleSubmitted(b)
    BY <2>3, <2>6 DEF HandleSubmitted, TreeInv
  <2>7. CASE \E r \in Request : Make(r)
    <3>1. cache' = cache \/ cache' = TargetCaching(head)
      BY <2>7 DEF Make
    <3> QED BY <1>1, <2>1, <3>1
  <2>8. CASE Tick \/ (\E r \in Request : Ask(r) \/ Compare(r)) \/ (\E i \in DOMAIN pending : Success(i)) \/ UNCHANGED vars
    <3>1. cache' = cache
      BY <2>8 DEF Tick, Ask, Compare, Success, vars
    <3> QED BY <1>1, <2>1, <3>1
  <2> QED BY <2>4, <2>5, <2>6, <2>7, <2>8 DEF Next
<1>4. Cycle \in Nat /\ Next1 \in Nat
  BY <1>1, SizeAssumption DEF Next1
<1> QED BY <1>2, <1>3, <1>4

(* A block of the node's own stays what it is.                               *)
LEMMA OwnStays ==
  ASSUME TreeInv, [Next]_vars, NEW b, IsSeq(b), Own(b), now \in Nat
  PROVE  Own(b)'
<1>1. head' = head \/ Height(head') > Height(head)
  BY StepTree
<1>2. TreeInv'
  BY StepTree
<1>3. IsSeq(head) /\ Height(head) \in Nat /\ IsSeq(head') /\ Height(head') \in Nat
  BY <1>2, SeqIs DEF TreeInv, Rooted, Height
<1>4. now' \in Nat /\ now <= now'
  <2>1. now' = now \/ now' = now + 1
    BY DEF Next, Tick, SyncBlock, Announce, InsertBlock, HandleSubmitted, HandleNewBlock,
           Ask, Compare, Make, Success, vars
  <2> QED BY <2>1
<1>5. /\ Height(b) > 0 /\ Height(Prev(b)) <= Height(head) /\ Time(b) \in Nat /\ Time(b) <= now
      /\ IF Height(b) % Cycle = 0
         THEN Prev(b) = head => Diff(b) = Target(head)
         ELSE Diff(b) = IF Diff(Prev(b)) = 0 THEN Lowest ELSE Diff(Prev(b))
  BY DEF Own
<1>6. Height(b) = Height(Prev(b)) + 1 /\ Height(Prev(b)) \in Nat
  <2>1. IsSeq(Prev(b)) /\ Height(b) = Height(Prev(b)) + 1
    BY <1>5, PrevIs
  <2> QED BY <2>1, SeqIs DEF Height
<1>7. ASSUME Height(b) % Cycle = 0, Prev(b) = head' PROVE Diff(b) = Target(head)'
  <2>1. head' = head
    BY <1>1, <1>3, <1>5, <1>6, <1>7
  <2>2. Next1 % Cycle = 0
    BY <1>6, <1>7, <2>1 DEF Next1
  <2> QED BY <1>5, <1>7, <2>1, <2>2, TargetKeeps
<1>8. Height(Prev(b)) <= Height(head') /\ Time(b) <= now'
  BY <1>1, <1>3, <1>4, <1>5, <1>6
<1> QED BY <1>5, <1>7, <1>8 DEF Own

(* And the one that a request makes is such a block.                         *)
LEMMA TemplateOwn ==
  ASSUME TreeInv, [Next]_vars, NEW r \in Request, Make(r), now \in Nat
  PROVE  Own(Template) /\ IsSeq(Template)
<1>1. IsSeq(head) /\ Height(head) \in Nat
  BY SeqIs DEF TreeInv, Rooted, Height
<1>2. /\ IsSeq(Template) /\ Height(Template) = Height(head) + 1 /\ Prev(Template) = head
  BY <1>1, AppendIs DEF Template
<1>3. Tip(Template) = [time |-> now, no |-> solved,
                       diff |-> IF Changes THEN Target(head)
                                ELSE IF Diff(head) = 0 THEN Lowest ELSE Diff(head)]
  BY <1>1, TipIs DEF Template
<1>4. /\ Time(Template) = now
      /\ Diff(Template) = IF Changes THEN Target(head)
                          ELSE IF Diff(head) = 0 THEN Lowest ELSE Diff(head)
  BY <1>3 DEF Time, Diff
<1> QED BY <1>1, <1>2, <1>4 DEF Own, Changes

LEMMA StepOwn ==
  ASSUME TreeInv, OwnInv, [Next]_vars
  PROVE  OwnInv'
<1>1. now \in Nat /\ now' \in Nat
  BY DEF OwnInv, Next, Tick, SyncBlock, Announce, InsertBlock, HandleSubmitted, HandleNewBlock,
         Ask, Compare, Make, Success, vars
<1>2. IsSeq(pending) /\ DOMAIN pending = 1..Len(pending) /\ Len(pending) \in Nat
  BY SeqIs DEF TreeInv
<1>3. ASSUME NEW b \in Held PROVE IsSeq(b) /\ Own(b)
  BY <1>3 DEF TreeInv, OwnInv, Held
<1>4. ASSUME NEW b \in Held' PROVE b \in Held \/ \E r \in Request : Make(r) /\ b = Template
  <2>1. CASE Tick \/ (\E c \in Net : SyncBlock(c) \/ Announce(c)) \/ (\E c \in inserting : InsertBlock(c))
             \/ (\E r \in Request : Ask(r) \/ Compare(r)) \/ UNCHANGED vars
    <3>1. UNCHANGED <<pending, submitted>> /\ inserting' \subseteq inserting \union Net
      BY <2>1 DEF Tick, SyncBlock, Announce, InsertBlock, HandleNewBlock, Ask, Compare, vars, miner
    <3> QED BY <1>4, <3>1 DEF Held
  <2>2. CASE \E c \in submitted : HandleSubmitted(c)
    <3>1. PICK c \in submitted : HandleSubmitted(c)
      BY <2>2
    <3>2. pending' = pending /\ submitted' \subseteq submitted /\ inserting' \subseteq inserting \union {c}
      BY <3>1 DEF HandleSubmitted, HandleNewBlock
    <3> QED BY <1>4, <3>1, <3>2 DEF Held
  <2>3. CASE \E r \in Request : Make(r)
    <3>1. PICK r \in Request : Make(r)
      BY <2>3
    <3>2. pending' = Pushed(Template) /\ UNCHANGED <<submitted, inserting>>
      BY <3>1 DEF Make
    <3>3. /\ DOMAIN pending' = 1..Len(pending') /\ Len(pending') \in Nat
          /\ Len(pending') <= Len(pending) + 1
          /\ \A k \in 1..Len(pending') : pending'[k] = IF k = 1 THEN Template ELSE pending[k - 1]
      BY <1>2, <3>2, PushedIs, SeqIs
    <3>4. \A k \in DOMAIN pending' : pending'[k] = Template \/ \E i \in DOMAIN pending : pending'[k] = pending[i]
      <4> SUFFICES ASSUME NEW k \in DOMAIN pending', k # 1
                   PROVE  \E i \in DOMAIN pending : pending'[k] = pending[i]
        BY <3>3
      <4>1. k - 1 \in DOMAIN pending /\ pending'[k] = pending[k - 1]
        BY <1>2, <3>3
      <4> QED BY <4>1
    <3> QED BY <1>4, <3>1, <3>2, <3>4 DEF Held
  <2>4. CASE \E i \in DOMAIN pending : Success(i)
    <3>1. PICK i \in DOMAIN pending : Success(i)
      BY <2>4
    <3>2. pending' = RemoveAt(pending, i) /\ submitted' = submitted \union {pending[i]} /\ inserting' = inserting
      BY <3>1 DEF Success
    <3>3. /\ DOMAIN pending' = 1..(Len(pending) - 1)
          /\ \A k \in DOMAIN pending' : pending'[k] = IF k < i THEN pending[k] ELSE pending[k + 1]
      BY <1>2, <3>2, RemoveIs, SeqIs
    <3>4. \A k \in DOMAIN pending' : \E j \in DOMAIN pending : pending'[k] = pending[j]
      <4> SUFFICES ASSUME NEW k \in DOMAIN pending' PROVE \E j \in DOMAIN pending : pending'[k] = pending[j]
        OBVIOUS
      <4>1. k \in DOMAIN pending /\ k + 1 \in DOMAIN pending
        BY <1>2, <3>3
      <4> QED BY <3>3, <4>1
    <3> QED BY <1>4, <3>1, <3>2, <3>4 DEF Held
  <2> QED BY <2>1, <2>2, <2>3, <2>4 DEF Next
<1>5. ASSUME NEW b \in Held' PROVE Own(b)'
  <2>1. CASE b \in Held
    <3>1. IsSeq(b) /\ Own(b)
      BY <1>3, <2>1
    <3> QED BY <1>1, <3>1, OwnStays
  <2>2. CASE b \notin Held
    <3>1. PICK r \in Request : Make(r) /\ b = Template
      BY <1>4, <2>2
    <3>2. IsSeq(b) /\ Own(b)
      BY <1>1, <3>1, TemplateOwn
    <3> QED BY <1>1, <3>2, OwnStays
  <2> QED BY <2>1, <2>2
<1>6. \A b \in Held' : Own(b)'
  BY <1>5
<1> QED BY <1>1, <1>6 DEF OwnInv

(* A block of the node's own on the head passes both checks.                 *)
LEMMA OwnAgreed ==
  ASSUME TreeInv, SoundInv, WholeCycles, NoneIsZero, NEW b, IsSeq(b), Own(b), Prev(b) = head
  PROVE  Agreed(b) /\ (~Misled => Prepared(b))
<1>1. Cycle \in Nat /\ Cycle > 0 /\ Unchecked \in Nat
  BY SizeAssumption
<1>2. IsSeq(head) /\ Height(head) \in Nat /\ DOMAIN head = 1..Height(head) /\ head \in tree
  BY SeqIs DEF TreeInv, Rooted, Height
<1> DEFINE n == Height(head)  h == Height(b)
<1>3. h = n + 1 /\ h \in Nat
  BY <1>2, PrevIs DEF Own
<1>4. CASE h < Unchecked
  BY <1>4 DEF Agreed, Prepared, Unprepared
<1>5. CASE h % Cycle = 0
  <2>1. Diff(b) = Target(head)
    BY <1>5 DEF Own
  <2> QED BY <1>5, <2>1 DEF Agreed, Prepared, Unprepared
<1>6. CASE h >= Unchecked /\ h % Cycle # 0
  <2>1. Diff(b) = IF Diff(head) = 0 THEN Lowest ELSE Diff(head)
    BY <1>6 DEF Own
  <2>2. First(h) \in Nat /\ First(h) <= n /\ h < First(h) + Cycle /\ First(h) % Cycle = 0
    <3>1. First(h) \in Nat /\ First(h) <= h /\ h < First(h) + Cycle /\ First(h) # h /\ First(h) % Cycle = 0
      BY <1>3, <1>6, FirstBounds
    <3> QED BY <1>2, <1>3, <3>1
  <2>3. First(h) >= Unchecked
    <3> SUFFICES ASSUME First(h) < Unchecked PROVE FALSE
      BY <1>1, <2>2
    <3>1. First(h) + Cycle <= Unchecked
      BY <1>1, <2>2, Multiples DEF WholeCycles
    <3> QED BY <1>1, <1>3, <1>6, <2>2, <3>1
  <2>4. \A k \in 1..n : k >= Unchecked => head[k].diff = IF k < 2 * Cycle THEN Lowest ELSE head[First(k)].diff
    BY <1>2 DEF SoundInv, SoundChain
  <2>5. First(n) = First(h)
    <3>1. n < First(h) + Cycle
      BY <1>1, <1>2, <1>3, <2>2
    <3> QED BY <1>2, <2>2, <3>1, SameCycle
  <2>6. n > 0 => Diff(b) = head[n].diff /\ n \in 1..n /\ n >= Unchecked
    <3>1. n > 0 => Diff(head) = head[n].diff /\ Diff(head) # 0
      BY <1>2, TipIs DEF Diff, NoneIsZero
    <3> QED BY <1>1, <1>2, <2>1, <2>2, <2>3, <3>1
  <2>7. n = 0 => Diff(b) = Lowest
    <3>1. n = 0 => head = <<>>
      BY <1>2, SeqIs DEF Height
    <3>2. n = 0 => Diff(head) = 0
      BY <3>1 DEF Diff, Tip, Genesis
    <3> QED BY <2>1, <3>2
  <2>8. h < 2 * Cycle => Diff(b) = Lowest
    BY <1>1, <1>2, <1>3, <2>4, <2>6, <2>7
  <2>9. Target(head) = Diff(b)
    <3>1. Target(head) = IF h < 2 * Cycle THEN Lowest ELSE IF h % Cycle # 0 THEN Diff(head) ELSE Adjusted(head, CycleBlock(h - Cycle))
      BY <1>2, <1>3 DEF Target
    <3>2. ~(h < 2 * Cycle) => n > 0
      BY <1>1, <1>2, <1>3
    <3>3. n > 0 => Diff(head) # 0
      BY DEF NoneIsZero
    <3> HIDE DEF n, h
    <3> QED BY <1>6, <2>1, <2>8, <3>1, <3>2, <3>3
  <2>10. ASSUME h > Cycle PROVE First(h) \in 1..n /\ First(h) >= Cycle /\ Diff(b) = head[First(h)].diff
    <3>1. First(h) >= Cycle
      <4> SUFFICES ASSUME First(h) < Cycle PROVE FALSE
        BY <1>1, <2>2
      <4>1. Cycle % Cycle = 0
        BY <1>1
      <4>2. First(h) + Cycle <= Cycle
        BY <1>1, <2>2, <4>1, Multiples
      <4> QED BY <1>1, <1>3, <2>2, <2>10, <4>2
    <3>2. First(h) \in 1..n
      BY <1>1, <1>2, <2>2, <3>1
    <3>3. CASE h < 2 * Cycle
      <4>1. First(h) < 2 * Cycle
        BY <1>1, <1>2, <1>3, <2>2, <3>3
      <4>2. head[First(h)].diff = Lowest
        BY <2>3, <2>4, <3>2, <4>1
      <4> QED BY <2>8, <3>1, <3>2, <3>3, <4>2
    <3>4. CASE h >= 2 * Cycle
      <4>1. n \in 1..n /\ n >= Unchecked /\ Diff(b) = head[n].diff
        BY <1>1, <1>2, <1>3, <2>6, <3>4
      <4>2. n >= 2 * Cycle
        <5>1. h # 2 * Cycle
          <6>1. (2 * Cycle) % Cycle = 0
            BY <1>1
          <6> QED BY <1>6, <6>1
        <5> QED BY <1>1, <1>2, <1>3, <3>4, <5>1
      <4>3. head[n].diff = head[First(n)].diff
        <5>1. ~(n < 2 * Cycle)
          BY <1>1, <1>2, <4>2
        <5> HIDE DEF n
        <5> QED BY <2>4, <4>1, <5>1
      <4> QED BY <2>5, <3>1, <3>2, <4>1, <4>3
    <3> QED BY <1>1, <1>3, <3>3, <3>4
  <2>11. ASSUME h > Cycle, ~Misled PROVE Diff(b) = CycleBlock(h).diff
    <3> DEFINE f == First(h)
    <3>1. f \in DOMAIN head /\ Diff(b) = head[f].diff
      BY <1>2, <2>10, <2>11
    <3>2. CycleBlock(h) = IF f \in DOMAIN cache THEN cache[f] ELSE [time |-> head[f].time, diff |-> head[f].diff]
      BY <1>1, <1>3, <2>11 DEF CycleBlock
    <3>3. f \in DOMAIN cache => cache[f].diff = head[f].diff
      BY <2>11, <3>1 DEF Misled
    <3> HIDE DEF f, h
    <3> QED BY <3>1, <3>2, <3>3
  <2> QED BY <1>1, <1>3, <2>9, <2>11 DEF Agreed, Prepared, Unprepared
<1> QED BY <1>1, <1>3, <1>4, <1>5, <1>6

(* So neither its hand-over nor its insertion fails.                         *)
LEMMA StepCounts ==
  ASSUME TreeInv, SoundInv, OwnInv, WholeCycles, NoneIsZero, [Next]_vars
  PROVE  Counts
<1>1. head \in tree /\ IsSeq(head) /\ Height(head) \in Nat /\ Window \in Nat /\ Window > 0
  BY SeqIs, SizeAssumption DEF TreeInv, Rooted, Height
<1>2. ASSUME NEW b \in submitted \union (inserting \ Net)
      PROVE  IsSeq(b) /\ Own(b) /\ (Good(b) => Agreed(b) /\ Prepared(b))
  <2>1. IsSeq(b) /\ Own(b)
    BY DEF TreeInv, OwnInv, Held
  <2> QED BY <2>1, OwnAgreed DEF Good
<1>3. ASSUME NEW b \in submitted \ submitted', Good(b), b \notin knows PROVE b \in inserting'
  <2>1. PICK c \in submitted : HandleSubmitted(c)
    BY <1>3 DEF Next, Tick, SyncBlock, Announce, InsertBlock, Ask, Compare, Make, Success, vars, miner
  <2>2. c = b
    BY <1>3, <2>1 DEF HandleSubmitted
  <2>3. HandleNewBlock(b)
    BY <2>1, <2>2 DEF HandleSubmitted
  <2>4. Height(b) = Height(head) + 1
    BY <1>2, <1>3, PrevIs DEF Good, Own
  <2>5. ~TooLate(b) /\ ~(Height(b) > Height(head) + 1)
    BY <1>1, <2>4 DEF TooLate
  <2>6. Prepared(b)
    BY <1>2, <1>3
  <2> QED BY <1>3, <2>3, <2>5, <2>6 DEF HandleNewBlock
<1>4. ASSUME NEW b \in inserting \ inserting', b \notin Net, Good(b) PROVE b \in tree'
  <2>1. PICK c \in inserting : InsertBlock(c)
    BY <1>4 DEF Next, Tick, SyncBlock, Announce, HandleSubmitted, HandleNewBlock, Ask, Compare, Make, Success, vars, miner
  <2>2. c = b
    BY <1>4, <2>1 DEF InsertBlock
  <2>3. Insert(b)
    BY <2>1, <2>2 DEF InsertBlock
  <2>4. IsSeq(b) /\ Own(b) /\ Agreed(b)
    BY <1>2, <1>4
  <2>5. CASE b \in tree
    BY <2>3, <2>5 DEF Insert, Fits, engine
  <2>6. CASE b \notin tree
    <3>1. Prev(b) = head /\ Time(head) < Time(b) /\ Time(b) <= now
      BY <1>4, <2>4 DEF Good, Own
    <3>2. Fits(b)
      BY <1>1, <2>6, <3>1 DEF Fits
    <3>3. Roll(b)
      BY <2>3, <2>4, <3>2 DEF Insert
    <3> QED BY <2>4, <3>3, OwnRoot DEF Roll, From
  <2> QED BY <2>5, <2>6
<1> QED BY <1>3, <1>4 DEF Counts

LEMMA InitOwn == ASSUME SoundChain(Start) PROVE Init => SoundInv /\ OwnInv
<1> SUFFICES ASSUME Init PROVE SoundInv /\ OwnInv
  OBVIOUS
<1>1. OwnInv
  BY ClockAssumption DEF Init, OwnInv, Held
<1>2. IsSeq(Start) /\ Len(Start) \in Nat
  BY BlockAssumption, SeqIs DEF IsBlock, IsSeq
<1>3. ASSUME NEW b \in tree PROVE SoundChain(b)
  <2>1. PICK h \in 0..Len(Start) : b = SubSeq(Start, 1, h)
    BY DEF Init, Height
  <2>2. Len(b) = h /\ \A k \in 1..h : b[k] = Start[k]
    BY <1>2, <2>1, FirstOnes
  <2>3. ASSUME NEW k \in 1..h, k >= Unchecked
        PROVE  b[k].diff = IF k < 2 * Cycle THEN Lowest ELSE b[First(k)].diff
    <3>1. Cycle \in Nat /\ Cycle > 0 /\ k \in Nat /\ First(k) \in Nat /\ First(k) <= k /\ k < First(k) + Cycle
      <4>1. k \in Nat
        BY <1>2
      <4>2. First(k) \in Nat /\ First(k) <= k /\ k < First(k) + Cycle
        BY <4>1, FirstBounds
      <4>3. Cycle \in Nat /\ Cycle > 0
        BY SizeAssumption
      <4> QED BY <4>1, <4>2, <4>3
    <3>2. Start[k].diff = IF k < 2 * Cycle THEN Lowest ELSE Start[First(k)].diff
      BY <1>2, <2>3 DEF SoundChain, Height
    <3>3. k >= 2 * Cycle => First(k) \in 1..h
      BY <1>2, <3>1
    <3>4. k >= 2 * Cycle => b[First(k)] = Start[First(k)]
      BY <2>2, <3>3
    <3> QED BY <2>2, <3>1, <3>2, <3>4
  <2> QED BY <2>2, <2>3 DEF SoundChain, Height
<1> QED BY <1>1, <1>3 DEF SoundInv

-----------------------------------------------------------------------------
(* Types: a difficulty fits the bits of a target.                            *)

(* A set of naturals that is not empty has a least element.                  *)
LEMMA LeastNat ==
  ASSUME NEW T \in SUBSET Nat, T # {}
  PROVE  \E x \in T : \A y \in T : x <= y
<1>1. PICK x \in T : \A y \in T : ~ (<<y, x>> \in OpToRel(<, Nat))
  BY NatLessThanWellFounded, WFMin
<1>2. \A y \in T : ~(y < x)
  BY <1>1 DEF OpToRel
<1>3. \A y \in T : x <= y
  BY <1>2
<1> QED BY <1>3

LEMMA PowerSum ==
  ASSUME Powers, NEW m \in Nat, NEW n \in Nat
  PROVE  2^(m + n) = 2^m * 2^n
<1> DEFINE T == {i \in Nat : 2^(m + i) # 2^m * 2^i}
<1>1. SUFFICES ASSUME T # {} PROVE FALSE
  OBVIOUS
<1>2. PICK i \in T : \A y \in T : i <= y
  BY <1>1, LeastNat
<1>3. i # 0
  <2> SUFFICES ASSUME i = 0 PROVE 2^(m + i) = 2^m * 2^i
    BY <1>2
  <2>1. 2^0 = 1 /\ m + 0 = m
    OBVIOUS
  <2>2. 2^(m + i) = 2^m /\ 2^i = 1
    BY <2>1
  <2> DEFINE a == 2^m
  <2>3. a \in Nat /\ a * 1 = a
    BY DEF Powers
  <2> QED BY <2>2, <2>3
<1>4. i - 1 \in Nat /\ i - 1 \notin T /\ i = (i - 1) + 1
  BY <1>2, <1>3
<1> DEFINE j == i - 1
<1>5. j \in Nat /\ 2^(m + j) = 2^m * 2^j
  BY <1>4
<1>6. i = j + 1 /\ m + i = (m + j) + 1 /\ m + j \in Nat
  BY <1>4
<1> HIDE DEF j
<1>7. 2^i = 2 * 2^j /\ 2^(m + i) = 2 * 2^(m + j)
  BY <1>5, <1>6 DEF Powers
<1>8. 2^m \in Nat /\ 2^j \in Nat
  BY <1>5 DEF Powers
<1> DEFINE a == 2^m  b == 2^j  c == 2^(m + j)  d == 2^i  e == 2^(m + i)
<1>9. a \in Nat /\ b \in Nat /\ c = a * b /\ d = 2 * b /\ e = 2 * c
  BY <1>5, <1>7, <1>8
<1>10. e # a * d
  BY <1>2
<1> HIDE DEF a, b, c, d, e
<1>11. a * (2 * b) = 2 * (a * b)
  BY <1>9
<1> QED BY <1>9, <1>10, <1>11

LEMMA NumberIs ==
  ASSUME Powers
  PROVE  /\ Lowest \in Number /\ 0 \in Number /\ Number \subseteq Nat
         /\ \A x \in Nat : Rounded(x) \in Number
<1>1. Width \in Nat /\ Digits \in Nat /\ 1 <= Digits /\ Digits <= Width
  BY SizeAssumption
<1> DEFINE w == 2^Width  d == 2^Digits  r == 2^(Width - Digits)
<1>2. Width - Digits \in Nat /\ Digits + (Width - Digits) = Width
  BY <1>1
<1>3. w \in Nat /\ d \in Nat /\ r \in Nat /\ w > 0 /\ d > 0 /\ r > 0
  BY <1>1, <1>2 DEF Powers
<1>4. w = d * r
  <2>1. 2^(Digits + (Width - Digits)) = d * r
    BY <1>1, <1>2, PowerSum
  <2> QED BY <1>2, <2>1
<1>5. d >= 2
  <2> DEFINE n == Digits - 1
  <2>1. n \in Nat /\ Digits = n + 1
    BY <1>1
  <2> HIDE DEF n
  <2>2. 2^n \in Nat /\ 2^n > 0 /\ 2^(n + 1) = 2 * 2^n
    BY <2>1 DEF Powers
  <2> QED BY <2>1, <2>2
<1>6. Number = 0..(w - 1)
  BY DEF Number
<1>7. Lowest = (d - 2) * r /\ Greatest = (d - 1) * r
  BY DEF Lowest, Greatest
<1> HIDE DEF w, d, r
<1>8. Lowest \in Number /\ Greatest \in Number
  <2>1. (d - 2) * r = d * r - 2 * r /\ (d - 1) * r = d * r - r
    BY <1>3
  <2>2. (d - 2) * r >= 0 /\ (d - 1) * r >= 0
    BY <1>3, <1>5
  <2> QED BY <1>3, <1>4, <1>6, <1>7, <2>1, <2>2
<1>9. 0 \in Number /\ Number \subseteq Nat
  BY <1>3, <1>6
<1>10. ASSUME NEW x \in Nat PROVE Rounded(x) \in Number
  <2> DEFINE P(n) == x < 2^(Digits + n) /\ (n > 0 => x >= 2^(Digits + n - 1))
             cut == CHOOSE n \in 0..Width : P(n)
  <2>1. Rounded(x) = IF x >= w THEN Greatest ELSE (x \div 2^cut) * 2^cut
    BY DEF Rounded, w
  <2>2. CASE x >= w
    BY <1>8, <2>1, <2>2
  <2>3. CASE x < w
    <3> DEFINE T == {n \in Nat : x < 2^(Digits + n)}
    <3>1. Width - Digits \in T
      BY <1>2, <2>3 DEF w
    <3>2. PICK n \in T : \A y \in T : n <= y
      <4> HIDE DEF T
      <4>1. T \in SUBSET Nat /\ T # {}
        BY <3>1 DEF T
      <4> QED BY <4>1, LeastNat
    <3>3. n \in 0..Width
      <4>1. n \in Nat /\ n <= Width - Digits
        BY <3>1, <3>2
      <4> QED BY <1>1, <4>1
    <3>4. n > 0 => x >= 2^(Digits + n - 1)
      <4> SUFFICES ASSUME n > 0 PROVE x >= 2^(Digits + n - 1)
        OBVIOUS
      <4> DEFINE m == n - 1
      <4>1. m \in Nat /\ m \notin T /\ Digits + m = Digits + n - 1
        BY <1>1, <3>2
      <4>2. Digits + m \in Nat
        BY <1>1, <4>1
      <4>3. ~(x < 2^(Digits + m)) /\ 2^(Digits + m) \in Nat
        BY <4>1, <4>2 DEF Powers
      <4> HIDE DEF m
      <4> QED BY <4>1, <4>3
    <3>5. P(n)
      BY <3>2, <3>4
    <3> HIDE DEF P
    <3>6. cut \in 0..Width
      BY <3>3, <3>5
    <3> HIDE DEF cut
    <3>7. cut \in Nat
      BY <1>1, <3>6
    <3> DEFINE p == 2^cut
    <3>8. p \in Nat /\ p > 0
      BY <3>7 DEF Powers
    <3>9. Rounded(x) = (x \div p) * p
      BY <1>3, <2>1, <2>3
    <3> HIDE DEF p
    <3>10. (x \div p) * p \in Nat /\ (x \div p) * p <= x
      <4> DEFINE q == x \div p
      <4>1. q \in Nat /\ x = p * q + (x % p) /\ x % p \in Nat
        BY <3>8
      <4> HIDE DEF q
      <4>2. q * p = p * q /\ q * p \in Nat
        BY <3>8, <4>1
      <4> QED BY <4>1, <4>2 DEF q
    <3> QED BY <1>3, <1>6, <2>3, <3>9, <3>10
  <2> QED BY <1>3, <2>2, <2>3
<1> QED BY <1>8, <1>9, <1>10

LEMMA BlockIs ==
  ASSUME Powers, NEW b, IsBlock(b)
  PROVE  /\ IsSeq(b) /\ Height(b) \in Nat /\ Time(b) \in Nat /\ Diff(b) \in Number
         /\ \A k \in 1..Height(b) : b[k] \in Block
<1>1. b \in Seq(Block)
  BY DEF IsBlock, Block
<1>2. IsSeq(b) /\ Height(b) \in Nat
  BY <1>1, SeqIs DEF IsSeq, Height
<1>3. \A k \in 1..Height(b) : b[k] \in Block
  BY <1>1 DEF Height
<1>4. Tip(b) = Genesis \/ Tip(b) \in Block
  <2>1. CASE Height(b) > 0
    BY <1>2, <1>3, <2>1, TipIs
  <2>2. CASE ~(Height(b) > 0)
    <3>1. b = <<>>
      BY <1>2, <2>2, SeqIs DEF Height
    <3> QED BY <3>1 DEF Tip
  <2> QED BY <2>1, <2>2
<1>5. Tip(b).time \in Nat /\ Tip(b).diff \in Number
  BY <1>4, NumberIs DEF Genesis, Block
<1> QED BY <1>2, <1>3, <1>5 DEF Time, Diff

(* The cycle's block of a height whose cycle the head has reached.           *)
LEMMA CycleBlockIs ==
  ASSUME Powers, IsBlock(head), CacheOK(cache),
         NEW h \in Nat, h >= Cycle => First(h) <= Height(head)
  PROVE  CycleBlock(h) \in Entry /\ CacheOK(Caching(h))
<1>1. Cycle \in Nat /\ Cycle > 0 /\ 0 \in Number
  BY SizeAssumption, NumberIs
<1>2. First(h) \in Nat /\ First(h) <= h /\ h < First(h) + Cycle /\ First(h) % Cycle = 0
  BY FirstBounds
<1>3. CASE h < Cycle
  BY <1>1, <1>3 DEF CycleBlock, Caching, Genesis, Entry
<1>4. CASE h >= Cycle
  <2> DEFINE f == First(h)
  <2>1. f > 0
    BY <1>1, <1>2, <1>4
  <2>2. f \in 1..Height(head)
    BY <1>2, <1>4, <2>1, BlockIs
  <2>3. ~(h < Cycle)
    BY <1>1, <1>4
  <2>4. CycleBlock(h) = IF f \in DOMAIN cache THEN cache[f] ELSE [time |-> head[f].time, diff |-> head[f].diff]
    BY <2>3 DEF CycleBlock
  <2>5. head[f] \in Block
    BY <2>2, BlockIs
  <2>6. f % Cycle = 0
    BY <1>2
  <2> DEFINE full == [k \in DOMAIN cache \union {f} |-> IF k \in DOMAIN cache THEN cache[k] ELSE CycleBlock(h)]
  <2>7. Caching(h) = IF f \in DOMAIN cache THEN cache ELSE IF Cardinality(DOMAIN full) > Cycle THEN <<>> ELSE full
    BY <2>3 DEF Caching
  <2> HIDE DEF f
  <2>8. CycleBlock(h) \in Entry
    BY <2>4, <2>5 DEF CacheOK, Block, Entry
  <2>9. CacheOK(full)
    BY <2>1, <2>6, <2>8 DEF CacheOK
  <2> HIDE DEF full
  <2>10. CacheOK(<<>>)
    BY DEF CacheOK
  <2> QED BY <2>7, <2>8, <2>9, <2>10
<1> QED BY <1>1, <1>3, <1>4

LEMMA AdjustedIs ==
  ASSUME Powers, NEW b, IsBlock(b), NEW c \in Entry
  PROVE  Adjusted(b, c) \in Number
<1>1. Cycle \in Nat /\ Cycle > 0 /\ BlockTime \in Nat /\ BlockTime > 0
  BY SizeAssumption
<1>2. Shares \in Nat /\ Shares > 0
  BY <1>1 DEF Shares
<1>3. Height(b) \in Nat /\ Time(b) \in Nat /\ Diff(b) \in Nat /\ c.time \in Nat
  BY BlockIs, NumberIs DEF Entry
<1>4. Span(b, c) \in Int
  BY <1>1, <1>3 DEF Span
<1>5. Shares \div 4 \in Nat /\ Shares * 4 \in Nat
  BY <1>2
<1> DEFINE w == Within(Span(b, c), Shares \div 4, Shares * 4)
<1>6. w \in Nat
  BY <1>4, <1>5 DEF Within
<1> HIDE DEF w
<1> DEFINE p == Diff(b) * w
<1>7. p \in Nat
  BY <1>3, <1>6
<1> HIDE DEF p
<1>8. p \div Shares \in Nat
  BY <1>2, <1>7
<1> QED BY <1>8, NumberIs DEF Adjusted, p, w

(* The difficulty due on a block of the tree, and the cache after.           *)
LEMMA TargetIs ==
  ASSUME Powers, IsBlock(head), CacheOK(cache), NEW b, IsBlock(b), Height(b) <= Height(head)
  PROVE  Target(b) \in Number /\ CacheOK(TargetCaching(b))
<1>1. Cycle \in Nat /\ Cycle > 0 /\ Lowest \in Number
  BY SizeAssumption, NumberIs
<1>2. Height(b) \in Nat /\ Diff(b) \in Number /\ Height(head) \in Nat
  BY BlockIs
<1> DEFINE h == Height(b) + 1
<1>3. CASE h >= 2 * Cycle /\ h % Cycle = 0
  <2>1. h - Cycle \in Nat /\ h - Cycle <= Height(head)
    BY <1>1, <1>2, <1>3
  <2>2. First(h - Cycle) <= h - Cycle /\ First(h - Cycle) \in Nat
    BY <2>1, FirstBounds
  <2>3. First(h - Cycle) <= Height(head)
    BY <1>2, <2>1, <2>2
  <2>4. CycleBlock(h - Cycle) \in Entry /\ CacheOK(Caching(h - Cycle))
    BY <2>1, <2>3, CycleBlockIs
  <2>5. Adjusted(b, CycleBlock(h - Cycle)) \in Number
    BY <2>4, AdjustedIs
  <2>6. Target(b) = Adjusted(b, CycleBlock(h - Cycle)) /\ TargetCaching(b) = Caching(h - Cycle)
    BY <1>1, <1>2, <1>3 DEF Target, TargetCaching
  <2> QED BY <2>4, <2>5, <2>6
<1>4. CASE ~(h >= 2 * Cycle /\ h % Cycle = 0)
  BY <1>1, <1>2, <1>4 DEF Target, TargetCaching
<1> QED BY <1>3, <1>4

LEMMA TemplateIs ==
  ASSUME Powers, IsBlock(head), CacheOK(cache), now \in Nat, solved \in Nat
  PROVE  IsBlock(Template)
<1>1. Target(head) \in Number /\ Diff(head) \in Number /\ Lowest \in Number
  <2>1. Height(head) <= Height(head)
    BY BlockIs
  <2> QED BY <2>1, TargetIs, BlockIs, NumberIs
<1>2. [time |-> now, no |-> solved,
       diff |-> IF Changes THEN Target(head) ELSE IF Diff(head) = 0 THEN Lowest ELSE Diff(head)]
        \in [time : Nat, diff : Number, no : Nat]
  BY <1>1
<1> QED BY <1>2 DEF Template, IsBlock

(* What an insertion and an announcement leave.                              *)
LEMMA InsertType ==
  ASSUME Powers, TreeInv, TypeOK, NEW b, IsBlock(b), Insert(b)
  PROVE  CacheOK(cache') /\ \A c \in tree' : IsBlock(c)
<1>1. IsBlock(head) /\ CacheOK(cache)
  BY DEF TypeOK, CacheOK
<1>2. CacheOK(cache')
  <2>1. CASE cache' = cache
    BY <1>1, <2>1
  <2>2. CASE cache' # cache
    <3>1. cache' = TargetCaching(Prev(b)) /\ Prev(b) \in tree
      BY <2>2 DEF Insert, Fits, ConsensusCaching
    <3>2. IsBlock(Prev(b)) /\ Height(Prev(b)) <= Height(head)
      BY <3>1 DEF TypeOK, TreeInv, Rooted
    <3> QED BY <1>1, <3>1, <3>2, TargetIs
  <2> QED BY <2>1, <2>2
<1>3. tree' \subseteq tree \union {b}
  BY DEF Insert, Roll, From, engine
<1> QED BY <1>2, <1>3 DEF TypeOK

LEMMA HandleType ==
  ASSUME Powers, TreeInv, TypeOK, NEW b, IsBlock(b), HandleNewBlock(b)
  PROVE  CacheOK(cache') /\ knows' = knows \union {b} /\ inserting' \subseteq inserting \union {b}
<1>1. IsBlock(head) /\ CacheOK(cache) /\ Height(head) \in Nat /\ Height(b) \in Nat
  BY BlockIs DEF TypeOK, CacheOK
<1>2. CacheOK(cache')
  <2>1. CASE cache' = cache
    BY <1>1, <2>1
  <2>2. CASE cache' # cache
    <3>1. Height(b) <= Height(head) + 1 /\ cache' = Caching(Height(b)) /\ Height(b) % Cycle # 0
      BY <1>1, <2>2 DEF HandleNewBlock, PrepareCaching, Unprepared
    <3>2. First(Height(b)) \in Nat /\ First(Height(b)) <= Height(b) /\ First(Height(b)) # Height(b)
      BY <1>1, <3>1, FirstBounds
    <3>3. First(Height(b)) <= Height(head)
      BY <1>1, <3>1, <3>2
    <3> QED BY <1>1, <3>1, <3>3, CycleBlockIs
  <2> QED BY <2>1, <2>2
<1> QED BY <1>2 DEF HandleNewBlock

LEMMA InitType == Init => TypeOK
<1> SUFFICES ASSUME Init PROVE TypeOK
  OBVIOUS
<1>1. IsBlock(Start) /\ IsSeq(Start) /\ Len(Start) \in Nat
  BY BlockAssumption, SeqIs DEF IsBlock, IsSeq
<1>2. ASSUME NEW b \in tree PROVE IsBlock(b)
  <2>1. PICK h \in 0..Len(Start) : b = SubSeq(Start, 1, h)
    BY DEF Init, Height
  <2>2. Start \in Seq([time : Nat, diff : Number, no : Nat])
    BY <1>1 DEF IsBlock
  <2>3. \A k \in 1..h : Start[k] \in [time : Nat, diff : Number, no : Nat]
    <3> SUFFICES ASSUME NEW k \in 1..h PROVE Start[k] \in [time : Nat, diff : Number, no : Nat]
      OBVIOUS
    <3>1. k \in 1..Len(Start)
      BY <1>1
    <3> DEFINE S == [time : Nat, diff : Number, no : Nat]
    <3>2. Start \in Seq(S)
      BY <2>2
    <3> HIDE DEF S
    <3>3. Start[k] \in S
      BY <3>1, <3>2, ElementOfSeq
    <3> QED BY <3>3 DEF S
  <2> QED BY <2>1, <2>3, SubSeqProperties DEF IsBlock
<1>3. head \in tree
  BY InitTree DEF TreeInv
<1>4. asked \in [Request -> Seq(Nat)]
  BY DEF Init, Idle
<1>5. pending = <<>> /\ cache = <<>>
  BY DEF Init
<1>6. Len(pending) <= Room /\ \A i \in DOMAIN pending : IsBlock(pending[i])
  BY <1>5 DEF Room
<1>7. \A k \in DOMAIN cache : k > 0 /\ k % Cycle = 0 /\ cache[k] \in Entry
  BY <1>5
<1>8. now \in Nat /\ making \subseteq Request /\ solved \in 0..MaxOwn
      /\ knows = {} /\ inserting = {} /\ submitted = {}
  BY ClockAssumption DEF Init
<1> QED BY <1>2, <1>3, <1>4, <1>6, <1>7, <1>8 DEF TypeOK

LEMMA StepType ==
  ASSUME Powers, TreeInv, TypeOK, [Next]_vars
  PROVE  TypeOK'
<1>1. IsBlock(head) /\ CacheOK(cache) /\ now \in Nat /\ solved \in 0..MaxOwn /\ MaxOwn \in Nat
  BY ClockAssumption DEF TypeOK, CacheOK
<1>2. /\ \A b \in tree \union knows \union inserting \union submitted : IsBlock(b)
      /\ Len(pending) <= Room /\ \A i \in DOMAIN pending : IsBlock(pending[i])
      /\ asked \in [Request -> Seq(Nat)] /\ making \subseteq Request
  BY DEF TypeOK
<1>3. head' \in tree'
  BY StepTree DEF TreeInv
<1>4. IsSeq(pending) /\ DOMAIN pending = 1..Len(pending) /\ Len(pending) \in Nat
  BY SeqIs DEF TreeInv
<1>5. TypeOK' <=>
        /\ now' \in Nat /\ \A b \in tree' \union knows' \union inserting' \union submitted' : IsBlock(b)
        /\ head' \in tree' /\ CacheOK(cache')
        /\ Len(pending') <= Room /\ \A i \in DOMAIN pending' : IsBlock(pending'[i])
        /\ asked' \in [Request -> Seq(Nat)] /\ making' \subseteq Request
        /\ solved' \in 0..MaxOwn
  BY DEF TypeOK, CacheOK
<1>6. ASSUME NEW b, IsBlock(b), Insert(b), inserting' \subseteq inserting, UNCHANGED <<now, knows, miner>>
      PROVE  TypeOK'
  <2>1. CacheOK(cache') /\ \A c \in tree' : IsBlock(c)
    BY <1>6, InsertType
  <2> QED BY <1>1, <1>2, <1>3, <1>5, <1>6, <2>1 DEF miner
<1>7. ASSUME NEW b, IsBlock(b), HandleNewBlock(b), submitted' \subseteq submitted,
             UNCHANGED <<pending, asked, making, solved>>
      PROVE  TypeOK'
  <2>1. CacheOK(cache') /\ knows' = knows \union {b} /\ inserting' \subseteq inserting \union {b}
    BY <1>7, HandleType
  <2>2. now' = now /\ tree' = tree
    BY <1>7 DEF HandleNewBlock, engine
  <2> QED BY <1>1, <1>2, <1>3, <1>5, <1>7, <2>1, <2>2
<1>8. CASE Tick
  BY <1>1, <1>2, <1>3, <1>5, <1>8 DEF Tick, engine, miner
<1>9. CASE UNCHANGED vars
  BY <1>1, <1>2, <1>3, <1>5, <1>9 DEF vars, engine, miner
<1>10. CASE \E b \in Net : SyncBlock(b) \/ Announce(b)
  <2>1. PICK b \in Net : SyncBlock(b) \/ Announce(b)
    BY <1>10
  <2>2. IsBlock(b)
    BY BlockAssumption
  <2>3. CASE SyncBlock(b)
    <3>1. Insert(b) /\ inserting' \subseteq inserting /\ UNCHANGED <<now, knows, miner>>
      BY <2>3 DEF SyncBlock
    <3> QED BY <1>6, <2>2, <3>1
  <2>4. CASE Announce(b)
    <3>1. HandleNewBlock(b) /\ submitted' \subseteq submitted /\ UNCHANGED <<pending, asked, making, solved>>
      BY <2>4 DEF Announce, miner
    <3> QED BY <1>7, <2>2, <3>1
  <2> QED BY <2>1, <2>3, <2>4
<1>11. CASE \E b \in inserting : InsertBlock(b)
  <2>1. PICK b \in inserting : InsertBlock(b)
    BY <1>11
  <2>2. IsBlock(b) /\ Insert(b) /\ inserting' \subseteq inserting /\ UNCHANGED <<now, knows, miner>>
    BY <1>2, <2>1 DEF InsertBlock
  <2> QED BY <1>6, <2>2
<1>12. CASE \E b \in submitted : HandleSubmitted(b)
  <2>1. PICK b \in submitted : HandleSubmitted(b)
    BY <1>12
  <2>2. IsBlock(b) /\ HandleNewBlock(b) /\ submitted' \subseteq submitted
        /\ UNCHANGED <<pending, asked, making, solved>>
    BY <1>2, <2>1 DEF HandleSubmitted
  <2> QED BY <1>7, <2>2
<1>13. ASSUME NEW r \in Request, Ask(r) PROVE TypeOK'
  <2>1. Height(head) \in Nat
    BY <1>1, BlockIs
  <2>2. <<Height(head)>> \in Seq(Nat)
    BY <2>1
  <2>3. asked' \in [Request -> Seq(Nat)]
    BY <1>2, <1>13, <2>2 DEF Ask
  <2> QED BY <1>1, <1>2, <1>3, <1>5, <1>13, <2>3 DEF Ask, engine
<1>14. ASSUME NEW r \in Request, Compare(r) PROVE TypeOK'
  <2>1. Idle \in Seq(Nat)
    BY DEF Idle
  <2>2. asked' \in [Request -> Seq(Nat)]
    BY <1>2, <1>14, <2>1 DEF Compare
  <2>3. making' \subseteq Request
    BY <1>2, <1>14 DEF Compare
  <2> QED BY <1>1, <1>2, <1>3, <1>5, <1>14, <2>2, <2>3 DEF Compare, engine
<1>15. ASSUME NEW r \in Request, Make(r) PROVE TypeOK'
  <2>1. pending' = Pushed(Template) /\ making' \subseteq Request
        /\ UNCHANGED <<now, tree, knows, inserting, asked, submitted, solved>>
    BY <1>2, <1>15 DEF Make, engine
  <2>2. IsBlock(Template)
    BY <1>1, TemplateIs
  <2>3. CacheOK(cache')
    <3>1. cache' = cache \/ cache' = TargetCaching(head)
      BY <1>15 DEF Make
    <3>2. Height(head) <= Height(head)
      BY <1>1, BlockIs
    <3> QED BY <1>1, <3>1, <3>2, TargetIs
  <2>4. /\ DOMAIN pending' = 1..Len(pending') /\ Len(pending') \in Nat /\ Len(pending') <= Len(pending) + 1
        /\ \A k \in 1..Len(pending') : pending'[k] = IF k = 1 THEN Template ELSE pending[k - 1]
    BY <1>4, <2>1, PushedIs, SeqIs
  <2>5. \A i \in DOMAIN pending' : IsBlock(pending'[i])
    <3> SUFFICES ASSUME NEW i \in DOMAIN pending' PROVE IsBlock(pending'[i])
      OBVIOUS
    <3>1. i # 1 => i - 1 \in DOMAIN pending
      BY <1>4, <2>4
    <3> QED BY <1>2, <2>2, <2>4, <3>1
  <2>6. Len(pending') <= Room
    <3> DEFINE all == <<Template>> \o pending
    <3>1. IsSeq(all) /\ Len(all) = Len(pending) + 1
      <4>1. PICK S : pending \in Seq(S)
        BY <1>4 DEF IsSeq
      <4>2. <<Template>> \in Seq(S \union {Template}) /\ pending \in Seq(S \union {Template})
        BY <4>1, SeqMonotonic
      <4>3. Len(<<Template>>) = 1
        OBVIOUS
      <4>4. all \in Seq(S \union {Template}) /\ Len(all) = 1 + Len(pending)
        BY <4>2, <4>3, ConcatProperties
      <4> HIDE DEF all
      <4> QED BY <1>4, <4>4 DEF IsSeq
    <3>2. pending' = IF Len(all) > Room THEN SubSeq(all, 1, Len(all) - 1) ELSE all
      BY <2>1 DEF Pushed, Front
    <3> HIDE DEF all
    <3>3. Len(SubSeq(all, 1, Len(all) - 1)) = Len(pending)
      BY <1>4, <3>1, FirstOnes
    <3> QED BY <1>2, <1>4, <3>1, <3>2, <3>3 DEF Room
  <2> QED BY <1>1, <1>2, <1>3, <1>5, <2>1, <2>3, <2>5, <2>6
<1>16. ASSUME NEW i \in DOMAIN pending, Success(i) PROVE TypeOK'
  <2>1. /\ pending' = RemoveAt(pending, i) /\ submitted' = submitted \union {pending[i]} /\ solved' = solved + 1
        /\ solved < MaxOwn /\ UNCHANGED <<now, tree, cache, knows, inserting, asked, making>>
    BY <1>16 DEF Success, engine
  <2>2. /\ DOMAIN pending' = 1..(Len(pending) - 1) /\ Len(pending') = Len(pending) - 1
        /\ \A k \in DOMAIN pending' : pending'[k] = IF k < i THEN pending[k] ELSE pending[k + 1]
    <3>1. IsSeq(pending') /\ Len(pending') = Len(pending) - 1
          /\ \A k \in 1..(Len(pending) - 1) : pending'[k] = IF k < i THEN pending[k] ELSE pending[k + 1]
      BY <1>4, <2>1, RemoveIs
    <3> QED BY <3>1, SeqIs
  <2>3. \A k \in DOMAIN pending' : IsBlock(pending'[k])
    <3> SUFFICES ASSUME NEW k \in DOMAIN pending' PROVE IsBlock(pending'[k])
      OBVIOUS
    <3>1. k \in DOMAIN pending /\ k + 1 \in DOMAIN pending
      BY <1>4, <2>2
    <3> QED BY <1>2, <2>2, <3>1
  <2>4. Len(pending') <= Room
    BY <1>2, <1>4, <2>2 DEF Room
  <2>5. solved' \in 0..MaxOwn
    BY <1>1, <2>1
  <2>6. IsBlock(pending[i])
    BY <1>2
  <2> QED BY <1>1, <1>2, <1>3, <1>5, <2>1, <2>3, <2>4, <2>5, <2>6
<1> QED BY <1>8, <1>9, <1>10, <1>11, <1>12, <1>13, <1>14, <1>15, <1>16 DEF Next

-----------------------------------------------------------------------------
(* The theorems.                                                             *)

(* Unless its cache holds a block that a switch of fork took off the chain,  *)
(* the node demands of a block on any block of its tree the difficulty that  *)
(* block's own chain asks for, though it reads the chain of the head.        *)
THEOREM OnlyStaleCacheMisleads == Spec => []OnlyStaleMisleads
<1>1. TreeInv /\ [Next]_vars => TreeInv'
  BY StepTree
<1> QED BY <1>1, InitTree, RightTarget, PTL DEF Spec

(* With one request at a time, pending blocks are told apart by their        *)
(* height, and one above the head extends it, though the request reads the   *)
(* head three times while blocks arrive.                                     *)
THEOREM WorkExtendsHead == ASSUME OneRequest PROVE Spec => []PendingOnHead
<1>1. TreeInv /\ [Next]_vars => TreeInv'
  BY StepTree
<1>2. TreeInv /\ RequestInv /\ PendingOnHead /\ [Next]_vars => RequestInv' /\ PendingOnHead'
  BY StepRequests
<1> QED BY <1>1, <1>2, InitTree, InitRequests, PTL DEF Spec

(* Every difficulty the node computes is a number of the bits a target has,  *)
(* whatever the times of the blocks, every entry of its cache is for the     *)
(* first block of a cycle, and the queue of pending blocks holds no fourth.  *)
THEOREM MiningTypeCorrect == ASSUME Powers PROVE Spec => []TypeOK
<1>1. TreeInv /\ [Next]_vars => TreeInv'
  BY StepTree
<1>2. TreeInv /\ TypeOK /\ [Next]_vars => TypeOK'
  BY StepType
<1> QED BY <1>1, <1>2, InitTree, InitType, PTL DEF Spec

(* When the stored chain was checked, a solution on the head passes both     *)
(* checks of the node that gave the work out: the handler takes it if it has *)
(* not seen it, and the insertion keeps it.  That holds although any thread  *)
(* fills the cache, which may have misled the node when it made the work,    *)
(* and which is emptied when it is full.                                     *)
THEOREM OwnSolutionsCount ==
  ASSUME WholeCycles, SoundChain(Start)
  PROVE  Spec /\ []NoneIsZero => OwnWorkCounts
<1>1. TreeInv /\ [Next]_vars => TreeInv'
  BY StepTree
<1>2. TreeInv /\ SoundInv /\ OwnInv /\ [Next]_vars => SoundInv' /\ OwnInv'
  BY StepSound, StepOwn
<1>3. TreeInv /\ SoundInv /\ OwnInv /\ NoneIsZero /\ [Next]_vars => [Counts]_vars
  BY StepCounts
<1>4. Init => TreeInv /\ SoundInv /\ OwnInv
  BY InitTree, InitOwn
<1>5. Spec /\ []NoneIsZero => [][Counts]_vars
  BY <1>1, <1>2, <1>3, <1>4, PTL DEF Spec
<1> QED BY <1>5 DEF OwnWorkCounts, Counts
=============================================================================
