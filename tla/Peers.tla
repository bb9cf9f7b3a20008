------------------------------- MODULE Peers --------------------------------
(***************************************************************************)
(* The connections of a node (src/node/peer) and the two tables that keep  *)
(* them (src/node/p2p): the backbones, public nodes sorted by how near     *)
(* their key is to ours, and the offshoots, all others.                    *)
(*                                                                         *)
(* Every connection has a task that reads it and removes the peer from the *)
(* tables at the end; it may have a timer that closes it; and its write    *)
(* half is in a slot, from which a send takes it away and puts it back.    *)
(* These tasks share one thread (node/node/start.rs), so a step goes from  *)
(* one await to the next.  Broadcasts run on the thread of the message     *)
(* handler: between their two reads of the tables anything may happen.     *)
(*                                                                         *)
(* A connection is used once; a node that connects again is another        *)
(* connection of the same key.                                             *)
(***************************************************************************)
EXTENDS Naturals, FiniteSets, Sequences, SequencesExt

CONSTANTS
  Conn,          \* connections (Peer.id)
  KeyOf,         \* the key of the node at the other end
  AddrOf,        \* its address
  Distance,      \* the place of a key in the order of distances from our key
  Public,        \* connections to nodes that can be dialled (is_public)
  ToMe,          \* connections the other node made (is_cntome)
  BackbonePeers, \* backbone_peers
  OffshootPeers, \* offshoot_peers
  Item,          \* blocks and transactions
  Talks,         \* bound: connections that carry more than broadcasts, or fall silent
  Ends           \* bound: connections that the other node ends by itself

ASSUME ConnAssumption ==
  /\ Public \subseteq Conn /\ ToMe \subseteq Conn 
  /\ Talks \subseteq Conn /\ Ends \subseteq Conn
  /\ \A c \in Conn : c \notin ToMe => c \in Public
  /\ \A c \in Conn : Distance[KeyOf[c]] \in Nat
ASSUME SizeAssumption == BackbonePeers \in Nat \ {0} /\ OffshootPeers \in Nat \ {0}
ASSUME ItemAssumption == Item \intersect {"none", "free", "reply", "close", "closed"} = {}

Key == {KeyOf[c] : c \in Conn}

VARIABLES
  backbones, offshoots, \* the tables
  reader,   \* of a connection's task: "none" before, "reading", "ending", "gone"
  slot,     \* the write half: "free" in its slot; out of it for a "reply" or ping,
            \*   an item of a broadcast or a "close" mark; "closed" for ever
  dropped,  \* connections whose closing timer runs
  knows,    \* what the node at the other end has (Peer.knows)
  known,    \* what we have (MsgHandler.knows)
  due,      \* items whose broadcast has been spawned
  seen,     \* of a broadcast under way: the backbones it read
  cast,     \*   and those it has still to send to
  found,    \* of a search under way: the connections to try
  first     \*   and the nearest backbone when it began

tables == <<backbones, offshoots>>
news == <<knows, known, due, seen, cast>>
search == <<found, first>>
vars == <<tables, reader, slot, dropped, news, search>>

None == <<>>
ToAll == ToSet(backbones) \union ToSet(offshoots)

-----------------------------------------------------------------------------
(* The tables.                                                             *)

Nearer(c, d) == Distance[KeyOf[c]] < Distance[KeyOf[d]]

Least(T) == CHOOSE i \in T : \A j \in T : i <= j

\* Mistake: before the first that is nearer.
PlaceReversed(s, c) == Least({i \in DOMAIN s : Nearer(s[i], c)} \union {Len(s) + 1})

\* insert_peer_to_dht_list: before the first that is farther,
Place(s, c) == Least({i \in DOMAIN s : Nearer(c, s[i])} \union {Len(s) + 1})
With(s, c) == InsertAt(s, Place(s, c), c)

\* Mistake: none drops out.
KeptAll(s, max) == s

\* and the tail drops out of a table that is full.
Kept(s, max) == IF Len(s) > max THEN Front(s) ELSE s
Fallen(s, max) == IF Len(s) > max THEN {Last(s)} ELSE {}

\* Mistake: only the address is compared.
SameAddr(c, d) == AddrOf[c] = AddrOf[d]

\* check_exist_in_dht_list
SameNode(c, d) == KeyOf[c] = KeyOf[d] \/ AddrOf[c] = AddrOf[d]

InOffshoots(c) ==
  LET o == With(offshoots, c) IN
  /\ offshoots' = Kept(o, OffshootPeers)
  /\ dropped' = dropped \union Fallen(o, OffshootPeers)

\* P2PManage::insert.  A peer that falls out is closed by a timer, unless it is
\* a backbone that came to us, which is tried among the offshoots.
AdmitPrivate(c) ==
  /\ c \notin Public
  /\ InOffshoots(c) /\ UNCHANGED backbones
AdmitKnown(c) ==
  /\ c \in Public /\ \E d \in ToSet(backbones) : SameNode(c, d)
  /\ UNCHANGED <<tables, dropped>>
AdmitPublic(c) ==
  /\ c \in Public /\ \A d \in ToSet(backbones) : ~SameNode(c, d)
  /\ LET b == With(backbones, c)
         out == Fallen(b, BackbonePeers)
     IN /\ backbones' = Kept(b, BackbonePeers)
        /\ \/ out \intersect ToMe = {} /\ dropped' = dropped \union out /\ UNCHANGED offshoots
           \/ \E d \in out \intersect ToMe : InOffshoots(d)
Admit(c) == AdmitPrivate(c) \/ AdmitKnown(c) \/ AdmitPublic(c)

\* Mistake: the offshoots are not looked through.
RemovedBackbone(c) ==
  LET at == {i \in DOMAIN backbones : KeyOf[backbones[i]] = KeyOf[c]} IN
  /\ backbones' = IF at = {} THEN backbones ELSE RemoveAt(backbones, Least(at))
  /\ UNCHANGED offshoots

\* remove_peer_from_dht_list: the first of the key among the offshoots goes, or
\* else the first among the backbones.
Removed(c) ==
  LET Of(s) == {i \in DOMAIN s : KeyOf[s[i]] = KeyOf[c]} IN
  \/ /\ Of(offshoots) # {}
     /\ offshoots' = RemoveAt(offshoots, Least(Of(offshoots))) /\ UNCHANGED backbones
  \/ /\ Of(offshoots) = {} /\ Of(backbones) # {}
     /\ backbones' = RemoveAt(backbones, Least(Of(backbones))) /\ UNCHANGED offshoots
  \/ Of(offshoots) = {} /\ Of(backbones) = {} /\ UNCHANGED tables

-----------------------------------------------------------------------------
(* Connections begin and end.                                              *)

\* insert_peer, after the handshake.
Connect(c) ==
  /\ reader[c] = "none"
  /\ reader' = [reader EXCEPT ![c] = "reading"]
  /\ slot' = [slot EXCEPT ![c] = "free"]
  /\ Admit(c)
  /\ UNCHANGED news

\* server_listener.accept, and connect_boot_nodes at the start and when there
\* are too few backbones.
Accept(c) == c \in ToMe /\ Connect(c) /\ UNCHANGED search
DialBoot(c) == c \notin ToMe /\ Connect(c) /\ UNCHANGED search

\* do_find_nodes: what the backbones tell of and is nearer than the farthest
\* backbone is tried, in any order,
FindNodes ==
  /\ found = {} /\ backbones # <<>>
  /\ found' \in SUBSET {c \in Public \ ToMe :
                          /\ reader[c] = "none" /\ Nearer(c, Last(backbones))
                          /\ \A d \in ToSet(backbones) : KeyOf[c] # KeyOf[d]}
  /\ found' # {}
  /\ first' = {KeyOf[Head(backbones)]}
  /\ UNCHANGED <<tables, reader, slot, dropped, news>>

\* until the nearest old backbone is replaced.
Replaced(b) == \A d \in ToSet(b) : KeyOf[d] \notin first
TryFound(c) ==
  /\ c \in found
  /\ Connect(c)
  /\ found' = IF Replaced(backbones') THEN {} ELSE found \ {c}
  /\ first' = IF found' = {} THEN {} ELSE first
FailFound(c) ==
  /\ c \in found
  /\ found' = found \ {c}
  /\ first' = IF found' = {} THEN {} ELSE first
  /\ UNCHANGED <<tables, reader, slot, dropped, news>>

\* Peer::disconnect does nothing when the write half is out of its slot.
Disconnected(c) == IF slot[c] = "free" THEN [slot EXCEPT ![c] = "close"] ELSE slot

\* The two marks are sent, and the write half is forgotten.
CloseSent(c) ==
  /\ slot[c] = "close"
  /\ slot' = [slot EXCEPT ![c] = "closed"]
  /\ UNCHANGED <<tables, reader, dropped, news, search>>

\* The other node may close at any time, by itself or after our marks: the reading
\* loop breaks,
ReaderEnds(c) ==
  /\ reader[c] = "reading" /\ (c \in Ends \/ slot[c] = "closed")
  /\ reader' = [reader EXCEPT ![c] = "ending"]
  /\ slot' = Disconnected(c)
  /\ UNCHANGED <<tables, dropped, news, search>>

\* Mistake: only a peer that disconnect could close is removed.
ReaderRemovesClosed(c) ==
  /\ reader[c] = "ending" /\ slot[c] = "closed"
  /\ Removed(c)
  /\ reader' = [reader EXCEPT ![c] = "gone"]
  /\ UNCHANGED <<slot, dropped, news, search>>

\* and after disconnect the peer leaves the tables.
ReaderRemoves(c) ==
  /\ reader[c] = "ending" /\ slot[c] # "close"
  /\ Removed(c)
  /\ reader' = [reader EXCEPT ![c] = "gone"]
  /\ UNCHANGED <<slot, dropped, news, search>>

\* delay_close_peer, 15 seconds later.
TimerCloses(c) ==
  /\ c \in dropped
  /\ dropped' = dropped \ {c}
  /\ slot' = Disconnected(c)
  /\ UNCHANGED <<tables, reader, news, search>>

\* do_check_active, after twenty silent minutes.
CheckActive(c) ==
  /\ c \in ToAll \intersect Talks
  /\ slot[c] = "free" /\ slot' = Disconnected(c)
  /\ UNCHANGED <<tables, reader, dropped, news, search>>

-----------------------------------------------------------------------------
(* Sending.                                                                *)

\* Peer::send of a ping, a pong, a status, hashes or blocks.
Reply(c) ==
  /\ c \in Talks /\ reader[c] = "reading" /\ slot[c] = "free"
  /\ slot' = [slot EXCEPT ![c] = "reply"]
  /\ UNCHANGED <<tables, reader, dropped, news, search>>
Replied(c) ==
  /\ slot[c] = "reply"
  /\ slot' = [slot EXCEPT ![c] = "free"]
  /\ UNCHANGED <<tables, reader, dropped, news, search>>

\* handle_new_block and handle_new_tx: what is new to us is broadcast.
Learn(i) == known' = known \union {i} /\ due' = due \union ({i} \ known)
Hear(c, i) ==
  /\ c \in Talks /\ reader[c] = "reading"
  /\ knows' = [knows EXCEPT ![c] = @ \union {i}]
  /\ Learn(i)
  /\ UNCHANGED <<tables, reader, slot, dropped, seen, cast, search>>
Submit(i) ==
  /\ i \notin known
  /\ Learn(i)
  /\ UNCHANGED <<tables, reader, slot, dropped, knows, seen, cast, search>>

\* broadcast_unaware reads the backbones, then the offshoots.
ReadBackbones(i) ==
  /\ i \in due
  /\ due' = due \ {i}
  /\ seen' = [seen EXCEPT ![i] = <<backbones>>]
  /\ UNCHANGED <<tables, reader, slot, dropped, knows, known, cast, search>>

\* Mistake: all are collected before any is noted.
PickedAtOnce(i) == SelectSeq(seen[i][1] \o offshoots, LAMBDA c : i \notin knows[c])

\* Those who do not know the item, each noted as knowing it before the next is
\* looked at.
Picked(i) ==
  LET peers == seen[i][1] \o offshoots
      after[n \in 0..Len(peers)] ==
        IF n = 0 THEN <<>>
        ELSE IF i \in knows[peers[n]] \/ peers[n] \in ToSet(after[n - 1]) THEN after[n - 1]
        ELSE Append(after[n - 1], peers[n])
  IN after[Len(peers)]

Pick(i) ==
  /\ seen[i] # None
  /\ cast' = [cast EXCEPT ![i] = Picked(i)]
  /\ knows' = [c \in Conn |-> IF c \in ToSet(Picked(i)) THEN knows[c] \union {i} ELSE knows[c]]
  /\ seen' = [seen EXCEPT ![i] = None]
  /\ UNCHANGED <<tables, reader, slot, dropped, known, due, search>>

\* then the item is sent to each, unless its write half is out,
CastSend(i) ==
  /\ cast[i] # None
  /\ LET c == Head(cast[i]) IN
     /\ slot[c] = "free"
     /\ slot' = [slot EXCEPT ![c] = i]
  /\ UNCHANGED <<tables, reader, dropped, news, search>>
CastSent(i) ==
  /\ cast[i] # None
  /\ LET c == Head(cast[i]) IN
     /\ slot[c] = i
     /\ slot' = [slot EXCEPT ![c] = "free"]
  /\ cast' = [cast EXCEPT ![i] = Tail(@)]
  /\ UNCHANGED <<tables, reader, dropped, knows, known, due, seen, search>>

\* and then it is lost: "peer may be busy or closed".
CastLost(i) ==
  /\ cast[i] # None
  /\ slot[Head(cast[i])] \notin {"free", i}
  /\ cast' = [cast EXCEPT ![i] = Tail(@)]
  /\ UNCHANGED <<tables, reader, slot, dropped, knows, known, due, seen, search>>

-----------------------------------------------------------------------------
Init ==
  /\ backbones = <<>> /\ offshoots = <<>>
  /\ reader = [c \in Conn |-> "none"] /\ slot = [c \in Conn |-> "none"]
  /\ dropped = {}
  /\ knows = [c \in Conn |-> {}] /\ known = {} /\ due = {}
  /\ seen = [i \in Item |-> None] /\ cast = [i \in Item |-> None]
  /\ found = {} /\ first = {}

Ending(c) == ReaderRemoves(c) \/ CloseSent(c)

Next ==
  \/ \E c \in Conn :
       \/ Accept(c) \/ DialBoot(c) \/ TryFound(c) \/ FailFound(c)
       \/ ReaderEnds(c) \/ ReaderRemoves(c)
       \/ TimerCloses(c) \/ CheckActive(c) \/ CloseSent(c)
       \/ Reply(c) \/ Replied(c)
       \/ \E i \in Item : Hear(c, i)
  \/ FindNodes
  \/ \E i \in Item : Submit(i) \/ ReadBackbones(i) \/ Pick(i) \/ CastSend(i) \/ CastSent(i) \/ CastLost(i)

Spec == Init /\ [][Next]_vars

\* The runtime polls a task that is ready, and a close mark is written or fails.
FairSpec == Spec /\ WF_vars(\E c \in Conn : Ending(c))

-----------------------------------------------------------------------------
(* Properties.                                                             *)

Out == {"none", "free", "reply", "close", "closed"}

TypeOK ==
  /\ backbones \in Seq(Conn) /\ Len(backbones) <= BackbonePeers
  /\ offshoots \in Seq(Conn) /\ Len(offshoots) <= OffshootPeers
  /\ reader \in [Conn -> {"none", "reading", "ending", "gone"}]
  /\ slot \in [Conn -> Out \union Item]
  /\ dropped \subseteq Conn
  /\ knows \in [Conn -> SUBSET Item] /\ known \subseteq Item /\ due \subseteq known
  /\ \A i \in Item : Len(seen[i]) <= 1 /\ \A x \in ToSet(seen[i]) : x \in Seq(Conn)
  /\ cast \in [Item -> Seq(Conn)]
  /\ found \subseteq Conn /\ first \subseteq Key

\* How often the key of a connection stands in a table.
EntriesIn(s, k) == {i \in DOMAIN s : KeyOf[s[i]] = k}
Entries(k) == Cardinality(EntriesIn(backbones, k)) + Cardinality(EntriesIn(offshoots, k))
Served(k) == {c \in Conn : KeyOf[c] = k /\ reader[c] \in {"reading", "ending"}}

\* remove_peer_from_dht_list goes by key, so with several connections of one node
\* it may take out another's entry.  But there are never more entries of a node
\* than connections that will still take one out: none stays for ever.
NoOrphanEntry == \A k \in Key : Entries(k) <= Cardinality(Served(k))

InOrder(s) == \A i, j \in DOMAIN s : i < j => Distance[KeyOf[s[i]]] <= Distance[KeyOf[s[j]]]

\* find_nodes takes the first backbone for the nearest and the last for the
\* farthest, and an insertion gives up the last: both tables are in order.
NearestFirst == InOrder(backbones) /\ InOrder(offshoots)

\* No node is a backbone twice, whatever connections it has and however its peers
\* come back from the offshoots, and all backbones can be dialled.
BackbonesDiffer ==
  /\ ToSet(backbones) \subseteq Public
  /\ \A i, j \in DOMAIN backbones : KeyOf[backbones[i]] = KeyOf[backbones[j]] => i = j
  /\ \A i, j \in DOMAIN backbones : AddrOf[backbones[i]] = AddrOf[backbones[j]] => i = j

\* No peer is sent an item twice: not by two broadcasts, and not by one although a
\* backbone may become an offshoot between its two reads of the tables.
TellsOnce ==
  \A i \in Item :
    /\ \A m, n \in DOMAIN cast[i] : cast[i][m] = cast[i][n] => m = n
    /\ \A m \in DOMAIN cast[i] : i \in knows[cast[i][m]] /\ seen[i] = None /\ i \notin due

\* Nodes all of whose connections have ended leave the tables, or come back: even
\* if a send that nobody reads holds the write half.
Serves(k) == \E c \in Conn : KeyOf[c] = k /\ reader[c] = "reading"
DeadLeave == []<>(\A k \in Key : Entries(k) = 0 \/ Serves(k))
=============================================================================
