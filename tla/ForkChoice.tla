----------------------------- MODULE ForkChoice -----------------------------
(***************************************************************************)
(* What the block engine promises to the rest of the node: a chain whose   *)
(* head only climbs, one height at a time, that never gives up a block     *)
(* more than UnstableBlock below its head, and a state that is always the  *)
(* ledger of that head.                                                    *)
(***************************************************************************)
EXTENDS Naturals

CONSTANTS Block, Genesis, Height, Anc, Key, Writes, UnstableBlock

VARIABLES head, ledger

\* For each key, the blocks of the chain that wrote it.
LedgerOf(b) == [k \in Key |-> {a \in Anc[b] : k \in Writes[a]}]

\* The blocks of the chain that no switch of fork may take away any more.
Final(b) == {a \in Anc[b] : Height[a] + UnstableBlock <= Height[b]}

Init == head = Genesis /\ ledger = LedgerOf(Genesis)

\* The chain grows by a block, on the branch of the head or on another one.
Advance(b) ==
  /\ Height[b] = Height[head] + 1
  /\ Final(head) \subseteq Anc[b]
  /\ head' = b
  /\ ledger' = LedgerOf(b)

Next == \E b \in Block : Advance(b)

Spec == Init /\ [][Next]_<<head, ledger>>
=============================================================================
