------------------------------ MODULE MCPeers -------------------------------
(***************************************************************************)
(* An instance of Peers for TLC: two backbones and one offshoot for a node *)
(* A that connects again, from another port, before its first connection   *)
(* is noticed to be down, a nearer node B that we dial, a node D still     *)
(* nearer and a private node C.                                            *)
(***************************************************************************)
EXTENDS Peers, TLC

CONSTANTS a1, a2, b1, c1, d1

MCKeyOf == (a1 :> "A") @@ (a2 :> "A") @@ (b1 :> "B") @@ (c1 :> "C") @@ (d1 :> "D")
MCAddrOf == (a1 :> "a1") @@ (a2 :> "a2") @@ (b1 :> "b") @@ (c1 :> "c") @@ (d1 :> "d")
MCDistance == ("A" :> 2) @@ ("B" :> 1) @@ ("C" :> 2) @@ ("D" :> 0)
=============================================================================
