------------------------------ MODULE MCTxPool ------------------------------
(***************************************************************************)
(* Instances of TxPool for TLC.                                            *)
(***************************************************************************)
EXTENDS TxPool

CONSTANTS a1, a2, b1, c1, m1, ha, hb, hc, hm, d1,
          l1, l2, l3, l4, l5, l6

\* ha was submitted with two fees; ha, hb and hc spend the same money.
\* hm mints diamond 1.
MCHash == {ha, hb, hc, hm}
MCHashOf == (a1 :> ha) @@ (a2 :> ha) @@ (b1 :> hb) @@ (c1 :> hc) @@ (m1 :> hm)
MCPurity == (a1 :> 1) @@ (a2 :> 3) @@ (b1 :> 2) @@ (c1 :> 2) @@ (m1 :> 1)
MCMintNo == [h \in MCHash |-> IF h = hm THEN 1 ELSE 0]
MCClash == [h \in MCHash |-> IF h = hm THEN {hm} ELSE {ha, hb, hc}]
MCMaxSize == [g \in Group |-> IF g = "normal" THEN 2 ELSE 1]

\* A transaction with two fees, two that clash with it, and a diamond: one
\* package of the normal group more than fit.
MixTx == {a1, a2, b1, c1, m1}
MixHashOf == [t \in MixTx |-> MCHashOf[t]]
MixPurity == [t \in MixTx |-> MCPurity[t]]

\* Twelve transactions that do not clash, one more than fit: six that pay 1, which
\* are alike, and one for each fee from 2 to 7.
OrdLow == {l1, l2, l3, l4, l5, l6}
OrdSymmetry == Permutations(OrdLow)
OrdTx == OrdLow \union 2..7
OrdHashOf == [t \in OrdTx |-> t]
OrdPurity == [t \in OrdTx |-> IF t \in OrdLow THEN 1 ELSE t]
OrdMintNo == [t \in OrdTx |-> 0]
OrdClash == [t \in OrdTx |-> {t}]
OrdMaxSize == [g \in Group |-> 11]
=============================================================================
