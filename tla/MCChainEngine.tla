--------------------------- MODULE MCChainEngine ---------------------------
(* Two branches that leave genesis, A and B, a third, C, that leaves A at   *)
(* height 2, and D, that leaves it at height 1 and is invalid. A block is   *)
(* <<branch, height>>.                                                      *)
EXTENDS ChainEngine, TLC

CONSTANT Top   \* the height of A and B

MCGenesis == <<"G", 0>>
MCBlock == {MCGenesis} \union ({"A", "B"} \X (1..Top)) \union {<<"C", 3>>, <<"D", 2>>}
MCPrev == [b \in MCBlock |->
  CASE b[2] <= 1 -> MCGenesis
    [] b = <<"C", 3>> -> <<"A", 2>>
    [] b = <<"D", 2>> -> <<"A", 1>>
    [] OTHER -> <<b[1], b[2] - 1>>]
MCHeight == [b \in MCBlock |-> b[2]]
RECURSIVE Below(_)
Below(b) == IF b = MCGenesis THEN {b} ELSE {b} \union Below(MCPrev[b])
MCAnc == [b \in MCBlock |-> Below(b)]

\* k1 is written at odd heights, k2 at even ones; B1 writes both.
MCWrites == [b \in MCBlock |->
  CASE b = MCGenesis -> {}
    [] b = <<"B", 1>> -> {"k1", "k2"}
    [] b[2] % 2 = 1 -> {"k1"}
    [] OTHER -> {"k2"}]
MCBad == {<<"D", 2>>}
MCSpends == {<<"A", 2>>, <<"B", 2>>}

\* Single blocks, runs of a branch, and batches whose heights or links break.
Run(br, i, j) == [n \in 1..(j - i + 1) |-> <<br, i + n - 1>>]
Singles == {<<b>> : b \in MCBlock \ {MCGenesis}}
MCBatch == Singles \union
  {Run(br, i, Top) : br \in {"A", "B"}, i \in 1..2} \union
  {<<<<"A", 1>>, <<"B", 2>>>>, <<<<"A", 1>>, <<"A", 3>>>>}

\* Two syncs, of branch A and of branch B, and a block of B announced by itself.
RaceBatch == {Run("A", 1, 2), Run("B", 1, 3), <<<<"B", 3>>>>}

Callers == Permutations(Caller)
=============================================================================
