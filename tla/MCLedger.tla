------------------------------ MODULE MCLedger ------------------------------
(* Two addresses, three diamonds that can be minted one after another, of  *)
(* which the first is bid for twice, transfers that take the first from    *)
(* the list of its owner, or the others in another order, inscriptions,    *)
(* and a channel that is opened, closed and opened again.                  *)
EXTENDS Ledger

CONSTANTS ann, ben, d1, d2, d3, c1

Tx1(hash, main, fee, act) == [hash |-> hash, main |-> main, fee |-> fee, acts |-> <<act>>]
MintAct(n, d, prev, to) == [ty |-> "mint", num |-> n, dia |-> d, prev |-> prev, to |-> to]
Moves(from, to, dias) == [ty |-> "diamond", from |-> from, to |-> to, dias |-> dias]
Hac(from, to, amt) == [ty |-> "hac", from |-> from, to |-> to, amt |-> amt]
Body(txs) == [miner |-> ann, txs |-> txs]

Low == Tx1("m1", ann, 110, MintAct(1, d1, Genesis, ann))
High == [Low EXCEPT !.fee = 610]
First(t) == <<Body(<<t>>)>>
Second == Tx1("m2", ann, 200, MintAct(2, d2, First(High), ann))
Third == Tx1("m3", ann, 200, MintAct(3, d3, Append(First(High), Body(<<Second>>)), ann))

MoveTwo == Tx1("g2", ann, 100, Moves(ann, ben, <<d3, d2>>))
MoveOne == [hash |-> "g1", main |-> ben, fee |-> 100,
            acts |-> <<Moves(ann, ben, <<d1>>), Hac(ann, ben, 200)>>]
Engrave == Tx1("i1", ann, 100, [ty |-> "inscribe", dias |-> <<d1>>, cost |-> 66])
Clean == Tx1("k1", ann, 100, [ty |-> "clear", dias |-> <<d1>>, cost |-> 600])
OpenC == Tx1("o1", ann, 100, [ty |-> "open", ch |-> c1, left |-> ann, right |-> ben, l |-> 305, r |-> 0])
CloseC == Tx1("c1", ben, 100, [ty |-> "close", ch |-> c1])
Again == Tx1("o2", ben, 100, [ty |-> "open", ch |-> c1, left |-> ann, right |-> ben, l |-> 105, r |-> 105])

MCBodies ==
  {Body(<<t>>) : t \in {Low, High, Second, Third, MoveTwo}}
  \union {Body(<<Engrave, MoveOne>>), Body(<<Engrave, Clean>>),
          Body(<<OpenC>>), Body(<<CloseC>>), Body(<<Again>>)}
MCTested == {Low}
MCAlloc == (ann :> 2000) @@ (ben :> 250)
MCGrown(amt, times) == amt + times * (amt \div 16)
MCZhu(amt) == amt \div Part
MCStorable(amt) == amt < 1900 \/ amt % 9 # 5
=============================================================================
