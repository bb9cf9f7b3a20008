--------------------------- MODULE MCSyncHandler ---------------------------
(* A chain A, one, B, that leaves it at height 1, and one, C, apart.        *)
EXTENDS SyncHandler

CONSTANTS g, a1, a2, b2, b3, c1, c2, p1, p2

MCBlock == {g, a1, a2, b2, b3, c1, c2}
MCLine == [b \in MCBlock |->
  CASE b = g  -> <<>>
    [] b = a1 -> <<a1>>
    [] b = a2 -> <<a1, a2>>
    [] b = b2 -> <<a1, b2>>
    [] b = b3 -> <<a1, b2, b3>>
    [] b = c1 -> <<c1>>
    [] b = c2 -> <<c1, c2>>]

\* p1 switches to B, p2 is on C.
MCHeads == [p \in {p1, p2} |-> IF p = p1 THEN {a2, b3} ELSE {c2}]
=============================================================================
