----------------------------- MODULE MCMining -----------------------------
(* Two blocks all agree on; then two branches, A and B, that differ in the *)
(* first block of cycle 1 and last until B begins cycle 2.                 *)
EXTENDS Mining

At(t, d, n) == [time |-> t, diff |-> d, no |-> n]

MCStart == <<At(1, Lowest, 0), At(2, Lowest, 0)>>
A3 == Append(MCStart, At(3, Lowest, 11))
A4 == Append(A3, At(4, Lowest, 11))
B3 == Append(MCStart, At(4, Lowest, 12))
B4 == Append(B3, At(5, Lowest, 12))
B5 == Append(B4, At(6, Lowest, 12))
B6 == Append(B5, At(7, OwnTarget(B5), 12))
MCNet == {A3, A4, B3, B4, B5, B6}
MCAnnounced == {A4}
=============================================================================
