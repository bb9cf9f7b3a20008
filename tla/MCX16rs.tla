------------------------------ MODULE MCX16rs ------------------------------
(***************************************************************************)
(* Instances of X16rs.  Messages of up to three blocks and a rest, or of   *)
(* some words where blocks are small, updates that end before, at and      *)
(* after a block, and counters whose low word ends within a message.       *)
(***************************************************************************)
EXTENDS X16rs

\* After two blocks of 128 bytes, four of 64, two blocks numbered from one.
SmallWords ==
  [a \in Algo |-> CASE a = "simd" -> 4194304
                    [] a = "groestl" -> 3
                    [] a = "shabal" -> 3
                    [] a \in {"hamsi", "fugue"} -> 65536
                    [] OTHER -> 2048]

ShortMessages ==
  [a \in Algo |-> IF a = "hamsi" THEN 40
                  ELSE IF a = "fugue" THEN 26
                  ELSE 3 * BlockLen[a] + 16]

FewChunks == {0, 1, 16, 31, 64, 129}
=============================================================================
