------------------------------ MODULE MCChain ------------------------------
(***************************************************************************)
(* A small block tree for Chain:                                           *)
(*                                                                         *)
(*   g -- a -- b -- f -- i     a fork at a, both sides three blocks deep,  *)
(*   |    |    |               so that heads can overtake one another;     *)
(*   |    |    |-- w, z, s     wrong height, wrong cumulative difficulty,  *)
(*   |    |                    wrong difficulty;                           *)
(*   |    \--- c -- d -- h     c has three children of different weight;   *)
(*   |         |-- e           y is exactly as heavy as h;                 *)
(*   |         \-- y                                                       *)
(*   x                         a heavy fork at genesis                     *)
(***************************************************************************)
EXTENDS Chain

MCBlocks == {"g", "a", "b", "c", "d", "e", "f", "h", "i", "s", "w", "x", "y", "z"}

MCPrev ==
  [k \in MCBlocks |->
     CASE k = "g" -> "none"
       [] k \in {"a", "x"} -> "g"
       [] k \in {"b", "c"} -> "a"
       [] k \in {"f", "s", "w", "z"} -> "b"
       [] k \in {"d", "e", "y"} -> "c"
       [] k = "h" -> "d"
       [] k = "i" -> "f"]

MCHeight ==
  [k \in MCBlocks |->
     CASE k = "g" -> 0
       [] k \in {"a", "x"} -> 1
       [] k \in {"b", "c"} -> 2
       [] k \in {"d", "e", "f", "s", "y", "z"} -> 3
       [] k \in {"h", "i", "w"} -> 4]

MCContribution ==
  [k \in MCBlocks |->
     CASE k \in {"g", "c", "z"} -> 1
       [] k \in {"a", "b", "d", "f", "s", "w"} -> 2
       [] k = "h" -> 3
       [] k = "i" -> 4
       [] k = "e" -> 6
       [] k = "y" -> 5
       [] k = "x" -> 9]

MCCumDiff ==
  [k \in MCBlocks |->
     CASE k = "g" -> 1
       [] k = "a" -> 3
       [] k = "b" -> 5
       [] k = "c" -> 4
       [] k = "d" -> 6
       [] k = "e" -> 10
       [] k \in {"f", "s", "w"} -> 7
       [] k = "h" -> 9
       [] k = "i" -> 11
       [] k = "x" -> 10
       [] k = "y" -> 9
       [] k = "z" -> 20]

MCSound(b) == b # "s"
=============================================================================
