---------------------------- MODULE MCBlockSync ----------------------------
(***************************************************************************)
(* The node has mined two blocks of its own on block a; the peers are on   *)
(* another branch from a, which grows, and which is left for a third one.  *)
(***************************************************************************)
EXTENDS BlockSync, TLC

MCBlocks == {"g", "b2", "c2", "c3", "d3"}
MCPrev == "b2" :> "g" @@ "c2" :> "g" @@ "c3" :> "c2" @@ "d3" :> "c2"
MCHeight == "g" :> 1 @@ "b2" :> 2 @@ "c2" :> 2 @@ "c3" :> 3 @@ "d3" :> 3
MCCumDiff == "g" :> 1 @@ "b2" :> 4 @@ "c2" :> 3 @@ "c3" :> 5 @@ "d3" :> 6
MCPeerStart == [p \in Peers |-> "c2"]
=============================================================================
