----------------------------- MODULE MCPipeline -----------------------------
(***************************************************************************)
(* Blocks of one chain, some of them delivered twice, one of them possibly *)
(* spoilt.                                                                 *)
(***************************************************************************)
EXTENDS Pipeline

MCHeightOf == [p \in Packets |->
                 CASE p \in {"b1", "again1"} -> 1 [] p \in {"b2", "again2"} -> 2 [] OTHER -> 3]
=============================================================================
