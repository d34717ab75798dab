----------------------------- MODULE ForkChoice -----------------------------
(***************************************************************************)
(* What a node promises about the blocks it accepts, stated without        *)
(* transactions, height index, tips or reorganisation steps: it keeps a    *)
(* set of known blocks that is closed under "previous block", and one of   *)
(* them, the best block, has the largest cumulative difficulty.  Chain     *)
(* (blockchain.go, AddBlock and CheckReorgs) implements this module.       *)
(***************************************************************************)
EXTENDS Integers

CONSTANTS
  Blocks,     \* block hashes that can exist
  Genesis,    \* hash of the genesis block
  Prev,       \* Prev[b]: hash of the block before b
  CumDiff     \* CumDiff[b]: cumulative difficulty stored in b

VARIABLES
  known,      \* blocks the node has stored
  best        \* head of the main chain

vars == <<known, best>>

Init ==
  /\ known = {Genesis}
  /\ best = Genesis

(***************************************************************************)
(* A block is stored only on top of a stored block.  It becomes the head   *)
(* exactly when it is strictly heavier than the present head, so that of   *)
(* two equally heavy branches the first one seen stays.                    *)
(***************************************************************************)
Accept(b) ==
  /\ b \notin known
  /\ Prev[b] \in known
  /\ known' = known \cup {b}
  /\ best' = IF CumDiff[b] > CumDiff[best] THEN b ELSE best

Next == \E b \in Blocks : Accept(b)

Spec == Init /\ [][Next]_vars
=============================================================================
