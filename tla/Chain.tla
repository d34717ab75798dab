------------------------------- MODULE Chain -------------------------------
(***************************************************************************)
(* Adding a block to the chain (blockchain/blockchain.go: AddBlock,        *)
(* checkBlock, addMainchainBlock, addAltchainBlock, CheckReorgs).          *)
(*                                                                         *)
(* AddBlock runs inside one write transaction of the database.  db is the  *)
(* committed content; blocks, topo, applied, tips and top are the view of  *)
(* the open transaction, and every loop iteration of CheckReorgs is one    *)
(* action on that view.  An error return makes DB.Update drop the view; a  *)
(* crash of the process drops it too.  Statistics (bc-stats.go, Stats) are *)
(* read when the transaction starts and saved when it ends, so they are    *)
(* part of the view.                                                       *)
(*                                                                         *)
(* Balances, stakes and the mempool are abstracted to the number of times  *)
(* each block is applied.  Whether the present ledger lets a block pass    *)
(* the stake check, be applied or be undone depends on all of its history, *)
(* so each of these may fail wherever the code can return an error: what   *)
(* is shown here holds for every ledger.                                   *)
(***************************************************************************)
EXTENDS Integers, Sequences

CONSTANTS
  Blocks,           \* block hashes that can be offered to the node
  Genesis,          \* the block inserted by addGenesis
  NoBlock,          \* the zero hash
  Prev,             \* Prev[b]: Ancestors[0] of b
  Height,           \* Height[b]: height field of b
  CumDiff,          \* CumDiff[b]: cumulative difficulty field of b
  Contribution,     \* Contribution[b]: ContributionToCumulativeDiff of b
  Sound(_)          \* difficulty, timestamp and side blocks of b are right

ASSUME ChainAssumption ==
  /\ Genesis \in Blocks
  /\ NoBlock \notin Blocks
  /\ Prev \in [Blocks -> Blocks \cup {NoBlock}]
  /\ Prev[Genesis] = NoBlock
  /\ Height \in [Blocks -> Nat]
  /\ Height[Genesis] = 0
  /\ CumDiff \in [Blocks -> Nat]
  /\ Contribution \in [Blocks -> Nat \ {0}]

VARIABLES
  db,       \* committed database, a record of the next five
  blocks,   \* Index.Block: stored blocks
  topo,     \* Index.Topo: height -> mainchain block
  applied,  \* how many times each block is applied to the ledger
  tips,     \* Stats.Tips: key -> altchain tip
  top,      \* Stats.TopHash, TopHeight, CumulativeDiff
  pc,       \* where AddBlock is
  cur,      \* the block being added
  alt,      \* altHash, altHeight, altDiff of CheckReorgs
  hashes,   \* altchain blocks still to be applied, tip first
  common,   \* commonBlockHash
  nHash,    \* next mainchain block to undo
  n,        \* mainchain block loaded by the previous iteration of step 2
  sync      \* SyncHeight and SyncDiff, in memory only

view == <<blocks, topo, applied, tips, top>>
reorgVars == <<alt, hashes, common, nHash, n>>
vars == <<db, view, pc, cur, reorgVars, sync>>

Heights == {Height[b] : b \in Blocks}
Tip == [hash : Blocks \cup {NoBlock}, height : Nat, cum : Nat]
NoTip == [hash |-> NoBlock, height |-> 0, cum |-> 0]

TipOf(b) == [hash |-> b, height |-> Height[b], cum |-> CumDiff[b]]

Locations == {"idle", "add", "reorg1", "reorg2", "reorg3", "reorg4", "commit"}

-----------------------------------------------------------------------------
(* The transaction.                                                        *)

Contents ==
  [blocks |-> blocks, topo |-> topo, applied |-> applied, tips |-> tips, top |-> top]

ReadCommitted ==
  /\ blocks' = db.blocks
  /\ topo' = db.topo
  /\ applied' = db.applied
  /\ tips' = db.tips
  /\ top' = db.top

\* addGenesis on an empty database.
Init ==
  /\ blocks = {Genesis}
  /\ topo = [h \in Heights |-> IF h = 0 THEN Genesis ELSE NoBlock]
  /\ applied = [b \in Blocks |-> IF b = Genesis THEN 1 ELSE 0]
  /\ tips = [b \in Blocks |-> NoTip]
  /\ top = TipOf(Genesis)
  /\ db = Contents
  /\ pc = "idle"
  /\ cur = NoBlock
  /\ alt = NoTip
  /\ hashes = <<>>
  /\ common = NoBlock
  /\ nHash = NoBlock
  /\ n = NoBlock
  /\ sync = [height |-> 0, diff |-> CumDiff[Genesis]]

LeaveAddBlock ==
  /\ pc' = "idle"
  /\ cur' = NoBlock
  /\ alt' = NoTip
  /\ hashes' = <<>>
  /\ common' = NoBlock
  /\ nHash' = NoBlock
  /\ n' = NoBlock

\* An error return: DB.Update discards the transaction.
Rollback ==
  /\ LeaveAddBlock
  /\ ReadCommitted
  /\ UNCHANGED <<db, sync>>

Commit ==
  /\ pc = "commit"
  /\ LeaveAddBlock
  /\ db' = Contents
  /\ UNCHANGED <<view, sync>>

\* Mutant of Crash: SyncDiff is not read back from Stats.
CrashForgetsSync ==
  /\ LeaveAddBlock
  /\ ReadCommitted
  /\ sync' = [height |-> 0, diff |-> 0]
  /\ UNCHANGED db

\* The process dies and New starts it again: nothing of an open transaction
\* survives, and SyncHeight and SyncDiff restart from Stats.
Crash ==
  /\ LeaveAddBlock
  /\ ReadCommitted
  /\ sync' = [height |-> db.top.height, diff |-> db.top.cum]
  /\ UNCHANGED db

-----------------------------------------------------------------------------
(* AddBlock.                                                               *)

\* The part of checkBlock that depends on the block and its ancestors only.
CheckBlock(b) ==
  /\ Sound(b)
  /\ Height[b] = Height[Prev[b]] + 1
  /\ CumDiff[b] = CumDiff[Prev[b]] + Contribution[b]

\* ApplyBlockToState remembers the heaviest block it ever applied.
SyncSeen(b) ==
  IF sync.diff < CumDiff[b]
  THEN [height |-> Height[b], diff |-> CumDiff[b]]
  ELSE sync

\* GetBlockTemplate: the height given to a block mined on TopHash.
TemplateHeight(stats) == stats.height + 1

\* DB.Update opens the write transaction; there is one writer at a time.
Begin(b) ==
  /\ pc = "idle"
  /\ pc' = "add"
  /\ cur' = b
  /\ ReadCommitted
  /\ UNCHANGED <<db, reorgVars, sync>>

RefuseDuplicate ==
  /\ pc = "add"
  /\ cur \in blocks
  /\ Rollback

\* The block itself is not kept; its parent is put in the download queue.
RefuseOrphan ==
  /\ pc = "add"
  /\ cur \notin blocks
  /\ Prev[cur] \notin blocks
  /\ Rollback

RefuseInvalid ==
  /\ pc = "add"
  /\ cur \notin blocks
  /\ Prev[cur] \in blocks
  /\ ~CheckBlock(cur)
  /\ Rollback

\* Mutant of Admitted: the orphan check is dropped.
AdmittedOrphan ==
  /\ pc = "add"
  /\ cur \notin blocks
  /\ Prev[cur] # NoBlock
  /\ CheckBlock(cur)

\* The guards AddBlock has passed when it chooses between main and altchain.
Admitted ==
  /\ pc = "add"
  /\ cur \notin blocks
  /\ Prev[cur] \in blocks
  /\ CheckBlock(cur)

\* The end of checkBlock: delegate id or stake signature do not fit the
\* delegates and the staked amount of the present ledger.
RefuseStake ==
  /\ Admitted
  /\ Rollback

AddMainchainBlock ==
  /\ Admitted
  /\ Prev[cur] = top.hash
  /\ applied' = [applied EXCEPT ![cur] = @ + 1]
  /\ top' = TipOf(cur)
  /\ blocks' = blocks \cup {cur}
  /\ topo' = [topo EXCEPT ![Height[cur]] = cur]
  /\ sync' = SyncSeen(cur)
  /\ pc' = "commit"
  /\ UNCHANGED <<db, tips, cur, reorgVars>>

\* ApplyBlockToState refuses the block.
AddMainchainBlockFails ==
  /\ Admitted
  /\ Prev[cur] = top.hash
  /\ Rollback

\* Mutant of ExtendedTips: an extended tip keeps its old weight.
ExtendedTipsOldWeight(b) ==
  IF tips[Prev[b]].hash # NoBlock
  THEN [tips EXCEPT ![Prev[b]].hash = b, ![Prev[b]].height = @ + 1]
  ELSE [tips EXCEPT ![b] = TipOf(b)]

\* Mutant of ExtendedTips: an extended tip keeps its old height.
ExtendedTipsOldHeight(b) ==
  IF tips[Prev[b]].hash # NoBlock
  THEN [tips EXCEPT ![Prev[b]].hash = b, ![Prev[b]].cum = CumDiff[b]]
  ELSE [tips EXCEPT ![b] = TipOf(b)]

\* addAltchainBlock: a tip found under the key PrevHash is updated in place
\* and keeps that key; otherwise the block is a new tip.
ExtendedTips(b) ==
  IF tips[Prev[b]].hash # NoBlock
  THEN [tips EXCEPT ![Prev[b]] = [hash   |-> b,
                                  height |-> @.height + 1,
                                  cum    |-> CumDiff[b]]]
  ELSE [tips EXCEPT ![b] = TipOf(b)]

\* Mutant of Heavier: Cmp >= 0 in place of Cmp > 0.
HeavierOrEqual(ts) ==
  {t \in {ts[k] : k \in Blocks} :
     /\ t.hash # NoBlock
     /\ t.cum >= top.cum
     /\ \A k \in Blocks : ts[k].hash # NoBlock => ts[k].cum <= t.cum}

\* The tips the loop at the head of CheckReorgs can end with: heavier than
\* the main chain and than every other tip (map order decides between ties).
Heavier(ts) ==
  {t \in {ts[k] : k \in Blocks} :
     /\ t.hash # NoBlock
     /\ t.cum > top.cum
     /\ \A k \in Blocks : ts[k].hash # NoBlock => ts[k].cum <= t.cum}

AddAltchainBlock ==
  /\ Admitted
  /\ Prev[cur] # top.hash
  /\ tips' = ExtendedTips(cur)
  /\ blocks' = blocks \cup {cur}
  /\ \/ /\ Heavier(tips') = {}
        /\ pc' = "commit"
        /\ UNCHANGED <<alt, hashes, common>>
     \/ /\ alt' \in Heavier(tips')
        /\ hashes' = <<alt'.hash>>
        /\ common' = alt'.hash
        /\ pc' = "reorg1"
  /\ UNCHANGED <<db, topo, applied, top, cur, nHash, n, sync>>

-----------------------------------------------------------------------------
(* CheckReorgs, step 1: walk the altchain back to the common block.        *)

FailCommonBlock ==
  /\ pc = "reorg1"
  /\ Prev[common] \in blocks => Height[Prev[common]] = 0
  /\ Rollback

\* Mutant of WalkBack: neither a missing block nor height 0 stops the walk.
WalkBackUnguarded ==
  /\ pc = "reorg1"
  /\ common \in Blocks
  /\ common' = Prev[common]
  /\ hashes' = Append(hashes, Prev[common])
  /\ UNCHANGED <<db, view, pc, cur, alt, nHash, n, sync>>

\* Mutant of WalkBack: commonBlockHash is not moved to the previous block.
WalkBackInPlace ==
  /\ pc = "reorg1"
  /\ Prev[common] \in blocks
  /\ Height[Prev[common]] # 0
  /\ topo[Height[Prev[common]]] # Prev[common]
  /\ UNCHANGED vars

WalkBack ==
  /\ pc = "reorg1"
  /\ Prev[common] \in blocks
  /\ Height[Prev[common]] # 0
  /\ topo[Height[Prev[common]]] # Prev[common]
  /\ common' = Prev[common]
  /\ hashes' = Append(hashes, Prev[common])
  /\ UNCHANGED <<db, view, pc, cur, alt, nHash, n, sync>>

\* Mutant of FoundCommonBlock: the lowest altchain block is taken for the
\* common block.
FoundCommonOffByOne ==
  /\ pc = "reorg1"
  /\ Prev[common] \in blocks
  /\ topo[Height[Prev[common]]] = Prev[common]
  /\ nHash' = top.hash
  /\ n' = top.hash
  /\ pc' = "reorg2"
  /\ UNCHANGED <<db, view, cur, alt, hashes, common, sync>>

FoundCommonBlock ==
  /\ pc = "reorg1"
  /\ Prev[common] \in blocks
  /\ Height[Prev[common]] # 0
  /\ topo[Height[Prev[common]]] = Prev[common]
  /\ common' = Prev[common]
  /\ nHash' = top.hash
  /\ n' = top.hash
  /\ pc' = "reorg2"
  /\ UNCHANGED <<db, view, cur, alt, hashes, sync>>

(* Step 2: undo mainchain blocks, from the top down to the common block.   *)

\* Mutant of UndoBlock: RemoveBlockFromState is not called.
UndoTopoOnly ==
  /\ pc = "reorg2"
  /\ nHash # common
  /\ Height[n] # 0
  /\ nHash \in blocks
  /\ topo' = [topo EXCEPT ![Height[nHash]] = NoBlock]
  /\ n' = nHash
  /\ nHash' = Prev[nHash]
  /\ UNCHANGED <<db, blocks, applied, tips, top, pc, cur, alt, hashes, common, sync>>

UndoBlock ==
  /\ pc = "reorg2"
  /\ nHash # common
  /\ Height[n] # 0
  /\ nHash \in blocks
  /\ topo' = [topo EXCEPT ![Height[nHash]] = NoBlock]
  /\ applied' = [applied EXCEPT ![nHash] = @ - 1]
  /\ n' = nHash
  /\ nHash' = Prev[nHash]
  /\ UNCHANGED <<db, blocks, tips, top, pc, cur, alt, hashes, common, sync>>

\* Height 0 reached, block not stored, or RemoveBlockFromState fails.
UndoFails ==
  /\ pc = "reorg2"
  /\ nHash # common
  /\ Rollback

UndoDone ==
  /\ pc = "reorg2"
  /\ nHash = common
  /\ pc' = "reorg3"
  /\ UNCHANGED <<db, view, cur, reorgVars, sync>>

(* Step 3: apply the altchain blocks, lowest first.                        *)

Lowest == hashes[Len(hashes)]

\* Mutant of ApplyBlock: the loop of step 3 counts up.
ApplyTipFirst ==
  /\ pc = "reorg3"
  /\ hashes # <<>>
  /\ Prev[Head(hashes)] \in blocks
  /\ CheckBlock(Head(hashes))
  /\ topo' = [topo EXCEPT ![Height[Head(hashes)]] = Head(hashes)]
  /\ applied' = [applied EXCEPT ![Head(hashes)] = @ + 1]
  /\ hashes' = Tail(hashes)
  /\ sync' = SyncSeen(Head(hashes))
  /\ UNCHANGED <<db, blocks, tips, top, pc, cur, alt, common, nHash, n>>

ApplyBlock ==
  /\ pc = "reorg3"
  /\ hashes # <<>>
  /\ Prev[Lowest] \in blocks
  /\ CheckBlock(Lowest)
  /\ topo' = [topo EXCEPT ![Height[Lowest]] = Lowest]
  /\ applied' = [applied EXCEPT ![Lowest] = @ + 1]
  /\ hashes' = SubSeq(hashes, 1, Len(hashes) - 1)
  /\ sync' = SyncSeen(Lowest)
  /\ UNCHANGED <<db, blocks, tips, top, pc, cur, alt, common, nHash, n>>

\* checkBlock, on the half rebuilt ledger, or ApplyBlockToState fails.
ApplyFails ==
  /\ pc = "reorg3"
  /\ hashes # <<>>
  /\ Rollback

ApplyDone ==
  /\ pc = "reorg3"
  /\ hashes = <<>>
  /\ pc' = "reorg4"
  /\ UNCHANGED <<db, view, cur, reorgVars, sync>>

\* Step 4: the old main chain becomes a tip and alt becomes the main chain.
\* The tip is deleted under the key altHash.
SwitchTop ==
  /\ pc = "reorg4"
  /\ tips' = [tips EXCEPT ![alt.hash] = NoTip, ![top.hash] = top]
  /\ top' = alt
  /\ pc' = "commit"
  /\ UNCHANGED <<db, blocks, topo, applied, cur, reorgVars, sync>>

-----------------------------------------------------------------------------

Step ==
  \/ RefuseDuplicate \/ RefuseOrphan \/ RefuseInvalid \/ RefuseStake
  \/ AddMainchainBlock \/ AddMainchainBlockFails \/ AddAltchainBlock
  \/ FailCommonBlock \/ WalkBack \/ FoundCommonBlock
  \/ UndoBlock \/ UndoFails \/ UndoDone
  \/ ApplyBlock \/ ApplyFails \/ ApplyDone
  \/ SwitchTop \/ Commit

Next == (\E b \in Blocks : Begin(b)) \/ Step \/ Crash

Spec == Init /\ [][Next]_vars

\* The goroutine inside DB.Update keeps running: no step of AddBlock waits
\* for anything but the processor.
FairSpec == Spec /\ WF_vars(Step)

-----------------------------------------------------------------------------
(* Properties.                                                             *)

Store == [blocks  : SUBSET Blocks,
          topo    : [Heights -> Blocks \cup {NoBlock}],
          applied : [Blocks -> Int],
          tips    : [Blocks -> Tip],
          top     : Tip]

\* Every variable has its type; in particular a reorganisation never walks
\* off the stored blocks into the zero hash.
TypeOK ==
  /\ db \in Store
  /\ Contents \in Store
  /\ pc \in Locations
  /\ cur \in Blocks \cup {NoBlock}
  /\ alt \in Tip
  /\ hashes \in Seq(Blocks)
  /\ common \in Blocks \cup {NoBlock}
  /\ nHash \in Blocks \cup {NoBlock}
  /\ n \in Blocks \cup {NoBlock}
  /\ sync \in [height : Nat, diff : Nat]

\* A height index is one chain of stored blocks, from genesis at height 0 to
\* the block t, with nothing above t.
IsMainChain(index, stored, t) ==
  /\ index[Height[t]] = t
  /\ \A h \in Heights :
       IF h > Height[t]
       THEN index[h] = NoBlock
       ELSE /\ index[h] \in stored
            /\ Height[index[h]] = h
            /\ h = 0 => index[h] = Genesis
            /\ h > 0 => h - 1 \in Heights /\ Prev[index[h]] = index[h - 1]

\* Each block in the height index is applied to the ledger once, every other
\* block not at all.
LedgerMatches(index, counts) ==
  \A b \in Blocks : counts[b] = IF index[Height[b]] = b THEN 1 ELSE 0

\* After any mixture of extensions, reorganisations, failed reorganisations
\* and crashes, the committed height index is the chain that ends in TopHash
\* and the ledger holds exactly the effects of its blocks.
MainChainConsistent ==
  /\ IsMainChain(db.topo, db.blocks, db.top.hash)
  /\ LedgerMatches(db.topo, db.applied)

\* No stored block, in any branch, is heavier than the main chain: a block
\* that would be is either reorganised to in the same transaction or refused.
NoHeavierBlock ==
  /\ db.top.cum = CumDiff[db.top.hash]
  /\ \A b \in db.blocks : CumDiff[b] <= db.top.cum

\* The main chain only ever moves to a strictly heavier block.
OnlyToHeavier ==
  [][db'.top.hash # db.top.hash => db'.top.cum > db.top.cum]_db

\* The heights that tips are stored with are counted, not read from the block
\* (blockchain.go:558), and step 4 of CheckReorgs makes one of them TopHeight
\* (:757): through any sequence of siblings under one key and reorganisations
\* between them they may be too large, and are never too small.
TipsNotBelow ==
  /\ db.top.height >= Height[db.top.hash]
  /\ \A k \in Blocks :
       db.tips[k].hash # NoBlock => db.tips[k].height >= Height[db.tips[k].hash]

\* ApplyBlockToState and RemoveBlockFromState work like a stack: inside a
\* transaction a block is applied on a ledger that holds its previous block
\* and nothing at its own height or above, and is undone while it is the
\* highest block applied.
LedgerLIFO ==
  [][pc' # "idle" =>
       \A b \in Blocks :
         /\ applied'[b] > applied[b] =>
              /\ applied[Prev[b]] = 1
              /\ \A c \in Blocks : Height[c] >= Height[b] => applied[c] = 0
         /\ applied'[b] < applied[b] =>
              \A c \in Blocks \ {b} :
                Height[c] >= Height[b] => applied[c] = 0]_vars

\* A reorganisation never looks for a mainchain block that is not stored and
\* never undoes past the fork: the errors of step 2 "Block has height 0!" and
\* "failed to get block" are unreachable.
UndoStopsAtFork ==
  pc = "reorg2" => /\ nHash \in blocks
                   /\ nHash = common \/ Height[n] # 0
                   /\ Height[nHash] >= Height[common]

\* The node never believes the network's best chain is lighter than its own.
SyncNotBehind == sync.diff >= db.top.cum

\* AddBlock always ends: none of the three loops of CheckReorgs runs forever.
AddBlockEnds == pc # "idle" ~> pc = "idle"

\* Blocks are never forgotten, and the head follows the rule of ForkChoice.
FC == INSTANCE ForkChoice WITH known <- db.blocks, best <- db.top.hash

\* Through every path of AddBlock and CheckReorgs, with crashes and failed
\* reorganisations, the committed database behaves like ForkChoice.
ImplementsForkChoice == FC!Spec

\* A block built by GetBlockTemplate on the committed state has the height
\* checkBlock demands of a child of TopHash, whatever reorganisations led to
\* that state.
TemplateHeightValid == TemplateHeight(db.top) = Height[db.top.hash] + 1
=============================================================================
