---------------------------- MODULE ChainProofs ----------------------------
(***************************************************************************)
(* Proofs about Chain for every block tree and every ledger: the inductive *)
(* invariant that follows a reorganisation from step to step, the safety   *)
(* properties that rest on it, and the implementation of ForkChoice.       *)
(***************************************************************************)
EXTENDS Chain, TLAPS

-----------------------------------------------------------------------------
(* The inductive invariant.                                                *)

\* Stored blocks form a tree rooted in genesis whose heights grow by one and
\* whose cumulative difficulty grows along every branch.
TreeOK(stored) ==
  /\ Genesis \in stored
  /\ \A b \in stored \ {Genesis} :
       /\ Prev[b] \in stored
       /\ Height[b] = Height[Prev[b]] + 1
       /\ CumDiff[b] > CumDiff[Prev[b]]

\* A tip names a stored block and carries that block's weight.  (Its height
\* need not be the block's: see TemplateHeightValid.)
TipOK(t, stored) ==
  /\ t.hash \in stored
  /\ t.cum = CumDiff[t.hash]

TipsOK(map, stored) ==
  \A k \in Blocks : map[k].hash # NoBlock => TipOK(map[k], stored)

\* A database that may be committed.
Good(d) ==
  /\ TreeOK(d.blocks)
  /\ TipsOK(d.tips, d.blocks)
  /\ TipOK(d.top, d.blocks)
  /\ \A b \in d.blocks : CumDiff[b] <= d.top.cum
  /\ IsMainChain(d.topo, d.blocks, d.top.hash)
  /\ LedgerMatches(d.topo, d.applied)

\* The one block by which a transaction that passed checkBlock differs from
\* the committed database.
OneNewBlock ==
  /\ cur \in Blocks
  /\ cur \notin db.blocks
  /\ Prev[cur] \in db.blocks
  /\ blocks = db.blocks \cup {cur}

InReorg ==
  /\ OneNewBlock
  /\ TreeOK(blocks)
  /\ TipsOK(tips, blocks)
  /\ top = db.top
  /\ alt.hash = cur
  /\ alt.cum = CumDiff[cur]
  /\ alt.cum > db.top.cum

\* hashes lists stored blocks from the new tip down, each the child of the
\* next one; none of them is genesis.
BranchOK ==
  /\ \A i \in 1..Len(hashes) : hashes[i] \in blocks /\ Height[hashes[i]] > 0
  /\ \A i \in 1..(Len(hashes) - 1) : Prev[hashes[i]] = hashes[i + 1]
  /\ hashes # <<>> => hashes[1] = cur

\* The block the partly rebuilt main chain ends in during step 3.
Rebuilt == IF hashes = <<>> THEN cur ELSE Prev[Lowest]

Inv1 ==
  /\ topo = db.topo
  /\ applied = db.applied
  /\ hashes # <<>>
  /\ common = Lowest

Inv2 ==
  /\ hashes # <<>>
  /\ Prev[Lowest] = common
  /\ common \in blocks
  /\ Height[common] > 0
  /\ topo[Height[common]] = common
  /\ nHash \in blocks
  /\ Height[nHash] >= Height[common]
  /\ n \in Blocks /\ Height[n] >= Height[nHash]
  /\ IsMainChain(topo, blocks, nHash)
  /\ LedgerMatches(topo, applied)

Inv3 ==
  /\ IsMainChain(topo, blocks, Rebuilt)
  /\ LedgerMatches(topo, applied)
  /\ hashes = <<>> => sync.diff >= alt.cum

InvCommit ==
  /\ OneNewBlock
  /\ Good(Contents)
  /\ top.hash = IF CumDiff[cur] > CumDiff[db.top.hash] THEN cur ELSE db.top.hash
  /\ sync.diff >= top.cum

IInv ==
  /\ TypeOK
  /\ Good(db)
  /\ sync.diff >= db.top.cum
  /\ pc \in {"idle", "add"} => Contents = db
  /\ pc = "add" => cur \in Blocks
  /\ pc \in {"reorg1", "reorg2", "reorg3", "reorg4"} => InReorg /\ BranchOK
  /\ pc = "reorg1" => Inv1
  /\ pc = "reorg2" => Inv2
  /\ pc \in {"reorg3", "reorg4"} => Inv3
  /\ pc = "reorg4" => hashes = <<>>
  /\ pc = "commit" => InvCommit

-----------------------------------------------------------------------------
(* Facts about the constants and about types.                              *)

\* Heights are numbers, and genesis is at height 0.
LEMMA HeightsFacts ==
  /\ Heights \subseteq Nat
  /\ 0 \in Heights
  /\ \A b \in Blocks : Height[b] \in Heights
BY ChainAssumption DEF Heights

\* The empty slot of Stats.Tips is of the type of a tip.
LEMMA NoTipType == NoTip \in Tip
BY DEF NoTip, Tip

\* The tip made of a block's own fields is of the type of a tip.
LEMMA TipOfType == ASSUME NEW b \in Blocks PROVE TipOf(b) \in Tip
BY ChainAssumption DEF TipOf, Tip

\* The types of the committed fields, from TypeOK.
LEMMA StoreFields ==
  ASSUME NEW d \in Store
  PROVE  /\ d.blocks \in SUBSET Blocks
         /\ d.topo \in [Heights -> Blocks \cup {NoBlock}]
         /\ d.applied \in [Blocks -> Int]
         /\ d.tips \in [Blocks -> Tip]
         /\ d.top \in Tip
         /\ d.top.cum \in Nat
         /\ d.top.height \in Nat
BY DEF Store, Tip

\* The types of the open transaction's variables, from TypeOK.
LEMMA ViewFields ==
  ASSUME TypeOK
  PROVE  /\ blocks \in SUBSET Blocks
         /\ topo \in [Heights -> Blocks \cup {NoBlock}]
         /\ applied \in [Blocks -> Int]
         /\ tips \in [Blocks -> Tip]
         /\ top \in Tip
BY DEF TypeOK, Contents, Store

\* The open transaction's variables make up a record of the type Store.
LEMMA ContentsType ==
  ASSUME blocks \in SUBSET Blocks,
         topo \in [Heights -> Blocks \cup {NoBlock}],
         applied \in [Blocks -> Int],
         tips \in [Blocks -> Tip],
         top \in Tip
  PROVE  Contents \in Store
BY DEF Contents, Store

\* A transaction that starts or is dropped shows the committed database.
LEMMA ReadCommittedView ==
  ASSUME db \in Store, ReadCommitted PROVE Contents' = db
BY DEF Store, ReadCommitted, Contents

-----------------------------------------------------------------------------
(* The height index and the ledger under one step of a reorganisation.     *)

\* Putting b on top of a chain that ends in b's previous block gives a chain
\* that ends in b, with b's effects added (step 3 and the mainchain case).
LEMMA ExtendChain ==
  ASSUME NEW index \in [Heights -> Blocks \cup {NoBlock}],
         NEW counts \in [Blocks -> Int],
         NEW stored \in SUBSET Blocks, NEW more \in SUBSET Blocks,
         stored \subseteq more,
         NEW t \in Blocks, NEW b \in more,
         Prev[b] = t, Height[b] = Height[t] + 1,
         IsMainChain(index, stored, t),
         LedgerMatches(index, counts)
  PROVE  /\ IsMainChain([index EXCEPT ![Height[b]] = b], more, b)
         /\ LedgerMatches([index EXCEPT ![Height[b]] = b],
                              [counts EXCEPT ![b] = @ + 1])
<1> DEFINE index2 == [index EXCEPT ![Height[b]] = b]
           counts2 == [counts EXCEPT ![b] = @ + 1]
<1>0. /\ b \in Blocks /\ NoBlock \notin Blocks
      /\ \A c \in Blocks : Height[c] \in Heights
      /\ Height[b] \in Heights /\ Height[b] \in Nat
      /\ Height[t] \in Heights /\ Height[t] \in Nat
      /\ \A h \in Heights : h \in Nat
  BY ChainAssumption, HeightsFacts
<1> USE <1>0
<1>1. index[Height[b]] = NoBlock
  BY DEF IsMainChain
<1>3. \A h \in Heights : index2[h] = IF h = Height[b] THEN b ELSE index[h]
  OBVIOUS
<1>a. \A c \in Blocks : counts2[c] = IF c = b THEN counts[c] + 1 ELSE counts[c]
  OBVIOUS
<1> HIDE DEF index2, counts2
<1>4. ASSUME NEW h \in Heights, h > Height[b] PROVE index2[h] = NoBlock
  BY <1>3, <1>4 DEF IsMainChain
<1>5. ASSUME NEW h \in Heights, h < Height[b]
      PROVE  /\ index2[h] \in more
             /\ Height[index2[h]] = h
             /\ h = 0 => index2[h] = Genesis
             /\ h > 0 => h - 1 \in Heights /\ Prev[index2[h]] = index2[h - 1]
  <2>1. h <= Height[t] /\ index2[h] = index[h]
    BY <1>3, <1>5
  <2>2. h > 0 => h - 1 \in Heights /\ index2[h - 1] = index[h - 1]
    BY <1>3, <1>5, <2>1 DEF IsMainChain
  <2> QED
    BY <2>1, <2>2 DEF IsMainChain
<1>6. index2[Height[b]] = b /\ Height[b] > 0 /\ Height[b] - 1 \in Heights
  BY <1>3
<1>7. Prev[b] = index2[Height[b] - 1]
  BY <1>3, <1>6 DEF IsMainChain
<1>8. IsMainChain(index2, more, b)
  BY <1>4, <1>5, <1>6, <1>7 DEF IsMainChain
<1>9. LedgerMatches(index2, counts2)
  <2> SUFFICES ASSUME NEW c \in Blocks
                PROVE  counts2[c] = IF index2[Height[c]] = c THEN 1 ELSE 0
    BY DEF LedgerMatches
  <2>1. counts[c] = IF index[Height[c]] = c THEN 1 ELSE 0
    BY DEF LedgerMatches
  <2> QED
    BY <1>1, <1>3, <1>a, <2>1
<1> QED
  BY <1>8, <1>9 DEF index2, counts2

\* Taking the last block off a chain leaves the chain that ends in its
\* previous block, with its effects removed (step 2).
LEMMA RetractChain ==
  ASSUME NEW index \in [Heights -> Blocks \cup {NoBlock}],
         NEW counts \in [Blocks -> Int],
         NEW stored \in SUBSET Blocks,
         NEW b \in stored, Height[b] > 0,
         IsMainChain(index, stored, b),
         LedgerMatches(index, counts)
  PROVE  /\ Prev[b] \in stored
         /\ Height[Prev[b]] = Height[b] - 1
         /\ IsMainChain([index EXCEPT ![Height[b]] = NoBlock], stored, Prev[b])
         /\ LedgerMatches([index EXCEPT ![Height[b]] = NoBlock],
                              [counts EXCEPT ![b] = @ - 1])
<1> DEFINE index2 == [index EXCEPT ![Height[b]] = NoBlock]
           counts2 == [counts EXCEPT ![b] = @ - 1]
<1>0. /\ b \in Blocks
      /\ NoBlock \notin Blocks
      /\ Height[b] \in Heights /\ Height[b] \in Nat
      /\ \A c \in Blocks : Height[c] \in Heights
      /\ \A h \in Heights : h \in Nat
  BY ChainAssumption, HeightsFacts
<1> USE <1>0
<1>1. \A h \in Heights : index2[h] = IF h = Height[b] THEN NoBlock ELSE index[h]
  OBVIOUS
<1>a. \A c \in Blocks : counts2[c] = IF c = b THEN counts[c] - 1 ELSE counts[c]
  OBVIOUS
<1> HIDE DEF index2, counts2
<1>2. /\ index[Height[b]] = b
      /\ Height[b] - 1 \in Heights
      /\ Prev[b] = index[Height[b] - 1]
  BY DEF IsMainChain
<1>3. /\ Prev[b] \in stored
      /\ Height[Prev[b]] = Height[b] - 1
  BY <1>2 DEF IsMainChain
<1>4. ASSUME NEW h \in Heights, h > Height[Prev[b]] PROVE index2[h] = NoBlock
  BY <1>1, <1>3, <1>4 DEF IsMainChain
<1>5. ASSUME NEW h \in Heights, h <= Height[Prev[b]]
      PROVE  /\ index2[h] \in stored
             /\ Height[index2[h]] = h
             /\ h = 0 => index2[h] = Genesis
             /\ h > 0 => h - 1 \in Heights /\ Prev[index2[h]] = index2[h - 1]
  <2>1. h < Height[b] /\ index2[h] = index[h]
    BY <1>1, <1>3, <1>5
  <2>2. h > 0 => h - 1 \in Heights /\ index2[h - 1] = index[h - 1]
    BY <1>1, <2>1 DEF IsMainChain
  <2> QED
    BY <2>1, <2>2 DEF IsMainChain
<1>6. index2[Height[Prev[b]]] = Prev[b]
  BY <1>1, <1>2, <1>3
<1>7. IsMainChain(index2, stored, Prev[b])
  BY <1>3, <1>4, <1>5, <1>6 DEF IsMainChain
<1>8. LedgerMatches(index2, counts2)
  <2> SUFFICES ASSUME NEW c \in Blocks
                PROVE  counts2[c] = IF index2[Height[c]] = c THEN 1 ELSE 0
    BY DEF LedgerMatches
  <2>1. counts[c] = IF index[Height[c]] = c THEN 1 ELSE 0
    BY DEF LedgerMatches
  <2> QED
    BY <1>1, <1>2, <1>a, <2>1
<1> QED
  BY <1>3, <1>7, <1>8 DEF index2, counts2

\* A chain of stored blocks is still one when more blocks are stored.
LEMMA MoreBlocks ==
  ASSUME NEW index, NEW t, NEW stored, NEW more, stored \subseteq more,
         IsMainChain(index, stored, t)
  PROVE  IsMainChain(index, more, t)
BY DEF IsMainChain

-----------------------------------------------------------------------------
(* Each step preserves the invariant.                                      *)

\* AddBlock leaves its local variables well typed when it returns.
LEMMA LeaveType ==
  ASSUME LeaveAddBlock
  PROVE  /\ pc' = "idle"
         /\ pc' \in Locations
         /\ cur' \in Blocks \cup {NoBlock}
         /\ alt' \in Tip
         /\ hashes' \in Seq(Blocks)
         /\ common' \in Blocks \cup {NoBlock}
         /\ nHash' \in Blocks \cup {NoBlock}
         /\ n' \in Blocks \cup {NoBlock}
BY NoTipType DEF LeaveAddBlock, Locations

\* An error return of AddBlock (DB.Update drops the transaction).
LEMMA RollbackInv ==
  ASSUME IInv, Rollback PROVE IInv'
<1>1. Contents' = db /\ db' = db /\ sync' = sync
  BY ReadCommittedView DEF IInv, TypeOK, Rollback
<1>2. TypeOK'
  BY <1>1, LeaveType DEF IInv, TypeOK, Rollback
<1>3. Good(db)' /\ sync'.diff >= db'.top.cum
  BY <1>1 DEF IInv
<1> QED
  BY <1>1, <1>2, <1>3, LeaveType DEF IInv, Rollback

\* AddBlock starts on the committed database.
LEMMA BeginInv ==
  ASSUME IInv, NEW b \in Blocks, Begin(b) PROVE IInv'
<1>1. Contents' = db /\ db' = db /\ sync' = sync
  BY ReadCommittedView DEF IInv, TypeOK, Begin
<1>2. TypeOK'
  BY <1>1 DEF IInv, TypeOK, Begin, reorgVars, Locations
<1>3. Good(db)' /\ sync'.diff >= db'.top.cum
  BY <1>1 DEF IInv
<1> QED
  BY <1>1, <1>2, <1>3 DEF IInv, Begin

\* A crash loses the transaction; New reads SyncDiff back from Stats.
LEMMA CrashInv ==
  ASSUME IInv, Crash PROVE IInv'
<1>1. Contents' = db /\ db' = db
  BY ReadCommittedView DEF IInv, TypeOK, Crash
<1>2. db.top.cum \in Nat /\ db.top.height \in Nat
  BY StoreFields DEF IInv, TypeOK
<1>3. TypeOK'
  BY <1>1, <1>2, LeaveType DEF IInv, TypeOK, Crash
<1>4. Good(db)' /\ sync'.diff >= db'.top.cum
  BY <1>1, <1>2 DEF IInv, Crash
<1> QED
  BY <1>1, <1>3, <1>4, LeaveType DEF IInv, Crash

\* The view that is committed is a good database.
LEMMA CommitInv ==
  ASSUME IInv, Commit PROVE IInv'
<1>1. db' = Contents /\ Contents' = Contents /\ sync' = sync /\ top' = top
  BY DEF Commit, view, Contents
<1>2. TypeOK'
  BY <1>1, LeaveType DEF IInv, TypeOK, Commit
<1>3. Good(db)' /\ sync'.diff >= db'.top.cum
  BY <1>1 DEF IInv, Commit, InvCommit, Contents
<1> QED
  BY <1>1, <1>2, <1>3, LeaveType DEF IInv, Commit

\* A block that passed checkBlock extends the tree of stored blocks.
LEMMA AdmittedTree ==
  ASSUME NEW stored \in SUBSET Blocks, TreeOK(stored),
         NEW b \in Blocks, Prev[b] \in stored, CheckBlock(b)
  PROVE  /\ TreeOK(stored \cup {b})
         /\ Height[b] = Height[Prev[b]] + 1
         /\ Height[b] > 0
         /\ CumDiff[b] > CumDiff[Prev[b]]
<1>1. /\ Height[b] \in Nat /\ Height[Prev[b]] \in Nat
      /\ CumDiff[b] \in Nat /\ CumDiff[Prev[b]] \in Nat
      /\ Contribution[b] \in Nat /\ Contribution[b] > 0
  BY ChainAssumption
<1>2. /\ Height[b] = Height[Prev[b]] + 1
      /\ Height[b] > 0
      /\ CumDiff[b] > CumDiff[Prev[b]]
  BY <1>1 DEF CheckBlock
<1> QED
  BY <1>2 DEF TreeOK

\* SyncSeen never lowers SyncDiff and covers the applied block.
LEMMA SyncSeenType ==
  ASSUME sync \in [height : Nat, diff : Nat], NEW b \in Blocks
  PROVE  /\ SyncSeen(b) \in [height : Nat, diff : Nat]
         /\ SyncSeen(b).diff >= sync.diff
         /\ SyncSeen(b).diff >= CumDiff[b]
BY ChainAssumption DEF SyncSeen

\* addMainchainBlock: the new block is the child of the top.
LEMMA AddMainchainInv ==
  ASSUME IInv, AddMainchainBlock PROVE IInv'
<1>0. /\ TypeOK /\ Good(db) /\ Contents = db /\ cur \in Blocks
      /\ cur \notin blocks /\ Prev[cur] \in blocks /\ CheckBlock(cur)
      /\ Prev[cur] = top.hash
      /\ sync.diff >= db.top.cum
  BY DEF IInv, AddMainchainBlock, Admitted
<1>1. /\ blocks = db.blocks /\ topo = db.topo /\ applied = db.applied
      /\ tips = db.tips /\ top = db.top
  BY <1>0 DEF Contents
<1>2. /\ blocks \in SUBSET Blocks
      /\ topo \in [Heights -> Blocks \cup {NoBlock}]
      /\ applied \in [Blocks -> Int]
      /\ tips \in [Blocks -> Tip]
  BY <1>0, ViewFields
<1>3. /\ blocks' = blocks \cup {cur}
      /\ topo' = [topo EXCEPT ![Height[cur]] = cur]
      /\ applied' = [applied EXCEPT ![cur] = @ + 1]
      /\ tips' = tips
      /\ top' = TipOf(cur)
      /\ sync' = SyncSeen(cur)
      /\ pc' = "commit" /\ db' = db /\ cur' = cur
  BY DEF AddMainchainBlock
<1>4. TypeOK'
  <2>1. Height[cur] \in Heights
    BY <1>0, HeightsFacts
  <2>2. Contents' \in Store
    BY <1>0, <1>2, <1>3, <2>1, TipOfType DEF Contents, Store
  <2>3. sync' \in [height : Nat, diff : Nat]
    BY <1>0, <1>3, SyncSeenType DEF TypeOK
  <2> QED
    BY <1>0, <1>3, <2>2, <2>3 DEF TypeOK, AddMainchainBlock, reorgVars, Locations
<1>5. /\ TreeOK(blocks') /\ Height[cur] = Height[Prev[cur]] + 1
      /\ CumDiff[cur] > CumDiff[Prev[cur]]
  BY <1>0, <1>1, <1>2, <1>3, AdmittedTree DEF Good
<1>6. /\ top'.hash = cur /\ top'.cum = CumDiff[cur]
      /\ db.top.cum = CumDiff[db.top.hash] /\ CumDiff[cur] > db.top.cum
  BY <1>0, <1>1, <1>3, <1>5 DEF TipOf, Good, TipOK
<1>7. Good(Contents)'
  <2>1. TipsOK(tips', blocks')
    BY <1>0, <1>1, <1>3 DEF Good, TipsOK, TipOK
  <2>2. TipOK(top', blocks')
    BY <1>3, <1>6 DEF TipOK
  <2>3. \A b \in blocks' : CumDiff[b] <= top'.cum
    <3> SUFFICES ASSUME NEW b \in blocks' PROVE CumDiff[b] <= CumDiff[cur]
      BY <1>6
    <3>1. CumDiff[b] \in Nat /\ CumDiff[cur] \in Nat /\ db.top.cum \in Nat
      BY <1>0, <1>2, <1>3, StoreFields, ChainAssumption DEF TypeOK
    <3>2. b = cur \/ CumDiff[b] <= db.top.cum
      BY <1>0, <1>1, <1>3 DEF Good
    <3> QED
      BY <1>6, <3>1, <3>2
  <2>4. /\ IsMainChain(topo', blocks', cur)
        /\ LedgerMatches(topo', applied')
    <3>1. top.hash \in Blocks /\ blocks' \in SUBSET Blocks /\ cur \in blocks'
      BY <1>0, <1>2, <1>3
    <3>2. IsMainChain(topo, blocks, top.hash) /\ LedgerMatches(topo, applied)
      BY <1>0, <1>1 DEF Good
    <3> QED
      BY <1>0, <1>2, <1>3, <1>5, <3>1, <3>2, ExtendChain
  <2> QED
    BY <1>5, <1>6, <2>1, <2>2, <2>3, <2>4 DEF Good, Contents
<1>8. InvCommit'
  BY <1>0, <1>1, <1>3, <1>6, <1>7, SyncSeenType DEF InvCommit, OneNewBlock, TypeOK
<1>9. Good(db)' /\ sync'.diff >= db'.top.cum
  <2>1. /\ sync'.diff \in Nat /\ sync.diff \in Nat /\ db.top.cum \in Nat
        /\ sync'.diff >= sync.diff
    BY <1>0, <1>3, StoreFields, SyncSeenType DEF TypeOK
  <2> QED
    BY <1>0, <1>3, <2>1
<1> QED
  BY <1>3, <1>4, <1>8, <1>9 DEF IInv

\* addAltchainBlock: a heavier tip can only be the block just added.
LEMMA AddAltchainInv ==
  ASSUME IInv, AddAltchainBlock PROVE IInv'
<1>0. /\ TypeOK /\ Good(db) /\ Contents = db /\ cur \in Blocks
      /\ cur \notin blocks /\ Prev[cur] \in blocks /\ CheckBlock(cur)
      /\ sync.diff >= db.top.cum
  BY DEF IInv, AddAltchainBlock, Admitted
<1>1. /\ blocks = db.blocks /\ topo = db.topo /\ applied = db.applied
      /\ tips = db.tips /\ top = db.top
  BY <1>0 DEF Contents
<1>2. /\ blocks \in SUBSET Blocks
      /\ topo \in [Heights -> Blocks \cup {NoBlock}]
      /\ applied \in [Blocks -> Int]
      /\ tips \in [Blocks -> Tip] /\ top \in Tip
  BY <1>0, ViewFields
<1>3. /\ blocks' = blocks \cup {cur}
      /\ tips' = ExtendedTips(cur)
      /\ UNCHANGED <<db, topo, applied, top, cur, nHash, n, sync>>
  BY DEF AddAltchainBlock
<1>4. tips' \in [Blocks -> Tip]
  BY <1>0, <1>2, <1>3, ChainAssumption, TipOfType DEF ExtendedTips, Tip
<1>5. /\ TreeOK(blocks') /\ Height[cur] > 0
  BY <1>0, <1>1, <1>2, <1>3, AdmittedTree DEF Good
<1>6. TipsOK(tips', blocks')
  <2> SUFFICES ASSUME NEW k \in Blocks, tips'[k].hash # NoBlock
               PROVE  TipOK(tips'[k], blocks')
    BY DEF TipsOK
  <2>1. \/ tips'[k] = tips[k]
        \/ tips'[k].hash = cur /\ tips'[k].cum = CumDiff[cur]
    <3>1. CASE tips[Prev[cur]].hash # NoBlock
      <4>1. tips' = [tips EXCEPT ![Prev[cur]] =
                       [hash |-> cur, height |-> tips[Prev[cur]].height + 1,
                        cum |-> CumDiff[cur]]]
        BY <1>3, <3>1 DEF ExtendedTips
      <4> QED
        BY <1>2, <4>1
    <3>2. CASE tips[Prev[cur]].hash = NoBlock
      BY <1>2, <1>3, <3>2 DEF ExtendedTips, TipOf
    <3> QED
      BY <3>1, <3>2
  <2>2. tips'[k] = tips[k] => TipOK(tips[k], blocks)
    BY <1>0, <1>1 DEF Good, TipsOK
  <2> QED
    BY <1>3, <2>1, <2>2 DEF TipOK
<1>7. Contents' \in Store
  BY <1>0, <1>2, <1>3, <1>4 DEF Contents, Store
<1>8. Good(db)' /\ sync'.diff >= db'.top.cum
  BY <1>0, <1>3
<1>9. OneNewBlock'
  BY <1>0, <1>1, <1>3 DEF OneNewBlock
<1>10. \A t \in Heavier(tips') :
         /\ t \in Tip /\ t.hash = cur /\ t.cum = CumDiff[cur] /\ t.cum > db.top.cum
  <2> SUFFICES ASSUME NEW t \in Heavier(tips')
               PROVE  /\ t \in Tip /\ t.hash = cur
                      /\ t.cum = CumDiff[cur] /\ t.cum > db.top.cum
    OBVIOUS
  <2>1. t \in Tip /\ TipOK(t, blocks') /\ t.cum > db.top.cum
    BY <1>1, <1>4, <1>6 DEF Heavier, TipsOK
  <2>2. t.hash \in blocks' /\ CumDiff[t.hash] > db.top.cum
    BY <2>1 DEF TipOK
  <2>3. \A b \in blocks : CumDiff[b] <= db.top.cum
    BY <1>0, <1>1 DEF Good
  <2>4. db.top.cum \in Nat /\ \A b \in blocks : CumDiff[b] \in Nat
    BY <1>0, <1>2, StoreFields, ChainAssumption DEF TypeOK
  <2> QED
    BY <1>3, <2>1, <2>2, <2>3, <2>4 DEF TipOK
<1>11. CASE /\ Heavier(tips') = {} /\ pc' = "commit"
            /\ UNCHANGED <<alt, hashes, common>>
  <2>1. TypeOK'
    BY <1>0, <1>3, <1>7, <1>11 DEF TypeOK, Locations
  <2>2. CumDiff[cur] <= top.cum
    <3>1. PICK k \in Blocks : tips'[k].hash = cur /\ tips'[k].cum = CumDiff[cur]
      BY <1>0, <1>2, <1>3 DEF ExtendedTips, TipOf
    <3>2. CumDiff[cur] \in Nat /\ top.cum \in Nat
      BY <1>0, <1>2, ChainAssumption DEF Tip
    <3>3. ASSUME CumDiff[cur] > top.cum PROVE FALSE
      <4>1. \A j \in Blocks : tips'[j].hash # NoBlock => tips'[j].cum <= CumDiff[cur]
        <5> SUFFICES ASSUME NEW j \in Blocks, tips'[j].hash # NoBlock
                     PROVE  tips'[j].cum <= CumDiff[cur]
          OBVIOUS
        <5>1. tips'[j].hash \in blocks' /\ tips'[j].cum = CumDiff[tips'[j].hash]
          BY <1>6 DEF TipsOK, TipOK
        <5>2. tips'[j].hash = cur \/ CumDiff[tips'[j].hash] <= top.cum
          BY <1>0, <1>1, <1>3, <5>1 DEF Good
        <5>3. CumDiff[tips'[j].hash] \in Nat
          BY <1>0, <1>2, <1>3, <5>1, ChainAssumption
        <5> QED
          BY <3>2, <3>3, <5>1, <5>2, <5>3
      <4>2. tips'[k] \in Heavier(tips')
        BY <1>0, <3>1, <3>3, <4>1, ChainAssumption DEF Heavier
      <4> QED
        BY <1>11, <4>2
    <3> QED
      BY <3>2, <3>3
  <2>3. Good(Contents)'
    <3>1. IsMainChain(topo', blocks', top'.hash) /\ LedgerMatches(topo', applied')
      BY <1>0, <1>1, <1>3, MoreBlocks DEF Good
    <3>2. TipOK(top', blocks')
      BY <1>0, <1>1, <1>3 DEF Good, TipOK
    <3>3. \A b \in blocks' : CumDiff[b] <= top'.cum
      BY <1>0, <1>1, <1>3, <2>2 DEF Good
    <3> QED
      BY <1>5, <1>6, <3>1, <3>2, <3>3 DEF Good, Contents
  <2>4. ~(CumDiff[cur] > CumDiff[db.top.hash])
    <3>1. db.top.cum = CumDiff[db.top.hash]
      BY <1>0 DEF Good, TipOK
    <3>2. CumDiff[cur] \in Nat /\ db.top.cum \in Nat
      BY <1>0, StoreFields, ChainAssumption DEF TypeOK
    <3> QED
      BY <1>1, <2>2, <3>1, <3>2
  <2>5. InvCommit'
    BY <1>0, <1>1, <1>3, <1>9, <2>3, <2>4 DEF InvCommit
  <2> QED
    BY <1>8, <1>11, <2>1, <2>5 DEF IInv
<1>12. CASE /\ alt' \in Heavier(tips') /\ hashes' = <<alt'.hash>>
            /\ common' = alt'.hash /\ pc' = "reorg1"
  <2>1. alt' \in Tip /\ alt'.hash = cur /\ alt'.cum = CumDiff[cur] /\ alt'.cum > db.top.cum
    BY <1>10, <1>12
  <2>2. hashes' = <<cur>> /\ hashes' \in Seq(Blocks) /\ Len(hashes') = 1
        /\ hashes'[1] = cur /\ hashes' # <<>>
    BY <1>0, <1>12, <2>1
  <2>3. TypeOK'
    BY <1>0, <1>3, <1>7, <1>12, <2>1, <2>2 DEF TypeOK, Locations
  <2>4. InReorg'
    BY <1>1, <1>3, <1>5, <1>6, <1>9, <2>1 DEF InReorg
  <2>5. BranchOK'
    BY <1>3, <1>5, <2>2 DEF BranchOK
  <2>6. Inv1'
    BY <1>1, <1>3, <1>12, <2>1, <2>2 DEF Inv1, Lowest
  <2> QED
    BY <1>8, <1>12, <2>3, <2>4, <2>5, <2>6 DEF IInv
<1> QED
  BY <1>11, <1>12 DEF AddAltchainBlock

\* In step 1 the walk stops above the lowest altchain block seen so far.
LEMMA BranchFacts ==
  ASSUME TypeOK, BranchOK, hashes # <<>>
  PROVE  /\ Len(hashes) \in Nat /\ Len(hashes) >= 1
         /\ Lowest = hashes[Len(hashes)]
         /\ Lowest \in blocks /\ Lowest \in Blocks
         /\ Height[Lowest] > 0
<1>1. hashes \in Seq(Blocks) /\ Len(hashes) \in Nat /\ Len(hashes) >= 1
  BY DEF TypeOK
<1> QED
  BY <1>1, ViewFields DEF BranchOK, Lowest

\* Step 1 goes one block further down the altchain.
LEMMA WalkBackInv ==
  ASSUME IInv, WalkBack PROVE IInv'
<1>0. /\ TypeOK /\ Good(db) /\ InReorg /\ BranchOK /\ Inv1
      /\ sync.diff >= db.top.cum /\ pc = "reorg1"
  BY DEF IInv, WalkBack
<1>1. /\ UNCHANGED <<db, blocks, topo, applied, tips, top, pc, cur, alt, nHash, n, sync>>
      /\ Contents' = Contents
      /\ common' = Prev[common] /\ hashes' = Append(hashes, Prev[common])
      /\ Prev[common] \in blocks /\ Height[Prev[common]] # 0
  BY DEF WalkBack, view, Contents
<1>2. /\ Len(hashes) \in Nat /\ Len(hashes) >= 1 /\ hashes \in Seq(Blocks)
      /\ common = hashes[Len(hashes)]
  BY <1>0, BranchFacts DEF Inv1, TypeOK
<1>3. Prev[common] \in Blocks /\ Height[Prev[common]] > 0
  BY <1>0, <1>1, ViewFields, ChainAssumption
<1>4. /\ Len(hashes') = Len(hashes) + 1
      /\ hashes'[Len(hashes) + 1] = Prev[common]
      /\ \A i \in 1..Len(hashes) : hashes'[i] = hashes[i]
      /\ hashes' \in Seq(Blocks) /\ hashes' # <<>>
  BY <1>1, <1>2, <1>3
<1>5. TypeOK'
  BY <1>0, <1>1, <1>3, <1>4 DEF TypeOK
<1>6. BranchOK'
  <2>1. ASSUME NEW i \in 1..Len(hashes')
        PROVE  hashes'[i] \in blocks' /\ Height[hashes'[i]] > 0
    BY <1>0, <1>1, <1>2, <1>3, <1>4 DEF BranchOK
  <2>2. ASSUME NEW i \in 1..(Len(hashes') - 1)
        PROVE  Prev[hashes'[i]] = hashes'[i + 1]
    <3>1. CASE i = Len(hashes)
      BY <1>2, <1>4, <3>1
    <3>2. CASE i < Len(hashes)
      BY <1>0, <1>2, <1>4, <3>2 DEF BranchOK
    <3> QED
      BY <1>2, <1>4, <3>1, <3>2
  <2>3. hashes'[1] = cur'
    BY <1>0, <1>1, <1>2, <1>4 DEF BranchOK
  <2> QED
    BY <2>1, <2>2, <2>3 DEF BranchOK
<1>7. InReorg'
  BY <1>0, <1>1 DEF InReorg, OneNewBlock
<1>8. Inv1'
  BY <1>0, <1>1, <1>2, <1>4 DEF Inv1, Lowest
<1> QED
  BY <1>0, <1>1, <1>5, <1>6, <1>7, <1>8 DEF IInv

\* Step 1 finds the common block: it is on the main chain, so the top is not
\* below it.
LEMMA FoundCommonInv ==
  ASSUME IInv, FoundCommonBlock PROVE IInv'
<1>0. /\ TypeOK /\ Good(db) /\ InReorg /\ BranchOK /\ Inv1
      /\ sync.diff >= db.top.cum
  BY DEF IInv, FoundCommonBlock
<1>1. /\ UNCHANGED <<db, blocks, topo, applied, tips, top, cur, alt, hashes, sync>>
      /\ Contents' = Contents /\ pc' = "reorg2"
      /\ common' = Prev[common] /\ nHash' = top.hash /\ n' = top.hash
      /\ Prev[common] \in blocks /\ Height[Prev[common]] # 0
      /\ topo[Height[Prev[common]]] = Prev[common]
  BY DEF FoundCommonBlock, view, Contents
<1>2. Prev[common] \in Blocks /\ Height[Prev[common]] > 0
  BY <1>0, <1>1, ViewFields, ChainAssumption
<1>3. /\ top.hash \in blocks /\ top.hash \in Blocks
      /\ IsMainChain(topo, blocks, top.hash) /\ LedgerMatches(topo, applied)
  <2>1. top.hash \in db.blocks /\ db.blocks \subseteq blocks
    BY <1>0 DEF Good, TipOK, InReorg, OneNewBlock
  <2>2. IsMainChain(db.topo, db.blocks, top.hash) /\ LedgerMatches(topo, applied)
    BY <1>0 DEF Good, InReorg, Inv1
  <2> QED
    BY <1>0, <2>1, <2>2, MoreBlocks, ViewFields DEF Inv1
<1>4. Height[top.hash] >= Height[Prev[common]]
  <2>1. /\ Height[Prev[common]] \in Heights /\ Height[Prev[common]] \in Nat
        /\ Height[top.hash] \in Nat /\ Prev[common] # NoBlock
    BY <1>2, <1>3, ChainAssumption, HeightsFacts
  <2> QED
    BY <1>1, <1>3, <2>1 DEF IsMainChain
<1>5. TypeOK'
  BY <1>0, <1>1, <1>2, <1>3 DEF TypeOK, Locations
<1>6. InReorg' /\ BranchOK'
  BY <1>0, <1>1 DEF InReorg, OneNewBlock, BranchOK
<1>7. Inv2'
  <2>1. hashes' # <<>> /\ Prev[Lowest'] = common'
    BY <1>0, <1>1 DEF Inv1, Lowest
  <2>2. Height[n'] >= Height[nHash'] /\ n' \in Blocks
    BY <1>1, <1>3, ChainAssumption
  <2> QED
    BY <1>1, <1>2, <1>3, <1>4, <2>1, <2>2 DEF Inv2
<1> QED
  BY <1>0, <1>1, <1>5, <1>6, <1>7 DEF IInv

\* Step 2 undoes one mainchain block, which is above the common block.
LEMMA UndoInv ==
  ASSUME IInv, UndoBlock PROVE IInv'
<1>0. /\ TypeOK /\ Good(db) /\ InReorg /\ BranchOK /\ Inv2
      /\ sync.diff >= db.top.cum /\ pc = "reorg2" /\ nHash # common
  BY DEF IInv, UndoBlock
<1>1. /\ UNCHANGED <<db, blocks, tips, top, pc, cur, alt, hashes, common, sync>>
      /\ topo' = [topo EXCEPT ![Height[nHash]] = NoBlock]
      /\ applied' = [applied EXCEPT ![nHash] = @ - 1]
      /\ n' = nHash /\ nHash' = Prev[nHash]
  BY DEF UndoBlock
<1>2. /\ blocks \in SUBSET Blocks
      /\ topo \in [Heights -> Blocks \cup {NoBlock}]
      /\ applied \in [Blocks -> Int]
      /\ tips \in [Blocks -> Tip] /\ top \in Tip
  BY <1>0, ViewFields
<1>3. /\ nHash \in blocks /\ nHash \in Blocks /\ common \in Blocks
      /\ Height[nHash] \in Nat /\ Height[common] \in Nat /\ Height[common] > 0
      /\ Height[nHash] \in Heights /\ Height[common] \in Heights
      /\ Height[nHash] >= Height[common]
      /\ topo[Height[common]] = common
      /\ IsMainChain(topo, blocks, nHash) /\ LedgerMatches(topo, applied)
  BY <1>0, <1>2, ChainAssumption, HeightsFacts DEF Inv2
<1>4. Height[nHash] > Height[common]
  <2>1. topo[Height[nHash]] = nHash
    BY <1>3 DEF IsMainChain
  <2> QED
    BY <1>0, <1>3, <2>1
<1>5. /\ Prev[nHash] \in blocks
      /\ Height[Prev[nHash]] = Height[nHash] - 1
      /\ IsMainChain(topo', blocks, Prev[nHash])
      /\ LedgerMatches(topo', applied')
  <2>1. Height[nHash] > 0
    BY <1>3, <1>4
  <2>2. /\ Prev[nHash] \in blocks
        /\ Height[Prev[nHash]] = Height[nHash] - 1
        /\ IsMainChain([topo EXCEPT ![Height[nHash]] = NoBlock], blocks, Prev[nHash])
        /\ LedgerMatches([topo EXCEPT ![Height[nHash]] = NoBlock],
                         [applied EXCEPT ![nHash] = @ - 1])
    BY <1>2, <1>3, <2>1, RetractChain
  <2> QED
    BY <1>1, <2>2
<1>6. TypeOK'
  <2>1. Contents' \in Store
    BY <1>1, <1>2, <1>3 DEF Contents, Store
  <2> QED
    BY <1>0, <1>1, <1>2, <1>3, <1>5, <2>1 DEF TypeOK
<1>7. InReorg' /\ BranchOK'
  BY <1>0, <1>1 DEF InReorg, OneNewBlock, BranchOK
<1>8. Inv2'
  <2>1. hashes' # <<>> /\ Prev[Lowest'] = common'
    BY <1>0, <1>1 DEF Inv2, Lowest
  <2>2. topo'[Height[common]] = common
    BY <1>1, <1>2, <1>3, <1>4
  <2>3. Height[Prev[nHash]] >= Height[common] /\ Height[nHash] >= Height[Prev[nHash]]
    BY <1>3, <1>4, <1>5
  <2> QED
    BY <1>0, <1>1, <1>3, <1>5, <2>1, <2>2, <2>3 DEF Inv2
<1> QED
  BY <1>0, <1>1, <1>6, <1>7, <1>8 DEF IInv

\* Step 2 ends: the main chain now ends where the altchain branches off.
LEMMA UndoDoneInv ==
  ASSUME IInv, UndoDone PROVE IInv'
<1>0. /\ TypeOK /\ Good(db) /\ InReorg /\ BranchOK /\ Inv2
      /\ sync.diff >= db.top.cum /\ nHash = common
  BY DEF IInv, UndoDone
<1>1. /\ UNCHANGED <<db, blocks, topo, applied, tips, top, cur, alt, hashes, common, nHash, n, sync>>
      /\ Contents' = Contents /\ pc' = "reorg3"
  BY DEF UndoDone, view, reorgVars, Contents
<1>2. TypeOK'
  BY <1>0, <1>1 DEF TypeOK, Locations
<1>3. InReorg' /\ BranchOK'
  BY <1>0, <1>1 DEF InReorg, OneNewBlock, BranchOK
<1>4. Inv3'
  <2>1. hashes' # <<>> /\ Rebuilt' = nHash
    BY <1>0, <1>1 DEF Inv2, Rebuilt, Lowest
  <2> QED
    BY <1>0, <1>1, <2>1 DEF Inv2, Inv3
<1> QED
  BY <1>0, <1>1, <1>2, <1>3, <1>4 DEF IInv

\* Dropping the last element of a sequence.
LEMMA DropLast ==
  ASSUME NEW S, NEW s \in Seq(S), NEW m \in Nat, Len(s) = m + 1
  PROVE  /\ Len(SubSeq(s, 1, m)) = m
         /\ SubSeq(s, 1, m) \in Seq(S)
         /\ \A i \in 1..m : SubSeq(s, 1, m)[i] = s[i]
OBVIOUS

\* Step 3 applies the lowest altchain block on its previous block.
LEMMA ApplyInv ==
  ASSUME IInv, ApplyBlock PROVE IInv'
<1> DEFINE low == hashes[Len(hashes)]
<1>0. /\ TypeOK /\ Good(db) /\ InReorg /\ BranchOK /\ Inv3
      /\ sync.diff >= db.top.cum /\ pc = "reorg3" /\ hashes # <<>>
  BY DEF IInv, ApplyBlock
<1>1. /\ UNCHANGED <<db, blocks, tips, top, pc, cur, alt, common, nHash, n>>
      /\ topo' = [topo EXCEPT ![Height[low]] = low]
      /\ applied' = [applied EXCEPT ![low] = @ + 1]
      /\ hashes' = SubSeq(hashes, 1, Len(hashes) - 1)
      /\ sync' = SyncSeen(low)
      /\ Prev[low] \in blocks
  BY DEF ApplyBlock, Lowest
<1>2. /\ blocks \in SUBSET Blocks
      /\ topo \in [Heights -> Blocks \cup {NoBlock}]
      /\ applied \in [Blocks -> Int]
      /\ tips \in [Blocks -> Tip] /\ top \in Tip
  BY <1>0, ViewFields
<1>3. /\ Len(hashes) \in Nat /\ Len(hashes) >= 1 /\ hashes \in Seq(Blocks)
      /\ low \in blocks /\ low \in Blocks /\ Height[low] > 0
  BY <1>0, BranchFacts DEF TypeOK
<1>4. /\ Len(hashes') = Len(hashes) - 1
      /\ hashes' \in Seq(Blocks)
      /\ \A i \in 1..(Len(hashes) - 1) : hashes'[i] = hashes[i]
  <2> DEFINE m == Len(hashes) - 1
  <2>1. m \in Nat /\ Len(hashes) = m + 1 /\ hashes' = SubSeq(hashes, 1, m)
    BY <1>1, <1>3
  <2> HIDE DEF m
  <2>2. /\ Len(hashes') = m
        /\ hashes' \in Seq(Blocks)
        /\ \A i \in 1..m : hashes'[i] = hashes[i]
    BY <1>3, <2>1, DropLast
  <2> QED
    BY <2>2 DEF m
<1>5. (hashes' = <<>>) <=> (Len(hashes) = 1)
  BY <1>3, <1>4
<1>6. /\ \A i \in 1..Len(hashes) : hashes[i] \in blocks /\ Height[hashes[i]] > 0
      /\ \A i \in 1..(Len(hashes) - 1) : Prev[hashes[i]] = hashes[i + 1]
      /\ hashes[1] = cur
  BY <1>0 DEF BranchOK
<1>7. Rebuilt = Prev[low]
  BY <1>0 DEF Rebuilt, Lowest
<1>8. Rebuilt' = low
  <2>1. CASE Len(hashes) = 1
    BY <1>1, <1>5, <1>6, <2>1 DEF Rebuilt
  <2>2. CASE Len(hashes) # 1
    <3>1. Len(hashes) - 1 \in 1..(Len(hashes) - 1) /\ (Len(hashes) - 1) + 1 = Len(hashes)
      <4>1. \A l \in Nat : l >= 1 /\ l # 1 => l - 1 \in 1..(l - 1) /\ (l - 1) + 1 = l
        OBVIOUS
      <4>2. Len(hashes) \in Nat /\ Len(hashes) >= 1 /\ Len(hashes) # 1
        BY <1>3, <2>2
      <4> QED
        BY <4>1, <4>2
    <3>2. Lowest' = hashes[Len(hashes) - 1]
      BY <1>4, <3>1 DEF Lowest
    <3> QED
      BY <1>5, <1>6, <2>2, <3>1, <3>2 DEF Rebuilt
  <2> QED
    BY <2>1, <2>2
<1>9. Height[low] = Height[Prev[low]] + 1
  <2>1. low # Genesis
    BY <1>3, ChainAssumption
  <2> QED
    BY <1>0, <1>3, <2>1 DEF InReorg, TreeOK
<1> HIDE DEF low
<1>10. /\ IsMainChain(topo', blocks, low)
       /\ LedgerMatches(topo', applied')
  <2>1. IsMainChain(topo, blocks, Prev[low]) /\ LedgerMatches(topo, applied)
    BY <1>0, <1>7 DEF Inv3
  <2>2. Prev[low] \in Blocks /\ blocks \subseteq blocks
    BY <1>1, <1>2
  <2>3. /\ IsMainChain([topo EXCEPT ![Height[low]] = low], blocks, low)
        /\ LedgerMatches([topo EXCEPT ![Height[low]] = low],
                         [applied EXCEPT ![low] = @ + 1])
    BY <1>2, <1>3, <1>9, <2>1, <2>2, ExtendChain
  <2> QED
    BY <1>1, <2>3
<1>11. /\ sync' \in [height : Nat, diff : Nat]
       /\ sync'.diff >= sync.diff /\ sync'.diff >= CumDiff[low]
  BY <1>0, <1>1, <1>3, SyncSeenType DEF TypeOK
<1>12. TypeOK'
  <2>1. Contents' \in Store
    BY <1>1, <1>2, <1>3, HeightsFacts DEF Contents, Store
  <2> QED
    BY <1>0, <1>1, <1>4, <1>11, <2>1 DEF TypeOK
<1>13. InReorg'
  BY <1>0, <1>1 DEF InReorg, OneNewBlock
<1>14. BranchOK'
  <2>1. ASSUME NEW i \in 1..Len(hashes')
        PROVE  hashes'[i] \in blocks' /\ Height[hashes'[i]] > 0
    BY <1>1, <1>3, <1>4, <1>6
  <2>2. ASSUME NEW i \in 1..(Len(hashes') - 1)
        PROVE  Prev[hashes'[i]] = hashes'[i + 1]
    BY <1>3, <1>4, <1>6
  <2>3. hashes' # <<>> => hashes'[1] = cur'
    BY <1>1, <1>3, <1>4, <1>5, <1>6
  <2> QED
    BY <2>1, <2>2, <2>3 DEF BranchOK
<1>15. Inv3'
  <2>1. hashes' = <<>> => sync'.diff >= alt'.cum
    BY <1>0, <1>1, <1>5, <1>6, <1>11 DEF InReorg, low
  <2> QED
    BY <1>1, <1>8, <1>10, <2>1 DEF Inv3
<1>16. Good(db)' /\ sync'.diff >= db'.top.cum
  <2>1. sync'.diff \in Nat /\ sync.diff \in Nat /\ db.top.cum \in Nat
    BY <1>0, <1>11, StoreFields DEF TypeOK
  <2> QED
    BY <1>0, <1>1, <1>11, <2>1
<1> QED
  BY <1>0, <1>1, <1>12, <1>13, <1>14, <1>15, <1>16 DEF IInv

\* Step 3 ends: every altchain block is applied.
LEMMA ApplyDoneInv ==
  ASSUME IInv, ApplyDone PROVE IInv'
<1>0. /\ TypeOK /\ Good(db) /\ InReorg /\ BranchOK /\ Inv3
      /\ sync.diff >= db.top.cum /\ hashes = <<>>
  BY DEF IInv, ApplyDone
<1>1. /\ UNCHANGED <<db, blocks, topo, applied, tips, top, cur, alt, hashes, common, nHash, n, sync>>
      /\ Contents' = Contents /\ pc' = "reorg4"
  BY DEF ApplyDone, view, reorgVars, Contents
<1>2. TypeOK'
  BY <1>0, <1>1 DEF TypeOK, Locations
<1>3. InReorg' /\ BranchOK' /\ Inv3'
  BY <1>0, <1>1 DEF InReorg, OneNewBlock, BranchOK, Inv3, Rebuilt, Lowest
<1> QED
  BY <1>0, <1>1, <1>2, <1>3 DEF IInv

\* Step 4: the rebuilt chain ends in the new block, the heaviest of all.
LEMMA SwitchTopInv ==
  ASSUME IInv, SwitchTop PROVE IInv'
<1>0. /\ TypeOK /\ Good(db) /\ InReorg /\ Inv3
      /\ sync.diff >= db.top.cum /\ hashes = <<>>
  BY DEF IInv, SwitchTop
<1>1. /\ UNCHANGED <<db, blocks, topo, applied, cur, alt, hashes, common, nHash, n, sync>>
      /\ tips' = [tips EXCEPT ![alt.hash] = NoTip, ![top.hash] = top]
      /\ top' = alt /\ pc' = "commit"
  BY DEF SwitchTop, reorgVars
<1>2. /\ blocks \in SUBSET Blocks
      /\ topo \in [Heights -> Blocks \cup {NoBlock}]
      /\ applied \in [Blocks -> Int]
      /\ tips \in [Blocks -> Tip] /\ top \in Tip /\ alt \in Tip
  BY <1>0, ViewFields DEF TypeOK
<1>3. /\ cur \in Blocks /\ cur \notin db.blocks /\ blocks = db.blocks \cup {cur}
      /\ alt.hash = cur /\ alt.cum = CumDiff[cur] /\ alt.cum > db.top.cum
      /\ top = db.top /\ TreeOK(blocks) /\ TipsOK(tips, blocks)
  BY <1>0 DEF InReorg, OneNewBlock
<1>4. \A k \in Blocks : tips'[k] \in {tips[k], NoTip, top}
  BY <1>1, <1>2
<1>5. tips' \in [Blocks -> Tip]
  <2>1. DOMAIN tips' = Blocks /\ tips' = [k \in Blocks |-> tips'[k]]
    BY <1>1, <1>2
  <2>2. \A k \in Blocks : tips'[k] \in Tip
    BY <1>2, <1>4, NoTipType
  <2> QED
    BY <2>1, <2>2
<1>6. TypeOK'
  <2>1. Contents' \in Store
    BY <1>1, <1>2, <1>5 DEF Contents, Store
  <2> QED
    BY <1>0, <1>1, <2>1 DEF TypeOK, Locations
<1>7. TipOK(top, blocks)
  BY <1>0, <1>3 DEF Good, TipOK
<1>8. TipsOK(tips', blocks')
  <2> SUFFICES ASSUME NEW k \in Blocks, tips'[k].hash # NoBlock
               PROVE  TipOK(tips'[k], blocks')
    BY DEF TipsOK
  <2>1. tips'[k] = tips[k] \/ tips'[k] = top
    BY <1>4 DEF NoTip
  <2> QED
    BY <1>1, <1>3, <1>7, <2>1 DEF TipsOK
<1>9. TipOK(top', blocks') /\ top'.hash = cur /\ top'.cum = CumDiff[cur]
  BY <1>1, <1>3 DEF TipOK
<1>10. \A b \in blocks' : CumDiff[b] <= top'.cum
  <2> SUFFICES ASSUME NEW b \in blocks' PROVE CumDiff[b] <= CumDiff[cur]
    BY <1>9
  <2>1. CumDiff[b] \in Nat /\ CumDiff[cur] \in Nat /\ db.top.cum \in Nat
    BY <1>0, <1>1, <1>2, <1>3, StoreFields, ChainAssumption DEF TypeOK
  <2>2. b = cur \/ CumDiff[b] <= db.top.cum
    BY <1>0, <1>1, <1>3 DEF Good
  <2> QED
    BY <1>3, <2>1, <2>2
<1>11. IsMainChain(topo', blocks', top'.hash) /\ LedgerMatches(topo', applied')
  BY <1>0, <1>1, <1>9 DEF Inv3, Rebuilt
<1>12. Good(Contents)'
  BY <1>1, <1>3, <1>8, <1>9, <1>10, <1>11 DEF Good, Contents
<1>13. CumDiff[cur] > CumDiff[db.top.hash]
  BY <1>0, <1>3 DEF Good, TipOK
<1>14. sync'.diff >= top'.cum
  BY <1>0, <1>1 DEF Inv3
<1>15. OneNewBlock'
  BY <1>0, <1>1 DEF InReorg, OneNewBlock
<1>16. InvCommit'
  BY <1>1, <1>9, <1>12, <1>13, <1>14, <1>15 DEF InvCommit
<1> QED
  BY <1>0, <1>1, <1>6, <1>16 DEF IInv

\* The database addGenesis leaves satisfies the invariant.
LEMMA InitInv ==
  ASSUME Init PROVE IInv
<1>1. /\ blocks = {Genesis} /\ top = TipOf(Genesis) /\ db = Contents
      /\ topo = [h \in Heights |-> IF h = 0 THEN Genesis ELSE NoBlock]
      /\ applied = [b \in Blocks |-> IF b = Genesis THEN 1 ELSE 0]
      /\ tips = [b \in Blocks |-> NoTip]
      /\ pc = "idle" /\ cur = NoBlock /\ alt = NoTip /\ hashes = <<>>
      /\ common = NoBlock /\ nHash = NoBlock /\ n = NoBlock
      /\ sync = [height |-> 0, diff |-> CumDiff[Genesis]]
  BY DEF Init
<1>2. /\ Genesis \in Blocks /\ NoBlock \notin Blocks
      /\ Height[Genesis] = 0 /\ CumDiff[Genesis] \in Nat
  BY ChainAssumption
<1>3. Contents \in Store
  BY <1>1, <1>2, TipOfType, NoTipType, ContentsType
<1>4. TypeOK
  BY <1>1, <1>2, <1>3, NoTipType DEF TypeOK, Locations
<1>5. IsMainChain(topo, blocks, Genesis)
  BY <1>1, <1>2, HeightsFacts DEF IsMainChain
<1>6. LedgerMatches(topo, applied)
  BY <1>1, <1>2, HeightsFacts, ChainAssumption DEF LedgerMatches
<1>7. TipsOK(tips, blocks) /\ TreeOK(blocks)
  BY <1>1 DEF TipsOK, TreeOK, NoTip
<1>8. /\ top.hash = Genesis /\ top.cum = CumDiff[Genesis]
      /\ TipOK(top, blocks) /\ \A b \in blocks : CumDiff[b] <= top.cum
  BY <1>1, <1>2 DEF TipOf, TipOK
<1>9. Good(Contents)
  BY <1>5, <1>6, <1>7, <1>8 DEF Good, Contents
<1>10. sync.diff >= db.top.cum
  BY <1>1, <1>2, <1>8 DEF Contents
<1> QED
  BY <1>1, <1>4, <1>9, <1>10 DEF IInv

\* Every step preserves the invariant; the error returns are rollbacks.
LEMMA StepInv ==
  ASSUME IInv, [Next]_vars PROVE IInv'
<1>1. ASSUME NEW b \in Blocks, Begin(b) PROVE IInv'
  BY <1>1, BeginInv
<1>2. CASE \/ RefuseDuplicate \/ RefuseOrphan \/ RefuseInvalid \/ RefuseStake
           \/ AddMainchainBlockFails \/ FailCommonBlock \/ UndoFails \/ ApplyFails
  BY <1>2, RollbackInv
     DEF RefuseDuplicate, RefuseOrphan, RefuseInvalid, RefuseStake, AddMainchainBlockFails,
         FailCommonBlock, UndoFails, ApplyFails
<1>3. CASE \/ AddMainchainBlock \/ AddAltchainBlock \/ WalkBack \/ FoundCommonBlock
  BY <1>3, AddMainchainInv, AddAltchainInv, WalkBackInv, FoundCommonInv
<1>4. CASE UndoBlock \/ UndoDone \/ ApplyBlock \/ ApplyDone \/ SwitchTop
  BY <1>4, UndoInv, UndoDoneInv, ApplyInv, ApplyDoneInv, SwitchTopInv
<1>5. CASE Commit \/ Crash
  BY <1>5, CommitInv, CrashInv
<1>6. CASE UNCHANGED vars
  <2>1. UNCHANGED <<db, blocks, topo, applied, tips, top, pc, cur, alt, hashes,
                    common, nHash, n, sync>>
    BY <1>6 DEF vars, view, reorgVars
  <2> QED
    BY <2>1 DEF IInv, TypeOK, Contents, InReorg, OneNewBlock, BranchOK, Inv1, Inv2,
                Inv3, InvCommit, Rebuilt, Lowest
<1> QED
  BY <1>1, <1>2, <1>3, <1>4, <1>5, <1>6 DEF Next, Step

\* The invariant holds in every state of every behaviour.
THEOREM Invariance == Spec => []IInv
<1>1. Init => IInv
  BY InitInv
<1>2. IInv /\ [Next]_vars => IInv'
  BY StepInv
<1> QED
  BY <1>1, <1>2, PTL DEF Spec

-----------------------------------------------------------------------------
(* What the invariant gives.                                               *)

\* Every variable keeps its type along every path of AddBlock and
\* CheckReorgs, for every block tree.
THEOREM TypeCorrect == Spec => []TypeOK
<1>1. IInv => TypeOK
  BY DEF IInv
<1> QED
  BY <1>1, Invariance, PTL

\* The committed height index is the chain that ends in TopHash and the
\* ledger holds each of its blocks once, whatever extensions, reorganisations,
\* failures and crashes led there.
THEOREM MainChainCorrect == Spec => []MainChainConsistent
<1>1. IInv => MainChainConsistent
  BY DEF IInv, Good, MainChainConsistent
<1> QED
  BY <1>1, Invariance, PTL

\* No stored block of any branch is heavier than the head of the main chain.
THEOREM HeadIsHeaviest == Spec => []NoHeavierBlock
<1>1. IInv => NoHeavierBlock
  BY DEF IInv, Good, TipOK, NoHeavierBlock
<1> QED
  BY <1>1, Invariance, PTL

\* Step 2 of CheckReorgs never undoes past the fork nor meets a block that is
\* not stored.
THEOREM UndoStops == Spec => []UndoStopsAtFork
<1>1. IInv => UndoStopsAtFork
  <2> SUFFICES ASSUME IInv, pc = "reorg2"
               PROVE  /\ nHash \in blocks /\ Height[n] # 0
                      /\ Height[nHash] >= Height[common]
    BY DEF UndoStopsAtFork
  <2>1. TypeOK /\ Inv2
    BY DEF IInv
  <2>2. /\ Height[n] \in Nat /\ Height[nHash] \in Nat /\ Height[common] \in Nat
    BY <2>1, ViewFields, ChainAssumption DEF Inv2
  <2> QED
    BY <2>1, <2>2 DEF Inv2
<1> QED
  BY <1>1, Invariance, PTL

\* SyncDiff, which is kept in memory outside the transaction, is never below
\* the weight of the committed main chain.
THEOREM SyncCovers == Spec => []SyncNotBehind
<1>1. IInv => SyncNotBehind
  BY DEF IInv, SyncNotBehind
<1> QED
  BY <1>1, Invariance, PTL

\* Only Commit changes the database, and what it commits is one new block
\* and the head that the fork choice rule gives.
LEMMA CommittedStep ==
  ASSUME IInv, [Next]_vars, db' # db
  PROVE  /\ cur \in Blocks /\ cur \notin db.blocks /\ Prev[cur] \in db.blocks
         /\ db'.blocks = db.blocks \cup {cur}
         /\ db'.top.hash = IF CumDiff[cur] > CumDiff[db.top.hash] THEN cur ELSE db.top.hash
         /\ db.top.cum = CumDiff[db.top.hash] /\ db'.top.cum = CumDiff[db'.top.hash]
<1>1. Commit
  BY DEF Next, Step, vars, Begin, Crash, RefuseDuplicate, RefuseOrphan, RefuseInvalid, RefuseStake,
         AddMainchainBlock, AddMainchainBlockFails, AddAltchainBlock, FailCommonBlock,
         WalkBack, FoundCommonBlock, UndoBlock, UndoFails, UndoDone, ApplyBlock,
         ApplyFails, ApplyDone, SwitchTop, Rollback
<1>2. InvCommit /\ Good(db) /\ Good(Contents) /\ db' = Contents
  BY <1>1 DEF IInv, Commit, InvCommit
<1>3. db'.blocks = blocks /\ db'.top = top
  BY <1>2 DEF Contents
<1> QED
  BY <1>2, <1>3 DEF InvCommit, OneNewBlock, Good, TipOK

\* The main chain only moves to a strictly heavier block.
THEOREM HeadGrows == Spec => OnlyToHeavier
<1>1. IInv /\ [Next]_vars =>
        [db'.top.hash # db.top.hash => db'.top.cum > db.top.cum]_db
  <2> SUFFICES ASSUME IInv, [Next]_vars, db' # db, db'.top.hash # db.top.hash
               PROVE  db'.top.cum > db.top.cum
    OBVIOUS
  <2> QED
    BY CommittedStep
<1> QED
  BY <1>1, Invariance, PTL DEF Spec, OnlyToHeavier

\* The ledger above the block a chain ends in.
LEMMA LedgerAbove ==
  ASSUME NEW index, NEW counts, NEW stored, NEW t \in Blocks,
         IsMainChain(index, stored, t), LedgerMatches(index, counts)
  PROVE  /\ counts[t] = 1
         /\ \A c \in Blocks : Height[c] > Height[t] => counts[c] = 0
         /\ \A c \in Blocks \ {t} : Height[c] >= Height[t] => counts[c] = 0
<1>1. /\ \A c \in Blocks : Height[c] \in Nat /\ Height[c] \in Heights /\ c # NoBlock
  BY ChainAssumption, HeightsFacts
<1>2. counts[t] = 1
  BY DEF IsMainChain, LedgerMatches
<1>3. ASSUME NEW c \in Blocks, Height[c] > Height[t] PROVE counts[c] = 0
  BY <1>1, <1>3 DEF IsMainChain, LedgerMatches
<1>4. ASSUME NEW c \in Blocks \ {t}, Height[c] = Height[t] PROVE counts[c] = 0
  BY <1>1, <1>4 DEF IsMainChain, LedgerMatches
<1> QED
  BY <1>1, <1>2, <1>3, <1>4

\* What LedgerLIFO says of one step, for the ledger before and after it.
LIFOStep(before, after) ==
  \A b \in Blocks :
    /\ after[b] > before[b] =>
         /\ before[Prev[b]] = 1
         /\ \A c \in Blocks : Height[c] >= Height[b] => before[c] = 0
    /\ after[b] < before[b] =>
         \A c \in Blocks \ {b} : Height[c] >= Height[b] => before[c] = 0

\* Applying a block on the chain that ends in its previous block.
LEMMA LIFOExtend ==
  ASSUME NEW index, NEW counts \in [Blocks -> Int], NEW stored,
         NEW b \in Blocks, Prev[b] \in Blocks, Height[b] = Height[Prev[b]] + 1,
         IsMainChain(index, stored, Prev[b]), LedgerMatches(index, counts)
  PROVE  LIFOStep(counts, [counts EXCEPT ![b] = @ + 1])
<1>1. /\ counts[Prev[b]] = 1
      /\ \A c \in Blocks : Height[c] > Height[Prev[b]] => counts[c] = 0
  BY LedgerAbove
<1>2. \A c \in Blocks : Height[c] \in Nat
  BY ChainAssumption
<1>3. \A c \in Blocks : Height[c] >= Height[b] => counts[c] = 0
  BY <1>1, <1>2
<1>4. \A c \in Blocks \ {b} : [counts EXCEPT ![b] = @ + 1][c] = counts[c]
  OBVIOUS
<1>5. counts[b] \in Int /\ [counts EXCEPT ![b] = @ + 1][b] = counts[b] + 1
  OBVIOUS
<1>6. \A c \in Blocks : counts[c] \in Int
  OBVIOUS
<1> HIDE DEF LIFOStep
<1> DEFINE after == [counts EXCEPT ![b] = @ + 1]
<1>7. /\ \A c \in Blocks \ {b} : after[c] = counts[c]
      /\ after[b] = counts[b] + 1
  BY <1>4, <1>5
<1> HIDE DEF after
<1>8. LIFOStep(counts, after)
  BY <1>1, <1>3, <1>5, <1>6, <1>7 DEF LIFOStep
<1> QED
  BY <1>8 DEF after

\* Undoing the block a chain ends in.
LEMMA LIFORetract ==
  ASSUME NEW index, NEW counts \in [Blocks -> Int], NEW stored,
         NEW b \in Blocks,
         IsMainChain(index, stored, b), LedgerMatches(index, counts)
  PROVE  LIFOStep(counts, [counts EXCEPT ![b] = @ - 1])
<1> DEFINE after == [counts EXCEPT ![b] = @ - 1]
<1>1. \A c \in Blocks \ {b} : Height[c] >= Height[b] => counts[c] = 0
  BY LedgerAbove
<1>2. /\ \A c \in Blocks \ {b} : after[c] = counts[c]
      /\ after[b] = counts[b] - 1
      /\ \A c \in Blocks : counts[c] \in Int
  OBVIOUS
<1> HIDE DEF after
<1>3. LIFOStep(counts, after)
  BY <1>1, <1>2 DEF LIFOStep
<1> QED
  BY <1>3 DEF after

\* Inside a transaction blocks are applied and undone like a stack.
THEOREM LedgerIsStack == Spec => LedgerLIFO
<1>1. ASSUME IInv, Next, pc' # "idle" PROVE LIFOStep(applied, applied')
  <2>0. TypeOK /\ blocks \in SUBSET Blocks /\ applied \in [Blocks -> Int]
    BY <1>1, ViewFields DEF IInv
  <2>1. CASE applied' = applied
    <3>1. \A b \in Blocks : applied[b] \in Int
      BY <2>0
    <3> QED
      BY <2>1, <3>1 DEF LIFOStep
  <2>2. CASE AddMainchainBlock
    <3>1. /\ Good(db) /\ Contents = db /\ cur \in Blocks
          /\ Prev[cur] \in blocks /\ Prev[cur] = top.hash
          /\ Height[cur] = Height[Prev[cur]] + 1
          /\ applied' = [applied EXCEPT ![cur] = @ + 1]
      BY <1>1, <2>2 DEF IInv, AddMainchainBlock, Admitted, CheckBlock
    <3>2. IsMainChain(topo, blocks, Prev[cur]) /\ LedgerMatches(topo, applied)
      BY <3>1 DEF Good, Contents
    <3> QED
      BY <2>0, <3>1, <3>2, LIFOExtend
  <2>3. CASE UndoBlock
    <3>1. Inv2 /\ applied' = [applied EXCEPT ![nHash] = @ - 1]
      BY <1>1, <2>3 DEF IInv, UndoBlock
    <3>2. nHash \in Blocks /\ IsMainChain(topo, blocks, nHash) /\ LedgerMatches(topo, applied)
      BY <2>0, <3>1 DEF Inv2
    <3> QED
      BY <2>0, <3>1, <3>2, LIFORetract
  <2>4. CASE ApplyBlock
    <3>1. /\ BranchOK /\ Inv3 /\ hashes # <<>>
          /\ Prev[Lowest] \in blocks
          /\ Height[Lowest] = Height[Prev[Lowest]] + 1
          /\ applied' = [applied EXCEPT ![Lowest] = @ + 1]
      BY <1>1, <2>4 DEF IInv, ApplyBlock, CheckBlock
    <3>2. Lowest \in Blocks /\ Prev[Lowest] \in Blocks
      BY <2>0, <3>1, BranchFacts
    <3>3. IsMainChain(topo, blocks, Prev[Lowest]) /\ LedgerMatches(topo, applied)
      BY <3>1 DEF Inv3, Rebuilt
    <3> QED
      BY <2>0, <3>1, <3>2, <3>3, LIFOExtend
  <2>5. CASE \E b \in Blocks : Begin(b)
    <3>1. Contents = db /\ applied' = db.applied
      BY <1>1, <2>5 DEF IInv, Begin, ReadCommitted
    <3> QED
      BY <2>1, <3>1 DEF Contents
  <2> QED
    BY <1>1, <2>1, <2>2, <2>3, <2>4, <2>5
       DEF Next, Step, Crash, RefuseDuplicate, RefuseOrphan, RefuseInvalid, RefuseStake,
           AddMainchainBlockFails, AddAltchainBlock, FailCommonBlock, WalkBack,
           FoundCommonBlock, UndoFails, UndoDone, ApplyFails, ApplyDone, SwitchTop,
           Commit, Rollback, LeaveAddBlock, view
<1>2. IInv /\ [Next]_vars => [pc' # "idle" => LIFOStep(applied, applied')]_vars
  BY <1>1
<1>3. Spec => [][pc' # "idle" => LIFOStep(applied, applied')]_vars
  BY <1>2, Invariance, PTL DEF Spec
<1> QED
  BY <1>3 DEF LedgerLIFO, LIFOStep

\* The committed database behaves like ForkChoice: the head follows the
\* heaviest-first-seen rule through every reorganisation, failure and crash.
THEOREM Refinement == Spec => ImplementsForkChoice
<1>1. Init => FC!Init
  BY DEF Init, FC!Init, Contents, TipOf
<1>2. IInv /\ [Next]_vars => [FC!Next]_(FC!vars)
  <2> SUFFICES ASSUME IInv, [Next]_vars PROVE [FC!Next]_(FC!vars)
    OBVIOUS
  <2>1. CASE db' = db
    BY <2>1 DEF FC!vars
  <2>2. CASE db' # db
    <3>1. cur \in Blocks /\ FC!Accept(cur)
      BY <2>2, CommittedStep DEF FC!Accept
    <3> QED
      BY <3>1 DEF FC!Next
  <2> QED
    BY <2>1, <2>2
<1> QED
  BY <1>1, <1>2, Invariance, PTL DEF Spec, ImplementsForkChoice, FC!Spec
-----------------------------------------------------------------------------
(* The heights of tips.                                                    *)

HighTip(t) == t.hash # NoBlock => t.height >= Height[t.hash]

\* A stored tip is not below its block nor below the block its key names,
\* which the next block to extend it is a child of.
HighTips(map) == \A k \in Blocks : HighTip(map[k]) /\ (map[k].hash # NoBlock => map[k].height >= Height[k])

HighInv ==
  /\ HighTips(db.tips) /\ HighTip(db.top)
  /\ HighTips(tips) /\ HighTip(top) /\ HighTip(alt)

\* A side block makes a tip, or extends one, that is high enough.
LEMMA HighExtended ==
  ASSUME IInv, HighTips(tips), Admitted
  PROVE  HighTips(ExtendedTips(cur))
<1>1. /\ cur \in Blocks /\ Prev[cur] \in Blocks /\ Height[cur] = Height[Prev[cur]] + 1
      /\ tips \in [Blocks -> Tip]
  BY DEF Admitted, IInv, TypeOK, Store, Contents, CheckBlock
<1>2. Height[cur] \in Nat /\ \A k \in Blocks : tips[k].height \in Nat /\ Height[k] \in Nat
  BY <1>1, ChainAssumption DEF Tip
<1>3. PICK p : p = Prev[cur]
  OBVIOUS
<1>4. CASE tips[p].hash # NoBlock
  <2>1. PICK t : t = [hash |-> cur, height |-> tips[p].height + 1, cum |-> CumDiff[cur]]
    OBVIOUS
  <2>2. ExtendedTips(cur) = [tips EXCEPT ![p] = t]
    BY <1>3, <1>4, <2>1 DEF ExtendedTips
  <2>3. t.hash = cur /\ t.height = tips[p].height + 1 /\ tips[p].height >= Height[p]
    BY <1>1, <1>3, <1>4, <2>1 DEF HighTips
  <2>4. t.height >= Height[cur] /\ t.height >= Height[p]
    BY <1>1, <1>2, <1>3, <2>3
  <2> QED
    BY <1>1, <1>3, <2>2, <2>3, <2>4 DEF HighTips, HighTip
<1>5. CASE tips[p].hash = NoBlock
  <2>1. ExtendedTips(cur) = [tips EXCEPT ![cur] = TipOf(cur)]
    BY <1>3, <1>5 DEF ExtendedTips
  <2>2. TipOf(cur).height = Height[cur] /\ TipOf(cur).hash = cur
    BY DEF TipOf
  <2>3. PICK t : t = TipOf(cur)
    OBVIOUS
  <2>4. t.hash = cur /\ t.height >= Height[cur]
    BY <1>2, <2>2, <2>3
  <2> QED
    BY <1>1, <2>1, <2>3, <2>4 DEF HighTips, HighTip
<1> QED
  BY <1>4, <1>5

LEMMA HighStep ==
  ASSUME IInv, HighInv, [Next]_vars
  PROVE  HighInv'
<1>0. HighTip(NoTip) /\ NoTip.hash = NoBlock
  BY DEF HighTip, NoTip
<1>1. CASE LeaveAddBlock /\ ReadCommitted /\ db' = db
  BY <1>0, <1>1 DEF HighInv, HighTips, HighTip, LeaveAddBlock, ReadCommitted
<1>2. CASE \E b \in Blocks : Begin(b)
  BY <1>2 DEF HighInv, HighTips, HighTip, Begin, ReadCommitted, reorgVars
<1>3. CASE Commit
  BY <1>0, <1>3 DEF HighInv, HighTips, HighTip, Commit, LeaveAddBlock, Contents, view
<1>4. CASE AddMainchainBlock
  <2>1. cur \in Blocks /\ Height[cur] \in Nat
    BY <1>4, ChainAssumption DEF AddMainchainBlock, Admitted, IInv
  <2>2. top'.hash = cur /\ top'.height = Height[cur]
    BY <1>4 DEF AddMainchainBlock, TipOf
  <2>3. HighTip(top')
    BY <2>1, <2>2 DEF HighTip
  <2> QED
    BY <1>4, <2>3 DEF HighInv, HighTips, HighTip, AddMainchainBlock, reorgVars
<1>5. CASE AddAltchainBlock
  <2>1. Admitted /\ tips' = ExtendedTips(cur)
    BY <1>5 DEF AddAltchainBlock
  <2>2. HighTips(tips')
    BY <2>1, HighExtended DEF HighInv
  <2>3. alt' = alt \/ \E k \in Blocks : alt' = tips'[k]
    BY <1>5 DEF AddAltchainBlock, Heavier
  <2>4. HighTip(alt')
    BY <2>2, <2>3 DEF HighTips, HighInv, HighTip
  <2> QED
    BY <1>5, <2>2, <2>4 DEF HighInv, HighTips, HighTip, AddAltchainBlock
<1>6. CASE SwitchTop
  <2>1. tips \in [Blocks -> Tip]
    BY DEF IInv, TypeOK, Store, Contents
  <2>2. tips' = [tips EXCEPT ![alt.hash] = NoTip, ![top.hash] = top] /\ top' = alt
    BY <1>6 DEF SwitchTop
  <2>3. \A k \in Blocks : (tips'[k] = tips[k] \/ tips'[k] = NoTip) \/ (k = top.hash /\ tips'[k] = top)
    BY <2>1, <2>2
  <2>4. HighTips(tips')
    BY <1>0, <2>3 DEF HighInv, HighTips, HighTip
  <2> QED
    BY <1>6, <2>2, <2>4 DEF HighInv, HighTips, HighTip, SwitchTop, reorgVars
<1>7. CASE UNCHANGED <<db, tips, top, alt>>
  BY <1>7 DEF HighInv, HighTips, HighTip
<1> QED
  BY <1>1, <1>2, <1>3, <1>4, <1>5, <1>6, <1>7
     DEF Next, Step, Crash, RefuseDuplicate, RefuseOrphan, RefuseInvalid, RefuseStake,
         AddMainchainBlockFails, FailCommonBlock, WalkBack, FoundCommonBlock, UndoBlock,
         UndoFails, UndoDone, ApplyBlock, ApplyFails, ApplyDone, Rollback, view, reorgVars, vars

\* TopHeight and the heights of the tips may be wrong by what repeated siblings
\* add (blockchain.go:558) and are never below the block's own, for every tree.
THEOREM TopNotBelow == Spec => []TipsNotBelow
<1>1. Init => HighInv
  BY ChainAssumption DEF Init, HighInv, HighTips, HighTip, NoTip, TipOf, Contents
<1>2. IInv /\ HighInv /\ [Next]_vars => HighInv'
  BY HighStep
<1>3. IInv /\ HighInv => TipsNotBelow
  <2> SUFFICES ASSUME IInv, HighInv PROVE TipsNotBelow
    OBVIOUS
  <2>1. db.top.hash # NoBlock
    <3>1. db.top.hash \in db.blocks /\ db.blocks \subseteq Blocks
      BY DEF IInv, Good, TipOK, TypeOK, Store
    <3> QED
      BY <3>1, ChainAssumption
  <2> QED
    BY <2>1 DEF HighInv, HighTips, HighTip, TipsNotBelow
<1> QED
  BY <1>1, <1>2, <1>3, Invariance, PTL DEF Spec
=============================================================================
