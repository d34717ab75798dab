-------------------------- MODULE BlockSyncProofs --------------------------
(***************************************************************************)
(* Proofs about BlockSync, for every tree of blocks, any number of peers   *)
(* and any number of faults: type correctness, which includes that every   *)
(* height asked for is the height of a block, and that the target of the   *)
(* download is one block, whoever wrote it last.                           *)
(***************************************************************************)
EXTENDS BlockSync, NatLemmas, TLAPS

-----------------------------------------------------------------------------
(* The tree of blocks.                                                     *)

\* Induction along the chain, for a set of blocks.
LEMMA TreeInduction ==
  ASSUME NEW S, Genesis \in S, \A b \in Blocks \ {Genesis} : Prev[b] \in S => b \in S
  PROVE  Blocks \subseteq S
<1> SUFFICES ASSUME Blocks \ S # {} PROVE FALSE
  OBVIOUS
<1> DEFINE T == {Height[b] : b \in Blocks \ S}
<1>1. T \subseteq Nat /\ T # {}
  BY TreeAssumption
<1>2. PICK x \in T : \A y \in T : x <= y
  BY <1>1, LeastNat
<1>3. PICK b \in Blocks \ S : x = Height[b]
  OBVIOUS
<1>4. b # Genesis /\ Prev[b] \in Blocks /\ Height[b] = Height[Prev[b]] + 1
  BY TreeAssumption
<1>5. Height[Prev[b]] \in T
  BY <1>4
<1>6. Height[Prev[b]] \in Nat
  BY <1>4, TreeAssumption
<1>7. Height[b] <= Height[Prev[b]]
  BY <1>2, <1>3, <1>5
<1> QED BY <1>4, <1>6, <1>7

\* The recursive equation of Branch has a solution, the blocks that every set
\* closed under Prev has in common; so Branch satisfies it.
LEMMA BranchEquation ==
   Branch = [b \in Blocks |-> IF b = Genesis THEN {Genesis} ELSE {b} \cup Branch[Prev[b]]]
<1> DEFINE Closed(S) == \A y \in S \ {Genesis} : Prev[y] \in S
           F == [b \in Blocks |->
                   {x \in Blocks : \A S \in SUBSET Blocks : b \in S /\ Closed(S) => x \in S}]
<1>0. /\ Genesis \in Blocks
      /\ \A b \in Blocks \ {Genesis} : Prev[b] \in Blocks
  BY TreeAssumption
<1>1. F[Genesis] = {Genesis}
  <2>1. Closed({Genesis}) /\ {Genesis} \in SUBSET Blocks
    BY <1>0
  <2> QED BY <1>0, <2>1
<1>2. \A b \in Blocks : F[b] \in SUBSET Blocks /\ Closed(F[b]) /\ b \in F[b]
  BY <1>0
<1>3. ASSUME NEW b \in Blocks, b # Genesis
      PROVE  F[b] = {b} \cup F[Prev[b]]
  <2>1. {b} \cup F[Prev[b]] \subseteq F[b]
    BY <1>0, <1>3
  <2>2. Closed({b} \cup F[Prev[b]]) /\ {b} \cup F[Prev[b]] \in SUBSET Blocks
    BY <1>0, <1>2, <1>3
  <2>3. F[b] \subseteq {b} \cup F[Prev[b]]
    BY <2>2
  <2> QED BY <2>1, <2>3
<1>4. F = [b \in Blocks |-> IF b = Genesis THEN {Genesis} ELSE {b} \cup F[Prev[b]]]
  BY <1>1, <1>3
<1>5. \E f : f = [b \in Blocks |-> IF b = Genesis THEN {Genesis} ELSE {b} \cup f[Prev[b]]]
  BY <1>4
<1> HIDE DEF F, Closed
<1> QED BY <1>5 DEF Branch

\* A branch contains its block and the genesis, and nothing but blocks.
LEMMA BranchBlocks ==
  \A b \in Blocks : Branch[b] \subseteq Blocks /\ b \in Branch[b] /\ Genesis \in Branch[b]
<1>0. /\ Genesis \in Blocks
      /\ \A b \in Blocks \ {Genesis} : Prev[b] \in Blocks
  BY TreeAssumption
<1> DEFINE S == {b \in Blocks : Branch[b] \subseteq Blocks /\ b \in Branch[b] /\ Genesis \in Branch[b]}
<1>1. Branch[Genesis] = {Genesis}
  BY <1>0, BranchEquation
<1>2. \A b \in Blocks \ {Genesis} : Branch[b] = {b} \cup Branch[Prev[b]]
  BY BranchEquation
<1>3. Genesis \in S
  BY <1>0, <1>1
<1>4. \A b \in Blocks \ {Genesis} : Prev[b] \in S => b \in S
  BY <1>2
<1>5. Blocks \subseteq S
  BY <1>3, <1>4, TreeInduction
<1> QED BY <1>5

\* No block is below the genesis.
LEMMA GenesisLowest == \A b \in Blocks : Height[Genesis] <= Height[b]
<1> DEFINE S == {b \in Blocks : Height[Genesis] <= Height[b]}
<1>1. Genesis \in S
  BY TreeAssumption
<1>2. ASSUME NEW b \in Blocks \ {Genesis}, Prev[b] \in S
      PROVE  b \in S
  <2>1. /\ Height[b] = Height[Prev[b]] + 1
        /\ Height[b] \in Nat /\ Height[Prev[b]] \in Nat /\ Height[Genesis] \in Nat
    BY <1>2, TreeAssumption
  <2> QED BY <1>2, <2>1
<1>3. Blocks \subseteq S
  BY <1>1, <1>2, TreeInduction
<1> QED BY <1>3

\* There is a block at every height between two blocks.
LEMMA NextHeight ==
  ASSUME NEW l \in Blocks, NEW b \in Blocks, Height[b] > Height[l]
  PROVE  Height[l] + 1 \in Heights
<1> DEFINE T == {Height[x] : x \in {y \in Blocks : Height[y] > Height[l]}}
<1>0. Height \in [Blocks -> Nat] /\ Genesis \in Blocks
  BY TreeAssumption
<1>1. T \subseteq Nat /\ T # {}
  BY <1>0
<1>2. PICK h \in T : \A y \in T : h <= y
  BY <1>1, LeastNat
<1>3. PICK m \in Blocks : Height[m] > Height[l] /\ h = Height[m]
  BY <1>2
<1>4. m # Genesis
  <2>1. Height[Genesis] <= Height[l] /\ Height[Genesis] \in Nat /\ Height[l] \in Nat
    BY <1>0, GenesisLowest
  <2> QED BY <1>3, <2>1
<1>5. Prev[m] \in Blocks /\ Height[m] = Height[Prev[m]] + 1
  BY <1>4, TreeAssumption
<1>6. Height[Prev[m]] \in Nat /\ Height[l] \in Nat /\ Height[m] \in Nat
  BY <1>0, <1>5
<1>7. ~(Height[Prev[m]] > Height[l])
  <2> SUFFICES ASSUME Height[Prev[m]] > Height[l] PROVE FALSE
    OBVIOUS
  <2>1. Height[Prev[m]] \in T
    BY <1>5
  <2> QED BY <1>2, <1>3, <1>5, <1>6, <2>1
<1>8. Height[m] = Height[l] + 1
  BY <1>3, <1>5, <1>6, <1>7
<1> QED BY <1>8 DEF Heights

-----------------------------------------------------------------------------
(* The queue of missing parents.                                           *)

\* What the operations of BlockQueue are given and return.
Queues == UNION {[K -> [due : BOOLEAN, expired : BOOLEAN]] : K \in SUBSET (Blocks \ {Genesis})}

\* What is queued for download is a block, never the genesis.
LEMMA QueueType ==
  ASSUME NEW q \in Queues
  PROVE  /\ DOMAIN q \subseteq Blocks \ {Genesis}
         /\ q \in [DOMAIN q -> [due : BOOLEAN, expired : BOOLEAN]]
BY DEF Queues

\* SetBlock keeps the queue well formed.
LEMMA SetBlockType ==
  ASSUME NEW q \in Queues, NEW h \in Blocks \ {Genesis}
  PROVE  SetBlock(q, h) \in Queues
<1>1. DOMAIN q \subseteq Blocks \ {Genesis} /\ q \in [DOMAIN q -> [due : BOOLEAN, expired : BOOLEAN]]
  BY QueueType
<1>2. SetBlock(q, h) \in [DOMAIN q \cup {h} -> [due : BOOLEAN, expired : BOOLEAN]]
  BY <1>1 DEF SetBlock, NewQueuedBlock
<1> QED BY <1>1, <1>2 DEF Queues

\* BlockDownloaded keeps the queue well formed.
LEMMA BlockDownloadedType ==
  ASSUME NEW q \in Queues, NEW h
  PROVE  BlockDownloaded(q, h) \in Queues
<1>1. DOMAIN q \subseteq Blocks \ {Genesis} /\ q \in [DOMAIN q -> [due : BOOLEAN, expired : BOOLEAN]]
  BY QueueType
<1>2. BlockDownloaded(q, h) \in [DOMAIN q -> [due : BOOLEAN, expired : BOOLEAN]]
  BY <1>1 DEF BlockDownloaded
<1> QED BY <1>1, <1>2 DEF Queues

\* Taking out expired entries keeps the queue well formed.
LEMMA CleanupType ==
  ASSUME NEW q \in Queues
  PROVE  Cleanup(q) \in Queues
<1> DEFINE live == {k \in DOMAIN q : ~q[k].expired}
<1>1. DOMAIN q \subseteq Blocks \ {Genesis} /\ q \in [DOMAIN q -> [due : BOOLEAN, expired : BOOLEAN]]
  BY QueueType
<1>2. Cleanup(q) \in [live -> [due : BOOLEAN, expired : BOOLEAN]] /\ live \subseteq Blocks \ {Genesis}
  BY <1>1 DEF Cleanup
<1> HIDE DEF live
<1> QED BY <1>2 DEF Queues

\* RemoveBlock keeps the queue well formed.
LEMMA RemoveBlockType ==
  ASSUME NEW q \in Queues, NEW h
  PROVE  RemoveBlock(q, h) \in Queues
<1> DEFINE r == [k \in DOMAIN q |-> IF k = h THEN [q[k] EXCEPT !.expired = TRUE] ELSE q[k]]
<1>1. DOMAIN q \subseteq Blocks \ {Genesis} /\ q \in [DOMAIN q -> [due : BOOLEAN, expired : BOOLEAN]]
  BY QueueType
<1>2. r \in [DOMAIN q -> [due : BOOLEAN, expired : BOOLEAN]]
  BY <1>1
<1>3. r \in Queues
  BY <1>1, <1>2 DEF Queues
<1>4. RemoveBlock(q, h) = Cleanup(r)
  BY DEF RemoveBlock
<1> HIDE DEF r
<1> QED BY <1>3, <1>4, CleanupType

\* An entry is requested, becomes due or expires.
LEMMA TouchType ==
  ASSUME NEW q \in Queues, NEW h \in DOMAIN q, NEW b \in BOOLEAN
  PROVE  [q EXCEPT ![h].due = b] \in Queues /\ [q EXCEPT ![h].expired = b] \in Queues
<1>1. DOMAIN q \subseteq Blocks \ {Genesis} /\ q \in [DOMAIN q -> [due : BOOLEAN, expired : BOOLEAN]]
  BY QueueType
<1>2. /\ [q EXCEPT ![h].due = b] \in [DOMAIN q -> [due : BOOLEAN, expired : BOOLEAN]]
      /\ [q EXCEPT ![h].expired = b] \in [DOMAIN q -> [due : BOOLEAN, expired : BOOLEAN]]
  BY <1>1
<1> QED BY <1>1, <1>2 DEF Queues

-----------------------------------------------------------------------------
(* The inductive invariant.                                                *)

ChainOK == stored \subseteq Blocks /\ head \in stored /\ Genesis \in stored

SyncOK ==
  /\ syncLast \in Nat /\ n \in 0 .. RetryAfter + 1
  /\ loop \in Blocks \cup {NoBlock}

NetOK ==
  /\ requests \subseteq Requests
  /\ inbound \subseteq [peer : Peers, block : Blocks]
  /\ statsIn \subseteq [peer : Peers, top : Blocks]

PeersOK == peerHead \in [Peers -> Blocks] /\ peerStats \in [Peers -> Blocks \cup {NoBlock}]

Inv ==
  /\ ChainOK /\ SyncOK /\ NetOK /\ PeersOK
  /\ queue \in Queues
  /\ asks \subseteq Asks
  /\ faults \in 0 .. MaxFaults
  /\ TargetIsOneBlock

\* The type invariant is part of the inductive one.
LEMMA InvImplies == Inv => TypeOK
<1> SUFFICES ASSUME Inv PROVE TypeOK
  OBVIOUS
<1>1. /\ DOMAIN queue \subseteq Blocks \ {Genesis}
      /\ \A h \in DOMAIN queue : queue[h] \in [due : BOOLEAN, expired : BOOLEAN]
  BY QueueType DEF Inv
<1>2. syncHeight \in Nat /\ syncDiff \in Nat
  BY TreeAssumption DEF Inv, TargetIsOneBlock
<1> QED BY <1>1, <1>2 DEF Inv, ChainOK, SyncOK, NetOK, PeersOK, TypeOK

\* A node that knows only the genesis satisfies the invariant.
LEMMA InvInit == Init => Inv
<1> SUFFICES ASSUME Init PROVE Inv
  OBVIOUS
<1>0. /\ Own \in Blocks /\ Height \in [Blocks -> Nat] /\ CumDiff \in [Blocks -> Nat]
      /\ PeerStart \in [Peers -> Blocks] /\ MaxFaults \in Nat /\ RetryAfter \in Nat
  BY TreeAssumption, BoundAssumption
<1>1. ChainOK
  BY <1>0, BranchBlocks DEF Init, ChainOK
<1>2. SyncOK /\ PeersOK /\ NetOK
  BY <1>0 DEF Init, SyncOK, PeersOK, NetOK
<1>3. << >> \in [{} -> [due : BOOLEAN, expired : BOOLEAN]]
  OBVIOUS
<1>4. queue \in Queues
  BY <1>3 DEF Init, Queues
<1>5. TargetIsOneBlock
  BY <1>0 DEF Init, TargetIsOneBlock
<1> QED BY <1>0, <1>1, <1>2, <1>4, <1>5 DEF Init, Inv

-----------------------------------------------------------------------------
(* The loop Synchronize.                                                   *)

\* The synchronizer reads Stats.
LEMMA ReadStatsInv ==
  ASSUME Inv, ReadStats
  PROVE  Inv'
<1>1. head \in Blocks
  BY DEF Inv, ChainOK
<1>2. SyncOK'
  BY <1>1 DEF Inv, SyncOK, ReadStats
<1> QED BY <1>2 DEF Inv, ChainOK, NetOK, PeersOK, TargetIsOneBlock, ReadStats,
                    chain, target, net, peers

\* The range the loop asks for begins at the height of some block and is not
\* longer than PARALLEL_BLOCKS_DOWNLOAD.
LEMMA RangeType ==
  ASSUME Inv, loop \in Blocks, syncHeight > Height[loop]
  PROVE  LET count == Min({syncHeight - Height[loop], PARALLEL_BLOCKS_DOWNLOAD})
         IN  /\ Ask(Height[loop] + 1, count) \in Asks
             /\ count \in Nat
<1> DEFINE top   == Height[loop]
           count == Min({syncHeight - top, PARALLEL_BLOCKS_DOWNLOAD})
<1>0. top \in Nat /\ PARALLEL_BLOCKS_DOWNLOAD \in Nat \ {0}
  BY TreeAssumption, BoundAssumption
<1>1. PICK b \in Blocks : Height[b] = syncHeight
  BY DEF Inv, TargetIsOneBlock
<1>2. syncHeight \in Nat
  BY <1>1, TreeAssumption
<1>3. top + 1 \in Heights
  BY <1>1, NextHeight
<1>4. count \in Counts /\ count \in Nat
  <2>1. syncHeight - top \in Nat
    BY <1>0, <1>2
  <2> DEFINE A == syncHeight - top
             B == PARALLEL_BLOCKS_DOWNLOAD
  <2>2. \E x \in {A, B} : \A y \in {A, B} : x <= y
    BY <1>0, <2>1
  <2>3. count \in {A, B} /\ \A y \in {A, B} : count <= y
    BY <2>2 DEF Min
  <2> QED BY <1>0, <2>1, <2>3 DEF Counts
<1> QED BY <1>3, <1>4 DEF Ask, Asks

\* One round of the synchronizer: the range is fixed by the target, one block each.
LEMMA RequestRoundInv ==
  ASSUME Inv, RequestRound
  PROVE  Inv'
<1> DEFINE top     == Height[loop]
           waiting == syncLast > top /\ n <= RetryAfter
           count   == Min({syncHeight - top, PARALLEL_BLOCKS_DOWNLOAD})
           range   == IF ~waiting /\ syncHeight > top THEN {Ask(top + 1, count)} ELSE {}
<1>0. /\ loop \in Blocks /\ top \in Nat /\ RetryAfter \in Nat /\ CumDiff \in [Blocks -> Nat]
      /\ syncLast \in Nat /\ n \in 0 .. RetryAfter + 1 /\ asks \subseteq Asks /\ queue \in Queues
  BY TreeAssumption, BoundAssumption DEF Inv, SyncOK, RequestRound
<1>1. /\ \/ asks' = asks \cup range /\ UNCHANGED queue
         \/ \E h \in Requestable(queue) :
              /\ asks' = asks \cup range \cup {Ask(Height[h], 0)}
              /\ queue' = [queue EXCEPT ![h].due = FALSE]
      /\ n' = IF waiting THEN n + 1 ELSE 0
      /\ syncLast' = IF waiting THEN syncLast ELSE IF range = {} THEN top ELSE top + count
      /\ loop' = NoBlock
      /\ UNCHANGED <<chain, target, net, peers, faults>>
  BY DEF RequestRound
<1>2. range \subseteq Asks /\ (range # {} => count \in Nat)
  BY <1>0, RangeType
<1>3. \A h \in Requestable(queue) : h \in DOMAIN queue /\ h \in Blocks
  BY <1>0, QueueType DEF Requestable
<1>4. \A h \in Blocks : Ask(Height[h], 0) \in Asks
  <2>1. 0 \in Counts
    BY BoundAssumption DEF Counts
  <2> QED BY <1>0, <2>1 DEF Ask, Asks, Heights
<1> HIDE DEF range, count
<1>5. asks' \subseteq Asks
  BY <1>0, <1>1, <1>2, <1>3, <1>4
<1>6. queue' \in Queues
  BY <1>0, <1>1, <1>3, TouchType
<1>7. n' \in 0 .. RetryAfter + 1
  BY <1>0, <1>1
<1>8. syncLast' \in Nat
  BY <1>0, <1>1, <1>2
<1> HIDE DEF waiting, top
<1> QED BY <1>1, <1>5, <1>6, <1>7, <1>8
        DEF Inv, ChainOK, SyncOK, NetOK, PeersOK, TargetIsOneBlock, chain, target, net, peers

\* A request of the queue goes out.
LEMMA RequestBlockInv ==
  ASSUME Inv, NEW r \in asks, RequestBlock(r)
  PROVE  Inv'
<1>1. r \in Asks
  BY DEF Inv
<1>2. requests' \subseteq Requests
  BY <1>1 DEF Inv, NetOK, RequestBlock, Eligible, Asks, Requests
<1> QED BY <1>2 DEF Inv, ChainOK, SyncOK, NetOK, PeersOK, TargetIsOneBlock, RequestBlock,
                    chain, target, sync, peers

\* A queued request becomes due, or expires.
LEMMA QueueTimeInv ==
  ASSUME Inv, NEW h \in DOMAIN queue, BecomeDue(h) \/ Expire(h)
  PROVE  Inv'
<1>1. queue' \in Queues
  BY TouchType DEF Inv, BecomeDue, Expire
<1>2. UNCHANGED <<chain, target, sync, asks, net, peers, faults>>
  BY DEF BecomeDue, Expire
<1> QED BY <1>1, <1>2 DEF Inv, ChainOK, SyncOK, NetOK, PeersOK, TargetIsOneBlock,
                          chain, target, sync, net, peers

-----------------------------------------------------------------------------
(* Packets.                                                                *)

\* A peer announces its chain, whose head may become the target.
LEMMA PacketStatsInv ==
  ASSUME Inv, NEW m \in statsIn, PacketStats(m)
  PROVE  Inv'
<1>0. m.peer \in Peers /\ m.top \in Blocks /\ head \in Blocks /\ CumDiff \in [Blocks -> Nat]
  BY TreeAssumption DEF Inv, NetOK, ChainOK
<1>1. statsIn' \subseteq statsIn /\ peerStats' \in [Peers -> Blocks \cup {NoBlock}]
  BY <1>0 DEF Inv, PeersOK, PacketStats
<1>2. TargetIsOneBlock'
  <2>1. PICK b \in Blocks : Height[b] = syncHeight /\ CumDiff[b] = syncDiff /\ CumDiff[b] >= CumDiff[head]
    BY DEF Inv, TargetIsOneBlock
  <2>2. head' = head
    BY DEF PacketStats, chain
  <2>3. CumDiff[m.top] \in Nat /\ CumDiff[b] \in Nat /\ CumDiff[head] \in Nat
    BY <1>0
  <2>4. CASE CumDiff[m.top] > syncDiff
    <3>1. syncHeight' = Height[m.top] /\ syncDiff' = CumDiff[m.top]
      BY <2>4 DEF PacketStats
    <3>2. CumDiff[m.top] >= CumDiff[head]
      BY <2>1, <2>3, <2>4
    <3> QED BY <1>0, <2>2, <3>1, <3>2 DEF TargetIsOneBlock
  <2>5. CASE ~(CumDiff[m.top] > syncDiff)
    BY <2>1, <2>2, <2>5 DEF PacketStats, target, TargetIsOneBlock
  <2> QED BY <2>4, <2>5
<1> QED BY <1>1, <1>2 DEF Inv, ChainOK, SyncOK, NetOK, PeersOK, PacketStats, chain, sync

\* A downloaded block is added.
LEMMA AddBlockInv ==
  ASSUME Inv, NEW m \in inbound, AddBlock(m)
  PROVE  Inv'
<1> DEFINE b == m.block
<1>0. b \in Blocks /\ head \in Blocks /\ CumDiff \in [Blocks -> Nat]
  BY TreeAssumption DEF Inv, NetOK, ChainOK
<1>1. /\ stored' = stored \cup {b}
      /\ head' = IF CumDiff[b] > CumDiff[head] THEN b ELSE head
      /\ IF CumDiff[head'] > syncDiff
         THEN syncHeight' = Height[head'] /\ syncDiff' = CumDiff[head']
         ELSE UNCHANGED target
  BY DEF AddBlock
<1>2. ChainOK'
  BY <1>0, <1>1 DEF Inv, ChainOK
<1>3. queue' \in Queues
  BY BlockDownloadedType DEF Inv, AddBlock
<1>4. TargetIsOneBlock'
  <2>1. PICK t \in Blocks : Height[t] = syncHeight /\ CumDiff[t] = syncDiff /\ CumDiff[t] >= CumDiff[head]
    BY DEF Inv, TargetIsOneBlock
  <2>2. head' \in Blocks /\ CumDiff[head'] \in Nat /\ CumDiff[t] \in Nat
    BY <1>0, <1>1
  <2>3. CASE CumDiff[head'] > syncDiff
    BY <1>1, <2>2, <2>3 DEF TargetIsOneBlock
  <2>4. CASE ~(CumDiff[head'] > syncDiff)
    BY <1>1, <2>1, <2>2, <2>4 DEF TargetIsOneBlock, target
  <2> QED BY <2>3, <2>4
<1> QED BY <1>2, <1>3, <1>4 DEF Inv, SyncOK, NetOK, PeersOK, AddBlock, sync, peers

\* A block that is known already arrives.
LEMMA AddDuplicateInv ==
  ASSUME Inv, NEW m \in inbound, AddDuplicate(m)
  PROVE  Inv'
<1>1. queue' \in Queues
  BY BlockDownloadedType, RemoveBlockType DEF Inv, AddDuplicate
<1> QED BY <1>1 DEF Inv, ChainOK, SyncOK, NetOK, PeersOK, TargetIsOneBlock, AddDuplicate,
                    chain, target, sync, peers

\* The parent of an orphan is not stored, so it is never genesis that is queued.
LEMMA AddOrphanInv ==
  ASSUME Inv, NEW m \in inbound, AddOrphan(m)
  PROVE  Inv'
<1> DEFINE b == m.block
<1>0. b \in Blocks /\ b \notin stored /\ Prev[b] \notin stored /\ Genesis \in stored
  BY DEF Inv, NetOK, ChainOK, AddOrphan
<1>1. Prev[b] \in Blocks \ {Genesis}
  BY <1>0, TreeAssumption
<1>2. queue' \in Queues
  <2>1. BlockDownloaded(queue, b) \in Queues
    BY BlockDownloadedType DEF Inv
  <2>2. SetBlock(BlockDownloaded(queue, b), Prev[b]) \in Queues
    BY <1>1, <2>1, SetBlockType
  <2> QED BY <2>2, RemoveBlockType DEF AddOrphan
<1> QED BY <1>2 DEF Inv, ChainOK, SyncOK, NetOK, PeersOK, TargetIsOneBlock, AddOrphan,
                    chain, target, sync, peers

-----------------------------------------------------------------------------
(* The peers and the faults.                                               *)

\* A peer is asked for a block.
LEMMA PacketBlockRequestInv ==
  ASSUME Inv, NEW q \in requests, PacketBlockRequest(q)
  PROVE  Inv'
<1>1. q.peer \in Peers /\ peerHead[q.peer] \in Blocks
  BY DEF Inv, NetOK, PeersOK, Requests
<1>2. Branch[peerHead[q.peer]] \subseteq Blocks
  BY <1>1, BranchBlocks
<1>3. requests' \subseteq requests /\ inbound' \subseteq [peer : Peers, block : Blocks]
  BY <1>1, <1>2 DEF Inv, NetOK, PacketBlockRequest
<1> QED BY <1>3 DEF Inv, ChainOK, SyncOK, NetOK, PeersOK, TargetIsOneBlock, PacketBlockRequest,
                    chain, target, sync, peers

\* A peer extends or changes its own chain.
LEMMA PeerStepInv ==
  ASSUME Inv, NEW p \in Peers, NEW b \in Blocks \ {Genesis}, PeerExtends(p, b) \/ PeerReorganises(p, b)
  PROVE  Inv'
<1>1. peerHead' \in [Peers -> Blocks] /\ peerStats' = peerStats
  BY DEF Inv, PeersOK, PeerExtends, PeerReorganises
<1>2. NetOK'
  BY DEF Inv, NetOK, PeerExtends, PeerReorganises, net
<1>3. UNCHANGED <<chain, target, sync, queue, asks, faults>>
  BY DEF PeerExtends, PeerReorganises
<1> QED BY <1>1, <1>2, <1>3 DEF Inv, ChainOK, SyncOK, PeersOK, TargetIsOneBlock,
                                chain, target, sync

\* A packet is lost.
LEMMA LosePacketInv ==
  ASSUME Inv, LosePacket
  PROVE  Inv'
<1>1. faults' \in 0 .. MaxFaults
  BY BoundAssumption DEF Inv, LosePacket
<1>2. NetOK'
  BY DEF Inv, NetOK, LosePacket
<1> QED BY <1>1, <1>2 DEF Inv, ChainOK, SyncOK, PeersOK, TargetIsOneBlock, LosePacket,
                          chain, target, sync, peers

\* Connections break: what was on the wire is gone.
LEMMA ResetInv ==
  ASSUME Inv, NEW P \in SUBSET Peers, Reset(P)
  PROVE  NetOK' /\ PeersOK'
<1>1. \A p \in P : p \in Peers /\ peerHead[p] \in Blocks
  BY DEF Inv, PeersOK
<1>2. NetOK'
  BY <1>1 DEF Inv, NetOK, Reset
<1>3. PeersOK'
  BY DEF Inv, PeersOK, Reset
<1> QED BY <1>2, <1>3

\* A connection breaks and is made again.
LEMMA ReconnectInv ==
  ASSUME Inv, NEW p \in Peers, Reconnect(p)
  PROVE  Inv'
<1>1. faults' \in 0 .. MaxFaults
  BY BoundAssumption DEF Inv, Reconnect
<1>2. NetOK' /\ PeersOK'
  BY ResetInv DEF Reconnect
<1> QED BY <1>1, <1>2 DEF Inv, ChainOK, SyncOK, TargetIsOneBlock, Reconnect, chain, target, sync

\* The node restarts: what it had not stored is gone.
LEMMA RestartInv ==
  ASSUME Inv, Restart
  PROVE  Inv'
<1>1. faults' \in 0 .. MaxFaults
  BY BoundAssumption DEF Inv, Restart
<1>2. NetOK' /\ PeersOK'
  BY ResetInv DEF Restart
<1>3. queue' \in Queues
  <2>1. << >> \in [{} -> [due : BOOLEAN, expired : BOOLEAN]]
    OBVIOUS
  <2>2. << >> \in Queues
    BY <2>1 DEF Queues
  <2> QED BY <2>2, CleanupType DEF Inv, Restart
<1>4. TargetIsOneBlock'
  <2>1. head \in Blocks /\ head' = head
    BY DEF Inv, ChainOK, Restart, chain
  <2>2. CumDiff[head] \in Nat
    BY <2>1, TreeAssumption
  <2>3. syncHeight' = Height[head] /\ syncDiff' = CumDiff[head] /\ CumDiff[head] >= CumDiff[head]
    BY <2>2 DEF Restart
  <2> QED BY <2>1, <2>3 DEF TargetIsOneBlock
<1>5. ChainOK' /\ SyncOK' /\ asks' \subseteq Asks
  BY BoundAssumption DEF Inv, ChainOK, SyncOK, Restart, chain
<1> QED BY <1>1, <1>2, <1>3, <1>4, <1>5 DEF Inv

-----------------------------------------------------------------------------
(* The theorems.                                                           *)

\* Every step keeps the invariant.
LEMMA InvStep == Inv /\ [Next]_vars => Inv'
<1> SUFFICES ASSUME Inv, [Next]_vars PROVE Inv'
  OBVIOUS
<1>1. CASE Next
  BY <1>1, ReadStatsInv, RequestRoundInv, RequestBlockInv, QueueTimeInv, PacketStatsInv, AddBlockInv,
     AddDuplicateInv, AddOrphanInv, PacketBlockRequestInv, PeerStepInv, LosePacketInv, ReconnectInv,
     RestartInv
  DEF Next, Synchronize, PacketBlock
<1>2. CASE UNCHANGED vars
  BY <1>2 DEF vars, Inv, ChainOK, SyncOK, NetOK, PeersOK, TargetIsOneBlock,
              chain, target, sync, net, peers
<1> QED BY <1>1, <1>2

\* The inductive invariant holds in every state of every behaviour.
THEOREM Invariance == Spec => []Inv
BY InvInit, InvStep, PTL DEF Spec

\* Every variable keeps its type: in particular Synchronize only ever asks for
\* heights at which there is a block, in ranges of bounded length, and genesis
\* is never in the queue of missing parents.
THEOREM TypeCorrect == Spec => []TypeOK
BY Invariance, InvImplies, PTL

\* SyncHeight and SyncDiff always belong to one block that is not lighter than
\* the head, although packetStats, AddBlock and a restart write them.
THEOREM OneTarget == Spec => []TargetIsOneBlock
<1>1. Inv => TargetIsOneBlock
  BY DEF Inv
<1> QED BY <1>1, Invariance, PTL
=============================================================================
