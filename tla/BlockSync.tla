------------------------------ MODULE BlockSync ------------------------------
(***************************************************************************)
(* How a node downloads a chain it has heard of: the loop Synchronize, the *)
(* goroutines RequestBlock, the queue of missing parents (blockqueue.go),  *)
(* and the handlers of the packets STATS, BLOCK_REQUEST and BLOCK.  One    *)
(* node is followed in detail; its peers answer as the same code does.     *)
(*                                                                         *)
(* AddBlock is taken as ForkChoice has it (Chain implements ForkChoice):   *)
(* a block with a stored parent is stored, and the head moves to it when   *)
(* it is strictly heavier.  All blocks here are valid.                     *)
(*                                                                         *)
(* Time is not a number.  A queue entry is due when rerequest_time has     *)
(* passed since LastRequest, and expired when Expires has passed; both     *)
(* happen at any moment, except that an entry does not expire before it    *)
(* was requested once: it lives for a minute and the loop asks every 100   *)
(* milliseconds.                                                           *)
(***************************************************************************)
EXTENDS Integers, FiniteSetsExt

CONSTANTS
  Blocks,      \* all blocks that are ever mined
  Genesis,
  NoBlock,
  Prev,        \* Prev[b]: the previous block
  Height,
  CumDiff,     \* cumulative difficulty
  Own,         \* the block the node has at its head when the model starts
  Peers,
  PeerStart,   \* PeerStart[p]: the head of peer p at that time
  PARALLEL_BLOCKS_DOWNLOAD,
  RetryAfter,  \* rounds without answer before a range is asked for again: 20
  MaxFaults    \* bound: lost packets, broken connections and restarts

ASSUME TreeAssumption ==
  /\ Genesis \in Blocks /\ Own \in Blocks /\ NoBlock \notin Blocks
  /\ Prev \in [Blocks \ {Genesis} -> Blocks]
  /\ Height \in [Blocks -> Nat] /\ CumDiff \in [Blocks -> Nat]
  /\ \A b \in Blocks \ {Genesis} :
       Height[b] = Height[Prev[b]] + 1 /\ CumDiff[b] > CumDiff[Prev[b]]
  /\ PeerStart \in [Peers -> Blocks]

ASSUME BoundAssumption ==
  /\ PARALLEL_BLOCKS_DOWNLOAD \in Nat \ {0}
  /\ RetryAfter \in Nat /\ MaxFaults \in Nat

VARIABLES
  stored, head,              \* the blocks in the database, and Stats.TopHash
  syncHeight, syncDiff,      \* the target: SyncHeight, SyncDiff
  syncLast, n,               \* SyncLastRequestHeight, and the loop's counter
  loop,                      \* the head whose stats the loop has read, or NoBlock
  queue,                     \* BlockQueue: hash -> [due, expired]
  asks,                      \* goroutines that have not yet chosen a peer
  requests,                  \* BLOCK_REQUEST packets under way
  inbound,                   \* BLOCK packets under way to the node
  statsIn,                   \* STATS packets under way to the node
  peerHead,                  \* peerHead[p]: the head of peer p
  peerStats,                 \* PeerData.Stats: what p last said, or NoBlock
  faults

chain == <<stored, head>>
target == <<syncHeight, syncDiff>>
sync == <<syncLast, n, loop>>
net == <<requests, inbound, statsIn>>
peers == <<peerHead, peerStats>>
vars == <<chain, target, sync, queue, asks, net, peers, faults>>

-----------------------------------------------------------------------------
\* The blocks from genesis to b: the main chain of a node whose head is b.
Branch[b \in Blocks] ==
  IF b = Genesis THEN {Genesis} ELSE {b} \cup Branch[Prev[b]]

\* NewQueuedBlock, as AddBlock makes it: never requested, one minute to live.
NewQueuedBlock == [due |-> TRUE, expired |-> FALSE]

\* SetBlock with replace: the entry starts anew if the hash is queued already.
SetBlock(q, h) == [k \in DOMAIN q \cup {h} |-> IF k = h THEN NewQueuedBlock ELSE q[k]]

\* BlockDownloaded: neither asked for nor removed for the next five seconds.
BlockDownloaded(q, h) ==
  [k \in DOMAIN q |-> IF k = h THEN [due |-> FALSE, expired |-> FALSE] ELSE q[k]]

\* cleanup: the entries whose time is over are dropped.
Cleanup(q) == LET live == {k \in DOMAIN q : ~q[k].expired} IN [k \in live |-> q[k]]

\* RemoveBlock: the entry expires at once, and cleanup follows.
RemoveBlock(q, h) ==
  Cleanup([k \in DOMAIN q |-> IF k = h THEN [q[k] EXCEPT !.expired = TRUE] ELSE q[k]])

\* RequestableBlock: the first entry that is due.  Entries are sorted by height;
\* the sort is not stable, so any of several at one height may be first.
Requestable(q) ==
  {h \in DOMAIN q : q[h].due /\ \A k \in DOMAIN q : q[k].due => Height[h] <= Height[k]}

-----------------------------------------------------------------------------
Init ==
  /\ stored = Branch[Own] /\ head = Own
  /\ syncHeight = Height[Own] /\ syncDiff = CumDiff[Own]
  /\ syncLast = 0 /\ n = 0 /\ loop = NoBlock
  /\ queue = << >>
  /\ asks = {} /\ requests = {} /\ inbound = {}
  /\ statsIn = {[peer |-> p, top |-> PeerStart[p]] : p \in Peers}
  /\ peerHead = PeerStart
  /\ peerStats = [p \in Peers |-> NoBlock]
  /\ faults = 0

(***************************************************************************)
(* The loop Synchronize.                                                   *)
(***************************************************************************)

\* A round reads the stats in a transaction of its own and goes on only if the
\* target is heavier.  What it read may be old when it is used below.
ReadStats ==
  /\ loop = NoBlock
  /\ syncDiff > CumDiff[head]
  /\ loop' = head
  /\ UNCHANGED <<chain, target, syncLast, n, queue, asks, net, peers, faults>>

\* RequestBlock is started as a goroutine, with the stats that were read.
Ask(height, count) == [height |-> height, count |-> count, diff |-> CumDiff[loop]]

\* Mutant: a range that was asked for is never asked for again.
RequestRoundOnce ==
  /\ loop # NoBlock
  /\ LET top     == Height[loop]
         waiting == syncLast > top
         count   == Min({syncHeight - top, PARALLEL_BLOCKS_DOWNLOAD})
         range   == IF ~waiting /\ syncHeight > top THEN {Ask(top + 1, count)} ELSE {}
     IN /\ \/ /\ Requestable(queue) = {}
              /\ asks' = asks \cup range
              /\ UNCHANGED queue
           \/ \E h \in Requestable(queue) :
                /\ asks' = asks \cup range \cup {Ask(Height[h], 0)}
                /\ queue' = [queue EXCEPT ![h].due = FALSE]
        /\ n' = n
        /\ syncLast' = IF waiting THEN syncLast
                       ELSE IF range = {} THEN top ELSE top + count
  /\ loop' = NoBlock
  /\ UNCHANGED <<chain, target, net, peers, faults>>

\* Mutant: SyncLastRequestHeight is raised before the request is made.
RequestRoundAdvanced ==
  /\ loop # NoBlock
  /\ LET top     == Height[loop]
         waiting == syncLast > top /\ n <= RetryAfter
         count   == Min({syncHeight - top, PARALLEL_BLOCKS_DOWNLOAD})
         range   == IF ~waiting /\ syncHeight > top THEN {Ask(top + count + 1, count)} ELSE {}
     IN /\ \/ /\ Requestable(queue) = {}
              /\ asks' = asks \cup range
              /\ UNCHANGED queue
           \/ \E h \in Requestable(queue) :
                /\ asks' = asks \cup range \cup {Ask(Height[h], 0)}
                /\ queue' = [queue EXCEPT ![h].due = FALSE]
        /\ n' = IF waiting THEN n + 1 ELSE 0
        /\ syncLast' = IF waiting THEN syncLast
                       ELSE IF range = {} THEN top ELSE top + count
  /\ loop' = NoBlock
  /\ UNCHANGED <<chain, target, net, peers, faults>>

\* The rest of the round, under the locks of BlockQueue and SyncMut: ask for one
\* missing parent, and for the next range unless the last one may still come.
RequestRound ==
  /\ loop # NoBlock
  /\ LET top     == Height[loop]
         waiting == syncLast > top /\ n <= RetryAfter
         count   == Min({syncHeight - top, PARALLEL_BLOCKS_DOWNLOAD})
         range   == IF ~waiting /\ syncHeight > top THEN {Ask(top + 1, count)} ELSE {}
     IN /\ \/ /\ Requestable(queue) = {}
              /\ asks' = asks \cup range
              /\ UNCHANGED queue
           \/ \E h \in Requestable(queue) :
                /\ asks' = asks \cup range \cup {Ask(Height[h], 0)}
                /\ queue' = [queue EXCEPT ![h].due = FALSE]
        /\ n' = IF waiting THEN n + 1 ELSE 0
        /\ syncLast' = IF waiting THEN syncLast
                       ELSE IF range = {} THEN top ELSE top + count
  /\ loop' = NoBlock
  /\ UNCHANGED <<chain, target, net, peers, faults>>

\* RequestBlock: any connected peer that said it has this height and at least
\* the weight of the stats the loop had read; without one the request is dropped.
Eligible(r) ==
  {p \in Peers : /\ peerStats[p] # NoBlock
                 /\ Height[peerStats[p]] >= r.height
                 /\ CumDiff[peerStats[p]] >= r.diff}

RequestBlock(r) ==
  /\ asks' = asks \ {r}
  /\ \/ /\ Eligible(r) = {}
        /\ UNCHANGED requests
     \/ \E p \in Eligible(r) :
          requests' = requests \cup {[peer |-> p, height |-> r.height, count |-> r.count]}
  /\ UNCHANGED <<chain, target, sync, queue, inbound, statsIn, peers, faults>>

\* Time passes for one queue entry.
BecomeDue(h) ==
  /\ ~queue[h].due
  /\ queue' = [queue EXCEPT ![h].due = TRUE]
  /\ UNCHANGED <<chain, target, sync, asks, net, peers, faults>>

Expire(h) ==
  /\ ~queue[h].due /\ ~queue[h].expired
  /\ queue' = [queue EXCEPT ![h].expired = TRUE]
  /\ UNCHANGED <<chain, target, sync, asks, net, peers, faults>>

(***************************************************************************)
(* Packets from peers.                                                     *)
(***************************************************************************)

\* Mutant: the height is taken over from every packet.
PacketStatsHeightAlways(m) ==
  /\ statsIn' = statsIn \ {m}
  /\ peerStats' = [peerStats EXCEPT ![m.peer] = m.top]
  /\ syncHeight' = Height[m.top]
  /\ IF CumDiff[m.top] > syncDiff
     THEN syncDiff' = CumDiff[m.top]
     ELSE UNCHANGED syncDiff
  /\ UNCHANGED <<chain, sync, queue, asks, requests, inbound, peerHead, faults>>

\* packetStats.  The packets of a peer are sent by a goroutine each (SetStats), so
\* they arrive in any order and the last one to arrive is remembered.
PacketStats(m) ==
  /\ statsIn' = statsIn \ {m}
  /\ peerStats' = [peerStats EXCEPT ![m.peer] = m.top]
  /\ IF CumDiff[m.top] > syncDiff
     THEN syncHeight' = Height[m.top] /\ syncDiff' = CumDiff[m.top]
     ELSE UNCHANGED target
  /\ UNCHANGED <<chain, sync, queue, asks, requests, inbound, peerHead, faults>>

\* A BLOCK packet: packetBlock marks a queued block as downloaded, and the
\* postprocessor hands it to AddBlock (Pipeline shows that it always does).
\* First, a block whose parent is stored and which is not.
AddBlock(m) ==
  LET b == m.block IN
  /\ b \notin stored /\ Prev[b] \in stored
  /\ inbound' = inbound \ {m}
  /\ queue' = BlockDownloaded(queue, b)
  /\ stored' = stored \cup {b}
  /\ head' = IF CumDiff[b] > CumDiff[head] THEN b ELSE head
  /\ IF CumDiff[head'] > syncDiff
     THEN syncHeight' = Height[head'] /\ syncDiff' = CumDiff[head']
     ELSE UNCHANGED target
  /\ UNCHANGED <<sync, asks, requests, statsIn, peers, faults>>

\* A block that is stored already: its error takes it out of the queue.
AddDuplicate(m) ==
  /\ m.block \in stored
  /\ inbound' = inbound \ {m}
  /\ queue' = RemoveBlock(BlockDownloaded(queue, m.block), m.block)
  /\ UNCHANGED <<chain, target, sync, asks, requests, statsIn, peers, faults>>

\* An orphan: AddBlock queues the parent, and its error takes the orphan itself
\* out of the queue.
AddOrphan(m) ==
  LET b == m.block IN
  /\ b \notin stored /\ Prev[b] \notin stored
  /\ inbound' = inbound \ {m}
  /\ queue' = RemoveBlock(SetBlock(BlockDownloaded(queue, b), Prev[b]), b)
  /\ UNCHANGED <<chain, target, sync, asks, requests, statsIn, peers, faults>>

PacketBlock(m) == AddBlock(m) \/ AddDuplicate(m) \/ AddOrphan(m)

(***************************************************************************)
(* The peers.                                                              *)
(***************************************************************************)

\* packetBlockRequest at a peer: the blocks of its main chain from Height to
\* Height + Count, as far as it has them.
PacketBlockRequest(q) ==
  /\ requests' = requests \ {q}
  /\ inbound' = inbound \cup
       {[peer |-> q.peer, block |-> b] : b \in
          {x \in Branch[peerHead[q.peer]] : Height[x] \in q.height .. q.height + q.count}}
  /\ UNCHANGED <<chain, target, sync, queue, asks, statsIn, peers, faults>>

\* A block on top of the peer's head.  SetStats sends STATS, and BroadcastBlock
\* sends the block if the peer mined it itself.
PeerExtends(p, b) ==
  /\ Prev[b] = peerHead[p]
  /\ peerHead' = [peerHead EXCEPT ![p] = b]
  /\ statsIn' = statsIn \cup {[peer |-> p, top |-> b]}
  /\ \/ UNCHANGED inbound
     \/ inbound' = inbound \cup {[peer |-> p, block |-> b]}
  /\ UNCHANGED <<chain, target, sync, queue, asks, requests, peerStats, faults>>

\* A reorganisation at the peer.  AddBlock uses setStatsNoBroadcast: it tells no one.
PeerReorganises(p, b) ==
  /\ Prev[b] # peerHead[p] /\ CumDiff[b] > CumDiff[peerHead[p]]
  /\ peerHead' = [peerHead EXCEPT ![p] = b]
  /\ UNCHANGED <<chain, target, sync, queue, asks, net, peerStats, faults>>

(***************************************************************************)
(* Faults.                                                                 *)
(***************************************************************************)

\* SendPacket drops a packet when the connection's write channel is full.
LosePacket ==
  /\ faults < MaxFaults
  /\ faults' = faults + 1
  /\ \/ /\ \E q \in requests : requests' = requests \ {q}
        /\ UNCHANGED <<inbound, statsIn>>
     \/ /\ \E m \in inbound : inbound' = inbound \ {m}
        /\ UNCHANGED <<requests, statsIn>>
     \/ /\ \E m \in statsIn : statsIn' = statsIn \ {m}
        /\ UNCHANGED <<requests, inbound>>
  /\ UNCHANGED <<chain, target, sync, queue, asks, peers>>

\* The packets on the wire with the peers in P are gone.  A new connection knows
\* nothing of the peer until newConnections at the other end has sent STATS.
Reset(P) ==
  /\ requests' = {q \in requests : q.peer \notin P}
  /\ inbound' = {m \in inbound : m.peer \notin P}
  /\ statsIn' = {m \in statsIn : m.peer \notin P}
                  \cup {[peer |-> p, top |-> peerHead[p]] : p \in P}
  /\ peerStats' = [p \in Peers |-> IF p \in P THEN NoBlock ELSE peerStats[p]]
  /\ UNCHANGED peerHead

\* The connection to p breaks and is made again.
Reconnect(p) ==
  /\ faults < MaxFaults
  /\ faults' = faults + 1
  /\ Reset({p})
  /\ UNCHANGED <<chain, target, sync, queue, asks>>

\* The node is started again.  New takes the target from the stats, and the queue
\* is the one Close saved, or none after a crash.
Restart ==
  /\ faults < MaxFaults
  /\ faults' = faults + 1
  /\ Reset(Peers)
  /\ syncHeight' = Height[head] /\ syncDiff' = CumDiff[head]
  /\ syncLast' = 0 /\ n' = 0 /\ loop' = NoBlock
  /\ queue' \in {Cleanup(queue), << >>}
  /\ asks' = {}
  /\ UNCHANGED chain

-----------------------------------------------------------------------------
Synchronize == ReadStats \/ RequestRound

Next ==
  \/ Synchronize
  \/ \E r \in asks : RequestBlock(r)
  \/ \E h \in DOMAIN queue : BecomeDue(h) \/ Expire(h)
  \/ \E m \in statsIn : PacketStats(m)
  \/ \E m \in inbound : PacketBlock(m)
  \/ \E q \in requests : PacketBlockRequest(q)
  \/ \E p \in Peers, b \in Blocks \ {Genesis} : PeerExtends(p, b) \/ PeerReorganises(p, b)
  \/ LosePacket
  \/ \E p \in Peers : Reconnect(p)
  \/ Restart

Spec == Init /\ [][Next]_vars

(***************************************************************************)
(* Every goroutine goes on: the loop, the requests it starts, the packet   *)
(* handlers here and at the peers, the postprocessor (Pipeline shows that  *)
(* every packet is judged), and the clock.  Nothing is assumed of faults,  *)
(* of expiry, or of the peers' blocks.                                     *)
(***************************************************************************)
Heights == {Height[b] : b \in Blocks}
Counts == 0 .. PARALLEL_BLOCKS_DOWNLOAD
Asks == [height : Heights, count : Counts, diff : {CumDiff[b] : b \in Blocks}]
Requests == [peer : Peers, height : Heights, count : Counts]

FairSpec ==
  /\ Spec
  /\ WF_vars(Synchronize)
  /\ \A r \in Asks : WF_vars(r \in asks /\ RequestBlock(r))
  /\ \A q \in Requests : WF_vars(q \in requests /\ PacketBlockRequest(q))
  /\ \A m \in [peer : Peers, top : Blocks] : WF_vars(m \in statsIn /\ PacketStats(m))
  /\ \A m \in [peer : Peers, block : Blocks] : WF_vars(m \in inbound /\ PacketBlock(m))
  /\ \A h \in Blocks : WF_vars(h \in DOMAIN queue /\ BecomeDue(h))

-----------------------------------------------------------------------------
TypeOK ==
  /\ stored \subseteq Blocks /\ head \in stored
  /\ syncHeight \in Nat /\ syncDiff \in Nat
  /\ syncLast \in Nat /\ n \in 0 .. RetryAfter + 1
  /\ loop \in Blocks \cup {NoBlock}
  /\ DOMAIN queue \subseteq Blocks \ {Genesis}
  /\ \A h \in DOMAIN queue : queue[h] \in [due : BOOLEAN, expired : BOOLEAN]
  /\ asks \subseteq Asks /\ requests \subseteq Requests
  /\ inbound \subseteq [peer : Peers, block : Blocks]
  /\ statsIn \subseteq [peer : Peers, top : Blocks]
  /\ peerHead \in [Peers -> Blocks] /\ peerStats \in [Peers -> Blocks \cup {NoBlock}]
  /\ faults \in 0 .. MaxFaults

\* SyncHeight and SyncDiff are written by packetStats and by ApplyBlockToState and
\* set back by a restart; at every moment they belong to one and the same block,
\* which is not lighter than the head.
TargetIsOneBlock ==
  \E b \in Blocks : /\ Height[b] = syncHeight /\ CumDiff[b] = syncDiff
                    /\ CumDiff[b] >= CumDiff[head]

\* The target is the head of a peer that has said so, and the target is both heavier
\* and higher than the own chain.
Behind ==
  /\ syncDiff > CumDiff[head] /\ syncHeight > Height[head]
  /\ \E p \in Peers : peerStats[p] = peerHead[p] /\ CumDiff[peerHead[p]] = syncDiff

\* A node does not stay behind: whatever was lost, delayed, delivered twice or out of
\* order, and however far below its own head the chains part, Synchronize ends up
\* with the chain of the target.
CatchesUp == []<>~Behind

=============================================================================
