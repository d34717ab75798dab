------------------------------ MODULE Pipeline ------------------------------
(***************************************************************************)
(* How a downloaded block reaches AddBlock (blockchain/validator.go,       *)
(* incomingP2P and packetBlock of bc-p2p.go) and how the node shuts down   *)
(* (Close of blockchain.go).                                               *)
(*                                                                         *)
(* Goroutines: incomingP2P hands block packets to a channel; a pool of     *)
(* workers prevalidates them and appends them to the list postprocess; one *)
(* postprocessor takes the lowest block of the list and calls AddBlock     *)
(* inside a database transaction; Close runs on the console's goroutine.   *)
(* A step ends where a goroutine may wait: at a channel, at the database's *)
(* write lock, at the lock of the download queue, at MergesMut.  Updates   *)
(* that wait for nothing while they hold one of the last two are one step. *)
(*                                                                         *)
(* Blocks are those of one chain, so a block is its height; what AddBlock  *)
(* does with it is the subject of Chain.                                   *)
(***************************************************************************)
EXTENDS Integers, Sequences, SequencesExt, FiniteSets

CONSTANTS
  Packets,            \* block packets that arrive
  NoPacket,
  HeightOf,           \* HeightOf[p]: height of the block in p
  MayFail,            \* packets of unknown content: PrevalidateBlock may refuse them
  Workers,            \* goroutines of startProcessingBlocks
  Parallelism,        \* capacity of newBlocks
  TriggerSize,        \* capacity of postprocessChan
  POSTPROCESS_SIZE,
  MayClose,           \* whether the operator may stop the node
  MergeMining         \* whether the node has a slave chain

ASSUME PipelineAssumption ==
  /\ NoPacket \notin Packets
  /\ HeightOf \in [Packets -> Nat \ {0}]
  /\ {Parallelism, TriggerSize, POSTPROCESS_SIZE} \subseteq Nat \ {0}
  /\ MayClose \in BOOLEAN /\ MergeMining \in BOOLEAN

VARIABLES
  wire,         \* packets not yet read by incomingP2P
  net,          \* packet incomingP2P is handing over
  newBlocks,    \* channel of packets
  worker,       \* each worker's location and packet
  postprocess,  \* list of prevalidated blocks
  triggers,     \* messages in postprocessChan
  post,         \* location and packet of the postprocessor
  stored,       \* heights of the blocks in the database
  verdict,      \* what became of each packet
  dbHolder,     \* owner of the database's write transaction
  queueHolder,  \* owner of the download queue's lock between steps
  mergesStuck,  \* a solution holds MergesMut for ever
  closing       \* location of Close

vars == <<wire, net, newBlocks, worker, postprocess, triggers, post, stored, verdict,
          dbHolder, queueHolder, mergesStuck, closing>>

input == <<wire, net, newBlocks>>
locks == <<dbHolder, queueHolder, mergesStuck, closing>>

Idle == [at |-> "recv", pk |-> NoPacket]
Resting == [at |-> "select", pk |-> NoPacket]

\* Close passed close(newBlocks) and close(postprocessChan).
ChannelsClosed == closing \notin {"running", "miner", "validator"}

\* A goroutine that sends on a closed channel ends the process.
Panicked == closing = "panic"

Init ==
  /\ wire = Packets
  /\ net = NoPacket
  /\ newBlocks = <<>>
  /\ worker = [w \in Workers |-> Idle]
  /\ postprocess = <<>>
  /\ triggers = 0
  /\ post = Resting
  /\ stored = {0}
  /\ verdict = [p \in Packets |-> "none"]
  /\ dbHolder = "nobody"
  /\ queueHolder = "nobody"
  /\ mergesStuck = FALSE
  /\ closing = "running"

Panic ==
  /\ closing' = "panic"
  /\ UNCHANGED <<wire, net, newBlocks, worker, postprocess, triggers, post, stored, verdict,
                 dbHolder, queueHolder, mergesStuck>>

-----------------------------------------------------------------------------
(* incomingP2P and the workers.                                            *)

ReceivePacket ==
  /\ net = NoPacket
  /\ \E p \in wire : net' = p /\ wire' = wire \ {p}
  /\ UNCHANGED <<newBlocks, worker, postprocess, triggers, post, stored, verdict, locks>>

\* ProcessBlock waits while the channel is full.
ProcessBlock ==
  /\ net # NoPacket
  /\ \/ /\ ChannelsClosed
        /\ Panic
     \/ /\ ~ChannelsClosed
        /\ Len(newBlocks) < Parallelism
        /\ newBlocks' = Append(newBlocks, net)
        /\ net' = NoPacket
        /\ UNCHANGED <<wire, worker, postprocess, triggers, post, stored, verdict, locks>>

\* What is left in a closed channel is still received.
TakePacket(w) ==
  /\ worker[w].at = "recv"
  /\ newBlocks # <<>>
  /\ worker' = [worker EXCEPT ![w] = [at |-> "downloaded", pk |-> Head(newBlocks)]]
  /\ newBlocks' = Tail(newBlocks)
  /\ UNCHANGED <<wire, net, postprocess, triggers, post, stored, verdict, locks>>

\* packetBlock: BlockDownloaded, then PrevalidateBlock.
Prevalidate(w) ==
  /\ worker[w].at = "downloaded"
  /\ queueHolder = "nobody"
  /\ \/ /\ worker[w].pk \in MayFail
        /\ verdict' = [verdict EXCEPT ![worker[w].pk] = "refused"]
        /\ worker' = [worker EXCEPT ![w] = Idle]
     \/ /\ worker' = [worker EXCEPT ![w].at = "append"]
        /\ UNCHANGED verdict
  /\ UNCHANGED <<input, postprocess, triggers, post, stored, locks>>

\* PostprocessBlock.  The block is urgent when its height reaches SyncHeight,
\* which peers may raise at any time.
AppendBlock(w) ==
  /\ worker[w].at = "append"
  /\ postprocess' = Append(postprocess, worker[w].pk)
  /\ \E at \in {"notify", "measure"} : worker' = [worker EXCEPT ![w] = [at |-> at, pk |-> NoPacket]]
  /\ UNCHANGED <<input, triggers, post, stored, verdict, locks>>

\* The length is read after the lock is given up: other workers and the
\* postprocessor may have changed the list.
MeasureList(w) ==
  /\ worker[w].at = "measure"
  /\ worker' = [worker EXCEPT ![w].at =
                  IF Len(postprocess) >= POSTPROCESS_SIZE THEN "notify" ELSE "recv"]
  /\ UNCHANGED <<input, postprocess, triggers, post, stored, verdict, locks>>

\* Mutant of Notify: the channel's capacity is not respected.
NotifyUnbounded(w) ==
  /\ worker[w].at = "notify"
  /\ ~ChannelsClosed
  /\ triggers' = triggers + 1
  /\ worker' = [worker EXCEPT ![w] = Idle]
  /\ UNCHANGED <<input, postprocess, post, stored, verdict, locks>>

\* Sending on postprocessChan waits while it is full.
Notify(w) ==
  /\ worker[w].at = "notify"
  /\ \/ /\ ChannelsClosed
        /\ Panic
     \/ /\ ~ChannelsClosed
        /\ triggers < TriggerSize
        /\ triggers' = triggers + 1
        /\ worker' = [worker EXCEPT ![w] = Idle]
        /\ UNCHANGED <<input, postprocess, post, stored, verdict, locks>>

-----------------------------------------------------------------------------
(* The postprocessor.                                                      *)

ReceiveTrigger ==
  /\ post.at = "select"
  /\ triggers > 0
  /\ triggers' = triggers - 1
  /\ post' = [post EXCEPT !.at = "pick"]
  /\ UNCHANGED <<input, worker, postprocess, stored, verdict, locks>>

StopPostprocessor ==
  /\ post.at = "select"
  /\ triggers = 0
  /\ ChannelsClosed
  /\ post' = [post EXCEPT !.at = "stopped"]
  /\ UNCHANGED <<input, worker, postprocess, triggers, stored, verdict, locks>>

\* Mutant of PostprocessTimeout: the timeout does not look at the list.
TimeoutOnly ==
  /\ post.at = "select"
  /\ UNCHANGED vars

\* 15 seconds passed; select may prefer this to a trigger that just came.
PostprocessTimeout ==
  /\ post.at = "select"
  /\ post' = [post EXCEPT !.at = "pick"]
  /\ UNCHANGED <<input, worker, postprocess, triggers, stored, verdict, locks>>

\* selectAndPostprocess: the first of the lowest blocks, and the list after
\* the last element took its place.
LowestIndex(list) ==
  CHOOSE i \in DOMAIN list :
    \A j \in DOMAIN list :
      \/ HeightOf[list[i]] < HeightOf[list[j]]
      \/ HeightOf[list[i]] = HeightOf[list[j]] /\ i <= j

\* Mutant of WithoutIndex: the last element is cut off but not moved.
CutLast(list, i) == Front(list)

WithoutIndex(list, i) == Front([list EXCEPT ![i] = list[Len(list)]])

\* Mutant of PickBlock: blocks are taken in the order of arrival.
PickOldest ==
  /\ post.at = "pick"
  /\ postprocess # <<>>
  /\ post' = [at |-> "begin", pk |-> postprocess[1]]
  /\ postprocess' = WithoutIndex(postprocess, 1)
  /\ UNCHANGED <<input, worker, triggers, stored, verdict, locks>>

PickBlock ==
  /\ post.at = "pick"
  /\ postprocess # <<>>
  /\ post' = [at |-> "begin", pk |-> postprocess[LowestIndex(postprocess)]]
  /\ postprocess' = WithoutIndex(postprocess, LowestIndex(postprocess))
  /\ UNCHANGED <<input, worker, triggers, stored, verdict, locks>>

ListEmpty ==
  /\ post.at = "pick"
  /\ postprocess = <<>>
  /\ post' = Resting
  /\ UNCHANGED <<input, worker, postprocess, triggers, stored, verdict, locks>>

\* executePostprocess: DB.Update waits for the write transaction.
BeginUpdate ==
  /\ post.at = "begin"
  /\ dbHolder = "nobody"
  /\ dbHolder' = "post"
  /\ post' = [post EXCEPT !.at = "add"]
  /\ UNCHANGED <<input, worker, postprocess, triggers, stored, verdict, queueHolder, mergesStuck, closing>>

\* Mutant of AddBlock: the write transaction is not closed.
AddBlockKeepsTxn ==
  /\ post.at = "add"
  /\ HeightOf[post.pk] \notin stored
  /\ HeightOf[post.pk] - 1 \in stored
  /\ stored' = stored \cup {HeightOf[post.pk]}
  /\ verdict' = [verdict EXCEPT ![post.pk] = "added"]
  /\ post' = [at |-> "pick", pk |-> NoPacket]
  /\ UNCHANGED <<input, worker, postprocess, triggers, locks>>

\* AddBlock stores the block and the transaction is committed.
AddBlock ==
  /\ post.at = "add"
  /\ HeightOf[post.pk] \notin stored
  /\ HeightOf[post.pk] - 1 \in stored
  /\ stored' = stored \cup {HeightOf[post.pk]}
  /\ verdict' = [verdict EXCEPT ![post.pk] = "added"]
  /\ dbHolder' = "nobody"
  /\ post' = [at |-> "pick", pk |-> NoPacket]
  /\ UNCHANGED <<input, worker, postprocess, triggers, queueHolder, mergesStuck, closing>>

\* A duplicate: the transaction is dropped.
RefuseDuplicate ==
  /\ post.at = "add"
  /\ HeightOf[post.pk] \in stored
  /\ verdict' = [verdict EXCEPT ![post.pk] = "duplicate"]
  /\ dbHolder' = "nobody"
  /\ post' = [post EXCEPT !.at = "unqueue"]
  /\ UNCHANGED <<input, worker, postprocess, triggers, stored, queueHolder, mergesStuck, closing>>

\* An orphan: its parent is put in the download queue from inside the
\* transaction, which is dropped afterwards.
QueueParent ==
  /\ post.at = "add"
  /\ HeightOf[post.pk] \notin stored
  /\ HeightOf[post.pk] - 1 \notin stored
  /\ queueHolder = "nobody"
  /\ verdict' = [verdict EXCEPT ![post.pk] = "orphan"]
  /\ dbHolder' = "nobody"
  /\ post' = [post EXCEPT !.at = "unqueue"]
  /\ UNCHANGED <<input, worker, postprocess, triggers, stored, queueHolder, mergesStuck, closing>>

\* RemoveBlock after a failed AddBlock.
RemoveFromQueue ==
  /\ post.at = "unqueue"
  /\ queueHolder = "nobody"
  /\ post' = [at |-> "pick", pk |-> NoPacket]
  /\ UNCHANGED <<input, worker, postprocess, triggers, stored, verdict, locks>>

(* The others who take the database and MergesMut.  A lock that is held    *)
(* while nobody waits for it stops nobody, so each is taken here once      *)
(* somebody who is modelled waits for it: a bound of the model.            *)

DatabaseWanted == post.at = "begin" \/ closing = "save"
MergesWanted == dbHolder = "template" \/ closing = "miner"

\* Other writers of the database: transactions, stake signatures and mined
\* blocks.  They wait for nobody.  (The console's orphans command, which takes
\* the queue's lock in its transaction, runs on the goroutine of Close.)
OtherUpdate ==
  /\ \/ DatabaseWanted /\ dbHolder = "nobody" /\ dbHolder' = "other"
     \/ dbHolder = "other" /\ dbHolder' = "nobody"
  /\ UNCHANGED <<input, worker, postprocess, triggers, post, stored, verdict, queueHolder, mergesStuck, closing>>

\* NewStratumJob makes its template in a transaction of its own, in which
\* GetBlockTemplate waits for MergesMut.  (Without a slave chain nobody keeps
\* MergesMut, and a template is like any other update.)
TemplateBegins ==
  /\ MergeMining /\ DatabaseWanted /\ dbHolder = "nobody"
  /\ dbHolder' = "template"
  /\ UNCHANGED <<input, worker, postprocess, triggers, post, stored, verdict, queueHolder, mergesStuck, closing>>

TemplateEnds ==
  /\ dbHolder = "template" /\ ~mergesStuck
  /\ dbHolder' = "nobody"
  /\ UNCHANGED <<input, worker, postprocess, triggers, post, stored, verdict, queueHolder, mergesStuck, closing>>

\* submitMergeMinedBlock holds MergesMut until the slave chain responds, and
\* Stratum shows how the response may never come.  (Whoever waits for one that
\* comes just goes on later.)
SolutionStuck ==
  /\ MergeMining /\ MergesWanted /\ ~mergesStuck
  /\ mergesStuck' = TRUE
  /\ UNCHANGED <<input, worker, postprocess, triggers, post, stored, verdict, dbHolder, queueHolder, closing>>

-----------------------------------------------------------------------------
(* Close.                                                                  *)

\* ShuttingDown is set ...
StartClose ==
  /\ MayClose
  /\ closing = "running"
  /\ closing' = "miner"
  /\ UNCHANGED <<input, worker, postprocess, triggers, post, stored, verdict, dbHolder, queueHolder, mergesStuck>>

\* ... and the miner stopped, under MergesMut.
StopMiner ==
  /\ closing = "miner" /\ ~mergesStuck
  /\ closing' = "validator"
  /\ UNCHANGED <<input, worker, postprocess, triggers, post, stored, verdict, dbHolder, queueHolder, mergesStuck>>

\* Validator.Close: both channels are closed ...
CloseChannels ==
  /\ closing = "validator"
  /\ closing' = "clear"
  /\ UNCHANGED <<input, worker, postprocess, triggers, post, stored, verdict, dbHolder, queueHolder, mergesStuck>>

\* ... and the list is emptied.
ClearList ==
  /\ closing = "clear"
  /\ postprocess' = <<>>
  /\ closing' = "p2p"
  /\ UNCHANGED <<input, worker, triggers, post, stored, verdict, dbHolder, queueHolder, mergesStuck>>

\* P2P.Close: no more packets, and the queue's lock is taken.
LockQueue ==
  /\ closing = "p2p"
  /\ queueHolder = "nobody"
  /\ wire' = {}
  /\ queueHolder' = "close"
  /\ closing' = "save"
  /\ UNCHANGED <<net, newBlocks, worker, postprocess, triggers, post, stored, verdict, dbHolder, mergesStuck>>

\* BlockQueue.Save writes the queue in a transaction and the lock is released.
SaveQueue ==
  /\ closing = "save"
  /\ dbHolder = "nobody"
  /\ queueHolder' = "nobody"
  /\ closing' = "database"
  /\ UNCHANGED <<input, worker, postprocess, triggers, post, stored, verdict, dbHolder, mergesStuck>>

CloseDatabase ==
  /\ closing = "database"
  /\ closing' = "bye"
  /\ UNCHANGED <<input, worker, postprocess, triggers, post, stored, verdict, dbHolder, queueHolder, mergesStuck>>

-----------------------------------------------------------------------------

NetStep == ReceivePacket \/ ProcessBlock

WorkerStep(w) ==
  TakePacket(w) \/ Prevalidate(w) \/ AppendBlock(w) \/ MeasureList(w) \/ Notify(w)

PostStep ==
  \/ ReceiveTrigger \/ StopPostprocessor \/ PostprocessTimeout
  \/ PickBlock \/ ListEmpty \/ BeginUpdate
  \/ AddBlock \/ RefuseDuplicate \/ QueueParent \/ RemoveFromQueue

CloseStep ==
  StartClose \/ StopMiner \/ CloseChannels \/ ClearList \/ LockQueue \/ SaveQueue \/ CloseDatabase

MiningStep == TemplateBegins \/ TemplateEnds \/ SolutionStuck

\* Nothing runs once the process has ended.
Alive == closing \notin {"panic", "bye"}

Next ==
  /\ Alive
  /\ NetStep \/ (\E w \in Workers : WorkerStep(w)) \/ PostStep \/ OtherUpdate
     \/ MiningStep \/ CloseStep

Spec == Init /\ [][Next]_vars

(***************************************************************************)
(* Every goroutine that can go on does, the operator need not stop the     *)
(* node, select does not prefer the timeout forever, and whoever waits for *)
(* the database or for MergesMut gets it in the end although others come   *)
(* and go, unless a solution never gives MergesMut back.                   *)
(***************************************************************************)
FairSpec ==
  /\ Spec
  /\ WF_vars(Alive /\ NetStep)
  /\ \A w \in Workers : WF_vars(Alive /\ WorkerStep(w))
  /\ WF_vars(Alive /\ PostStep)
  /\ SF_vars(Alive /\ ReceiveTrigger)
  /\ SF_vars(Alive /\ BeginUpdate)
  /\ WF_vars(Alive /\ OtherUpdate /\ dbHolder = "other")
  /\ WF_vars(Alive /\ TemplateEnds)
  /\ WF_vars(Alive /\ CloseStep /\ closing # "running")
  /\ SF_vars(Alive /\ SaveQueue)

-----------------------------------------------------------------------------
(* Properties.                                                             *)

\* Every variable has its type; the two channels respect their capacities.
TypeOK ==
  /\ wire \subseteq Packets
  /\ net \in Packets \cup {NoPacket}
  /\ newBlocks \in Seq(Packets) /\ Len(newBlocks) <= Parallelism
  /\ worker \in [Workers -> [at : {"recv", "downloaded", "append", "measure", "notify"},
                             pk : Packets \cup {NoPacket}]]
  /\ postprocess \in Seq(Packets)
  /\ triggers \in 0..TriggerSize
  /\ post \in [at : {"select", "stopped", "pick", "begin", "add", "unqueue"},
               pk : Packets \cup {NoPacket}]
  /\ stored \subseteq {0} \cup {HeightOf[p] : p \in Packets}
  /\ verdict \in [Packets -> {"none", "refused", "added", "duplicate", "orphan"}]
  /\ dbHolder \in {"nobody", "post", "other", "template"}
  /\ queueHolder \in {"nobody", "close"}
  /\ mergesStuck \in BOOLEAN
  /\ closing \in {"running", "miner", "validator", "clear", "p2p", "save", "database", "bye", "panic"}

\* How often a packet is somewhere on its way or has got its verdict.
Places(p) ==
  LET one(b) == IF b THEN 1 ELSE 0
  IN  one(p \in wire) + one(net = p)
      + Cardinality({i \in DOMAIN newBlocks : newBlocks[i] = p})
      + Cardinality({w \in Workers : worker[w].pk = p})
      + Cardinality({i \in DOMAIN postprocess : postprocess[i] = p})
      + one(post.pk = p /\ post.at # "unqueue")
      + one(verdict[p] # "none")

\* While the node runs no packet is lost and none is processed twice, however
\* workers and postprocessor share the list.
NoLostPacket == closing = "running" => \A p \in Packets : Places(p) = 1

\* A template waits for MergesMut, which a solution never gives back, inside a
\* write transaction: nothing is ever written again (bc-stratum.go:75).
DatabaseStuck == mergesStuck /\ dbHolder = "template"

\* While the node runs every packet that arrived gets its verdict: no worker
\* waits forever at a full channel, and a short list does not wait for
\* POSTPROCESS_SIZE blocks that never come.  The deadlock of merge mining is the
\* only exception.
EveryPacketJudged ==
  \A p \in Packets : net = p ~> (verdict[p] # "none" \/ closing # "running" \/ DatabaseStuck)

ValidHeights == {HeightOf[p] : p \in Packets \ MayFail}

BatchWaiting ==
  /\ post.at = "select"
  /\ stored = {0}
  /\ ValidHeights = 1..Cardinality(ValidHeights)
  /\ \A p \in Packets \ MayFail : \E i \in DOMAIN postprocess : postprocess[i] = p

\* Blocks that arrived in any order are stored without a second download when
\* all of them were in the list before the postprocessor looked (or the database
\* is lost to the deadlock of merge mining).
BatchStored ==
  BatchWaiting ~> \/ closing # "running" \/ DatabaseStuck
                  \/ stored = {0} \cup ValidHeights /\ \A p \in Packets : verdict[p] # "orphan"

\* Close always comes to its last line.  (A panic of another goroutine ends
\* the process as well.)
ShutdownCompletes == closing = "miner" ~> (closing = "bye" \/ Panicked)

\* Close holds the download queue and waits for the database, the
\* postprocessor holds the database and waits for the download queue.
WaitForEachOther ==
  /\ closing = "save"
  /\ dbHolder = "post"
  /\ post.at = "add"
  /\ {HeightOf[post.pk], HeightOf[post.pk] - 1} \cap stored = {}

\* Close, begun at any moment, ends unless an orphan is being added at that
\* moment, or a solution never gives MergesMut back, which Close waits for
\* itself (blockchain.go:271) or through a template that holds the database.
\* None of its other waits (for the list, the queue, the database while
\* transactions, templates and solutions come and go) can last forever.
ShutdownEnds ==
  closing = "miner" ~> \/ closing = "bye" \/ Panicked
                       \/ WaitForEachOther
                       \/ mergesStuck /\ closing = "miner"
                       \/ DatabaseStuck
=============================================================================
