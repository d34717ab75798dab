# A verification project for the Virel node

TLA+ models of the core of `virel-blockchain` (Go), TLC runs that check them on
small instances, and TLAPS proofs of their safety properties for instances of
every size. Line numbers are those of the sources in `src/`;
`PROJECT.json` maps every definition to the lines it models.

## 1. The system

| Component | State it keeps | Operations | How it interacts |
|---|---|---|---|
| Chain (`blockchain/blockchain.go`) | blocks by hash, height index `Topo`, `Stats` (top, tips, orphans, staked amount), all in one database | `AddBlock`, `checkBlock`, `addMainchainBlock`, `addAltchainBlock`, `CheckReorgs` | called by the validator, the miner and the stratum server, always inside `DB.Update` |
| Ledger (`bc-stateadd.go`, `bc-staterm.go`, `staking.go`, `block/coinbase.go`, `block/reward.go`) | balances, nonces, delegates with their funds, delegate histories | `ApplyBlockToState`, `RemoveBlockFromState` and what they call | called by the chain for each block that enters or leaves the main chain |
| Block pipeline (`validator.go`, `bc-p2p.go`) | two channels, the list `postprocess`, a flag `quitting` | `ProcessBlock`, one goroutine per core, one postprocessor, `Close` | between the P2P goroutine and `AddBlock` |
| Block download (`Synchronize`, `blockqueue.go`, `packetStats`, `packetBlockRequest`) | wanted blocks, sync height and difficulty, last request | request, answer, expiry, retry | P2P out, `AddBlock` (parents of orphans) in |
| Mempool (`bc-txn.go`) | list of entries in the database | `AddTransaction`, `validateMempoolTx`, removal by blocks, re-adding by reorganisations, expiry | P2P, RPC, templates, chain |
| Templates and mining (`mining.go`) | merge-mined chains, stake signatures | `GetBlockTemplate`, stake signatures | stratum, RPC, P2P |
| Stratum (`bc-stratum.go`, `stratumsrv`, `mergestratum.go`) | connections with their jobs, shared blocks | jobs, submissions | miner clients in, `AddBlock` out |
| P2P (`p2p/`) | connections, known peers, bans | handshake, ping, peer exchange, packet writing | everything above |
| Database (`adb/`) | key-value tables | `View`, `Update` | external library behind an interface |
| Wallet, RPC, commands, encodings, cryptography | keys, last known state | calls of the above, pure functions | clients |

What is hard here: a reorganisation rewrites several tables in a long write
transaction that may fail at any block; tips are kept under keys that do not
follow them; undo code is written separately from the code it undoes; blocks
are downloaded in parallel and judged by one goroutine that is woken through a
bounded channel; locks and the database's write transaction are taken in
different orders; `SyncDiff` and `SyncHeight` live outside the database. The
list under `hazards` in `PROJECT.json` has each of these at its line.

What makes each part correct, in one sentence each:

* Chain: after every commit the height index, head and ledger describe one
  chain, the heaviest stored one, whatever failed or crashed on the way.
* Ledger: coins are created only by the emission schedule, stakes add up,
  transactions are not replayed, and undoing a block restores what was before it.
* Pipeline: every packet is judged once, blocks that came out of order are
  stored in order, and the node can be shut down.
* Download: a node that hears of a heavier chain ends up with it.
* Mempool: its entries can go in the next block in their order, and a wallet
  that asks the node about its account can pay.
* P2P: the connection table and the goroutines of the connections agree, a peer
  is connected at most twice, and no connection hangs.
* Mining: a solution pays who found it, a share below its target counts, everybody
  who mines is told of a new block, and every solution is answered.
* Arithmetic: 128 bit division is exact, and difficulty follows solve times.

## 2. Modules

| Module | Models |
|---|---|
| `ForkChoice` | abstract: the stored blocks and the head, which moves to the strictly heavier block accepted |
| `Chain` | `AddBlock` with `CheckReorgs`, one action per loop iteration, each error return, rollback and crash |
| `ChainProofs` | TLAPS proofs about `Chain` |
| `Ledger` | block application, staking, rewards, undo, and reorganisations as seen by the ledger |
| `Pipeline` | the validator's goroutines, the write lock, `Close` |
| `BlockSync` | the download loop `Synchronize`, its queue, and the packets exchanged with peers |
| `Mempool` | extends `Ledger`: the pool, its validation, templates, and what blocks and reorganisations do to it |
| `Wallet` | extends `Mempool`: payments of a wallet, `get_address` and `submit_transaction` of the node |
| `P2P` | the connection table, handshakes, the peer list, and the goroutines of the connections |
| `Uint128` | the 128 bit numbers of the node on limbs of `W` bits, targets and proof of work comparison |
| `Difficulty` | `GetNextDifficulty`, on an instance of `Uint128` |
| `Stratum` | extends `Uint128` and `Difficulty`: the stratum server, the integrated miner, merge mining and the client of the slave chain |
| `LedgerProofs`, `MempoolProofs`, `PipelineProofs`, `BlockSyncProofs`, `P2PProofs`, `StratumProofs` | TLAPS proofs about the module of that name (`MempoolProofs` extends `LedgerProofs` and has those about `Wallet`, `StratumProofs` has those about `Uint128` and `Difficulty`) |
| `NatLemmas` | for the proofs: induction over numbers as a statement about sets, and the arithmetic of limbs, quotients and remainders |
| `MCChain`, `MCLedger`, `MCPipeline`, `MCBlockSync`, `MCMempool`, `MCStratum` | instances for TLC (`P2P` is checked as it is) |

### Chain

`db` is what is committed: blocks, height index `topo`, head, `tips` and the
ledger; `view` is what the one open write transaction sees (`Index` and
`Stats` are read and written through it). The ledger is kept as `applied`, how
often each block is applied and not undone: `Ledger` says what an application
does, `Chain` says which applications happen. Control is complete: `pc` follows `AddBlock`
(`idle`, `add`, then the steps 1 to 4 of `CheckReorgs` and `commit`), one action
per loop iteration. Failures which depend on the ledger (`RefuseStake`,
`AddMainchainBlockFails`, `UndoFails`, `ApplyFails`) may happen to any block; a
failure rolls back, and `Crash` loses the transaction at any point. Proof of
work, difficulty, timestamps, side blocks and checkpoints are the predicate
`Sound` on blocks; height and cumulative difficulty are checked against the
parent as in `checkBlock`. Tips are a function from the key they were created
with to their present `(hash, height, difficulty)`, as in the code, where the
key is not renewed when a block extends a tip.

`ChainAssumption` has that a block adds at least 1 to the cumulative
difficulty. `MIN_DIFFICULTY` is 100 000 on mainnet and 100 on testnet; the unit
test configuration has 1, where an unsigned block could add 0.

A crash is one of the process. The database is opened with `NoSync` and
`NoMetaSync`, so that a power failure may lose more; that is not modelled.

### Ledger

`led` has the accounts (balance, nonce, delegate choice), delegates with their funds, histories of delegates
before PoS rewards, and the total staked; `chain` has the blocks applied, `mode` the
step of a reorganisation and `saved` what it goes back to. Blocks carry
lists of transactions from `TxLists`: all kinds (transfer, register delegate,
set delegate, stake, unstake). `AddMainchainBlock` is one action since
it runs in one transaction and nothing reads in between; `UndoBlock`,
`ReapplyBlock`, `SwitchTop`, `ReorgFails` are a reorganisation, in which
`TopHeight` stays at the abandoned height until `SwitchTop`. There it becomes the
`Height` of the tip, which the code counts and does not read from the block: it may
be too large (run `tip_height`), by up to `MaxTipError` here, and is never too small
(`TipsNotBelow` of `Chain`). The next block added to the main chain sets it right.
`SupplyExact` is about the height of the top block; `CheckSupply` compares with
`TopHeight`, so that after such a reorganisation it ends a node that logs at debug
level although the supply is right.

Blocks are of version 1 from height 1 on, as in the unit test configuration.
Blocks up to `MINIDAG_ANCESTORS` carry no stake signature (on the real networks
staking starts far above that height). Delegates are numbered in the order of
their database keys, which `GetStaker` walks. Amounts are unbounded: the sums
that the code guards against overflow cannot reach 64 bits under the emission
schedule, which `SupplyExact` checks. A reward that leaves nothing for the staker or
for burning has no such output, as in `coinbase.go` 63 and 71. One transaction id that the source
exempts by name is left out.

### Pipeline

`newBlocks` and `triggers` are the two bounded channels, `postprocess` the list,
`net`, `worker` and `post` the places of `incomingP2P`, the workers and the
postprocessor, `closing` that of `Close`, `dbHolder` the owner of the database's
write transaction and `queueHolder` of the lock on the download queue. `Packets`
are the packets peers send; two packets may hold the same block, and those in
`MayFail` may turn out invalid. A send on a closed channel ends the process
(`Panic`). `StartClose` is only enabled with `MayClose`.

`MergesMut` is seen from here as one flag, `mergesStuck`: a solution of the node
waits for its slave chain for ever (`Stuck` of `Stratum` is how), and
`SolutionStuck` may set it on a node with `MergeMining`. Two goroutines
of this module need `MergesMut`: `NewStratumJob`, which makes its template inside a
write transaction of its own (`TemplateBegins`, `TemplateEnds`; `bc-stratum.go:75`),
and `Close`, which stops the miner under it before anything else (`StopMiner`,
`blockchain.go:271`). A solution that is answered only makes them wait. The other
writers (`OtherUpdate`) wait for nobody: those that run concurrently with `Close`
take no lock inside their transaction. Since a lock stops only those who wait for
it, other writers begin when the postprocessor or `Close` waits for the database
(`DatabaseWanted`), and a solution gets stuck when a template or `Close` needs
`MergesMut` (`MergesWanted`): begun earlier they would be met in the same place, so
this cuts states and no behaviour of the goroutines modelled. Of what `AddBlock` answers, the errors of an
invalid block are left to `Chain`: here they would be one more way to a verdict.

`EveryPacketJudged` and `BatchStored` hold unless a template keeps the database for
ever (`DatabaseStuck`). `ShutdownEnds` says that `Close` ends, or another goroutine's
panic ends the process, or the two wait for each other in exactly the way that the
run `shutdown` shows (`WaitForEachOther`), or a solution keeps `MergesMut`, which
`Close` waits for itself or through a template.

### BlockSync

One node and its peers. `stored` and `head` are the node's chain, where `AddBlock`
behaves as `ForkChoice` does; `syncHeight`, `syncDiff`, `syncLast` are the fields
`SyncHeight`, `SyncDiff`, `SyncLastRequestHeight`, `n` the counter of rounds
without progress, `loop` the stats the loop read before it took the queue's lock,
`queue` the wanted parents of orphans, `asks` the goroutines started for
`RequestBlock`. Clocks are two flags of a queued block: `due` (last request long
enough ago) and `expired`, changed by `BecomeDue` and `Expire`. The network is
sets of packets, since each announcement is sent by a goroutine of its own and
they may overtake each other. `LosePacket`, `Reconnect` and `Restart` are
faults, of which at most `MaxFaults` happen. A restart forgets the target and
has the saved queue, or none. A peer that reorganises tells nobody
(`setStatsNoBroadcast`). Requests by hash are only made for height 0, that is
for an orphan at height 1, whose parent is genesis; they do not arise.

`CatchesUp` is about targets that are heavier and higher: ranges are asked for
by height, so a chain that is heavier and no higher is fetched when its next
block arrives. Blocks are valid here; `Chain` has the others.

### Mempool

`pool` is the list of entries, `known` the transactions stored in the database,
`savedPool` what an abandoned reorganisation goes back to. `ValidateMempoolTx`
simulates the earlier entries on copies of the affected accounts and of the
delegates, as the code does beside `ApplyTxToState`; `AddTransaction` may be given
a height that is no longer the next; `SetMempool` drops expired entries on each
save; `GetBlockTemplate` keeps in the pool only what it chose. Fees and sizes are
those of transactions that passed `Prevalidate`, all of one size, so the limit
of a block is `MaxBlockTxs`. A new block holds either a list of `TxLists` or the
template.

Behaviours that follow the code and that no property speaks of: a stake or a
set_delegate of an earlier entry is written to the account of the signer being
validated (`bc-txn.go` 297 and 348 to 359); after a reorganisation that left
`TopHeight` too large templates get a height that `checkBlock` refuses, until a block
of somebody else is added (`TemplateBlocks`); a template cuts the pool to one block
and `AddTransaction` does not take the rest again, since they are stored
(`PaymentTaken` of `Wallet` has the consequence); blocks undone one after the other
put their transactions back in the wrong order.

### Wallet

The wallet keeps nothing between two payments that `Refresh` does not replace, so
`Wallet` adds operators and no variable: `GetAddress` is the node's answer
(balance and nonce after the waiting entries, with 64 bit subtraction),
`CreateTransaction` what the wallet signs (`Transfer`, `checkAndSignTx`), and
`SubmitTx` the node's verdict. `PaymentTaken` is evaluated in every state of the
mempool: the payment a wallet would build there, of one coin or of everything, is
taken. Its exceptions are exact: an unstake
of the wallet waits (its input is the delegate's, so `get_address` does not count
its nonce; the instance has none); an entry waits that a competing block made
impossible; or the node has stored the very same transaction before, in which case
`submit_transaction` reports success and does nothing. That happens when the
transaction was dropped from the pool, and when an earlier payment of the wallet
was, by expiry or by a template, while the transaction still waits (`Missing`):
`get_address` counts entries, so the wallet is given a nonce that it has used. The
instance reaches all but the first. The two `View`s of `get_address` are taken at one moment: a block
between them gives a wrong nonce, which `validateMempoolTx` refuses.

### P2P

`conn` is each connection with the place its handler has reached, `table` is
`Connections`, `known` is `KnownPeers`. One action per part of
`connectionMainHandling` between two acquisitions of a lock: handshake, the first
look for a duplicate, the ID, the hand-over to `newConnections` (with the
connection locked: `offer`), the second look, then packets. `NoneLocked` is the
wait of someone who holds the lock of P2P for the lock of a connection. `Kick`
closes the connection and deletes its table entry in a second step. The cipher,
the contents of packets and their order are left out. `faults` bounds failing
dials, sockets and unencrypted writes. `Close` closes the listener and the
connections; handlers and `StartClients`, which goes on dialling, run until the
process ends (`Exit`). Three panics end it before: a send on a closed `WriteChan`
(`SendOnClosed`), and a concurrent use of the table, which `Close` and `BroadcastTx`
(`bc-txn.go:494`) walk through without its lock. A handshake whose ID is the
node's own or no public key is kicked with its ID set (`Identify`).

`Settles` takes it that `incomingP2P` gets the database when a packet needs it. On a
node with a slave chain the deadlock of merge mining (`DatabaseStuck` of `Pipeline`)
takes that away, and with it every handler that has a packet to deliver.

Two connections per peer are possible: both may pass the first look before
either has its ID, and the second look kicks only at a third (`TwoPerPeer`).

Read and not modelled: the peer list saved by `Close` is read back at the next
start; `PEER_RED` and bans are never set; `OnAddPeerPacket` adds peers as white
although `peer_type.go` has gray for peers not contacted yet; `StartClients` does
not count connections it is still dialling.

### Uint128 and Difficulty

Limbs have `W` bits (64 in the code): with `W = 4` TLC compares `QuoRem` and
`Mul64` with the integers for all pairs of numbers. `math/bits` is external and
given by its documentation. `Difficulty` runs on limbs of 15 bits with the real
`DIFFICULTY_N`, times in units of 0.1 s and the deviation from the schedule as
one of four cases.

### Stratum

`heap` holds the block templates, since connections share them by pointer:
`GiveWrite` and `LoginRecipient` write recipient and extra nonce in a block that
another connection may be about to take the blob from (`GiveBlob`,
`LoginRespond`), and `Submit` copies it as it is then. A job is remembered by
`GiveBlob` and its message written by a goroutine of its own (`WriteJob`), so that
messages to one miner overtake each other: `out` are those not written yet, `had`
those the miner was sent and `told` the last of them. The difficulty of the slave
chain is recovered from the target of each job (`StoreJob`), any of
`node.slaveDiffs`, and a solution remembers the one it was compared with
(`offered`). What a template hashes to is its
`Content`; a solution counts for a block only when the contents agree. `job` has
one record per `NewStratumJob` goroutine, with the goroutines of `SendJob` as
`to`; `conn` the handlers and the integrated miner (`Solo`), which share
`blockFound` (`MergeCheck` to `Commit`); `merge`, `cl` and `sjob` are the
mergestratum, its client with both channels, and the slave chain. `MergesMut` is
locked for reading by the solutions at `work` and `await`, and `db` is the
holder of the write transaction.

Exact exceptions, which are what the properties have to say about the code:

* `AcceptedPays`: a block may pay another miner than its finder when both were
  given the same block, and only then.
* `SoloWoken`: the integrated miner may go on with an old template if it read it
  while a block was being added, because `NewStratumJob` runs before the commit.
* `ShareCounts`: a hash below the target a miner was sent is refused when another
  connection wrote to the block, when the target was that of another template, or
  when the slave chain the target was lowered for has left or has sent a job of a
  higher difficulty meanwhile; never by rounding.
* `MinerUpToDate`: a miner may work on another template than the newest when that is
  on its way, when an older message was written after it, or when two
  `NewStratumJob` calls stored `LastBlock` in the wrong order.
* `SolutionAnswered`: everything waits for everything when the response of the
  slave chain stands behind its jobs (`Stuck`): the solution holds `MergesMut`, which
  `AddStratum` waits for, either to announce the job it has stored or, after a bad
  job, to take the chain off the list; `JobChan` is full and `scanJobs` waits for it
  with one more job in its hands. It takes three jobs the first way and four the
  second. A template that waits for `MergesMut` meanwhile holds the write
  transaction, and so does `Close` wait (`Pipeline`).

Left out: that `submitMergeMinedBlock` sends the newest `JobID` for the blob of an
older job, the unsynchronised writes of `mergestratum` fields, chains beyond the
first in `setMiningBlob`, and the submissions to a node that is itself a slave chain
(`IS_MASTERCHAIN` false, `bc-stratum.go` 352 to 392), which rebuild the block from the
blob they are sent.

## 3. Runs

| Run | Checks | Shows |
|---|---|---|
| `chain` | 14 blocks, all orders | the safety and action properties below, `AddBlockEnds`, refinement of `ForkChoice` |
| `tip_height` (violation) | `TemplateHeightValid` | a tip found under a stale key gets a wrong height, and the template after the reorganisation is refused |
| `ledger` | chains of 4 blocks, 2 delegates, up to 2 blocks undone | `SupplyExact`, `StakeAccounted` (a block keeps funds, staked amount and the balances of delegates in step, with transfers to a delegate's address accounted for), `FundsDistinct`, `NoReplay`, `UndoRestoresAccounts`, through reorganisations too |
| `undo_stakes` (violation) | `UndoRestoresStakes` | the coinbase is undone after the transactions: a stake in the same block as a reward survives its undo |
| `lock_period` (violation) | `StakeHeld` | in a reorganisation unlock heights are compared with the abandoned height, and a stake is taken back too early |
| `pipeline` | 3 packets (one block twice, one may be invalid), 2 workers, channels of 1, a slave chain, `Close` at any time | `NoLostPacket`, `EveryPacketJudged`, `BatchStored`; `ShutdownEnds`: of the waits of `Close` only those that the property excepts last for ever |
| `shutdown` (violation) | with an orphan in flight | `Close` and `AddBlock` wait for each other |
| `block_sync` | 5 blocks, a peer on a heavier branch, one fault | `TargetIsOneBlock` (height and difficulty sought belong to one block), `CatchesUp` |
| `mempool` | 3 blocks, 2 undone, payments and a registration | `PoolIsPending` (entries distinct, stored and not in the chain), `TemplateApplies` (a block made from the template is accepted), `UndoneReturn` (an undone transaction is pending again), `PaymentTaken` |
| `template_stake` (violation) | `TemplateApplies` with stakes | an unstake is let in the template one block before `ApplyUnstake` takes it |
| `p2p` | 3 connections, one host, two IDs (one the node's own), one fault | `TwoPerPeer`, `TableOwned`, `Settles` |
| `stratum` | 22 small nodes, one or two blocks, slave chains of up to four jobs | `AcceptedPays`, `ShareCounts`, `SoloWoken`, `MinerUpToDate`, `SolutionAnswered`; `Uint128Exact` and `DifficultyResponds` in one state, as facts about numbers |

The findings behind the violations are spelled out in `PROJECT.json`.

Properties of `Chain`: `MainChainConsistent` (index, head and ledger agree, at
every commit), `NoHeavierBlock`, `TipsNotBelow` (`TopHeight` and the heights of tips
may be too large and are never too small), `UndoStopsAtFork` (step 2 undoes the blocks
above the fork and none other), `SyncNotBehind`, `OnlyToHeavier` (the head moves
only to a strictly heavier block), `LedgerLIFO` (a block is applied on its
parent and undone from the top), `AddBlockEnds`, `ImplementsForkChoice`.

### Bounds

* `chain`: the tree forks at height 1 with three blocks on both sides, at
  genesis (such a reorganisation is refused, line 638), and has equal weights, a
  lighter but higher branch and blocks with wrong height, weight or difficulty.
  Undoing three and applying three passes each loop several times, with failures
  at every iteration; a stale tip key needs an extension and a sibling,
  which both branches have. 15 495 states.
* `ledger`: four blocks with up to two transactions pass a reward reduction,
  the lock period, delegation, and rewards with two delegates; undoing two blocks
  is the least in which an undo runs on a state produced by an undo. A tip may be
  one too high (`MaxTipError`), which is what one further sibling does. 495 661
  states. The three violation runs of `Ledger` and `Mempool` have no such error: what
  they show does not need it.
* `pipeline`: capacity 1 for channels makes every sender wait at some
  point; `POSTPROCESS_SIZE` 2 (10 in the code) lets batches fill. 227 484
  states. `shutdown` has no slave chain: the deadlock it shows does not need one.
* `block_sync`: the node's own branch has to be left for one two blocks longer;
  with `PARALLEL_BLOCKS_DOWNLOAD` 1 that takes two requests, the retry (after
  `RetryAfter` rounds, 20 in the code) is reached at once, and blocks arrive in
  both orders. One fault at any moment loses a packet, a connection or the
  process. 103 975 states.
* `mempool`: two nonces of one signer, another signer, and a pool larger than a
  block (`MaxBlockTxs` 2). The second payment has the amount of one that a wallet
  would build, so that the wallet can build it again. 1 567 940 states.
* `p2p`: three connections are the least with which the second look finds two
  others; one host makes them meet at one address. `MAX_PEER_FAILURES` 0 (1 in
  the code) makes one failure turn a peer black. 216 826 states.
* `stratum`: each node of `MCNodes` has what one question needs: two miners that
  share a block, with a second block for them to find in the job that the first one
  causes; a miner or the integrated miner with peers, whose blocks make a
  second job, which can overtake the first; a slave chain with four jobs, as
  many as the deadlock after a bad job takes (more would wait in the connection); one whose
  difficulty is 4 or 6 from job to job, below and above what a share found for the
  first solves; a slave chain that causes jobs; two finders that await one response
  each; and one miner at each of the 15 difficulties of a 4 bit limb, for the
  rounding of targets. Where two connections or finders meet (`settled`) miners come
  once there is a template and stay; the other nodes have early logins and leaving
  miners. 200 985 states.

`CHECK_DEADLOCK FALSE` is used for `Ledger` and `Mempool`, which stop at
`MaxHeight`, for `BlockSync`, where a node that has the last block of the tree has
nothing left to do, for `Stratum`, where no more than `maxTop` blocks are found,
and for `Pipeline` and `P2P`, since the process ends.

### Fairness

* `Chain`: weak fairness of `Step`, the disjunction of what the goroutine inside
  `DB.Update` does: it holds the only write transaction, calls no network and
  waits for nothing. Crashes are not fair.
* `Pipeline`: weak fairness per goroutine. Strong fairness of `ReceiveTrigger`:
  Go's `select` picks at random among ready cases, so a message is not passed
  over forever in favour of the timer. Strong fairness of `BeginUpdate` and of
  `SaveQueue`: the write lock is contended, and who waits for it gets it when it is
  given back. That it is given back is assumed of writers that wait for nothing
  (`OtherUpdate`) and of a template as long as `MergesMut` is not held for ever. The
  locks are
  `go-deadlock` mutexes (`util/util.go:82`), which end a process that waits for
  too long; in the model it just waits.
* `BlockSync`: weak fairness of the loop, of each request goroutine, of the
  delivery of each packet that is not lost, and of the clocks. Faults, and new
  blocks at peers, are not fair.

* `P2P`: weak fairness of each handler and of `newConnections` and `incomingP2P`;
  read deadlines end every wait for the peer, so no fairness of the peer is needed.
  Strong fairness of the two looks, which wait for locks that others take and
  release.
* `Stratum`: weak fairness of each goroutine. A slave chain answers or the read
  times out (`SlaveAnswers` or `ScanEnds`). Strong fairness of `Await`: Go serves
  those who wait at a channel in their order. Miners, peers and faults owe nothing.

## 4. Proofs

What TLC checks on small instances, these theorems state for every value of the
constants: any block tree, number of connections, workers, users and
transactions, any depth of reorganisation, any pattern of failures.

| Module | Theorem | States |
|---|---|---|
| `ChainProofs` | `TypeCorrect`, `MainChainCorrect`, `HeadIsHeaviest`, `TopNotBelow`, `UndoStops`, `SyncCovers` | `[]` of `TypeOK`, `MainChainConsistent`, `NoHeavierBlock`, `TipsNotBelow`, `UndoStopsAtFork`, `SyncNotBehind` |
| | `HeadGrows`, `LedgerIsStack` | `OnlyToHeavier`, `LedgerLIFO` |
| | `Refinement` | `Spec => ImplementsForkChoice` |
| `LedgerProofs` | `NothingReplayed`, `SupplyFollowsSchedule`, `LedgerTyped`, `UndoSucceeds`, `FundsApart` | `[]` of `NoReplay`, `SupplyExact`, `TypeOK`, `UndoRestoresAccounts`, `FundsDistinct` |
| | `StakesInStep` | `StakeAccounted` |
| `MempoolProofs` | `PoolTyped`, `PoolPending`, `TemplatesReplayNothing` | `[]` of `PoolTypeOK`, `PoolIsPending`, `NoReplay` |
| | `UndoneTxsReturn` | `UndoneReturn` |
| | `PaymentsTaken`, `TemplatesKeepSupply` | `[]` of `PaymentTaken`, `SupplyExact` |
| | `TemplatesApply` | `[]TemplateApplies`, when the template holds transfers and registrations only |
| `PipelineProofs` | `TypeCorrect`, `EachPacketOnce` | `[]` of `TypeOK`, `NoLostPacket` |
| `BlockSyncProofs` | `TypeCorrect`, `OneTarget` | `[]` of `TypeOK`, `TargetIsOneBlock` |
| `P2PProofs` | `TypeCorrect`, `ConnectionsOwned`, `AtMostTwo` | `[]` of `TypeOK`, `TableOwned`, `TwoPerPeer` |
| `StratumProofs` | `TypeCorrect`, `SolutionsPay`, `SharesCount`, `IntegratedMinerWoken`, `MinersUpToDate` | `[]` of `TypeOK`, `AcceptedPays`, `ShareCounts`, `SoloWoken`, `MinerUpToDate` |
| | `ArithmeticExact`, `DifficultyFollows` | `[]` of `Uint128Exact`, `DifficultyResponds` |

Each module proves one inductive invariant, from which its theorems follow.

**Chain** (`IInv`). `MainChainConsistent` is not inductive: it speaks of committed
states and says nothing about the half rebuilt view which the last step of a
reorganisation commits. `IInv` therefore adds

* `Good(db)`: the committed index is a chain from genesis to the head whose
  blocks are stored, at their heights, with the ledger equal to it; every stored
  block's parent is stored with the right height and weight; every tip names a
  stored block and carries its weight; no stored block is heavier than the head;
* the view equals `db` before `AddBlock` changes anything;
* in a reorganisation, that `hashes` is the branch from the block after the
  walked position up to the heavier tip (`BranchOK`), that the index below the
  fork is unchanged, and for each step (`Inv1`, `Inv2`, `Inv3`) how far index
  and ledger have been undone and rebuilt;
* at `commit`, that the view is `Good` and its head is the old one or a heavier.

`TopNotBelow` has an invariant of its own on top of it (`HighInv`): heights of tips
and `TopHeight`, committed and in the view, are not below those of their blocks, the
tip a reorganisation is about to switch to included.

**Ledger** (`LedgerInv`, `SupplyInv`, `StakeInv`, each with the one before). They
say of the ledger, and of the one a failed reorganisation goes back to, what the
blocks of the chain make of it, since an undo needs it of the blocks below too.

* Nonces: `Chained(led, chain)` says that every prefix of the chain accounts for the
  nonces up to some number per signer, the whole chain for those of `led`.
* Accounts: `Booked(led, chain)` says that there is a list of accounts, one per block,
  that leads to those of `led`: each block goes from one to the next through its
  transactions (`Moves`) and its coinbase (`Above`), and each adds up to
  `GetSupplyAtHeight`. An undo walks the same accounts back with the coinbase
  still on top of them, which is why the outputs of a transaction can always be
  taken back and the error of `RemoveTxOutputsFromState` that `RemoveTxFromState`
  does not look at never occurs. Funds are not part of this: an undo does
  not give them back (run `undo_stakes`).
* Funds: `Stored(led)` says that the funds of a delegate, now and in every saved
  history, have different owners and are not empty (`Apart`), and that they and the
  staked amount are natural numbers. The step that needs work is a reward: the
  rounded shares add up to less than the reward (`SharedBound`), so the
  check `totalAdded > out.Amount` of `ApplyPosReward`, which the source says should
  never fail, does not. A reward of zero opens no fund, because the coinbase then has
  no output for the staker (`coinbase.go:63`).
* `UndoSucceeds` needs, besides the accounts, that no check of the undo fails. An
  undo does not give back the funds there were, only what every owner holds
  (`Held`), so the proof follows the holdings. `Over(K, L, d, x)` says that the ledger
  `K` on the way down has the holdings of `L`, the ledger on the way up, with a reward
  `x` of delegate `d` on top: nobody holds less, the owner of `d` holds more, and
  elsewhere nothing differs. Undoing a stake therefore finds the stake,
  undoing a registration finds a delegate without funds, because the rewarded
  delegate was registered before the block, and `RemovePosReward` finds the owner it
  saved and funds that are not empty. When the reward is nothing the block has no
  transactions, since each pays a fee, and its funds are those the reward left.

* `StakesInStep` follows `Unfunded` and `Excess` (how far the staked amount and a
  delegate's balance are from the funds) through outputs, transactions and the
  coinbase. What a reward adds to the funds is the whole reward, because the
  owner of the delegate gets what the rounded shares leave over.

That staking, rewards and outputs leave nonces and accounts alone is a frame
lemma each, in both directions.

**Mempool** (`PoolInv`). Adds to `LedgerInv` that entries are distinct, stored and
not in the chain (`Waiting`), the same of the saved pool and the saved chain, and
that during a reorganisation what was undone and not applied again waits
unexpired: an expired entry would be dropped by the next save. It rests on
`LedgerInv` because a block undone must hold no transaction twice, nor one of the
chain below it, or the pool would get an entry that is not pending.

**Wallet and templates** (`PoolInv` with `SupplyInv`). Three pieces of the node
compute what waiting transactions do to an account: `validateMempoolTx`,
`get_address` and `ApplyTxToState`. The theorems compare them entry by entry, on the
lists of ledgers that their folds go through.

* `PaymentsTaken`: as long as no entry fails, the copies of `validateMempoolTx`
  (`Imitating`) count one nonce per entry of the signer, as `get_address` does, and
  have its balance up to a multiple of 2^64 (`Congruent`). The balance of
  the copies is a natural number, so what `get_address` shows is not more than
  it, whatever wrapped on the way: no bound on balances is needed. That the payment
  is not known already is a pigeonhole argument: with `c` entries of the signer and
  none missing, the nonces up to the payment's would be `c + 1` (`NoSpareNonce`). The
  proof is what found the exception `Missing`.
* `TemplatesApply`: what was chosen can be applied, and the copies agree with the
  ledger so far about affected accounts and about delegates (`Agree`); so the
  checks of `validateMempoolTx` on the next one are those of `ApplyTxToState`. With
  stakes they are not (run `template_stake`, and the behaviours named under Mempool
  above), which is why the theorem has its condition.
* `TemplatesKeepSupply`: the invariant of the supply does not need that transactions
  come from `TxLists`, only that a signed block names a delegate.

**Pipeline** (`Inv`). `NoLostPacket` counts places; the invariant says that a packet
is in exactly one of seven places and there once (`Once`), and which locations of
workers and postprocessor hold a packet.

**BlockSync** (`Inv`). The target has to belong to one block *and* every packet,
queued block and request in flight has to name a block of the tree, since they
are what the target is set from. `Branch` and the ranges of heights are recursive
functions: that their equations have solutions is proved first.

**P2P** (`Inv`). `TwoPerPeer` needs that a connection past its second look shows the
ID of its handshake and that this ID is not the node's own (`IdShown`), because
the second look compares IDs while the first compares what the handshake said;
`TableOwned` needs that every connection in use has a host the table knows.

**Stratum** (`Inv`). A solution is tied to the template it was found for by way of
the job history of its connection: who wrote to a template and what its content
was then (`Given`, `Entry`), what a submission keeps of it (`Solution`), what the
slave chain said (`Offered`, `Refused`), who holds the write transaction
(`LockOK`). `AllTold` and `Woken` are the two notification invariants. `AllTold` says
of every connection that has taken its block at the login that `LastBlock` was sent to it, waits to
be written, comes with the response to its login, or is with a `SendJob`
goroutine; no order of the messages is used, since there is none. That rounding a
difficulty to a target and back loses no share is proved for every limb width, and
that a hash below the target of a difficulty solves every lower one (`LowerSolves`),
which is what the changing difficulty of the slave chain needs.

**Uint128 and Difficulty**. `ArithmeticExact` is about every width `W` of a limb,
64 among them, where TLC has 4. Of `QuoRem` by two limbs it shows that the trial
quotient, made with the leading limb of the shifted divisor, is the quotient or one
less once 1 is taken off, that the remainder computed from it fits, and that one
correction is enough; the shifts are facts about powers of two (`Pow` lemmas).
`DifficultyFollows` uses it to replace `Mul64` and `Div64` by multiplication and
division of integers: the moving average is then `d * N * T` divided by
`(N - 1) * T + t`, and each part of `Responds` is a bound on such a quotient,
rounding included, for every averaging window, target time and minimum.

How induction over data is done: the provers cannot instantiate a theorem whose
parameter is an operator, so `NatLemmas` has induction as a statement about a *set*
of numbers. A fold over a list is turned into the sequence of ledgers (or lists) it
goes through (`Folding`, `Choosing`), and the induction is over its positions.

Assumptions are those named in the modules. Some are worth a word.
`WAssumption` has, next to `W \in Nat \ {0}`, what powers of two are, `2^0 = 1` and
`2^(n + 1) = 2 * 2^n`: the provers have no theory of powers.
`DifficultyAssumption` bounds solve times and difficulties so that no 64 bit number
wraps; the code does not check this and real values are far from it.
`AddrAssumption` has that a delegate's address is nobody else's: it is all
zeros but for the delegate's number, and other addresses are hashes.
`StratumAssumption` keeps
connections, the integrated miner, the network and the numbers of jobs apart,
since the model writes all of them in `db`. `TxAssumption` and `PoolAssumption`
say that the transactions offered are transactions that passed `Prevalidate`: the
fee is at least the minimum and so not zero, the delegate registered is not 0, a
stake is not empty (`MIN_STAKE_AMOUNT`), the fee of an unstake is not more than its
amount.
`LedgerAssumption` has finitely many users and delegates, or balances would have no
sum.

Every invariant and every action property of the runs is stated by a theorem, and
so is the refinement; `TypeOK` of `P2P` is proved only. Only model-checked:

* `TemplateApplies` for templates with stakes, unstakes or choices of a delegate: it
  is not true of all of them (run `template_stake`);
* liveness (`AddBlockEnds`, `EveryPacketJudged`, `BatchStored`, `ShutdownEnds`,
  `CatchesUp`, `Settles`, `SolutionAnswered`), which is out of the prover's reach.

## 5. Not modelled

Proof of work, signatures and hashing (assumed sound); serialisation, commands,
logging and the RPC calls that only read (no state of their own); the database
beyond atomic, single write transactions; the peer list on disk; stake
signatures as packets and the choice of side blocks, whose outcomes are in
`Ledger` (a block is signed or not) and in the predicate `Sound` of `Chain`;
`DeorphanBlock`, which nothing calls; that stakers are chosen in proportion to their
stake (`staking.go:42`), of which `Ledger` only has the rule. Met while reading and not checked by a run:
undoing a full unstake resets `Unlock` (`bc-stateadd.go:235` says why);
`SetDelegate` does not sort although comments at lines 200 and 255 say so;
`checkBlock` asks for a timestamp "strictly greater"; the postprocessor's timer is
15 seconds, its comment says 10; `get_balance` of the wallet's RPC gives the
balance as `MempoolLastNonce` (`walletrpc.go:65`); `Refresh` keeps the old unlock
height when the wallet has no fund with its delegate (`wallet.go:183`), which is
harmless because `PrevUnlock` is only compared when there is one; `AddStratum`
waits for ever when `Start` failed, although the stratum is permanent
(`mergestratum.go:80`); `Uint128.Mul` misses one kind of overflow
(`uint128.go:180`), and nothing the node computes needs it.

## 6. What could follow

1. `TemplateApplies` for a template with one stake or choice of a delegate, which the
   code judges rightly; it needs the invariant of the funds for the pool too.
2. Stake signatures and side blocks in templates and in `checkBlock`.
3. Stakes of a wallet, and its refresh torn by a block.
