------------------------------ MODULE Stratum ------------------------------
(***************************************************************************)
(* Mining: the stratum server (bc-stratum.go, stratumsrv/server.go), the   *)
(* integrated miner and the fate of a solution (mining.go), and merge      *)
(* mining of one slave chain (mergestratum.go, stratumclient/client.go).   *)
(*                                                                         *)
(* Goroutines: one NewStratumJob per event, and per job and connection one *)
(* that hands the job out and one that writes it to the network; one       *)
(* handler per connection; the integrated miner; AddStratum and the        *)
(* client's reader scanJobs for the slave chain.                           *)
(* A step ends where a goroutine may wait (the database's write lock,      *)
(* MergesMut, a channel, the network) and between two accesses to a block  *)
(* that others hold a pointer to.  Writers of MergesMut wait for nothing   *)
(* while they hold it, so its state is the set of its readers.             *)
(*                                                                         *)
(* A block template is an object of the heap.  Its content stands for what *)
(* is hashed: another recipient, extra nonce or merged chain is another    *)
(* hash, and a hash nobody searched for solves nothing.                    *)
(***************************************************************************)
EXTENDS Uint128, Difficulty, Sequences, FiniteSets

CONSTANTS
  Conns,                 \* connections of miners, each with its own address
  Solo,                  \* the integrated miner, and its address
  Peer,                  \* the goroutine that adds the blocks of peers
  None,                  \* INVALID_ADDRESS, no template, nobody
  Nodes,                 \* the nodes looked at, see below
  STRATUM_JOBS_HISTORY,
  MaxTop,                \* bound of the fairness below: blocks that are added
  MaxMergeJobs           \* and NewStratumJob calls of AddStratum, on any node

VARIABLES
  node,     \* the node looked at, never changed
  top,      \* stats.TopHeight
  db,       \* who holds the database's write transaction
  updated,  \* mergesUpdated
  heap,     \* templates: what is hashed, the minimum difficulty, connections that wrote to it
  last,     \* Stratum.LastBlock and LastMinDiff
  job,      \* the NewStratumJob goroutines
  conn,     \* handlers of the connections, and the integrated miner
  blocks,   \* own solutions that AddBlock took
  merge,    \* the mergestratum in bc.Merges and the goroutine of AddStratum
  cl,       \* its stratumclient.Client and the connection to the slave chain
  sjob      \* the slave chain's newest job

vars == <<node, top, db, updated, heap, last, job, conn, blocks, merge, cl, sjob>>
chainVars == <<top, db, blocks>>
mergeVars == <<merge, cl, sjob>>
jobVars == <<heap, last, job>>

Finders == Conns \cup {Solo}

(***************************************************************************)
(* A node: its difficulty, the connections of its stratum server, whether  *)
(* the integrated miner runs, the hashes each of them finds, the number of *)
(* jobs its slave chain sends (0 without one), the difficulties these jobs *)
(* may have, the number of NewStratumJob calls they lead to, whether peers *)
(* send blocks, whether its miners come once there is a template and stay, *)
(* and the number of blocks added to the main chain.                       *)
(***************************************************************************)
NodeType == [diff: Limb \ {0}, miners: SUBSET Conns, solo: BOOLEAN, hashes: [Finders -> SUBSET Number],
             slaveJobs: Nat, slaveDiffs: SUBSET (Limb \ {0}), mergeJobs: 0 .. MaxMergeJobs,
             peers: BOOLEAN, settled: BOOLEAN, maxTop: 0 .. MaxTop]

ASSUME StratumAssumption ==
  /\ Solo \notin Conns /\ Peer \notin Finders /\ None \notin Finders \cup {Peer}
  /\ \A x \in Finders \cup {Peer, None} : x \notin Nat
  /\ \A n \in Nodes : n \in NodeType
  /\ STRATUM_JOBS_HISTORY \in Nat \ {0}

-----------------------------------------------------------------------------
(* State                                                                   *)

\* What a template hashes to; merged is the slave chain's job in it, or 0.
Content(b) == [height |-> b.height, rcpt |-> b.rcpt, extra |-> b.extra, merged |-> b.merged]

NewJob(force) == [at |-> "lock", force |-> force, tpl |-> 0,
                  to |-> [c \in Conns |-> "-"]]

\* out: jobs whose message is not written yet; had, told: the jobs the miner
\* was sent, and the last of them.
Idle == [at |-> "off", addr |-> FALSE, bl |-> 0, jobs |-> <<>>, out |-> {}, had |-> {},
         told |-> 0, share |-> None]

Unlisted == [at |-> "off", listed |-> FALSE, merged |-> 0, diff |-> 0, got |-> 0]

\* A message of the slave chain is the number of a job, or a response.
Response == 0

NoClient == [open |-> TRUE, reading |-> FALSE, up |-> FALSE, chan |-> <<>>,
             resp |-> <<>>, scan |-> <<>>, sock |-> <<>>, req |-> <<>>]

Init ==
  /\ node \in Nodes
  /\ top = 0 /\ db = None /\ updated = FALSE
  /\ heap = <<>> /\ last = 0
  /\ job = <<NewJob(TRUE)>>
  /\ conn = [f \in Finders |-> Idle]
  /\ blocks = {}
  /\ merge = Unlisted /\ cl = NoClient /\ sjob = 1

\* The goroutines that hold MergesMut for reading (submitMergeMinedBlock).
Readers == {f \in Finders : conn[f].at \in {"work", "await"}}
Unlocked == Readers = {}

\* A goroutine of SendJob holds the lock of the connection.
Busy(c) == \E j \in DOMAIN job : job[j].to[c] = "set"

Move(f, at) == conn' = [conn EXCEPT ![f].at = at]

-----------------------------------------------------------------------------
(* NewStratumJob and SendJob                                               *)

\* GetBlockTemplate: the merged chain joins once its first job is known.
Template(rcpt) ==
  LET merged == merge.listed /\ merge.diff # 0
  IN  [height |-> top + 1, rcpt |-> rcpt, extra |-> 0,
       merged |-> IF merged THEN merge.merged ELSE 0,
       min |-> IF merged /\ merge.diff < node.diff THEN merge.diff ELSE node.diff,
       touched |-> 0]

\* Some NewStratumJob went on before: one not forced may come too early.
Recent == \E j \in DOMAIN job : job[j].at # "lock"

\* Mutant of JobLock: a job that comes too early does not wake the miner.
JobLockSilent(j) ==
  /\ job[j].at = "lock" /\ Unlocked
  /\ \/ /\ job' = [job EXCEPT ![j].at = "db"]
        /\ updated' = TRUE
     \/ /\ ~job[j].force /\ Recent
        /\ job' = [job EXCEPT ![j].at = "done"]
        /\ UNCHANGED updated
  /\ UNCHANGED <<node, chainVars, heap, last, conn, mergeVars>>

\* The integrated miner is told; a job not forced is skipped within 500 ms of
\* the one before.
JobLock(j) ==
  /\ job[j].at = "lock" /\ Unlocked
  /\ updated' = TRUE
  /\ \/ job' = [job EXCEPT ![j].at = "db"]
     \/ ~job[j].force /\ Recent /\ job' = [job EXCEPT ![j].at = "done"]
  /\ UNCHANGED <<node, chainVars, heap, last, conn, mergeVars>>

JobUpdate(j) ==
  /\ job[j].at = "db" /\ db = None
  /\ db' = j
  /\ job' = [job EXCEPT ![j].at = "template"]
  /\ UNCHANGED <<node, top, updated, heap, last, conn, blocks, mergeVars>>

\* GetBlockTemplate locks MergesMut inside the write transaction.
JobTemplate(j) ==
  /\ job[j].at = "template" /\ Unlocked
  /\ heap' = Append(heap, Template(None))
  /\ job' = [job EXCEPT ![j].at = "send", ![j].tpl = Len(heap) + 1]
  /\ db' = None
  /\ UNCHANGED <<node, top, updated, last, conn, blocks, mergeVars>>

\* Mutant of SendJob: connections that are still logging in are left out.
SendJobServed(j) ==
  /\ job[j].at = "send"
  /\ last' = job[j].tpl
  /\ job' = [job EXCEPT ![j].at = "done",
               ![j].to = [c \in Conns |-> IF conn[c].at = "serve" THEN "go" ELSE "-"]]
  /\ UNCHANGED <<node, chainVars, updated, heap, conn, mergeVars>>

\* One goroutine per registered connection.
SendJob(j) ==
  /\ job[j].at = "send"
  /\ last' = job[j].tpl
  /\ job' = [job EXCEPT ![j].at = "done",
               ![j].to = [c \in Conns |->
                            IF conn[c].at \in {"off", "gone"} THEN "-" ELSE "go"]]
  /\ UNCHANGED <<node, chainVars, updated, heap, conn, mergeVars>>

\* The goroutine sets extra nonce and recipient in the shared block ...
GiveWrite(j, c) ==
  /\ job[j].to[c] = "go" /\ ~Busy(c)
  /\ IF conn[c].addr
       THEN /\ heap' = [heap EXCEPT ![job[j].tpl].rcpt = c, ![job[j].tpl].extra = @ + 1,
                                    ![job[j].tpl].touched = @ + 1]
            /\ job' = [job EXCEPT ![j].to[c] = "set"]
       ELSE /\ job' = [job EXCEPT ![j].to[c] = "-"]
            /\ UNCHANGED heap
  /\ UNCHANGED <<node, chainVars, updated, last, conn, mergeVars>>

\* Mutant of AddJob: the history grows one job too long.
AddJobLong(jobs, t, min) ==
  Append(IF Len(jobs) > STRATUM_JOBS_HISTORY THEN Tail(jobs) ELSE jobs,
         [t |-> t, blob |-> Content(heap[t]), min |-> min])

\* The history of a connection is cut at its front.
AddJob(jobs, t, min) ==
  Append(IF Len(jobs) >= STRATUM_JOBS_HISTORY THEN Tail(jobs) ELSE jobs,
         [t |-> t, blob |-> Content(heap[t]), min |-> min])

\* ... and then takes the blob from it, remembers the job and leaves the
\* message to a goroutine of its own ...
GiveBlob(j, c) ==
  /\ job[j].to[c] = "set"
  /\ conn' = [conn EXCEPT ![c].jobs = AddJob(@, job[j].tpl, heap[job[j].tpl].min),
                          ![c].out = @ \cup {job[j].tpl}]
  /\ job' = [job EXCEPT ![j].to[c] = "-"]
  /\ UNCHANGED <<node, chainVars, updated, heap, last, mergeVars>>

\* ... which writes it: messages to one miner go out in any order.
WriteJob(c) ==
  /\ ~Busy(c)
  /\ \E t \in conn[c].out :
       conn' = [conn EXCEPT ![c].out = @ \ {t}, ![c].had = @ \cup {t}, ![c].told = t]
  /\ UNCHANGED <<node, chainVars, updated, jobVars, mergeVars>>

JobStep(j) ==
  \/ JobLock(j) \/ JobUpdate(j) \/ JobTemplate(j) \/ SendJob(j)
  \/ \E c \in Conns : GiveWrite(j, c) \/ GiveBlob(j, c)

-----------------------------------------------------------------------------
(* handleConn                                                              *)

Connect(c) ==
  /\ c \in node.miners /\ conn[c].at = "off"
  /\ node.settled => last # 0
  /\ Move(c, "login")
  /\ UNCHANGED <<node, chainVars, updated, jobVars, mergeVars>>

LoginAddress(c) ==
  /\ conn[c].at = "login" /\ ~Busy(c)
  /\ conn' = [conn EXCEPT ![c].addr = TRUE, ![c].at = "address"]
  /\ UNCHANGED <<node, chainVars, updated, jobVars, mergeVars>>

\* "block template is not ready yet", a bad login, or the connection ends.
Kick(c) ==
  /\ \/ conn[c].at \in {"login", "serve"} /\ ~node.settled
     \/ conn[c].at = "address" /\ last = 0
  /\ ~Busy(c)
  /\ Move(c, "gone")
  /\ UNCHANGED <<node, chainVars, updated, jobVars, mergeVars>>

LoginRecipient(c) ==
  /\ conn[c].at = "address" /\ last # 0
  /\ heap' = [heap EXCEPT ![last].rcpt = c, ![last].touched = @ + 1]
  /\ conn' = [conn EXCEPT ![c].at = "recipient", ![c].bl = last]
  /\ UNCHANGED <<node, chainVars, updated, last, job, mergeVars>>

\* The blob is that of the block taken before; LastMinDiff is read now.
LoginRespond(c) ==
  /\ conn[c].at = "recipient" /\ ~Busy(c)
  /\ conn' = [conn EXCEPT ![c].at = "serve", ![c].bl = 0, ![c].told = conn[c].bl,
                          ![c].had = @ \cup {conn[c].bl},
                          ![c].jobs = AddJob(@, conn[c].bl, heap[last].min)]
  /\ UNCHANGED <<node, chainVars, updated, jobVars, mergeVars>>

\* Solutions are found as long as blocks may be added: a bound of the model.
MayFind == top < node.maxTop

\* The miner found a hash below the target of a job, and the handler reads it.
\* The block is copied as it is now; a miner may send the extra nonce it used.
\* (A job that left the history is answered "stale job", and nothing changes.)
Submit(c) ==
  /\ conn[c].at = "serve" /\ MayFind
  /\ \E i \in DOMAIN conn[c].jobs, pow \in node.hashes[c], echo \in BOOLEAN :
       LET j  == conn[c].jobs[i]
           jb == [Content(heap[j.t]) EXCEPT !.extra = IF echo THEN j.blob.extra ELSE @]
       IN  /\ MeetsTarget(pow, GetTarget(From64(j.min)))
           /\ conn' = [conn EXCEPT
                ![c].at = "merge",
                ![c].share = [t |-> j.t, min |-> j.min, blob |-> jb, torn |-> FALSE,
                              pow |-> IF jb = j.blob THEN pow ELSE Largest,
                              offered |-> 0, success |-> FALSE]]
  /\ UNCHANGED <<node, chainVars, updated, jobVars, mergeVars>>

-----------------------------------------------------------------------------
(* StartMining, MineBlock and findBlockSolution                            *)

StartMining ==
  /\ node.solo /\ conn[Solo].at = "off"
  /\ Move(Solo, "idle")
  /\ UNCHANGED <<node, chainVars, updated, jobVars, mergeVars>>

\* A block is being added and its transaction has not committed.
Adding == db \in Finders \cup {Peer}

\* The template is read in a View, which sees what is committed.  addr tells
\* whether a block was being added meanwhile.
MineTemplate ==
  /\ conn[Solo].at = "idle" /\ Unlocked
  /\ conn' = [conn EXCEPT ![Solo].at = "mine", ![Solo].addr = Adding,
                          ![Solo].jobs = <<Template(Solo)>>]
  /\ UNCHANGED <<node, chainVars, updated, jobVars, mergeVars>>

Restart ==
  /\ conn[Solo].at = "mine" /\ Unlocked
  /\ updated /\ updated' = FALSE
  /\ Move(Solo, "idle")
  /\ UNCHANGED <<node, chainVars, jobVars, mergeVars>>

\* At every 256th nonce the timestamp of the block changes after the blob was
\* taken from it: a solution found then (torn) is not one of the block.
Solve ==
  /\ conn[Solo].at = "mine" /\ Unlocked /\ ~updated /\ MayFind
  /\ \E pow \in node.hashes[Solo], torn \in BOOLEAN :
       LET b == conn[Solo].jobs[1]
       IN  /\ ValidPowHash(pow, From64(b.min))
           /\ conn' = [conn EXCEPT
                ![Solo].at = "merge",
                ![Solo].share = [t |-> 0, min |-> b.min, blob |-> Content(b), torn |-> torn,
                                 pow |-> pow, offered |-> 0, success |-> FALSE]]
  /\ UNCHANGED <<node, chainVars, updated, jobVars, mergeVars>>

-----------------------------------------------------------------------------
(* blockFound                                                              *)

\* submitMergeMinedBlock, up to the goroutine that submits.
MergeCheck(f) ==
  LET s       == conn[f].share
      offered == IF merge.listed THEN merge.diff ELSE 0
      hit     == offered # 0 /\ ValidPowHash(s.pow, From64(offered))
  IN  /\ conn[f].at = "merge"
      /\ conn' = [conn EXCEPT ![f].at = IF hit THEN "work" ELSE "found",
                              ![f].share.offered = offered, ![f].share.success = hit]
      /\ UNCHANGED <<node, chainVars, updated, jobVars, mergeVars>>

\* Client.SendWork writes the request, or fails at once.
SendWork(f) ==
  /\ conn[f].at = "work"
  /\ IF cl.up
       THEN cl' = [cl EXCEPT !.req = Append(@, f)] /\ Move(f, "await")
       ELSE Move(f, "found") /\ UNCHANGED cl
  /\ UNCHANGED <<node, chainVars, updated, jobVars, merge, sjob>>

\* Mutant of Await: scanJobs leaves responseChan open.
AwaitOpen(f) ==
  /\ conn[f].at = "await"
  /\ cl.resp # <<>> /\ cl' = [cl EXCEPT !.resp = <<>>]
  /\ Move(f, "found")
  /\ UNCHANGED <<node, chainVars, updated, jobVars, merge, sjob>>

\* Whoever waits takes the next response, its own or not; then MergesMut is
\* released.
Await(f) ==
  /\ conn[f].at = "await"
  /\ \/ cl.resp # <<>> /\ cl' = [cl EXCEPT !.resp = <<>>]
     \/ cl.resp = <<>> /\ ~cl.open /\ UNCHANGED cl
  /\ Move(f, "found")
  /\ UNCHANGED <<node, chainVars, updated, jobVars, merge, sjob>>

\* Done: the miner is answered, or the integrated miner starts over.
Answered(f) ==
  [conn EXCEPT ![f].at = IF f = Solo THEN "idle" ELSE "serve", ![f].share = None,
               ![f].jobs = IF f = Solo THEN <<>> ELSE @]

Found(f) ==
  LET s == conn[f].share
  IN  /\ conn[f].at = "found"
      /\ CASE ValidPowHash(s.pow, From64(node.diff)) -> Move(f, "add")
           [] OTHER -> IF s.success THEN conn' = Answered(f) ELSE Move(f, "refused")
      /\ UNCHANGED <<node, chainVars, updated, jobVars, mergeVars>>

Refuse(f) ==
  /\ conn[f].at = "refused"
  /\ conn' = Answered(f)
  /\ UNCHANGED <<node, chainVars, updated, jobVars, mergeVars>>

\* Mutant of AddFound: PrevalidateBlock does not hash the block again.
AddFoundUnchecked(f) ==
  LET s == conn[f].share
  IN  /\ conn[f].at = "add" /\ db = None
      /\ IF \E b \in blocks : b.blob = s.blob
           THEN conn' = Answered(f) /\ UNCHANGED <<db, job>>
           ELSE /\ db' = f
                /\ job' = IF s.blob.height = top + 1 THEN Append(job, NewJob(TRUE)) ELSE job
                /\ Move(f, "commit")
      /\ UNCHANGED <<node, top, blocks, updated, heap, last, mergeVars>>

\* PrevalidateBlock hashes the block again, AddBlock refuses one it has; a
\* block of the main chain starts NewStratumJob before the commit.
AddFound(f) ==
  LET s == conn[f].share
  IN  /\ conn[f].at = "add" /\ db = None
      /\ IF s.torn \/ \E b \in blocks : b.blob = s.blob
           THEN conn' = Answered(f) /\ UNCHANGED <<db, job>>
           ELSE /\ db' = f
                /\ job' = IF s.blob.height = top + 1 THEN Append(job, NewJob(TRUE)) ELSE job
                /\ Move(f, "commit")
      /\ UNCHANGED <<node, top, blocks, updated, heap, last, mergeVars>>

Commit(f) ==
  LET s == conn[f].share
  IN  /\ conn[f].at = "commit"
      /\ blocks' = blocks \cup
           {[blob |-> s.blob, by |-> f, torn |-> s.torn,
             shared |-> f # Solo /\ heap[s.t].touched > 1]}
      /\ top' = IF s.blob.height = top + 1 THEN top + 1 ELSE top
      /\ db' = None
      /\ conn' = Answered(f)
      /\ UNCHANGED <<node, updated, jobVars, mergeVars>>

\* A block of a peer, at the tip of its chain or on the way there.
PeerBlock ==
  /\ node.peers /\ db = None /\ top < node.maxTop
  /\ db' = Peer
  /\ \E force \in BOOLEAN : job' = Append(job, NewJob(force))
  /\ UNCHANGED <<node, top, updated, heap, last, conn, blocks, mergeVars>>

PeerCommit ==
  /\ db = Peer
  /\ db' = None /\ top' = top + 1
  /\ UNCHANGED <<node, updated, jobVars, conn, blocks, mergeVars>>

FinderStep(f) ==
  MergeCheck(f) \/ SendWork(f) \/ Await(f) \/ Found(f) \/ Refuse(f) \/ AddFound(f) \/ Commit(f)

-----------------------------------------------------------------------------
(* AddStratum and the client of the slave chain                            *)

AddStratum ==
  /\ node.slaveJobs > 0 /\ merge.at = "off" /\ Unlocked
  /\ merge' = [Unlisted EXCEPT !.at = "start", !.listed = TRUE]
  /\ UNCHANGED <<node, chainVars, updated, jobVars, conn, cl, sjob>>

\* Client.Start: new channels; a failure is only logged, and the wait for a
\* job begins all the same.
Start ==
  /\ merge.at = "start"
  /\ merge' = [merge EXCEPT !.at = "wait"]
  /\ cl' \in {NoClient, [NoClient EXCEPT !.reading = TRUE, !.up = TRUE, !.chan = <<sjob>>]}
  /\ UNCHANGED <<node, chainVars, updated, jobVars, conn, sjob>>

ReceiveJob ==
  /\ merge.at = "wait" /\ cl.chan # <<>>
  /\ cl' = [cl EXCEPT !.chan = <<>>]
  /\ merge' = [merge EXCEPT !.at = "got", !.got = Head(cl.chan)]
  /\ UNCHANGED <<node, chainVars, updated, jobVars, conn, sjob>>

\* The slave chain's difficulty is recovered from the target of this job.
StoreJob ==
  /\ merge.at = "got"
  /\ \E d \in node.slaveDiffs :
       merge' = [merge EXCEPT !.at = "notify", !.merged = merge.got, !.got = 0,
                              !.diff = TargetToDiff64(GetTarget(From64(d))).lo]
  /\ UNCHANGED <<node, chainVars, updated, jobVars, conn, cl, sjob>>

\* A job that cannot be decoded ends the connection.
BadJob ==
  /\ merge.at = "got"
  /\ merge' = [merge EXCEPT !.at = "remove", !.got = 0]
  /\ cl' = [cl EXCEPT !.up = FALSE, !.req = <<>>]
  /\ UNCHANGED <<node, chainVars, updated, jobVars, conn, sjob>>

NotifyMiners ==
  /\ merge.at = "notify" /\ Unlocked
  /\ updated' = TRUE
  /\ merge' = [merge EXCEPT !.at = "wait"]
  /\ job' = IF Cardinality({j \in DOMAIN job : ~job[j].force}) < node.mergeJobs
              THEN Append(job, NewJob(FALSE)) ELSE job
  /\ UNCHANGED <<node, chainVars, heap, last, conn, cl, sjob>>

ChannelClosed ==
  /\ merge.at = "wait" /\ cl.chan = <<>> /\ ~cl.open
  /\ merge' = [merge EXCEPT !.at = "remove"]
  /\ UNCHANGED <<node, chainVars, updated, jobVars, conn, cl, sjob>>

\* The deferred function; a permanent stratum is added again a second later.
Remove ==
  /\ merge.at = "remove" /\ Unlocked
  /\ merge' = Unlisted
  /\ UNCHANGED <<node, chainVars, updated, jobVars, conn, cl, sjob>>

MergeStep == AddStratum \/ Start \/ ReceiveJob \/ StoreJob \/ NotifyMiners \/ ChannelClosed \/ Remove

\* scanJobs reads a job or a response and waits until its channel takes it.
ScanRead ==
  /\ cl.reading /\ cl.scan = <<>> /\ cl.sock # <<>>
  /\ cl' = [cl EXCEPT !.scan = <<Head(cl.sock)>>, !.sock = Tail(@)]
  /\ UNCHANGED <<node, chainVars, updated, jobVars, conn, merge, sjob>>

ScanPut ==
  /\ cl.scan # <<>>
  /\ IF cl.scan[1] = Response
       THEN cl.resp = <<>> /\ cl' = [cl EXCEPT !.resp = cl.scan, !.scan = <<>>]
       ELSE cl.chan = <<>> /\ cl' = [cl EXCEPT !.chan = cl.scan, !.scan = <<>>]
  /\ UNCHANGED <<node, chainVars, updated, jobVars, conn, merge, sjob>>

\* A read fails or times out; both channels are closed.
ScanEnds ==
  /\ cl.reading /\ cl.scan = <<>> /\ (~cl.up \/ cl.sock = <<>>)
  /\ cl' = [cl EXCEPT !.open = FALSE, !.reading = FALSE, !.up = FALSE, !.sock = <<>>, !.req = <<>>]
  /\ UNCHANGED <<node, chainVars, updated, jobVars, conn, merge, sjob>>

SlaveJob ==
  /\ cl.up /\ sjob < node.slaveJobs
  /\ sjob' = sjob + 1
  /\ cl' = [cl EXCEPT !.sock = Append(@, sjob + 1)]
  /\ UNCHANGED <<node, chainVars, updated, jobVars, conn, merge>>

SlaveAnswers ==
  /\ cl.up /\ cl.req # <<>>
  /\ cl' = [cl EXCEPT !.req = Tail(@), !.sock = Append(@, Response)]
  /\ UNCHANGED <<node, chainVars, updated, jobVars, conn, merge, sjob>>

-----------------------------------------------------------------------------

Next ==
  \/ \E j \in DOMAIN job : JobStep(j)
  \/ \E c \in Conns : \/ Connect(c) \/ LoginAddress(c) \/ Kick(c)
                      \/ LoginRecipient(c) \/ LoginRespond(c) \/ Submit(c) \/ WriteJob(c)
  \/ StartMining \/ MineTemplate \/ Restart \/ Solve
  \/ \E f \in Finders : FinderStep(f)
  \/ PeerBlock \/ PeerCommit
  \/ MergeStep \/ BadJob
  \/ ScanRead \/ ScanPut \/ ScanEnds \/ SlaveJob \/ SlaveAnswers

\* Goroutines go on when they can; the slave chain answers or the read times
\* out.  Those who wait at a channel are served in their order, so a waiting
\* solution is not passed over for ever.  Miners, peers and faults owe nothing.
Fairness ==
  /\ \A j \in 1 .. 1 + MaxTop + MaxMergeJobs : WF_vars(j \in DOMAIN job /\ JobStep(j))
  /\ \A f \in Finders : WF_vars(FinderStep(f)) /\ SF_vars(Await(f))
  /\ WF_vars(MergeStep)
  /\ WF_vars(PeerCommit)
  /\ WF_vars(ScanRead \/ ScanPut)
  /\ WF_vars(SlaveAnswers \/ ScanEnds)

Spec == Init /\ [][Next]_vars /\ Fairness

-----------------------------------------------------------------------------
(* Properties                                                              *)

\* Templates, jobs and channels are within their bounds: a connection keeps at
\* most STRATUM_JOBS_HISTORY jobs (server.go:144), and the channels of the
\* client hold one message each.
TypeOK ==
  /\ node \in Nodes /\ top \in 0 .. node.maxTop
  /\ db \in {None, Peer} \cup Finders \cup DOMAIN job
  /\ updated \in BOOLEAN
  /\ last \in 0 .. Len(heap)
  /\ \A t \in DOMAIN heap : heap[t].height \in 1 .. node.maxTop + 1 /\ heap[t].rcpt \in Conns \cup {None}
  /\ \A j \in DOMAIN job : job[j].tpl \in 0 .. Len(heap)
  /\ \A c \in Conns : Len(conn[c].jobs) <= STRATUM_JOBS_HISTORY
  /\ merge.diff \in Limb
  /\ {Len(cl.chan), Len(cl.resp), Len(cl.scan)} \subseteq {0, 1}

\* Whatever the connections do to the block they share (bc-stratum.go:218,
\* server.go:131), a solution that AddBlock takes was found for the block that
\* is stored, it never pays INVALID_ADDRESS, which templates are made with, and
\* it pays somebody else than the miner who found it only when several
\* connections were given the same block.
AcceptedPays ==
  \A b \in blocks : /\ b.blob.rcpt # None /\ ~b.torn
                    /\ b.blob.rcpt # b.by => b.shared

\* A hash below the target a miner was sent is refused for its difficulty
\* only when another connection wrote to the shared block meanwhile, when the
\* target was that of another template (LastMinDiff is read after LastBlock),
\* or when the merge mined chain the target was lowered for is gone or has sent
\* a job of a higher difficulty since (mergestratum.go:118): the rounding of
\* target and difficulty never costs a share.
ShareCounts ==
  \A c \in Conns :
    conn[c].at = "refused" =>
      LET s == conn[c].share
      IN  \/ heap[s.t].touched > 1
          \/ s.min # heap[s.t].min
          \/ s.blob.merged # 0 /\ (s.offered = 0 \/ s.offered > s.min)

\* The integrated miner does not go on with a block on an old top unless it is
\* about to be told (bc-stratum.go:63), or it fetched its template while a
\* block was being added: NewStratumJob runs before the commit, and the miner
\* that it wakes may still read the old top.
SoloWoken ==
  conn[Solo].at = "mine" /\ conn[Solo].jobs[1].height <= top =>
    \/ updated \/ \E j \in DOMAIN job : job[j].at = "lock"
    \/ conn[Solo].addr

\* Everyone waits for everyone: a solution waits for the slave chain's
\* response with MergesMut locked for reading; AddStratum waits for MergesMut,
\* to announce a job it stored or to take the chain off the list after a bad
\* one; JobChan is full, and scanJobs waits for it with one more job in its
\* hands, before the response.
Stuck ==
  /\ \E f \in Finders : conn[f].at = "await"
  /\ merge.at \in {"notify", "remove"} /\ cl.chan # <<>> /\ cl.resp = <<>>
  /\ cl.scan # <<>> /\ cl.scan[1] # Response

\* Every solution is answered (submitMergeMinedBlock waits for the slave chain
\* without a timeout), except in a deadlock in which jobs of the slave chain
\* come before the response and nobody takes them.
SolutionAnswered ==
  \A f \in Finders : conn[f].at = "merge" ~> conn[f].at \in {"serve", "idle", "gone"} \/ Stuck

\* The templates that SendJob was called with.
Sent == {job[j].tpl : j \in {k \in DOMAIN job : job[k].at = "done"}} \ {0}

\* A miner that is served works on the newest template, with three exceptions
\* the goroutines of SendJob leave (server.go:118, :122, :154): the newest is on
\* its way to it; it had the newest, and the message of an older one was
\* written after it; or LastBlock fell back to an older template, which is what
\* a login is given from then on.  In particular a job that goes out while a
\* miner logs in is not lost: a goroutine that finds no address leaves the miner
\* to the login, which takes LastBlock after it sets the address.
MinerUpToDate ==
  \A c \in Conns, newest \in Sent :
    conn[c].at = "serve" /\ (\A t \in Sent : t <= newest) /\ conn[c].told # newest =>
      \/ newest \in conn[c].out
      \/ \E j \in DOMAIN job : job[j].tpl = newest /\ job[j].to[c] # "-"
      \/ newest \in conn[c].had
      \/ last # newest

\* Facts about numbers alone are the same in all states: one is enough for TLC.
OneState == Init /\ node = CHOOSE n \in Nodes : TRUE

\* QuoRem and Mul64 agree with the integers.
Exact ==
  \A u \in Number, v \in Number :
    /\ Value(v) # 0 => LET d == QuoRem(u, v)
                       IN  /\ d.q \in Number /\ Value(d.q) = Value(u) \div Value(v)
                           /\ d.r \in Number /\ Value(d.r) = Value(u) % Value(v)
    /\ LET p == Mul64(u, v.lo)
       IN  IF Value(u) * v.lo < Base * Base
             THEN p # Overflow /\ Value(p) = Value(u) * v.lo
             ELSE p = Overflow

\* Division and multiplication are exact: every quotient and remainder of QuoRem
\* (uint128.go:228), whichever of its branches is taken and although it corrects
\* the trial quotient only once; and Mul64 (uint128.go:197) panics exactly when
\* the product does not fit.
Uint128Exact == OneState => Exact

\* Responds of Difficulty: the difficulty follows the solve times in the right
\* direction, is bounded and never falls below MIN_DIFFICULTY (difficulty.go:14).
DifficultyResponds == OneState => Responds
=============================================================================
