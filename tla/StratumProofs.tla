--------------------------- MODULE StratumProofs ---------------------------
(***************************************************************************)
(* Proofs about Stratum, for any connections, nodes, difficulties and      *)
(* number of blocks: type correctness, what a solution that AddBlock takes *)
(* pays, that no share is lost to rounding, and that neither the miners    *)
(* nor the integrated miner are left behind.  Then the arithmetic beneath  *)
(* it: uint128.go is exact for limbs of any width, and the difficulty      *)
(* answers the solve times in the right direction for any window, target   *)
(* and minimum.                                                            *)
(***************************************************************************)
EXTENDS Stratum, NatLemmas, TLAPS

-----------------------------------------------------------------------------
(* The inductive invariant                                                 *)

\* The difficulty that StoreJob recovers from the target of a job.
SlaveMin(d) == TargetToDiff64(GetTarget(From64(d))).lo

PosLimb == Limb \ {0}
TemplateType(rcpts) == [height: Nat, rcpt: rcpts, extra: Nat, merged: Nat, min: PosLimb, touched: Nat]
BlobType == [height: Nat, rcpt: Finders \cup {None}, extra: Nat, merged: Nat]
EntryType == [t: Nat, blob: BlobType, min: PosLimb]
ShareType == [t: Nat, min: PosLimb, blob: BlobType, torn: BOOLEAN, pow: Number,
              offered: Limb, success: BOOLEAN]
JobType == [at: {"lock", "db", "template", "send", "done"}, force: BOOLEAN, tpl: Nat,
            to: [Conns -> {"-", "go", "set"}]]

\* A finder holds a solution; it holds one that was offered to the slave chain.
Tried == {"work", "await", "found", "refused", "add", "commit"}
Solving == {"merge"} \cup Tried
LoggedIn == {"recipient", "serve"} \cup Solving

ConnType(ats, entries) == [at: ats, addr: BOOLEAN, bl: Nat, jobs: Seq(entries),
                           out: SUBSET Nat, had: SUBSET Nat, told: Nat, share: ShareType \cup {None}]

MergeType == [at: {"off", "start", "wait", "got", "notify", "remove"}, listed: BOOLEAN,
              merged: Nat, diff: Limb, got: Nat]

\* The content of a channel of capacity one.
AtMostOne(S) == {q \in Seq(S) : Len(q) <= 1}

ClientType == [open: BOOLEAN, reading: BOOLEAN, up: BOOLEAN, chan: AtMostOne(Nat \ {0}),
               resp: AtMostOne(Nat), scan: AtMostOne(Nat), sock: Seq(Nat), req: Seq(Finders)]

\* The slave chain: a difficulty comes with a job, and job numbers are not 0.
MergeOK ==
  /\ merge \in MergeType
  /\ merge.at = "got" => merge.got # 0
  /\ merge.diff # 0 => merge.merged # 0
  /\ sjob \in Nat \ {0}

ClientOK == cl \in ClientType

\* A template asks for the difficulty of the node, unless it contains a job of
\* the slave chain.
MinOf(b) == b.min = node.diff \/ b.merged # 0

HeapOK ==
  /\ heap \in Seq(TemplateType(Conns \cup {None}))
  /\ last \in 0 .. Len(heap)
  /\ \A t \in DOMAIN heap : /\ heap[t].height \in 1 .. top + 1
                            /\ heap[t].touched > 0 => heap[t].rcpt \in Conns
                            /\ MinOf(heap[t])

\* Connection c wrote to template t, and is paid by it unless others did too.
Given(c, t) ==
  /\ t \in DOMAIN heap /\ heap[t].touched >= 1
  /\ heap[t].touched = 1 => heap[t].rcpt = c

JobOK ==
  /\ job \in Seq(JobType)
  /\ \A j \in DOMAIN job :
       /\ job[j].tpl \in 0 .. Len(heap)
       /\ job[j].at = "send" => job[j].tpl # 0
       /\ job[j].at # "done" => \A c \in Conns : job[j].to[c] = "-"
       /\ \A c \in Conns : /\ job[j].to[c] # "-" => job[j].tpl # 0
                           /\ job[j].to[c] = "set" => Given(c, job[j].tpl)

\* A job of the history has the content of the block nobody else wrote to.
Entry(c, e) == /\ Given(c, e.t)
               /\ heap[e.t].touched = 1 => e.blob = Content(heap[e.t])

\* A solution counts for the block nobody else wrote to.
Solution(c, s) ==
  /\ s \in ShareType
  /\ Given(c, s.t)
  /\ s.blob.height <= node.maxTop
  /\ s.blob.merged = heap[s.t].merged
  /\ s.blob.rcpt \in Conns
  /\ heap[s.t].touched = 1 => /\ s.blob.rcpt = c
                              /\ MeetsTarget(s.pow, GetTarget(From64(s.min)))

\* A slave chain of no higher difficulty than the miner's takes it.
Offered(s) == s.offered # 0 /\ s.offered <= s.min /\ heap[s.t].touched = 1 => s.success

\* Neither the slave chain nor the main chain takes the solution.
Refused(s) == ~s.success /\ ~ValidPowHash(s.pow, From64(node.diff))

MinerType == ConnType({"off", "login", "address", "gone"} \cup LoggedIn, EntryType)
SoloType == ConnType({"off", "idle", "mine"} \cup Solving, TemplateType({Solo}))

\* The handler of connection c, in the state r.
MinerHolds(c, r) ==
  /\ r \in MinerType
  /\ Len(r.jobs) <= STRATUM_JOBS_HISTORY
  /\ \A i \in DOMAIN r.jobs : Entry(c, r.jobs[i])
  /\ r.at \in LoggedIn \cup {"address"} => r.addr
  /\ r.at = "recipient" => Given(c, r.bl) /\ last # 0
  /\ r.at \in Solving => Solution(c, r.share)
  /\ r.at \in Tried => Offered(r.share)
  /\ r.at = "refused" => Refused(r.share)

\* The integrated miner, in the state r.
SoloHolds(r) ==
  /\ r \in SoloType
  /\ r.at = "mine" => Len(r.jobs) = 1 /\ r.jobs[1].height <= top + 1
  /\ r.at \in Solving =>
       r.share \in ShareType /\ r.share.blob.rcpt = Solo /\ r.share.blob.height <= node.maxTop

ConnOK ==
  /\ DOMAIN conn = Finders
  /\ \A c \in Conns : MinerHolds(c, conn[c])
  /\ SoloHolds(conn[Solo])

\* Who holds the database's write transaction.
LockOK ==
  /\ db \in {None, Peer} \cup Finders \cup DOMAIN job
  /\ \A f \in Finders : conn[f].at = "commit" <=> db = f
  /\ \A j \in DOMAIN job : job[j].at = "template" <=> db = j
  /\ db = Peer => top < node.maxTop

ChainOK ==
  /\ node \in Nodes /\ top \in 0 .. node.maxTop
  /\ updated \in BOOLEAN
  /\ \A f \in Finders : conn[f].at = "commit" => ~conn[f].share.torn
  /\ AcceptedPays

\* A goroutine of SendJob has template n in hand for connection c.
Pending(c, n) == \E j \in DOMAIN job : job[j].tpl = n /\ job[j].to[c] # "-"

\* Template n was sent to the miner whose handler is in the state r, or its
\* message is made, or the response to the login will be.
Reached(r, n) == n \in r.had \/ n \in r.out \/ (r.at = "recipient" /\ r.bl = n)

\* A miner that logged in has LastBlock, or it is on its way.
Told(c) == conn[c].at \in LoggedIn => Reached(conn[c], last) \/ Pending(c, last)

AllTold == \A c \in Conns : Told(c)

\* The transaction that is open adds a block to the main chain.
Raising ==
  \/ db = Peer
  \/ \E f \in Finders : db = f /\ conn[f].share.blob.height = top + 1

\* NewStratumJob was started before the block that makes the top old commits.
Woken ==
  conn[Solo].at = "mine" /\ ~conn[Solo].addr /\ (Raising \/ conn[Solo].jobs[1].height <= top)
    => updated \/ \E j \in DOMAIN job : job[j].at = "lock"

Inv == MergeOK /\ ClientOK /\ HeapOK /\ JobOK /\ ConnOK /\ LockOK /\ ChainOK /\ AllTold /\ Woken

-----------------------------------------------------------------------------
(* Powers of two                                                           *)

Pow(n) == 2^n

\* The powers up to the width of a limb.
LEMMA PowStep ==
  /\ Pow(0) = 1 /\ Pow(1) = 2 /\ Base = Pow(W) /\ W \in Nat \ {0}
  /\ \A n \in 0 .. W - 1 : Pow(n + 1) = 2 * Pow(n)
<1>1. Pow(0) = 1 /\ W \in Nat \ {0} /\ \A n \in 0 .. W - 1 : Pow(n + 1) = 2 * Pow(n)
  BY WAssumption DEF Pow
<1>2. 0 \in 0 .. W - 1 /\ 0 + 1 = 1
  BY <1>1
<1>3. Pow(0 + 1) = 2 * Pow(0)
  BY <1>1, <1>2
<1>4. Pow(1) = 2
  BY <1>1, <1>2, <1>3
<1> QED BY <1>1, <1>4 DEF Base, Pow

\* They are positive numbers.
LEMMA PowType == \A n \in 0 .. W : Pow(n) \in Nat \ {0}
<1> DEFINE S == {n \in Nat : n <= W => Pow(n) \in Nat \ {0}}
<1>1. 0 \in S
  BY PowStep
<1>2. ASSUME NEW n \in Nat, n \in S PROVE n + 1 \in S
  <2>1. CASE n + 1 <= W
    <3>1. n \in 0 .. W - 1 /\ Pow(n) \in Nat \ {0}
      BY <1>2, <2>1, PowStep
    <3>2. Pow(n + 1) = 2 * Pow(n)
      BY <3>1, PowStep
    <3>3. Pow(n + 1) \in Nat \ {0}
      BY <3>1, <3>2
    <3> QED BY <3>3
  <2>2. CASE ~(n + 1 <= W)
    BY <2>2
  <2> QED BY <2>1, <2>2
<1>3. Nat \subseteq S
  <2> HIDE DEF S
  <2> QED BY <1>1, <1>2, NatSetInduction
<1> QED BY <1>3, PowStep

\* A limb is shifted out by W bits in two parts.
LEMMA PowSplit == \A n \in 0 .. W : Pow(W - n) * Pow(n) = Base
<1> DEFINE S == {n \in Nat : n <= W => Pow(W - n) * Pow(n) = Base}
<1>1. 0 \in S
  <2>1. W - 0 = W /\ Base \in Nat /\ W \in Nat
    BY PowStep, PowType
  <2>2. Pow(W - 0) * Pow(0) = Base * 1
    BY <2>1, PowStep
  <2> QED BY <2>1, <2>2
<1>2. ASSUME NEW n \in Nat, n \in S PROVE n + 1 \in S
  <2>1. CASE n + 1 <= W
    <3>1. PICK m : m = W - (n + 1)
      OBVIOUS
    <3>2. /\ W \in Nat /\ m \in 0 .. W - 1 /\ n \in 0 .. W - 1 /\ m + 1 = W - n /\ n <= W
          /\ m \in 0 .. W /\ n \in 0 .. W
      BY <2>1, <3>1, PowStep
    <3>3. Pow(m + 1) = 2 * Pow(m) /\ Pow(n + 1) = 2 * Pow(n) /\ Pow(m) \in Nat /\ Pow(n) \in Nat
      BY <3>2, PowStep, PowType
    <3>4. Pow(m + 1) * Pow(n) = Base
      BY <1>2, <3>2
    <3>5. PICK x \in Nat, y \in Nat : x = Pow(m) /\ y = Pow(n)
      BY <3>3
    <3>6. x * (2 * y) = (2 * x) * y
      OBVIOUS
    <3>7. Pow(m) * Pow(n + 1) = Base
      BY <3>3, <3>4, <3>5, <3>6
    <3> QED BY <3>1, <3>7
  <2>2. CASE ~(n + 1 <= W)
    BY <2>2
  <2> QED BY <2>1, <2>2
<1>3. Nat \subseteq S
  <2> HIDE DEF S
  <2> QED BY <1>1, <1>2, NatSetInduction
<1> QED BY <1>3, PowStep

\* A limb has at least two values.
LEMMA BaseFacts == Base \in Nat /\ Base > 1 /\ Base \in Nat \ {0}
<1>1. W - 1 \in 0 .. W - 1 /\ W - 1 \in 0 .. W /\ (W - 1) + 1 = W
  BY PowStep
<1>2. PICK x \in Nat \ {0} : x = Pow(W - 1)
  BY <1>1, PowType
<1>3. Base = 2 * x
  BY <1>1, <1>2, PowStep
<1> QED BY <1>2, <1>3

-----------------------------------------------------------------------------
(* Targets and difficulties                                                *)

\* The limbs of a number, whatever their width.
LEMMA BaseType == Base \in Nat /\ Base > 1 /\ Largest \in Number
BY BaseFacts DEF Largest, Number, Limb

\* A quotient is at most the dividend, and not zero when the divisor is no
\* larger.
LEMMA Quotient ==
  ASSUME NEW a \in Nat, NEW b \in Nat \ {0}
  PROVE  a \div b \in Nat /\ a \div b <= a /\ (b <= a => a \div b >= 1)
OBVIOUS

\* The difficulty that TargetToDiff64 recovers is one of 64 bits, and not 0.
LEMMA SlaveMinType ==
  ASSUME NEW d \in PosLimb
  PROVE  SlaveMin(d) \in PosLimb
<1> DEFINE t == (Base - 1) \div d
<1>1. Base - 1 \in Nat /\ d \in Nat \ {0} /\ d <= Base - 1
  BY BaseType DEF Limb, PosLimb
<1>2. t \in Nat /\ t <= Base - 1 /\ t >= 1
  BY <1>1, Quotient
<1>3. GetTarget(From64(d)) = t
  BY DEF GetTarget, From64
<1> HIDE DEF t
<1>4. TargetToDiff64(t) = From64(Quo(0, Base - 1, t))
  BY <1>2 DEF TargetToDiff64, Div64
<1>5. Quo(0, Base - 1, t) = (Base - 1) \div t
  BY <1>1, BaseType DEF Quo
<1>6. (Base - 1) \div t \in Nat /\ (Base - 1) \div t <= Base - 1 /\ (Base - 1) \div t >= 1
  BY <1>1, <1>2, Quotient
<1>7. SlaveMin(d) = (Base - 1) \div t
  BY <1>3, <1>4, <1>5 DEF SlaveMin, From64
<1> QED BY <1>6, <1>7, BaseType DEF PosLimb, Limb

\* The rounding of the target never costs a share: a hash below the target of
\* a difficulty, which GetTarget computes from the high limb alone, solves a
\* block of this difficulty, which ValidPowHash computes from both.
LEMMA TargetSolves ==
  ASSUME NEW hash \in Number, NEW n \in PosLimb, MeetsTarget(hash, GetTarget(From64(n)))
  PROVE  ValidPowHash(hash, From64(n))
<1>1. hash.hi \in Nat /\ n \in Nat \ {0} /\ n <= Base - 1 /\ ~(Base - 1 < n) /\ Base - 1 \in Nat
  BY BaseType DEF Number, Limb, PosLimb
<1>2. hash.hi < (Base - 1) \div n
  BY DEF MeetsTarget, GetTarget, From64
<1>3. Div(Largest, From64(n)) = Div64(Largest, n)
  BY DEF Div, QuoRem, From64
<1>4. Div64(Largest, n).hi = (Base - 1) \div n
  BY <1>1 DEF Div64, Largest
<1>5. (Base - 1) \div n \in Nat
  BY <1>1, Quotient
<1> DEFINE d == Div64(Largest, n)
<1>6. hash.hi < d.hi /\ hash # d
  BY <1>1, <1>2, <1>4, <1>5
<1> HIDE DEF d
<1>7. Cmp(hash, d) = -1
  BY <1>6 DEF Cmp
<1> QED BY <1>3, <1>7 DEF ValidPowHash, d

\* A quotient grows when the divisor shrinks.
LEMMA QuotientDivisor ==
  ASSUME NEW a \in Nat, NEW m \in Nat \ {0}, NEW n \in Nat \ {0}, n <= m
  PROVE  a \div m <= a \div n
<1>1. PICK q \in Nat, p \in Nat : q = a \div m /\ p = a \div n
  BY Quotient
<1>2. a < n * (p + 1) /\ m * q <= a
  BY <1>1
<1>3. n * q <= m * q
  OBVIOUS
<1>4. n * q < n * (p + 1)
  BY <1>2, <1>3
<1>5. CASE q >= p + 1
  <2>1. n * q >= n * (p + 1)
    BY <1>5
  <2> QED BY <1>4, <2>1
<1> QED BY <1>1, <1>5

\* A hash below the target of a difficulty solves a block of any lower one.
LEMMA LowerSolves ==
  ASSUME NEW hash \in Number, NEW m \in PosLimb, NEW n \in PosLimb, n <= m,
         MeetsTarget(hash, GetTarget(From64(m)))
  PROVE  ValidPowHash(hash, From64(n))
<1>1. /\ Base - 1 \in Nat /\ m \in Nat \ {0} /\ n \in Nat \ {0} /\ hash.hi \in Nat
  BY BaseType DEF PosLimb, Limb, Number
<1>2. hash.hi < (Base - 1) \div m
  BY DEF MeetsTarget, GetTarget, From64
<1>3. /\ (Base - 1) \div m <= (Base - 1) \div n
      /\ (Base - 1) \div m \in Nat /\ (Base - 1) \div n \in Nat
  BY <1>1, Quotient, QuotientDivisor
<1>4. hash.hi < (Base - 1) \div n
  BY <1>1, <1>2, <1>3
<1>5. MeetsTarget(hash, GetTarget(From64(n)))
  BY <1>4 DEF MeetsTarget, GetTarget, From64
<1> QED BY <1>5, TargetSolves

-----------------------------------------------------------------------------
(* The templates only grow                                                 *)

TemplateTypes == TemplateType(Conns \cup {None})

\* What a step may do to the templates: add one, or write recipient and extra
\* nonce, which counts as a touch.
Grows ==
  /\ Len(heap) <= Len(heap')
  /\ \A t \in DOMAIN heap :
       /\ heap'[t].height = heap[t].height /\ heap'[t].merged = heap[t].merged
       /\ heap'[t].min = heap[t].min /\ heap'[t].touched >= heap[t].touched
       /\ heap'[t].touched = heap[t].touched => heap'[t] = heap[t]

\* What HeapOK says of one template.
LEMMA HeapTypes ==
  ASSUME HeapOK
  PROVE  /\ Len(heap) \in Nat /\ DOMAIN heap = 1 .. Len(heap)
         /\ \A t \in DOMAIN heap : heap[t] \in TemplateTypes /\ heap[t].touched \in Nat
<1>1. heap \in Seq(TemplateTypes)
  BY DEF HeapOK, TemplateTypes
<1>2. Len(heap) \in Nat /\ DOMAIN heap = 1 .. Len(heap) /\ \A t \in DOMAIN heap : heap[t] \in TemplateTypes
  BY <1>1
<1>3. \A b \in TemplateTypes : b.touched \in Nat
  BY DEF TemplateTypes, TemplateType
<1> QED BY <1>2, <1>3

\* A step that leaves the templates alone.
LEMMA HeapSame ==
  ASSUME HeapOK, UNCHANGED <<heap, node>>, last' \in 0 .. Len(heap), top \in Nat, top' \in Nat, top' >= top
  PROVE  HeapOK' /\ Grows
<1>1. Grows
  BY HeapTypes DEF Grows
<1>2. heap' \in Seq(TemplateTypes) /\ last' \in 0 .. Len(heap')
  BY DEF HeapOK, TemplateTypes
<1>3. ASSUME NEW t \in DOMAIN heap'
      PROVE  /\ heap'[t].height \in 1 .. top' + 1
             /\ heap'[t].touched > 0 => heap'[t].rcpt \in Conns
             /\ MinOf(heap[t])'
  <2>1. heap[t].height \in 1 .. top + 1
    BY <1>3 DEF HeapOK
  <2>2. heap[t].height \in 1 .. top' + 1
    BY <2>1
  <2> QED BY <1>3, <2>2 DEF HeapOK, MinOf
<1> QED BY <1>1, <1>2, <1>3 DEF HeapOK, TemplateTypes

\* A connection writes itself into template k.
LEMMA HeapWrite ==
  ASSUME HeapOK, UNCHANGED <<node, top, last>>, NEW k \in DOMAIN heap, NEW c \in Conns,
         NEW b \in TemplateTypes, b.rcpt = c, b.touched = heap[k].touched + 1,
         b.height = heap[k].height, b.merged = heap[k].merged, b.min = heap[k].min,
         heap' = [heap EXCEPT ![k] = b]
  PROVE  HeapOK' /\ Grows /\ Given(c, k)'
<1>1. Len(heap) \in Nat /\ DOMAIN heap = 1 .. Len(heap) /\ heap \in [1 .. Len(heap) -> TemplateTypes]
  BY HeapTypes DEF HeapOK, TemplateTypes
<1>2. b \in TemplateTypes /\ b.rcpt = c /\ b.touched = heap[k].touched + 1 /\ b.height = heap[k].height
      /\ b.merged = heap[k].merged /\ b.min = heap[k].min /\ heap[k].touched \in Nat
  BY HeapTypes
<1>4. heap' \in [1 .. Len(heap) -> TemplateTypes]
  BY <1>1, <1>2
<1>5. heap' \in Seq(TemplateTypes) /\ Len(heap') = Len(heap) /\ DOMAIN heap' = DOMAIN heap
  BY <1>1, <1>4
<1>6. \A t \in DOMAIN heap : heap'[t] = IF t = k THEN b ELSE heap[t]
  BY <1>1
<1>7. Grows
  <2>1. \A t \in DOMAIN heap : heap[t].touched \in Nat
    BY HeapTypes
  <2>2. ASSUME NEW t \in DOMAIN heap
        PROVE  /\ heap'[t].height = heap[t].height /\ heap'[t].merged = heap[t].merged
               /\ heap'[t].min = heap[t].min /\ heap'[t].touched >= heap[t].touched
               /\ heap'[t].touched = heap[t].touched => heap'[t] = heap[t]
    <3>1. CASE t = k
      <4>1. heap'[t] = b /\ heap[t] = heap[k]
        BY <1>6, <3>1
      <4>2. heap'[t].touched = heap[t].touched + 1 /\ heap[t].touched \in Nat
        BY <1>2, <4>1
      <4> QED BY <1>2, <4>1, <4>2
    <3>2. CASE t # k
      BY <1>6, <2>1, <2>2, <3>2
    <3> QED BY <3>1, <3>2
  <2> QED BY <1>1, <1>5, <2>2 DEF Grows
<1>8. Given(c, k)'
  <2>1. heap'[k] = b /\ k \in DOMAIN heap'
    BY <1>5, <1>6
  <2>2. b.touched >= 1 /\ b.rcpt = c
    BY <1>2
  <2> QED BY <2>1, <2>2 DEF Given
<1>9. ASSUME NEW t \in DOMAIN heap
      PROVE  /\ heap'[t].height \in 1 .. top' + 1
             /\ heap'[t].touched > 0 => heap'[t].rcpt \in Conns
             /\ MinOf(heap[t])'
  BY <1>2, <1>6, <1>9 DEF HeapOK, MinOf
<1> QED BY <1>5, <1>7, <1>8, <1>9 DEF HeapOK, TemplateTypes

\* GetBlockTemplate makes a template for the next height.
LEMMA TemplateMade ==
  ASSUME Inv, NEW rcpt
  PROVE  /\ Template(rcpt) \in TemplateType({rcpt}) /\ Template(rcpt).height = top + 1
         /\ Template(rcpt).touched = 0 /\ MinOf(Template(rcpt))
<1>1. top \in Nat /\ node.diff \in PosLimb
  BY StratumAssumption DEF Inv, ChainOK, NodeType, PosLimb
<1>2. merge.merged \in Nat /\ merge.diff \in PosLimb \cup {0} /\ (merge.diff # 0 => merge.merged # 0)
  BY DEF Inv, MergeOK, MergeType, PosLimb
<1> QED BY <1>1, <1>2 DEF Template, TemplateType, MinOf

\* A new template.
LEMMA HeapAppend ==
  ASSUME Inv, UNCHANGED <<node, top, last>>, heap' = Append(heap, Template(None))
  PROVE  HeapOK' /\ Grows /\ Len(heap') = Len(heap) + 1
<1> DEFINE b == Template(None)
           n == Len(heap)
<1>1. n \in Nat /\ DOMAIN heap = 1 .. n /\ heap \in Seq(TemplateTypes)
  BY HeapTypes DEF Inv, HeapOK, TemplateTypes
<1>2. b \in TemplateTypes /\ b.height = top + 1 /\ b.touched = 0 /\ MinOf(b)
  BY TemplateMade DEF TemplateTypes, TemplateType
<1>3. top \in Nat
  BY StratumAssumption DEF Inv, ChainOK, NodeType
<1> HIDE DEF b
<1>4. heap' = Append(heap, b)
  BY DEF b
<1>5. /\ heap' \in Seq(TemplateTypes) /\ Len(heap') = n + 1 /\ DOMAIN heap' = 1 .. n + 1
      /\ heap'[n + 1] = b /\ \A t \in 1 .. n : heap'[t] = heap[t]
  BY <1>1, <1>2, <1>4
<1>6. Grows
  BY <1>1, <1>5, HeapTypes DEF Grows, Inv
<1>7. last' \in 0 .. Len(heap')
  BY <1>1, <1>5 DEF Inv, HeapOK
<1>8. ASSUME NEW t \in 1 .. n + 1
      PROVE  /\ heap'[t].height \in 1 .. top' + 1
             /\ heap'[t].touched > 0 => heap'[t].rcpt \in Conns
             /\ MinOf(heap[t])'
  <2>1. CASE t = n + 1
    BY <1>2, <1>3, <1>5, <2>1 DEF MinOf
  <2>2. CASE t \in 1 .. n
    BY <1>1, <1>5, <2>2 DEF MinOf, Inv, HeapOK
  <2> QED BY <1>1, <2>1, <2>2
<1> QED BY <1>5, <1>6, <1>7, <1>8 DEF HeapOK, TemplateTypes

\* No step but three changes a template, and LastBlock is never taken back.
LEMMA HeapStep ==
  ASSUME Inv, Next
  PROVE  /\ HeapOK' /\ Grows /\ node' = node
         /\ top \in Nat /\ top' \in Nat /\ top' >= top /\ (last # 0 => last' # 0)
<1> DEFINE Goal == /\ HeapOK' /\ Grows /\ node' = node
                   /\ top \in Nat /\ top' \in Nat /\ top' >= top /\ (last # 0 => last' # 0)
<1> USE DEF chainVars, mergeVars, jobVars
<1>0. top \in Nat /\ HeapOK /\ last \in 0 .. Len(heap)
  BY StratumAssumption DEF Inv, ChainOK, NodeType, HeapOK
<1>a. ASSUME UNCHANGED <<heap, node, last, top>> PROVE Goal
  BY <1>0, <1>a, HeapSame
<1>1. ASSUME NEW j \in DOMAIN job, JobStep(j) PROVE Goal
  <2>1. CASE JobTemplate(j)
    BY <1>0, <2>1, HeapAppend DEF JobTemplate
  <2>2. CASE SendJob(j)
    <3>1. last' \in 0 .. Len(heap) /\ last' # 0
      BY <2>2 DEF SendJob, Inv, JobOK
    <3>2. UNCHANGED <<heap, node>> /\ top' = top
      BY <2>2 DEF SendJob
    <3>3. top' \in Nat /\ top' >= top
      BY <1>0, <3>2
    <3> QED BY <1>0, <3>1, <3>2, <3>3, HeapSame
  <2>3. ASSUME NEW c \in Conns, GiveWrite(j, c) PROVE Goal
    <3>1. CASE conn[c].addr
      <4> DEFINE k == job[j].tpl
      <4>0. PICK b : b = [heap[k] EXCEPT !.rcpt = c, !.extra = heap[k].extra + 1,
                                         !.touched = heap[k].touched + 1]
        OBVIOUS
      <4>1. k \in DOMAIN heap
        BY <1>0, <2>3, HeapTypes DEF GiveWrite, Inv, JobOK
      <4>2. heap' = [heap EXCEPT ![k] = b] /\ UNCHANGED <<node, top, last>>
        BY <2>3, <3>1, <4>0, <4>1 DEF GiveWrite
      <4>3. heap[k] \in [height: Nat, rcpt: Conns \cup {None}, extra: Nat, merged: Nat, min: PosLimb,
                         touched: Nat]
        BY <1>0, <4>1, HeapTypes DEF TemplateTypes, TemplateType
      <4> HIDE DEF k
      <4>4. b = [height |-> heap[k].height, rcpt |-> c, extra |-> heap[k].extra + 1,
                 merged |-> heap[k].merged, min |-> heap[k].min, touched |-> heap[k].touched + 1]
        BY <4>0, <4>3
      <4>5. /\ b \in TemplateTypes /\ b.rcpt = c /\ b.touched = heap[k].touched + 1
            /\ b.height = heap[k].height /\ b.merged = heap[k].merged /\ b.min = heap[k].min
        BY <4>3, <4>4 DEF TemplateTypes, TemplateType
      <4>6. HeapOK' /\ Grows
        BY <1>0, <4>1, <4>2, <4>5, HeapWrite
      <4> QED BY <1>0, <4>2, <4>6
    <3>2. CASE ~conn[c].addr
      BY <1>a, <2>3, <3>2 DEF GiveWrite
    <3> QED BY <3>1, <3>2
  <2>4. CASE JobLock(j) \/ JobUpdate(j) \/ \E c \in Conns : GiveBlob(j, c)
    BY <1>a, <2>4 DEF JobLock, JobUpdate, GiveBlob
  <2> QED BY <1>1, <2>1, <2>2, <2>3, <2>4 DEF JobStep
<1>2. ASSUME NEW c \in Conns, LoginRecipient(c) PROVE Goal
  <2>0. PICK b : b = [heap[last] EXCEPT !.rcpt = c, !.touched = heap[last].touched + 1]
    OBVIOUS
  <2>1. last \in DOMAIN heap
    BY <1>0, <1>2, HeapTypes DEF LoginRecipient
  <2>2. heap' = [heap EXCEPT ![last] = b] /\ UNCHANGED <<node, top, last>>
    BY <1>2, <2>0, <2>1 DEF LoginRecipient
  <2>3. heap[last] \in [height: Nat, rcpt: Conns \cup {None}, extra: Nat, merged: Nat, min: PosLimb,
                        touched: Nat]
    BY <1>0, <2>1, HeapTypes DEF TemplateTypes, TemplateType
  <2>4. b = [height |-> heap[last].height, rcpt |-> c, extra |-> heap[last].extra,
             merged |-> heap[last].merged, min |-> heap[last].min, touched |-> heap[last].touched + 1]
    BY <2>0, <2>3
  <2>5. /\ b \in TemplateTypes /\ b.rcpt = c /\ b.touched = heap[last].touched + 1
        /\ b.height = heap[last].height /\ b.merged = heap[last].merged /\ b.min = heap[last].min
    BY <2>3, <2>4 DEF TemplateTypes, TemplateType
  <2>6. HeapOK' /\ Grows
    BY <1>0, <2>1, <2>2, <2>5, HeapWrite
  <2> QED BY <1>0, <2>2, <2>6
<1>3. CASE \E c \in Conns : Connect(c) \/ LoginAddress(c) \/ Kick(c) \/ LoginRespond(c) \/ Submit(c)
                            \/ WriteJob(c)
  BY <1>a, <1>3 DEF Connect, LoginAddress, Kick, LoginRespond, Submit, WriteJob
<1>4. CASE StartMining \/ MineTemplate \/ Restart \/ Solve
  BY <1>a, <1>4 DEF StartMining, MineTemplate, Restart, Solve
<1>5. ASSUME NEW f \in Finders, FinderStep(f) PROVE Goal
  <2>1. CASE Commit(f)
    BY <1>0, <2>1, HeapSame DEF Commit
  <2>2. CASE MergeCheck(f) \/ SendWork(f) \/ Await(f) \/ Found(f) \/ Refuse(f) \/ AddFound(f)
    BY <1>a, <2>2 DEF MergeCheck, SendWork, Await, Found, Refuse, AddFound
  <2> QED BY <1>5, <2>1, <2>2 DEF FinderStep
<1>6. CASE PeerBlock \/ PeerCommit
  BY <1>0, <1>6, HeapSame DEF PeerBlock, PeerCommit
<1>7. CASE MergeStep \/ BadJob \/ ScanRead \/ ScanPut \/ ScanEnds \/ SlaveJob \/ SlaveAnswers
  BY <1>a, <1>7 DEF MergeStep, AddStratum, Start, ReceiveJob, StoreJob, NotifyMiners, ChannelClosed, Remove,
     BadJob, ScanRead, ScanPut, ScanEnds, SlaveJob, SlaveAnswers
<1> QED BY <1>1, <1>2, <1>3, <1>4, <1>5, <1>6, <1>7 DEF Next

\* What was given, handed out or found for a template stays so when others
\* write to it, because their writes count.
LEMMA Kept ==
  ASSUME HeapOK, HeapOK', Grows, node' = node, NEW c, NEW t, Given(c, t)
  PROVE  /\ Given(c, t)'
         /\ heap'[t].touched = 1 => heap[t].touched = 1 /\ heap'[t] = heap[t]
         /\ heap'[t].merged = heap[t].merged /\ heap'[t].min = heap[t].min
<1>1. t \in DOMAIN heap /\ heap[t].touched \in Nat /\ heap[t].touched >= 1
  BY HeapTypes DEF Given
<1>2. t \in DOMAIN heap'
  BY <1>1, HeapTypes DEF Grows, HeapOK
<1>3. heap'[t].touched \in Nat
  <2>1. /\ heap' \in Seq(TemplateTypes)
    BY DEF HeapOK, TemplateTypes
  <2>2. heap'[t] \in TemplateTypes
    BY <1>2, <2>1
  <2> QED BY <2>2 DEF TemplateTypes, TemplateType
<1>4. /\ heap'[t].merged = heap[t].merged /\ heap'[t].min = heap[t].min
      /\ heap'[t].touched >= heap[t].touched
      /\ heap'[t].touched = heap[t].touched => heap'[t] = heap[t]
  BY <1>1 DEF Grows
<1> QED BY <1>1, <1>2, <1>3, <1>4 DEF Given

\* A job of the history stays one while the templates grow.
LEMMA EntryKept ==
  ASSUME HeapOK, HeapOK', Grows, node' = node, NEW c, NEW e, Entry(c, e)
  PROVE  Entry(c, e)'
<1>1. Given(c, e.t)
  BY DEF Entry
<1>2. /\ Given(c, e.t)'
      /\ heap'[e.t].touched = 1 => heap[e.t].touched = 1 /\ heap'[e.t] = heap[e.t]
  BY <1>1, Kept
<1> QED BY <1>2 DEF Entry, Content

\* So does a solution, and what was found out about it.
LEMMA SolutionKept ==
  ASSUME HeapOK, HeapOK', Grows, node' = node, NEW c, NEW s, Solution(c, s)
  PROVE  Solution(c, s)' /\ (Offered(s) => Offered(s)') /\ (Refused(s) => Refused(s)')
<1>1. Given(c, s.t)
  BY DEF Solution
<1>2. /\ Given(c, s.t)'
      /\ heap'[s.t].touched = 1 => heap[s.t].touched = 1
      /\ heap'[s.t].merged = heap[s.t].merged
  BY <1>1, Kept
<1> QED BY <1>2 DEF Solution, Offered, Refused

-----------------------------------------------------------------------------
(* The slave chain's client                                                *)

\* An empty channel, and one with a message in it.
LEMMA EmptyChannel == \A S : <<>> \in Seq(S) /\ <<>> \in AtMostOne(S)
BY DEF AtMostOne

\* A message fits into an empty channel.
LEMMA OneMessage ==
  ASSUME NEW S, NEW m \in S
  PROVE  <<m>> \in AtMostOne(S)
BY DEF AtMostOne

\* A message taken out of a channel is one of those that may be in it.
LEMMA FullChannel ==
  ASSUME NEW S, NEW q \in AtMostOne(S), q # <<>>
  PROVE  /\ q \in Seq(S) /\ Len(q) = 1 /\ q[1] \in S /\ Head(q) \in S
         /\ \A e \in S : q[1] # e => q \in AtMostOne(S \ {e})
<1>1. q \in Seq(S) /\ Len(q) <= 1
  BY DEF AtMostOne
<1>2. PICK n \in Nat : Len(q) = n
  BY <1>1
<1>3. q \in [1 .. n -> S]
  BY <1>1, <1>2
<1>4. n # 0
  BY <1>1, <1>2
<1>5. n = 1
  BY <1>1, <1>2, <1>4
<1>6. q[1] \in S /\ Head(q) = q[1]
  BY <1>1, <1>3, <1>5
<1>7. ASSUME NEW e \in S, q[1] # e PROVE q \in AtMostOne(S \ {e})
  <2>1. q \in [1 .. n -> S \ {e}]
    BY <1>3, <1>5, <1>7
  <2>2. q \in Seq(S \ {e})
    BY <1>2, <2>1
  <2> QED BY <1>1, <2>2 DEF AtMostOne
<1> QED BY <1>1, <1>2, <1>5, <1>6, <1>7

\* The client and the job of the slave chain stay well formed: a difficulty is
\* never stored without the job it belongs to.
LEMMA MergeTypes ==
  ASSUME Inv, Next
  PROVE  MergeOK' /\ ClientOK'
<1> USE DEF chainVars, mergeVars, jobVars
<1>0. MergeOK /\ ClientOK /\ 0 \in Limb
  BY BaseType DEF Inv, Limb
<1>1. ASSUME NEW j \in DOMAIN job, JobStep(j) PROVE UNCHANGED mergeVars
  BY <1>1 DEF JobStep, JobLock, JobUpdate, JobTemplate, SendJob, GiveWrite, GiveBlob
<1>2. ASSUME NEW c \in Conns,
             \/ Connect(c) \/ LoginAddress(c) \/ Kick(c) \/ LoginRecipient(c) \/ LoginRespond(c)
             \/ Submit(c) \/ WriteJob(c)
      PROVE  UNCHANGED mergeVars
  BY <1>2 DEF Connect, LoginAddress, Kick, LoginRecipient, LoginRespond, Submit, WriteJob
<1>3. CASE StartMining \/ MineTemplate \/ Restart \/ Solve \/ PeerBlock \/ PeerCommit
  BY <1>0, <1>3 DEF StartMining, MineTemplate, Restart, Solve, PeerBlock, PeerCommit, MergeOK, ClientOK
<1>4. ASSUME NEW f \in Finders, FinderStep(f) PROVE MergeOK' /\ ClientOK'
  <2>1. CASE SendWork(f)
    <3>1. CASE cl.up
      <4>1. PICK q : q = Append(cl.req, f)
        OBVIOUS
      <4>2. q \in Seq(Finders)
        BY <1>0, <4>1 DEF ClientOK, ClientType
      <4>3. cl' = [cl EXCEPT !.req = q] /\ UNCHANGED <<merge, sjob>>
        BY <2>1, <3>1, <4>1 DEF SendWork
      <4> QED BY <1>0, <4>2, <4>3 DEF MergeOK, ClientOK, ClientType
    <3>2. CASE ~cl.up
      BY <1>0, <2>1, <3>2 DEF SendWork, MergeOK, ClientOK
    <3> QED BY <3>1, <3>2
  <2>2. CASE Await(f)
    <3>1. UNCHANGED <<merge, sjob>> /\ (cl' = [cl EXCEPT !.resp = <<>>] \/ cl' = cl)
      BY <2>2 DEF Await
    <3>2. ClientOK'
      BY <1>0, <3>1, EmptyChannel DEF ClientOK, ClientType
    <3> QED BY <1>0, <3>1, <3>2 DEF MergeOK
  <2>3. CASE MergeCheck(f) \/ Found(f) \/ Refuse(f) \/ AddFound(f) \/ Commit(f)
    BY <1>0, <2>3 DEF MergeCheck, Found, Refuse, AddFound, Commit, MergeOK, ClientOK
  <2> QED BY <1>4, <2>1, <2>2, <2>3 DEF FinderStep
<1>5. CASE AddStratum \/ ChannelClosed \/ Remove \/ NotifyMiners
  <2>1. MergeOK'
    <3>1. CASE ChannelClosed \/ NotifyMiners
      BY <1>0, <3>1 DEF ChannelClosed, NotifyMiners, MergeOK, MergeType
    <3>2. CASE AddStratum
      <4>1. sjob' = sjob
            /\ merge' = [at |-> "start", listed |-> TRUE, merged |-> 0, diff |-> 0, got |-> 0]
        BY <3>2 DEF AddStratum, Unlisted
      <4> QED BY <1>0, <4>1 DEF MergeOK, MergeType
    <3>3. CASE Remove
      BY <1>0, <3>3 DEF Remove, MergeOK, MergeType, Unlisted
    <3> QED BY <1>5, <3>1, <3>2, <3>3
  <2>2. ClientOK'
    BY <1>0, <1>5 DEF AddStratum, ChannelClosed, Remove, NotifyMiners, ClientOK
  <2> QED BY <2>1, <2>2
<1>6. CASE Start
  <2>1. MergeOK'
    BY <1>0, <1>6 DEF Start, MergeOK, MergeType
  <2>2. PICK q : q = <<sjob>>
    OBVIOUS
  <2>3. q \in AtMostOne(Nat \ {0})
    BY <1>0, <2>2, OneMessage DEF MergeOK
  <2>4. cl' = NoClient \/ cl' = [NoClient EXCEPT !.reading = TRUE, !.up = TRUE, !.chan = q]
    BY <1>6, <2>2 DEF Start
  <2>5. ClientOK'
    <3>1. NoClient \in ClientType
      BY EmptyChannel DEF ClientType, NoClient
    <3>2. [NoClient EXCEPT !.reading = TRUE, !.up = TRUE, !.chan = q] \in ClientType
      BY <2>3, <3>1 DEF ClientType
    <3> QED BY <2>4, <3>1, <3>2 DEF ClientOK
  <2> QED BY <2>1, <2>5
<1>7. CASE ReceiveJob
  <2>1. PICK h : h = Head(cl.chan)
    OBVIOUS
  <2>2. h \in Nat \ {0}
    <3>1. cl.chan \in AtMostOne(Nat \ {0}) /\ cl.chan # <<>>
      BY <1>0, <1>7 DEF ReceiveJob, ClientOK, ClientType
    <3> QED BY <2>1, <3>1, FullChannel
  <2>3. merge' = [merge EXCEPT !.at = "got", !.got = h] /\ cl' = [cl EXCEPT !.chan = <<>>] /\ sjob' = sjob
    BY <1>7, <2>1 DEF ReceiveJob
  <2>4. MergeOK'
    BY <1>0, <2>2, <2>3 DEF MergeOK, MergeType
  <2>5. ClientOK'
    BY <1>0, <2>3, EmptyChannel DEF ClientOK, ClientType
  <2> QED BY <2>4, <2>5
<1>8. CASE StoreJob
  <2>1. PICK d \in node.slaveDiffs :
          merge' = [merge EXCEPT !.at = "notify", !.merged = merge.got, !.got = 0, !.diff = SlaveMin(d)]
    BY <1>8 DEF StoreJob, SlaveMin
  <2>2. merge.at = "got" /\ UNCHANGED <<cl, sjob>>
    BY <1>8 DEF StoreJob
  <2>3. node \in NodeType
    BY StratumAssumption DEF Inv, ChainOK
  <2>4. PICK m \in Limb : m = SlaveMin(d)
    BY <2>1, <2>3, SlaveMinType DEF NodeType, PosLimb
  <2> QED BY <1>0, <2>1, <2>2, <2>4 DEF MergeOK, MergeType, ClientOK
<1>9. CASE BadJob
  <2>1. MergeOK'
    BY <1>0, <1>9 DEF BadJob, MergeOK, MergeType
  <2>2. ClientOK'
    BY <1>0, <1>9, EmptyChannel DEF BadJob, ClientOK, ClientType
  <2> QED BY <2>1, <2>2
<1>10. CASE ScanRead
  <2>1. PICK h, q : h = <<Head(cl.sock)>> /\ q = Tail(cl.sock)
    OBVIOUS
  <2>2. h \in AtMostOne(Nat) /\ q \in Seq(Nat)
    <3>1. cl.sock \in Seq(Nat) /\ cl.sock # <<>>
      BY <1>0, <1>10 DEF ScanRead, ClientOK, ClientType
    <3>2. Head(cl.sock) \in Nat /\ q \in Seq(Nat)
      BY <2>1, <3>1
    <3> QED BY <2>1, <3>2, OneMessage
  <2>3. cl' = [cl EXCEPT !.scan = h, !.sock = q] /\ UNCHANGED <<merge, sjob>>
    BY <1>10, <2>1 DEF ScanRead
  <2>4. ClientOK'
    BY <1>0, <2>2, <2>3 DEF ClientOK, ClientType
  <2> QED BY <1>0, <2>3, <2>4 DEF MergeOK
<1>11. CASE ScanPut
  <2>1. PICK q : q = cl.scan
    OBVIOUS
  <2>2. q \in AtMostOne(Nat) /\ q # <<>>
    BY <1>0, <1>11, <2>1 DEF ScanPut, ClientOK, ClientType
  <2>3. q[1] # Response => q \in AtMostOne(Nat \ {0})
    BY <2>2, FullChannel DEF Response
  <2>4. /\ UNCHANGED <<merge, sjob>>
        /\ \/ cl' = [cl EXCEPT !.resp = q, !.scan = <<>>]
           \/ q[1] # Response /\ cl' = [cl EXCEPT !.chan = q, !.scan = <<>>]
    BY <1>11, <2>1 DEF ScanPut
  <2>5. ClientOK'
    BY <1>0, <2>2, <2>3, <2>4, EmptyChannel DEF ClientOK, ClientType
  <2> QED BY <1>0, <2>4, <2>5 DEF MergeOK
<1>12. CASE ScanEnds
  <2>1. ClientOK'
    BY <1>0, <1>12, EmptyChannel DEF ScanEnds, ClientOK, ClientType
  <2> QED BY <1>0, <1>12, <2>1 DEF ScanEnds, MergeOK
<1>13. CASE SlaveJob
  <2>1. PICK q : q = Append(cl.sock, sjob + 1)
    OBVIOUS
  <2>2. q \in Seq(Nat) /\ sjob + 1 \in Nat \ {0}
    BY <1>0, <2>1 DEF ClientOK, ClientType, MergeOK
  <2>3. cl' = [cl EXCEPT !.sock = q] /\ merge' = merge /\ sjob' = sjob + 1
    BY <1>13, <2>1 DEF SlaveJob
  <2>4. ClientOK'
    BY <1>0, <2>2, <2>3 DEF ClientOK, ClientType
  <2> QED BY <1>0, <2>2, <2>3, <2>4 DEF MergeOK
<1>14. CASE SlaveAnswers
  <2>1. PICK p, q : p = Tail(cl.req) /\ q = Append(cl.sock, Response)
    OBVIOUS
  <2>2. p \in Seq(Finders) /\ q \in Seq(Nat)
    BY <1>0, <1>14, <2>1 DEF SlaveAnswers, ClientOK, ClientType, Response
  <2>3. cl' = [cl EXCEPT !.req = p, !.sock = q] /\ UNCHANGED <<merge, sjob>>
    BY <1>14, <2>1 DEF SlaveAnswers
  <2>4. ClientOK'
    BY <1>0, <2>2, <2>3 DEF ClientOK, ClientType
  <2> QED BY <1>0, <2>3, <2>4 DEF MergeOK
<1>15. UNCHANGED mergeVars => MergeOK' /\ ClientOK'
  BY <1>0 DEF MergeOK, ClientOK
<1> QED BY <1>1, <1>2, <1>3, <1>4, <1>5, <1>6, <1>7, <1>8, <1>9, <1>10, <1>11, <1>12, <1>13, <1>14, <1>15
    DEF Next, MergeStep

-----------------------------------------------------------------------------
(* The NewStratumJob goroutines                                            *)

\* Template, progress and connections of one goroutine.
JobHolds(j) ==
  /\ job[j].tpl \in 0 .. Len(heap)
  /\ job[j].at = "send" => job[j].tpl # 0
  /\ job[j].at # "done" => \A c \in Conns : job[j].to[c] = "-"
  /\ \A c \in Conns : /\ job[j].to[c] # "-" => job[j].tpl # 0
                      /\ job[j].to[c] = "set" => Given(c, job[j].tpl)

\* The NewStratumJob goroutines are numbered.
LEMMA JobDomain ==
  ASSUME job \in Seq(JobType)
  PROVE  /\ Len(job) \in Nat /\ DOMAIN job = 1 .. Len(job) /\ job \in [1 .. Len(job) -> JobType]
         /\ \A j \in DOMAIN job : job[j] \in JobType
OBVIOUS

\* A goroutine that starts waits for MergesMut, and has nothing to send.
LEMMA NewJobType ==
  ASSUME NEW force \in BOOLEAN
  PROVE  /\ NewJob(force) \in JobType /\ NewJob(force).at = "lock" /\ NewJob(force).tpl = 0
         /\ \A c \in Conns : NewJob(force).to[c] = "-"
BY DEF NewJob, JobType

\* A goroutine is started.
LEMMA JobStarts ==
  ASSUME job \in Seq(JobType), NEW force \in BOOLEAN, job' = Append(job, NewJob(force))
  PROVE  /\ job' \in Seq(JobType) /\ DOMAIN job' = DOMAIN job \cup {Len(job) + 1}
         /\ Len(job) + 1 \notin DOMAIN job
         /\ job'[Len(job) + 1] = NewJob(force) /\ \A j \in DOMAIN job : job'[j] = job[j]
<1>1. PICK n \in Nat : Len(job) = n
  OBVIOUS
<1>2. PICK g \in JobType : g = NewJob(force)
  BY NewJobType
<1>3. /\ job' \in Seq(JobType) /\ DOMAIN job = 1 .. n /\ DOMAIN job' = 1 .. n + 1
      /\ job'[n + 1] = g /\ \A j \in 1 .. n : job'[j] = job[j]
  BY <1>1, <1>2
<1> QED BY <1>1, <1>2, <1>3

\* A goroutine goes on.
LEMMA JobMoves ==
  ASSUME job \in Seq(JobType), NEW k \in DOMAIN job, NEW r \in JobType, job' = [job EXCEPT ![k] = r]
  PROVE  /\ job' \in Seq(JobType) /\ DOMAIN job' = DOMAIN job /\ job'[k] = r
         /\ \A j \in DOMAIN job : j # k => job'[j] = job[j]
<1>1. Len(job) \in Nat /\ DOMAIN job = 1 .. Len(job) /\ job \in [1 .. Len(job) -> JobType]
  BY JobDomain
<1>2. job' \in [1 .. Len(job) -> JobType]
  BY <1>1
<1>3. job' \in Seq(JobType) /\ DOMAIN job' = DOMAIN job
  BY <1>1, <1>2
<1> QED BY <1>1, <1>3

\* Every step of a goroutine, as a change of its record.
JobChange(j, r) ==
  /\ job' = [job EXCEPT ![j] = r] /\ r.force = job[j].force
  /\ \/ JobLock(j) /\ r.at \in {"db", "done"} /\ r.tpl = job[j].tpl /\ r.to = job[j].to
     \/ JobUpdate(j) /\ r.at = "template" /\ r.tpl = job[j].tpl /\ r.to = job[j].to
     \/ JobTemplate(j) /\ r.at = "send" /\ r.tpl = Len(heap) + 1 /\ r.to = job[j].to
     \/ /\ SendJob(j) /\ r.at = "done" /\ r.tpl = job[j].tpl
        /\ \A c \in Conns : r.to[c] = IF conn[c].at \in {"off", "gone"} THEN "-" ELSE "go"
     \/ /\ r.at = job[j].at /\ r.tpl = job[j].tpl
        /\ \E c \in Conns :
             /\ \A d \in Conns : d # c => r.to[d] = job[j].to[d]
             /\ \/ GiveWrite(j, c) /\ conn[c].addr /\ r.to[c] = "set"
                \/ GiveWrite(j, c) /\ ~conn[c].addr /\ r.to[c] = "-"
                \/ GiveBlob(j, c) /\ r.to[c] = "-"

\* Every step of a NewStratumJob goroutine changes its own record only.
LEMMA JobRecord ==
  ASSUME Inv, NEW j \in DOMAIN job, JobStep(j)
  PROVE  \E r \in JobType : JobChange(j, r)
<1> DEFINE x == job[j]
<1>1. job \in Seq(JobType) /\ Len(job) \in Nat /\ DOMAIN job = 1 .. Len(job) /\ x \in JobType
  BY JobDomain DEF Inv, JobOK
<1>2. CASE JobLock(j)
  <2>1. PICK at \in {"db", "done"} : job' = [job EXCEPT ![j].at = at]
    BY <1>2 DEF JobLock
  <2>2. PICK r : r = [x EXCEPT !.at = at]
    OBVIOUS
  <2>3. r \in JobType /\ r.force = x.force /\ r.at = at /\ r.tpl = x.tpl /\ r.to = x.to
    BY <1>1, <2>2 DEF JobType
  <2>4. job' = [job EXCEPT ![j] = r]
    BY <2>1, <2>2
  <2> QED BY <1>2, <2>3, <2>4 DEF JobChange
<1>3. CASE JobUpdate(j)
  <2>1. PICK r : r = [x EXCEPT !.at = "template"]
    OBVIOUS
  <2>2. r \in JobType /\ r.force = x.force /\ r.at = "template" /\ r.tpl = x.tpl /\ r.to = x.to
    BY <1>1, <2>1 DEF JobType
  <2>3. job' = [job EXCEPT ![j] = r]
    BY <1>3, <2>1 DEF JobUpdate
  <2> QED BY <1>3, <2>2, <2>3 DEF JobChange
<1>4. CASE JobTemplate(j)
  <2>0. PICK n \in Nat : n = Len(heap) + 1
    BY HeapTypes DEF Inv
  <2>1. PICK r : r = [x EXCEPT !.at = "send", !.tpl = n]
    OBVIOUS
  <2>2. r \in JobType /\ r.force = x.force /\ r.at = "send" /\ r.tpl = n /\ r.to = x.to
    BY <1>1, <2>1 DEF JobType
  <2>3. job' = [job EXCEPT ![j] = r]
    BY <1>4, <2>0, <2>1 DEF JobTemplate
  <2> QED BY <1>4, <2>0, <2>2, <2>3 DEF JobChange
<1>5. CASE SendJob(j)
  <2>0. PICK to : to = [c \in Conns |-> IF conn[c].at \in {"off", "gone"} THEN "-" ELSE "go"]
    OBVIOUS
  <2>1. PICK r : r = [x EXCEPT !.at = "done", !.to = to]
    OBVIOUS
  <2>2. /\ to \in [Conns -> {"-", "go", "set"}]
        /\ \A c \in Conns : to[c] = IF conn[c].at \in {"off", "gone"} THEN "-" ELSE "go"
    BY <2>0
  <2>3. r \in JobType /\ r.force = x.force /\ r.at = "done" /\ r.tpl = x.tpl /\ r.to = to
    BY <1>1, <2>1, <2>2 DEF JobType
  <2>4. job' = [job EXCEPT ![j] = r]
    BY <1>5, <2>0, <2>1 DEF SendJob
  <2> QED BY <1>5, <2>2, <2>3, <2>4 DEF JobChange
<1>6. ASSUME NEW c \in Conns, NEW s \in {"-", "go", "set"}, job' = [job EXCEPT ![j].to[c] = s]
      PROVE  \E r \in JobType : /\ job' = [job EXCEPT ![j] = r] /\ r.force = x.force
                                /\ r.at = x.at /\ r.tpl = x.tpl /\ r.to[c] = s
                                /\ \A d \in Conns : d # c => r.to[d] = x.to[d]
  <2>0. PICK to : to = [x.to EXCEPT ![c] = s]
    OBVIOUS
  <2>1. PICK r : r = [x EXCEPT !.to = to]
    OBVIOUS
  <2>2. /\ to \in [Conns -> {"-", "go", "set"}] /\ to[c] = s
        /\ \A d \in Conns : d # c => to[d] = x.to[d]
    BY <1>1, <2>0 DEF JobType
  <2>3. r \in JobType /\ r.force = x.force /\ r.at = x.at /\ r.tpl = x.tpl /\ r.to = to
    BY <1>1, <2>1, <2>2 DEF JobType
  <2>4. job' = [job EXCEPT ![j] = r]
    BY <1>6, <2>0, <2>1
  <2> QED BY <2>2, <2>3, <2>4
<1>7. ASSUME NEW c \in Conns, GiveWrite(j, c) \/ GiveBlob(j, c)
      PROVE  \/ GiveWrite(j, c) /\ conn[c].addr /\ job' = [job EXCEPT ![j].to[c] = "set"]
             \/ GiveWrite(j, c) /\ ~conn[c].addr /\ job' = [job EXCEPT ![j].to[c] = "-"]
             \/ GiveBlob(j, c) /\ job' = [job EXCEPT ![j].to[c] = "-"]
  BY <1>7 DEF GiveWrite, GiveBlob
<1>8. ASSUME NEW c \in Conns, GiveWrite(j, c) \/ GiveBlob(j, c)
      PROVE  \E r \in JobType :
               /\ job' = [job EXCEPT ![j] = r] /\ r.force = x.force /\ r.at = x.at /\ r.tpl = x.tpl
               /\ \A d \in Conns : d # c => r.to[d] = x.to[d]
               /\ \/ GiveWrite(j, c) /\ conn[c].addr /\ r.to[c] = "set"
                  \/ GiveWrite(j, c) /\ ~conn[c].addr /\ r.to[c] = "-"
                  \/ GiveBlob(j, c) /\ r.to[c] = "-"
  BY <1>6, <1>7, <1>8
<1> HIDE DEF x
<1>9. CASE \E c \in Conns : GiveWrite(j, c) \/ GiveBlob(j, c)
  BY <1>8, <1>9 DEF x, JobChange
<1> QED BY <1>2, <1>3, <1>4, <1>5, <1>9 DEF JobStep

\* All other steps leave the goroutines alone or start one.
LEMMA JobFrame ==
  ASSUME Next
  PROVE  \/ \E j \in DOMAIN job : JobStep(j)
         \/ job' = job
         \/ \E force \in BOOLEAN : job' = Append(job, NewJob(force))
<1> USE DEF chainVars, mergeVars, jobVars
<1>1. ASSUME NEW c \in Conns,
             \/ Connect(c) \/ LoginAddress(c) \/ Kick(c) \/ LoginRecipient(c) \/ LoginRespond(c)
             \/ Submit(c) \/ WriteJob(c)
      PROVE  job' = job
  BY <1>1 DEF Connect, LoginAddress, Kick, LoginRecipient, LoginRespond, Submit, WriteJob
<1>2. CASE StartMining \/ MineTemplate \/ Restart \/ Solve \/ PeerBlock \/ PeerCommit
  BY <1>2 DEF StartMining, MineTemplate, Restart, Solve, PeerBlock, PeerCommit
<1>3. ASSUME NEW f \in Finders, FinderStep(f)
      PROVE  job' = job \/ job' = Append(job, NewJob(TRUE))
  BY <1>3 DEF FinderStep, MergeCheck, SendWork, Await, Found, Refuse, AddFound, Commit
<1>4. CASE MergeStep \/ BadJob \/ ScanRead \/ ScanPut \/ ScanEnds \/ SlaveJob \/ SlaveAnswers
  BY <1>4 DEF MergeStep, AddStratum, Start, ReceiveJob, StoreJob, NotifyMiners, ChannelClosed, Remove,
     BadJob, ScanRead, ScanPut, ScanEnds, SlaveJob, SlaveAnswers
<1> QED BY <1>1, <1>2, <1>3, <1>4 DEF Next

\* What a goroutine knew of its template stays true.
LEMMA JobKept ==
  ASSUME HeapOK, HeapOK', Grows, node' = node, NEW j, job'[j] = job[j], JobHolds(j)
  PROVE  JobHolds(j)'
<1>1. Len(heap) \in Nat /\ Len(heap') \in Nat /\ Len(heap) <= Len(heap')
  BY DEF HeapOK, Grows
<1>2. \A c \in Conns : Given(c, job[j].tpl) => Given(c, job[j].tpl)'
  BY Kept
<1> QED BY <1>1, <1>2 DEF JobHolds

\* A connection that has written itself into a block is the one it pays.
LEMMA WriteGives ==
  ASSUME Inv, NEW j \in DOMAIN job, NEW c \in Conns, GiveWrite(j, c), conn[c].addr,
         NEW k, k = job[j].tpl
  PROVE  Given(c, k)'
<1>1. k \in DOMAIN heap
  BY HeapTypes DEF GiveWrite, Inv, JobOK
<1>2. heap[k] \in [height: Nat, rcpt: Conns \cup {None}, extra: Nat, merged: Nat, min: PosLimb, touched: Nat]
  BY <1>1, HeapTypes DEF Inv, TemplateTypes, TemplateType
<1>3. PICK b : b = [heap[k] EXCEPT !.rcpt = c, !.extra = heap[k].extra + 1, !.touched = heap[k].touched + 1]
  OBVIOUS
<1>4. heap' = [heap EXCEPT ![k] = b]
  BY <1>1, <1>3 DEF GiveWrite
<1>5. b.rcpt = c /\ b.touched >= 1
  BY <1>2, <1>3
<1>6. heap'[k] = b /\ k \in DOMAIN heap'
  BY <1>1, <1>4
<1> QED BY <1>5, <1>6 DEF Given

\* The login writes its address into LastBlock.
LEMMA RecipientGiven ==
  ASSUME Inv, NEW c \in Conns, LoginRecipient(c), NEW k, k = last
  PROVE  Given(c, k)' /\ last' = k /\ k \in DOMAIN heap
<1>1. k \in DOMAIN heap /\ last' = k
  BY HeapTypes DEF LoginRecipient, Inv, HeapOK
<1>2. heap[k] \in [height: Nat, rcpt: Conns \cup {None}, extra: Nat, merged: Nat, min: PosLimb, touched: Nat]
  BY <1>1, HeapTypes DEF Inv, TemplateTypes, TemplateType
<1>3. PICK b : b = [heap[k] EXCEPT !.rcpt = c, !.touched = heap[k].touched + 1]
  OBVIOUS
<1>4. heap' = [heap EXCEPT ![k] = b]
  BY <1>1, <1>3 DEF LoginRecipient
<1>5. b.rcpt = c /\ b.touched >= 1
  BY <1>2, <1>3
<1>6. heap'[k] = b /\ k \in DOMAIN heap'
  BY <1>1, <1>4
<1> QED BY <1>1, <1>5, <1>6 DEF Given

\* A goroutine's template exists, and is written to before the blob is taken.
LEMMA JobTypes ==
  ASSUME Inv, Next
  PROVE  JobOK'
<1>0. /\ job \in Seq(JobType) /\ \A j \in DOMAIN job : JobHolds(j)
      /\ HeapOK /\ HeapOK' /\ Grows /\ node' = node
  BY HeapStep DEF Inv, JobOK, JobHolds
<1>1. CASE job' = job
  <2>1. \A j \in DOMAIN job : job'[j] = job[j]
    BY <1>1
  <2>2. \A j \in DOMAIN job : JobHolds(j)'
    BY <1>0, <2>1, JobKept
  <2>3. job' \in Seq(JobType) /\ DOMAIN job' = DOMAIN job
    BY <1>0, <1>1
  <2> QED BY <2>2, <2>3 DEF JobOK, JobHolds
<1>2. ASSUME NEW force \in BOOLEAN, job' = Append(job, NewJob(force)) PROVE JobOK'
  <2>0. PICK n : n = Len(job) + 1
    OBVIOUS
  <2>1. /\ job' \in Seq(JobType) /\ DOMAIN job' = DOMAIN job \cup {n}
        /\ job'[n] = NewJob(force) /\ \A j \in DOMAIN job : job'[j] = job[j]
    BY <1>0, <1>2, <2>0, JobStarts
  <2>2. \A j \in DOMAIN job : JobHolds(j)'
    BY <1>0, <2>1, JobKept
  <2>3. JobHolds(n)'
    <3>1. Len(heap') \in Nat
      BY <1>0 DEF HeapOK
    <3> QED BY <2>1, <3>1, NewJobType DEF JobHolds
  <2> QED BY <2>1, <2>2, <2>3 DEF JobOK, JobHolds
<1>3. ASSUME NEW j \in DOMAIN job, JobStep(j) PROVE JobOK'
  <2>1. PICK r \in JobType : JobChange(j, r)
    BY <1>3, JobRecord
  <2>2. /\ job' \in Seq(JobType) /\ DOMAIN job' = DOMAIN job /\ job'[j] = r
        /\ \A i \in DOMAIN job : i # j => job'[i] = job[i]
    BY <1>0, <2>1, JobMoves DEF JobChange
  <2>3. \A i \in DOMAIN job : i # j => JobHolds(i)'
    BY <1>0, <2>2, JobKept
  <2>4. JobHolds(j) /\ Len(heap) \in Nat /\ Len(heap') \in Nat /\ Len(heap) <= Len(heap')
    BY <1>0, <2>1 DEF HeapOK, Grows
  <2>5. \A c \in Conns : \A t : Given(c, t) => Given(c, t)'
    BY <1>0, Kept
  <2>6. JobHolds(j)'
    <3>1. CASE JobLock(j) /\ r.at \in {"db", "done"} /\ r.tpl = job[j].tpl /\ r.to = job[j].to
      BY <2>2, <2>4, <2>5, <3>1 DEF JobHolds, JobLock
    <3>0. CASE JobUpdate(j) /\ r.at = "template" /\ r.tpl = job[j].tpl /\ r.to = job[j].to
      BY <2>2, <2>4, <2>5, <3>0 DEF JobHolds, JobUpdate
    <3>2. CASE JobTemplate(j) /\ r.at = "send" /\ r.tpl = Len(heap) + 1 /\ r.to = job[j].to
      <4>1. Len(heap') = Len(heap) + 1
        <5>1. heap' = Append(heap, Template(None))
          BY <3>2 DEF JobTemplate
        <5>2. heap \in Seq(TemplateTypes) /\ Template(None) \in TemplateTypes
          BY <1>0, TemplateMade DEF HeapOK, TemplateTypes, TemplateType
        <5> QED BY <5>1, <5>2
      <4>2. r.tpl \in 0 .. Len(heap') /\ r.tpl # 0
        BY <2>4, <3>2, <4>1
      <4>3. \A c \in Conns : r.to[c] = "-"
        BY <2>4, <3>2 DEF JobHolds, JobTemplate
      <4> QED BY <2>2, <4>2, <4>3 DEF JobHolds
    <3>3. CASE /\ SendJob(j) /\ r.at = "done" /\ r.tpl = job[j].tpl
               /\ \A c \in Conns : r.to[c] = IF conn[c].at \in {"off", "gone"} THEN "-" ELSE "go"
      <4>1. job[j].tpl # 0
        BY <2>4, <3>3 DEF SendJob, JobHolds
      <4>2. \A c \in Conns : r.to[c] # "set"
        BY <3>3
      <4> QED BY <2>2, <2>4, <3>3, <4>1, <4>2 DEF JobHolds
    <3>4. ASSUME NEW c \in Conns, r.at = job[j].at, r.tpl = job[j].tpl,
                 \A d \in Conns : d # c => r.to[d] = job[j].to[d],
                 \/ GiveWrite(j, c) /\ conn[c].addr /\ r.to[c] = "set"
                 \/ GiveWrite(j, c) /\ ~conn[c].addr /\ r.to[c] = "-"
                 \/ GiveBlob(j, c) /\ r.to[c] = "-"
          PROVE  JobHolds(j)'
      <4>1. job[j].to[c] # "-" /\ job[j].at = "done" /\ job[j].tpl # 0
        BY <2>4, <3>4 DEF GiveWrite, GiveBlob, JobHolds
      <4>2. r.to[c] = "set" => Given(c, r.tpl)'
        BY <3>4, WriteGives
      <4>3. \A d \in Conns : r.to[d] = "set" => Given(d, r.tpl)'
        BY <2>4, <2>5, <3>4, <4>2 DEF JobHolds
      <4> QED BY <2>2, <2>4, <3>4, <4>1, <4>3 DEF JobHolds
    <3> QED BY <2>1, <3>0, <3>1, <3>2, <3>3, <3>4 DEF JobChange
  <2> QED BY <2>2, <2>3, <2>6 DEF JobOK, JobHolds
<1> QED BY <1>1, <1>2, <1>3, JobFrame

-----------------------------------------------------------------------------
(* The handlers of the connections and the integrated miner                *)

\* Nothing a handler holds is spoilt by what the others do to the templates.
LEMMA MinerKept ==
  ASSUME HeapOK, HeapOK', Grows, node' = node, last # 0 => last' # 0,
         NEW c \in Conns, NEW r, MinerHolds(c, r)
  PROVE  MinerHolds(c, r)'
<1>1. \A i \in DOMAIN r.jobs : Entry(c, r.jobs[i])'
  BY EntryKept DEF MinerHolds
<1>2. r.at = "recipient" => Given(c, r.bl)' /\ last' # 0
  BY Kept DEF MinerHolds
<1>3. r.at \in Solving => Solution(c, r.share)'
  BY SolutionKept DEF MinerHolds
<1>4. r.at \in Tried => Offered(r.share)'
  BY SolutionKept DEF MinerHolds, Solving
<1>5. r.at = "refused" => Refused(r.share)'
  BY SolutionKept DEF MinerHolds, Solving, Tried
<1> QED BY <1>1, <1>2, <1>3, <1>4, <1>5 DEF MinerHolds

\* What the integrated miner has stays valid when the top rises.
LEMMA SoloKept ==
  ASSUME node' = node, top \in Nat, top' \in Nat, top' >= top, NEW r, SoloHolds(r)
  PROVE  SoloHolds(r)'
<1>1. ASSUME r.at = "mine" PROVE r.jobs[1].height <= top' + 1
  <2>1. Len(r.jobs) = 1 /\ r.jobs \in Seq(TemplateType({Solo})) /\ r.jobs[1].height <= top + 1
    BY <1>1 DEF SoloHolds, SoloType, ConnType
  <2>2. r.jobs[1] \in TemplateType({Solo})
    BY <2>1
  <2>3. r.jobs[1].height \in Nat
    BY <2>2 DEF TemplateType
  <2> QED BY <2>1, <2>3
<1> QED BY <1>1 DEF SoloHolds

\* A step of the handler of one connection ...
LEMMA MinerSet ==
  ASSUME Inv, Next, NEW c \in Conns, NEW r, conn' = [conn EXCEPT ![c] = r], MinerHolds(c, r)'
  PROVE  ConnOK'
<1>1. DOMAIN conn = Finders /\ DOMAIN conn' = Finders /\ conn'[c] = r
  BY DEF Inv, ConnOK, Finders
<1>2. Solo # c /\ conn'[Solo] = conn[Solo]
  BY <1>1, StratumAssumption DEF Finders
<1>3. \A d \in Conns : d # c => conn'[d] = conn[d]
  BY <1>1 DEF Finders
<1>4. \A d \in Conns : MinerHolds(d, conn[d])' 
  <2>1. \A d \in Conns : \A x : MinerHolds(d, x) => MinerHolds(d, x)'
    BY HeapStep, MinerKept DEF Inv
  <2>2. ASSUME NEW d \in Conns, d # c PROVE MinerHolds(d, conn[d])'
    <3>1. PICK x : x = conn[d]
      OBVIOUS
    <3>2. MinerHolds(d, x)' /\ conn'[d] = x
      BY <1>3, <2>1, <2>2, <3>1 DEF Inv, ConnOK
    <3> QED BY <3>2
  <2>3. MinerHolds(c, conn[c])'
    BY <1>1
  <2> QED BY <2>2, <2>3
<1>5. SoloHolds(conn[Solo])'
  <2>1. PICK x : x = conn[Solo]
    OBVIOUS
  <2>2. SoloHolds(x)' /\ conn'[Solo] = x
    BY <1>2, <2>1, HeapStep, SoloKept DEF Inv, ConnOK
  <2> QED BY <2>2
<1> QED BY <1>1, <1>4, <1>5 DEF ConnOK

\* ... of the integrated miner ...
LEMMA SoloSet ==
  ASSUME Inv, Next, NEW r, conn' = [conn EXCEPT ![Solo] = r], SoloHolds(r)'
  PROVE  ConnOK'
<1>1. DOMAIN conn = Finders /\ DOMAIN conn' = Finders /\ conn'[Solo] = r
  BY DEF Inv, ConnOK, Finders
<1>2. \A d \in Conns : conn'[d] = conn[d]
  BY <1>1, StratumAssumption DEF Finders
<1>3. ASSUME NEW d \in Conns PROVE MinerHolds(d, conn[d])'
  <2>1. PICK x : x = conn[d]
    OBVIOUS
  <2>2. MinerHolds(d, x)' /\ conn'[d] = x
    BY <1>2, <2>1, HeapStep, MinerKept DEF Inv, ConnOK
  <2> QED BY <2>2
<1>4. SoloHolds(conn[Solo])'
  BY <1>1
<1> QED BY <1>1, <1>3, <1>4 DEF ConnOK

\* ... and of nobody.
LEMMA ConnSame ==
  ASSUME Inv, Next, conn' = conn
  PROVE  ConnOK'
<1>1. ASSUME NEW d \in Conns PROVE MinerHolds(d, conn[d])'
  <2>1. PICK x : x = conn[d]
    OBVIOUS
  <2>2. MinerHolds(d, x)' /\ conn'[d] = x
    BY <2>1, HeapStep, MinerKept DEF Inv, ConnOK
  <2> QED BY <2>2
<1>2. SoloHolds(conn[Solo])'
  <2>1. PICK x : x = conn[Solo]
    OBVIOUS
  <2>2. SoloHolds(x)' /\ conn'[Solo] = x
    BY <2>1, HeapStep, SoloKept DEF Inv, ConnOK
  <2> QED BY <2>2
<1> QED BY <1>1, <1>2 DEF Inv, ConnOK

\* The fields of a handler that only goes on.
SameBut(r, x) == r.addr = x.addr /\ r.bl = x.bl /\ r.jobs = x.jobs
                 /\ r.out = x.out /\ r.had = x.had

\* A handler that goes on keeps everything else.
LEMMA Moved ==
  ASSUME NEW f \in Finders, NEW ats, NEW entries, conn[f] \in ConnType(ats, entries),
         NEW at \in ats, Move(f, at)
  PROVE  \E r \in ConnType(ats, entries) :
           /\ conn' = [conn EXCEPT ![f] = r] /\ r.at = at /\ r.share = conn[f].share
           /\ SameBut(r, conn[f])
<1>1. PICK x \in ConnType(ats, entries) : x = conn[f]
  OBVIOUS
<1>2. PICK r : r = [x EXCEPT !.at = at]
  OBVIOUS
<1>3. r \in ConnType(ats, entries) /\ r.at = at /\ r.share = x.share /\ SameBut(r, x)
  BY <1>1, <1>2 DEF ConnType, SameBut
<1>4. conn' = [conn EXCEPT ![f] = r]
  BY <1>1, <1>2 DEF Move
<1> QED BY <1>1, <1>3, <1>4

\* The content of a template, as it is hashed.
LEMMA ContentType ==
  ASSUME HeapOK, NEW t \in DOMAIN heap
  PROVE  Content(heap[t]) \in BlobType
<1>1. heap[t] \in TemplateTypes
  BY HeapTypes
<1> QED BY <1>1 DEF Content, BlobType, TemplateTypes, TemplateType, Finders

\* addJob: the history takes the block the connection wrote itself into, and
\* stays within its bound.
LEMMA HistoryKept ==
  ASSUME HeapOK, NEW c \in Conns, NEW jobs \in Seq(EntryType), Len(jobs) <= STRATUM_JOBS_HISTORY,
         \A i \in DOMAIN jobs : Entry(c, jobs[i]),
         NEW t \in Nat, Given(c, t), NEW min \in PosLimb, NEW q, q = AddJob(jobs, t, min)
  PROVE  /\ q \in Seq(EntryType) /\ Len(q) <= STRATUM_JOBS_HISTORY
         /\ \A i \in DOMAIN q : Entry(c, q[i])
<1>1. PICK e : e = [t |-> t, blob |-> Content(heap[t]), min |-> min]
  OBVIOUS
<1>2. e \in EntryType /\ Entry(c, e)
  BY <1>1, ContentType DEF EntryType, Entry, Given
<1>3. PICK p : p = IF Len(jobs) >= STRATUM_JOBS_HISTORY THEN Tail(jobs) ELSE jobs
  OBVIOUS
<1>4. q = Append(p, e)
  BY <1>1, <1>3 DEF AddJob
<1>5. STRATUM_JOBS_HISTORY \in Nat \ {0}
  BY StratumAssumption
<1>6. p \in Seq(EntryType) /\ Len(p) + 1 <= STRATUM_JOBS_HISTORY /\ \A i \in DOMAIN p : Entry(c, p[i])
  <2>0. Len(jobs) \in Nat /\ DOMAIN jobs = 1 .. Len(jobs)
    OBVIOUS
  <2>1. CASE Len(jobs) >= STRATUM_JOBS_HISTORY
    <3>1. jobs # <<>>
      BY <1>5, <2>1
    <3>2. p = Tail(jobs)
      BY <1>3, <2>1
    <3>3. /\ p \in Seq(EntryType) /\ Len(p) = Len(jobs) - 1 /\ DOMAIN p = 1 .. Len(jobs) - 1
          /\ \A i \in 1 .. Len(jobs) - 1 : p[i] = jobs[i + 1]
      <4>1. Len(p) = Len(jobs) - 1
        BY <3>1, <3>2
      <4>2. p \in Seq(EntryType)
        BY <3>1, <3>2
      <4>3. DOMAIN p = 1 .. Len(jobs) - 1
        BY <4>1, <4>2
      <4>4. \A i \in 1 .. Len(jobs) - 1 : p[i] = jobs[i + 1]
        BY <3>1, <3>2
      <4> QED BY <4>1, <4>2, <4>3, <4>4
    <3>4. \A i \in 1 .. Len(jobs) - 1 : i + 1 \in DOMAIN jobs
      BY <2>0
    <3>5. \A i \in DOMAIN p : Entry(c, p[i])
      <4> HIDE DEF Entry
      <4> QED BY <3>3, <3>4
    <3>6. Len(p) + 1 <= STRATUM_JOBS_HISTORY
      BY <1>5, <2>0, <3>3
    <3> QED BY <3>3, <3>5, <3>6
  <2>2. CASE ~(Len(jobs) >= STRATUM_JOBS_HISTORY)
    <3>1. p = jobs
      BY <1>3, <2>2
    <3> QED BY <1>5, <2>0, <2>2, <3>1
  <2> QED BY <2>1, <2>2
<1>7. PICK n \in Nat : n = Len(p)
  BY <1>6
<1>8. /\ q \in Seq(EntryType) /\ Len(q) = n + 1 /\ DOMAIN q = 1 .. n + 1 /\ DOMAIN p = 1 .. n
      /\ q[n + 1] = e /\ \A i \in 1 .. n : q[i] = p[i]
  BY <1>2, <1>4, <1>6, <1>7
<1> HIDE DEF Entry
<1> QED BY <1>2, <1>6, <1>7, <1>8

\* What the invariant says of one connection before a step, and still says
\* after it of the state the handler was in.
LEMMA MinerBefore ==
  ASSUME Inv, Next, NEW c \in Conns
  PROVE  \E x \in MinerType : x = conn[c] /\ MinerHolds(c, x) /\ MinerHolds(c, x)'
<1>1. PICK x : x = conn[c]
  OBVIOUS
<1>2. MinerHolds(c, x)
  BY <1>1 DEF Inv, ConnOK
<1>3. MinerHolds(c, x)'
  BY <1>2, HeapStep, MinerKept DEF Inv
<1>4. x \in MinerType
  BY <1>2 DEF MinerHolds
<1> QED BY <1>1, <1>2, <1>3, <1>4

\* The steps of a login up to its response.
LEMMA LoginTypes ==
  ASSUME Inv, Next, NEW c \in Conns,
         Connect(c) \/ LoginAddress(c) \/ Kick(c) \/ LoginRecipient(c)
  PROVE  ConnOK'
<1> USE DEF chainVars, mergeVars, jobVars
<1>0. PICK x \in MinerType : x = conn[c] /\ MinerHolds(c, x) /\ MinerHolds(c, x)'
  BY MinerBefore
<1>1. c \in Finders /\ conn[c] \in ConnType({"off", "login", "address", "gone"} \cup LoggedIn, EntryType)
  BY <1>0 DEF Finders, MinerType
<1>2. CASE Connect(c) \/ Kick(c)
  <2>1. PICK at \in {"login", "gone"} : Move(c, at)
    BY <1>2 DEF Connect, Kick
  <2>2. PICK r \in MinerType : conn' = [conn EXCEPT ![c] = r] /\ r.at = at /\ r.share = x.share /\ SameBut(r, x)
    BY <1>0, <1>1, <2>1, Moved DEF MinerType
  <2>3. MinerHolds(c, r)'
    BY <1>0, <2>1, <2>2 DEF MinerHolds, SameBut, LoggedIn, Solving, Tried
  <2> QED BY <2>2, <2>3, MinerSet
<1>3. CASE LoginAddress(c)
  <2>1. PICK r : r = [x EXCEPT !.addr = TRUE, !.at = "address"]
    OBVIOUS
  <2>2. /\ r \in MinerType /\ r.at = "address" /\ r.addr = TRUE /\ r.bl = x.bl /\ r.jobs = x.jobs
        /\ r.share = x.share
    BY <1>0, <2>1 DEF MinerType, ConnType
  <2>3. conn' = [conn EXCEPT ![c] = r]
    BY <1>0, <1>3, <2>1 DEF LoginAddress
  <2>4. MinerHolds(c, r)'
    BY <1>0, <2>2 DEF MinerHolds, LoggedIn, Solving, Tried
  <2> QED BY <2>3, <2>4, MinerSet
<1>4. CASE LoginRecipient(c)
  <2>0. PICK k : k = last
    OBVIOUS
  <2>1. PICK r : r = [x EXCEPT !.at = "recipient", !.bl = k]
    OBVIOUS
  <2>2. Given(c, k)' /\ last' = k /\ k \in DOMAIN heap /\ k \in Nat /\ k # 0
    <3>1. Given(c, k)' /\ last' = k /\ k \in DOMAIN heap
      BY <1>4, <2>0, RecipientGiven
    <3> QED BY <3>1, HeapTypes DEF Inv
  <2>3. /\ r \in MinerType /\ r.at = "recipient" /\ r.addr = x.addr /\ r.bl = k /\ r.jobs = x.jobs
        /\ r.share = x.share
    BY <1>0, <2>1, <2>2 DEF MinerType, ConnType, LoggedIn
  <2>4. conn' = [conn EXCEPT ![c] = r] /\ x.at = "address"
    BY <1>0, <1>4, <2>0, <2>1 DEF LoginRecipient
  <2>5. MinerHolds(c, r)'
    BY <1>0, <2>2, <2>3, <2>4 DEF MinerHolds, LoggedIn, Solving, Tried
  <2> QED BY <2>4, <2>5, MinerSet
<1> QED BY <1>2, <1>3, <1>4

\* A job goes into the history, by SendJob or with the response to the login.
LEMMA HistoryTypes ==
  ASSUME Inv, Next, NEW c \in Conns, LoginRespond(c) \/ \E j \in DOMAIN job : GiveBlob(j, c)
  PROVE  ConnOK'
<1> USE DEF chainVars, mergeVars, jobVars
<1>0. PICK x \in MinerType : x = conn[c] /\ MinerHolds(c, x) /\ MinerHolds(c, x)'
  BY MinerBefore
<1>1. /\ x.jobs \in Seq(EntryType) /\ Len(x.jobs) <= STRATUM_JOBS_HISTORY
      /\ \A i \in DOMAIN x.jobs : Entry(c, x.jobs[i])
      /\ x.out \in SUBSET Nat /\ x.had \in SUBSET Nat /\ x.bl \in Nat
  BY <1>0 DEF MinerHolds, MinerType, ConnType
<1>2. HeapOK /\ HeapOK' /\ Grows /\ node' = node
  BY HeapStep DEF Inv
<1>3. \A t \in DOMAIN heap : heap[t].min \in PosLimb
  BY <1>2, HeapTypes DEF TemplateTypes, TemplateType
<1>4. ASSUME NEW j \in DOMAIN job, GiveBlob(j, c) PROVE ConnOK'
  <2>1. PICK t : t = job[j].tpl
    OBVIOUS
  <2>2. Given(c, t) /\ t \in Nat /\ t \in DOMAIN heap
    BY <1>2, <1>4, <2>1, HeapTypes DEF GiveBlob, Inv, JobOK, Given
  <2>3. PICK min : min = heap[t].min
    OBVIOUS
  <2>4. min \in PosLimb
    BY <1>3, <2>2, <2>3
  <2>5. PICK q : q = AddJob(x.jobs, t, min)
    OBVIOUS
  <2>6. q \in Seq(EntryType) /\ Len(q) <= STRATUM_JOBS_HISTORY /\ \A i \in DOMAIN q : Entry(c, q[i])
    BY <1>1, <1>2, <2>2, <2>4, <2>5, HistoryKept
  <2>7. PICK out \in SUBSET Nat : out = x.out \cup {t}
    BY <1>1, <2>2
  <2>8. PICK r : r = [x EXCEPT !.jobs = q, !.out = out]
    OBVIOUS
  <2>9. r \in MinerType /\ r.at = x.at /\ r.addr = x.addr /\ r.bl = x.bl /\ r.jobs = q /\ r.share = x.share
    BY <1>0, <2>6, <2>7, <2>8 DEF MinerType, ConnType
  <2>10. conn' = [conn EXCEPT ![c] = r]
    BY <1>0, <1>4, <2>1, <2>3, <2>5, <2>7, <2>8, ZenonT(30) DEF GiveBlob
  <2>11. \A i \in DOMAIN q : Entry(c, q[i])'
    BY <1>2, <2>6, EntryKept
  <2>12. MinerHolds(c, r)'
    BY <1>0, <2>6, <2>9, <2>11 DEF MinerHolds
  <2> QED BY <2>10, <2>12, MinerSet
<1>5. CASE LoginRespond(c)
  <2>1. PICK t : t = x.bl
    OBVIOUS
  <2>2. Given(c, t) /\ t \in Nat /\ last # 0
    BY <1>0, <1>1, <1>5, <2>1 DEF LoginRespond, MinerHolds
  <2>3. PICK min : min = heap[last].min
    OBVIOUS
  <2>4. min \in PosLimb
    <3>1. last \in DOMAIN heap
      BY <1>2, <2>2, HeapTypes DEF HeapOK
    <3> QED BY <1>3, <2>3, <3>1
  <2>5. PICK q : q = AddJob(x.jobs, t, min)
    OBVIOUS
  <2>6. q \in Seq(EntryType) /\ Len(q) <= STRATUM_JOBS_HISTORY /\ \A i \in DOMAIN q : Entry(c, q[i])
    BY <1>1, <1>2, <2>2, <2>4, <2>5, HistoryKept
  <2>7. PICK had \in SUBSET Nat : had = x.had \cup {t}
    BY <1>1, <2>2
  <2>8. PICK r : r = [x EXCEPT !.at = "serve", !.bl = 0, !.told = t, !.had = had, !.jobs = q]
    OBVIOUS
  <2>9. r \in MinerType /\ r.at = "serve" /\ r.addr = x.addr /\ r.bl = 0 /\ r.jobs = q /\ r.share = x.share
    BY <1>0, <2>2, <2>6, <2>7, <2>8 DEF MinerType, ConnType, LoggedIn
  <2>10. conn' = [conn EXCEPT ![c] = r] /\ x.at = "recipient"
    BY <1>0, <1>5, <2>1, <2>3, <2>5, <2>7, <2>8 DEF LoginRespond
  <2>11. \A i \in DOMAIN q : Entry(c, q[i])'
    BY <1>2, <2>6, EntryKept
  <2>12. MinerHolds(c, r)'
    BY <1>0, <2>6, <2>9, <2>10, <2>11 DEF MinerHolds, LoggedIn, Solving, Tried
  <2> QED BY <2>10, <2>12, MinerSet
<1> QED BY <1>4, <1>5

\* The message of a job is written.
LEMMA WriteTypes ==
  ASSUME Inv, Next, NEW c \in Conns, WriteJob(c)
  PROVE  ConnOK'
<1>0. PICK x \in MinerType : x = conn[c] /\ MinerHolds(c, x) /\ MinerHolds(c, x)'
  BY MinerBefore
<1>1. PICK t \in x.out :
        conn' = [conn EXCEPT ![c].out = @ \ {t}, ![c].had = @ \cup {t}, ![c].told = t]
  BY <1>0 DEF WriteJob
<1>2. PICK out, had : out = x.out \ {t} /\ had = x.had \cup {t}
  OBVIOUS
<1>3. PICK r : r = [x EXCEPT !.out = out, !.had = had, !.told = t]
  OBVIOUS
<1>4. conn' = [conn EXCEPT ![c] = r]
  BY <1>0, <1>1, <1>2, <1>3
<1>5. t \in Nat /\ out \in SUBSET Nat /\ had \in SUBSET Nat
  BY <1>0, <1>1, <1>2 DEF MinerType, ConnType
<1>6. /\ r \in MinerType /\ r.at = x.at /\ r.addr = x.addr /\ r.bl = x.bl /\ r.jobs = x.jobs
      /\ r.share = x.share
  BY <1>0, <1>3, <1>5 DEF MinerType, ConnType
<1>7. MinerHolds(c, r)'
  BY <1>0, <1>6 DEF MinerHolds
<1> QED BY <1>4, <1>7, MinerSet

\* The node looked at.
LEMMA NodeFacts ==
  ASSUME Inv
  PROVE  /\ node.diff \in PosLimb /\ node.maxTop \in Nat /\ top \in Nat /\ top <= node.maxTop
         /\ \A f \in Finders : \A pow \in node.hashes[f] : pow \in Number
<1>1. node \in NodeType /\ top \in 0 .. node.maxTop
  BY StratumAssumption DEF Inv, ChainOK
<1> QED BY <1>1 DEF NodeType, PosLimb

\* A solution is accepted for a job of the history: the block is copied as it
\* is now, which is another one only when others wrote to it.
LEMMA SubmitTypes ==
  ASSUME Inv, Next, NEW c \in Conns, Submit(c)
  PROVE  ConnOK'
<1> USE DEF chainVars, mergeVars, jobVars
<1>0. PICK x \in MinerType : x = conn[c] /\ MinerHolds(c, x) /\ MinerHolds(c, x)'
  BY MinerBefore
<1>1. HeapOK /\ HeapOK' /\ Grows /\ node' = node /\ heap' = heap /\ c \in Finders
  BY HeapStep DEF Inv, Submit, Finders
<1>2. PICK i \in DOMAIN conn[c].jobs : \E pow \in node.hashes[c], echo \in BOOLEAN :
       LET j  == conn[c].jobs[i]
           jb == [Content(heap[j.t]) EXCEPT !.extra = IF echo THEN j.blob.extra ELSE @]
       IN  /\ MeetsTarget(pow, GetTarget(From64(j.min)))
           /\ conn' = [conn EXCEPT
                ![c].at = "merge",
                ![c].share = [t |-> j.t, min |-> j.min, blob |-> jb, torn |-> FALSE,
                              pow |-> IF jb = j.blob THEN pow ELSE Largest,
                              offered |-> 0, success |-> FALSE]]
  BY DEF Submit
<1>3. PICK j : j = conn[c].jobs[i]
  OBVIOUS
<1>4. PICK pow \in node.hashes[c], echo \in BOOLEAN :
       LET jb == [Content(heap[j.t]) EXCEPT !.extra = IF echo THEN j.blob.extra ELSE @]
       IN  /\ MeetsTarget(pow, GetTarget(From64(j.min)))
           /\ conn' = [conn EXCEPT
                ![c].at = "merge",
                ![c].share = [t |-> j.t, min |-> j.min, blob |-> jb, torn |-> FALSE,
                              pow |-> IF jb = j.blob THEN pow ELSE Largest,
                              offered |-> 0, success |-> FALSE]]
  BY <1>2, <1>3
<1>5. PICK b : b = Content(heap[j.t])
  OBVIOUS
<1>6. PICK e : e = IF echo THEN j.blob.extra ELSE b.extra
  OBVIOUS
<1>7. PICK jb : jb = [b EXCEPT !.extra = e]
  OBVIOUS
<1>8. PICK p : p = IF jb = j.blob THEN pow ELSE Largest
  OBVIOUS
<1>9. PICK s : s = [t |-> j.t, min |-> j.min, blob |-> jb, torn |-> FALSE, pow |-> p,
                    offered |-> 0, success |-> FALSE]
  OBVIOUS
<1>10. PICK r : r = [x EXCEPT !.at = "merge", !.share = s]
  OBVIOUS
<1>11. MeetsTarget(pow, GetTarget(From64(j.min))) /\ conn' = [conn EXCEPT ![c] = r]
  BY <1>0, <1>4, <1>5, <1>6, <1>7, <1>8, <1>9, <1>10
<1>12. j \in EntryType /\ Entry(c, j) /\ j.t \in Nat /\ j.min \in PosLimb /\ j.blob \in BlobType
  <2>1. x.jobs \in Seq(EntryType) /\ Entry(c, j)
    BY <1>0, <1>2, <1>3 DEF MinerHolds, MinerType, ConnType
  <2>2. i \in DOMAIN x.jobs /\ j = x.jobs[i]
    BY <1>0, <1>3
  <2>3. \A q \in Seq(EntryType) : \A k \in DOMAIN q : q[k] \in EntryType
    OBVIOUS
  <2>4. j \in EntryType
    BY <2>1, <2>2, <2>3
  <2> QED BY <2>1, <2>4 DEF EntryType
<1>13. Given(c, j.t) /\ j.t \in DOMAIN heap /\ heap[j.t].touched \in Nat
  BY <1>1, <1>12, HeapTypes DEF Entry, Given
<1>14. b \in BlobType
  BY <1>1, <1>5, <1>13, ContentType
<1>15. jb \in BlobType /\ jb.height = b.height /\ jb.rcpt = b.rcpt /\ jb.merged = b.merged /\ e \in Nat
  <2>1. e \in Nat
    BY <1>6, <1>12, <1>14 DEF BlobType
  <2> QED BY <1>7, <1>14, <2>1 DEF BlobType
<1>16. b.height = heap[j.t].height /\ b.rcpt = heap[j.t].rcpt /\ b.merged = heap[j.t].merged
  BY <1>5 DEF Content
<1>17. heap[j.t].height <= node.maxTop
  <2>1. heap[j.t].height \in 1 .. top + 1
    BY <1>1, <1>13 DEF HeapOK
  <2>2. top < node.maxTop
    BY DEF Submit, MayFind
  <2> QED BY <2>1, <2>2, NodeFacts
<1>18. heap[j.t].rcpt \in Conns /\ (heap[j.t].touched = 1 => heap[j.t].rcpt = c)
  BY <1>1, <1>13 DEF HeapOK, Given
<1>19. heap[j.t].touched = 1 => p = pow
  <2>1. SUFFICES ASSUME heap[j.t].touched = 1 PROVE p = pow
    OBVIOUS
  <2>2. j.blob = b
    BY <1>5, <1>12, <2>1 DEF Entry
  <2>3. jb = b
    <3>1. e = b.extra
      BY <1>6, <2>2
    <3> QED BY <1>7, <1>14, <3>1 DEF BlobType
  <2> QED BY <1>8, <2>2, <2>3
<1>20. p \in Number
  BY <1>1, <1>8, NodeFacts, BaseType
<1>21. s \in ShareType /\ s.t = j.t /\ s.min = j.min /\ s.blob = jb /\ s.pow = p
  BY <1>9, <1>12, <1>15, <1>20, BaseType DEF ShareType, Limb
<1>22. Solution(c, s)
  <2>1. /\ s.blob.height <= node.maxTop /\ s.blob.merged = heap[s.t].merged /\ s.blob.rcpt \in Conns
        /\ heap[s.t].touched = 1 => s.blob.rcpt = c
    BY <1>15, <1>16, <1>17, <1>18, <1>21
  <2>2. heap[s.t].touched = 1 => MeetsTarget(s.pow, GetTarget(From64(s.min)))
    BY <1>11, <1>19, <1>21
  <2> QED BY <1>13, <1>21, <2>1, <2>2 DEF Solution
<1>23. Solution(c, s)'
  BY <1>1, <1>22, SolutionKept
<1>24. /\ r \in MinerType /\ r.at = "merge" /\ r.addr = x.addr /\ r.bl = x.bl /\ r.jobs = x.jobs /\ r.share = s
  BY <1>0, <1>10, <1>21 DEF MinerType, ConnType, LoggedIn, Solving
<1>25. x.at = "serve"
  BY <1>0 DEF Submit
<1>26. MinerHolds(c, r)'
  BY <1>0, <1>23, <1>24, <1>25 DEF MinerHolds, LoggedIn, Solving, Tried
<1> QED BY <1>11, <1>26, MinerSet

-----------------------------------------------------------------------------
(* blockFound                                                              *)

\* submitMergeMinedBlock marks the solution and leaves the rest of it alone.
LEMMA MergeChecked ==
  ASSUME NEW f \in Finders, NEW ats, NEW entries, conn[f] \in ConnType(ats, entries),
         {"work", "found"} \subseteq ats, conn[f].share \in ShareType, MergeCheck(f), merge.diff \in Limb
  PROVE  \E r \in ConnType(ats, entries), s \in ShareType :
           /\ conn' = [conn EXCEPT ![f] = r] /\ r.at \in {"work", "found"} /\ r.share = s
           /\ SameBut(r, conn[f])
           /\ s.t = conn[f].share.t /\ s.min = conn[f].share.min /\ s.blob = conn[f].share.blob
           /\ s.torn = conn[f].share.torn /\ s.pow = conn[f].share.pow
           /\ s.success <=> s.offered # 0 /\ ValidPowHash(s.pow, From64(s.offered))
<1>1. PICK x \in ConnType(ats, entries) : x = conn[f]
  OBVIOUS
<1>2. PICK y \in ShareType : y = x.share
  BY <1>1
<1>3. PICK offered \in Limb : offered = IF merge.listed THEN merge.diff ELSE 0
  BY BaseType DEF Limb
<1>4. PICK hit \in BOOLEAN : hit <=> offered # 0 /\ ValidPowHash(y.pow, From64(offered))
  <2>1. (offered # 0 /\ ValidPowHash(y.pow, From64(offered))) \in BOOLEAN
    OBVIOUS
  <2> QED BY <2>1
<1>5. PICK at \in {"work", "found"} : at = IF hit THEN "work" ELSE "found"
  OBVIOUS
<1>6. PICK s : s = [y EXCEPT !.offered = offered, !.success = hit]
  OBVIOUS
<1>7. PICK r : r = [x EXCEPT !.at = at, !.share = s]
  OBVIOUS
<1>8. /\ s \in ShareType /\ s.t = y.t /\ s.min = y.min /\ s.blob = y.blob /\ s.torn = y.torn
      /\ s.pow = y.pow /\ s.offered = offered /\ s.success = hit
  BY <1>6 DEF ShareType
<1>9. r \in ConnType(ats, entries) /\ r.at = at /\ r.share = s /\ SameBut(r, x)
  BY <1>7, <1>8 DEF ConnType, SameBut
<1>10. conn' = [conn EXCEPT ![f] = r]
  <2>1. hit = (offered # 0 /\ ValidPowHash(y.pow, From64(offered)))
    BY <1>4
  <2> QED BY <1>1, <1>2, <1>3, <1>5, <1>6, <1>7, <2>1, ZenonT(30) DEF MergeCheck
<1> QED BY <1>1, <1>2, <1>3, <1>4, <1>8, <1>9, <1>10

\* A miner is answered.
LEMMA MinerAnswered ==
  ASSUME NEW c \in Conns, conn[c] \in MinerType, conn' = Answered(c)
  PROVE  \E r \in MinerType : /\ conn' = [conn EXCEPT ![c] = r] /\ r.at = "serve"
                              /\ SameBut(r, conn[c])
<1>0. c # Solo
  BY StratumAssumption
<1>1. PICK x \in MinerType : x = conn[c]
  OBVIOUS
<1>2. PICK r : r = [x EXCEPT !.at = "serve", !.share = None, !.jobs = x.jobs]
  OBVIOUS
<1>3. r \in MinerType /\ r.at = "serve" /\ SameBut(r, x)
  BY <1>1, <1>2 DEF MinerType, ConnType, LoggedIn, SameBut
<1>4. conn' = [conn EXCEPT ![c] = r]
  BY <1>0, <1>1, <1>2 DEF Answered
<1> QED BY <1>1, <1>3, <1>4

\* A solution of a miner on its way to the chains.
LEMMA MinerFinds ==
  ASSUME Inv, Next, NEW c \in Conns, FinderStep(c)
  PROVE  ConnOK'
<1> USE DEF chainVars, mergeVars, jobVars
<1>0. PICK x \in MinerType : x = conn[c] /\ MinerHolds(c, x) /\ MinerHolds(c, x)'
  BY MinerBefore
<1>1. c \in Finders /\ conn[c] \in ConnType({"off", "login", "address", "gone"} \cup LoggedIn, EntryType)
  BY <1>0 DEF Finders, MinerType
<1>2. ASSUME conn' = Answered(c), x.at \in Solving PROVE ConnOK'
  <2>1. PICK r \in MinerType : conn' = [conn EXCEPT ![c] = r] /\ r.at = "serve" /\ SameBut(r, x)
    BY <1>0, <1>2, MinerAnswered
  <2>2. MinerHolds(c, r)'
    BY <1>0, <1>2, <2>1 DEF MinerHolds, SameBut, LoggedIn, Solving, Tried
  <2> QED BY <2>1, <2>2, MinerSet
<1>3. ASSUME NEW at \in Tried, Move(c, at), x.at \in Tried, at = "refused" => Refused(x.share)'
      PROVE  ConnOK'
  <2>1. PICK r \in MinerType : conn' = [conn EXCEPT ![c] = r] /\ r.at = at /\ r.share = x.share /\ SameBut(r, x)
    BY <1>0, <1>1, <1>3, Moved DEF MinerType, LoggedIn, Solving
  <2>2. MinerHolds(c, r)'
    BY <1>0, <1>3, <2>1 DEF MinerHolds, SameBut, LoggedIn, Solving, Tried
  <2> QED BY <2>1, <2>2, MinerSet
<1>4. CASE MergeCheck(c)
  <2>0. PICK y : y = x.share
    OBVIOUS
  <2>1. x.at = "merge" /\ Solution(c, y) /\ Solution(c, y)' /\ y \in ShareType
    BY <1>0, <1>4, <2>0 DEF MergeCheck, MinerHolds, Solving, Solution
  <2>2. PICK r \in MinerType, s \in ShareType :
           /\ conn' = [conn EXCEPT ![c] = r] /\ r.at \in {"work", "found"} /\ r.share = s
           /\ SameBut(r, x)
           /\ s.t = y.t /\ s.min = y.min /\ s.blob = y.blob /\ s.torn = y.torn /\ s.pow = y.pow
           /\ s.success <=> s.offered # 0 /\ ValidPowHash(s.pow, From64(s.offered))
    <3>1. {"work", "found"} \subseteq {"off", "login", "address", "gone"} \cup LoggedIn
      BY DEF LoggedIn, Solving, Tried
    <3>2. merge.diff \in Limb
      BY DEF Inv, MergeOK, MergeType
    <3> QED BY <1>0, <1>1, <1>4, <2>0, <2>1, <3>1, <3>2, MergeChecked DEF MinerType
  <2>3. Solution(c, s)'
    BY <2>1, <2>2 DEF Solution
  <2>4. Offered(s)'
    <3>1. SUFFICES ASSUME s.offered # 0, s.offered <= s.min, heap'[s.t].touched = 1 PROVE s.success
      BY DEF Offered
    <3>2. MeetsTarget(s.pow, GetTarget(From64(s.min)))
      BY <2>3, <3>1 DEF Solution
    <3>3. s.pow \in Number /\ s.min \in PosLimb /\ s.offered \in PosLimb
      BY <2>2, <3>1 DEF ShareType, PosLimb
    <3>4. ValidPowHash(s.pow, From64(s.offered))
      BY <3>1, <3>2, <3>3, LowerSolves
    <3> QED BY <2>2, <3>1, <3>4
  <2>5. MinerHolds(c, r)'
    BY <1>0, <2>1, <2>2, <2>3, <2>4 DEF MinerHolds, SameBut, LoggedIn, Solving, Tried
  <2> QED BY <2>2, <2>5, MinerSet
<1>5. CASE SendWork(c) \/ Await(c)
  <2>1. PICK at \in {"await", "found"} : Move(c, at)
    BY <1>5 DEF SendWork, Await
  <2>2. x.at \in Tried
    BY <1>0, <1>5 DEF SendWork, Await, Tried
  <2> QED BY <1>3, <2>1, <2>2 DEF Tried
<1>6. CASE Found(c)
  <2>1. x.at = "found"
    BY <1>0, <1>6 DEF Found
  <2>2. CASE Move(c, "add") \/ conn' = Answered(c)
    BY <1>2, <1>3, <2>1, <2>2 DEF Tried, Solving
  <2>3. CASE ~ValidPowHash(x.share.pow, From64(node.diff)) /\ ~x.share.success /\ Move(c, "refused")
    <3>1. Refused(x.share)'
      <4>1. node' = node
        BY HeapStep
      <4> QED BY <2>3, <4>1 DEF Refused
    <3> QED BY <1>3, <2>1, <2>3, <3>1 DEF Tried
  <2> QED BY <1>0, <1>6, <2>2, <2>3 DEF Found
<1>7. CASE Refuse(c) \/ Commit(c)
  BY <1>0, <1>2, <1>7 DEF Refuse, Commit, Solving, Tried
<1>8. CASE AddFound(c)
  <2>1. x.at = "add" /\ (conn' = Answered(c) \/ Move(c, "commit"))
    BY <1>0, <1>8 DEF AddFound
  <2> QED BY <1>2, <1>3, <2>1 DEF Tried, Solving
<1> QED BY <1>4, <1>5, <1>6, <1>7, <1>8 DEF FinderStep

-----------------------------------------------------------------------------
(* The integrated miner                                                    *)

\* The integrated miner before a step, seen from after it.
LEMMA SoloBefore ==
  ASSUME Inv, Next
  PROVE  \E x \in SoloType : x = conn[Solo] /\ SoloHolds(x) /\ SoloHolds(x)'
<1>1. PICK x : x = conn[Solo]
  OBVIOUS
<1>2. SoloHolds(x)
  BY <1>1 DEF Inv, ConnOK
<1>3. SoloHolds(x)'
  BY <1>2, HeapStep, SoloKept
<1>4. x \in SoloType
  BY <1>2 DEF SoloHolds
<1> QED BY <1>1, <1>2, <1>3, <1>4

\* A solution of the integrated miner is done with.
LEMMA SoloAnswered ==
  ASSUME conn[Solo] \in SoloType, conn' = Answered(Solo)
  PROVE  \E r \in SoloType : conn' = [conn EXCEPT ![Solo] = r] /\ r.at = "idle"
<1>1. PICK x \in SoloType : x = conn[Solo]
  OBVIOUS
<1>2. PICK r : r = [x EXCEPT !.at = "idle", !.share = None, !.jobs = <<>>]
  OBVIOUS
<1>3. r \in SoloType /\ r.at = "idle"
  BY <1>1, <1>2, EmptyChannel DEF SoloType, ConnType
<1>4. conn' = [conn EXCEPT ![Solo] = r]
  BY <1>1, <1>2 DEF Answered
<1> QED BY <1>3, <1>4

\* The integrated miner's own steps.
LEMMA SoloTypes ==
  ASSUME Inv, Next, StartMining \/ MineTemplate \/ Restart \/ Solve
  PROVE  ConnOK'
<1> USE DEF chainVars, mergeVars, jobVars
<1>0. PICK x \in SoloType : x = conn[Solo] /\ SoloHolds(x) /\ SoloHolds(x)'
  BY SoloBefore
<1>1. Solo \in Finders /\ conn[Solo] \in ConnType({"off", "idle", "mine"} \cup Solving, TemplateType({Solo}))
  BY <1>0 DEF Finders, SoloType
<1>2. CASE StartMining \/ Restart
  <2>1. Move(Solo, "idle")
    BY <1>2 DEF StartMining, Restart
  <2>2. PICK r \in SoloType : conn' = [conn EXCEPT ![Solo] = r] /\ r.at = "idle"
    BY <1>1, <2>1, Moved DEF SoloType
  <2>3. SoloHolds(r)'
    BY <2>2 DEF SoloHolds, Solving, Tried
  <2> QED BY <2>2, <2>3, SoloSet
<1>3. CASE MineTemplate
  <2>1. PICK b : b = Template(Solo)
    OBVIOUS
  <2>2. b \in TemplateType({Solo}) /\ b.height = top + 1
    BY <2>1, TemplateMade
  <2>3. PICK q : q = <<b>>
    OBVIOUS
  <2>4. q \in Seq(TemplateType({Solo})) /\ Len(q) = 1 /\ q[1] = b
    BY <2>2, <2>3
  <2>5. PICK a \in BOOLEAN : a = Adding
    <3>1. Adding \in BOOLEAN
      BY DEF Adding
    <3> QED BY <3>1
  <2>6. PICK r : r = [x EXCEPT !.at = "mine", !.addr = a, !.jobs = q]
    OBVIOUS
  <2>7. r \in SoloType /\ r.at = "mine" /\ r.jobs = q
    BY <1>0, <2>4, <2>6 DEF SoloType, ConnType
  <2>8. conn' = [conn EXCEPT ![Solo] = r] /\ top' = top
    BY <1>0, <1>3, <2>1, <2>3, <2>5, <2>6 DEF MineTemplate
  <2>9. SoloHolds(r)'
    BY <2>2, <2>4, <2>7, <2>8, NodeFacts DEF SoloHolds, Solving, Tried
  <2> QED BY <2>8, <2>9, SoloSet
<1>4. CASE Solve
  <2>1. PICK b : b = conn[Solo].jobs[1]
    OBVIOUS
  <2>2. b \in TemplateType({Solo}) /\ b.height <= top + 1
    <3>1. x.at = "mine" /\ x.jobs \in Seq(TemplateType({Solo}))
      BY <1>0, <1>4 DEF Solve, SoloType, ConnType
    <3> QED BY <1>0, <2>1, <3>1 DEF SoloHolds
  <2>3. PICK y : y = Content(b)
    OBVIOUS
  <2>4. y \in BlobType /\ y.rcpt = Solo /\ y.height = b.height /\ b.min \in PosLimb
    BY <2>2, <2>3 DEF Content, BlobType, TemplateType, Finders
  <2>5. PICK pow \in node.hashes[Solo], torn \in BOOLEAN :
           conn' = [conn EXCEPT
             ![Solo].at = "merge",
             ![Solo].share = [t |-> 0, min |-> b.min, blob |-> y, torn |-> torn,
                              pow |-> pow, offered |-> 0, success |-> FALSE]]
    BY <1>4, <2>1, <2>3 DEF Solve
  <2>6. PICK s : s = [t |-> 0, min |-> b.min, blob |-> y, torn |-> torn,
                      pow |-> pow, offered |-> 0, success |-> FALSE]
    OBVIOUS
  <2>7. PICK r : r = [x EXCEPT !.at = "merge", !.share = s]
    OBVIOUS
  <2>8. pow \in Number
    BY <1>1, NodeFacts
  <2>9. s \in ShareType /\ s.blob = y
    BY <2>4, <2>6, <2>8, BaseType DEF ShareType, Limb
  <2>10. r \in SoloType /\ r.at = "merge" /\ r.share = s
    BY <1>0, <2>7, <2>9 DEF SoloType, ConnType, Solving
  <2>11. conn' = [conn EXCEPT ![Solo] = r] /\ node' = node
    BY <1>0, <1>4, <2>5, <2>6, <2>7 DEF Solve
  <2>12. y.height <= node.maxTop
    <3>1. b.height \in Nat
      BY <2>2 DEF TemplateType
    <3>2. top < node.maxTop
      BY <1>4 DEF Solve, MayFind
    <3> QED BY <2>2, <2>4, <3>1, <3>2, NodeFacts
  <2>13. SoloHolds(r)'
    BY <2>4, <2>9, <2>10, <2>11, <2>12 DEF SoloHolds
  <2> QED BY <2>11, <2>13, SoloSet
<1> QED BY <1>2, <1>3, <1>4

\* A solution of the integrated miner on its way to the chains.
LEMMA SoloFinds ==
  ASSUME Inv, Next, FinderStep(Solo)
  PROVE  ConnOK'
<1> USE DEF chainVars, mergeVars, jobVars
<1>0. PICK x \in SoloType : x = conn[Solo] /\ SoloHolds(x) /\ SoloHolds(x)'
  BY SoloBefore
<1>1. Solo \in Finders /\ conn[Solo] \in ConnType({"off", "idle", "mine"} \cup Solving, TemplateType({Solo}))
  BY <1>0 DEF Finders, SoloType
<1>2. ASSUME conn' = Answered(Solo) PROVE ConnOK'
  <2>1. PICK r \in SoloType : conn' = [conn EXCEPT ![Solo] = r] /\ r.at = "idle"
    BY <1>0, <1>2, SoloAnswered
  <2>2. SoloHolds(r)'
    BY <2>1 DEF SoloHolds, Solving, Tried
  <2> QED BY <2>1, <2>2, SoloSet
<1>3. ASSUME NEW at \in Tried, Move(Solo, at), x.at \in Solving PROVE ConnOK'
  <2>1. PICK r \in SoloType : conn' = [conn EXCEPT ![Solo] = r] /\ r.at = at /\ r.share = x.share
    BY <1>0, <1>1, <1>3, Moved DEF SoloType, Solving
  <2>2. SoloHolds(r)'
    BY <1>0, <1>3, <2>1 DEF SoloHolds, Solving, Tried
  <2> QED BY <2>1, <2>2, SoloSet
<1>4. CASE MergeCheck(Solo)
  <2>0. PICK y : y = x.share
    OBVIOUS
  <2>1. x.at = "merge" /\ y \in ShareType /\ y.blob.rcpt = Solo /\ y.blob.height <= node'.maxTop
    BY <1>0, <1>4, <2>0 DEF MergeCheck, SoloHolds, Solving
  <2>2. PICK r \in SoloType, s \in ShareType :
           /\ conn' = [conn EXCEPT ![Solo] = r] /\ r.at \in {"work", "found"} /\ r.share = s
           /\ s.blob = y.blob
    <3>1. {"work", "found"} \subseteq {"off", "idle", "mine"} \cup Solving
      BY DEF Solving, Tried
    <3>2. merge.diff \in Limb
      BY DEF Inv, MergeOK, MergeType
    <3> QED BY <1>0, <1>1, <1>4, <2>0, <2>1, <3>1, <3>2, MergeChecked DEF SoloType
  <2>3. SoloHolds(r)'
    BY <2>1, <2>2 DEF SoloHolds
  <2> QED BY <2>2, <2>3, SoloSet
<1>5. CASE SendWork(Solo) \/ Await(Solo) \/ Found(Solo) \/ AddFound(Solo)
  <2>1. \/ conn' = Answered(Solo)
        \/ x.at \in Solving /\ \E at \in Tried : Move(Solo, at)
    BY <1>0, <1>5 DEF SendWork, Await, Found, AddFound, Tried, Solving
  <2> QED BY <1>2, <1>3, <2>1
<1>6. CASE Refuse(Solo) \/ Commit(Solo)
  BY <1>2, <1>6 DEF Refuse, Commit
<1> QED BY <1>4, <1>5, <1>6 DEF FinderStep

-----------------------------------------------------------------------------

\* The steps that do not concern a handler.
LEMMA ConnFrame ==
  ASSUME Next
  PROVE  \/ conn' = conn
         \/ \E c \in Conns : \/ Connect(c) \/ LoginAddress(c) \/ Kick(c) \/ LoginRecipient(c)
                             \/ LoginRespond(c) \/ Submit(c) \/ WriteJob(c) \/ FinderStep(c)
                             \/ \E j \in DOMAIN job : GiveBlob(j, c)
         \/ StartMining \/ MineTemplate \/ Restart \/ Solve \/ FinderStep(Solo)
<1> USE DEF chainVars, mergeVars, jobVars
<1>1. ASSUME NEW j \in DOMAIN job, JobStep(j), ~ \E c \in Conns : GiveBlob(j, c)
      PROVE  conn' = conn
  BY <1>1 DEF JobStep, JobLock, JobUpdate, JobTemplate, SendJob, GiveWrite
<1>2. CASE PeerBlock \/ PeerCommit
  BY <1>2 DEF PeerBlock, PeerCommit
<1>3. CASE MergeStep \/ BadJob \/ ScanRead \/ ScanPut \/ ScanEnds \/ SlaveJob \/ SlaveAnswers
  BY <1>3 DEF MergeStep, AddStratum, Start, ReceiveJob, StoreJob, NotifyMiners, ChannelClosed, Remove,
     BadJob, ScanRead, ScanPut, ScanEnds, SlaveJob, SlaveAnswers
<1> QED BY <1>1, <1>2, <1>3 DEF Next, Finders

\* All handlers stay well formed.
LEMMA ConnTypes ==
  ASSUME Inv, Next
  PROVE  ConnOK'
BY ConnFrame, ConnSame, LoginTypes, HistoryTypes, WriteTypes, SubmitTypes, MinerFinds, SoloTypes, SoloFinds

-----------------------------------------------------------------------------
(* What a step shows of a handler                                          *)

\* The steps of one handler, and what SendJob does for its connection.
OwnStep(f) ==
  \/ /\ f \in Conns
     /\ \/ Connect(f) \/ LoginAddress(f) \/ Kick(f) \/ LoginRecipient(f) \/ LoginRespond(f) \/ Submit(f)
        \/ WriteJob(f) \/ \E j \in DOMAIN job : GiveBlob(j, f)
  \/ f = Solo /\ (StartMining \/ MineTemplate \/ Restart \/ Solve)
  \/ FinderStep(f)

\* Nobody but its own handler, and SendJob, changes a connection.
LEMMA OthersSame ==
  ASSUME Inv, Next, NEW f \in Finders
  PROVE  conn'[f] = conn[f] \/ OwnStep(f)
<1> USE DEF chainVars, mergeVars, jobVars
<1>0. DOMAIN conn = Finders /\ Conns \subseteq Finders /\ Solo \in Finders
  BY DEF Inv, ConnOK, Finders
<1>1. ASSUME NEW c \in Conns, c # f,
             \/ Connect(c) \/ LoginAddress(c) \/ Kick(c) \/ LoginRecipient(c)
             \/ LoginRespond(c) \/ Submit(c) \/ WriteJob(c) \/ \E j \in DOMAIN job : GiveBlob(j, c)
      PROVE  conn'[f] = conn[f]
  <2>1. CASE Connect(c) \/ LoginAddress(c) \/ Kick(c) \/ LoginRecipient(c) \/ LoginRespond(c)
    BY <1>0, <1>1, <2>1 DEF Connect, LoginAddress, Kick, LoginRecipient, LoginRespond, Move
  <2>2. CASE Submit(c)
    <3>1. \E at, share : conn' = [conn EXCEPT ![c].at = at, ![c].share = share]
      BY <2>2, ZenonT(30) DEF Submit
    <3> QED BY <1>0, <1>1, <3>1
  <2>3. CASE WriteJob(c) \/ \E j \in DOMAIN job : GiveBlob(j, c)
    BY <1>0, <1>1, <2>3 DEF GiveBlob, WriteJob
  <2> QED BY <1>1, <2>1, <2>2, <2>3
<1>2. ASSUME f # Solo, StartMining \/ MineTemplate \/ Restart \/ Solve
      PROVE  conn'[f] = conn[f]
  BY <1>0, <1>2 DEF StartMining, MineTemplate, Restart, Solve, Move
<1>3. ASSUME NEW g \in Finders, g # f, FinderStep(g)
      PROVE  conn'[f] = conn[f]
  <2>1. CASE MergeCheck(g)
    BY <1>0, <1>3, <2>1 DEF MergeCheck
  <2>2. CASE SendWork(g) \/ Await(g)
    BY <1>0, <1>3, <2>2 DEF SendWork, Await, Move
  <2>3. CASE Found(g) \/ Refuse(g) \/ AddFound(g) \/ Commit(g)
    <3>1. conn' = Answered(g) \/ \E at : Move(g, at)
      BY <2>3 DEF Found, Refuse, AddFound, Commit
    <3> QED BY <1>0, <1>3, <3>1 DEF Answered, Move
  <2> QED BY <1>3, <2>1, <2>2, <2>3 DEF FinderStep
<1> QED BY <1>1, <1>2, <1>3, ConnFrame DEF OwnStep, Finders

\* A handler is a record, be it of a miner or of the integrated one.
LEMMA HandlerType ==
  ASSUME Inv, NEW f \in Finders
  PROVE  /\ DOMAIN conn = Finders
         /\ \E ats, entries : conn[f] \in ConnType(ats, entries)
<1>1. CASE f \in Conns
  BY <1>1 DEF Inv, ConnOK, MinerHolds, MinerType
<1>2. CASE f = Solo
  BY <1>2 DEF Inv, ConnOK, SoloHolds, SoloType
<1>3. DOMAIN conn = Finders
  BY DEF Inv, ConnOK
<1> QED BY <1>1, <1>2, <1>3 DEF Finders

\* What was sent or made for a miner in state x still is in state y.
Knows(y, x) == x.had \cup x.out \subseteq y.had \cup y.out

\* Handler f went from state x to state y, and took no part in what matters
\* to the locks and to the jobs.
Quiet(f, x, y) ==
  /\ x.at \notin {"recipient", "commit"} /\ y.at \notin {"recipient", "commit", "mine"}
  /\ Knows(y, x)
  /\ f \in Conns /\ y.at \in LoggedIn => x.at \in LoggedIn

View(f, x, y) ==
  \/ y = x
  \/ Quiet(f, x, y)
  \/ /\ AddFound(f) /\ db' = f /\ x.at = "add" /\ y.at = "commit" /\ Knows(y, x)
     /\ y.share = x.share /\ ~x.share.torn
  \/ Commit(f) /\ x.at = "commit" /\ y.at \in {"serve", "idle"} /\ Knows(y, x)
  \/ f \in Conns /\ LoginRecipient(f) /\ x.at = "address" /\ y.at = "recipient" /\ y.bl = last
  \/ f \in Conns /\ LoginRespond(f) /\ x.at = "recipient" /\ y.at = "serve" /\ Knows(y, x) /\ x.bl \in y.had
  \/ /\ f \in Conns /\ y.at = x.at /\ y.bl = x.bl /\ y.share = x.share /\ Knows(y, x)
     /\ WriteJob(f) \/ \E j \in DOMAIN job : GiveBlob(j, f)
  \/ f = Solo /\ MineTemplate /\ x.at = "idle" /\ y.at = "mine" /\ y.addr = Adding /\ y.jobs = <<Template(Solo)>>

\* The message for a miner that a goroutine of SendJob has served is made.
LEMMA BlobTold ==
  ASSUME Inv, NEW c \in Conns, NEW k \in DOMAIN job, GiveBlob(k, c)
  PROVE  /\ conn'[c].at = conn[c].at /\ conn'[c].bl = conn[c].bl /\ conn'[c].share = conn[c].share
         /\ Knows(conn'[c], conn[c]) /\ job[k].tpl \in conn'[c].out
<1>0. PICK ats, entries : DOMAIN conn = Finders /\ conn[c] \in ConnType(ats, entries) /\ c \in Finders
  BY HandlerType DEF Finders
<1>1. PICK x \in ConnType(ats, entries) : x = conn[c]
  BY <1>0
<1>2. PICK out, jobs : /\ out = x.out \cup {job[k].tpl}
                       /\ jobs = AddJob(x.jobs, job[k].tpl, heap[job[k].tpl].min)
  OBVIOUS
<1>3. conn'[c] = [x EXCEPT !.jobs = jobs, !.out = out]
  BY <1>0, <1>1, <1>2 DEF GiveBlob
<1>4. /\ conn'[c].at = x.at /\ conn'[c].bl = x.bl /\ conn'[c].share = x.share
      /\ conn'[c].had = x.had /\ conn'[c].out = out
  BY <1>1, <1>3 DEF ConnType
<1> QED BY <1>1, <1>2, <1>4 DEF Knows

\* Every step, seen from one handler: the cases LockStep, TellStep and WakeStep
\* distinguish.
LEMMA HandlerView ==
  ASSUME Inv, Next, NEW f \in Finders
  PROVE  View(f, conn[f], conn'[f])
<1> USE DEF chainVars, mergeVars, jobVars
<1>0. PICK ats, entries : DOMAIN conn = Finders /\ conn[f] \in ConnType(ats, entries)
  BY HandlerType
<1>1. PICK x \in ConnType(ats, entries) : x = conn[f]
  BY <1>0
<1>2. ASSUME NEW at, Move(f, at), x.at \notin {"recipient", "commit"}, at \notin {"recipient", "commit", "mine"},
             at \in LoggedIn => x.at \in LoggedIn
      PROVE  View(f, x, conn'[f])
  <2>1. conn'[f] = [x EXCEPT !.at = at]
    BY <1>0, <1>1, <1>2 DEF Move
  <2>2. conn'[f].at = at /\ Knows(conn'[f], x)
    BY <1>1, <2>1 DEF ConnType, Knows
  <2> QED BY <1>2, <2>2 DEF View, Quiet
<1>3. ASSUME conn' = Answered(f)
      PROVE  conn'[f].at \in {"serve", "idle"} /\ Knows(conn'[f], x)
  <2>1. PICK at, jobs : at = (IF f = Solo THEN "idle" ELSE "serve") /\ jobs = (IF f = Solo THEN <<>> ELSE x.jobs)
    OBVIOUS
  <2>2. conn'[f] = [x EXCEPT !.at = at, !.share = None, !.jobs = jobs]
    BY <1>0, <1>1, <1>3, <2>1 DEF Answered
  <2> QED BY <1>1, <2>1, <2>2 DEF ConnType, Knows
<1>4. ASSUME conn' = Answered(f), x.at \in {"found", "refused", "add"} PROVE View(f, x, conn'[f])
  BY <1>3, <1>4 DEF View, Quiet, LoggedIn, Solving, Tried
<1>5. ASSUME f \in Conns, Connect(f) \/ Kick(f) PROVE View(f, x, conn'[f])
  <2>1. x.at \notin {"recipient", "commit"} /\ \E at \in {"login", "gone"} : Move(f, at)
    BY <1>1, <1>5 DEF Connect, Kick
  <2> QED BY <1>2, <2>1 DEF LoggedIn, Solving, Tried
<1>6. ASSUME f \in Conns, LoginAddress(f) PROVE View(f, x, conn'[f])
  <2>1. conn'[f] = [x EXCEPT !.addr = TRUE, !.at = "address"] /\ x.at = "login"
    BY <1>0, <1>1, <1>6 DEF LoginAddress
  <2>2. conn'[f].at = "address" /\ Knows(conn'[f], x)
    BY <1>1, <2>1 DEF ConnType, Knows
  <2> QED BY <2>1, <2>2 DEF View, Quiet, LoggedIn, Solving, Tried
<1>7. ASSUME f \in Conns, LoginRecipient(f) PROVE View(f, x, conn'[f])
  <2>1. conn'[f] = [x EXCEPT !.at = "recipient", !.bl = last] /\ x.at = "address"
    BY <1>0, <1>1, <1>7 DEF LoginRecipient
  <2>2. conn'[f].at = "recipient" /\ conn'[f].bl = last
    BY <1>1, <2>1 DEF ConnType, Knows
  <2> QED BY <1>7, <2>1, <2>2 DEF View
<1>8. ASSUME f \in Conns, LoginRespond(f) PROVE View(f, x, conn'[f])
  <2>1. PICK had, jobs : had = x.had \cup {x.bl} /\ jobs = AddJob(x.jobs, x.bl, heap[last].min)
    OBVIOUS
  <2>2. conn'[f] = [x EXCEPT !.at = "serve", !.bl = 0, !.told = x.bl, !.had = had, !.jobs = jobs] /\ x.at = "recipient"
    BY <1>0, <1>1, <1>8, <2>1 DEF LoginRespond
  <2>3. conn'[f].at = "serve" /\ Knows(conn'[f], x) /\ x.bl \in conn'[f].had
    BY <1>1, <2>1, <2>2 DEF ConnType, Knows
  <2> QED BY <1>8, <2>1, <2>2, <2>3 DEF View
<1>9. ASSUME f \in Conns, Submit(f) PROVE View(f, x, conn'[f])
  <2>1. \E share : conn' = [conn EXCEPT ![f].at = "merge", ![f].share = share]
    BY <1>9 DEF Submit
  <2>2. PICK share : conn'[f] = [x EXCEPT !.at = "merge", !.share = share]
    BY <1>0, <1>1, <2>1
  <2>3. conn'[f].at = "merge" /\ Knows(conn'[f], x) /\ x.at = "serve"
    BY <1>1, <1>9, <2>2 DEF ConnType, Submit, Knows
  <2> QED BY <2>3 DEF View, Quiet, LoggedIn, Solving, Tried
<1>10. ASSUME f \in Conns, NEW j \in DOMAIN job, GiveBlob(j, f) PROVE View(f, x, conn'[f])
  BY <1>1, <1>10, BlobTold DEF View
<1>17. ASSUME f \in Conns, WriteJob(f) PROVE View(f, x, conn'[f])
  <2>1. PICK t \in x.out :
          conn' = [conn EXCEPT ![f].out = @ \ {t}, ![f].had = @ \cup {t}, ![f].told = t]
    BY <1>1, <1>17 DEF WriteJob
  <2>2. PICK out, had : out = x.out \ {t} /\ had = x.had \cup {t}
    OBVIOUS
  <2>3. conn'[f] = [x EXCEPT !.out = out, !.had = had, !.told = t]
    BY <1>0, <1>1, <2>1, <2>2
  <2>4. /\ conn'[f].at = x.at /\ conn'[f].bl = x.bl /\ conn'[f].share = x.share
        /\ conn'[f].out = out /\ conn'[f].had = had
    BY <1>1, <2>3 DEF ConnType
  <2>5. Knows(conn'[f], x)
    BY <2>2, <2>4 DEF Knows
  <2> QED BY <1>17, <2>4, <2>5 DEF View
<1>11. ASSUME f = Solo, StartMining \/ Restart PROVE View(f, x, conn'[f])
  BY <1>1, <1>2, <1>11 DEF StartMining, Restart, LoggedIn, Solving, Tried
<1>12. ASSUME f = Solo, MineTemplate PROVE View(f, x, conn'[f])
  <2>1. PICK a, jobs : a = Adding /\ jobs = <<Template(Solo)>>
    OBVIOUS
  <2>2. conn'[f] = [x EXCEPT !.at = "mine", !.addr = a, !.jobs = jobs] /\ x.at = "idle"
    BY <1>0, <1>1, <1>12, <2>1 DEF MineTemplate
  <2>3. conn'[f].at = "mine" /\ conn'[f].addr = a /\ conn'[f].jobs = jobs
    BY <1>1, <2>2 DEF ConnType, Knows
  <2> QED BY <1>12, <2>1, <2>2, <2>3 DEF View
<1>13. ASSUME f = Solo, Solve PROVE View(f, x, conn'[f])
  <2>1. \E share : conn' = [conn EXCEPT ![f].at = "merge", ![f].share = share]
    BY <1>13 DEF Solve
  <2>2. PICK share : conn'[f] = [x EXCEPT !.at = "merge", !.share = share]
    BY <1>0, <1>1, <2>1
  <2>3. conn'[f].at = "merge" /\ Knows(conn'[f], x) /\ x.at = "mine"
    BY <1>1, <1>13, <2>2 DEF ConnType, Solve, Knows
  <2>4. f \notin Conns
    BY <1>13, StratumAssumption
  <2> QED BY <2>3, <2>4 DEF View, Quiet, LoggedIn, Solving, Tried
<1>14. ASSUME FinderStep(f) PROVE View(f, x, conn'[f])
  <2>1. CASE MergeCheck(f)
    <3>0. PICK offered, hit : /\ offered = (IF merge.listed THEN merge.diff ELSE 0)
                              /\ hit = (offered # 0 /\ ValidPowHash(x.share.pow, From64(offered)))
      OBVIOUS
    <3>1. PICK at, share : /\ at \in {"work", "found"} /\ at = (IF hit THEN "work" ELSE "found")
                           /\ share = [x.share EXCEPT !.offered = offered, !.success = hit]
      OBVIOUS
    <3>2. conn'[f] = [x EXCEPT !.at = at, !.share = share]
      <4>1. conn' = [conn EXCEPT ![f].at = at, ![f].share.offered = offered, ![f].share.success = hit]
        BY <1>1, <2>1, <3>0, <3>1 DEF MergeCheck
      <4> QED BY <1>0, <1>1, <3>1, <4>1
    <3>3. conn'[f].at = at /\ Knows(conn'[f], x)
      BY <1>1, <3>2 DEF ConnType, Knows
    <3>4. x.at = "merge"
      BY <1>1, <2>1 DEF MergeCheck
    <3> QED BY <3>1, <3>3, <3>4 DEF View, Quiet, LoggedIn, Solving, Tried
  <2>2. CASE SendWork(f) \/ Await(f)
    <3>1. x.at \in {"work", "await"} /\ \E at \in {"await", "found"} : Move(f, at)
      BY <1>1, <2>2 DEF SendWork, Await
    <3> QED BY <1>2, <3>1 DEF LoggedIn, Solving, Tried
  <2>3. CASE Found(f) \/ Refuse(f)
    <3>1. /\ x.at \in {"found", "refused"}
          /\ conn' = Answered(f) \/ \E at \in {"add", "refused"} : Move(f, at)
      BY <1>1, <2>3 DEF Found, Refuse
    <3> QED BY <1>2, <1>4, <3>1 DEF LoggedIn, Solving, Tried
  <2>4. CASE AddFound(f)
    <3>1. x.at = "add"
      BY <1>1, <2>4 DEF AddFound
    <3>2. \/ conn' = Answered(f)
          \/ Move(f, "commit") /\ db' = f /\ ~x.share.torn
      BY <1>1, <2>4 DEF AddFound
    <3>3. CASE Move(f, "commit") /\ db' = f /\ ~x.share.torn
      <4>1. conn'[f] = [x EXCEPT !.at = "commit"]
        BY <1>0, <1>1, <3>3 DEF Move
      <4>2. conn'[f].at = "commit" /\ Knows(conn'[f], x) /\ conn'[f].share = x.share
        BY <1>1, <4>1 DEF ConnType, Knows
      <4> QED BY <2>4, <3>1, <3>3, <4>2 DEF View
    <3> QED BY <1>4, <3>1, <3>2, <3>3
  <2>5. CASE Commit(f)
    <3>1. x.at = "commit" /\ conn' = Answered(f)
      BY <1>1, <2>5 DEF Commit
    <3> QED BY <1>3, <2>5, <3>1 DEF View
  <2> QED BY <1>14, <2>1, <2>2, <2>3, <2>4, <2>5 DEF FinderStep
<1>15. conn'[f] = x => View(f, x, conn'[f])
  BY DEF View
<1>16. View(f, x, conn'[f])
  BY <1>1, <1>5, <1>6, <1>7, <1>8, <1>9, <1>10, <1>11, <1>12, <1>13, <1>14, <1>15, <1>17, OthersSame
     DEF OwnStep
<1> QED BY <1>1, <1>16

-----------------------------------------------------------------------------
(* The database's write transaction and the chain                          *)

\* Who changes the top, the stored blocks and the write transaction.
LEMMA ChainFrame ==
  ASSUME Next
  PROVE  \/ \E f \in Finders : Commit(f)
         \/ PeerCommit
         \/ /\ top' = top /\ blocks' = blocks
            /\ \/ db' = db
               \/ \E j \in DOMAIN job : JobStep(j) /\ (JobUpdate(j) \/ JobTemplate(j))
               \/ \E f \in Finders : AddFound(f)
               \/ PeerBlock
<1> USE DEF chainVars, mergeVars, jobVars
<1>1. ASSUME NEW j \in DOMAIN job, JobStep(j)
      PROVE  top' = top /\ blocks' = blocks /\ (db' = db \/ JobUpdate(j) \/ JobTemplate(j))
  BY <1>1 DEF JobStep, JobLock, JobUpdate, JobTemplate, SendJob, GiveWrite, GiveBlob
<1>2. ASSUME NEW c \in Conns,
             \/ Connect(c) \/ LoginAddress(c) \/ Kick(c) \/ LoginRecipient(c) \/ LoginRespond(c)
             \/ Submit(c) \/ WriteJob(c)
      PROVE  UNCHANGED chainVars
  BY <1>2 DEF Connect, LoginAddress, Kick, LoginRecipient, LoginRespond, Submit, WriteJob
<1>3. ASSUME StartMining \/ MineTemplate \/ Restart \/ Solve PROVE UNCHANGED chainVars
  BY <1>3 DEF StartMining, MineTemplate, Restart, Solve
<1>4. ASSUME NEW f \in Finders, FinderStep(f), ~Commit(f)
      PROVE  top' = top /\ blocks' = blocks /\ (db' = db \/ AddFound(f))
  BY <1>4 DEF FinderStep, MergeCheck, SendWork, Await, Found, Refuse, AddFound
<1>5. ASSUME MergeStep \/ BadJob \/ ScanRead \/ ScanPut \/ ScanEnds \/ SlaveJob \/ SlaveAnswers
      PROVE  UNCHANGED chainVars
  BY <1>5 DEF MergeStep, AddStratum, Start, ReceiveJob, StoreJob, NotifyMiners, ChannelClosed, Remove,
     BadJob, ScanRead, ScanPut, ScanEnds, SlaveJob, SlaveAnswers
<1>6. ASSUME PeerBlock PROVE top' = top /\ blocks' = blocks
  BY <1>6 DEF PeerBlock
<1> QED BY <1>1, <1>2, <1>3, <1>4, <1>5, <1>6 DEF Next

\* The goroutines are told apart.
LEMMA Distinct ==
  ASSUME Inv
  PROVE  /\ Len(job) \in Nat /\ DOMAIN job = 1 .. Len(job) /\ Len(job) + 1 \in Nat
         /\ None \notin Finders /\ Peer \notin Finders /\ None # Peer
         /\ \A j \in Nat : j # None /\ j # Peer /\ j \notin Finders
<1>1. Len(job) \in Nat /\ DOMAIN job = 1 .. Len(job)
  BY JobDomain DEF Inv, JobOK
<1>2. \A x \in Finders \cup {Peer, None} : x \notin Nat
  BY StratumAssumption
<1> QED BY <1>1, <1>2, StratumAssumption

\* Whether goroutine j is inside the transaction; a new one is not.
LEMMA TemplateHolder ==
  ASSUME Inv, Next, NEW j \in DOMAIN job'
  PROVE  \/ j \notin DOMAIN job /\ job'[j].at = "lock" /\ j \in Nat
         \/ j \in DOMAIN job /\ (job'[j].at = "template" <=> job[j].at = "template")
         \/ j \in DOMAIN job /\ JobUpdate(j) /\ job'[j].at = "template"
         \/ j \in DOMAIN job /\ JobTemplate(j) /\ job'[j].at # "template"
<1>0. job \in Seq(JobType) /\ Len(job) + 1 \in Nat
  BY Distinct DEF Inv, JobOK
<1>1. CASE job' = job
  BY <1>1
<1>2. ASSUME NEW force \in BOOLEAN, job' = Append(job, NewJob(force))
      PROVE  \/ j \notin DOMAIN job /\ job'[j].at = "lock" /\ j \in Nat
             \/ j \in DOMAIN job /\ job'[j] = job[j]
  BY <1>0, <1>2, JobStarts, NewJobType
<1>3. ASSUME NEW k \in DOMAIN job, JobStep(k)
      PROVE  \/ j \in DOMAIN job /\ (job'[j].at = "template" <=> job[j].at = "template")
             \/ j \in DOMAIN job /\ JobUpdate(j) /\ job'[j].at = "template"
             \/ j \in DOMAIN job /\ JobTemplate(j) /\ job'[j].at # "template"
  <2>1. PICK r \in JobType : JobChange(k, r)
    BY <1>3, JobRecord
  <2>2. /\ DOMAIN job' = DOMAIN job /\ job'[k] = r
        /\ \A i \in DOMAIN job : i # k => job'[i] = job[i]
    BY <1>0, <2>1, JobMoves DEF JobChange
  <2>3. CASE j # k
    BY <2>2, <2>3
  <2>4. CASE j = k
    <3>1. CASE JobLock(k) /\ r.at \in {"db", "done"}
      BY <2>2, <2>4, <3>1 DEF JobLock
    <3>2. CASE JobUpdate(k) /\ r.at = "template"
      BY <2>2, <2>4, <3>2
    <3>3. CASE JobTemplate(k) /\ r.at = "send"
      BY <2>2, <2>4, <3>3
    <3>4. CASE SendJob(k) /\ r.at = "done"
      BY <2>2, <2>4, <3>4 DEF SendJob
    <3>5. CASE r.at = job[k].at
      BY <2>2, <2>4, <3>5
    <3> QED BY <2>1, <3>1, <3>2, <3>3, <3>4, <3>5 DEF JobChange
  <2> QED BY <2>3, <2>4
<1> QED BY <1>1, <1>2, <1>3, JobFrame

\* The transaction is held by one goroutine, which is where it says it is.
LEMMA LockStep ==
  ASSUME Inv, Next
  PROVE  LockOK'
<1> USE DEF chainVars, mergeVars, jobVars
<1>0. LockOK /\ node' = node
  BY HeapStep DEF Inv
<1>1. DOMAIN job \subseteq DOMAIN job' /\ DOMAIN job \subseteq Nat
  <2>1. job \in Seq(JobType)
    BY DEF Inv, JobOK
  <2>2. \A j \in DOMAIN job : JobStep(j) => DOMAIN job' = DOMAIN job
    BY <2>1, JobRecord, JobMoves DEF JobChange
  <2> QED BY <2>1, <2>2, JobFrame, JobStarts, Distinct
<1>2. \A f \in Finders : View(f, conn[f], conn'[f])
  BY HandlerView
<1>3. ASSUME db' = db, top' = top PROVE LockOK'
  <2>1. db' \in {None, Peer} \cup Finders \cup DOMAIN job'
    BY <1>0, <1>1, <1>3 DEF LockOK
  <2>2. ASSUME NEW f \in Finders PROVE conn'[f].at = "commit" <=> db' = f
    <3>1. ~(AddFound(f) /\ db' = f) /\ ~Commit(f)
      BY <1>0, <1>3, Distinct DEF AddFound, Commit, LockOK
    <3>2. conn[f].at = "commit" <=> db = f
      BY <1>0 DEF LockOK
    <3>3. conn'[f].at = "commit" <=> conn[f].at = "commit"
      BY <1>2, <3>1 DEF View, Quiet
    <3> QED BY <1>3, <3>2, <3>3
  <2>3. ASSUME NEW j \in DOMAIN job' PROVE job'[j].at = "template" <=> db' = j
    <3>1. CASE j \notin DOMAIN job /\ job'[j].at = "lock" /\ j \in Nat
      BY <1>0, <1>3, <3>1, Distinct DEF LockOK
    <3>2. CASE j \in DOMAIN job /\ (job'[j].at = "template" <=> job[j].at = "template")
      BY <1>0, <1>3, <3>2 DEF LockOK
    <3>3. CASE j \in DOMAIN job /\ JobUpdate(j)
      BY <1>1, <1>3, <3>3, Distinct DEF JobUpdate
    <3>4. CASE j \in DOMAIN job /\ JobTemplate(j)
      <4>1. job[j].at = "template" /\ db' = None
        BY <3>4 DEF JobTemplate
      <4> QED BY <1>0, <1>1, <1>3, <3>4, <4>1, Distinct DEF LockOK
    <3> QED BY <3>1, <3>2, <3>3, <3>4, TemplateHolder
  <2>4. db' = Peer => top' < node'.maxTop
    BY <1>0, <1>3 DEF LockOK
  <2> QED BY <2>1, <2>2, <2>3, <2>4 DEF LockOK
<1>4. ASSUME db' # db, NEW j \in DOMAIN job, JobStep(j), JobUpdate(j) \/ JobTemplate(j) PROVE LockOK'
  <2>1. conn' = conn /\ DOMAIN job' = DOMAIN job /\ j \in Nat
    <3>1. PICK r \in JobType : JobChange(j, r)
      BY <1>4, JobRecord
    <3>2. DOMAIN job' = DOMAIN job
      BY <3>1, JobMoves DEF JobChange, Inv, JobOK
    <3> QED BY <1>1, <1>4, <3>2 DEF JobUpdate, JobTemplate
  <2>2. CASE JobUpdate(j)
    <3>1. db = None /\ db' = j /\ job' = [job EXCEPT ![j].at = "template"] /\ job[j].at = "db"
      BY <2>2 DEF JobUpdate
    <3>2. \A f \in Finders : conn'[f].at # "commit"
      BY <1>0, <2>1, <3>1, Distinct DEF LockOK
    <3>3. \A i \in DOMAIN job : i # j => job'[i].at # "template"
      BY <1>0, <1>1, <3>1, Distinct DEF LockOK
    <3>4. job'[j].at = "template"
      <4>1. job[j] \in JobType
        BY JobDomain DEF Inv, JobOK
      <4>2. job'[j] = [job[j] EXCEPT !.at = "template"]
        BY <3>1
      <4> QED BY <4>1, <4>2 DEF JobType
    <3> QED BY <2>1, <3>1, <3>2, <3>3, <3>4, Distinct DEF LockOK
  <2>3. CASE JobTemplate(j)
    <3>1. db = j /\ db' = None
      BY <1>0, <2>3 DEF JobTemplate, LockOK
    <3>2. \A f \in Finders : conn'[f].at # "commit"
      BY <1>0, <2>1, <3>1, Distinct DEF LockOK
    <3>3. ASSUME NEW i \in DOMAIN job PROVE job'[i].at # "template"
      <4>1. CASE i # j
        <5>1. job[i].at # "template" /\ ~JobUpdate(i) 
          BY <1>0, <1>1, <3>1, <4>1, Distinct DEF LockOK, JobUpdate
        <5> QED BY <2>1, <4>1, <5>1, TemplateHolder
      <4>2. CASE i = j
        <5>1. PICK r \in JobType : JobChange(j, r)
          BY <1>4, JobRecord
        <5>2. job'[j] = r
          BY <5>1, JobMoves DEF JobChange, Inv, JobOK
        <5>3. ~JobLock(j) /\ ~JobUpdate(j) /\ ~SendJob(j) /\ ~ \E c \in Conns : GiveWrite(j, c) \/ GiveBlob(j, c)
          BY <2>3 DEF JobTemplate, JobLock, JobUpdate, SendJob, GiveWrite, GiveBlob, Inv, JobOK
        <5> QED BY <4>2, <5>1, <5>2, <5>3 DEF JobChange
      <4> QED BY <4>1, <4>2
    <3> QED BY <2>1, <3>1, <3>2, <3>3, Distinct DEF LockOK
  <2> QED BY <1>4, <2>2, <2>3
<1>5. ASSUME db' # db, NEW f \in Finders, AddFound(f) PROVE LockOK'
  <2>1. db = None /\ db' = f /\ Move(f, "commit")
    BY <1>5 DEF AddFound
  <2>2. ASSUME NEW g \in Finders PROVE conn'[g].at = "commit" <=> g = f
    <3>1. conn[g].at # "commit" /\ ~Commit(g)
      BY <1>0, <2>1, Distinct DEF LockOK, Commit
    <3>2. g = f => conn'[g].at = "commit"
      <4>1. PICK ats, entries : DOMAIN conn = Finders /\ conn[f] \in ConnType(ats, entries)
        BY HandlerType
      <4>2. conn'[f] = [conn[f] EXCEPT !.at = "commit"]
        BY <2>1, <4>1 DEF Move
      <4> QED BY <4>1, <4>2 DEF ConnType
    <3>3. g # f => conn'[g].at # "commit"
      BY <1>2, <2>1, <3>1 DEF View, Quiet
    <3> QED BY <3>2, <3>3
  <2>3. ASSUME NEW j \in DOMAIN job' PROVE job'[j].at # "template" /\ j # f
    <3>1. ~JobUpdate(j) \/ j \notin DOMAIN job
      BY <1>1, <2>1, Distinct DEF JobUpdate
    <3>2. j \in DOMAIN job => job[j].at # "template"
      BY <1>0, <1>1, <2>1, Distinct DEF LockOK
    <3>3. job'[j].at # "template" /\ j \in Nat
      BY <1>1, <3>1, <3>2, TemplateHolder
    <3> QED BY <3>3, Distinct
  <2> QED BY <1>5, <2>1, <2>2, <2>3, Distinct DEF LockOK
<1>6. ASSUME NEW j \in DOMAIN job', db \in {None, Peer} \cup Finders, ~ \E i \in DOMAIN job : JobUpdate(i)
      PROVE  job'[j].at # "template" /\ j # None /\ j # Peer /\ j \in Nat
  <2>1. j \in DOMAIN job => job[j].at # "template"
    BY <1>0, <1>1, <1>6, Distinct DEF LockOK
  <2>2. job'[j].at # "template" /\ j \in Nat
    BY <1>1, <1>6, <2>1, TemplateHolder
  <2> QED BY <2>2, Distinct
<1>7. ASSUME NEW f \in Finders, Commit(f) PROVE LockOK'
  <2>1. db = f /\ db' = None /\ conn' = Answered(f)
    BY <1>0, <1>7 DEF Commit, LockOK
  <2>2. ASSUME NEW g \in Finders PROVE conn'[g].at # "commit"
    <3>1. CASE g # f
      <4>1. conn[g].at # "commit"
        BY <1>0, <2>1, <3>1 DEF LockOK
      <4> QED BY <1>2, <2>1, <4>1, Distinct DEF View, Quiet
    <3>2. CASE g = f
      <4>1. PICK ats, entries : DOMAIN conn = Finders /\ conn[f] \in ConnType(ats, entries)
        BY HandlerType
      <4>2. PICK x \in ConnType(ats, entries) : x = conn[f]
        BY <4>1
      <4>3. PICK at, jobs : at = (IF f = Solo THEN "idle" ELSE "serve") /\ jobs = (IF f = Solo THEN <<>> ELSE x.jobs)
        OBVIOUS
      <4>4. conn'[f] = [x EXCEPT !.at = at, !.share = None, !.jobs = jobs]
        BY <2>1, <4>1, <4>2, <4>3 DEF Answered
      <4>5. conn'[f].at = at
        BY <4>2, <4>4 DEF ConnType
      <4> QED BY <3>2, <4>3, <4>5
    <3> QED BY <3>1, <3>2
  <2>3. \A i \in DOMAIN job : ~JobUpdate(i)
    BY <2>1, Distinct DEF JobUpdate
  <2>4. \A j \in DOMAIN job' : job'[j].at # "template" /\ j # None
    BY <1>6, <2>1, <2>3
  <2> QED BY <2>1, <2>2, <2>4, Distinct DEF LockOK
<1>8. ASSUME PeerBlock \/ PeerCommit PROVE LockOK'
  <2>1. /\ conn' = conn /\ db \in {None, Peer} /\ db' \in {None, Peer}
        /\ db' = Peer => top' < node.maxTop
    BY <1>8, Distinct DEF PeerBlock, PeerCommit
  <2>2. \A f \in Finders : conn'[f].at # "commit" /\ db' # f
    BY <1>0, <2>1, Distinct DEF LockOK
  <2>3. \A i \in DOMAIN job : ~JobUpdate(i)
    <3>1. db' # db
      BY <1>8, Distinct DEF PeerBlock, PeerCommit
    <3> QED BY <1>1, <2>1, <3>1, Distinct DEF JobUpdate
  <2>4. \A j \in DOMAIN job' : job'[j].at # "template" /\ j # None /\ j # Peer
    BY <1>6, <2>1, <2>3
  <2> QED BY <1>0, <2>1, <2>2, <2>4 DEF LockOK
<1> QED BY <1>3, <1>4, <1>5, <1>7, <1>8, ChainFrame

\* mergesUpdated is reset only by the integrated miner, who then starts anew.
LEMMA UpdatedFrame ==
  ASSUME Inv, Next
  PROVE  /\ updated' \in BOOLEAN
         /\ updated => updated' \/ conn'[Solo].at = "idle"
<1> USE DEF chainVars, mergeVars, jobVars
<1>0. updated \in BOOLEAN
  BY DEF Inv, ChainOK
<1>1. ASSUME NEW j \in DOMAIN job, JobStep(j) PROVE updated' = updated \/ updated' = TRUE
  BY <1>1 DEF JobStep, JobLock, JobUpdate, JobTemplate, SendJob, GiveWrite, GiveBlob
<1>2. ASSUME NEW c \in Conns,
             \/ Connect(c) \/ LoginAddress(c) \/ Kick(c) \/ LoginRecipient(c) \/ LoginRespond(c)
             \/ Submit(c) \/ WriteJob(c)
      PROVE  updated' = updated
  BY <1>2 DEF Connect, LoginAddress, Kick, LoginRecipient, LoginRespond, Submit, WriteJob
<1>3. ASSUME StartMining \/ MineTemplate \/ Solve \/ PeerBlock \/ PeerCommit PROVE updated' = updated
  BY <1>3 DEF StartMining, MineTemplate, Solve, PeerBlock, PeerCommit
<1>4. ASSUME NEW f \in Finders, FinderStep(f) PROVE updated' = updated
  BY <1>4 DEF FinderStep, MergeCheck, SendWork, Await, Found, Refuse, AddFound, Commit
<1>5. ASSUME MergeStep \/ BadJob \/ ScanRead \/ ScanPut \/ ScanEnds \/ SlaveJob \/ SlaveAnswers
      PROVE  updated' = updated \/ updated' = TRUE
  BY <1>5 DEF MergeStep, AddStratum, Start, ReceiveJob, StoreJob, NotifyMiners, ChannelClosed, Remove,
     BadJob, ScanRead, ScanPut, ScanEnds, SlaveJob, SlaveAnswers
<1>6. ASSUME Restart PROVE updated' = FALSE /\ conn'[Solo].at = "idle"
  <2>1. Solo \in Finders
    BY DEF Finders
  <2>2. PICK ats, entries : DOMAIN conn = Finders /\ conn[Solo] \in ConnType(ats, entries)
    BY <2>1, HandlerType
  <2>3. updated' = FALSE /\ conn'[Solo] = [conn[Solo] EXCEPT !.at = "idle"]
    BY <1>6, <2>1, <2>2 DEF Restart, Move
  <2> QED BY <2>2, <2>3 DEF ConnType
<1> QED BY <1>0, <1>1, <1>2, <1>3, <1>4, <1>5, <1>6 DEF Next

\* The chain within its bound, and what its blocks pay.
LEMMA ChainStep ==
  ASSUME Inv, Next
  PROVE  ChainOK'
<1> USE DEF chainVars, mergeVars, jobVars
<1>0. /\ node' = node /\ node \in Nodes /\ top \in Nat /\ node.maxTop \in Nat /\ top <= node.maxTop
      /\ AcceptedPays /\ \A f \in Finders : conn[f].at = "commit" => ~conn[f].share.torn
  BY HeapStep, NodeFacts DEF Inv, ChainOK
<1>1. updated' \in BOOLEAN
  BY UpdatedFrame
<1>2. \A f \in Finders : conn'[f].at = "commit" => ~conn'[f].share.torn
  BY <1>0, HandlerView DEF View, Quiet
<1>3. CASE top' = top /\ blocks' = blocks
  <2>1. AcceptedPays'
    BY <1>0, <1>3 DEF AcceptedPays
  <2> QED BY <1>0, <1>1, <1>2, <1>3, <2>1 DEF ChainOK
<1>4. CASE PeerCommit
  <2>1. top' = top + 1 /\ blocks' = blocks /\ top < node.maxTop
    BY <1>4 DEF PeerCommit, Inv, LockOK
  <2>2. AcceptedPays'
    BY <1>0, <2>1 DEF AcceptedPays
  <2> QED BY <1>0, <1>1, <1>2, <2>1, <2>2 DEF ChainOK
<1>5. ASSUME NEW f \in Finders, Commit(f) PROVE ChainOK'
  <2>1. PICK s : s = conn[f].share
    OBVIOUS
  <2>2. PICK b : b = [blob |-> s.blob, by |-> f, torn |-> s.torn,
                      shared |-> f # Solo /\ heap[s.t].touched > 1]
    OBVIOUS
  <2>3. /\ blocks' = blocks \cup {b} /\ top' = (IF s.blob.height = top + 1 THEN top + 1 ELSE top)
        /\ conn[f].at = "commit"
    BY <1>5, <2>1, <2>2 DEF Commit
  <2>4. /\ s \in ShareType /\ s.blob.height <= node.maxTop
        /\ f \in Conns => Solution(f, s)
        /\ f = Solo => s.blob.rcpt = Solo
    <3>1. CASE f \in Conns
      <4>1. Solution(f, s)
        BY <2>1, <2>3, <3>1 DEF Inv, ConnOK, MinerHolds, Solving, Tried
      <4> QED BY <3>1, <4>1, StratumAssumption DEF Solution
    <3>2. CASE f = Solo
      BY <2>1, <2>3, <3>2, StratumAssumption DEF Inv, ConnOK, SoloHolds, Solving, Tried
    <3> QED BY <3>1, <3>2 DEF Finders
  <2>5. b.blob = s.blob /\ b.by = f /\ b.torn = s.torn /\ (b.shared <=> f # Solo /\ heap[s.t].touched > 1)
    BY <2>2
  <2>6. b.blob.rcpt # None /\ ~b.torn /\ (b.blob.rcpt # b.by => b.shared)
    <3>1. ~s.torn
      BY <1>0, <2>1, <2>3
    <3>2. CASE f \in Conns
      <4>1. s.blob.rcpt \in Conns /\ heap[s.t].touched \in Nat /\ heap[s.t].touched >= 1
            /\ (heap[s.t].touched = 1 => s.blob.rcpt = f)
        BY <2>4, <3>2, HeapTypes DEF Solution, Given, Inv
      <4>2. f # Solo /\ None \notin Conns
        BY <3>2, StratumAssumption DEF Finders
      <4> QED BY <2>5, <3>1, <4>1, <4>2
    <3>3. CASE f = Solo
      BY <2>4, <2>5, <3>1, <3>3, StratumAssumption DEF Finders
    <3> QED BY <3>2, <3>3 DEF Finders
  <2>7. AcceptedPays'
    BY <1>0, <2>3, <2>6 DEF AcceptedPays
  <2>8. top' \in 0 .. node.maxTop
    BY <1>0, <2>3, <2>4
  <2> QED BY <1>0, <1>1, <1>2, <2>7, <2>8 DEF ChainOK
<1> QED BY <1>3, <1>4, <1>5, ChainFrame

-----------------------------------------------------------------------------
(* Nobody is left behind                                                   *)

\* A goroutine on its way to a connection that has an address gets there.
LEMMA PendingKept ==
  ASSUME Inv, Next, NEW c \in Conns, conn[c].addr, NEW j \in DOMAIN job, job[j].to[c] # "-"
  PROVE  \/ GiveBlob(j, c)
         \/ j \in DOMAIN job' /\ job'[j].tpl = job[j].tpl /\ job'[j].to[c] # "-"
<1>0. job \in Seq(JobType) /\ job[j].at = "done"
  BY DEF Inv, JobOK
<1>1. CASE job' = job
  BY <1>1
<1>2. ASSUME NEW force \in BOOLEAN, job' = Append(job, NewJob(force))
      PROVE  j \in DOMAIN job' /\ job'[j] = job[j]
  BY <1>0, <1>2, JobStarts
<1>3. ASSUME NEW k \in DOMAIN job, JobStep(k)
      PROVE  \/ GiveBlob(j, c)
             \/ j \in DOMAIN job' /\ job'[j].tpl = job[j].tpl /\ job'[j].to[c] # "-"
  <2>1. PICK r \in JobType : JobChange(k, r)
    BY <1>3, JobRecord
  <2>2. /\ DOMAIN job' = DOMAIN job /\ job'[k] = r
        /\ \A i \in DOMAIN job : i # k => job'[i] = job[i]
    BY <1>0, <2>1, JobMoves DEF JobChange
  <2>3. CASE j # k
    BY <2>2, <2>3
  <2>4. CASE j = k
    <3>1. ~JobTemplate(k) /\ ~SendJob(k)
      BY <1>0, <2>4 DEF JobTemplate, SendJob
    <3>2. \/ r.tpl = job[k].tpl /\ r.to = job[k].to
          \/ /\ r.tpl = job[k].tpl
             /\ \E d \in Conns :
                  /\ \A e \in Conns : e # d => r.to[e] = job[k].to[e]
                  /\ \/ GiveWrite(k, d) /\ conn[d].addr /\ r.to[d] = "set"
                     \/ GiveWrite(k, d) /\ ~conn[d].addr /\ r.to[d] = "-"
                     \/ GiveBlob(k, d) /\ r.to[d] = "-"
      BY <2>1, <3>1 DEF JobChange
    <3> QED BY <2>2, <2>4, <3>2
  <2> QED BY <2>3, <2>4
<1> QED BY <1>1, <1>2, <1>3, JobFrame

\* LastBlock is replaced only by SendJob.
LEMMA LastFrame ==
  ASSUME Next
  PROVE  last' = last \/ \E j \in DOMAIN job : JobStep(j) /\ SendJob(j)
<1> USE DEF chainVars, mergeVars, jobVars
<1>1. ASSUME NEW j \in DOMAIN job, JobStep(j) PROVE last' = last \/ SendJob(j)
  BY <1>1 DEF JobStep, JobLock, JobUpdate, JobTemplate, GiveWrite, GiveBlob
<1>2. ASSUME NEW c \in Conns,
             \/ Connect(c) \/ LoginAddress(c) \/ Kick(c) \/ LoginRecipient(c) \/ LoginRespond(c)
             \/ Submit(c) \/ WriteJob(c)
      PROVE  last' = last
  BY <1>2 DEF Connect, LoginAddress, Kick, LoginRecipient, LoginRespond, Submit, WriteJob
<1>3. ASSUME StartMining \/ MineTemplate \/ Restart \/ Solve \/ PeerBlock \/ PeerCommit PROVE last' = last
  BY <1>3 DEF StartMining, MineTemplate, Restart, Solve, PeerBlock, PeerCommit
<1>4. ASSUME NEW f \in Finders, FinderStep(f) PROVE last' = last
  BY <1>4 DEF FinderStep, MergeCheck, SendWork, Await, Found, Refuse, AddFound, Commit
<1>5. ASSUME MergeStep \/ BadJob \/ ScanRead \/ ScanPut \/ ScanEnds \/ SlaveJob \/ SlaveAnswers
      PROVE  last' = last
  BY <1>5 DEF MergeStep, AddStratum, Start, ReceiveJob, StoreJob, NotifyMiners, ChannelClosed, Remove,
     BadJob, ScanRead, ScanPut, ScanEnds, SlaveJob, SlaveAnswers
<1> QED BY <1>1, <1>2, <1>3, <1>4, <1>5 DEF Next

\* No step leaves a miner behind.
LEMMA TellStep ==
  ASSUME Inv, Next
  PROVE  AllTold'
<1> SUFFICES ASSUME NEW c \in Conns, conn'[c].at \in LoggedIn
             PROVE  Reached(conn'[c], last') \/ Pending(c, last)'
  BY DEF AllTold, Told, Reached
<1>0. /\ conn[c].at \in LoggedIn => conn[c].addr
      /\ \A j \in DOMAIN job : \A d \in Conns : job[j].to[d] # "-" => job[j].at = "done"
  BY DEF Inv, ConnOK, MinerHolds, JobOK
<1>1. Told(c) /\ View(c, conn[c], conn'[c]) /\ c # Solo
  BY HandlerView, StratumAssumption DEF Inv, AllTold, Finders
<1>2. ASSUME NEW k \in DOMAIN job, JobStep(k), SendJob(k)
      PROVE  Pending(c, last)'
  <2>1. PICK r \in JobType : JobChange(k, r)
    BY <1>2, JobRecord
  <2>2. DOMAIN job' = DOMAIN job /\ job'[k] = r
    BY <2>1, JobMoves DEF JobChange, Inv, JobOK
  <2>3. conn' = conn /\ last' = job[k].tpl /\ job[k].at = "send"
    BY <1>2 DEF SendJob
  <2>4. ~JobLock(k) /\ ~JobUpdate(k) /\ ~JobTemplate(k)
    BY <2>3 DEF JobLock, JobUpdate, JobTemplate
  <2>5. ~ \E d \in Conns : GiveWrite(k, d) \/ GiveBlob(k, d)
    BY <1>0, <2>3 DEF GiveWrite, GiveBlob
  <2>6. r.tpl = job[k].tpl /\ r.to[c] = "go"
    BY <2>1, <2>3, <2>4, <2>5 DEF JobChange, LoggedIn, Solving, Tried
  <2> QED BY <2>2, <2>3, <2>6 DEF Pending
<1>3. ASSUME last' = last PROVE Reached(conn'[c], last') \/ Pending(c, last)'
  <2>1. \/ Reached(conn'[c], last)
        \/ conn[c].at \in LoggedIn /\ (Reached(conn[c], last) => Reached(conn'[c], last))
    <3>1. CASE conn'[c] = conn[c]
      BY <3>1
    <3>2. CASE Quiet(c, conn[c], conn'[c])
      BY <3>2 DEF Quiet, Knows, Reached
    <3>3. CASE conn[c].at \in {"add", "commit"} /\ Knows(conn'[c], conn[c])
      BY <3>3 DEF LoggedIn, Solving, Tried, Knows, Reached
    <3>4. CASE conn'[c].at = "recipient" /\ conn'[c].bl = last
      BY <3>4 DEF Reached
    <3>5. CASE conn[c].at = "recipient" /\ Knows(conn'[c], conn[c]) /\ conn[c].bl \in conn'[c].had
      BY <3>5 DEF Knows, Reached, LoggedIn
    <3>6. CASE conn'[c].at = conn[c].at /\ conn'[c].bl = conn[c].bl /\ Knows(conn'[c], conn[c])
      BY <3>6 DEF Knows, Reached
    <3> QED BY <1>1, <3>1, <3>2, <3>3, <3>4, <3>5, <3>6 DEF View
  <2>2. ASSUME conn[c].at \in LoggedIn, Pending(c, last) PROVE Reached(conn'[c], last) \/ Pending(c, last)'
    <3>1. PICK j \in DOMAIN job : job[j].tpl = last /\ job[j].to[c] # "-"
      BY <2>2 DEF Pending
    <3>2. CASE GiveBlob(j, c)
      BY <3>1, <3>2, BlobTold DEF Reached
    <3>3. CASE j \in DOMAIN job' /\ job'[j].tpl = job[j].tpl /\ job'[j].to[c] # "-"
      BY <1>3, <3>1, <3>3 DEF Pending
    <3> QED BY <1>0, <2>2, <3>1, <3>2, <3>3, PendingKept
  <2> QED BY <1>1, <1>3, <2>1, <2>2 DEF Told
<1> QED BY <1>2, <1>3, LastFrame

\* A block of the main chain starts NewStratumJob with its transaction.
LEMMA RaisingStarts ==
  ASSUME Inv, Next, Raising', ~Raising
  PROVE  \E j \in DOMAIN job' : job'[j].at = "lock"
<1>1. ASSUME NEW force \in BOOLEAN, job' = Append(job, NewJob(force))
      PROVE  \E j \in DOMAIN job' : job'[j].at = "lock"
  BY <1>1, JobStarts, NewJobType DEF Inv, JobOK
<1>2. ASSUME NEW f \in Finders, db' = f PROVE db = f \/ AddFound(f)
  <2>1. conn'[f].at = "commit"
    BY <1>2, LockStep DEF LockOK
  <2>2. conn[f].at = "commit" => db = f
    BY DEF Inv, LockOK
  <2>3. f = Solo \/ f # Solo
    OBVIOUS
  <2> QED BY <2>1, <2>2, HandlerView DEF View, Quiet
<1>3. CASE db' = Peer
  <2>1. db # Peer /\ db' # db
    BY <1>3 DEF Raising
  <2>2. PeerBlock
    <3>1. \A f \in Finders : ~Commit(f) /\ ~(AddFound(f) /\ db' = f)
      BY <1>3, Distinct DEF Commit
    <3>2. ~PeerCommit
      BY <2>1 DEF PeerCommit
    <3>3. \A j \in DOMAIN job : ~JobUpdate(j) /\ ~JobTemplate(j)
      BY <1>3, Distinct DEF JobUpdate, JobTemplate
    <3>4. \A f \in Finders : AddFound(f) => db' = db \/ db' = f
      BY DEF AddFound
    <3> QED BY <2>1, <3>1, <3>2, <3>3, <3>4, ChainFrame
  <2> QED BY <1>1, <2>2 DEF PeerBlock
<1>4. ASSUME NEW f \in Finders, db' = f, conn'[f].share.blob.height = top' + 1
      PROVE  \E j \in DOMAIN job' : job'[j].at = "lock"
  <2>1. ~ \E g \in Finders : Commit(g)
    BY <1>4, Distinct DEF Commit
  <2>2. ~PeerCommit
    BY <1>4, Distinct DEF PeerCommit
  <2>3. top' = top
    BY <2>1, <2>2, ChainFrame
  <2>4. CASE db = f
    <3>1. conn[f].at = "commit" 
      BY <2>4 DEF Inv, LockOK
    <3>2. conn'[f].share = conn[f].share
      BY <2>1, <3>1, HandlerView DEF View, Quiet
    <3> QED BY <1>4, <2>3, <2>4, <3>2 DEF Raising
  <2>5. CASE db # f /\ AddFound(f)
    <3>0. conn[f].at = "add" /\ conn'[f].at = "commit"
      BY <1>4, <2>5, LockStep DEF LockOK, AddFound
    <3>1. conn'[f].share = conn[f].share
      BY <3>0, HandlerView DEF View, Quiet
    <3>2. job' = Append(job, NewJob(TRUE))
      BY <1>4, <2>3, <2>5, <3>1 DEF AddFound
    <3> QED BY <1>1, <3>2
  <2> QED BY <1>2, <1>4, <2>4, <2>5
<1> QED BY <1>3, <1>4 DEF Raising

\* No step leaves the integrated miner behind.
LEMMA WakeStep ==
  ASSUME Inv, Next
  PROVE  Woken'
<1> DEFINE Lock == \E j \in DOMAIN job : job[j].at = "lock"
           b == conn[Solo].jobs[1]
<1> SUFFICES ASSUME conn'[Solo].at = "mine", ~conn'[Solo].addr,
                    Raising' \/ conn'[Solo].jobs[1].height <= top'
             PROVE  updated' \/ Lock'
  BY DEF Woken
<1>0. Solo \in Finders /\ Solo \notin Conns /\ View(Solo, conn[Solo], conn'[Solo])
  BY HandlerView, StratumAssumption DEF Finders
<1>1. conn'[Solo] = conn[Solo]
  <2>1. CASE MineTemplate /\ conn'[Solo].addr = Adding /\ conn'[Solo].jobs = <<Template(Solo)>>
    <3>1. db' = db /\ top' = top /\ db \notin Finders /\ db # Peer
      BY <2>1 DEF MineTemplate, Adding, chainVars
    <3>2. ~Raising'
      BY <3>1 DEF Raising
    <3>3. PICK t : t = Template(Solo)
      OBVIOUS
    <3>4. conn'[Solo].jobs = <<t>> /\ <<t>>[1] = t /\ t.height = top + 1
      BY <2>1, <3>3, TemplateMade
    <3>5. conn'[Solo].jobs[1].height = top + 1
      BY <3>4
    <3> QED BY <3>1, <3>2, <3>5, NodeFacts
  <2> QED BY <1>0, <2>1 DEF View, Quiet
<1>2. ASSUME updated \/ Lock PROVE updated' \/ Lock'
  <2>1. CASE updated
    BY <2>1, UpdatedFrame
  <2>2. ASSUME NEW j \in DOMAIN job, job[j].at = "lock" PROVE updated' \/ Lock'
    <3>0. job \in Seq(JobType)
      BY DEF Inv, JobOK
    <3>1. CASE job' = job
      BY <2>2, <3>1
    <3>2. ASSUME NEW force \in BOOLEAN, job' = Append(job, NewJob(force)) PROVE Lock'
      BY <2>2, <3>0, <3>2, JobStarts
    <3>3. ASSUME NEW k \in DOMAIN job, JobStep(k) PROVE updated' \/ Lock'
      <4>1. PICK r \in JobType : JobChange(k, r)
        BY <3>3, JobRecord
      <4>2. /\ DOMAIN job' = DOMAIN job /\ job'[k] = r
            /\ \A i \in DOMAIN job : i # k => job'[i] = job[i]
        BY <3>0, <4>1, JobMoves DEF JobChange
      <4>3. CASE j # k
        BY <2>2, <4>2, <4>3
      <4>4. CASE j = k
        <5>1. ~JobUpdate(k) /\ ~JobTemplate(k) /\ ~SendJob(k)
          BY <2>2, <4>4 DEF JobUpdate, JobTemplate, SendJob
        <5>2. JobLock(k) \/ r.at = job[k].at
          BY <4>1, <5>1 DEF JobChange
        <5> QED BY <2>2, <4>2, <4>4, <5>2 DEF JobLock
      <4> QED BY <4>3, <4>4
    <3> QED BY <3>1, <3>2, <3>3, JobFrame
  <2> QED BY <1>2, <2>1, <2>2
<1>3. CASE Raising \/ b.height <= top
  <2>1. updated \/ Lock
    BY <1>1, <1>3 DEF Inv, Woken
  <2> QED BY <1>2, <2>1
<1>4. CASE ~Raising /\ ~(b.height <= top)
  <2>1. CASE Raising'
    BY <1>4, <2>1, RaisingStarts
  <2>2. CASE ~Raising'
    <3>1. b.height <= top' /\ top' # top
      BY <1>1, <1>4, <2>2
    <3>2. ~PeerCommit
      BY <1>4 DEF PeerCommit, Raising
    <3>3. PICK f \in Finders : Commit(f)
      BY <3>1, <3>2, ChainFrame
    <3>4. db = f
      BY <3>3 DEF Commit, Inv, LockOK
    <3>5. conn[f].share.blob.height = top + 1
      BY <3>1, <3>3 DEF Commit
    <3> QED BY <1>4, <3>4, <3>5 DEF Raising
  <2> QED BY <2>1, <2>2
<1> QED BY <1>3, <1>4

-----------------------------------------------------------------------------
(* The theorems                                                            *)

\* NewNode starts with one forced NewStratumJob and nobody connected.
LEMMA InvInit == Init => Inv
<1> SUFFICES ASSUME Init PROVE Inv
  OBVIOUS
<1>0. /\ node \in Nodes /\ top = 0 /\ db = None /\ updated = FALSE
      /\ heap = <<>> /\ last = 0 /\ job = <<NewJob(TRUE)>>
      /\ conn = [f \in Finders |-> Idle] /\ blocks = {}
      /\ merge = Unlisted /\ cl = NoClient /\ sjob = 1
  BY DEF Init
<1>1. MergeOK /\ ClientOK
  <2>1. 0 \in Limb
    BY BaseType DEF Limb
  <2> QED BY <1>0, <2>1, EmptyChannel DEF MergeOK, MergeType, Unlisted, ClientOK, ClientType, NoClient
<1>2. node.diff \in PosLimb /\ node.maxTop \in Nat
  BY <1>0, StratumAssumption DEF NodeType, PosLimb
<1>3. HeapOK
  <2>1. heap \in Seq(TemplateType(Conns \cup {None})) /\ Len(heap) = 0 /\ DOMAIN heap = {}
    BY <1>0, EmptyChannel
  <2> QED BY <1>0, <2>1 DEF HeapOK
<1>4. /\ DOMAIN job = {1} /\ job \in Seq(JobType) /\ job[1] = NewJob(TRUE)
  <2>1. PICK r \in JobType : r = NewJob(TRUE)
    BY NewJobType
  <2>2. job = <<r>>
    BY <1>0, <2>1
  <2>3. <<r>> \in Seq(JobType) /\ DOMAIN <<r>> = {1} /\ <<r>>[1] = r
    OBVIOUS
  <2> QED BY <2>1, <2>2, <2>3
<1>5. JobOK
  <2>1. NewJob(TRUE).at = "lock" /\ NewJob(TRUE).tpl = 0 /\ \A c \in Conns : NewJob(TRUE).to[c] = "-"
    BY DEF NewJob
  <2>2. Len(heap) = 0
    BY <1>0
  <2>3. 0 \in 0 .. Len(heap)
    BY <2>2
  <2>4. \A j \in DOMAIN job : job[j] = NewJob(TRUE)
    BY <1>4
  <2>5. \A j \in DOMAIN job : /\ job[j].at = "lock" /\ job[j].tpl = 0
                              /\ \A c \in Conns : job[j].to[c] = "-"
    BY <2>1, <2>4
  <2> QED BY <1>4, <2>3, <2>5 DEF JobOK
<1>6. ConnOK
  <2>1. \A f \in Finders : conn[f] = Idle
    BY <1>0
  <2>2. PICK r : r = Idle
    OBVIOUS
  <2>3. r.at = "off" /\ r.jobs = <<>> /\ Len(r.jobs) = 0 /\ DOMAIN r.jobs = {}
    BY <2>2 DEF Idle
  <2>4. r \in MinerType /\ r \in SoloType
    BY <2>2, EmptyChannel DEF Idle, MinerType, SoloType, ConnType
  <2>5. r.at \notin LoggedIn \cup {"address"} /\ r.at \notin Solving /\ r.at \notin Tried
    BY <2>3 DEF LoggedIn, Solving, Tried
  <2>6. STRATUM_JOBS_HISTORY \in Nat
    BY StratumAssumption
  <2>7. \A c \in Conns : MinerHolds(c, r)
    BY <2>3, <2>4, <2>5, <2>6 DEF MinerHolds
  <2>8. SoloHolds(r)
    BY <2>3, <2>4, <2>5 DEF SoloHolds
  <2>9. DOMAIN conn = Finders
    BY <1>0
  <2> QED BY <2>1, <2>2, <2>7, <2>8, <2>9 DEF ConnOK, Finders
<1>7. \A f \in Finders : conn[f].at = "off"
  BY <1>0 DEF Idle
<1>8. LockOK
  <2>1. job[1].at = "lock" /\ None # 1 /\ None # Peer /\ None \notin Finders
    BY <1>4, StratumAssumption DEF NewJob
  <2>2. \A f \in Finders : ~(conn[f].at = "commit") /\ db # f
    BY <1>0, <1>7, <2>1
  <2>3. \A j \in DOMAIN job : ~(job[j].at = "template") /\ db # j
    BY <1>0, <1>4, <2>1
  <2> QED BY <1>0, <2>1, <2>2, <2>3 DEF LockOK
<1>9. ChainOK
  <2>1. top \in 0 .. node.maxTop
    BY <1>0, <1>2
  <2>2. AcceptedPays
    BY <1>0 DEF AcceptedPays
  <2>3. \A f \in Finders : ~(conn[f].at = "commit")
    BY <1>7
  <2> QED BY <1>0, <2>1, <2>2, <2>3 DEF ChainOK
<1>10. AllTold /\ Woken
  <2>1. \A c \in Conns : conn[c].at \notin LoggedIn
    BY <1>7 DEF Finders, LoggedIn, Solving, Tried
  <2>2. conn[Solo].at # "mine"
    BY <1>7 DEF Finders
  <2> QED BY <2>1, <2>2 DEF AllTold, Told, Woken
<1> QED BY <1>1, <1>3, <1>5, <1>6, <1>8, <1>9, <1>10 DEF Inv

\* Every step keeps every part of the invariant.
LEMMA InvStep == Inv /\ [Next]_vars => Inv'
<1>1. ASSUME Inv, Next PROVE Inv'
  BY <1>1, HeapStep, MergeTypes, JobTypes, ConnTypes, LockStep, ChainStep, TellStep, WakeStep DEF Inv
<1>2. ASSUME Inv, UNCHANGED vars PROVE Inv'
  <2> USE <1>2 DEF vars
  <2>1. MergeOK' /\ ClientOK'
    BY DEF Inv, MergeOK, ClientOK
  <2>2. HeapOK' /\ JobOK'
    BY DEF Inv, HeapOK, JobOK, Given, MinOf
  <2>3. ConnOK'
    <3>1. \A c, t : Given(c, t)' <=> Given(c, t)
      BY DEF Given
    <3>2. \A c, e : Entry(c, e)' <=> Entry(c, e)
      BY <3>1 DEF Entry
    <3>3. \A c, s : Solution(c, s)' <=> Solution(c, s)
      BY <3>1 DEF Solution
    <3>4. \A s : (Offered(s)' <=> Offered(s)) /\ (Refused(s)' <=> Refused(s))
      BY DEF Offered, Refused
    <3>5. \A c, r : MinerHolds(c, r)' <=> MinerHolds(c, r)
      BY <3>1, <3>2, <3>3, <3>4 DEF MinerHolds
    <3>6. \A r : SoloHolds(r)' <=> SoloHolds(r)
      BY DEF SoloHolds
    <3> QED BY <3>5, <3>6 DEF Inv, ConnOK
  <2>4. LockOK' /\ ChainOK'
    BY DEF Inv, LockOK, ChainOK, AcceptedPays
  <2>5. AllTold' /\ Woken'
    BY DEF Inv, AllTold, Told, Reached, Pending, Woken, Raising
  <2> QED BY <2>1, <2>2, <2>3, <2>4, <2>5 DEF Inv
<1> QED BY <1>1, <1>2

\* The inductive invariant holds in every state of the stratum server, the
\* integrated miner and the merge mining client.
THEOREM Invariance == Spec => []Inv
  BY InvInit, InvStep, PTL DEF Spec

\* Templates, jobs, the histories of the connections and the channels of the
\* client are always within their bounds, for any number of blocks and miners.
THEOREM TypeCorrect == Spec => []TypeOK
<1>1. ASSUME Inv PROVE TypeOK
  <2> USE <1>1 DEF Inv
  <2>1. node.maxTop \in Nat /\ top \in 0 .. node.maxTop
    BY NodeFacts DEF ChainOK
  <2>2. \A t \in DOMAIN heap : heap[t].height \in 1 .. node.maxTop + 1 /\ heap[t].rcpt \in Conns \cup {None}
    <3>1. \A b \in TemplateTypes : b.height \in Nat /\ b.rcpt \in Conns \cup {None}
      BY DEF TemplateTypes, TemplateType
    <3>2. HeapOK
      OBVIOUS
    <3>3. \A t \in DOMAIN heap : heap[t] \in TemplateTypes /\ heap[t].height \in 1 .. top + 1
      BY <3>2, HeapTypes DEF HeapOK
    <3> QED BY <2>1, <3>1, <3>3
  <2>3. \A j \in DOMAIN job : job[j].tpl \in 0 .. Len(heap)
    BY DEF JobOK
  <2>4. \A c \in Conns : Len(conn[c].jobs) <= STRATUM_JOBS_HISTORY
    BY DEF ConnOK, MinerHolds
  <2>5. merge.diff \in Limb
    BY DEF MergeOK, MergeType
  <2>6. ASSUME NEW S, NEW q \in AtMostOne(S) PROVE Len(q) \in {0, 1}
    <3>1. q \in Seq(S) /\ Len(q) <= 1
      BY DEF AtMostOne
    <3>2. PICK n \in Nat : n = Len(q)
      BY <3>1
    <3>3. n <= 1
      BY <3>1, <3>2
    <3>4. n \in {0, 1}
      BY <3>3
    <3> QED BY <3>2, <3>4
  <2>7. Len(cl.chan) \in {0, 1} /\ Len(cl.resp) \in {0, 1} /\ Len(cl.scan) \in {0, 1}
    BY <2>6 DEF ClientOK, ClientType
  <2> QED BY <2>1, <2>2, <2>3, <2>4, <2>5, <2>7 DEF TypeOK, HeapOK, LockOK, ChainOK
<1> QED BY <1>1, Invariance, PTL

\* A solution that AddBlock takes was found for the block that is stored, never
\* pays INVALID_ADDRESS, and pays its finder unless several connections were
\* given the same block.
THEOREM SolutionsPay == Spec => []AcceptedPays
<1>1. Inv => AcceptedPays
  BY DEF Inv, ChainOK
<1> QED BY <1>1, Invariance, PTL

\* No rounding of target and difficulty, of whatever width and for whatever
\* difficulties of the node and of the slave chain's jobs, costs a miner a share.
THEOREM SharesCount == Spec => []ShareCounts
<1>1. ASSUME Inv, NEW c \in Conns, conn[c].at = "refused"
      PROVE  LET s == conn[c].share
             IN  \/ heap[s.t].touched > 1
                 \/ s.min # heap[s.t].min
                 \/ s.blob.merged # 0 /\ (s.offered = 0 \/ s.offered > s.min)
  <2>1. PICK s : s = conn[c].share
    OBVIOUS
  <2>2. Solution(c, s) /\ Offered(s) /\ Refused(s)
    BY <1>1, <2>1 DEF Inv, ConnOK, MinerHolds, Solving, Tried
  <2>0. s.offered \in Nat /\ s.min \in Nat
    BY <2>2, BaseType DEF Solution, ShareType, PosLimb, Limb
  <2> SUFFICES ASSUME ~(heap[s.t].touched > 1), s.min = heap[s.t].min,
                      s.blob.merged = 0 \/ (s.offered # 0 /\ s.offered <= s.min)
               PROVE  FALSE
    BY <2>0, <2>1
  <2>3. s.t \in DOMAIN heap /\ heap[s.t] \in TemplateTypes
    <3>1. HeapOK
      BY <1>1 DEF Inv
    <3>2. s.t \in DOMAIN heap
      BY <2>2 DEF Solution, Given
    <3> QED BY <3>1, <3>2, HeapTypes
  <2>4. heap[s.t].touched = 1
    BY <2>2, <2>3 DEF Solution, Given, TemplateTypes, TemplateType
  <2>5. s.pow \in Number /\ MeetsTarget(s.pow, GetTarget(From64(s.min))) /\ s.blob.merged = heap[s.t].merged
    BY <2>2, <2>4 DEF Solution, ShareType
  <2>6. MinOf(heap[s.t])
    BY <1>1, <2>3 DEF Inv, HeapOK
  <2>7. CASE s.min = node.diff
    <3>1. node.diff \in PosLimb
      BY <1>1, NodeFacts
    <3>2. ValidPowHash(s.pow, From64(node.diff))
      BY <2>5, <2>7, <3>1, TargetSolves
    <3> QED BY <2>2, <3>2 DEF Refused
  <2>8. CASE s.blob.merged # 0
    BY <2>2, <2>4, <2>8 DEF Offered, Refused
  <2> QED BY <2>5, <2>6, <2>7, <2>8 DEF MinOf
<1>2. Inv => ShareCounts
  BY <1>1 DEF ShareCounts
<1> QED BY <1>2, Invariance, PTL

\* The integrated miner never stays with a block on an old top unnoticed:
\* NewStratumJob is started before the commit that makes the top old.
THEOREM IntegratedMinerWoken == Spec => []SoloWoken
<1>1. Inv => SoloWoken
  BY DEF Inv, Woken, SoloWoken
<1> QED BY <1>1, Invariance, PTL

\* No interleaving of logins and of the goroutines of SendJob loses a template:
\* a miner without the newest is about to get it, had it before an older one
\* that was written later, or logged in after LastBlock fell back.
THEOREM MinersUpToDate == Spec => []MinerUpToDate
<1>1. Inv => MinerUpToDate
  BY DEF Inv, AllTold, Told, Reached, Pending, MinerUpToDate, LoggedIn
<1> QED BY <1>1, Invariance, PTL

-----------------------------------------------------------------------------
(* uint128.go                                                              *)

\* LeadingZeros64 of a limb that is not zero: the highest bit is where it says.
LEMMA LeadingZeros ==
  ASSUME NEW x \in Limb \ {0}, NEW n, n = LeadingZeros64(x)
  PROVE  n \in 0 .. W - 1 /\ x < Pow(W - n) /\ Pow((W - 1) - n) <= x
<1>1. x \in Nat /\ x > 0 /\ x < Pow(W) /\ W \in Nat /\ W > 0
  BY BaseFacts, PowStep DEF Limb
<1> DEFINE T == {k \in 0 .. W : x < Pow(k)}
<1>2. W \in T /\ T \subseteq Nat
  BY <1>1
<1>3. PICK k \in T : \A j \in T : k <= j
  <2> HIDE DEF T
  <2> QED BY <1>2, LeastNat
<1>4. k # 0
  BY <1>1, PowStep
<1>5. ~(x < Pow(k - 1)) /\ k \in 0 .. W /\ x < Pow(k)
  <2>1. k - 1 \in 0 .. W /\ ~(k <= k - 1)
    BY <1>1, <1>4
  <2> QED BY <1>3, <2>1
<1>6. x >= Pow(k - 1)
  <2>1. k - 1 \in 0 .. W
    BY <1>1, <1>4
  <2>2. Pow(k - 1) \in Nat
    BY <2>1, PowType
  <2> QED BY <1>1, <1>5, <2>2
<1> DEFINE Is(m) == x < Pow(W - m) /\ (m = W \/ x >= Pow(W - m - 1))
<1>7. \E m \in 0 .. W : Is(m)
  <2>1. PICK m : m = W - k
    OBVIOUS
  <2>2. m \in 0 .. W /\ W - m = k /\ W - m - 1 = k - 1
    BY <1>1, <1>5, <2>1
  <2> QED BY <1>5, <1>6, <2>2
<1>8. n = CHOOSE m \in 0 .. W : Is(m)
  BY DEF LeadingZeros64, Pow
<1>9. n \in 0 .. W /\ Is(n)
  <2> HIDE DEF Is
  <2> QED BY <1>7, <1>8
<1>10. n # W
  <2>1. n = W => W - n = 0
    BY <1>1
  <2> QED BY <1>1, <1>9, <2>1, PowStep
<1>11. n \in 0 .. W - 1 /\ W - n - 1 = (W - 1) - n
  BY <1>1, <1>9, <1>10
<1>12. Pow((W - 1) - n) \in Nat
  <2>1. (W - 1) - n \in 0 .. W
    BY <1>1, <1>11
  <2> QED BY <2>1, PowType
<1> QED BY <1>1, <1>9, <1>10, <1>11, <1>12

\* The limbs of a number, and the numbers of two limbs.
LEMMA NumberFacts ==
  ASSUME NEW u \in Number
  PROVE  /\ u.hi \in 0 .. Base - 1 /\ u.lo \in 0 .. Base - 1 /\ u.hi \in Nat /\ u.lo \in Nat
         /\ u = [hi |-> u.hi, lo |-> u.lo]
         /\ Value(u) \in Nat /\ Value(u) < Base * Base
<1>1. u.hi \in 0 .. Base - 1 /\ u.lo \in 0 .. Base - 1 /\ u = [hi |-> u.hi, lo |-> u.lo]
  BY DEF Number, Limb
<1>2. u.hi \in Nat /\ u.lo \in Nat
  BY <1>1, BaseFacts
<1>3. 0 \in 0 .. Base - 1 /\ Base * Base \in Nat
  BY BaseFacts
<1>4. u.hi * Base + u.lo < Base * Base + 0
  BY <1>1, <1>2, <1>3, BaseFacts, LimbOrder
<1>5. u.hi * Base + u.lo \in Nat
  BY <1>2, BaseFacts, MulType
<1> QED BY <1>1, <1>2, <1>3, <1>4, <1>5 DEF Value

\* A limb stands for itself.
LEMMA From64Value ==
  ASSUME NEW n \in Limb
  PROVE  From64(n) \in Number /\ Value(From64(n)) = n
<1>1. From64(n) \in Number /\ From64(n).hi = 0 /\ From64(n).lo = n
  BY BaseFacts DEF From64, Number, Limb
<1>2. 0 * Base + n = n
  BY BaseFacts DEF Limb
<1> QED BY <1>1, <1>2 DEF Value

\* Mul64 panics exactly when the product does not fit.
LEMMA Mul64Exact ==
  ASSUME NEW u \in Number, NEW n \in Limb, NEW p, p = Mul64(u, n)
  PROVE  /\ Value(u) * n < Base * Base => p # Overflow /\ p \in Number /\ Value(p) = Value(u) * n
         /\ ~(Value(u) * n < Base * Base) => p = Overflow
<1>1. PICK hi, lo, ph, p1 : /\ hi = (u.lo * n) \div Base /\ lo = (u.lo * n) % Base
                            /\ ph = (u.hi * n) \div Base /\ p1 = (u.hi * n) % Base
  OBVIOUS
<1>2. PICK uh \in Nat, ul \in Nat : uh = u.hi /\ ul = u.lo
  BY NumberFacts
<1>9. n \in Nat /\ Base \in Nat \ {0}
  BY BaseFacts DEF Limb
<1>10. LimbsOf(Base, uh, ul, n, hi, lo, ph, p1)
  BY <1>1, <1>2 DEF LimbsOf
<1>12. Carries(Base, uh, ul, n, hi, lo, ph, p1)
  BY <1>9, <1>10, LimbProduct
<1>3. /\ hi \in Nat /\ lo \in 0 .. Base - 1 /\ ph \in Nat /\ p1 \in 0 .. Base - 1
      /\ (uh * Base + ul) * n < Base * Base <=> ph = 0 /\ hi + p1 < Base
      /\ ph = 0 => (uh * Base + ul) * n = (hi + p1) * Base + lo
  BY <1>12 DEF Carries
<1>11. Value(u) = uh * Base + ul
  BY <1>2 DEF Value
<1>4. PICK c : c = (hi + p1 + 0) \div Base
  OBVIOUS
<1>5. c # 0 <=> ~(hi + p1 < Base)
  <2>1. PICK s \in Nat : s = hi + p1
    BY <1>3
  <2>2. s + 0 = s /\ c = s \div Base
    BY <1>3, <1>4, <2>1
  <2>3. PICK r : r = s % Base
    OBVIOUS
  <2>4. c \in Nat /\ r \in 0 .. Base - 1 /\ s = c * Base + r
    BY <1>9, <2>1, <2>2, <2>3, DivMod
  <2>5. c # 0 => 1 * Base <= c * Base
    BY <1>9, <2>4, MulMono
  <2>6. c * Base \in Nat
    BY <1>9, <2>4, MulType
  <2> QED BY <1>9, <2>1, <2>4, <2>5, <2>6
<1>6. p = IF ph # 0 \/ c # 0 THEN Overflow ELSE [hi |-> hi + p1, lo |-> lo]
  BY <1>1, <1>4 DEF Mul64, MulHi, MulLo, Carry
<1>7. CASE ph = 0 /\ hi + p1 < Base
  <2>1. p = [hi |-> hi + p1, lo |-> lo]
    BY <1>5, <1>6, <1>7
  <2>2. hi + p1 \in Limb /\ lo \in Limb
    BY <1>9, <1>3, <1>7 DEF Limb
  <2>3. p \in Number
    BY <2>1, <2>2 DEF Number
  <2>4. p # Overflow
    <3>1. "panic" \in DOMAIN Overflow /\ ~("panic" \in DOMAIN p)
      BY <2>1 DEF Overflow
    <3> QED BY <3>1
  <2>5. Value(p) = (hi + p1) * Base + lo
    BY <2>1 DEF Value
  <2> QED BY <1>3, <1>7, <1>11, <2>3, <2>4, <2>5
<1>8. CASE ~(ph = 0 /\ hi + p1 < Base)
  <2>1. p = Overflow
    BY <1>5, <1>6, <1>8
  <2> QED BY <1>3, <1>8, <1>11, <2>1
<1> QED BY <1>7, <1>8

\* Cmp compares the values.
LEMMA CmpExact ==
  ASSUME NEW u \in Number, NEW v \in Number
  PROVE  (Cmp(u, v) >= 0 <=> Value(u) >= Value(v)) /\ (Cmp(u, v) < 0 <=> Value(u) < Value(v))
<1>1. PICK a, b, c, d : a = u.hi /\ b = u.lo /\ c = v.hi /\ d = v.lo
  OBVIOUS
<1>2. a \in Nat /\ b \in 0 .. Base - 1 /\ c \in Nat /\ d \in 0 .. Base - 1 /\ u = [hi |-> a, lo |-> b] /\ v = [hi |-> c, lo |-> d]
  BY <1>1, NumberFacts
<1>3. /\ a * Base + b < c * Base + d <=> a < c \/ (a = c /\ b < d)
      /\ a * Base + b = c * Base + d <=> a = c /\ b = d
  BY <1>2, BaseFacts, LimbOrder
<1>4. PICK x \in Nat, y \in Nat : x = Value(u) /\ y = Value(v)
  BY NumberFacts
<1>5. (x < y <=> a < c \/ (a = c /\ b < d)) /\ (x = y <=> u = v)
  BY <1>1, <1>2, <1>3, <1>4 DEF Value
<1>6. CASE u = v
  BY <1>4, <1>6 DEF Cmp
<1>7. CASE u # v /\ (a < c \/ (a = c /\ b < d))
  <2>1. Cmp(u, v) = -1
    BY <1>1, <1>7 DEF Cmp
  <2> QED BY <1>4, <1>5, <1>7, <2>1
<1>8. CASE u # v /\ ~(a < c \/ (a = c /\ b < d))
  <2>1. Cmp(u, v) = 1
    BY <1>1, <1>8 DEF Cmp
  <2> QED BY <1>4, <1>5, <1>8, <2>1
<1> QED BY <1>6, <1>7, <1>8

\* Sub subtracts the values when it does not panic.
LEMMA SubExact ==
  ASSUME NEW u \in Number, NEW v \in Number, Value(v) <= Value(u)
  PROVE  Sub(u, v) \in Number /\ Value(Sub(u, v)) = Value(u) - Value(v)
<1>1. PICK a, b, c, d : a = u.hi /\ b = u.lo /\ c = v.hi /\ d = v.lo
  OBVIOUS
<1>2. /\ a \in Nat /\ b \in 0 .. Base - 1 /\ c \in Nat /\ d \in 0 .. Base - 1 /\ a < Base
      /\ Base \in Nat \ {0}
  BY <1>1, NumberFacts, BaseFacts
<1>3. PICK x \in Nat, y \in Nat : x = a * Base /\ y = c * Base
  BY <1>2, BaseFacts, MulType
<1>4. Value(u) = x + b /\ Value(v) = y + d
  BY <1>1, <1>3 DEF Value
<1>5. ~(a < c \/ (a = c /\ b < d))
  <2>1. a * Base + b < c * Base + d <=> a < c \/ (a = c /\ b < d)
    BY <1>2, LimbOrder
  <2> QED BY <1>2, <1>3, <1>4, <2>1
<1>6. CASE ~(b < d)
  <2>1. c + 0 = c /\ ~(a < c) /\ a - c - 0 \in 0 .. Base - 1 /\ b - d \in 0 .. Base - 1
    BY <1>2, <1>5, <1>6
  <2>2. (b - d) % Base = b - d
    BY <1>2, <2>1
  <2>3. Sub(u, v) = [hi |-> a - c - 0, lo |-> b - d]
    BY <1>1, <1>6, <2>1, <2>2 DEF Sub, Wrap
  <2>4. PICK z \in Nat : a = c + z /\ z = a - c - 0
    BY <1>2, <2>1
  <2>5. (c + z) * Base = c * Base + z * Base /\ z * Base \in Nat
    BY <1>2, <2>4, MulOver, MulType
  <2>6. Sub(u, v) \in Number /\ Value(Sub(u, v)) = z * Base + (b - d)
    BY <2>1, <2>3, <2>4 DEF Number, Limb, Value
  <2> QED BY <1>2, <1>3, <1>4, <2>4, <2>5, <2>6
<1>7. CASE b < d
  <2>1. ~(a < c + 1) /\ a - c - 1 \in 0 .. Base - 1 /\ b - d \in Int /\ (b - d) + Base \in 0 .. Base - 1
    BY <1>2, <1>5, <1>7
  <2>2. (b - d) % Base = (b - d) + Base
    BY <1>2, <2>1
  <2>3. Sub(u, v) = [hi |-> a - c - 1, lo |-> (b - d) + Base]
    BY <1>1, <1>7, <2>1, <2>2 DEF Sub, Wrap
  <2>4. PICK z \in Nat : a = (c + 1) + z /\ z = a - c - 1
    BY <1>2, <2>1
  <2>5. ((c + 1) + z) * Base = (c + 1) * Base + z * Base /\ z * Base \in Nat /\ (c + 1) * Base = c * Base + 1 * Base
    BY <1>2, <2>4, MulOver, MulType
  <2>6. Sub(u, v) \in Number /\ Value(Sub(u, v)) = z * Base + ((b - d) + Base)
    BY <2>1, <2>3, <2>4 DEF Number, Limb, Value
  <2> QED BY <1>2, <1>3, <1>4, <2>4, <2>5, <2>6
<1> QED BY <1>6, <1>7

\* Division by one limb.
LEMMA Div64Exact ==
  ASSUME NEW u \in Number, NEW n \in Limb \ {0}
  PROVE  /\ Div64(u, n) \in Number /\ Value(Div64(u, n)) = Value(u) \div n
         /\ Mod64(u, n) \in Limb /\ Mod64(u, n) = Value(u) % n
<1>1. PICK a, b : a = u.hi /\ b = u.lo
  OBVIOUS
<1>2. /\ a \in Nat /\ b \in 0 .. Base - 1 /\ a < Base /\ n \in Nat \ {0} /\ n < Base
      /\ Base \in Nat \ {0}
  BY <1>1, NumberFacts, BaseFacts DEF Limb
<1>3. PICK q, r : q = a \div n /\ r = a % n
  OBVIOUS
<1>4. q \in Nat /\ r \in 0 .. n - 1 /\ a = q * n + r
  BY <1>2, <1>3, DivMod
<1>5. PICK m \in Nat : m = r * Base + b
  BY <1>2, <1>4, MulType
<1>6. PICK p, s : p = m \div n /\ s = m % n
  OBVIOUS
<1>7. p \in Nat /\ s \in 0 .. n - 1
  BY <1>2, <1>5, <1>6, DivMod
<1>8. /\ (a * Base + b) \div n = q * Base + p
      /\ (a * Base + b) % n = s /\ p < Base
  BY <1>2, <1>3, <1>5, <1>6, LimbDivision
<1>9. Mod64(u, n) = s
  BY <1>1, <1>3, <1>5, <1>6 DEF Mod64, Rem
<1>10. s \in Limb /\ p \in Limb
  BY <1>2, <1>7, <1>8 DEF Limb
<1>11. Value(u) \div n = q * Base + p /\ Value(u) % n = s
  BY <1>1, <1>8 DEF Value
<1>12. q <= a
  <2>1. q * 1 <= q * n
    <3>1. 1 * q <= n * q
      BY <1>2, <1>4, MulMono
    <3> QED BY <1>2, <1>4, <3>1, MulType
  <2>2. q * n \in Nat
    BY <1>2, <1>4, MulType
  <2> QED BY <1>4, <2>1, <2>2
<1>13. CASE a < n
  <2>1. q = 0
    BY <1>2, <1>3, <1>13
  <2>2. Div64(u, n) = From64((a * Base + b) \div n)
    BY <1>1, <1>13 DEF Div64, Quo
  <2>3. 0 * Base + p = p
    BY <1>2, <1>7
  <2>4. Div64(u, n) = From64(p)
    BY <1>8, <2>1, <2>2, <2>3
  <2>5. Div64(u, n) \in Number /\ Value(Div64(u, n)) = p
    BY <1>10, <2>4, From64Value
  <2> QED BY <1>9, <1>10, <1>11, <2>1, <2>3, <2>5
<1>14. CASE ~(a < n)
  <2>1. Div64(u, n) = [hi |-> q, lo |-> p]
    BY <1>1, <1>3, <1>5, <1>6, <1>14 DEF Div64, Quo
  <2>2. q \in Limb
    BY <1>2, <1>4, <1>12 DEF Limb
  <2>3. Div64(u, n) \in Number /\ Value(Div64(u, n)) = q * Base + p
    BY <1>10, <2>1, <2>2 DEF Number, Value
  <2> QED BY <1>9, <1>10, <1>11, <2>3
<1> QED BY <1>13, <1>14

\* Rsh by one bit halves.
LEMMA RshHalves ==
  ASSUME NEW u \in Number
  PROVE  Rsh(u, 1).hi \in Nat /\ Rsh(u, 1).lo \in Nat /\ Value(Rsh(u, 1)) = Value(u) \div 2
<1>1. PICK a, b : a = u.hi /\ b = u.lo
  OBVIOUS
<1>2. a \in Nat /\ b \in Nat /\ Base \in Nat \ {0}
  BY <1>1, NumberFacts, BaseFacts
<1>3. PICK half \in Nat : half = Pow(W - 1) /\ Base = 2 * half
  <2>1. W - 1 \in 0 .. W - 1 /\ W - 1 \in 0 .. W /\ (W - 1) + 1 = W
    BY PowStep
  <2> QED BY <2>1, PowStep, PowType
<1>4. PICK i, j, k, l : i = a \div 2 /\ j = a % 2 /\ k = b \div 2 /\ l = b % 2
  OBVIOUS
<1>5. /\ i \in Nat /\ j \in 0 .. 1 /\ a = i * 2 + j
      /\ k \in Nat /\ l \in 0 .. 1 /\ b = k * 2 + l
  BY <1>2, <1>4
<1>6. PICK x \in Nat : x = j * half
  BY <1>3, <1>5
<1>7. (a * half) % Base = x
  <2>1. a * half = i * Base + x
    BY <1>3, <1>5, <1>6
  <2>2. x \in 0 .. Base - 1
    <3>1. j = 0 \/ j = 1
      BY <1>5
    <3> QED BY <1>2, <1>3, <1>6, <3>1
  <2>3. a * half \in Nat
    BY <1>2, <1>3, MulType
  <2> QED BY <1>2, <1>5, <2>1, <2>2, <2>3, DivUnique
<1>8. Rsh(u, 1).hi = i /\ Rsh(u, 1).lo = k + x
  <2>1. 2^1 = 2 /\ 2^(W - 1) = half
    BY <1>3, PowStep DEF Pow
  <2> QED BY <1>1, <1>4, <1>7, <2>1 DEF Rsh, Wrap
<1>9. PICK y \in Nat : y = i * Base
  BY <1>2, <1>5, MulType
<1>10. a * Base + b = (y + (k + x)) * 2 + l
  <2>1. a * Base = 2 * (i * Base) + 2 * (j * half)
    BY <1>3, <1>5
  <2> QED BY <1>5, <1>6, <1>9, <2>1
<1>11. a * Base + b \in Nat /\ y + (k + x) \in Nat
  BY <1>2, <1>5, MulType
<1>12. (a * Base + b) \div 2 = y + (k + x)
  BY <1>5, <1>10, <1>11, DivUnique
<1> QED BY <1>1, <1>5, <1>8, <1>9, <1>12 DEF Value

\* The trial quotient is the quotient or one less.
LEMMA TrialExact ==
  ASSUME NEW u \in Number, NEW v \in Number, v.hi # 0, NEW q, q = Value(u) \div Value(v)
  PROVE  q \in Nat /\ TrialQuotient(u, v) \in Nat /\ (TrialQuotient(u, v) = q \/ TrialQuotient(u, v) + 1 = q)
<1>1. PICK a, c, d : a = Value(u) /\ c = v.hi /\ d = v.lo
  OBVIOUS
<1>2. /\ a \in Nat /\ a < Base * Base /\ c \in Nat /\ c # 0 /\ c \in Limb \ {0} /\ d \in Nat /\ d < Base
      /\ Base \in Nat \ {0}
  BY <1>1, NumberFacts, BaseFacts DEF Limb
<1>3. PICK n : n = LeadingZeros64(c)
  OBVIOUS
<1>4. n \in 0 .. W - 1 /\ c < Pow(W - n) /\ Pow((W - 1) - n) <= c
  BY <1>2, <1>3, LeadingZeros
<1>5. /\ n \in 0 .. W /\ W - n \in 0 .. W /\ (W - 1) - n \in 0 .. W - 1 /\ (W - 1) - n \in 0 .. W
      /\ ((W - 1) - n) + 1 = W - n
  BY <1>4, PowStep
<1>6. PICK p, e, h : p = Pow(W - n) /\ e = Pow(n) /\ h = Pow((W - 1) - n)
  OBVIOUS
<1>7. p \in Nat \ {0} /\ e \in Nat \ {0} /\ h \in Nat \ {0} /\ p * e = Base /\ p = 2 * h /\ c < p /\ h <= c
  BY <1>4, <1>5, <1>6, PowType, PowSplit, PowStep
<1>8. PICK z \in Nat : z = c * e
  BY <1>2, <1>7, MulType
<1>9. z < Base
  <2>1. (c + 1) * e <= p * e /\ (c + 1) * e = c * e + 1 * e
    BY <1>2, <1>7, MulMono, MulOver
  <2> QED BY <1>2, <1>7, <1>8, <2>1
<1>10. z % Base = z
  BY <1>2, <1>8, <1>9
<1>11. PICK k, f : k = d \div p /\ f = d % p
  OBVIOUS
<1>12. k \in Nat /\ f \in 0 .. p - 1 /\ d = k * p + f
  BY <1>2, <1>7, <1>11, DivMod
<1>13. PICK v1 \in Nat : v1 = z + k
  BY <1>8, <1>12
<1>14. Lsh(v, n).hi = v1
  BY <1>1, <1>6, <1>8, <1>10, <1>11, <1>13 DEF Lsh, Wrap, Pow
<1>15. Value(v) = v1 * p + f
  <2>0. p \in Nat
    BY <1>7
  <2>1. v1 * p = z * p + k * p
    BY <1>12, <1>13, <2>0, MulOver
  <2>2. z * p = c * Base
    <3>1. (c * e) * p = c * (p * e)
      BY <1>2, <1>7
    <3> QED BY <1>7, <1>8, <3>1
  <2>3. PICK i, j : i = c * Base /\ j = k * p
    OBVIOUS
  <2>4. i \in Nat /\ j \in Nat
    BY <1>2, <1>7, <1>12, <2>3, MulType
  <2>5. Value(v) = i + (j + f) /\ v1 * p = i + j
    BY <1>1, <1>12, <2>1, <2>2, <2>3 DEF Value
  <2> QED BY <1>12, <2>4, <2>5
<1>16. Base <= 2 * v1
  <2>1. h * e <= c * e
    BY <1>2, <1>7, MulMono
  <2>2. p * e = 2 * (h * e) /\ h * e \in Nat
    BY <1>7
  <2> QED BY <1>2, <1>7, <1>8, <1>12, <1>13, <2>1, <2>2
<1>17. p >= 2
  BY <1>7
<1>18. /\ Value(v) \in Nat \ {0} /\ v1 * p \in Nat \ {0}
       /\ a \div Value(v) <= a \div (v1 * p) /\ a \div (v1 * p) <= (a \div Value(v)) + 1
  BY <1>2, <1>7, <1>12, <1>13, <1>15, <1>16, <1>17, TrialBound
<1>19. PICK t : t = a \div (v1 * p)
  OBVIOUS
<1>20. q \in Nat /\ t \in Nat /\ q <= t /\ t <= q + 1
  BY <1>1, <1>2, <1>18, <1>19, DivMod
<1>21. Quo(Rsh(u, 1).hi, Rsh(u, 1).lo, v1) \div h = t
  <2>1. Quo(Rsh(u, 1).hi, Rsh(u, 1).lo, v1) = (a \div 2) \div v1
    BY <1>1, RshHalves DEF Quo, Value
  <2>2. v1 \in Nat \ {0} /\ 2 \in Nat \ {0}
    BY <1>2, <1>13, <1>16
  <2>6. a \in Nat /\ h \in Nat \ {0}
    BY <1>2, <1>7
  <2>7. PICK two : two = 2 /\ two \in Nat \ {0}
    BY <2>2
  <2>3. two * v1 \in Nat \ {0} /\ (a \div two) \div v1 = a \div (two * v1)
    BY <2>2, <2>6, <2>7, DivDiv
  <2>8. PICK m : m = two * v1
    OBVIOUS
  <2>4. (a \div m) \div h = a \div (m * h)
    BY <2>3, <2>6, <2>8, DivDiv
  <2>5. (2 * v1) * h = v1 * p
    BY <1>7, <1>13
  <2> QED BY <1>19, <2>1, <2>3, <2>4, <2>5, <2>7, <2>8
<1>22. TrialQuotient(u, v) = IF t # 0 THEN t - 1 ELSE t
  BY <1>1, <1>3, <1>6, <1>14, <1>21 DEF TrialQuotient, Pow
<1> QED BY <1>20, <1>22

\* QuoRem divides, whichever branch it takes.
LEMMA QuoRemExact ==
  ASSUME NEW u \in Number, NEW v \in Number, Value(v) # 0, NEW d, d = QuoRem(u, v)
  PROVE  /\ d.q \in Number /\ Value(d.q) = Value(u) \div Value(v)
         /\ d.r \in Number /\ Value(d.r) = Value(u) % Value(v)
<1>1. CASE v.hi = 0
  <2>1. Value(v) = v.lo /\ v.lo \in Limb \ {0}
    <3>1. v.lo \in Nat /\ v.lo \in Limb /\ Base \in Nat
      BY NumberFacts, BaseFacts DEF Limb
    <3>2. Value(v) = v.lo
      BY <1>1, <3>1 DEF Value
    <3> QED BY <3>1, <3>2
  <2>2. d.q = Div64(u, v.lo) /\ d.r = From64(Mod64(u, v.lo))
    BY <1>1 DEF QuoRem
  <2> QED BY <2>1, <2>2, Div64Exact, From64Value
<1>2. CASE v.hi # 0
  <2>1. PICK a, b, q, w : a = Value(u) /\ b = Value(v) /\ q = a \div b /\ w = a % b
    OBVIOUS
  <2>2. a \in Nat /\ a < Base * Base /\ b \in Nat \ {0} /\ Base \in Nat \ {0}
    BY <2>1, NumberFacts, BaseFacts
  <2>3. q \in Nat /\ w \in 0 .. b - 1 /\ a = q * b + w
    BY <2>1, <2>2, DivMod
  <2>19. w \in Nat /\ w < b /\ b \in Nat
    BY <2>2, <2>3
  <2>4. Base <= b
    <3>1. v.hi \in Nat /\ v.lo \in Nat
      BY NumberFacts
    <3>2. 1 * Base <= v.hi * Base /\ v.hi * Base \in Nat
      BY <1>2, <2>2, <3>1, MulMono, MulType
    <3> QED BY <2>1, <2>2, <3>1, <3>2 DEF Value
  <2>5. q < Base
    <3>1. Base * Base <= b * Base
      BY <2>2, <2>4, MulMono
    <3>2. b * Base = Base * b /\ Base * b \in Nat /\ Base * Base \in Nat
      BY <2>2, MulType
    <3>3. a < Base * b
      BY <2>2, <3>1, <3>2
    <3> QED BY <2>1, <2>2, <3>3, DivBelow
  <2>6. PICK tq : tq = TrialQuotient(u, v)
    OBVIOUS
  <2>7. tq \in Nat /\ (tq = q \/ tq + 1 = q)
    BY <1>2, <2>1, <2>6, TrialExact
  <2>8. tq \in Limb /\ q \in Limb
    BY <2>2, <2>3, <2>5, <2>7 DEF Limb
  <2>9. PICK x \in Nat, y \in Nat : x = tq * b /\ y = q * b
    BY <2>2, <2>3, <2>7, MulType
  <2>10. x <= y /\ (tq + 1 = q => y = x + b)
    <3>1. tq + 1 = q => y = x + b
      <4>1. (tq + 1) * b = tq * b + 1 * b
        BY <2>2, <2>7, MulOver
      <4> QED BY <2>2, <2>9, <4>1
    <3> QED BY <2>2, <2>7, <2>9, <3>1
  <2>11. b * tq = x /\ x < Base * Base
    <3>1. Base * Base \in Nat
      BY <2>2, MulType
    <3> QED BY <2>2, <2>3, <2>7, <2>9, <2>10, <3>1, MulType
  <2>12. PICK m : m = Mul64(v, tq)
    OBVIOUS
  <2>13. m \in Number /\ Value(m) = x
    BY <2>1, <2>8, <2>11, <2>12, Mul64Exact
  <2>14. PICK r : r = Sub(u, m)
    OBVIOUS
  <2>15. r \in Number /\ Value(r) = a - x
    <3>2. a = y + w
      BY <2>3, <2>9
    <3>3. x <= a
      BY <2>10, <2>19, <3>2
    <3>1. Value(m) <= Value(u)
      BY <2>1, <2>13, <3>3
    <3> QED BY <2>1, <2>13, <2>14, <3>1, SubExact
  <2>16. d = IF Cmp(r, v) >= 0 THEN [q |-> From64(tq + 1), r |-> Sub(r, v)] ELSE [q |-> From64(tq), r |-> r]
    BY <1>2, <2>6, <2>12, <2>14 DEF QuoRem
  <2>17. CASE tq = q
    <3>1. Value(r) = w
      BY <2>3, <2>9, <2>15, <2>17
    <3>2. ~(Cmp(r, v) >= 0)
      BY <2>1, <2>2, <2>3, <2>15, <3>1, CmpExact
    <3>3. d.q = From64(q) /\ d.r = r
      BY <2>16, <2>17, <3>2
    <3> QED BY <2>1, <2>8, <2>15, <3>1, <3>3, From64Value
  <2>18. CASE tq + 1 = q
    <3>1. Value(r) = w + b
      BY <2>2, <2>3, <2>9, <2>10, <2>15, <2>18
    <3>2. Value(v) <= Value(r) /\ Value(r) >= Value(v)
      BY <2>1, <2>19, <3>1
    <3>3. Cmp(r, v) >= 0
      BY <2>15, <3>2, CmpExact
    <3>4. d.q = From64(q) /\ d.r = Sub(r, v)
      BY <2>16, <2>18, <3>3
    <3>5. Sub(r, v) \in Number /\ Value(Sub(r, v)) = Value(r) - Value(v)
      BY <2>15, <3>2, SubExact
    <3>6. Value(Sub(r, v)) = w
      BY <2>1, <2>19, <3>1, <3>5
    <3> QED BY <2>1, <2>8, <3>4, <3>5, <3>6, From64Value
  <2> QED BY <2>7, <2>17, <2>18
<1> QED BY <1>1, <1>2

\* The arithmetic of uint128.go is exact for limbs of any width, 64 bits among them:
\* QuoRem corrects the trial quotient at most once and that is enough, it never panics
\* in between, and Mul64 panics on no product that fits.
THEOREM ArithmeticExact == Exact /\ (Spec => []Uint128Exact)
<1>1. ASSUME NEW u \in Number, NEW v \in Number
      PROVE  /\ Value(v) # 0 => LET d == QuoRem(u, v)
                                IN  /\ d.q \in Number /\ Value(d.q) = Value(u) \div Value(v)
                                    /\ d.r \in Number /\ Value(d.r) = Value(u) % Value(v)
             /\ LET p == Mul64(u, v.lo)
                IN  IF Value(u) * v.lo < Base * Base
                      THEN p # Overflow /\ Value(p) = Value(u) * v.lo
                      ELSE p = Overflow
  <2>1. v.lo \in Limb
    BY DEF Number
  <2>2. Value(v) # 0 => LET d == QuoRem(u, v)
                        IN  /\ d.q \in Number /\ Value(d.q) = Value(u) \div Value(v)
                            /\ d.r \in Number /\ Value(d.r) = Value(u) % Value(v)
    BY QuoRemExact
  <2>3. LET p == Mul64(u, v.lo)
        IN  IF Value(u) * v.lo < Base * Base
              THEN p # Overflow /\ Value(p) = Value(u) * v.lo
              ELSE p = Overflow
    BY <2>1, Mul64Exact
  <2> QED BY <2>2, <2>3
<1>2. Exact
  BY <1>1 DEF Exact
<1>3. Uint128Exact
  BY <1>2 DEF Uint128Exact
<1>4. Spec => []Uint128Exact
  BY <1>3, PTL
<1> QED BY <1>2, <1>4

-----------------------------------------------------------------------------
(* difficulty.go                                                           *)

\* N * target, and what difficultyEMA makes of difficulty d and solve time s.
Window == DIFFICULTY_N * TargetTime
Average(d, s) == (d * Window) \div ((Window - TargetTime) + s)

\* The averaging window fits a limb and is longer than one target time.
LEMMA WindowFacts ==
  /\ U!Base \in Nat \ {0} /\ DIFFICULTY_N \in Nat /\ DIFFICULTY_N > 1 /\ TargetTime \in Nat /\ TargetTime > 0
  /\ MIN_DIFFICULTY \in Nat /\ MIN_DIFFICULTY > 0
  /\ Window \in Nat /\ Window > TargetTime /\ Window < U!Base
  /\ Window - TargetTime = (DIFFICULTY_N - 1) * TargetTime
<1>1. PICK n \in Nat, t \in Nat : n = DIFFICULTY_N /\ t = TargetTime
  BY DifficultyAssumption
<1>2. n > 1 /\ t > 0 /\ MIN_DIFFICULTY \in Nat /\ MIN_DIFFICULTY > 0 /\ U!Base \in Nat /\ n * t < U!Base
  BY <1>1, DifficultyAssumption DEF U!Base
<1>3. PICK m \in Nat : n = m + 1 /\ m = n - 1 /\ m > 0
  BY <1>1, <1>2
<1>4. (m + 1) * t = m * t + 1 * t /\ m * t \in Nat /\ m * t > 0
  BY <1>1, <1>2, <1>3, MulOver, MulType
<1>5. PICK x \in Nat : x = m * t /\ x > 0
  BY <1>4
<1>6. n * t = x + t
  BY <1>1, <1>3, <1>4, <1>5
<1>7. Window = x + t
  BY <1>1, <1>6 DEF Window
<1> QED BY <1>1, <1>2, <1>3, <1>5, <1>6, <1>7

\* A number of two limbs, the lower one below the base.
Limbs(r) == r = [hi |-> r.hi, lo |-> r.lo] /\ r.hi \in Nat /\ r.lo \in 0 .. U!Base - 1

\* difficultyEMA is the moving average, rounded down: the product does not overflow.
LEMMA AverageExact ==
  ASSUME NEW d \in SampleDiffs, NEW s \in Nat, NEW r, r = difficultyEMA(s, U!From64(d))
  PROVE  Limbs(r) /\ U!Value(r) = Average(d, s)
<1>1. PICK base, a, n : base = U!Base /\ a = Window /\ n = (Window - TargetTime) + s
  OBVIOUS
<1>2. /\ base \in Nat \ {0} /\ a \in Nat /\ a > 0 /\ a < base /\ n \in Nat \ {0}
      /\ d \in Nat /\ d < base
  BY <1>1, WindowFacts, DifficultyAssumption DEF U!Base
<1>3. PICK m \in Nat : m = d * a
  BY <1>2, MulType
<1>4. PICK hi, lo : hi = m \div base /\ lo = m % base
  OBVIOUS
<1>5. hi \in Nat /\ lo \in 0 .. base - 1 /\ m = hi * base + lo
  BY <1>2, <1>3, <1>4, DivMod
<1>6. hi < base
  <2>1. d * a <= base * a /\ a * base <= base * base
    BY <1>2, MulMono
  <2>2. base * a = a * base /\ base * a \in Nat /\ base * base \in Nat
    BY <1>2, MulType
  <2>3. (d + 1) * a <= base * a /\ (d + 1) * a = d * a + 1 * a
    BY <1>2, MulMono, MulOver
  <2>4. m < base * base
    BY <1>2, <1>3, <2>1, <2>2, <2>3
  <2> QED BY <1>2, <1>3, <1>4, <2>4, DivBelow
<1>7. U!Mul64(U!From64(d), a) = [hi |-> hi, lo |-> lo]
  <2>1. PICK u : u = U!From64(d)
    OBVIOUS
  <2>2. u.hi = 0 /\ u.lo = d
    BY <2>1 DEF U!From64
  <2>3. (0 * a) \div base = 0 /\ (0 * a) % base = 0
    BY <1>2
  <2>4. (hi + 0 + 0) \div base = 0 /\ hi + 0 = hi
    BY <1>2, <1>5, <1>6
  <2>5. /\ U!MulHi(u.lo, a) = hi /\ U!MulLo(u.lo, a) = lo /\ U!MulHi(u.hi, a) = 0 /\ U!MulLo(u.hi, a) = 0
        /\ U!Carry(hi, 0, 0) = 0
    BY <1>1, <1>3, <1>4, <2>2, <2>3, <2>4 DEF U!MulHi, U!MulLo, U!Carry
  <2>6. U!Mul64(u, a) = [hi |-> hi + 0, lo |-> lo]
    BY <2>5 DEF U!Mul64
  <2> QED BY <2>1, <2>4, <2>6
<1>8. PICK u : u = [hi |-> hi, lo |-> lo]
  OBVIOUS
<1>9. u.hi = hi /\ u.lo = lo
  BY <1>8
<1>10. r = U!Div64(u, n)
  <2>1. DIFFICULTY_N * TargetTime - TargetTime + s = n
    BY <1>1, WindowFacts DEF Window
  <2> QED BY <1>1, <1>7, <1>8, <2>1 DEF difficultyEMA, Window
<1>11. PICK i, j, k : i = hi \div n /\ j = hi % n /\ k = ((hi % n) * base + lo) \div n
  OBVIOUS
<1>12. m \div n = i * base + k /\ k < base
  BY <1>2, <1>5, <1>11, LimbDivision
<1>13. i \in Nat /\ j \in 0 .. n - 1
  BY <1>2, <1>5, <1>11, DivMod
<1>14. k \in Nat
  <2>0. j \in Nat /\ base \in Nat /\ lo \in Nat
    BY <1>2, <1>5, <1>13
  <2>00. j * base \in Nat
    BY <2>0, MulType
  <2>1. PICK x \in Nat : x = j * base + lo
    BY <2>0, <2>00
  <2>2. k = x \div n
    BY <1>11, <2>1
  <2> QED BY <1>2, <2>1, <2>2, DivMod
<1>15. CASE hi < n
  <2>1. i = 0 /\ j = hi
    BY <1>2, <1>5, <1>11, <1>15
  <2>2. r = [hi |-> 0, lo |-> k]
    BY <1>1, <1>9, <1>10, <1>11, <1>15, <2>1 DEF U!Div64, U!From64, U!Quo
  <2>3. U!Value(r) = 0 * base + k
    BY <1>1, <2>2 DEF U!Value
  <2> QED BY <1>1, <1>2, <1>3, <1>12, <1>14, <2>1, <2>2, <2>3 DEF Limbs, Average
<1>16. CASE ~(hi < n)
  <2>2. r = [hi |-> i, lo |-> k]
    BY <1>1, <1>9, <1>10, <1>11, <1>16 DEF U!Div64, U!Quo
  <2>3. U!Value(r) = i * base + k
    BY <1>1, <2>2 DEF U!Value
  <2> QED BY <1>1, <1>2, <1>3, <1>12, <1>13, <1>14, <2>2, <2>3 DEF Limbs, Average
<1> QED BY <1>15, <1>16

\* The next difficulty is the average, and no less than MIN_DIFFICULTY.
LEMMA NextExact ==
  ASSUME NEW d \in SampleDiffs, NEW t \in SampleTimes, NEW dev,
         NEW s \in Nat, s = DeltaTime(t, dev), NEW e, e = Average(d, s),
         NEW next, next = U!Value(GetNextDifficulty(2, U!From64(d), t, dev))
  PROVE  e \in Nat /\ next = IF e < MIN_DIFFICULTY THEN MIN_DIFFICULTY ELSE e
<1>1. PICK r : r = difficultyEMA(s, U!From64(d))
  OBVIOUS
<1>2. Limbs(r) /\ U!Value(r) = e
  BY <1>1, AverageExact
<1>3. PICK base, m : base = U!Base /\ m = MIN_DIFFICULTY
  OBVIOUS
<1>4. base \in Nat \ {0} /\ m \in Nat /\ d \in Nat /\ m <= d /\ d < base
  BY <1>3, WindowFacts, DifficultyAssumption DEF U!Base
<1>5. PICK hi \in Nat, lo \in 0 .. base - 1 : r = [hi |-> hi, lo |-> lo] /\ e = hi * base + lo
  BY <1>2, <1>3 DEF Limbs, U!Value
<1>6. PICK v : v = U!From64(m)
  OBVIOUS
<1>7. v = [hi |-> 0, lo |-> m] /\ m \in 0 .. base - 1
  BY <1>4, <1>6 DEF U!From64
<1>8. 0 * base + m = m
  BY <1>4
<1>9. /\ hi * base + lo < 0 * base + m <=> hi < 0 \/ (hi = 0 /\ lo < m)
      /\ hi * base + lo = 0 * base + m <=> hi = 0 /\ lo = m
  BY <1>4, <1>5, <1>7, LimbOrder
<1>10. e \in Nat
  BY <1>4, <1>5, MulType
<1>11. U!Cmp64(r, m) < 0 <=> e < m
  <2>1. PICK c : c = U!Cmp64(r, m)
    OBVIOUS
  <2>2. c = IF r = v THEN 0 ELSE IF r.hi < v.hi \/ (r.hi = v.hi /\ r.lo < v.lo) THEN -1 ELSE 1
    BY <1>6, <2>1 DEF U!Cmp64, U!Cmp
  <2>3. r.hi = hi /\ r.lo = lo /\ v.hi = 0 /\ v.lo = m
    BY <1>5, <1>7
  <2>4. CASE hi = 0 /\ lo = m
    <3>1. r = v
      BY <1>5, <1>7, <2>4
    <3> QED BY <1>5, <1>8, <1>9, <1>10, <2>1, <2>2, <2>4, <3>1
  <2>5. CASE ~(hi = 0 /\ lo = m)
    <3>1. r # v
      BY <2>3, <2>5
    <3>2. c = IF hi < 0 \/ (hi = 0 /\ lo < m) THEN -1 ELSE 1
      BY <2>2, <2>3, <3>1
    <3> QED BY <1>5, <1>8, <1>9, <2>1, <3>2
  <2> QED BY <2>4, <2>5
<1>12. GetNextDifficulty(2, U!From64(d), t, dev) = IF U!Cmp64(r, m) < 0 THEN v ELSE r
  BY <1>1, <1>3, <1>6 DEF GetNextDifficulty
<1>13. U!Value(v) = m
  <2>1. v.hi = 0 /\ v.lo = m
    BY <1>7
  <2> QED BY <1>3, <1>8, <2>1 DEF U!Value
<1> QED BY <1>2, <1>3, <1>10, <1>11, <1>12, <1>13

\* The corrections of the solve time.
LEMMA DeltaFacts ==
  ASSUME NEW t \in Nat, NEW dev \in Deviations
  PROVE  /\ DeltaTime(t, dev) \in Nat
         /\ t <= TargetTime /\ dev # "behind" => DeltaTime(t, dev) <= TargetTime
         /\ t >= TargetTime /\ dev # "ahead" => DeltaTime(t, dev) >= TargetTime
         /\ \A t2 \in Nat : t2 >= t => DeltaTime(t2, dev) >= DeltaTime(t, dev)
<1> DEFINE delta(x) == IF x < 1 THEN 1 ELSE x
<1>0. TargetTime \in Nat /\ TargetTime > 0
  BY WindowFacts
<1>1. CASE dev = "behind"
  <2>1. \A x : DeltaTime(x, dev) = (delta(x) * 3) \div 2
    BY <1>1 DEF DeltaTime
  <2> QED BY <1>0, <1>1, <2>1
<1>2. CASE dev = "ahead"
  <2>1. \A x : DeltaTime(x, dev) = (delta(x) * 2) \div 3
    BY <1>2 DEF DeltaTime
  <2> QED BY <1>0, <1>2, <2>1
<1>3. CASE dev # "ahead" /\ dev # "behind"
  <2>1. \A x : DeltaTime(x, dev) = delta(x)
    BY <1>3 DEF DeltaTime
  <2> QED BY <1>0, <1>3, <2>1
<1> QED BY <1>1, <1>2, <1>3

\* The average falls with the solve time, is the difficulty itself at the target time,
\* and at most N / (N - 1) of it.
LEMMA AverageBounds ==
  ASSUME NEW d \in SampleDiffs, NEW s \in Nat
  PROVE  /\ d \in Nat /\ MIN_DIFFICULTY <= d /\ Average(d, s) \in Nat
         /\ s <= TargetTime => Average(d, s) >= d
         /\ s >= TargetTime => Average(d, s) <= d
         /\ Average(d, s) * (DIFFICULTY_N - 1) <= d * DIFFICULTY_N
         /\ \A s2 \in Nat : s2 >= s => Average(d, s2) <= Average(d, s)
<1>1. PICK a, k, n, t : a = Window /\ k = Window - TargetTime /\ n = k + s /\ t = TargetTime
  OBVIOUS
<1>2. /\ a \in Nat \ {0} /\ k \in Nat \ {0} /\ t \in Nat \ {0} /\ a = k + t /\ n \in Nat \ {0} /\ n = k + s
      /\ d \in Nat /\ MIN_DIFFICULTY <= d
  BY <1>1, WindowFacts, DifficultyAssumption DEF U!Base
<1>3. PICK m \in Nat : m = d * a
  BY <1>2, MulType
<1>4. PICK e : e = m \div n
  OBVIOUS
<1>5. e \in Nat /\ e = Average(d, s) /\ m = e * n + (m % n) /\ m % n \in 0 .. n - 1
  BY <1>1, <1>2, <1>3, <1>4, DivMod DEF Average
<1>6. m \div a = d
  <2>1. m = d * a + 0 /\ 0 \in 0 .. a - 1
    BY <1>2, <1>3
  <2> QED BY <1>2, <1>3, <2>1, DivUnique
<1>7. s <= t => e >= d
  <2> SUFFICES ASSUME s <= t PROVE e >= d
    OBVIOUS
  <2>1. n <= a /\ m <= m
    BY <1>2, <1>3
  <2>2. m \div a <= m \div n
    <3>1. a \in Nat \ {0} /\ n \in Nat \ {0} /\ m \in Nat
      BY <1>2, <1>3
    <3> QED BY ONLY <2>1, <3>1, DivMono
  <2> QED BY <1>2, <1>4, <1>5, <1>6, <2>2
<1>8. s >= t => e <= d
  <2> SUFFICES ASSUME s >= t PROVE e <= d
    OBVIOUS
  <2>1. a <= n /\ m <= m
    BY <1>2, <1>3
  <2>2. m \div n <= m \div a
    <3>1. a \in Nat \ {0} /\ n \in Nat \ {0} /\ m \in Nat
      BY <1>2, <1>3
    <3> QED BY ONLY <2>1, <3>1, DivMono
  <2> QED BY <1>2, <1>4, <1>5, <1>6, <2>2
<1>9. ASSUME NEW s2 \in Nat, s2 >= s PROVE Average(d, s2) <= e
  <2>1. PICK n2 : n2 = k + s2
    OBVIOUS
  <2>2. n2 \in Nat \ {0} /\ n \in Nat \ {0} /\ n <= n2
    BY <1>2, <1>9, <2>1
  <2>3. m \div n2 <= m \div n
    <3>1. m \in Nat /\ m <= m
      BY <1>3
    <3> QED BY ONLY <2>2, <3>1, DivMono
  <2>4. Average(d, s2) = m \div n2
    BY <1>1, <1>3, <2>1 DEF Average
  <2> QED BY <1>4, <2>3, <2>4
<1>10. e * (DIFFICULTY_N - 1) <= d * DIFFICULTY_N
  <2>1. PICK p \in Nat, q \in Nat : p = DIFFICULTY_N - 1 /\ q = DIFFICULTY_N
    BY WindowFacts
  <2>2. k = p * t /\ a = q * t
    BY <1>1, <2>1, WindowFacts DEF Window
  <2>3. k * e <= n * e
    BY <1>2, <1>5, MulMono
  <2>4. n * e = e * n /\ e * n \in Nat
    BY <1>2, <1>5, MulType
  <2>5. k * e <= m
    <3>1. k * e \in Nat /\ m % n \in Nat
      BY <1>2, <1>5, MulType
    <3> QED BY <1>5, <2>3, <2>4, <3>1
  <2>6. k * e = (e * p) * t
    BY <1>2, <1>5, <2>1, <2>2
  <2>7. m = (d * q) * t
    BY <1>2, <1>3, <2>1, <2>2
  <2>8. PICK x \in Nat, y \in Nat : x = e * p /\ y = d * q
    BY <1>2, <1>5, <2>1, MulType
  <2>9. x <= y
    <3>1. ASSUME y < x PROVE FALSE
      <4>1. (y + 1) * t <= x * t /\ (y + 1) * t = y * t + 1 * t /\ y * t \in Nat /\ x * t \in Nat
        BY <1>2, <2>8, <3>1, MulMono, MulOver, MulType
      <4>2. x * t <= y * t
        BY <2>5, <2>6, <2>7, <2>8
      <4> QED BY <1>2, <4>1, <4>2
    <3> QED BY <2>8, <3>1
  <2> QED BY <2>1, <2>8, <2>9
<1> QED BY <1>1, <1>2, <1>5, <1>7, <1>8, <1>9, <1>10

\* The difficulty answers every solve time in the right direction, for every averaging
\* window, target time, minimum and deviation from the schedule, and for every solve
\* time and difficulty for which no uint64 wraps.
THEOREM DifficultyFollows == Responds /\ (Spec => []DifficultyResponds)
<1>1. ASSUME NEW d \in SampleDiffs, NEW t \in SampleTimes, NEW dev \in Deviations
      PROVE  LET next == U!Value(GetNextDifficulty(2, U!From64(d), t, dev))
             IN  /\ next >= MIN_DIFFICULTY
                 /\ t <= TargetTime /\ dev # "behind" => next >= d
                 /\ t >= TargetTime /\ dev # "ahead" => next <= d
                 /\ next * (DIFFICULTY_N - 1) <= d * DIFFICULTY_N
                 /\ \A t2 \in SampleTimes :
                      t2 >= t => U!Value(GetNextDifficulty(2, U!From64(d), t2, dev)) <= next
  <2>1. \A x \in SampleTimes : x \in Nat
    BY DifficultyAssumption
  <2>2. PICK s, e, next : /\ s = DeltaTime(t, dev) /\ e = Average(d, s)
                          /\ next = U!Value(GetNextDifficulty(2, U!From64(d), t, dev))
    OBVIOUS
  <2>3. /\ t \in Nat /\ s \in Nat
        /\ t <= TargetTime /\ dev # "behind" => s <= TargetTime
        /\ t >= TargetTime /\ dev # "ahead" => s >= TargetTime
    BY <2>1, <2>2, DeltaFacts
  <2>4. /\ d \in Nat /\ MIN_DIFFICULTY <= d /\ e \in Nat
        /\ s <= TargetTime => e >= d
        /\ s >= TargetTime => e <= d
        /\ e * (DIFFICULTY_N - 1) <= d * DIFFICULTY_N
        /\ \A s2 \in Nat : s2 >= s => Average(d, s2) <= e
    BY <2>2, <2>3, AverageBounds
  <2>5. next = IF e < MIN_DIFFICULTY THEN MIN_DIFFICULTY ELSE e
    BY <2>2, <2>3, NextExact
  <2>6. MIN_DIFFICULTY \in Nat /\ DIFFICULTY_N \in Nat /\ DIFFICULTY_N > 1 /\ TargetTime \in Nat
    BY WindowFacts
  <2>7. next * (DIFFICULTY_N - 1) <= d * DIFFICULTY_N
    <3>1. CASE e < MIN_DIFFICULTY
      <4>1. PICK p \in Nat, q \in Nat, m \in Nat : p = DIFFICULTY_N - 1 /\ q = DIFFICULTY_N /\ m = MIN_DIFFICULTY /\ p <= q /\ m <= d
        BY <2>4, <2>6
      <4>2. m * p <= d * p /\ p * d <= q * d
        BY <2>4, <4>1, MulMono
      <4>3. d * p = p * d /\ q * d = d * q /\ m * p \in Nat /\ d * p \in Nat /\ d * q \in Nat
        BY <2>4, <4>1, MulType
      <4>4. m * p <= d * q
        BY <4>2, <4>3
      <4> QED BY <2>5, <3>1, <4>1, <4>4
    <3>2. CASE ~(e < MIN_DIFFICULTY)
      BY <2>4, <2>5, <3>2
    <3> QED BY <3>1, <3>2
  <2>8. ASSUME NEW t2 \in SampleTimes, t2 >= t
        PROVE  U!Value(GetNextDifficulty(2, U!From64(d), t2, dev)) <= next
    <3>1. PICK s2, e2, next2 : /\ s2 = DeltaTime(t2, dev) /\ e2 = Average(d, s2)
                               /\ next2 = U!Value(GetNextDifficulty(2, U!From64(d), t2, dev))
      OBVIOUS
    <3>2. s2 \in Nat /\ s2 >= s
      BY <2>1, <2>2, <2>8, <3>1, DeltaFacts
    <3>3. e2 \in Nat /\ next2 = IF e2 < MIN_DIFFICULTY THEN MIN_DIFFICULTY ELSE e2
      BY <3>1, <3>2, NextExact
    <3>4. e2 <= e
      BY <2>4, <3>1, <3>2
    <3>5. next2 <= next
      BY <2>4, <2>5, <2>6, <3>3, <3>4
    <3> QED BY <3>1, <3>5
  <2>9. next >= MIN_DIFFICULTY
    BY <2>4, <2>5, <2>6
  <2>10. t <= TargetTime /\ dev # "behind" => next >= d
    BY <2>3, <2>4, <2>5, <2>6
  <2>11. t >= TargetTime /\ dev # "ahead" => next <= d
    BY <2>3, <2>4, <2>5, <2>6
  <2> QED BY <2>2, <2>7, <2>8, <2>9, <2>10, <2>11
<1>2. Responds
  BY <1>1 DEF Responds
<1>3. DifficultyResponds
  BY <1>2 DEF DifficultyResponds
<1>4. Spec => []DifficultyResponds
  BY <1>3, PTL
<1> QED BY <1>2, <1>4
=============================================================================
