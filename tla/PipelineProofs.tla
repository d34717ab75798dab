--------------------------- MODULE PipelineProofs ---------------------------
(***************************************************************************)
(* Proofs about Pipeline, for any packets, workers and capacities: type    *)
(* correctness, and that no packet is lost or processed twice while the    *)
(* node runs.                                                              *)
(***************************************************************************)
EXTENDS Pipeline, NatLemmas, FiniteSetTheorems, TLAPS

-----------------------------------------------------------------------------
(* Sequences of packets.                                                   *)

InSeq(s, p) == \E i \in 1..Len(s) : s[i] = p
NoRepeat(s) == \A i, j \in 1..Len(s) : s[i] = s[j] => i = j

\* A packet that is not there is sent, or appended to the list.
LEMMA AppendOnce ==
  ASSUME NEW S, NEW s \in Seq(S), NEW e \in S
  PROVE  /\ Append(s, e) \in Seq(S) /\ Len(Append(s, e)) = Len(s) + 1
         /\ \A p : InSeq(Append(s, e), p) <=> InSeq(s, p) \/ p = e
         /\ NoRepeat(s) /\ ~InSeq(s, e) => NoRepeat(Append(s, e))
<1>1. /\ Len(Append(s, e)) = Len(s) + 1 /\ Append(s, e)[Len(s) + 1] = e
      /\ \A i \in 1..Len(s) : Append(s, e)[i] = s[i]
      /\ Len(s) \in Nat /\ Append(s, e) \in Seq(S)
  OBVIOUS
<1>2. \A i : i \in 1..(Len(s) + 1) <=> i \in 1..Len(s) \/ i = Len(s) + 1
  BY <1>1
<1>3. \A p : InSeq(Append(s, e), p) <=> InSeq(s, p) \/ p = e
  BY <1>1, <1>2 DEF InSeq
<1>4. NoRepeat(s) /\ ~InSeq(s, e) => NoRepeat(Append(s, e))
  BY <1>1, <1>2 DEF NoRepeat, InSeq
<1> QED BY <1>1, <1>3, <1>4

\* A worker receives the first packet of the channel.
LEMMA TailOnce ==
  ASSUME NEW S, NEW s \in Seq(S), s # <<>>
  PROVE  /\ Tail(s) \in Seq(S) /\ Len(Tail(s)) = Len(s) - 1
         /\ Head(s) \in S /\ InSeq(s, Head(s))
         /\ NoRepeat(s) => /\ NoRepeat(Tail(s))
                           /\ \A p : InSeq(Tail(s), p) <=> InSeq(s, p) /\ p # Head(s)
<1>1. /\ Len(s) \in Nat \ {0} /\ Len(Tail(s)) = Len(s) - 1 /\ Tail(s) \in Seq(S)
      /\ Head(s) = s[1] /\ Head(s) \in S
      /\ \A i \in 1..(Len(s) - 1) : Tail(s)[i] = s[i + 1]
  OBVIOUS
<1>2. InSeq(s, Head(s))
  BY <1>1 DEF InSeq
<1>3. ASSUME NoRepeat(s)
      PROVE  NoRepeat(Tail(s))
  BY <1>1, <1>3 DEF NoRepeat
<1>4. ASSUME NoRepeat(s), NEW p
      PROVE  InSeq(Tail(s), p) <=> InSeq(s, p) /\ p # Head(s)
  <2>1. ASSUME InSeq(Tail(s), p) PROVE InSeq(s, p) /\ p # Head(s)
    <3>1. PICK i \in 1..(Len(s) - 1) : s[i + 1] = p
      BY <1>1, <2>1 DEF InSeq
    <3>2. i + 1 \in 1..Len(s) /\ 1 \in 1..Len(s) /\ i + 1 # 1
      BY <1>1, <3>1
    <3> QED BY <1>1, <1>4, <3>1, <3>2 DEF InSeq, NoRepeat
  <2>2. ASSUME InSeq(s, p), p # Head(s) PROVE InSeq(Tail(s), p)
    <3>1. PICK i \in 1..Len(s) : s[i] = p
      BY <2>2 DEF InSeq
    <3>2. i - 1 \in 1..(Len(s) - 1) /\ (i - 1) + 1 = i
      BY <1>1, <2>2, <3>1
    <3> QED BY <1>1, <3>1, <3>2 DEF InSeq
  <2> QED BY <2>1, <2>2
<1> QED BY <1>1, <1>2, <1>3, <1>4

\* selectAndPostprocess takes one element out of the list, and the last one
\* takes its place: every other packet is still there, once.
LEMMA WithoutIndexOnce ==
  ASSUME NEW S, NEW s \in Seq(S), NEW k \in 1..Len(s)
  PROVE  /\ WithoutIndex(s, k) \in Seq(S)
         /\ NoRepeat(s) => /\ NoRepeat(WithoutIndex(s, k))
                           /\ \A p : InSeq(WithoutIndex(s, k), p) <=> InSeq(s, p) /\ p # s[k]
<1> DEFINE n == Len(s)
           t == [s EXCEPT ![k] = s[n]]
           w == WithoutIndex(s, k)
<1>1. n \in Nat /\ k \in 1..n /\ s \in [1..n -> S] /\ Len(s) = n
  OBVIOUS
<1>2. t \in Seq(S) /\ Len(t) = n /\ \A i \in 1..n : t[i] = IF i = k THEN s[n] ELSE s[i]
  BY <1>1
<1>3. w = SubSeq(t, 1, n - 1)
  BY <1>2 DEF WithoutIndex, Front
<1> HIDE DEF n, t, w
<1>4. /\ w \in Seq(S) /\ Len(w) = n - 1
      /\ \A i \in 1..(n - 1) : w[i] = t[i]
  BY <1>1, <1>2, <1>3
<1>5. \A i \in 1..(n - 1) : w[i] = IF i = k THEN s[n] ELSE s[i]
  BY <1>1, <1>2, <1>4
<1>6. ASSUME NoRepeat(s)
      PROVE  NoRepeat(w)
  BY <1>1, <1>4, <1>5, <1>6 DEF NoRepeat
<1>7. ASSUME NoRepeat(s), NEW p
      PROVE  InSeq(w, p) <=> InSeq(s, p) /\ p # s[k]
  <2>1. ASSUME InSeq(w, p) PROVE InSeq(s, p) /\ p # s[k]
    <3>1. PICK i \in 1..(n - 1) : w[i] = p
      BY <1>4, <2>1 DEF InSeq
    <3>2. CASE i = k
      <4>1. p = s[n]
        BY <1>5, <3>1, <3>2
      <4>2. n \in 1..n /\ n # k
        BY <1>1, <3>1, <3>2
      <4> QED BY <1>1, <1>7, <4>1, <4>2 DEF InSeq, NoRepeat
    <3>3. CASE i # k
      <4>1. p = s[i] /\ i \in 1..n
        BY <1>1, <1>5, <3>1, <3>3
      <4> QED BY <1>1, <1>7, <3>3, <4>1 DEF InSeq, NoRepeat
    <3> QED BY <3>2, <3>3
  <2>2. ASSUME InSeq(s, p), p # s[k] PROVE InSeq(w, p)
    <3>1. PICK i \in 1..n : s[i] = p /\ i # k
      BY <1>1, <2>2 DEF InSeq
    <3>2. CASE i = n
      <4>1. k \in 1..(n - 1)
        BY <1>1, <3>1, <3>2
      <4>2. w[k] = p
        BY <1>5, <3>1, <3>2, <4>1
      <4> QED BY <1>4, <4>1, <4>2 DEF InSeq
    <3>3. CASE i # n
      <4>1. i \in 1..(n - 1)
        BY <1>1, <3>1, <3>3
      <4>2. w[i] = p
        BY <1>5, <3>1, <4>1
      <4> QED BY <1>4, <4>1, <4>2 DEF InSeq
    <3> QED BY <3>2, <3>3
  <2> QED BY <2>1, <2>2
<1> QED BY <1>4, <1>6, <1>7 DEF w

\* A nonempty list has a first among its lowest blocks.
LEMMA LowestIndexInList ==
  ASSUME NEW s \in Seq(Packets), s # <<>>
  PROVE  LowestIndex(s) \in 1..Len(s)
<1> DEFINE H(i) == HeightOf[s[i]]
           T == {H(i) : i \in 1..Len(s)}
<1>1. Len(s) \in Nat \ {0} /\ DOMAIN s = 1..Len(s) /\ \A i \in 1..Len(s) : s[i] \in Packets
  OBVIOUS
<1>2. \A i \in 1..Len(s) : H(i) \in Nat
  BY <1>1, PipelineAssumption
<1>3. T \subseteq Nat /\ T # {}
  <2>1. 1 \in 1..Len(s)
    BY <1>1
  <2> QED BY <1>2, <2>1
<1>4. PICK h \in T : \A y \in T : h <= y
  BY <1>3, LeastNat
<1> DEFINE J == {i \in 1..Len(s) : H(i) = h}
<1>5. J \subseteq Nat /\ J # {}
  BY <1>1, <1>4
<1>6. PICK i \in J : \A j \in J : i <= j
  BY <1>5, LeastNat
<1>7. i \in 1..Len(s) /\ \A j \in 1..Len(s) : H(i) < H(j) \/ (H(i) = H(j) /\ i <= j)
  <2> SUFFICES ASSUME NEW j \in 1..Len(s) PROVE H(i) < H(j) \/ (H(i) = H(j) /\ i <= j)
    BY <1>6
  <2>1. H(i) = h /\ H(i) <= H(j) /\ H(i) \in Nat /\ H(j) \in Nat
    BY <1>2, <1>4, <1>6
  <2>2. CASE H(j) = h
    BY <1>6, <2>1, <2>2
  <2>3. CASE H(j) # h
    BY <2>1, <2>3
  <2> QED BY <2>2, <2>3
<1>8. \E k \in DOMAIN s : \A j \in DOMAIN s : HeightOf[s[k]] < HeightOf[s[j]]
                                              \/ (HeightOf[s[k]] = HeightOf[s[j]] /\ k <= j)
  BY <1>1, <1>7
<1> QED BY <1>1, <1>8 DEF LowestIndex

-----------------------------------------------------------------------------
(* The inductive invariant.                                                *)

WorkerStates ==
  [at : {"recv", "downloaded", "append", "measure", "notify"}, pk : Packets \cup {NoPacket}]

\* Who holds a packet, by location.
WorkersOK ==
  \A w \in Workers : IF worker[w].at \in {"downloaded", "append"} THEN worker[w].pk \in Packets
                                                                  ELSE worker[w].pk = NoPacket

PostOK ==
  IF post.at \in {"begin", "add", "unqueue"} THEN post.pk \in Packets ELSE post.pk = NoPacket

AtWorker(p) == \E w \in Workers : worker[w].pk = p
AtPost(p) == post.pk = p /\ post.at # "unqueue"
Judged(p) == verdict[p] # "none"

ExactlyOne(a, b, c, d, e, f, g) ==
  /\ a \/ b \/ c \/ d \/ e \/ f \/ g
  /\ a => ~(b \/ c \/ d \/ e \/ f \/ g)
  /\ b => ~(c \/ d \/ e \/ f \/ g)
  /\ c => ~(d \/ e \/ f \/ g)
  /\ d => ~(e \/ f \/ g)
  /\ e => ~(f \/ g)
  /\ f => ~g

\* A packet is in one place, and in that place once.
InOnePlace(p) ==
  ExactlyOne(p \in wire, net = p, InSeq(newBlocks, p), AtWorker(p), InSeq(postprocess, p),
             AtPost(p), Judged(p))

Once ==
  closing = "running" =>
    /\ \A p \in Packets : InOnePlace(p)
    /\ NoRepeat(newBlocks) /\ NoRepeat(postprocess)
    /\ \A v, w \in Workers : worker[v].pk = worker[w].pk => v = w \/ worker[v].pk = NoPacket

Inv == TypeOK /\ WorkersOK /\ PostOK /\ Once

-----------------------------------------------------------------------------
(* Counting.                                                               *)

\* What a sequence holds without repetition it holds once or not at all.
LEMMA SeqCount ==
  ASSUME NEW S, NEW s \in Seq(S), NoRepeat(s), NEW p
  PROVE  Cardinality({i \in DOMAIN s : s[i] = p}) = IF InSeq(s, p) THEN 1 ELSE 0
<1>1. DOMAIN s = 1..Len(s)
  OBVIOUS
<1>2. CASE InSeq(s, p)
  <2>1. PICK i \in 1..Len(s) : s[i] = p
    BY <1>2 DEF InSeq
  <2>2. {j \in DOMAIN s : s[j] = p} = {i}
    BY <1>1, <2>1 DEF NoRepeat
  <2> QED BY <1>2, <2>2, FS_Singleton
<1>3. CASE ~InSeq(s, p)
  <2>1. {j \in DOMAIN s : s[j] = p} = {}
    BY <1>1, <1>3 DEF InSeq
  <2> QED BY <1>3, <2>1, FS_EmptySet
<1> QED BY <1>2, <1>3

\* A packet is in the hands of one validator at most.
LEMMA WorkerCount ==
  ASSUME NEW p \in Packets,
         \A v, w \in Workers : worker[v].pk = worker[w].pk => v = w \/ worker[v].pk = NoPacket
  PROVE  Cardinality({w \in Workers : worker[w].pk = p}) = IF AtWorker(p) THEN 1 ELSE 0
<1>0. p # NoPacket
  BY PipelineAssumption
<1>1. CASE AtWorker(p)
  <2>1. PICK w \in Workers : worker[w].pk = p
    BY <1>1 DEF AtWorker
  <2>2. {v \in Workers : worker[v].pk = p} = {w}
    BY <1>0, <2>1
  <2> QED BY <1>1, <2>2, FS_Singleton
<1>2. CASE ~AtWorker(p)
  <2>1. {v \in Workers : worker[v].pk = p} = {}
    BY <1>2 DEF AtWorker
  <2> QED BY <1>2, <2>1, FS_EmptySet
<1> QED BY <1>1, <1>2

\* What is somewhere exactly once is counted once.
LEMMA InvImplies == Inv => NoLostPacket
<1> SUFFICES ASSUME Inv, closing = "running", NEW p \in Packets PROVE Places(p) = 1
  BY DEF NoLostPacket
<1>1. InOnePlace(p)
  BY DEF Inv, Once
<1>2. Cardinality({i \in DOMAIN newBlocks : newBlocks[i] = p}) = IF InSeq(newBlocks, p) THEN 1 ELSE 0
  BY SeqCount DEF Inv, Once, TypeOK
<1>3. Cardinality({i \in DOMAIN postprocess : postprocess[i] = p})
        = IF InSeq(postprocess, p) THEN 1 ELSE 0
  BY SeqCount DEF Inv, Once, TypeOK
<1>4. Cardinality({w \in Workers : worker[w].pk = p}) = IF AtWorker(p) THEN 1 ELSE 0
  BY WorkerCount DEF Inv, Once
<1> QED BY <1>1, <1>2, <1>3, <1>4 DEF Places, InOnePlace, ExactlyOne, AtPost, Judged

-----------------------------------------------------------------------------
(* Types and locations.                                                    *)

\* An idle pipeline is well typed.
LEMMA TypeInit == Init => TypeOK /\ WorkersOK /\ PostOK
<1> SUFFICES ASSUME Init PROVE TypeOK /\ WorkersOK /\ PostOK
  OBVIOUS
<1>1. {Parallelism, TriggerSize, POSTPROCESS_SIZE} \subseteq Nat \ {0}
  BY PipelineAssumption
<1>2. mergesStuck \in BOOLEAN
  BY Zenon DEF Init
<1> QED BY <1>1, <1>2 DEF Init, Idle, Resting, TypeOK, WorkersOK, PostOK

\* A worker goes to another location.
LEMMA WorkerMoves ==
  ASSUME TypeOK, WorkersOK, NEW w \in Workers,
         NEW r \in WorkerStates,
         IF r.at \in {"downloaded", "append"} THEN r.pk \in Packets ELSE r.pk = NoPacket,
         worker' = [worker EXCEPT ![w] = r]
  PROVE  /\ worker' \in [Workers -> WorkerStates]
         /\ WorkersOK'
BY DEF TypeOK, WorkerStates, WorkersOK

\* The steps of the network keep the types.
LEMMA NetTypes ==
  ASSUME TypeOK, WorkersOK, PostOK, NetStep
  PROVE  TypeOK' /\ WorkersOK' /\ PostOK'
<1>1. CASE ReceivePacket
  BY <1>1 DEF ReceivePacket, TypeOK, WorkersOK, PostOK, locks
<1>2. CASE ProcessBlock
  <2>1. CASE Panic
    BY <2>1 DEF Panic, TypeOK, WorkersOK, PostOK
  <2>2. CASE ~Panic
    <3>1. /\ net \in Packets /\ Len(newBlocks) < Parallelism
          /\ newBlocks' = Append(newBlocks, net) /\ net' = NoPacket
          /\ UNCHANGED <<wire, worker, postprocess, triggers, post, stored, verdict, locks>>
      BY <1>2, <2>2 DEF ProcessBlock, TypeOK
    <3>2. newBlocks' \in Seq(Packets) /\ Len(newBlocks') = Len(newBlocks) + 1
      BY <3>1, AppendOnce DEF TypeOK
    <3>3. Len(newBlocks') <= Parallelism
      BY <3>1, <3>2, PipelineAssumption DEF TypeOK
    <3> QED BY <3>1, <3>2, <3>3 DEF TypeOK, WorkersOK, PostOK, locks
  <2> QED BY <2>1, <2>2
<1> QED BY <1>1, <1>2 DEF NetStep

\* The steps of a validator keep the types.
LEMMA WorkerTypes ==
  ASSUME TypeOK, WorkersOK, PostOK, NEW w \in Workers, WorkerStep(w)
  PROVE  TypeOK' /\ WorkersOK' /\ PostOK'
<1>0. worker[w] \in WorkerStates
  BY DEF TypeOK, WorkerStates
<1>i. Idle \in WorkerStates /\ Idle.at = "recv" /\ Idle.pk = NoPacket
  BY DEF Idle, WorkerStates
<1>1. CASE TakePacket(w)
  <2>1. Head(newBlocks) \in Packets /\ newBlocks' \in Seq(Packets) /\ Len(newBlocks') = Len(newBlocks) - 1
    BY <1>1, TailOnce DEF TakePacket, TypeOK
  <2>2. Len(newBlocks') <= Parallelism
    BY <2>1, PipelineAssumption DEF TypeOK
  <2> DEFINE r == [at |-> "downloaded", pk |-> Head(newBlocks)]
  <2>3. worker' = [worker EXCEPT ![w] = r]
    BY <1>1 DEF TakePacket
  <2>4. /\ worker' \in [Workers -> WorkerStates]
        /\ WorkersOK'
    BY <2>1, <2>3, WorkerMoves DEF WorkerStates
  <2> QED BY <1>1, <2>1, <2>2, <2>4 DEF TakePacket, TypeOK, WorkerStates, PostOK, locks
<1>2. CASE Prevalidate(w)
  <2>0. worker[w].pk \in Packets
    BY <1>2 DEF Prevalidate, WorkersOK
  <2>1. verdict' \in [Packets -> {"none", "refused", "added", "duplicate", "orphan"}]
    BY <1>2, <2>0 DEF Prevalidate, TypeOK
  <2>2. \/ worker' = [worker EXCEPT ![w] = Idle]
        \/ worker' = [worker EXCEPT ![w] = [worker[w] EXCEPT !.at = "append"]]
    BY <1>2 DEF Prevalidate
  <2>3. /\ [worker[w] EXCEPT !.at = "append"] \in WorkerStates
        /\ [worker[w] EXCEPT !.at = "append"].pk = worker[w].pk
        /\ [worker[w] EXCEPT !.at = "append"].at = "append"
    BY <1>0 DEF WorkerStates
  <2>4. /\ worker' \in [Workers -> WorkerStates]
        /\ WorkersOK'
    BY <1>i, <2>0, <2>2, <2>3, WorkerMoves
  <2> QED BY <1>2, <2>1, <2>4 DEF Prevalidate, TypeOK, WorkerStates, PostOK, input, locks
<1>3. CASE AppendBlock(w)
  <2>1. postprocess' \in Seq(Packets)
    BY <1>3, AppendOnce DEF AppendBlock, TypeOK, WorkersOK
  <2>2. PICK at \in {"notify", "measure"} : worker' = [worker EXCEPT ![w] = [at |-> at, pk |-> NoPacket]]
    BY <1>3 DEF AppendBlock
  <2>3. /\ worker' \in [Workers -> WorkerStates]
        /\ WorkersOK'
    BY <2>2, WorkerMoves DEF WorkerStates
  <2> QED BY <1>3, <2>1, <2>3 DEF AppendBlock, TypeOK, WorkerStates, PostOK, input, locks
<1>4. CASE MeasureList(w)
  <2>0. worker[w].pk = NoPacket
    BY <1>4 DEF MeasureList, WorkersOK
  <2>1. PICK at \in {"notify", "recv"} : worker' = [worker EXCEPT ![w] = [worker[w] EXCEPT !.at = at]]
    BY <1>4 DEF MeasureList
  <2>2. /\ [worker[w] EXCEPT !.at = at] \in WorkerStates
        /\ [worker[w] EXCEPT !.at = at].pk = NoPacket
        /\ [worker[w] EXCEPT !.at = at].at = at
    BY <1>0, <2>0 DEF WorkerStates
  <2>3. /\ worker' \in [Workers -> WorkerStates]
        /\ WorkersOK'
    BY <2>1, <2>2, WorkerMoves
  <2> QED BY <1>4, <2>3 DEF MeasureList, TypeOK, WorkerStates, PostOK, input, locks
<1>5. CASE Notify(w)
  <2>1. CASE Panic
    BY <2>1 DEF Panic, TypeOK, WorkersOK, PostOK
  <2>2. CASE ~Panic
    <3>1. /\ triggers < TriggerSize /\ triggers' = triggers + 1
          /\ worker' = [worker EXCEPT ![w] = Idle]
          /\ UNCHANGED <<input, postprocess, post, stored, verdict, locks>>
      BY <1>5, <2>2 DEF Notify
    <3>2. triggers' \in 0..TriggerSize
      BY <3>1, PipelineAssumption DEF TypeOK
    <3>3. /\ worker' \in [Workers -> WorkerStates]
          /\ WorkersOK'
      BY <1>i, <3>1, WorkerMoves
    <3> QED BY <3>1, <3>2, <3>3 DEF TypeOK, WorkerStates, PostOK, input, locks
  <2> QED BY <2>1, <2>2
<1> QED BY <1>1, <1>2, <1>3, <1>4, <1>5 DEF WorkerStep

\* The steps of the postprocessor keep the types.
LEMMA PostTypes ==
  ASSUME TypeOK, WorkersOK, PostOK, PostStep
  PROVE  TypeOK' /\ WorkersOK' /\ PostOK'
<1>0. TriggerSize \in Nat /\ HeightOf \in [Packets -> Nat \ {0}]
  BY PipelineAssumption
<1>1. CASE ReceiveTrigger
  <2>1. triggers' \in 0..TriggerSize
    BY <1>0, <1>1 DEF ReceiveTrigger, TypeOK
  <2> QED BY <1>1, <2>1 DEF ReceiveTrigger, TypeOK, WorkersOK, PostOK, input, locks
<1>2. CASE StopPostprocessor \/ PostprocessTimeout
  BY <1>2 DEF StopPostprocessor, PostprocessTimeout, TypeOK, WorkersOK, PostOK, input, locks
<1>3. CASE PickBlock
  <2>1. LowestIndex(postprocess) \in 1..Len(postprocess)
    BY <1>3, LowestIndexInList DEF PickBlock, TypeOK
  <2>2. postprocess' \in Seq(Packets)
    BY <1>3, <2>1, WithoutIndexOnce DEF PickBlock, TypeOK
  <2>3. postprocess[LowestIndex(postprocess)] \in Packets
    BY <2>1 DEF TypeOK
  <2> QED BY <1>3, <2>2, <2>3 DEF PickBlock, TypeOK, WorkersOK, PostOK, input, locks
<1>4. CASE ListEmpty
  BY <1>4 DEF ListEmpty, Resting, TypeOK, WorkersOK, PostOK, input, locks
<1>5. CASE BeginUpdate
  BY <1>5 DEF BeginUpdate, TypeOK, WorkersOK, PostOK, input
<1>6. CASE AddBlock
  <2>1. post.pk \in Packets
    BY <1>6 DEF AddBlock, PostOK
  <2>2. stored' \subseteq {0} \cup {HeightOf[p] : p \in Packets}
    BY <1>6, <2>1 DEF AddBlock, TypeOK
  <2>3. verdict' \in [Packets -> {"none", "refused", "added", "duplicate", "orphan"}]
    BY <1>6, <2>1 DEF AddBlock, TypeOK
  <2> QED BY <1>6, <2>2, <2>3 DEF AddBlock, TypeOK, WorkersOK, PostOK, input
<1>7. CASE RefuseDuplicate \/ QueueParent
  <2>1. post.pk \in Packets
    BY <1>7 DEF RefuseDuplicate, QueueParent, PostOK
  <2>2. verdict' \in [Packets -> {"none", "refused", "added", "duplicate", "orphan"}]
    BY <1>7, <2>1 DEF RefuseDuplicate, QueueParent, TypeOK
  <2> QED BY <1>7, <2>1, <2>2 DEF RefuseDuplicate, QueueParent, TypeOK, WorkersOK, PostOK, input
<1>8. CASE RemoveFromQueue
  BY <1>8 DEF RemoveFromQueue, TypeOK, WorkersOK, PostOK, input, locks
<1> QED BY <1>1, <1>2, <1>3, <1>4, <1>5, <1>6, <1>7, <1>8 DEF PostStep

\* The steps of other writers, of mining and of Close keep the types.
LEMMA CloseTypes ==
  ASSUME TypeOK, WorkersOK, PostOK, OtherUpdate \/ MiningStep \/ CloseStep
  PROVE  TypeOK' /\ WorkersOK' /\ PostOK'
<1>0. CASE SolutionStuck
  <2>1. /\ mergesStuck' \in BOOLEAN
        /\ UNCHANGED <<input, worker, postprocess, triggers, post, stored, verdict, dbHolder, queueHolder, closing>>
    BY <1>0, Zenon DEF SolutionStuck
  <2> QED BY <2>1 DEF TypeOK, WorkersOK, PostOK, input
<1>1. CASE OtherUpdate \/ TemplateBegins \/ TemplateEnds
  <2>1. /\ dbHolder' \in {"nobody", "post", "other", "template"}
        /\ UNCHANGED <<input, worker, postprocess, triggers, post, stored, verdict, queueHolder, mergesStuck, closing>>
    BY <1>1 DEF OtherUpdate, TemplateBegins, TemplateEnds
  <2> QED BY <2>1 DEF TypeOK, WorkersOK, PostOK, input
<1>2. CASE StartClose \/ StopMiner \/ CloseChannels \/ CloseDatabase
  BY <1>2 DEF StartClose, StopMiner, CloseChannels, CloseDatabase, TypeOK, WorkersOK, PostOK, input
<1>3. CASE ClearList
  BY <1>3 DEF ClearList, TypeOK, WorkersOK, PostOK, input
<1>4. CASE LockQueue \/ SaveQueue
  BY <1>4 DEF LockQueue, SaveQueue, TypeOK, WorkersOK, PostOK, input
<1> QED BY <1>0, <1>1, <1>2, <1>3, <1>4 DEF CloseStep, MiningStep

-----------------------------------------------------------------------------
(* Where the packets are.                                                  *)

\* A step that moves no packet, or after which the node no longer runs.
LEMMA NothingMoves ==
  ASSUME Once, closing' = "running" => closing = "running",
         closing' = "running" =>
           /\ UNCHANGED <<wire, net, newBlocks, postprocess, verdict>>
           /\ \A w \in Workers : worker'[w].pk = worker[w].pk
           /\ \A p \in Packets : AtPost(p)' <=> AtPost(p)
  PROVE  Once'
<1> SUFFICES ASSUME closing' = "running"
             PROVE  /\ \A p \in Packets : InOnePlace(p)'
                    /\ NoRepeat(newBlocks') /\ NoRepeat(postprocess')
                    /\ \A v, w \in Workers : worker'[v].pk = worker'[w].pk
                                               => v = w \/ worker'[v].pk = NoPacket
  BY DEF Once
<1>1. \A p \in Packets : /\ AtWorker(p)' <=> AtWorker(p)
                         /\ Judged(p)' <=> Judged(p)
                         /\ AtPost(p)' <=> AtPost(p)
  BY DEF AtWorker, Judged
<1>2. \A p \in Packets : InOnePlace(p)' <=> InOnePlace(p)
  BY <1>1 DEF InOnePlace, ExactlyOne
<1> QED BY <1>2 DEF Once

\* The network hands a packet over once.
LEMMA NetOnce ==
  ASSUME Inv, NetStep
  PROVE  Once'
<1>0. TypeOK /\ Once
  BY DEF Inv
<1>1. CASE closing' # "running"
  BY <1>1 DEF Once
<1>2. CASE closing' = "running" /\ ReceivePacket
  <2>1. PICK q \in wire : net' = q /\ wire' = wire \ {q}
    BY <1>2 DEF ReceivePacket
  <2>2. closing = "running" /\ net = NoPacket
        /\ UNCHANGED <<newBlocks, worker, postprocess, post, verdict>>
    BY <1>2 DEF ReceivePacket, locks
  <2>3. \A p \in Packets : net # p
    BY <2>2, PipelineAssumption
  <2>4. \A p \in Packets : InOnePlace(p)'
    <3> TAKE p \in Packets
    <3>1. /\ AtWorker(p)' <=> AtWorker(p)
          /\ Judged(p)' <=> Judged(p)
          /\ AtPost(p)' <=> AtPost(p)
      BY <2>2 DEF AtWorker, Judged, AtPost
    <3>2. InOnePlace(p)
      BY <1>0, <2>2 DEF Once
    <3> QED BY <2>1, <2>2, <2>3, <3>1, <3>2 DEF InOnePlace, ExactlyOne
  <2> QED BY <1>0, <2>2, <2>4 DEF Once
<1>3. CASE closing' = "running" /\ ProcessBlock
  <2>1. /\ closing = "running" /\ net \in Packets
        /\ newBlocks' = Append(newBlocks, net) /\ net' = NoPacket
        /\ UNCHANGED <<wire, worker, postprocess, post, verdict>>
    BY <1>0, <1>3 DEF ProcessBlock, Panic, locks, TypeOK
  <2>2. InOnePlace(net) /\ ~InSeq(newBlocks, net)
    BY <1>0, <2>1 DEF Once, InOnePlace, ExactlyOne
  <2>3. /\ \A p : InSeq(newBlocks', p) <=> InSeq(newBlocks, p) \/ p = net
        /\ NoRepeat(newBlocks')
    BY <1>0, <2>1, <2>2, AppendOnce DEF TypeOK, Once
  <2>4. \A p \in Packets : net' # p
    BY <2>1, PipelineAssumption
  <2>5. \A p \in Packets : InOnePlace(p)'
    <3> TAKE p \in Packets
    <3>1. /\ AtWorker(p)' <=> AtWorker(p)
          /\ Judged(p)' <=> Judged(p)
          /\ AtPost(p)' <=> AtPost(p)
      BY <2>1 DEF AtWorker, Judged, AtPost
    <3>2. InOnePlace(p)
      BY <1>0, <2>1 DEF Once
    <3> QED BY <2>1, <2>3, <2>4, <3>1, <3>2 DEF InOnePlace, ExactlyOne
  <2> QED BY <1>0, <2>1, <2>3, <2>5 DEF Once
<1> QED BY <1>1, <1>2, <1>3 DEF NetStep

\* A validator takes a packet, and gives it to the postprocessor or drops it.
LEMMA WorkerOnce ==
  ASSUME Inv, NEW w \in Workers, WorkerStep(w)
  PROVE  Once'
<1>0. /\ TypeOK /\ WorkersOK /\ Once
      /\ worker \in [Workers -> WorkerStates]
  BY DEF Inv, TypeOK, WorkerStates
<1>1. CASE closing' # "running"
  BY <1>1 DEF Once
<1>2. CASE closing' = "running" /\ TakePacket(w)
  <2> DEFINE q == Head(newBlocks)
  <2>1. /\ closing = "running" /\ newBlocks # <<>> /\ newBlocks' = Tail(newBlocks)
        /\ worker[w].pk = NoPacket
        /\ worker' = [worker EXCEPT ![w] = [at |-> "downloaded", pk |-> q]]
        /\ UNCHANGED <<wire, net, postprocess, post, verdict>>
    BY <1>0, <1>2 DEF TakePacket, WorkersOK, locks
  <2>2. /\ q \in Packets /\ InSeq(newBlocks, q) /\ NoRepeat(newBlocks')
        /\ \A p : InSeq(newBlocks', p) <=> InSeq(newBlocks, p) /\ p # q
    BY <1>0, <2>1, TailOnce DEF TypeOK, Once
  <2>3. InOnePlace(q) /\ ~AtWorker(q)
    BY <1>0, <2>1, <2>2 DEF Once, InOnePlace, ExactlyOne
  <2>4. worker'[w].pk = q /\ \A v \in Workers \ {w} : worker'[v].pk = worker[v].pk
    BY <1>0, <2>1
  <2>5. \A v \in Workers : worker[v].pk # q
    BY <2>3 DEF AtWorker
  <2> HIDE DEF q
  <2>6. \A u, v \in Workers : worker'[u].pk = worker'[v].pk => u = v \/ worker'[u].pk = NoPacket
    BY <1>0, <2>1, <2>4, <2>5 DEF Once
  <2>7. \A p \in Packets : AtWorker(p)' <=> AtWorker(p) \/ p = q
    BY <2>1, <2>4, PipelineAssumption DEF AtWorker
  <2>8. \A p \in Packets : InOnePlace(p)'
    <3> TAKE p \in Packets
    <3>1. (Judged(p)' <=> Judged(p)) /\ (AtPost(p)' <=> AtPost(p))
      BY <2>1 DEF Judged, AtPost
    <3>2. InOnePlace(p)
      BY <1>0, <2>1 DEF Once
    <3> QED BY <2>1, <2>2, <2>7, <3>1, <3>2 DEF InOnePlace, ExactlyOne
  <2> QED BY <1>0, <2>1, <2>2, <2>6, <2>8 DEF Once
<1>3. CASE closing' = "running" /\ Prevalidate(w)
  <2> DEFINE q == worker[w].pk
  <2>1. closing = "running" /\ q \in Packets /\ UNCHANGED <<wire, net, newBlocks, postprocess, post>>
    BY <1>0, <1>3 DEF Prevalidate, WorkersOK, input, locks
  <2>2. CASE /\ verdict' = [verdict EXCEPT ![q] = "refused"]
             /\ worker' = [worker EXCEPT ![w] = Idle]
    <3>1. worker'[w].pk = NoPacket /\ \A v \in Workers \ {w} : worker'[v].pk = worker[v].pk
      BY <1>0, <2>2 DEF Idle
    <3>2. \A v \in Workers \ {w} : worker[v].pk # q
      BY <1>0, <2>1, PipelineAssumption DEF Once
    <3>3. \A p \in Packets : AtWorker(p)' <=> AtWorker(p) /\ p # q
      BY <2>1, <3>1, <3>2, PipelineAssumption DEF AtWorker
    <3>4. \A p \in Packets : Judged(p)' <=> Judged(p) \/ p = q
      BY <1>0, <2>1, <2>2 DEF Judged, TypeOK
    <3>5. AtWorker(q)
      BY DEF AtWorker
    <3>6. \A u, v \in Workers : worker'[u].pk = worker'[v].pk => u = v \/ worker'[u].pk = NoPacket
      BY <1>0, <2>1, <3>1 DEF Once
    <3> HIDE DEF q
    <3>7. \A p \in Packets : InOnePlace(p)'
      <4> TAKE p \in Packets
      <4>1. AtPost(p)' <=> AtPost(p)
        BY <2>1 DEF AtPost
      <4>2. InOnePlace(p)
        BY <1>0, <2>1 DEF Once
      <4> QED BY <2>1, <3>3, <3>4, <3>5, <4>1, <4>2 DEF InOnePlace, ExactlyOne
    <3> QED BY <1>0, <2>1, <3>6, <3>7 DEF Once
  <2>3. CASE worker' = [worker EXCEPT ![w].at = "append"] /\ UNCHANGED verdict
    <3>1. \A v \in Workers : worker'[v].pk = worker[v].pk
      BY <1>0, <2>3 DEF WorkerStates
    <3> QED BY <1>0, <2>1, <2>3, <3>1, NothingMoves DEF AtPost
  <2> QED BY <1>3, <2>2, <2>3 DEF Prevalidate
<1>4. CASE closing' = "running" /\ AppendBlock(w)
  <2> DEFINE q == worker[w].pk
  <2>1. /\ closing = "running" /\ q \in Packets /\ postprocess' = Append(postprocess, q)
        /\ UNCHANGED <<wire, net, newBlocks, post, verdict>>
    BY <1>0, <1>4 DEF AppendBlock, WorkersOK, input, locks
  <2>2. worker'[w].pk = NoPacket /\ \A v \in Workers \ {w} : worker'[v].pk = worker[v].pk
    BY <1>0, <1>4 DEF AppendBlock
  <2>3. \A v \in Workers \ {w} : worker[v].pk # q
    BY <1>0, <2>1, PipelineAssumption DEF Once
  <2>4. \A p \in Packets : AtWorker(p)' <=> AtWorker(p) /\ p # q
    BY <2>1, <2>2, <2>3, PipelineAssumption DEF AtWorker
  <2>5. AtWorker(q)
    BY DEF AtWorker
  <2>6. \A u, v \in Workers : worker'[u].pk = worker'[v].pk => u = v \/ worker'[u].pk = NoPacket
    BY <1>0, <2>1, <2>2 DEF Once
  <2> HIDE DEF q
  <2>7. ~InSeq(postprocess, q)
    BY <1>0, <2>1, <2>5 DEF Once, InOnePlace, ExactlyOne
  <2>8. /\ \A p : InSeq(postprocess', p) <=> InSeq(postprocess, p) \/ p = q
        /\ NoRepeat(postprocess')
    BY <1>0, <2>1, <2>7, AppendOnce DEF TypeOK, Once
  <2>9. \A p \in Packets : InOnePlace(p)'
    <3> TAKE p \in Packets
    <3>1. (Judged(p)' <=> Judged(p)) /\ (AtPost(p)' <=> AtPost(p))
      BY <2>1 DEF Judged, AtPost
    <3>2. InOnePlace(p)
      BY <1>0, <2>1 DEF Once
    <3> QED BY <2>1, <2>4, <2>5, <2>8, <3>1, <3>2 DEF InOnePlace, ExactlyOne
  <2> QED BY <1>0, <2>1, <2>6, <2>8, <2>9 DEF Once
<1>5. CASE closing' = "running" /\ MeasureList(w)
  <2>1. \A v \in Workers : worker'[v].pk = worker[v].pk
    BY <1>0, <1>5 DEF MeasureList, WorkerStates
  <2> QED BY <1>0, <1>5, <2>1, NothingMoves DEF MeasureList, AtPost, input, locks
<1>6. CASE closing' = "running" /\ Notify(w)
  <2>1. worker' = [worker EXCEPT ![w] = Idle] /\ UNCHANGED <<input, postprocess, post, verdict, closing>>
    BY <1>6 DEF Notify, Panic, locks
  <2>2. \A v \in Workers : worker'[v].pk = worker[v].pk
    BY <1>0, <1>6, <2>1 DEF Notify, Idle, WorkersOK
  <2> QED BY <1>0, <1>6, <2>1, <2>2, NothingMoves DEF AtPost, input
<1> QED BY <1>1, <1>2, <1>3, <1>4, <1>5, <1>6 DEF WorkerStep

\* The postprocessor takes each packet of a batch once.
LEMMA PostOnce ==
  ASSUME Inv, PostStep
  PROVE  Once'
<1>0. TypeOK /\ PostOK /\ Once
  BY DEF Inv
<1>1. CASE closing' # "running"
  BY <1>1 DEF Once
<1>2. CASE ReceiveTrigger \/ StopPostprocessor \/ PostprocessTimeout \/ ListEmpty \/ BeginUpdate
           \/ RemoveFromQueue
  <2>1. UNCHANGED <<input, worker, postprocess, verdict, closing>>
    BY <1>2 DEF ReceiveTrigger, StopPostprocessor, PostprocessTimeout, ListEmpty, BeginUpdate,
                RemoveFromQueue, locks
  <2>2. \A p \in Packets : AtPost(p)' <=> AtPost(p)
    BY <1>0, <1>2, PipelineAssumption
    DEF ReceiveTrigger, StopPostprocessor, PostprocessTimeout, ListEmpty, BeginUpdate,
        RemoveFromQueue, Resting, AtPost, PostOK, TypeOK
  <2> QED BY <1>0, <2>1, <2>2, NothingMoves DEF input
<1>3. CASE closing' = "running" /\ PickBlock
  <2> DEFINE k == LowestIndex(postprocess)
             q == postprocess[k]
  <2>1. /\ closing = "running" /\ postprocess # <<>> /\ post.pk = NoPacket
        /\ post' = [at |-> "begin", pk |-> q]
        /\ postprocess' = WithoutIndex(postprocess, k)
        /\ UNCHANGED <<wire, net, newBlocks, worker, verdict>>
    BY <1>0, <1>3 DEF PickBlock, PostOK, input, locks
  <2>2. k \in 1..Len(postprocess)
    BY <1>0, <2>1, LowestIndexInList DEF TypeOK
  <2>3. q \in Packets /\ InSeq(postprocess, q)
    BY <1>0, <2>2 DEF TypeOK, InSeq
  <2>4. /\ NoRepeat(postprocess')
        /\ \A p : InSeq(postprocess', p) <=> InSeq(postprocess, p) /\ p # q
    BY <1>0, <2>1, <2>2, WithoutIndexOnce DEF TypeOK, Once
  <2> HIDE DEF k, q
  <2>5. \A p \in Packets : ~AtPost(p) /\ (AtPost(p)' <=> p = q)
    BY <2>1, PipelineAssumption DEF AtPost
  <2>6. \A p \in Packets : InOnePlace(p)'
    <3> TAKE p \in Packets
    <3>1. (Judged(p)' <=> Judged(p)) /\ (AtWorker(p)' <=> AtWorker(p))
      BY <2>1 DEF Judged, AtWorker
    <3>2. InOnePlace(p)
      BY <1>0, <2>1 DEF Once
    <3> QED BY <2>1, <2>3, <2>4, <2>5, <3>1, <3>2 DEF InOnePlace, ExactlyOne
  <2> QED BY <1>0, <2>1, <2>4, <2>6 DEF Once
<1>4. CASE closing' = "running" /\ (AddBlock \/ RefuseDuplicate \/ QueueParent)
  <2> DEFINE q == post.pk
  <2>1. /\ closing = "running" /\ q \in Packets /\ post.at = "add"
        /\ UNCHANGED <<wire, net, newBlocks, worker, postprocess>>
        /\ \E v \in {"added", "duplicate", "orphan"} : verdict' = [verdict EXCEPT ![q] = v]
    BY <1>0, <1>4 DEF AddBlock, RefuseDuplicate, QueueParent, PostOK, input
  <2>2. \A p \in Packets : AtPost(p) <=> p = q
    BY <2>1 DEF AtPost
  <2>3. \A p \in Packets : ~AtPost(p)'
    BY <1>0, <1>4, PipelineAssumption DEF AddBlock, RefuseDuplicate, QueueParent, AtPost, TypeOK
  <2>4. \A p \in Packets : Judged(p)' <=> Judged(p) \/ p = q
    BY <1>0, <2>1 DEF Judged, TypeOK
  <2> HIDE DEF q
  <2>5. \A p \in Packets : InOnePlace(p)'
    <3> TAKE p \in Packets
    <3>1. AtWorker(p)' <=> AtWorker(p)
      BY <2>1 DEF AtWorker
    <3>2. InOnePlace(p)
      BY <1>0, <2>1 DEF Once
    <3> QED BY <2>1, <2>2, <2>3, <2>4, <3>1, <3>2 DEF InOnePlace, ExactlyOne
  <2> QED BY <1>0, <2>1, <2>5 DEF Once
<1> QED BY <1>1, <1>2, <1>3, <1>4 DEF PostStep

\* The other writers, mining and Close move no packet while the node runs.
LEMMA CloseOnce ==
  ASSUME Inv, OtherUpdate \/ MiningStep \/ CloseStep
  PROVE  Once'
<1>1. CASE OtherUpdate \/ MiningStep
  <2>1. UNCHANGED <<wire, net, newBlocks, worker, postprocess, post, verdict, closing>>
    BY <1>1 DEF OtherUpdate, MiningStep, TemplateBegins, TemplateEnds, SolutionStuck, input
  <2> QED BY <2>1, NothingMoves DEF Inv, AtPost
<1>2. CASE CloseStep
  BY <1>2 DEF Once, CloseStep, StartClose, StopMiner, CloseChannels, ClearList, LockQueue, SaveQueue,
             CloseDatabase
<1> QED BY <1>1, <1>2

-----------------------------------------------------------------------------
(* The theorems.                                                           *)

\* An idle pipeline satisfies the invariant.
LEMMA InvInit == Init => Inv
<1> SUFFICES ASSUME Init PROVE Once
  BY TypeInit DEF Inv
<1>1. \A p \in Packets : /\ p \in wire /\ net # p
                         /\ ~InSeq(newBlocks, p) /\ ~InSeq(postprocess, p)
                         /\ ~AtWorker(p) /\ ~AtPost(p) /\ ~Judged(p)
  BY PipelineAssumption DEF Init, Idle, Resting, InSeq, AtWorker, AtPost, Judged
<1>2. NoRepeat(newBlocks) /\ NoRepeat(postprocess)
  BY DEF Init, NoRepeat
<1>3. \A w \in Workers : worker[w].pk = NoPacket
  BY DEF Init, Idle
<1> QED BY <1>1, <1>2, <1>3 DEF Once, InOnePlace, ExactlyOne

\* Every step keeps the invariant.
LEMMA InvStep == Inv /\ [Next]_vars => Inv'
<1> SUFFICES ASSUME Inv, [Next]_vars PROVE Inv'
  OBVIOUS
<1>1. CASE Next
  <2>1. TypeOK' /\ WorkersOK' /\ PostOK'
    BY <1>1, NetTypes, WorkerTypes, PostTypes, CloseTypes DEF Inv, Next
  <2>2. Once'
    BY <1>1, NetOnce, WorkerOnce, PostOnce, CloseOnce DEF Next
  <2> QED BY <2>1, <2>2 DEF Inv
<1>2. CASE UNCHANGED vars
  <2>1. Once'
    BY <1>2, NothingMoves DEF Inv, vars, AtPost
  <2> QED BY <1>2, <2>1 DEF vars, Inv, TypeOK, WorkersOK, PostOK
<1> QED BY <1>1, <1>2

\* The inductive invariant holds in every state of every behaviour.
THEOREM Invariance == Spec => []Inv
BY InvInit, InvStep, PTL DEF Spec

\* Every variable keeps its type, and neither newBlocks nor postprocessChan
\* ever holds more than its capacity.
THEOREM TypeCorrect == Spec => []TypeOK
<1>1. Inv => TypeOK
  BY DEF Inv
<1> QED BY <1>1, Invariance, PTL

\* While the node runs, a packet that arrived is in exactly one place between
\* incomingP2P and its verdict: no interleaving of workers and postprocessor
\* loses one or processes one twice, and the swap by which
\* selectAndPostprocess takes a block out of the list drops no other.
THEOREM EachPacketOnce == Spec => []NoLostPacket
BY Invariance, InvImplies, PTL
=============================================================================
