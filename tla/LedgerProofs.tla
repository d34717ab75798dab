---------------------------- MODULE LedgerProofs ----------------------------
(***************************************************************************)
(* Proofs about Ledger, for any users, delegates, transactions, heights    *)
(* and depth of reorganisations: no transaction takes effect twice, the    *)
(* balances follow the emission schedule, an undone block gives back the   *)
(* accounts, no unsigned number wraps, the funds of a delegate stay apart, *)
(* and funds, StakedAmount and delegates' balances stay in step.           *)
(*                                                                         *)
(* The ledger is computed by folds over the transactions and outputs of a  *)
(* block; the first part turns a fold into the sequence of the ledgers it  *)
(* goes through, about which an induction can speak.  Each property then   *)
(* has a part of what the ledger keeps: the nonces, the accounts, the      *)
(* funds, first for an output, then for a transaction, a block, a chain.   *)
(***************************************************************************)
EXTENDS Ledger, FiniteSetTheorems, SequenceTheorems, NatLemmas, TLAPS

-----------------------------------------------------------------------------
(* Folds                                                                   *)

\* The largest and the smallest element of some of the numbers up to n.
LEMMA Extremes ==
  ASSUME NEW n \in Nat, NEW t \in SUBSET (1 .. n), t # {}
  PROVE  /\ Max(t) \in t /\ \A y \in t : Max(t) >= y
         /\ Min(t) \in t /\ \A y \in t : Min(t) <= y
<1>0. t \subseteq Nat /\ \A y \in t : y <= n
  OBVIOUS
<1>1. \E x \in t : \A y \in t : x <= y
  BY <1>0, LeastNat
<1>2. \E x \in t : \A y \in t : x >= y
  <2> DEFINE T == {n - x : x \in t}
  <2>0. PICK w \in t : n - w \in T
    OBVIOUS
  <2>1. T \subseteq Nat /\ T # {}
    BY <1>0, <2>0
  <2>2. PICK z \in T : \A y \in T : z <= y
    BY <2>1, LeastNat
  <2>3. PICK x \in t : z = n - x
    OBVIOUS
  <2>4. \A y \in t : n - x <= n - y
    BY <2>2, <2>3
  <2>5. \A y \in t : x >= y
    BY <1>0, <2>4
  <2> QED BY <2>5
<1> QED BY <1>1, <1>2 DEF Max, Min

\* What the folds of this module do with the ledger at an element of a list.
Step(fold, h, top, K, x) ==
  CASE fold = "apply"  -> ApplyTxToState(K, h, x, top)
    [] fold = "remove" -> RemoveTxFromState(K, h, x, top)
    [] fold = "pay"    -> ApplyOutput(K, h, x)
    [] fold = "take"   -> RemoveOutput(K, h, x)
    [] fold = "fees"   -> K + x.fee
    [] fold = "total"  -> K + x.amount
    [] fold = "share"  -> K + Share(x, top, h)
    [] fold = "given"  -> K + Given(x, h)

\* The transactions of a block are removed from the last one to the first.
Pick(fold, S) == IF fold = "remove" THEN Min(S) ELSE Max(S)

Folding(f, fold, h, top, L, s) ==
  f = [t \in SUBSET DOMAIN s |->
         IF t = {} THEN L ELSE Step(fold, h, top, f[t \ {Pick(fold, t)}], s[Pick(fold, t)])]

\* The recursion that MapThenFoldSet makes over the sets of positions is one.
LEMMA FoldingExists ==
  ASSUME NEW fold, NEW h, NEW top, NEW L, NEW s, NEW n \in Nat, DOMAIN s = 1 .. n
  PROVE  \E f : Folding(f, fold, h, top, L, s)
<1> DEFINE D == SUBSET DOMAIN s
           F(f, t) == IF t = {} THEN L ELSE Step(fold, h, top, f[t \ {Pick(fold, t)}], s[Pick(fold, t)])
           Upto(k) == {t \in D : Cardinality(t) <= k}
           Is(f, k) == f = [t \in Upto(k) |-> F(f, t)]
           S == {k \in Nat : \E f : Is(f, k)}
<1>1. ASSUME NEW t \in D
      PROVE  /\ IsFiniteSet(t) /\ Cardinality(t) \in Nat /\ Cardinality(t) <= n
             /\ Cardinality(t) = 0 <=> t = {}
             /\ t # {} => /\ t \ {Pick(fold, t)} \in D
                          /\ Cardinality(t \ {Pick(fold, t)}) = Cardinality(t) - 1
  <2>1. IsFiniteSet(1 .. n) /\ Cardinality(1 .. n) = n
    BY FS_Interval
  <2>2. IsFiniteSet(t) /\ Cardinality(t) <= n
    BY <2>1, FS_Subset
  <2>3. t # {} => Pick(fold, t) \in t
    BY Extremes DEF Pick
  <2>4. Cardinality(t) \in Nat /\ (Cardinality(t) = 0 <=> t = {})
    BY <2>2, FS_CardinalityType, FS_EmptySet
  <2> QED BY <2>2, <2>3, <2>4, FS_RemoveElement
<1>2. 0 \in S
  <2> DEFINE f == [t \in Upto(0) |-> L]
  <2>1. ASSUME NEW t \in Upto(0) PROVE t = {}
    <3>1. t \in D /\ Cardinality(t) <= 0
      OBVIOUS
    <3>2. Cardinality(t) \in Nat /\ (Cardinality(t) = 0 => t = {})
      BY <1>1, <3>1
    <3> QED BY <3>1, <3>2
  <2>2. f = [t \in Upto(0) |-> F(f, t)]
    <3>1. \A t \in Upto(0) : F(f, t) = L
      BY <2>1
    <3> HIDE DEF F, Upto
    <3> QED BY <3>1
  <2> QED BY <2>2
<1>3. ASSUME NEW k \in Nat, k \in S PROVE k + 1 \in S
  <2>1. PICK f : Is(f, k)
    BY <1>3
  <2> DEFINE e == [t \in Upto(k + 1) |-> F(f, t)]
  <2>2. \A t \in Upto(k) : t \in Upto(k + 1) /\ e[t] = f[t]
    <3>1. ASSUME NEW t \in Upto(k) PROVE t \in Upto(k + 1)
      <4>1. t \in D /\ Cardinality(t) <= k
        OBVIOUS
      <4>2. Cardinality(t) \in Nat
        BY <1>1, <4>1
      <4>3. Cardinality(t) <= k + 1
        BY <4>1, <4>2
      <4> QED BY <4>1, <4>3
    <3> HIDE DEF F, Upto
    <3> QED BY <2>1, <3>1
  <2>3. ASSUME NEW t \in Upto(k + 1) PROVE F(e, t) = F(f, t)
    <3>1. CASE t = {}
      BY <3>1
    <3>2. CASE t # {}
      <4>1. t \ {Pick(fold, t)} \in Upto(k)
        <5>1. /\ t \ {Pick(fold, t)} \in D /\ Cardinality(t) \in Nat /\ Cardinality(t) <= k + 1
              /\ Cardinality(t \ {Pick(fold, t)}) = Cardinality(t) - 1
          BY <1>1, <3>2
        <5>2. Cardinality(t \ {Pick(fold, t)}) <= k
          BY <5>1
        <5> QED BY <5>1, <5>2
      <4>2. e[t \ {Pick(fold, t)}] = f[t \ {Pick(fold, t)}]
        BY <2>2, <4>1
      <4> HIDE DEF e
      <4> QED BY <3>2, <4>2
    <3> QED BY <3>1, <3>2
  <2>4. Is(e, k + 1)
    BY <2>3
  <2>5. k + 1 \in Nat
    OBVIOUS
  <2> HIDE DEF e, Is
  <2> QED BY <2>4, <2>5
<1>4. n \in S
  <2> HIDE DEF S
  <2>1. Nat \subseteq S
    BY <1>2, <1>3, NatSetInduction
  <2> QED BY <2>1
<1>5. Upto(n) = D
  BY <1>1
<1>6. \E f : f = [t \in D |-> F(f, t)]
  BY <1>4, <1>5
<1> QED BY <1>6 DEF Folding

\* g is the sequence of ledgers of a fold, over the first n elements of s, that
\* begins with L and ends with M.
Forward(g, fold, h, top, L, s, n, M) ==
  /\ g[0] = L /\ g[n] = M
  /\ \A k \in 1 .. n : g[k] = Step(fold, h, top, g[k - 1], s[k])

Backward(g, fold, h, top, L, s, n, M) ==
  /\ g[n] = L /\ g[0] = M
  /\ \A k \in 1 .. n : g[k - 1] = Step(fold, h, top, g[k], s[k])

\* The ledgers a fold from left to right goes through.
LEMMA LeftStates ==
  ASSUME NEW f, NEW fold, fold # "remove", NEW h, NEW top, NEW L, NEW s, NEW n \in Nat,
         DOMAIN s = 1 .. n, Folding(f, fold, h, top, L, s)
  PROVE  \E g : Forward(g, fold, h, top, L, s, n, f[DOMAIN s])
<1> DEFINE g == [k \in 0 .. n |-> f[1 .. k]]
<1>1. g[0] = L
  <2>1. 1 .. 0 = {} /\ {} \in SUBSET DOMAIN s
    OBVIOUS
  <2>2. f[{}] = L
    BY <2>1 DEF Folding
  <2> QED BY <2>1, <2>2
<1>2. ASSUME NEW k \in 1 .. n PROVE g[k] = Step(fold, h, top, g[k - 1], s[k])
  <2>1. PICK t : t = 1 .. k
    OBVIOUS
  <2>2. t \in SUBSET (1 .. n) /\ k \in t /\ t # {} /\ t \in SUBSET DOMAIN s
    BY <2>1
  <2>3. Max(t) \in t /\ \A y \in t : Max(t) >= y
    BY <2>2, Extremes
  <2>4. Max(t) = k
    BY <2>1, <2>2, <2>3
  <2>5. t \ {k} = 1 .. k - 1 /\ k - 1 \in 0 .. n /\ k \in 0 .. n
    BY <2>1
  <2>6. Pick(fold, t) = k
    BY <2>4 DEF Pick
  <2>7. f[t] = Step(fold, h, top, f[t \ {k}], s[k])
    BY <2>2, <2>6 DEF Folding
  <2> QED BY <2>1, <2>5, <2>7
<1>3. g[n] = f[DOMAIN s]
  OBVIOUS
<1> HIDE DEF g
<1> QED BY <1>1, <1>2, <1>3 DEF Forward

\* The ledgers the fold from right to left goes through.
LEMMA RightStates ==
  ASSUME NEW f, NEW h, NEW top, NEW L, NEW s, NEW n \in Nat,
         DOMAIN s = 1 .. n, Folding(f, "remove", h, top, L, s)
  PROVE  \E g : Backward(g, "remove", h, top, L, s, n, f[DOMAIN s])
<1> DEFINE g == [k \in 0 .. n |-> f[k + 1 .. n]]
<1>1. g[n] = L
  <2>1. n + 1 .. n = {} /\ {} \in SUBSET DOMAIN s
    OBVIOUS
  <2>2. f[{}] = L
    BY <2>1 DEF Folding
  <2> QED BY <2>1, <2>2
<1>2. ASSUME NEW k \in 1 .. n PROVE g[k - 1] = Step("remove", h, top, g[k], s[k])
  <2>1. PICK t : t = k .. n
    OBVIOUS
  <2>2. t \in SUBSET (1 .. n) /\ k \in t /\ t # {} /\ t \in SUBSET DOMAIN s
    BY <2>1
  <2>3. Min(t) \in t /\ \A y \in t : Min(t) <= y
    BY <2>2, Extremes
  <2>4. Min(t) = k
    BY <2>1, <2>2, <2>3
  <2>5. t \ {k} = k + 1 .. n /\ k - 1 \in 0 .. n /\ k \in 0 .. n /\ (k - 1) + 1 = k
    BY <2>1
  <2>6. Pick("remove", t) = k
    BY <2>4 DEF Pick
  <2>7. f[t] = Step("remove", h, top, f[t \ {k}], s[k])
    BY <2>2, <2>6 DEF Folding
  <2> QED BY <2>1, <2>5, <2>7
<1>3. g[0] = f[DOMAIN s]
  OBVIOUS
<1> HIDE DEF g
<1> QED BY <1>1, <1>2, <1>3 DEF Backward

\* The folds of the ledger.
AfterTxs(L, h, s, top) == FoldLeft(LAMBDA K, tx : ApplyTxToState(K, h, tx, top), L, s)
WithoutTxs(L, h, s, top) == FoldRight(LAMBDA tx, K : RemoveTxFromState(K, h, tx, top), s, L)

\* The transactions of a block are applied one after the other.
LEMMA ApplyStates ==
  ASSUME NEW h, NEW top, NEW L, NEW s, NEW n \in Nat, DOMAIN s = 1 .. n
  PROVE  \E g : Forward(g, "apply", h, top, L, s, n, AfterTxs(L, h, s, top))
<1> DEFINE Is(f) == f = [t \in SUBSET DOMAIN s |->
                           IF t = {} THEN L ELSE ApplyTxToState(f[t \ {Max(t)}], h, s[Max(t)], top)]
<1>1. \A f : Is(f) <=> Folding(f, "apply", h, top, L, s)
  BY DEF Folding, Step, Pick
<1>2. PICK f : f = CHOOSE e : Is(e)
  OBVIOUS
<1>3. AfterTxs(L, h, s, top) = f[DOMAIN s]
  BY <1>2 DEF AfterTxs, FoldLeft, MapThenFoldSet
<1> HIDE DEF Is
<1>4. Is(f)
  BY <1>1, <1>2, FoldingExists
<1>5. "apply" # "remove"
  OBVIOUS
<1> QED BY <1>1, <1>3, <1>4, <1>5, LeftStates

\* The outputs of a transaction are paid one after the other.
LEMMA PayStates ==
  ASSUME NEW h, NEW L, NEW s, NEW n \in Nat, DOMAIN s = 1 .. n
  PROVE  \E g : Forward(g, "pay", h, 0, L, s, n, ApplyTxOutputsToState(L, h, s))
<1> DEFINE Is(f) == f = [t \in SUBSET DOMAIN s |->
                           IF t = {} THEN L ELSE ApplyOutput(f[t \ {Max(t)}], h, s[Max(t)])]
<1>1. \A f : Is(f) <=> Folding(f, "pay", h, 0, L, s)
  BY DEF Folding, Step, Pick
<1>2. PICK f : f = CHOOSE e : Is(e)
  OBVIOUS
<1>3. ApplyTxOutputsToState(L, h, s) = f[DOMAIN s]
  BY <1>2 DEF ApplyTxOutputsToState, FoldLeft, MapThenFoldSet
<1> HIDE DEF Is
<1>4. Is(f)
  BY <1>1, <1>2, FoldingExists
<1>5. "pay" # "remove"
  OBVIOUS
<1> QED BY <1>1, <1>3, <1>4, <1>5, LeftStates

\* The outputs of a transaction are taken back one after the other.
LEMMA TakeStates ==
  ASSUME NEW h, NEW L, NEW s, NEW n \in Nat, DOMAIN s = 1 .. n
  PROVE  \E g : Forward(g, "take", h, 0, L, s, n, RemoveTxOutputsFromState(L, h, s))
<1> DEFINE Is(f) == f = [t \in SUBSET DOMAIN s |->
                           IF t = {} THEN L ELSE RemoveOutput(f[t \ {Max(t)}], h, s[Max(t)])]
<1>1. \A f : Is(f) <=> Folding(f, "take", h, 0, L, s)
  BY DEF Folding, Step, Pick
<1>2. PICK f : f = CHOOSE e : Is(e)
  OBVIOUS
<1>3. RemoveTxOutputsFromState(L, h, s) = f[DOMAIN s]
  BY <1>2 DEF RemoveTxOutputsFromState, FoldLeft, MapThenFoldSet
<1> HIDE DEF Is
<1>4. Is(f)
  BY <1>1, <1>2, FoldingExists
<1>5. "take" # "remove"
  OBVIOUS
<1> QED BY <1>1, <1>3, <1>4, <1>5, LeftStates

\* The transactions of a block are removed from the last one to the first.
LEMMA RemoveStates ==
  ASSUME NEW h, NEW top, NEW L, NEW s, NEW n \in Nat, DOMAIN s = 1 .. n
  PROVE  \E g : Backward(g, "remove", h, top, L, s, n, WithoutTxs(L, h, s, top))
<1> DEFINE Is(f) == f = [t \in SUBSET DOMAIN s |->
                           IF t = {} THEN L ELSE RemoveTxFromState(f[t \ {Min(t)}], h, s[Min(t)], top)]
<1>1. \A f : Is(f) <=> Folding(f, "remove", h, top, L, s)
  BY DEF Folding, Step, Pick
<1>2. PICK f : f = CHOOSE e : Is(e)
  OBVIOUS
<1>3. WithoutTxs(L, h, s, top) = f[DOMAIN s]
  BY <1>2 DEF WithoutTxs, FoldRight, MapThenFoldSet
<1> HIDE DEF Is
<1>4. Is(f)
  BY <1>1, <1>2, FoldingExists
<1> QED BY <1>1, <1>3, <1>4, RightStates

-----------------------------------------------------------------------------
(* What the steps leave alone                                              *)

\* L has the parts of a ledger.
Shape(L) == DOMAIN L = {"ok", "bal", "incoming", "nonce", "delegate", "dels", "staked", "history"}

\* M is a ledger that counts the same transactions as L.
Like(M, L) == Shape(M) /\ M.nonce = L.nonce

LEMMA RefuseLike ==
  ASSUME NEW L, Shape(L)
  PROVE  Like(Refuse(L), L) /\ Refuse(L).ok = FALSE
BY DEF Like, Shape, Refuse

\* Stakes and their undoing leave the nonces alone.
LEMMA StakeLike ==
  ASSUME NEW L, Shape(L), NEW d, NEW u, NEW amount, NEW top, NEW reverse
  PROVE  Like(Stake(L, d, u, amount, top, reverse), L)
         /\ Stake(L, d, u, amount, top, reverse).ok = L.ok
BY DEF Like, Shape, Stake

LEMMA UnstakeLike ==
  ASSUME NEW L, Shape(L), NEW d, NEW u, NEW amount, NEW reverse, NEW prev
  PROVE  Like(Unstake(L, d, u, amount, reverse, prev), L)
         /\ Unstake(L, d, u, amount, reverse, prev).ok = L.ok
BY DEF Like, Shape, Unstake

LEMMA PosRewardLike ==
  ASSUME NEW L, Shape(L), NEW h, NEW d, NEW amount
  PROVE  Like(PosReward(L, h, d, amount), L) /\ PosReward(L, h, d, amount).ok = L.ok
BY DEF Like, Shape, PosReward

LEMMA RemovePosRewardLike ==
  ASSUME NEW L, Shape(L), NEW h, NEW d, NEW amount
  PROVE  Like(RemovePosReward(L, h, d, amount), L) /\ RemovePosReward(L, h, d, amount).ok = L.ok
BY DEF Like, Shape, RemovePosReward

LEMMA ApplyOutputLike ==
  ASSUME NEW L, Shape(L), NEW h, NEW out
  PROVE  Like(ApplyOutput(L, h, out), L) /\ (ApplyOutput(L, h, out).ok => L.ok)
<1>1. PICK paid : paid = [L EXCEPT !.bal[out.to] = @ + out.amount, !.incoming[out.to] = @ + 1]
  OBVIOUS
<1>2. Like(paid, L) /\ paid.ok = L.ok
  BY <1>1 DEF Like, Shape
<1>3. Like(PosReward(paid, h, out.pos, out.amount), L)
      /\ PosReward(paid, h, out.pos, out.amount).ok = L.ok
  BY <1>2, PosRewardLike DEF Like
<1>4. Like(L, L)
  BY DEF Like
<1> QED BY <1>1, <1>2, <1>3, <1>4, RefuseLike DEF ApplyOutput

LEMMA RemoveOutputLike ==
  ASSUME NEW L, Shape(L), NEW h, NEW out
  PROVE  Like(RemoveOutput(L, h, out), L) /\ (RemoveOutput(L, h, out).ok => L.ok)
<1>1. PICK taken : taken = [L EXCEPT !.bal[out.to] = @ - out.amount, !.incoming[out.to] = @ - 1]
  OBVIOUS
<1>2. Like(taken, L) /\ taken.ok = L.ok
  BY <1>1 DEF Like, Shape
<1>3. Like(RemovePosReward(taken, h, out.pos, out.amount), L)
      /\ RemovePosReward(taken, h, out.pos, out.amount).ok = L.ok
  BY <1>2, RemovePosRewardLike DEF Like
<1>4. Like(L, L)
  BY DEF Like
<1> QED BY <1>1, <1>2, <1>3, <1>4, RefuseLike DEF RemoveOutput

\* Paying or taking back a list of outputs.
LEMMA PaidLike ==
  ASSUME NEW L, Shape(L), NEW h, NEW s, NEW n \in Nat, DOMAIN s = 1 .. n
  PROVE  Like(ApplyTxOutputsToState(L, h, s), L) /\ (ApplyTxOutputsToState(L, h, s).ok => L.ok)
<1>1. PICK g : Forward(g, "pay", h, 0, L, s, n, ApplyTxOutputsToState(L, h, s))
  BY PayStates
<1>2. \A k \in 1 .. n : g[k] = ApplyOutput(g[k - 1], h, s[k])
  BY <1>1 DEF Forward, Step
<1> DEFINE Good(k) == Like(g[k], L) /\ (g[k].ok => L.ok)
           S == {k \in Nat : k <= n => Good(k)}
<1>3. 0 \in S
  BY <1>1 DEF Forward, Like
<1>4. ASSUME NEW k \in Nat, k \in S PROVE k + 1 \in S
  <2>1. CASE k + 1 <= n
    <3>1. k + 1 \in 1 .. n /\ (k + 1) - 1 = k /\ Good(k)
      BY <1>4, <2>1
    <3>2. g[k + 1] = ApplyOutput(g[k], h, s[k + 1])
      BY <1>2, <3>1
    <3>3. Good(k + 1)
      BY <3>1, <3>2, ApplyOutputLike DEF Like
    <3> HIDE DEF Good
    <3> QED BY <3>3
  <2>2. CASE ~(k + 1 <= n)
    <3> HIDE DEF Good
    <3> QED BY <2>2
  <2> QED BY <2>1, <2>2
<1>5. Nat \subseteq S
  <2> HIDE DEF S
  <2> QED BY <1>3, <1>4, NatSetInduction
<1>6. Good(n)
  BY <1>5
<1> QED BY <1>1, <1>6 DEF Forward

LEMMA TakenLike ==
  ASSUME NEW L, Shape(L), NEW h, NEW s, NEW n \in Nat, DOMAIN s = 1 .. n
  PROVE  Like(RemoveTxOutputsFromState(L, h, s), L) /\ (RemoveTxOutputsFromState(L, h, s).ok => L.ok)
<1>1. PICK g : Forward(g, "take", h, 0, L, s, n, RemoveTxOutputsFromState(L, h, s))
  BY TakeStates
<1>2. \A k \in 1 .. n : g[k] = RemoveOutput(g[k - 1], h, s[k])
  BY <1>1 DEF Forward, Step
<1> DEFINE Good(k) == Like(g[k], L) /\ (g[k].ok => L.ok)
           S == {k \in Nat : k <= n => Good(k)}
<1>3. 0 \in S
  BY <1>1 DEF Forward, Like
<1>4. ASSUME NEW k \in Nat, k \in S PROVE k + 1 \in S
  <2>1. CASE k + 1 <= n
    <3>1. k + 1 \in 1 .. n /\ (k + 1) - 1 = k /\ Good(k)
      BY <1>4, <2>1
    <3>2. g[k + 1] = RemoveOutput(g[k], h, s[k + 1])
      BY <1>2, <3>1
    <3>3. Good(k + 1)
      BY <3>1, <3>2, RemoveOutputLike DEF Like
    <3> HIDE DEF Good
    <3> QED BY <3>3
  <2>2. CASE ~(k + 1 <= n)
    <3> HIDE DEF Good
    <3> QED BY <2>2
  <2> QED BY <2>1, <2>2
<1>5. Nat \subseteq S
  <2> HIDE DEF S
  <2> QED BY <1>3, <1>4, NatSetInduction
<1>6. Good(n)
  BY <1>5
<1> QED BY <1>1, <1>6 DEF Forward

\* What a transaction does to the delegates leaves the nonces alone.
LEMMA DelegateEffectLike ==
  ASSUME NEW L, Shape(L), NEW tx, NEW top
  PROVE  Like(DelegateEffect(L, tx, top), L)
<1>1. Like([L EXCEPT !.dels[tx.delegate] = [owner |-> tx.signer, funds |-> <<>>]], L)
  BY DEF Like, Shape
<1>2. Like([L EXCEPT !.delegate[tx.signer] = tx.delegate], L) /\ Like(L, L)
  BY DEF Like, Shape
<1>3. CASE tx.kind = "stake"
  BY <1>3, StakeLike DEF DelegateEffect
<1>4. CASE tx.kind = "unstake"
  BY <1>4, UnstakeLike DEF DelegateEffect
<1>5. CASE tx.kind = "register"
  BY <1>1, <1>5 DEF DelegateEffect
<1>6. CASE tx.kind = "set"
  BY <1>2, <1>6 DEF DelegateEffect
<1>7. CASE tx.kind \notin {"stake", "unstake", "register", "set"}
  BY <1>2, <1>7 DEF DelegateEffect
<1> QED BY <1>3, <1>4, <1>5, <1>6, <1>7

LEMMA DelegateUndoLike ==
  ASSUME NEW L, Shape(L), NEW tx, NEW top
  PROVE  Like(DelegateUndo(L, tx, top), L) /\ DelegateUndo(L, tx, top).ok = L.ok
<1>1. PICK M : M = [L EXCEPT !.dels[tx.delegate] = [owner |-> Nobody, funds |-> <<>>]]
  OBVIOUS
<1>2. PICK N : N = [L EXCEPT !.delegate[tx.signer] = tx.prev]
  OBVIOUS
<1>3. /\ Like(M, L) /\ M.ok = L.ok
      /\ Like(N, L) /\ N.ok = L.ok /\ Like(L, L)
  BY <1>1, <1>2 DEF Like, Shape
<1>4. CASE tx.kind = "stake"
  <2>1. PICK r : DelegateUndo(L, tx, top) = Unstake(L, tx.delegate, tx.signer, tx.amount, r, tx.prev)
    BY <1>4 DEF DelegateUndo
  <2> QED BY <2>1, UnstakeLike
<1>5. CASE tx.kind = "unstake"
  <2>1. PICK r : DelegateUndo(L, tx, top) = Stake(L, tx.delegate, tx.signer, tx.amount, top, r)
    BY <1>5 DEF DelegateUndo
  <2> QED BY <2>1, StakeLike
<1>6. CASE tx.kind = "register"
  BY <1>1, <1>3, <1>6 DEF DelegateUndo
<1>7. CASE tx.kind = "set"
  BY <1>2, <1>3, <1>7 DEF DelegateUndo
<1>8. CASE tx.kind \notin {"stake", "unstake", "register", "set"}
  BY <1>3, <1>8 DEF DelegateUndo
<1> QED BY <1>4, <1>5, <1>6, <1>7, <1>8

\* A transaction has finitely many outputs, and so has a coinbase.
LEMMA OutputList ==
  ASSUME NEW tx \in Transaction
  PROVE  \E n \in Nat : DOMAIN Outputs(tx) = 1 .. n
<1>1. tx.kind \in {"transfer", "register", "set", "stake", "unstake"}
  BY DEF Transaction
<1>2. CASE tx.kind = "set"
  <2>1. Outputs(tx) = <<>>
    BY <1>2 DEF Outputs
  <2>2. DOMAIN Outputs(tx) = 1 .. 0
    BY <2>1
  <2> QED BY <2>2
<1>3. CASE tx.kind # "set"
  <2>1. PICK o : Outputs(tx) = <<o>>
    BY <1>1, <1>3 DEF Outputs
  <2>2. DOMAIN Outputs(tx) = 1 .. 1
    BY <2>1
  <2> QED BY <2>2
<1> QED BY <1>2, <1>3

\* A coinbase has two outputs, and a third unless that one would be empty.
LEMMA CoinbaseList ==
  ASSUME NEW b, NEW total
  PROVE  \E m \in Nat : DOMAIN CoinbaseTransaction(b, total) = 1 .. m
<1>1. PICK cb : cb = CoinbaseTransaction(b, total)
  OBVIOUS
<1>2. PICK gov, pow, pow2 : gov = (total * 10) \div 100 /\ pow = total \div 2 /\ pow2 = (pow * 3) \div 4
  OBVIOUS
<1>3. PICK x, y, z :
           /\ x = [to |-> Gov, amount |-> gov, pos |-> 0]
           /\ y = [to |-> b.miner, amount |-> IF b.signed THEN pow ELSE pow2, pos |-> 0]
           /\ z = IF b.signed
                  THEN [to |-> DelegateAddr[b.delegate], amount |-> total - pow - gov, pos |-> b.delegate]
                  ELSE [to |-> Burned, amount |-> total - gov - pow2, pos |-> 0]
  OBVIOUS
<1>5. cb = IF z.amount # 0 THEN <<x, y, z>> ELSE <<x, y>>
  BY <1>1, <1>2, <1>3, Zenon DEF CoinbaseTransaction
<1>4. DOMAIN cb = 1 .. 3 \/ DOMAIN cb = 1 .. 2
  BY <1>5
<1> QED BY <1>1, <1>4

\* The nonces before and after transaction tx.
Counted(v, tx, w) ==
  tx.nonce = v[tx.signer] + 1 /\ w = [v EXCEPT ![tx.signer] = @ + 1]

\* A ledger with a whole number for the nonce of every user.
Numbered(L) == Shape(L) /\ L.nonce \in [Users -> Int]

LEMMA ApplyTxCounts ==
  ASSUME NEW L, Numbered(L), NEW h, NEW tx \in Transaction, NEW top, NEW M,
         M = ApplyTxToState(L, h, tx, top)
  PROVE  /\ Numbered(M)
         /\ M.ok => L.ok /\ Counted(L.nonce, tx, M.nonce)
<1>1. PICK K : K = DelegateEffect(L, tx, top)
  OBVIOUS
<1>2. PICK spent : spent = [K EXCEPT !.nonce[tx.signer] = @ + 1,
                                     !.bal[Input(tx).from] = @ - Input(tx).amount]
  OBVIOUS
<1>3. M = IF L.ok /\ TxValid(L, tx, top) THEN ApplyTxOutputsToState(spent, h, Outputs(tx)) ELSE Refuse(L)
  BY <1>1, <1>2 DEF ApplyTxToState
<1>4. Shape(K) /\ K.nonce = L.nonce
  BY <1>1, DelegateEffectLike DEF Like, Numbered
<1>5. Shape(spent) /\ spent.nonce = [L.nonce EXCEPT ![tx.signer] = @ + 1]
  BY <1>2, <1>4 DEF Shape
<1>6. Like(ApplyTxOutputsToState(spent, h, Outputs(tx)), spent)
  BY <1>5, OutputList, PaidLike
<1>7. tx.signer \in Users
  BY DEF Transaction
<1>8. [L.nonce EXCEPT ![tx.signer] = @ + 1] \in [Users -> Int]
  BY <1>7 DEF Numbered
<1>9. CASE L.ok /\ TxValid(L, tx, top)
  <2>1. Shape(M) /\ M.nonce = [L.nonce EXCEPT ![tx.signer] = @ + 1]
    BY <1>3, <1>5, <1>6, <1>9 DEF Like
  <2>2. tx.nonce = L.nonce[tx.signer] + 1
    BY <1>9 DEF TxValid
  <2> QED BY <1>8, <1>9, <2>1, <2>2 DEF Numbered, Counted
<1>10. CASE ~(L.ok /\ TxValid(L, tx, top))
  <2>1. M = Refuse(L)
    BY <1>3, <1>10
  <2> QED BY <2>1, RefuseLike DEF Numbered, Like
<1> QED BY <1>9, <1>10

LEMMA RemoveTxCounts ==
  ASSUME NEW L, Numbered(L), NEW h, NEW tx \in Transaction, NEW top, NEW M,
         M = RemoveTxFromState(L, h, tx, top)
  PROVE  /\ Numbered(M)
         /\ M.ok => L.ok /\ Counted(M.nonce, tx, L.nonce)
<1>1. PICK unpaid : unpaid = RemoveTxOutputsFromState(L, h, Outputs(tx))
  OBVIOUS
<1>2. PICK back : back = [unpaid EXCEPT !.ok = L.ok, !.bal[Input(tx).from] = @ + Input(tx).amount]
  OBVIOUS
<1>3. PICK K : K = DelegateUndo(back, tx, top)
  OBVIOUS
<1>4. M = IF L.ok /\ UntxValid(back, tx, top)
          THEN [K EXCEPT !.nonce[tx.signer] = @ - 1] ELSE Refuse(L)
  BY <1>1, <1>2, <1>3 DEF RemoveTxFromState
<1>5. Shape(unpaid) /\ unpaid.nonce = L.nonce
  BY <1>1, OutputList, TakenLike DEF Like, Numbered
<1>6. Shape(back) /\ back.nonce = L.nonce
  BY <1>2, <1>5 DEF Shape
<1>7. Shape(K) /\ K.nonce = L.nonce
  BY <1>3, <1>6, DelegateUndoLike DEF Like
<1>8. tx.signer \in Users
  BY DEF Transaction
<1>9. CASE L.ok /\ UntxValid(back, tx, top)
  <2>1. M = [K EXCEPT !.nonce[tx.signer] = @ - 1]
    BY <1>4, <1>9
  <2>2. Shape(M) /\ M.nonce = [L.nonce EXCEPT ![tx.signer] = @ - 1]
    BY <2>1, <1>7 DEF Shape
  <2>3. tx.nonce = L.nonce[tx.signer]
    BY <1>6, <1>9 DEF UntxValid
  <2>4. PICK v \in [Users -> Int] : v = L.nonce
    BY DEF Numbered
  <2>5. PICK w : w = [v EXCEPT ![tx.signer] = @ - 1]
    OBVIOUS
  <2>6. w \in [Users -> Int] /\ v[tx.signer] = w[tx.signer] + 1
    BY <1>8, <2>5
  <2>7. \A u \in Users : v[u] = [w EXCEPT ![tx.signer] = @ + 1][u]
    BY <1>8, <2>5, <2>6
  <2>8. v = [w EXCEPT ![tx.signer] = @ + 1]
    BY <2>6, <2>7
  <2> QED BY <1>9, <2>2, <2>3, <2>4, <2>5, <2>6, <2>8 DEF Numbered, Counted
<1>10. CASE ~(L.ok /\ UntxValid(back, tx, top))
  <2>1. M = Refuse(L)
    BY <1>4, <1>10
  <2> QED BY <2>1, RefuseLike DEF Numbered, Like
<1> QED BY <1>9, <1>10

-----------------------------------------------------------------------------
(* Nonces of a block                                                       *)

\* The first m transactions of t lead from the nonces v to the nonces w: those of
\* each signer carry the numbers after v up to w, in this order.
CountsTo(v, t, m, w) ==
  /\ \A u \in Users : v[u] <= w[u]
  /\ \A k \in 1 .. m : v[t[k].signer] < t[k].nonce /\ t[k].nonce <= w[t[k].signer]
  /\ \A k, l \in 1 .. m : k < l /\ t[k].signer = t[l].signer => t[k].nonce < t[l].nonce
  /\ \A u \in Users : \A x \in v[u] + 1 .. w[u] :
       \E k \in 1 .. m : t[k].signer = u /\ t[k].nonce = x

\* Counting one transaction after the other counts the list.
LEMMA Counting ==
  ASSUME NEW t, NEW n \in Nat, t \in [1 .. n -> Transaction],
         NEW z \in [0 .. n -> [Users -> Int]],
         \A k \in 1 .. n : Counted(z[k - 1], t[k], z[k])
  PROVE  CountsTo(z[0], t, n, z[n])
<1> DEFINE S == {m \in Nat : m <= n => CountsTo(z[0], t, m, z[m])}
<1>1. 0 \in S
  <2>1. z[0] \in [Users -> Int] /\ 1 .. 0 = {}
    OBVIOUS
  <2>2. CountsTo(z[0], t, 0, z[0])
    BY <2>1 DEF CountsTo
  <2> QED BY <2>2
<1>2. ASSUME NEW m \in Nat, m \in S PROVE m + 1 \in S
  <2>1. SUFFICES ASSUME m + 1 <= n PROVE CountsTo(z[0], t, m + 1, z[m + 1])
    OBVIOUS
  <2>2. m + 1 \in 1 .. n /\ m \in 0 .. n /\ m + 1 \in 0 .. n /\ (m + 1) - 1 = m /\ 0 \in 0 .. n
    BY <2>1
  <2>3. CountsTo(z[0], t, m, z[m])
    BY <1>2, <2>2
  <2>4. Counted(z[m], t[m + 1], z[m + 1])
    BY <2>2
  <2>5. PICK v \in [Users -> Int], x \in [Users -> Int], w \in [Users -> Int] :
          v = z[0] /\ x = z[m] /\ w = z[m + 1]
    BY <2>2
  <2>6. PICK u0 \in Users : u0 = t[m + 1].signer
    BY <2>2 DEF Transaction
  <2>7. /\ t[m + 1].nonce = x[u0] + 1 /\ w[u0] = x[u0] + 1
        /\ \A u \in Users : u # u0 => w[u] = x[u]
        /\ \A u \in Users : x[u] \in Int /\ v[u] \in Int /\ w[u] \in Int /\ x[u] <= w[u]
    BY <2>4, <2>5, <2>6 DEF Counted
  <2>8. \A k \in 1 .. m + 1 : k \in 1 .. m \/ k = m + 1
    OBVIOUS
  <2>9. \A k \in 1 .. m + 1 : t[k].signer \in Users /\ t[k].nonce \in Nat
    <3>1. ASSUME NEW k \in 1 .. m + 1 PROVE t[k] \in Transaction
      BY <2>1
    <3> QED BY <3>1 DEF Transaction
  <2>10. CountsTo(v, t, m, x)
    BY <2>3, <2>5
  <2>11. \A u \in Users : v[u] <= w[u]
    BY <2>7, <2>10 DEF CountsTo
  <2>12. ASSUME NEW k \in 1 .. m + 1
         PROVE  v[t[k].signer] < t[k].nonce /\ t[k].nonce <= w[t[k].signer]
    <3>1. CASE k \in 1 .. m
      <4>1. v[t[k].signer] < t[k].nonce /\ t[k].nonce <= x[t[k].signer]
        BY <2>10, <3>1 DEF CountsTo
      <4>2. PICK u \in Users, i \in Nat : u = t[k].signer /\ i = t[k].nonce
        BY <2>9
      <4>3. x[u] \in Int /\ v[u] \in Int /\ w[u] \in Int /\ x[u] <= w[u]
        BY <2>7
      <4>4. v[u] < i /\ i <= x[u]
        BY <4>1, <4>2
      <4>5. v[u] < i /\ i <= w[u]
        BY <4>3, <4>4
      <4> QED BY <4>2, <4>5
    <3>2. CASE k = m + 1
      <4>1. v[u0] <= x[u0]
        BY <2>10 DEF CountsTo
      <4> QED BY <2>6, <2>7, <3>2, <4>1
    <3> QED BY <2>8, <3>1, <3>2
  <2>13. ASSUME NEW k \in 1 .. m + 1, NEW l \in 1 .. m + 1, k < l, t[k].signer = t[l].signer
         PROVE  t[k].nonce < t[l].nonce
    <3>1. CASE l \in 1 .. m
      <4>1. k \in 1 .. m
        BY <2>13, <3>1
      <4> QED BY <2>10, <2>13, <3>1, <4>1 DEF CountsTo
    <3>2. CASE l = m + 1
      <4>1. k \in 1 .. m
        BY <2>13, <3>2
      <4>2. t[k].nonce <= x[t[k].signer] /\ t[k].signer = u0
        BY <2>6, <2>10, <2>13, <3>2, <4>1 DEF CountsTo
      <4> QED BY <2>7, <2>9, <3>2, <4>2
    <3> QED BY <2>8, <3>1, <3>2
  <2>14. ASSUME NEW u \in Users, NEW y \in v[u] + 1 .. w[u]
         PROVE  \E k \in 1 .. m + 1 : t[k].signer = u /\ t[k].nonce = y
    <3>1. CASE y \in v[u] + 1 .. x[u]
      <4>1. PICK k \in 1 .. m : t[k].signer = u /\ t[k].nonce = y
        BY <2>10, <3>1 DEF CountsTo
      <4>2. k \in 1 .. m + 1
        OBVIOUS
      <4> QED BY <4>1, <4>2
    <3>2. CASE y \notin v[u] + 1 .. x[u]
      <4>1. u = u0 /\ y = x[u0] + 1
        <5>1. v[u] \in Int /\ x[u] \in Int /\ w[u] \in Int /\ y \in Int /\ v[u] + 1 <= y /\ y <= w[u]
          BY <2>7
        <5>2. ~(y <= x[u])
          BY <3>2, <5>1
        <5>3. w[u] # x[u]
          BY <5>1, <5>2
        <5>4. u = u0
          BY <2>7, <5>3
        <5> QED BY <2>7, <5>1, <5>2, <5>4
      <4>2. m + 1 \in 1 .. m + 1
        OBVIOUS
      <4> QED BY <2>6, <2>7, <4>1, <4>2
    <3> QED BY <3>1, <3>2
  <2>15. CountsTo(v, t, m + 1, w)
    BY <2>11, <2>12, <2>13, <2>14 DEF CountsTo
  <2> QED BY <2>5, <2>15
<1>3. Nat \subseteq S
  <2> HIDE DEF S
  <2> QED BY <1>1, <1>2, NatSetInduction
<1> QED BY <1>3

\* What holds at the end of a run of numbers and is kept backwards holds everywhere.
LEMMA BackInduction ==
  ASSUME NEW n \in Nat, NEW S, n \in S, \A k \in 1 .. n : k \in S => k - 1 \in S
  PROVE  0 .. n \subseteq S
<1> DEFINE T == {i \in Nat : i <= n => n - i \in S}
<1>1. 0 \in T
  OBVIOUS
<1>2. ASSUME NEW i \in Nat, i \in T PROVE i + 1 \in T
  <2>1. i + 1 <= n => n - i \in 1 .. n /\ n - (i + 1) = (n - i) - 1
    OBVIOUS
  <2> QED BY <1>2, <2>1
<1>3. Nat \subseteq T
  <2> HIDE DEF T
  <2> QED BY <1>1, <1>2, NatSetInduction
<1>4. ASSUME NEW k \in 0 .. n PROVE k \in S
  <2>1. n - k \in Nat /\ n - k <= n /\ n - (n - k) = k
    OBVIOUS
  <2> QED BY <1>3, <2>1
<1> QED BY <1>4

\* Applying the transactions of a block counts them.
LEMMA AfterTxsCounts ==
  ASSUME NEW L, Numbered(L), NEW h, NEW top, NEW n \in Nat, NEW t \in [1 .. n -> Transaction],
         NEW M, M = AfterTxs(L, h, t, top)
  PROVE  /\ Numbered(M)
         /\ M.ok => L.ok /\ CountsTo(L.nonce, t, n, M.nonce)
<1>1. PICK g : Forward(g, "apply", h, top, L, t, n, M)
  BY ApplyStates
<1>2. \A k \in 1 .. n : g[k] = ApplyTxToState(g[k - 1], h, t[k], top)
  BY <1>1 DEF Forward, Step
<1>3. g[0] = L /\ g[n] = M
  BY <1>1 DEF Forward
<1> DEFINE S == {k \in Nat : k <= n => Numbered(g[k])}
<1>4. 0 \in S
  BY <1>3
<1>5. ASSUME NEW k \in Nat, k \in S PROVE k + 1 \in S
  <2>1. CASE k + 1 <= n
    <3>1. k + 1 \in 1 .. n /\ (k + 1) - 1 = k /\ Numbered(g[k])
      BY <1>5, <2>1
    <3>2. g[k + 1] = ApplyTxToState(g[k], h, t[k + 1], top) /\ t[k + 1] \in Transaction
      BY <1>2, <3>1
    <3> QED BY <3>1, <3>2, ApplyTxCounts
  <2>2. CASE ~(k + 1 <= n)
    BY <2>2
  <2> QED BY <2>1, <2>2
<1>6. Nat \subseteq S
  <2> HIDE DEF S
  <2> QED BY <1>4, <1>5, NatSetInduction
<1>7. \A k \in 0 .. n : Numbered(g[k])
  BY <1>6
<1>8. Numbered(M)
  BY <1>3, <1>7
<1>9. ASSUME M.ok PROVE L.ok /\ CountsTo(L.nonce, t, n, M.nonce)
  <2> DEFINE Ok == {k \in 0 .. n : g[k].ok}
  <2>1. n \in Ok
    BY <1>3, <1>9
  <2>2. ASSUME NEW k \in 1 .. n, k \in Ok PROVE k - 1 \in Ok /\ Counted(g[k - 1].nonce, t[k], g[k].nonce)
    <3>1. Numbered(g[k - 1]) /\ t[k] \in Transaction /\ g[k].ok /\ k - 1 \in 0 .. n
      BY <1>7, <2>2
    <3>2. g[k] = ApplyTxToState(g[k - 1], h, t[k], top)
      BY <1>2
    <3> QED BY <3>1, <3>2, ApplyTxCounts
  <2>3. 0 .. n \subseteq Ok
    <3> HIDE DEF Ok
    <3> QED BY <2>1, <2>2, BackInduction
  <2>4. PICK z : z = [k \in 0 .. n |-> g[k].nonce]
    OBVIOUS
  <2>5. z \in [0 .. n -> [Users -> Int]]
    BY <1>7, <2>4 DEF Numbered
  <2>6. \A k \in 1 .. n : Counted(z[k - 1], t[k], z[k])
    BY <2>2, <2>3, <2>4
  <2>7. CountsTo(z[0], t, n, z[n])
    BY <2>5, <2>6, Counting
  <2>8. z[0] = L.nonce /\ z[n] = M.nonce /\ L.ok
    BY <1>3, <2>3, <2>4
  <2> QED BY <2>7, <2>8
<1> QED BY <1>8, <1>9

\* And removing them uncounts them.
LEMMA WithoutTxsCounts ==
  ASSUME NEW L, Numbered(L), NEW h, NEW top, NEW n \in Nat, NEW t \in [1 .. n -> Transaction],
         NEW M, M = WithoutTxs(L, h, t, top)
  PROVE  /\ Numbered(M)
         /\ M.ok => L.ok /\ CountsTo(M.nonce, t, n, L.nonce)
<1>1. PICK g : Backward(g, "remove", h, top, L, t, n, M)
  BY RemoveStates
<1>2. \A k \in 1 .. n : g[k - 1] = RemoveTxFromState(g[k], h, t[k], top)
  BY <1>1 DEF Backward, Step
<1>3. g[n] = L /\ g[0] = M
  BY <1>1 DEF Backward
<1> DEFINE S == {k \in 0 .. n : Numbered(g[k])}
<1>4. n \in S
  BY <1>3
<1>5. ASSUME NEW k \in 1 .. n, k \in S PROVE k - 1 \in S
  <2>1. Numbered(g[k]) /\ t[k] \in Transaction /\ k - 1 \in 0 .. n
    BY <1>5
  <2> QED BY <1>2, <2>1, RemoveTxCounts
<1>6. 0 .. n \subseteq S
  <2> HIDE DEF S
  <2> QED BY <1>4, <1>5, BackInduction
<1>7. \A k \in 0 .. n : Numbered(g[k])
  BY <1>6
<1>8. Numbered(M)
  BY <1>3, <1>7
<1>9. ASSUME M.ok PROVE L.ok /\ CountsTo(M.nonce, t, n, L.nonce)
  <2> DEFINE Ok == {k \in Nat : k <= n => g[k].ok}
  <2>1. 0 \in Ok
    BY <1>3, <1>9
  <2>2. ASSUME NEW k \in 1 .. n, g[k - 1].ok PROVE g[k].ok /\ Counted(g[k - 1].nonce, t[k], g[k].nonce)
    <3>1. Numbered(g[k]) /\ t[k] \in Transaction
      BY <1>7
    <3>2. g[k - 1] = RemoveTxFromState(g[k], h, t[k], top)
      BY <1>2
    <3> QED BY <2>2, <3>1, <3>2, RemoveTxCounts
  <2>3. ASSUME NEW k \in Nat, k \in Ok PROVE k + 1 \in Ok
    <3>1. k + 1 <= n => k + 1 \in 1 .. n /\ (k + 1) - 1 = k
      OBVIOUS
    <3> QED BY <2>2, <2>3, <3>1
  <2>4. Nat \subseteq Ok
    <3> HIDE DEF Ok
    <3> QED BY <2>1, <2>3, NatSetInduction
  <2>5. \A k \in 0 .. n : g[k].ok
    BY <2>4
  <2>6. PICK z : z = [k \in 0 .. n |-> g[k].nonce]
    OBVIOUS
  <2>7. z \in [0 .. n -> [Users -> Int]]
    BY <1>7, <2>6 DEF Numbered
  <2>8. \A k \in 1 .. n : Counted(z[k - 1], t[k], z[k])
    BY <2>2, <2>5, <2>6
  <2>9. CountsTo(z[0], t, n, z[n])
    BY <2>7, <2>8, Counting
  <2>10. z[0] = M.nonce /\ z[n] = L.nonce /\ L.ok
    BY <1>3, <2>5, <2>6
  <2> QED BY <2>9, <2>10
<1> QED BY <1>8, <1>9

\* A block as it may be applied: with any list of transactions.
AnyBlock == [miner : Users, txs : Seq(Transaction), delegate : DelegateIds \cup {0},
             next : DelegateIds \cup {0}, signed : BOOLEAN]

\* Applying a block counts its transactions, and removing it uncounts them.
LEMMA ApplyBlockCounts ==
  ASSUME NEW L, Numbered(L), NEW h, NEW b \in AnyBlock, NEW top, NEW M,
         M = ApplyBlockToState(L, h, b, top), M.ok
  PROVE  Numbered(M) /\ CountsTo(L.nonce, b.txs, Len(b.txs), M.nonce)
<1>1. PICK t \in Seq(Transaction) : t = b.txs
  BY DEF AnyBlock
<1>2. Len(t) \in Nat /\ t \in [1 .. Len(t) -> Transaction]
  OBVIOUS
<1>3. PICK K : K = AfterTxs(L, h, t, top)
  OBVIOUS
<1>4. Numbered(K) /\ (K.ok => CountsTo(L.nonce, t, Len(t), K.nonce))
  BY <1>2, <1>3, AfterTxsCounts
<1>5. PICK cb : cb = CoinbaseTransaction(b, TotalReward(b, h))
  OBVIOUS
<1>6. M = IF b.next \in NextStakers(L) THEN ApplyTxOutputsToState(K, h, cb) ELSE Refuse(L)
  BY <1>1, <1>3, <1>5 DEF ApplyBlockToState, AfterTxs
<1>7. Refuse(L).ok = FALSE
  BY RefuseLike DEF Numbered
<1>8. M = ApplyTxOutputsToState(K, h, cb)
  BY <1>6, <1>7
<1>9. PICK m \in Nat : DOMAIN cb = 1 .. m
  BY <1>5, CoinbaseList
<1>10. Like(M, K) /\ K.ok
  BY <1>4, <1>8, <1>9, PaidLike DEF Numbered
<1> QED BY <1>1, <1>4, <1>10 DEF Like, Numbered

LEMMA RemoveBlockCounts ==
  ASSUME NEW L, Numbered(L), NEW h, NEW b \in AnyBlock, NEW top, NEW M,
         M = RemoveBlockFromState(L, h, b, top), M.ok
  PROVE  Numbered(M) /\ CountsTo(M.nonce, b.txs, Len(b.txs), L.nonce)
<1>1. PICK t \in Seq(Transaction) : t = b.txs
  BY DEF AnyBlock
<1>2. Len(t) \in Nat /\ t \in [1 .. Len(t) -> Transaction]
  OBVIOUS
<1>3. PICK K : K = WithoutTxs(L, h, t, top)
  OBVIOUS
<1>4. Numbered(K) /\ (K.ok => CountsTo(K.nonce, t, Len(t), L.nonce))
  BY <1>2, <1>3, WithoutTxsCounts
<1>5. PICK cb : cb = CoinbaseTransaction(b, TotalReward(b, h))
  OBVIOUS
<1>6. M = RemoveTxOutputsFromState(K, h, cb)
  BY <1>1, <1>3, <1>5 DEF RemoveBlockFromState, WithoutTxs
<1>7. PICK m \in Nat : DOMAIN cb = 1 .. m
  BY <1>5, CoinbaseList
<1>8. Like(M, K) /\ K.ok
  BY <1>4, <1>6, <1>7, TakenLike DEF Numbered
<1> QED BY <1>1, <1>4, <1>8 DEF Like, Numbered

-----------------------------------------------------------------------------
(* Nonces of a chain                                                       *)

\* The transactions of each signer carry increasing nonces along chain c.
Increasing(c) ==
  \A i, j \in DOMAIN c : \A k \in DOMAIN c[i].txs, l \in DOMAIN c[j].txs :
    /\ c[i].txs[k].signer = c[j].txs[l].signer
    /\ i < j \/ (i = j /\ k < l)
    => c[i].txs[k].nonce < c[j].txs[l].nonce

\* Ledger L has counted the transactions of chain c, and nothing else.
Chained(L, c) ==
  /\ Numbered(L) /\ L.nonce \in [Users -> Nat]
  /\ c \in Seq(AnyBlock)
  /\ Increasing(c)
  /\ \A i \in DOMAIN c : \A k \in DOMAIN c[i].txs :
       c[i].txs[k].nonce \in 1 .. L.nonce[c[i].txs[k].signer]
  /\ \A u \in Users : \A x \in 1 .. L.nonce[u] :
       \E i \in DOMAIN c : \E k \in DOMAIN c[i].txs : c[i].txs[k].signer = u /\ c[i].txs[k].nonce = x

LEMMA TxOfBlock ==
  ASSUME NEW b \in AnyBlock
  PROVE  /\ b.txs \in Seq(Transaction) /\ Len(b.txs) \in Nat /\ DOMAIN b.txs = 1 .. Len(b.txs)
         /\ \A k \in DOMAIN b.txs : /\ b.txs[k] \in Transaction
                                    /\ b.txs[k].signer \in Users /\ b.txs[k].nonce \in Nat
<1>1. PICK t \in Seq(Transaction) : t = b.txs
  BY DEF AnyBlock
<1>2. \A k \in DOMAIN t : t[k] \in Transaction
  OBVIOUS
<1>3. \A x \in Transaction : x.signer \in Users /\ x.nonce \in Nat
  BY DEF Transaction
<1> QED BY <1>1, <1>2, <1>3

\* A block that counts from the nonces of the ledger extends the chain.
LEMMA ChainGrows ==
  ASSUME NEW L, NEW c, Chained(L, c), NEW M, Numbered(M), NEW b \in AnyBlock,
         CountsTo(L.nonce, b.txs, Len(b.txs), M.nonce)
  PROVE  Chained(M, Append(c, b))
<1> DEFINE n == Len(c)
           e == Append(c, b)
           m == Len(b.txs)
<1>1. /\ c \in Seq(AnyBlock) /\ n \in Nat /\ e \in Seq(AnyBlock)
      /\ DOMAIN c = 1 .. n /\ DOMAIN e = 1 .. n + 1 /\ Len(e) = n + 1
      /\ e[n + 1] = b /\ \A i \in 1 .. n : e[i] = c[i]
  BY DEF Chained
<1>2. \A i \in 1 .. n : c[i] \in AnyBlock
  BY <1>1
<1>3. PICK v \in [Users -> Nat], w \in [Users -> Int] : v = L.nonce /\ w = M.nonce
  BY DEF Chained, Numbered
<1>4. /\ DOMAIN b.txs = 1 .. m
      /\ \A k \in 1 .. m : b.txs[k].signer \in Users /\ b.txs[k].nonce \in Nat
  BY TxOfBlock
<1>5. /\ \A u \in Users : v[u] <= w[u]
      /\ \A k \in 1 .. m : v[b.txs[k].signer] < b.txs[k].nonce
                           /\ b.txs[k].nonce <= w[b.txs[k].signer]
      /\ \A k, l \in 1 .. m : k < l /\ b.txs[k].signer = b.txs[l].signer
                              => b.txs[k].nonce < b.txs[l].nonce
      /\ \A u \in Users : \A x \in v[u] + 1 .. w[u] :
           \E k \in 1 .. m : b.txs[k].signer = u /\ b.txs[k].nonce = x
  BY <1>3 DEF CountsTo
<1>6. w \in [Users -> Nat]
  <2>1. \A u \in Users : w[u] \in Nat
    BY <1>5
  <2> QED BY <2>1
<1>7. /\ \A i \in 1 .. n : \A k \in DOMAIN c[i].txs :
           /\ c[i].txs[k].signer \in Users /\ c[i].txs[k].nonce \in Nat
           /\ 1 <= c[i].txs[k].nonce /\ c[i].txs[k].nonce <= v[c[i].txs[k].signer]
      /\ \A u \in Users : \A x \in 1 .. v[u] :
           \E i \in 1 .. n : \E k \in DOMAIN c[i].txs :
             c[i].txs[k].signer = u /\ c[i].txs[k].nonce = x
  <2>1. \A i \in 1 .. n : \A k \in DOMAIN c[i].txs :
          c[i].txs[k].signer \in Users /\ c[i].txs[k].nonce \in Nat
    BY <1>2, TxOfBlock
  <2>2. \A i \in 1 .. n : \A k \in DOMAIN c[i].txs : c[i].txs[k].nonce \in 1 .. v[c[i].txs[k].signer]
    BY <1>1, <1>3 DEF Chained
  <2>3. \A i \in 1 .. n : \A k \in DOMAIN c[i].txs :
          1 <= c[i].txs[k].nonce /\ c[i].txs[k].nonce <= v[c[i].txs[k].signer]
    <3>1. \A u \in Users : \A x : x \in 1 .. v[u] => 1 <= x /\ x <= v[u]
      OBVIOUS
    <3> QED BY <2>1, <2>2, <3>1
  <2> QED BY <1>1, <1>3, <2>1, <2>3 DEF Chained
<1>8. ASSUME NEW i \in DOMAIN e, NEW j \in DOMAIN e,
             NEW k \in DOMAIN e[i].txs, NEW l \in DOMAIN e[j].txs,
             e[i].txs[k].signer = e[j].txs[l].signer, i < j \/ (i = j /\ k < l)
      PROVE  e[i].txs[k].nonce < e[j].txs[l].nonce
  <2>1. CASE j \in 1 .. n
    <3>1. i \in 1 .. n
      BY <1>1, <1>8, <2>1
    <3>2. Increasing(c)
      BY DEF Chained
    <3> QED BY <1>1, <1>8, <2>1, <3>1, <3>2 DEF Increasing
  <2>2. CASE j = n + 1 /\ i = n + 1
    <3>1. e[i] = b /\ e[j] = b /\ k < l
      BY <1>1, <1>8, <2>2
    <3>2. k \in 1 .. m /\ l \in 1 .. m /\ b.txs[k].signer = b.txs[l].signer
      BY <1>4, <1>8, <3>1
    <3> QED BY <1>5, <3>1, <3>2
  <2>3. CASE j = n + 1 /\ i \in 1 .. n
    <3>1. e[i] = c[i] /\ e[j] = b
      BY <1>1, <2>3
    <3>2. k \in DOMAIN c[i].txs /\ l \in 1 .. m
      BY <1>4, <3>1
    <3>3. PICK u \in Users : u = c[i].txs[k].signer /\ u = b.txs[l].signer
      <4> HIDE DEF e
      <4> QED BY <1>7, <1>8, <2>3, <3>1, <3>2
    <3>4. PICK x \in Nat, y \in Nat : x = c[i].txs[k].nonce /\ y = b.txs[l].nonce
      BY <1>4, <1>7, <2>3, <3>2
    <3>5. v[u] \in Nat /\ x <= v[u]
      BY <1>7, <2>3, <3>2, <3>3, <3>4
    <3>6. v[u] < y
      BY <1>5, <3>2, <3>3, <3>4
    <3>7. x < y
      BY <3>5, <3>6
    <3> QED BY <3>1, <3>4, <3>7
  <2> QED BY <1>1, <2>1, <2>2, <2>3
<1>9. ASSUME NEW i \in DOMAIN e, NEW k \in DOMAIN e[i].txs
      PROVE  e[i].txs[k].nonce \in 1 .. w[e[i].txs[k].signer]
  <2>1. CASE i \in 1 .. n
    <3>1. k \in DOMAIN c[i].txs /\ e[i] = c[i]
      BY <1>1, <2>1
    <3>2. PICK u \in Users, x \in Nat : u = c[i].txs[k].signer /\ x = c[i].txs[k].nonce
      BY <1>7, <2>1, <3>1
    <3>3. 1 <= x /\ x <= v[u] /\ v[u] <= w[u] /\ v[u] \in Nat /\ w[u] \in Int
      BY <1>5, <1>7, <2>1, <3>1, <3>2
    <3>4. x \in 1 .. w[u]
      BY <3>3
    <3> QED BY <3>1, <3>2, <3>4
  <2>2. CASE i = n + 1
    <3>1. k \in 1 .. m /\ e[i] = b
      BY <1>1, <1>4, <2>2
    <3>2. PICK u \in Users, x \in Nat : u = b.txs[k].signer /\ x = b.txs[k].nonce
      BY <1>4, <3>1
    <3>3. v[u] < x /\ x <= w[u] /\ v[u] \in Nat /\ w[u] \in Int
      BY <1>5, <3>1, <3>2
    <3>4. x \in 1 .. w[u]
      BY <3>3
    <3> QED BY <3>1, <3>2, <3>4
  <2> QED BY <1>1, <2>1, <2>2
<1>10. ASSUME NEW u \in Users, NEW x \in 1 .. w[u]
       PROVE  \E i \in DOMAIN e : \E k \in DOMAIN e[i].txs : e[i].txs[k].signer = u /\ e[i].txs[k].nonce = x
  <2>0. v[u] \in Nat /\ w[u] \in Int /\ x \in Int
    OBVIOUS
  <2>1. CASE x <= v[u]
    <3>1. x \in 1 .. v[u]
      BY <2>0, <2>1
    <3>2. PICK i \in 1 .. n : \E k \in DOMAIN c[i].txs : c[i].txs[k].signer = u /\ c[i].txs[k].nonce = x
      BY <1>7, <3>1
    <3>3. i \in DOMAIN e /\ e[i] = c[i]
      BY <1>1
    <3> QED BY <3>2, <3>3
  <2>2. CASE ~(x <= v[u])
    <3>1. x \in v[u] + 1 .. w[u]
      BY <2>0, <2>2
    <3>2. PICK k \in 1 .. m : b.txs[k].signer = u /\ b.txs[k].nonce = x
      BY <1>5, <3>1
    <3>3. n + 1 \in DOMAIN e /\ e[n + 1] = b /\ k \in DOMAIN b.txs
      BY <1>1, <1>4
    <3> QED BY <3>2, <3>3
  <2> QED BY <2>1, <2>2
<1>11. Increasing(e)
  <2> HIDE DEF e
  <2> QED BY <1>8 DEF Increasing
<1>12. Chained(M, e)
  <2> HIDE DEF e, n, m
  <2> QED BY <1>1, <1>3, <1>6, <1>9, <1>10, <1>11 DEF Chained
<1> QED BY <1>12

\* Uncounting the last block leaves what the rest of the chain counts.
LEMMA ChainShrinks ==
  ASSUME NEW L, NEW c, Chained(L, c), Len(c) > 0, NEW M, Numbered(M), NEW b, b = c[Len(c)],
         CountsTo(M.nonce, b.txs, Len(b.txs), L.nonce)
  PROVE  Chained(M, Front(c))
<1>a. PICK n \in Nat : n = Len(c) - 1
  BY DEF Chained
<1>b. PICK e, m : e = Front(c) /\ m = Len(b.txs)
  OBVIOUS
<1>1. /\ c \in Seq(AnyBlock) /\ Len(c) \in Nat /\ n \in Nat /\ e \in Seq(AnyBlock)
      /\ DOMAIN c = 1 .. n + 1 /\ DOMAIN e = 1 .. n
      /\ c[n + 1] = b /\ n + 1 \in 1 .. n + 1 /\ \A i \in 1 .. n : e[i] = c[i] /\ i \in 1 .. n + 1 /\ i < n + 1
  <2>1. c \in Seq(AnyBlock) /\ Len(c) \in Nat /\ DOMAIN c = 1 .. n + 1 /\ n + 1 = Len(c)
    BY <1>a DEF Chained
  <2>2. e = [i \in 1 .. n |-> c[i]]
    BY <1>a, <1>b, <2>1 DEF Front
  <2>3. \A i \in 1 .. n : c[i] \in AnyBlock /\ i \in 1 .. n + 1 /\ i < n + 1
    BY <2>1
  <2> QED BY <2>1, <2>2, <2>3
<1>2. b \in AnyBlock
  BY <1>1
<1>3. PICK v \in [Users -> Nat], w \in [Users -> Int] : v = L.nonce /\ w = M.nonce
  BY DEF Chained, Numbered
<1>4. /\ DOMAIN b.txs = 1 .. m
      /\ \A k \in 1 .. m : b.txs[k].signer \in Users /\ b.txs[k].nonce \in Nat
  BY <1>b, <1>2, TxOfBlock
<1>5. /\ \A u \in Users : w[u] <= v[u]
      /\ \A k \in 1 .. m : w[b.txs[k].signer] < b.txs[k].nonce
      /\ \A u \in Users : \A x \in w[u] + 1 .. v[u] :
           \E k \in 1 .. m : b.txs[k].signer = u /\ b.txs[k].nonce = x
  BY <1>b, <1>3 DEF CountsTo
<1>6. /\ \A i \in 1 .. n + 1 : \A k \in DOMAIN c[i].txs :
           /\ c[i].txs[k].signer \in Users /\ c[i].txs[k].nonce \in Nat
           /\ c[i].txs[k].nonce \in 1 .. v[c[i].txs[k].signer]
      /\ \A u \in Users : \A x \in 1 .. v[u] :
           \E i \in 1 .. n + 1 : \E k \in DOMAIN c[i].txs :
             c[i].txs[k].signer = u /\ c[i].txs[k].nonce = x
  <2>1. \A i \in 1 .. n + 1 : c[i] \in AnyBlock
    BY <1>1
  <2>2. \A i \in 1 .. n + 1 : \A k \in DOMAIN c[i].txs :
          c[i].txs[k].signer \in Users /\ c[i].txs[k].nonce \in Nat
    BY <2>1, TxOfBlock
  <2>3. \A i \in 1 .. n + 1 : \A k \in DOMAIN c[i].txs : c[i].txs[k].nonce \in 1 .. v[c[i].txs[k].signer]
    BY <1>1, <1>3 DEF Chained
  <2>4. \A u \in Users : \A x \in 1 .. v[u] :
          \E i \in 1 .. n + 1 : \E k \in DOMAIN c[i].txs :
            c[i].txs[k].signer = u /\ c[i].txs[k].nonce = x
    <3>1. \A u \in Users : \A x \in 1 .. L.nonce[u] :
            \E i \in DOMAIN c : \E k \in DOMAIN c[i].txs :
              c[i].txs[k].signer = u /\ c[i].txs[k].nonce = x
      BY DEF Chained
    <3>2. ASSUME NEW u \in Users, NEW x \in 1 .. v[u]
          PROVE  \E i \in 1 .. n + 1 : \E k \in DOMAIN c[i].txs :
                   c[i].txs[k].signer = u /\ c[i].txs[k].nonce = x
      <4>1. x \in 1 .. L.nonce[u]
        BY <1>3
      <4>2. PICK i \in DOMAIN c : \E k \in DOMAIN c[i].txs :
                                   c[i].txs[k].signer = u /\ c[i].txs[k].nonce = x
        BY <3>1, <4>1
      <4>3. i \in 1 .. n + 1
        BY <1>1
      <4> QED BY <4>2, <4>3
    <3> QED BY <3>2
  <2> QED BY <2>2, <2>3, <2>4
<1>7. \A u \in Users : w[u] \in Nat /\ v[u] \in Nat /\ w[u] \in Int
  <2>1. ASSUME NEW u \in Users, w[u] < 0 PROVE FALSE
    <3>1. 0 \in w[u] + 1 .. v[u]
      BY <2>1
    <3>2. PICK k \in 1 .. m : b.txs[k].signer = u /\ b.txs[k].nonce = 0
      BY <1>5, <3>1
    <3>3. 0 \in 1 .. v[u]
      BY <1>1, <1>4, <1>6, <3>2
    <3> QED BY <3>3
  <2> QED BY <2>1
<1>8. Increasing(e)
  <2>1. Increasing(c)
    BY DEF Chained
  <2>2. SUFFICES ASSUME NEW i \in DOMAIN e, NEW j \in DOMAIN e,
                        NEW k \in DOMAIN e[i].txs, NEW l \in DOMAIN e[j].txs,
                        e[i].txs[k].signer = e[j].txs[l].signer, i < j \/ (i = j /\ k < l)
                 PROVE  e[i].txs[k].nonce < e[j].txs[l].nonce
    BY DEF Increasing
  <2>3. i \in DOMAIN c /\ j \in DOMAIN c /\ e[i] = c[i] /\ e[j] = c[j]
    BY <1>1
  <2> QED BY <2>1, <2>2, <2>3 DEF Increasing
<1>9. ASSUME NEW i \in 1 .. n, NEW k \in DOMAIN e[i].txs
      PROVE  e[i].txs[k].nonce \in 1 .. w[e[i].txs[k].signer]
  <2>1. e[i] = c[i] /\ k \in DOMAIN c[i].txs /\ i \in 1 .. n + 1 /\ i < n + 1
    BY <1>1
  <2>2. PICK u \in Users, x \in Nat : u = c[i].txs[k].signer /\ x = c[i].txs[k].nonce /\ x \in 1 .. v[u]
    BY <1>6, <2>1
  <2>3. CASE w[u] = v[u]
    BY <2>1, <2>2, <2>3
  <2>4. CASE w[u] # v[u]
    <3>1. w[u] + 1 \in w[u] + 1 .. v[u]
      BY <1>5, <1>7, <2>4
    <3>2. PICK l \in 1 .. m : b.txs[l].signer = u /\ b.txs[l].nonce = w[u] + 1
      BY <1>5, <3>1
    <3>3. l \in DOMAIN c[n + 1].txs /\ c[n + 1].txs[l] = b.txs[l] /\ n + 1 \in DOMAIN c /\ i \in DOMAIN c
      BY <1>1, <1>4, <2>1
    <3>4. c[i].txs[k].nonce < c[n + 1].txs[l].nonce
      <4>1. Increasing(c)
        BY DEF Chained
      <4>2. c[i].txs[k].signer = c[n + 1].txs[l].signer
        BY <2>2, <3>2, <3>3
      <4> QED BY <2>1, <3>3, <4>1, <4>2 DEF Increasing
    <3>5. x < w[u] + 1
      BY <2>2, <3>2, <3>3, <3>4
    <3>6. 1 <= x /\ w[u] \in Nat
      BY <1>7, <2>2
    <3>7. x \in 1 .. w[u]
      BY <3>5, <3>6
    <3> QED BY <2>1, <2>2, <3>7
  <2> QED BY <2>3, <2>4
<1>10. ASSUME NEW u \in Users, NEW x \in 1 .. w[u]
       PROVE  \E i \in 1 .. n : \E k \in DOMAIN e[i].txs : e[i].txs[k].signer = u /\ e[i].txs[k].nonce = x
  <2>1. x \in 1 .. v[u] /\ x <= w[u] /\ x \in Int
    BY <1>5, <1>7
  <2>2. PICK i \in 1 .. n + 1 : \E k \in DOMAIN c[i].txs : c[i].txs[k].signer = u /\ c[i].txs[k].nonce = x
    BY <1>6, <2>1
  <2>3. PICK k \in DOMAIN c[i].txs : c[i].txs[k].signer = u /\ c[i].txs[k].nonce = x
    BY <2>2
  <2>4. i # n + 1
    <3>1. SUFFICES ASSUME i = n + 1 PROVE FALSE
      OBVIOUS
    <3>2. k \in 1 .. m /\ b.txs[k].signer = u /\ b.txs[k].nonce = x
      BY <1>1, <1>4, <2>3, <3>1
    <3>3. w[u] < x
      BY <1>5, <3>2
    <3> QED BY <1>7, <2>1, <3>3
  <2>5. i \in 1 .. n
    BY <1>1, <2>4
  <2>6. e[i] = c[i]
    BY <1>1, <2>5
  <2> QED BY <2>3, <2>5, <2>6
<1>11. w \in [Users -> Nat]
  BY <1>7
<1>12. Chained(M, e)
  <2>1. DOMAIN e = 1 .. n /\ e \in Seq(AnyBlock)
    BY <1>1
  <2>2. \A i \in DOMAIN e : \A k \in DOMAIN e[i].txs : e[i].txs[k].nonce \in 1 .. M.nonce[e[i].txs[k].signer]
    BY <1>3, <1>9, <2>1
  <2>3. \A u \in Users : \A x \in 1 .. M.nonce[u] :
          \E i \in DOMAIN e : \E k \in DOMAIN e[i].txs : e[i].txs[k].signer = u /\ e[i].txs[k].nonce = x
    <3>1. ASSUME NEW u \in Users, NEW x \in 1 .. M.nonce[u]
          PROVE  \E i \in DOMAIN e : \E k \in DOMAIN e[i].txs : e[i].txs[k].signer = u /\ e[i].txs[k].nonce = x
      <4>1. x \in 1 .. w[u]
        BY <1>3
      <4>2. PICK i \in 1 .. n : \E k \in DOMAIN e[i].txs : e[i].txs[k].signer = u /\ e[i].txs[k].nonce = x
        BY <1>10, <4>1
      <4>3. i \in DOMAIN e
        BY <2>1
      <4> QED BY <4>2, <4>3
    <3> QED BY <3>1
  <2> QED BY <1>3, <1>8, <1>11, <2>1, <2>2, <2>3 DEF Chained
<1> QED BY <1>b, <1>12

\* The statement of NoReplay for a ledger and a chain.
LEMMA ChainedNoReplay ==
  ASSUME NEW L, NEW c, Chained(L, c), NEW u \in Users
  PROVE  {tx.nonce : tx \in {x \in TxsOf(c) : x.signer = u}} = 1 .. L.nonce[u]
<1>1. ASSUME NEW tx \in TxsOf(c), tx.signer = u PROVE tx.nonce \in 1 .. L.nonce[u]
  <2>1. PICK i \in DOMAIN c : \E k \in DOMAIN c[i].txs : tx = c[i].txs[k]
    BY <1>1 DEF TxsOf, ToSet
  <2> QED BY <1>1, <2>1 DEF Chained
<1>2. ASSUME NEW y \in 1 .. L.nonce[u]
      PROVE  \E tx \in TxsOf(c) : tx.signer = u /\ tx.nonce = y
  <2>1. PICK i \in DOMAIN c : \E k \in DOMAIN c[i].txs : c[i].txs[k].signer = u /\ c[i].txs[k].nonce = y
    BY DEF Chained
  <2>2. PICK k \in DOMAIN c[i].txs : c[i].txs[k].signer = u /\ c[i].txs[k].nonce = y
    BY <2>1
  <2>3. c[i].txs[k] \in TxsOf(c)
    BY DEF TxsOf, ToSet
  <2> QED BY <2>2, <2>3
<1> QED BY <1>1, <1>2

-----------------------------------------------------------------------------
(* The invariant                                                           *)

\* The ledger counts the chain, and so does the one a failing reorganisation goes
\* back to.
LedgerInv ==
  /\ Chained(led, chain)
  /\ mode \in {"main", "undo", "redo"}
  /\ mode # "main" => Chained(saved[1], saved[2])

\* The steps of the ledger, with any blocks.
AnyNext ==
  \/ \E b \in AnyBlock : AddMainchainBlock(b) \/ ReapplyBlock(b)
  \/ UndoBlock
  \/ ReorgFails
  \/ SwitchTop

\* The blocks offered have a delegate and a next staker that exist, or none.
LEMMA OfferedBlocks ==
  ASSUME Chained(led, chain)
  PROVE  Offered \subseteq AnyBlock
<1>1. SUFFICES ASSUME NEW b \in Offered PROVE b \in AnyBlock
  OBVIOUS
<1>2. b \in Candidates(led, Height + 1)
  BY DEF Offered
<1>3. b.delegate = IF Height + 1 > MINIDAG_ANCESTORS THEN chain[(Height + 1) - MINIDAG_ANCESTORS].next ELSE 0
  <2>1. StakeCheck(led, Height + 1, b)
    BY <1>2 DEF Candidates
  <2> QED BY <2>1 DEF StakeCheck
<1>4. b.next \in NextStakers(led)
  BY <1>2 DEF Candidates
<1>5. b.txs \in TxLists /\ b.miner \in Users /\ b.signed \in BOOLEAN
  BY <1>2 DEF Candidates
<1>6. b = [miner |-> b.miner, txs |-> b.txs, signed |-> b.signed, next |-> b.next, delegate |-> b.delegate]
  BY <1>2 DEF Candidates
<1>7. b.next \in DelegateIds \cup {0}
  BY <1>4 DEF NextStakers, GetStaker
<1>8. b.delegate \in DelegateIds \cup {0}
  <2>1. MINIDAG_ANCESTORS \in Nat \ {0}
    BY LedgerAssumption
  <2>2. chain \in Seq(AnyBlock) /\ Height = Len(chain) /\ Height \in Nat
    BY DEF Chained, Height
  <2>3. CASE Height + 1 > MINIDAG_ANCESTORS
    <3>1. (Height + 1) - MINIDAG_ANCESTORS \in 1 .. Len(chain)
      BY <2>1, <2>2, <2>3
    <3>2. chain[(Height + 1) - MINIDAG_ANCESTORS] \in AnyBlock
      BY <2>2, <3>1
    <3> QED BY <1>3, <2>3, <3>2 DEF AnyBlock
  <2>4. CASE ~(Height + 1 > MINIDAG_ANCESTORS)
    BY <1>3, <2>4
  <2> QED BY <2>3, <2>4
<1>9. b.txs \in Seq(Transaction)
  BY <1>5, TxAssumption
<1> QED BY <1>5, <1>6, <1>7, <1>8, <1>9 DEF AnyBlock

LEMMA LedgerInit == Init => LedgerInv
<1> SUFFICES ASSUME Init PROVE LedgerInv
  OBVIOUS
<1>1. PICK L, c : L = led /\ c = chain
  OBVIOUS
<1>2. Shape(L) /\ L.nonce = [u \in Users |-> 0] /\ c = <<>>
  BY <1>1 DEF Init, Shape
<1>3. /\ L.nonce \in [Users -> Nat] /\ L.nonce \in [Users -> Int]
      /\ c \in Seq(AnyBlock) /\ DOMAIN c = {}
      /\ \A u \in Users : 1 .. L.nonce[u] = {}
  BY <1>2
<1>4. Chained(L, c)
  BY <1>2, <1>3 DEF Chained, Numbered, Increasing
<1> QED BY <1>1, <1>4 DEF Init, LedgerInv

\* Every step keeps the count: a block of a branch is applied to the ledger of the
\* blocks below it, and undone from the ledger it made.
LEMMA LedgerStep ==
  ASSUME LedgerInv, [AnyNext]_vars
  PROVE  LedgerInv'
<1>1. PICK L, c, M : L = led /\ c = chain /\ M = led'
  OBVIOUS
<1>2. Chained(L, c) /\ Numbered(L)
  BY <1>1 DEF LedgerInv, Chained
<1>3. ASSUME NEW b \in AnyBlock, M = ApplyBlockToState(L, Height + 1, b, topHeight), M.ok,
             chain' = Append(chain, b)
      PROVE  Chained(led, chain)'
  <2>1. Numbered(M) /\ CountsTo(L.nonce, b.txs, Len(b.txs), M.nonce)
    BY <1>2, <1>3, ApplyBlockCounts
  <2>2. Chained(M, Append(c, b))
    BY <1>2, <2>1, ChainGrows
  <2> QED BY <1>1, <1>3, <2>2
<1>4. CASE \E b \in AnyBlock : AddMainchainBlock(b)
  <2>1. PICK b \in AnyBlock : AddMainchainBlock(b)
    BY <1>4
  <2>2. Chained(led, chain)'
    BY <1>1, <1>3, <2>1 DEF AddMainchainBlock
  <2> QED BY <2>1, <2>2 DEF LedgerInv, AddMainchainBlock
<1>5. CASE \E b \in AnyBlock : ReapplyBlock(b)
  <2>1. PICK b \in AnyBlock : ReapplyBlock(b)
    BY <1>5
  <2>2. Chained(led, chain)'
    BY <1>1, <1>3, <2>1 DEF ReapplyBlock
  <2>3. Chained(saved[1], saved[2])'
    BY <2>1 DEF ReapplyBlock, LedgerInv
  <2> QED BY <2>1, <2>2, <2>3 DEF LedgerInv, ReapplyBlock
<1>6. CASE UndoBlock
  <2>1. PICK b : b = c[Len(c)]
    OBVIOUS
  <2>2. c \in Seq(AnyBlock) /\ Len(c) > 0
    BY <1>1, <1>2, <1>6 DEF UndoBlock, Height, Chained
  <2>3. b \in AnyBlock
    BY <2>1, <2>2
  <2>4. M = RemoveBlockFromState(L, Len(c), b, topHeight) /\ M.ok
    BY <1>1, <1>6, <2>1 DEF UndoBlock, Height
  <2>5. Numbered(M) /\ CountsTo(M.nonce, b.txs, Len(b.txs), L.nonce)
    BY <1>2, <2>3, <2>4, RemoveBlockCounts
  <2>6. Chained(M, Front(c))
    BY <1>2, <2>1, <2>2, <2>5, ChainShrinks
  <2>7. Chained(led, chain)'
    BY <1>1, <1>6, <2>6 DEF UndoBlock
  <2>8. Chained(saved[1], saved[2])'
    BY <1>1, <1>2, <1>6 DEF UndoBlock, LedgerInv
  <2> QED BY <1>6, <2>7, <2>8 DEF LedgerInv, UndoBlock
<1>7. CASE ReorgFails
  BY <1>7 DEF ReorgFails, LedgerInv
<1>8. CASE SwitchTop
  BY <1>8 DEF SwitchTop, LedgerInv
<1>9. CASE UNCHANGED vars
  BY <1>9 DEF vars, LedgerInv
<1> QED BY <1>4, <1>5, <1>6, <1>7, <1>8, <1>9 DEF AnyNext

LEMMA InvNoReplay == LedgerInv => NoReplay
<1> SUFFICES ASSUME LedgerInv PROVE NoReplay
  OBVIOUS
<1>1. Chained(led, chain)
  BY DEF LedgerInv
<1>2. Increasing(chain)
  BY <1>1 DEF Chained
<1>3. \A u \in Users : {tx.nonce : tx \in {x \in TxsOf(chain) : x.signer = u}} = 1 .. led.nonce[u]
  BY <1>1, ChainedNoReplay
<1> QED BY <1>2, <1>3 DEF NoReplay, Increasing

\* ApplyTxToState and RemoveTxFromState let no transaction take effect twice:
\* whatever blocks are added, undone by a reorganisation and applied again, the
\* transactions of each signer on the chain carry the nonces 1 .. LastNonce in order.
THEOREM NothingReplayed == Spec => []NoReplay
<1>1. LedgerInv /\ [Next]_vars => LedgerInv'
  <2> SUFFICES ASSUME LedgerInv, [Next]_vars PROVE LedgerInv'
    OBVIOUS
  <2>1. Offered \subseteq AnyBlock
    BY OfferedBlocks DEF LedgerInv
  <2>2. [AnyNext]_vars
    BY <2>1 DEF Next, AnyNext
  <2> QED BY <2>2, LedgerStep
<1> QED BY <1>1, LedgerInit, InvNoReplay, PTL DEF Spec

-----------------------------------------------------------------------------
(* Sums                                                                    *)

OneOf(s) == CHOOSE x \in s : TRUE

\* e has the sum of f over every part of S, as SumFunctionOnSet takes it.
Summing(e, f, S) ==
  e = [s \in SUBSET S |-> IF s = {} THEN 0 ELSE f[OneOf(s)] + e[s \ {OneOf(s)}]]

\* Parts of a finite set, and the one left when an element is taken out.
LEMMA FiniteParts ==
  ASSUME NEW S, IsFiniteSet(S), NEW s \in SUBSET S
  PROVE  /\ IsFiniteSet(s) /\ Cardinality(s) \in Nat /\ Cardinality(s) <= Cardinality(S)
         /\ Cardinality(s) = 0 <=> s = {}
         /\ s # {} => /\ OneOf(s) \in s /\ s \ {OneOf(s)} \in SUBSET S
                      /\ Cardinality(s \ {OneOf(s)}) = Cardinality(s) - 1
<1>1. IsFiniteSet(s) /\ Cardinality(s) <= Cardinality(S)
  BY FS_Subset
<1>2. s # {} => OneOf(s) \in s
  BY DEF OneOf
<1>3. Cardinality(s) \in Nat /\ (Cardinality(s) = 0 <=> s = {})
  BY <1>1, FS_CardinalityType, FS_EmptySet
<1> QED BY <1>1, <1>2, <1>3, FS_RemoveElement

\* The sums exist.
LEMMA SummingExists ==
  ASSUME NEW S, IsFiniteSet(S), NEW f
  PROVE  \E e : Summing(e, f, S)
<1> DEFINE D == SUBSET S
           F(e, s) == IF s = {} THEN 0 ELSE f[OneOf(s)] + e[s \ {OneOf(s)}]
           Upto(k) == {s \in D : Cardinality(s) <= k}
           Is(e, k) == e = [s \in Upto(k) |-> F(e, s)]
           T == {k \in Nat : \E e : Is(e, k)}
<1>2. 0 \in T
  <2> DEFINE e == [s \in Upto(0) |-> 0]
  <2>1. ASSUME NEW s \in Upto(0) PROVE s = {}
    <3>1. s \in D /\ Cardinality(s) <= 0
      OBVIOUS
    <3>2. Cardinality(s) \in Nat /\ (Cardinality(s) = 0 => s = {})
      BY <3>1, FiniteParts
    <3> QED BY <3>1, <3>2
  <2>2. e = [s \in Upto(0) |-> F(e, s)]
    <3>1. \A s \in Upto(0) : F(e, s) = 0
      BY <2>1
    <3> HIDE DEF F, Upto
    <3> QED BY <3>1
  <2> QED BY <2>2
<1>3. ASSUME NEW k \in Nat, k \in T PROVE k + 1 \in T
  <2>1. PICK d : Is(d, k)
    BY <1>3
  <2> DEFINE e == [s \in Upto(k + 1) |-> F(d, s)]
  <2>2. \A s \in Upto(k) : s \in Upto(k + 1) /\ e[s] = d[s]
    <3>1. ASSUME NEW s \in Upto(k) PROVE s \in Upto(k + 1)
      <4>1. s \in D /\ Cardinality(s) <= k
        OBVIOUS
      <4>2. Cardinality(s) \in Nat
        BY <4>1, FiniteParts
      <4>3. Cardinality(s) <= k + 1
        BY <4>1, <4>2
      <4> QED BY <4>1, <4>3
    <3> HIDE DEF F, Upto
    <3> QED BY <2>1, <3>1
  <2>3. ASSUME NEW s \in Upto(k + 1) PROVE F(e, s) = F(d, s)
    <3>1. CASE s = {}
      BY <3>1
    <3>2. CASE s # {}
      <4>1. s \ {OneOf(s)} \in Upto(k)
        <5>1. /\ s \ {OneOf(s)} \in D /\ Cardinality(s) \in Nat /\ Cardinality(s) <= k + 1
              /\ Cardinality(s \ {OneOf(s)}) = Cardinality(s) - 1
          BY <3>2, FiniteParts
        <5>2. Cardinality(s \ {OneOf(s)}) <= k
          BY <5>1
        <5> QED BY <5>1, <5>2
      <4>2. e[s \ {OneOf(s)}] = d[s \ {OneOf(s)}]
        BY <2>2, <4>1
      <4> HIDE DEF e
      <4> QED BY <3>2, <4>2
    <3> QED BY <3>1, <3>2
  <2>4. Is(e, k + 1)
    BY <2>3
  <2>5. k + 1 \in Nat
    OBVIOUS
  <2> HIDE DEF e, Is
  <2> QED BY <2>4, <2>5
<1>4. Cardinality(S) \in T
  <2>1. Cardinality(S) \in Nat
    BY FS_CardinalityType
  <2> HIDE DEF T
  <2>2. Nat \subseteq T
    BY <1>2, <1>3, NatSetInduction
  <2> QED BY <2>1, <2>2
<1>5. Upto(Cardinality(S)) = D
  BY FiniteParts
<1>6. \E e : e = [s \in D |-> F(e, s)]
  BY <1>4, <1>5
<1> QED BY <1>6 DEF Summing

\* SumFunctionOnSet is one of them.
LEMMA SumIs ==
  ASSUME NEW S, IsFiniteSet(S), NEW f
  PROVE  \E e : Summing(e, f, S) /\ SumFunctionOnSet(f, S) = e[S]
<1> DEFINE Is(e) == e = [s \in SUBSET S |-> IF s = {} THEN 0 ELSE f[CHOOSE x \in s : TRUE] + e[s \ {CHOOSE x \in s : TRUE}]]
<1>1. \A e : Is(e) <=> Summing(e, f, S)
  BY DEF Summing, OneOf
<1>2. PICK e : e = CHOOSE d : Is(d)
  OBVIOUS
<1>3. SumFunctionOnSet(f, S) = e[S]
  BY <1>2 DEF SumFunctionOnSet, FoldFunctionOnSet, MapThenFoldSet
<1> HIDE DEF Is
<1>4. Is(e)
  BY <1>1, <1>2, SummingExists
<1> QED BY <1>1, <1>3, <1>4

\* What is added at one place is added to the sum.
Adds(f, a, x, g) == g = [f EXCEPT ![a] = @ + x]

LEMMA SumPoint ==
  ASSUME NEW S, IsFiniteSet(S), NEW f \in [S -> Int], NEW a \in S, NEW x \in Int,
         NEW g, Adds(f, a, x, g)
  PROVE  /\ SumFunction(f) \in Int
         /\ SumFunction(g) = SumFunction(f) + x
<1>1. PICK e : Summing(e, f, S) /\ SumFunctionOnSet(f, S) = e[S]
  BY SumIs
<1>2. PICK d : Summing(d, g, S) /\ SumFunctionOnSet(g, S) = d[S]
  BY SumIs
<1>3. g \in [S -> Int] /\ g[a] = f[a] + x /\ \A y \in S : y # a => g[y] = f[y]
  BY DEF Adds
<1> DEFINE Good(s) == /\ e[s] \in Int /\ d[s] \in Int
                      /\ d[s] = IF a \in s THEN e[s] + x ELSE e[s]
           T == {k \in Nat : \A s \in SUBSET S : Cardinality(s) = k => Good(s)}
<1>4. 0 \in T
  <2>1. ASSUME NEW s \in SUBSET S, Cardinality(s) = 0 PROVE Good(s)
    <3>1. s = {}
      BY <2>1, FiniteParts
    <3>2. e[s] = 0 /\ d[s] = 0
      BY <1>1, <1>2, <3>1 DEF Summing
    <3> QED BY <3>1, <3>2
  <2> QED BY <2>1
<1>5. ASSUME NEW k \in Nat, k \in T PROVE k + 1 \in T
  <2>1. ASSUME NEW s \in SUBSET S, Cardinality(s) = k + 1 PROVE Good(s)
    <3>1. s # {}
      <4>1. Cardinality(s) # 0
        BY <2>1
      <4> QED BY <4>1, FiniteParts
    <3>2. PICK y, r : y = OneOf(s) /\ r = s \ {OneOf(s)}
      OBVIOUS
    <3>3. y \in s /\ r \in SUBSET S /\ Cardinality(r) = k
      BY <2>1, <3>1, <3>2, FiniteParts
    <3>4. Good(r)
      BY <1>5, <3>3
    <3>5. e[s] = f[y] + e[r]
      BY <1>1, <3>1, <3>2 DEF Summing
    <3>6. d[s] = g[y] + d[r]
      BY <1>2, <3>1, <3>2 DEF Summing
    <3>7. f[y] \in Int /\ g[y] \in Int
      BY <1>3, <3>3
    <3>8. CASE y = a
      <4>1. a \in s /\ a \notin r
        BY <3>2, <3>3, <3>8
      <4> QED BY <1>3, <3>4, <3>5, <3>6, <3>7, <3>8, <4>1
    <3>9. CASE y # a
      <4>1. (a \in s <=> a \in r) /\ g[y] = f[y]
        BY <1>3, <3>2, <3>3, <3>9
      <4> QED BY <3>4, <3>5, <3>6, <3>7, <4>1
    <3> QED BY <3>8, <3>9
  <2> HIDE DEF Good
  <2> QED BY <2>1
<1>6. Nat \subseteq T
  <2> HIDE DEF T
  <2> QED BY <1>4, <1>5, NatSetInduction
<1>7. Cardinality(S) \in Nat /\ S \in SUBSET S
  BY FS_CardinalityType
<1>8. Good(S)
  <2> HIDE DEF Good
  <2> QED BY <1>6, <1>7
<1>9. DOMAIN f = S /\ DOMAIN g = S
  BY <1>3
<1> QED BY <1>1, <1>2, <1>8, <1>9 DEF SumFunction

LEMMA SumZero ==
  ASSUME NEW S, IsFiniteSet(S), NEW f, f = [a \in S |-> 0]
  PROVE  SumFunction(f) = 0
<1>1. PICK e : Summing(e, f, S) /\ SumFunctionOnSet(f, S) = e[S]
  BY SumIs
<1> DEFINE T == {k \in Nat : \A s \in SUBSET S : Cardinality(s) = k => e[s] = 0}
<1>2. 0 \in T
  <2>1. ASSUME NEW s \in SUBSET S, Cardinality(s) = 0 PROVE e[s] = 0
    <3>1. s = {}
      BY <2>1, FiniteParts
    <3> QED BY <1>1, <3>1 DEF Summing
  <2> QED BY <2>1
<1>3. ASSUME NEW k \in Nat, k \in T PROVE k + 1 \in T
  <2>1. ASSUME NEW s \in SUBSET S, Cardinality(s) = k + 1 PROVE e[s] = 0
    <3>1. s # {}
      <4>1. Cardinality(s) # 0
        BY <2>1
      <4> QED BY <4>1, FiniteParts
    <3>2. PICK y, r : y = OneOf(s) /\ r = s \ {OneOf(s)}
      OBVIOUS
    <3>3. y \in s /\ r \in SUBSET S /\ Cardinality(r) = k
      BY <2>1, <3>1, <3>2, FiniteParts
    <3>4. e[r] = 0 /\ f[y] = 0
      BY <1>3, <3>3
    <3>5. e[s] = f[y] + e[r]
      BY <1>1, <3>1, <3>2 DEF Summing
    <3> QED BY <3>4, <3>5
  <2> QED BY <2>1
<1>4. Nat \subseteq T
  <2> HIDE DEF T
  <2> QED BY <1>2, <1>3, NatSetInduction
<1>5. Cardinality(S) \in Nat /\ S \in SUBSET S /\ DOMAIN f = S
  BY FS_CardinalityType
<1> QED BY <1>1, <1>4, <1>5 DEF SumFunction

-----------------------------------------------------------------------------
(* The emission schedule                                                   *)

\* A sequence that is given by its first element and the step from one to the next.
Iterates(f, S, b, G) ==
  f \in [Nat -> S] /\ f[0] = b /\ \A k \in Nat : f[k + 1] = G[k][f[k]]

LEMMA Iteration ==
  ASSUME NEW S, NEW b \in S, NEW G \in [Nat -> [S -> S]]
  PROVE  \E f : Iterates(f, S, b, G)
<1> DEFINE Is(f, n) == /\ f \in [0 .. n -> S] /\ f[0] = b
                       /\ \A k \in 0 .. n - 1 : f[k + 1] = G[k][f[k]]
           T == {n \in Nat : \E f : Is(f, n)}
           U == {n \in Nat : \A m \in Nat : \A e, f : n <= m /\ Is(e, n) /\ Is(f, m) => e[n] = f[n]}
<1>1. 0 \in T
  <2> DEFINE f == [k \in 0 .. 0 |-> b]
  <2>1. Is(f, 0)
    OBVIOUS
  <2> HIDE DEF f, Is
  <2> QED BY <2>1
<1>2. ASSUME NEW n \in Nat, n \in T PROVE n + 1 \in T
  <2>1. PICK f : Is(f, n)
    BY <1>2
  <2> DEFINE e == [k \in 0 .. n + 1 |-> IF k = n + 1 THEN G[n][f[n]] ELSE f[k]]
  <2>2. e \in [0 .. n + 1 -> S]
    BY <2>1
  <2>3. e[0] = b /\ e[n + 1] = G[n][f[n]]
    BY <2>1
  <2>4. \A k \in 0 .. n : e[k] = f[k]
    BY <2>1
  <2>5. ASSUME NEW k \in 0 .. (n + 1) - 1 PROVE e[k + 1] = G[k][e[k]]
    <3>1. CASE k = n
      BY <2>3, <2>4, <3>1
    <3>2. CASE k # n
      <4>1. k \in 0 .. n - 1 /\ k + 1 \in 0 .. n /\ k \in 0 .. n
        BY <3>2
      <4> HIDE DEF e
      <4> QED BY <2>1, <2>4, <4>1
    <3> QED BY <3>1, <3>2
  <2>6. Is(e, n + 1)
    <3> HIDE DEF e
    <3> QED BY <2>2, <2>3, <2>5
  <2> HIDE DEF e, Is
  <2> QED BY <2>6
<1>3. Nat \subseteq T
  <2> HIDE DEF T
  <2> QED BY <1>1, <1>2, NatSetInduction
<1>4. PICK F : F = [n \in Nat |-> CHOOSE f : Is(f, n)]
  OBVIOUS
<1>5. \A n \in Nat : Is(F[n], n)
  <2> HIDE DEF Is
  <2> QED BY <1>3, <1>4
<1>6. 0 \in U
  OBVIOUS
<1>7. ASSUME NEW n \in Nat, n \in U PROVE n + 1 \in U
  <2>1. ASSUME NEW m \in Nat, NEW e, NEW f, n + 1 <= m, Is(e, n + 1), Is(f, m)
        PROVE  e[n + 1] = f[n + 1]
    <3>1. PICK c : c = [k \in 0 .. n |-> e[k]]
      OBVIOUS
    <3>2. Is(c, n)
      BY <2>1, <3>1
    <3>3. n <= m /\ c[n] = e[n]
      BY <2>1, <3>1
    <3>4. c[n] = f[n]
      <4> HIDE DEF Is
      <4> QED BY <1>7, <2>1, <3>2, <3>3
    <3>5. e[n + 1] = G[n][e[n]] /\ f[n + 1] = G[n][f[n]]
      BY <2>1
    <3> QED BY <3>3, <3>4, <3>5
  <2> HIDE DEF Is
  <2> QED BY <2>1
<1>8. Nat \subseteq U
  <2> HIDE DEF U
  <2> QED BY <1>6, <1>7, NatSetInduction
<1>9. \A n \in Nat : F[n][n] = F[n + 1][n]
  <2> HIDE DEF Is
  <2>1. \A n \in Nat : n + 1 \in Nat /\ n <= n + 1
    OBVIOUS
  <2> QED BY <1>5, <1>8, <2>1
<1> DEFINE f == [n \in Nat |-> F[n][n]]
<1>10. f \in [Nat -> S] /\ f[0] = b
  BY <1>5
<1>11. ASSUME NEW k \in Nat PROVE f[k + 1] = G[k][f[k]]
  <2>1. F[k + 1][k + 1] = G[k][F[k + 1][k]]
    BY <1>5
  <2> QED BY <1>9, <2>1
<1> HIDE DEF f
<1> QED BY <1>10, <1>11 DEF Iterates

LEMMA ReducedType == Reduced = [k \in Nat |-> IF k = 0 THEN BLOCK_REWARD ELSE (Reduced[k - 1] * 9) \div 10]
                     /\ Reduced \in [Nat -> Nat]
<1> DEFINE G == [k \in Nat |-> [x \in Nat |-> (x * 9) \div 10]]
           Is(f) == f = [k \in Nat |-> IF k = 0 THEN BLOCK_REWARD ELSE (f[k - 1] * 9) \div 10]
<1>1. BLOCK_REWARD \in Nat
  BY LedgerAssumption
<1>2. G \in [Nat -> [Nat -> Nat]]
  OBVIOUS
<1>3. PICK f \in [Nat -> Nat] : f[0] = BLOCK_REWARD /\ \A k \in Nat : f[k + 1] = G[k][f[k]]
  <2> HIDE DEF G
  <2>1. \E f : Iterates(f, Nat, BLOCK_REWARD, G)
    BY <1>1, <1>2, Iteration
  <2> QED BY <2>1 DEF Iterates
<1>4. ASSUME NEW k \in Nat, k # 0 PROVE f[k] = (f[k - 1] * 9) \div 10
  <2>1. k - 1 \in Nat /\ (k - 1) + 1 = k /\ f[k - 1] \in Nat
    BY <1>4
  <2>2. f[k] = G[k - 1][f[k - 1]]
    BY <1>3, <2>1
  <2> QED BY <2>1, <2>2
<1>5. Is(f)
  BY <1>3, <1>4
<1>6. Reduced = CHOOSE e : Is(e)
  BY DEF Reduced
<1>7. Is(Reduced)
  <2> HIDE DEF Is
  <2> QED BY <1>5, <1>6
<1>8. ASSUME NEW e, Is(e) PROVE e \in [Nat -> Nat]
  <2> DEFINE T == {k \in Nat : e[k] \in Nat}
  <2>1. 0 \in T
    BY <1>1, <1>8
  <2>2. ASSUME NEW k \in Nat, k \in T PROVE k + 1 \in T
    <3>1. k + 1 \in Nat /\ k + 1 # 0 /\ (k + 1) - 1 = k
      OBVIOUS
    <3>2. e[k + 1] = (e[(k + 1) - 1] * 9) \div 10
      BY <1>8, <3>1
    <3>3. e[k] \in Nat
      BY <2>2
    <3> QED BY <3>1, <3>2, <3>3
  <2>3. Nat \subseteq T
    <3> HIDE DEF T
    <3> QED BY <2>1, <2>2, NatSetInduction
  <2> QED BY <1>8, <2>3
<1> QED BY <1>7, <1>8

LEMMA DivisionUnique ==
  ASSUME NEW R \in Nat \ {0}, NEW q \in Nat, NEW r \in 0 .. R - 1, NEW n, n = R * q + r
  PROVE  n \in Nat /\ n \div R = q /\ n % R = r
<1>1. R * q \in Nat
  OBVIOUS
<1>2. n \in Nat
  BY <1>1
<1>3. PICK p, s : p = n \div R /\ s = n % R
  OBVIOUS
<1>4. p \in Nat /\ s \in 0 .. R - 1 /\ n = R * p + s
  BY <1>2, <1>3
<1>5. ~(p < q)
  <2> SUFFICES ASSUME p < q PROVE FALSE
    OBVIOUS
  <2>1. R * (p + 1) <= R * q
    BY <1>4
  <2>2. R * (p + 1) = R * p + R
    BY <1>4
  <2>3. R * p \in Nat
    BY <1>4
  <2> QED BY <1>1, <1>4, <2>1, <2>2, <2>3
<1>6. ~(q < p)
  <2> SUFFICES ASSUME q < p PROVE FALSE
    OBVIOUS
  <2>1. R * (q + 1) <= R * p
    BY <1>4
  <2>2. R * (q + 1) = R * q + R
    BY <1>4
  <2>3. R * p \in Nat
    BY <1>4
  <2> QED BY <1>1, <1>4, <2>1, <2>2, <2>3
<1>7. p = q
  BY <1>4, <1>5, <1>6
<1>8. s = r
  BY <1>1, <1>4, <1>7
<1> QED BY <1>2, <1>3, <1>7, <1>8

LEMMA RewardType ==
  ASSUME NEW h \in Nat
  PROVE  Reward(h) \in Nat
<1>1. PICK k : k = h \div REDUCTION_INTERVAL
  OBVIOUS
<1>2. k \in Nat
  BY <1>1, LedgerAssumption
<1>3. k # 0 => k - 1 \in Nat
  BY <1>2
<1>4. Reward(h) = IF k = 0 THEN BLOCK_REWARD ELSE Reduced[k - 1]
  BY <1>1 DEF Reward
<1> QED BY <1>3, <1>4, ReducedType, LedgerAssumption

LEMMA PhaseSupply ==
  /\ SupplyAtPhase[0] = 0
  /\ \A k \in Nat : /\ SupplyAtPhase[k] \in Nat
                    /\ SupplyAtPhase[k + 1] =
                         Reward(REDUCTION_INTERVAL * (k + 1) - 1) * REDUCTION_INTERVAL + SupplyAtPhase[k]
<1> DEFINE A(k) == Reward(REDUCTION_INTERVAL * k - 1) * REDUCTION_INTERVAL
           G == [k \in Nat |-> [x \in Nat |-> A(k + 1) + x]]
           Is(f) == f = [k \in Nat |-> IF k = 0 THEN 0 ELSE A(k) + f[k - 1]]
<1>1. ASSUME NEW k \in Nat PROVE A(k + 1) \in Nat
  <2>1. PICK R \in Nat \ {0} : R = REDUCTION_INTERVAL
    BY LedgerAssumption
  <2>2. R * (k + 1) >= 1 /\ R * (k + 1) \in Nat
    <3>1. R * (k + 1) = R * k + R /\ R * k \in Nat
      OBVIOUS
    <3> QED BY <3>1
  <2>3. R * (k + 1) - 1 \in Nat
    BY <2>2
  <2>4. Reward(R * (k + 1) - 1) \in Nat
    BY <2>3, RewardType
  <2>5. PICK y \in Nat : y = Reward(R * (k + 1) - 1)
    BY <2>4
  <2>6. A(k + 1) = y * R
    BY <2>1, <2>5
  <2>7. y * R \in Nat
    OBVIOUS
  <2> QED BY <2>6, <2>7
<1> HIDE DEF A
<1>2. G \in [Nat -> [Nat -> Nat]]
  BY <1>1
<1>3. PICK f \in [Nat -> Nat] : f[0] = 0 /\ \A k \in Nat : f[k + 1] = G[k][f[k]]
  <2> HIDE DEF G
  <2>1. \E f : Iterates(f, Nat, 0, G)
    BY <1>2, Iteration
  <2> QED BY <2>1 DEF Iterates
<1>4. ASSUME NEW k \in Nat, k # 0 PROVE f[k] = A(k) + f[k - 1]
  <2>1. k - 1 \in Nat /\ (k - 1) + 1 = k /\ f[k - 1] \in Nat
    BY <1>4
  <2>2. f[k] = G[k - 1][f[k - 1]]
    BY <1>3, <2>1
  <2> QED BY <2>1, <2>2
<1>5. Is(f)
  BY <1>3, <1>4
<1>6. SupplyAtPhase = CHOOSE e : Is(e)
  BY DEF SupplyAtPhase, A
<1>7. Is(SupplyAtPhase)
  <2> HIDE DEF Is
  <2> QED BY <1>5, <1>6
<1>8. PICK e : e = SupplyAtPhase /\ Is(e)
  BY <1>7
<1>9. e[0] = 0
  BY <1>8
<1>10. ASSUME NEW k \in Nat PROVE e[k + 1] = A(k + 1) + e[k]
  <2>1. k + 1 \in Nat /\ k + 1 # 0 /\ (k + 1) - 1 = k
    OBVIOUS
  <2>2. e[k + 1] = A(k + 1) + e[(k + 1) - 1]
    BY <1>8, <2>1
  <2> QED BY <2>1, <2>2
<1> DEFINE T == {k \in Nat : e[k] \in Nat}
<1>11. 0 \in T
  BY <1>9
<1>12. ASSUME NEW k \in Nat, k \in T PROVE k + 1 \in T
  <2>1. e[k] \in Nat
    BY <1>12
  <2>2. e[k + 1] \in Nat
    BY <1>1, <1>10, <2>1
  <2> QED BY <2>2
<1>13. Nat \subseteq T
  <2> HIDE DEF T
  <2> QED BY <1>11, <1>12, NatSetInduction
<1> QED BY <1>8, <1>9, <1>10, <1>13 DEF A

\* Every block adds its reward to the supply CheckSupply expects.
LEMMA SupplyGrows ==
  /\ GetSupplyAtHeight(0) = Reward(0)
  /\ \A h \in Nat : GetSupplyAtHeight(h) \in Nat
                    /\ GetSupplyAtHeight(h + 1) = GetSupplyAtHeight(h) + Reward(h + 1)
<1>1. PICK R \in Nat \ {0} : R = REDUCTION_INTERVAL
  BY LedgerAssumption
<1>2. ASSUME NEW h \in Nat, NEW q \in Nat, NEW r \in 0 .. R - 1, h = R * q + r
      PROVE  /\ GetSupplyAtHeight(h) = SupplyAtPhase[q] + Reward(h) * (r + 1)
             /\ Reward(h) = IF q = 0 THEN BLOCK_REWARD ELSE Reduced[q - 1]
  <2>1. h \div R = q /\ h % R = r
    BY <1>2, DivisionUnique
  <2> QED BY <1>1, <2>1 DEF GetSupplyAtHeight, Reward
<1>3. GetSupplyAtHeight(0) = Reward(0)
  <2>1. 0 = R * 0 + 0 /\ 0 \in 0 .. R - 1
    OBVIOUS
  <2>2. GetSupplyAtHeight(0) = SupplyAtPhase[0] + Reward(0) * (0 + 1)
    BY <1>2, <2>1
  <2>3. Reward(0) \in Nat
    BY RewardType
  <2> QED BY <2>2, <2>3, PhaseSupply
<1>4. ASSUME NEW h \in Nat
      PROVE  GetSupplyAtHeight(h) \in Nat
             /\ GetSupplyAtHeight(h + 1) = GetSupplyAtHeight(h) + Reward(h + 1)
  <2>1. PICK q \in Nat, r \in Nat : h = R * q + r /\ r <= R - 1
    <3>1. h \div R \in Nat /\ h % R \in 0 .. R - 1 /\ h = R * (h \div R) + (h % R)
      OBVIOUS
    <3> QED BY <3>1
  <2>2. r \in 0 .. R - 1 /\ R * q \in Nat
    BY <2>1
  <2>3. GetSupplyAtHeight(h) = SupplyAtPhase[q] + Reward(h) * (r + 1)
    BY <1>2, <2>1, <2>2
  <2>4. PICK s, x, y : s = SupplyAtPhase[q] /\ x = Reward(h) /\ y = Reward(h + 1)
    OBVIOUS
  <2>9. s \in Nat /\ x \in Nat /\ y \in Nat
    <3>1. h + 1 \in Nat
      OBVIOUS
    <3> QED BY <2>4, <3>1, PhaseSupply, RewardType
  <2>5. x * (r + 1) = x * r + x /\ x * r \in Nat
    BY <2>9
  <2>6. GetSupplyAtHeight(h) \in Nat
    BY <2>3, <2>4, <2>5, <2>9
  <2>7. CASE r + 1 <= R - 1
    <3>1. h + 1 = R * q + (r + 1) /\ r + 1 \in 0 .. R - 1 /\ h + 1 \in Nat
      BY <2>1, <2>2, <2>7
    <3>2. GetSupplyAtHeight(h + 1) = SupplyAtPhase[q] + Reward(h + 1) * ((r + 1) + 1)
      BY <1>2, <3>1
    <3>3. Reward(h + 1) = Reward(h)
      BY <1>2, <2>1, <2>2, <3>1
    <3>4. x * ((r + 1) + 1) = x * (r + 1) + x
      BY <2>9
    <3> QED BY <2>3, <2>9, <2>4, <2>5, <2>6, <3>2, <3>3, <3>4
  <2>8. CASE r = R - 1
    <3>1. h + 1 = R * (q + 1) + 0 /\ 0 \in 0 .. R - 1 /\ h + 1 \in Nat /\ q + 1 \in Nat
      <4>1. R * (q + 1) = R * q + R
        OBVIOUS
      <4> QED BY <2>1, <2>2, <2>8, <4>1
    <3>2. GetSupplyAtHeight(h + 1) = SupplyAtPhase[q + 1] + Reward(h + 1) * (0 + 1)
      BY <1>2, <3>1
    <3>3. R * (q + 1) - 1 = h
      BY <3>1
    <3>4. SupplyAtPhase[q + 1] = x * R + s
      BY <1>1, <2>4, <3>3, PhaseSupply
    <3>5. r + 1 = R /\ x * R \in Nat
      BY <2>8, <2>9
    <3> QED BY <2>3, <2>9, <2>4, <2>6, <3>2, <3>4, <3>5
  <2> QED BY <2>1, <2>6, <2>7, <2>8
<1> QED BY <1>3, <1>4

-----------------------------------------------------------------------------
(* Accounts                                                                *)

\* M has the accounts of L: balances, counters, nonces and delegate choices.
SameAccounts(M, L) ==
  M.bal = L.bal /\ M.incoming = L.incoming /\ M.nonce = L.nonce /\ M.delegate = L.delegate

Steady(M, L) == Shape(M) /\ M.ok = L.ok /\ SameAccounts(M, L)

Accounts(L) ==
  /\ Shape(L)
  /\ L.bal \in [Addresses -> Nat] /\ L.incoming \in [Addresses -> Nat]
  /\ L.nonce \in [Users -> Nat] /\ L.delegate \in [Users -> DelegateIds \cup {0}]

\* Stakes, rewards and their undoing leave the accounts alone.
LEMMA StakeSteady ==
  ASSUME NEW L, Shape(L), NEW d, NEW u, NEW amount, NEW top, NEW reverse
  PROVE  Steady(Stake(L, d, u, amount, top, reverse), L)
BY DEF Steady, SameAccounts, Shape, Stake

LEMMA UnstakeSteady ==
  ASSUME NEW L, Shape(L), NEW d, NEW u, NEW amount, NEW reverse, NEW prev
  PROVE  Steady(Unstake(L, d, u, amount, reverse, prev), L)
BY DEF Steady, SameAccounts, Shape, Unstake

LEMMA PosRewardSteady ==
  ASSUME NEW L, Shape(L), NEW h, NEW d, NEW amount
  PROVE  Steady(PosReward(L, h, d, amount), L)
BY DEF Steady, SameAccounts, Shape, PosReward

LEMMA RemovePosRewardSteady ==
  ASSUME NEW L, Shape(L), NEW h, NEW d, NEW amount
  PROVE  Steady(RemovePosReward(L, h, d, amount), L)
BY DEF Steady, SameAccounts, Shape, RemovePosReward

\* M is L with output out paid.
Pays(L, out, M) ==
  /\ Shape(M)
  /\ M.bal = [L.bal EXCEPT ![out.to] = @ + out.amount]
  /\ M.incoming = [L.incoming EXCEPT ![out.to] = @ + 1]
  /\ M.nonce = L.nonce /\ M.delegate = L.delegate

\* M is L with output out taken back.
TakesBack(L, out, M) ==
  /\ Shape(M)
  /\ M.bal = [L.bal EXCEPT ![out.to] = @ - out.amount]
  /\ M.incoming = [L.incoming EXCEPT ![out.to] = @ - 1]
  /\ M.nonce = L.nonce /\ M.delegate = L.delegate

LEMMA ApplyOutputPays ==
  ASSUME NEW L, Shape(L), NEW h, NEW out, NEW M, M = ApplyOutput(L, h, out), M.ok
  PROVE  L.ok /\ Pays(L, out, M)
<1>1. PICK paid : paid = [L EXCEPT !.bal[out.to] = @ + out.amount, !.incoming[out.to] = @ + 1]
  OBVIOUS
<1>2. Shape(paid) /\ paid.ok = L.ok /\ Pays(L, out, paid)
  BY <1>1 DEF Pays, Shape
<1>3. Steady(PosReward(paid, h, out.pos, out.amount), paid)
  BY <1>2, PosRewardSteady
<1>4. Refuse(L).ok = FALSE
  BY RefuseLike
<1>5. /\ M = L \/ M = paid \/ M = PosReward(paid, h, out.pos, out.amount) \/ M = Refuse(L)
      /\ M = L => ~L.ok \/ M = paid \/ M = PosReward(paid, h, out.pos, out.amount) \/ M = Refuse(L)
  BY <1>1 DEF ApplyOutput
<1> QED BY <1>2, <1>3, <1>4, <1>5 DEF Pays, Steady, SameAccounts

LEMMA RemoveOutputTakes ==
  ASSUME NEW L, Shape(L), NEW h, NEW out, NEW M, M = RemoveOutput(L, h, out)
  PROVE  /\ M.ok => L.ok /\ TakesBack(L, out, M)
         /\ L.ok /\ out.pos = 0 /\ ~(L.bal[out.to] < out.amount) /\ L.incoming[out.to] # 0 => M.ok
<1>1. PICK taken : taken = [L EXCEPT !.bal[out.to] = @ - out.amount, !.incoming[out.to] = @ - 1]
  OBVIOUS
<1>2. Shape(taken) /\ taken.ok = L.ok /\ TakesBack(L, out, taken)
  BY <1>1 DEF TakesBack, Shape
<1>3. Steady(RemovePosReward(taken, h, out.pos, out.amount), taken)
  BY <1>2, RemovePosRewardSteady
<1>4. Refuse(L).ok = FALSE
  BY RefuseLike
<1>5. /\ M = L \/ M = taken \/ M = RemovePosReward(taken, h, out.pos, out.amount) \/ M = Refuse(L)
      /\ M = L => ~L.ok \/ M = taken \/ M = RemovePosReward(taken, h, out.pos, out.amount) \/ M = Refuse(L)
      /\ L.ok /\ out.pos = 0 /\ ~(L.bal[out.to] < out.amount) /\ L.incoming[out.to] # 0 => M = taken
  BY <1>1 DEF RemoveOutput
<1> QED BY <1>2, <1>3, <1>4, <1>5 DEF TakesBack, Steady, SameAccounts

\* Lists of no, one, two and three outputs.
LEMMA PayNone ==
  ASSUME NEW L, NEW h
  PROVE  ApplyTxOutputsToState(L, h, <<>>) = L
<1>1. DOMAIN <<>> = 1 .. 0
  OBVIOUS
<1>2. PICK g : Forward(g, "pay", h, 0, L, <<>>, 0, ApplyTxOutputsToState(L, h, <<>>))
  BY <1>1, PayStates
<1> QED BY <1>2 DEF Forward

LEMMA PayOne ==
  ASSUME NEW L, NEW h, NEW o1
  PROVE  ApplyTxOutputsToState(L, h, <<o1>>) = ApplyOutput(L, h, o1)
<1>1. PICK s : s = <<o1>>
  OBVIOUS
<1>2. DOMAIN s = 1 .. 1 /\ s[1] = o1
  BY <1>1
<1>3. PICK g : Forward(g, "pay", h, 0, L, s, 1, ApplyTxOutputsToState(L, h, s))
  BY <1>2, PayStates
<1>4. g[1] = ApplyOutput(g[1 - 1], h, s[1]) /\ g[0] = L /\ 1 - 1 = 0
  BY <1>3 DEF Forward, Step
<1> QED BY <1>1, <1>2, <1>3, <1>4 DEF Forward

LEMMA PayTwo ==
  ASSUME NEW L, NEW h, NEW o1, NEW o2
  PROVE  ApplyTxOutputsToState(L, h, <<o1, o2>>) = ApplyOutput(ApplyOutput(L, h, o1), h, o2)
<1>1. PICK s : s = <<o1, o2>>
  OBVIOUS
<1>2. DOMAIN s = 1 .. 2 /\ s[1] = o1 /\ s[2] = o2
  BY <1>1
<1>3. PICK g : Forward(g, "pay", h, 0, L, s, 2, ApplyTxOutputsToState(L, h, s))
  BY <1>2, PayStates
<1>4. \A k \in 1 .. 2 : g[k] = ApplyOutput(g[k - 1], h, s[k])
  BY <1>3 DEF Forward, Step
<1>5. 1 \in 1 .. 2 /\ 2 \in 1 .. 2 /\ 1 - 1 = 0 /\ 2 - 1 = 1
  OBVIOUS
<1>6. g[1] = ApplyOutput(g[0], h, o1) /\ g[2] = ApplyOutput(g[1], h, o2)
  BY <1>2, <1>4, <1>5
<1> QED BY <1>1, <1>3, <1>6 DEF Forward

LEMMA PayThree ==
  ASSUME NEW L, NEW h, NEW o1, NEW o2, NEW o3
  PROVE  ApplyTxOutputsToState(L, h, <<o1, o2, o3>>) = ApplyOutput(ApplyOutput(ApplyOutput(L, h, o1), h, o2), h, o3)
<1>1. PICK s : s = <<o1, o2, o3>>
  OBVIOUS
<1>2. DOMAIN s = 1 .. 3 /\ s[1] = o1 /\ s[2] = o2 /\ s[3] = o3
  BY <1>1
<1>3. PICK g : Forward(g, "pay", h, 0, L, s, 3, ApplyTxOutputsToState(L, h, s))
  BY <1>2, PayStates
<1>4. \A k \in 1 .. 3 : g[k] = ApplyOutput(g[k - 1], h, s[k])
  BY <1>3 DEF Forward, Step
<1>5. /\ 1 \in 1 .. 3 /\ 2 \in 1 .. 3 /\ 3 \in 1 .. 3
      /\ 1 - 1 = 0 /\ 2 - 1 = 1 /\ 3 - 1 = 2
  OBVIOUS
<1>6. g[1] = ApplyOutput(g[0], h, o1) /\ g[2] = ApplyOutput(g[1], h, o2) /\ g[3] = ApplyOutput(g[2], h, o3)
  BY <1>2, <1>4, <1>5
<1> QED BY <1>1, <1>3, <1>6 DEF Forward

LEMMA TakeNone ==
  ASSUME NEW L, NEW h
  PROVE  RemoveTxOutputsFromState(L, h, <<>>) = L
<1>1. DOMAIN <<>> = 1 .. 0
  OBVIOUS
<1>2. PICK g : Forward(g, "take", h, 0, L, <<>>, 0, RemoveTxOutputsFromState(L, h, <<>>))
  BY <1>1, TakeStates
<1> QED BY <1>2 DEF Forward

LEMMA TakeOne ==
  ASSUME NEW L, NEW h, NEW o1
  PROVE  RemoveTxOutputsFromState(L, h, <<o1>>) = RemoveOutput(L, h, o1)
<1>1. PICK s : s = <<o1>>
  OBVIOUS
<1>2. DOMAIN s = 1 .. 1 /\ s[1] = o1
  BY <1>1
<1>3. PICK g : Forward(g, "take", h, 0, L, s, 1, RemoveTxOutputsFromState(L, h, s))
  BY <1>2, TakeStates
<1>4. g[1] = RemoveOutput(g[1 - 1], h, s[1]) /\ g[0] = L /\ 1 - 1 = 0
  BY <1>3 DEF Forward, Step
<1> QED BY <1>1, <1>2, <1>3, <1>4 DEF Forward

LEMMA TakeTwo ==
  ASSUME NEW L, NEW h, NEW o1, NEW o2
  PROVE  RemoveTxOutputsFromState(L, h, <<o1, o2>>) = RemoveOutput(RemoveOutput(L, h, o1), h, o2)
<1>1. PICK s : s = <<o1, o2>>
  OBVIOUS
<1>2. DOMAIN s = 1 .. 2 /\ s[1] = o1 /\ s[2] = o2
  BY <1>1
<1>3. PICK g : Forward(g, "take", h, 0, L, s, 2, RemoveTxOutputsFromState(L, h, s))
  BY <1>2, TakeStates
<1>4. \A k \in 1 .. 2 : g[k] = RemoveOutput(g[k - 1], h, s[k])
  BY <1>3 DEF Forward, Step
<1>5. 1 \in 1 .. 2 /\ 2 \in 1 .. 2 /\ 1 - 1 = 0 /\ 2 - 1 = 1
  OBVIOUS
<1>6. g[1] = RemoveOutput(g[0], h, o1) /\ g[2] = RemoveOutput(g[1], h, o2)
  BY <1>2, <1>4, <1>5
<1> QED BY <1>1, <1>3, <1>6 DEF Forward

LEMMA TakeThree ==
  ASSUME NEW L, NEW h, NEW o1, NEW o2, NEW o3
  PROVE  RemoveTxOutputsFromState(L, h, <<o1, o2, o3>>) = RemoveOutput(RemoveOutput(RemoveOutput(L, h, o1), h, o2), h, o3)
<1>1. PICK s : s = <<o1, o2, o3>>
  OBVIOUS
<1>2. DOMAIN s = 1 .. 3 /\ s[1] = o1 /\ s[2] = o2 /\ s[3] = o3
  BY <1>1
<1>3. PICK g : Forward(g, "take", h, 0, L, s, 3, RemoveTxOutputsFromState(L, h, s))
  BY <1>2, TakeStates
<1>4. \A k \in 1 .. 3 : g[k] = RemoveOutput(g[k - 1], h, s[k])
  BY <1>3 DEF Forward, Step
<1>5. /\ 1 \in 1 .. 3 /\ 2 \in 1 .. 3 /\ 3 \in 1 .. 3
      /\ 1 - 1 = 0 /\ 2 - 1 = 1 /\ 3 - 1 = 2
  OBVIOUS
<1>6. g[1] = RemoveOutput(g[0], h, o1) /\ g[2] = RemoveOutput(g[1], h, o2) /\ g[3] = RemoveOutput(g[2], h, o3)
  BY <1>2, <1>4, <1>5
<1> QED BY <1>1, <1>3, <1>6 DEF Forward

\* What a transaction takes from address a and gives to it.
Sends(tx, a) == IF Input(tx).from = a THEN Input(tx).amount ELSE 0
Gets(tx, a) == IF tx.kind # "set" /\ Outputs(tx)[1].to = a THEN Outputs(tx)[1].amount ELSE 0
Notices(tx, a) == IF tx.kind # "set" /\ Outputs(tx)[1].to = a THEN 1 ELSE 0

\* A stake or unstake names a delegate that exists.
Placed(tx) == tx.kind \in {"stake", "unstake"} => tx.delegate \in DelegateIds

\* Transaction tx leads from the accounts of L to those of M.
Moves(L, tx, M) ==
  /\ Placed(tx)
  /\ Counted(L.nonce, tx, M.nonce)
  /\ L.bal[Input(tx).from] >= Input(tx).amount
  /\ tx.kind = "set" => tx.prev = L.delegate[tx.signer]
  /\ M.bal = [a \in Addresses |-> (L.bal[a] - Sends(tx, a)) + Gets(tx, a)]
  /\ M.incoming = [a \in Addresses |-> L.incoming[a] + Notices(tx, a)]
  /\ M.delegate = IF tx.kind = "set" THEN [L.delegate EXCEPT ![tx.signer] = tx.delegate] ELSE L.delegate

\* The input and the output of a transaction differ by its fee.
LEMMA TxParts ==
  ASSUME NEW tx \in Transaction, Placed(tx)
  PROVE  /\ tx.signer \in Users /\ tx.fee \in Nat /\ tx.delegate \in DelegateIds \cup {0}
         /\ Input(tx).from \in Addresses /\ Input(tx).amount \in Nat
         /\ tx.kind = "set" => Outputs(tx) = <<>> /\ Input(tx).amount = tx.fee
         /\ tx.kind # "set" =>
              \E o : /\ Outputs(tx) = <<o>>
                     /\ o.to \in Addresses /\ o.amount \in Nat /\ o.pos = 0
                     /\ Input(tx).amount = o.amount + tx.fee
<1>1. /\ tx.kind \in {"transfer", "register", "set", "stake", "unstake"}
      /\ tx.signer \in Users /\ tx.fee \in Nat /\ tx.amount \in Nat /\ tx.to \in Addresses
      /\ tx.delegate \in DelegateIds \cup {0}
      /\ tx.kind = "unstake" => tx.fee <= tx.amount
  BY DEF Transaction
<1>2. REGISTER_DELEGATE_BURN \in Nat
  BY LedgerAssumption
<1>3. /\ Users \subseteq Addresses /\ Burned \in Addresses
      /\ \A d \in DelegateIds : DelegateAddr[d] \in Addresses
  BY DEF Addresses
<1>4. CASE tx.kind = "transfer"
  <2>1. Input(tx) = [from |-> tx.signer, amount |-> tx.amount + tx.fee]
    BY <1>4 DEF Input
  <2>2. PICK o : o = [to |-> tx.to, amount |-> tx.amount, pos |-> 0]
    OBVIOUS
  <2>3. Outputs(tx) = <<o>>
    BY <1>4, <2>2 DEF Outputs
  <2> QED BY <1>1, <1>3, <1>4, <2>1, <2>2, <2>3
<1>5. CASE tx.kind = "register"
  <2>1. Input(tx) = [from |-> tx.signer, amount |-> REGISTER_DELEGATE_BURN + tx.fee]
    BY <1>5 DEF Input
  <2>2. PICK o : o = [to |-> Burned, amount |-> REGISTER_DELEGATE_BURN, pos |-> 0]
    OBVIOUS
  <2>3. Outputs(tx) = <<o>>
    BY <1>5, <2>2 DEF Outputs
  <2> QED BY <1>1, <1>2, <1>3, <1>5, <2>1, <2>2, <2>3
<1>6. CASE tx.kind = "set"
  <2>1. Input(tx) = [from |-> tx.signer, amount |-> tx.fee]
    BY <1>6 DEF Input
  <2>2. Outputs(tx) = <<>>
    BY <1>6 DEF Outputs
  <2> QED BY <1>1, <1>3, <1>6, <2>1, <2>2
<1>7. CASE tx.kind = "stake"
  <2>1. Input(tx) = [from |-> tx.signer, amount |-> tx.amount + tx.fee]
    BY <1>7 DEF Input
  <2>2. PICK o : o = [to |-> DelegateAddr[tx.delegate], amount |-> tx.amount, pos |-> 0]
    OBVIOUS
  <2>3. Outputs(tx) = <<o>>
    BY <1>7, <2>2 DEF Outputs
  <2>4. tx.delegate \in DelegateIds
    BY <1>7 DEF Placed
  <2> QED BY <1>1, <1>3, <1>7, <2>1, <2>2, <2>3, <2>4
<1>8. CASE tx.kind = "unstake"
  <2>1. Input(tx) = [from |-> DelegateAddr[tx.delegate], amount |-> tx.amount]
    BY <1>8 DEF Input
  <2>2. PICK o : o = [to |-> tx.signer, amount |-> tx.amount - tx.fee, pos |-> 0]
    OBVIOUS
  <2>3. Outputs(tx) = <<o>>
    BY <1>8, <2>2 DEF Outputs
  <2>4. tx.delegate \in DelegateIds
    BY <1>8 DEF Placed
  <2>5. tx.amount - tx.fee \in Nat /\ tx.amount = (tx.amount - tx.fee) + tx.fee
    BY <1>1, <1>8
  <2> QED BY <1>1, <1>3, <1>8, <2>1, <2>2, <2>3, <2>4, <2>5
<1> QED BY <1>1, <1>4, <1>5, <1>6, <1>7, <1>8

LEMMA AddressesFinite == IsFiniteSet(Addresses)
<1>1. IsFiniteSet(Users) /\ IsFiniteSet(DelegateIds)
  BY LedgerAssumption
<1>2. IsFiniteSet({DelegateAddr[d] : d \in DelegateIds})
  <2>1. PICK f, T : f = [d \in DelegateIds |-> DelegateAddr[d]] /\ T = {DelegateAddr[d] : d \in DelegateIds}
    OBVIOUS
  <2>2. f \in Surjection(DelegateIds, T)
    BY <2>1 DEF Surjection
  <2> QED BY <1>1, <2>1, <2>2, FS_Surjection
<1>3. IsFiniteSet({Gov} \cup {Burned}) /\ {Gov} \cup {Burned} = {Gov, Burned}
  BY FS_Singleton, FS_Union
<1> QED BY <1>1, <1>2, <1>3, FS_Union DEF Addresses

\* What a transaction does to the delegates leaves all but a choice of delegate alone.
LEMMA EffectAccounts ==
  ASSUME NEW L, Shape(L), NEW tx, NEW top, NEW K, K = DelegateEffect(L, tx, top)
  PROVE  /\ Shape(K) /\ K.ok = L.ok /\ K.bal = L.bal /\ K.incoming = L.incoming /\ K.nonce = L.nonce
         /\ K.delegate = IF tx.kind = "set" THEN [L.delegate EXCEPT ![tx.signer] = tx.delegate] ELSE L.delegate
<1>3. CASE tx.kind = "stake"
  <2>1. PICK r : K = Stake(L, tx.delegate, tx.signer, tx.amount, top, r)
    BY <1>3 DEF DelegateEffect
  <2>2. Steady(K, L)
    BY <2>1, StakeSteady
  <2> QED BY <1>3, <2>2 DEF Steady, SameAccounts
<1>4. CASE tx.kind = "unstake"
  <2>1. PICK r, p : K = Unstake(L, tx.delegate, tx.signer, tx.amount, r, p)
    BY <1>4 DEF DelegateEffect
  <2>2. Steady(K, L)
    BY <2>1, UnstakeSteady
  <2> QED BY <1>4, <2>2 DEF Steady, SameAccounts
<1>5. CASE tx.kind = "register"
  <2>1. K = [L EXCEPT !.dels[tx.delegate] = [owner |-> tx.signer, funds |-> <<>>]]
    BY <1>5 DEF DelegateEffect
  <2> QED BY <1>5, <2>1 DEF Shape
<1>6. CASE tx.kind = "set"
  <2>1. K = [L EXCEPT !.delegate[tx.signer] = tx.delegate]
    BY <1>6 DEF DelegateEffect
  <2> QED BY <1>6, <2>1 DEF Shape
<1>7. CASE tx.kind \notin {"stake", "unstake", "register", "set"}
  <2>1. K = L
    BY <1>7 DEF DelegateEffect
  <2> QED BY <1>7, <2>1
<1> QED BY <1>3, <1>4, <1>5, <1>6, <1>7

LEMMA UndoAccounts ==
  ASSUME NEW L, Shape(L), NEW tx, NEW top, NEW K, K = DelegateUndo(L, tx, top)
  PROVE  /\ Shape(K) /\ K.ok = L.ok /\ K.bal = L.bal /\ K.incoming = L.incoming /\ K.nonce = L.nonce
         /\ K.delegate = IF tx.kind = "set" THEN [L.delegate EXCEPT ![tx.signer] = tx.prev] ELSE L.delegate
<1>3. CASE tx.kind = "unstake"
  <2>1. PICK r : K = Stake(L, tx.delegate, tx.signer, tx.amount, top, r)
    BY <1>3 DEF DelegateUndo
  <2>2. Steady(K, L)
    BY <2>1, StakeSteady
  <2> QED BY <1>3, <2>2 DEF Steady, SameAccounts
<1>4. CASE tx.kind = "stake"
  <2>1. PICK r, p : K = Unstake(L, tx.delegate, tx.signer, tx.amount, r, p)
    BY <1>4 DEF DelegateUndo
  <2>2. Steady(K, L)
    BY <2>1, UnstakeSteady
  <2> QED BY <1>4, <2>2 DEF Steady, SameAccounts
<1>5. CASE tx.kind = "register"
  <2>1. K = [L EXCEPT !.dels[tx.delegate] = [owner |-> Nobody, funds |-> <<>>]]
    BY <1>5 DEF DelegateUndo
  <2> QED BY <1>5, <2>1 DEF Shape
<1>6. CASE tx.kind = "set"
  <2>1. K = [L EXCEPT !.delegate[tx.signer] = tx.prev]
    BY <1>6 DEF DelegateUndo
  <2> QED BY <1>6, <2>1 DEF Shape
<1>7. CASE tx.kind \notin {"stake", "unstake", "register", "set"}
  <2>1. K = L
    BY <1>7 DEF DelegateUndo
  <2> QED BY <1>7, <2>1
<1> QED BY <1>3, <1>4, <1>5, <1>6, <1>7

LEMMA ApplyTxMoves ==
  ASSUME NEW L, Accounts(L), NEW h, NEW tx \in Transaction, NEW top, NEW M,
         M = ApplyTxToState(L, h, tx, top), M.ok
  PROVE  /\ L.ok /\ Accounts(M) /\ Moves(L, tx, M)
         /\ SumFunction(M.bal) = SumFunction(L.bal) - tx.fee
<1>1. PICK K : K = DelegateEffect(L, tx, top)
  OBVIOUS
<1>2. PICK spent : spent = [K EXCEPT !.nonce[tx.signer] = @ + 1,
                                     !.bal[Input(tx).from] = @ - Input(tx).amount]
  OBVIOUS
<1>3. M = IF L.ok /\ TxValid(L, tx, top) THEN ApplyTxOutputsToState(spent, h, Outputs(tx)) ELSE Refuse(L)
  BY <1>1, <1>2 DEF ApplyTxToState
<1>4. L.ok /\ TxValid(L, tx, top)
  BY <1>3, RefuseLike DEF Accounts
<1>5. M = ApplyTxOutputsToState(spent, h, Outputs(tx))
  BY <1>3, <1>4
<1>6. Placed(tx)
  BY <1>4 DEF TxValid, StakeValid, UnstakeValid, Registered, Placed
<1>7. PICK from, amt : from = Input(tx).from /\ amt = Input(tx).amount
  OBVIOUS
<1>8. /\ tx.signer \in Users /\ tx.fee \in Nat /\ tx.delegate \in DelegateIds \cup {0}
      /\ from \in Addresses /\ amt \in Nat
  BY <1>6, <1>7, TxParts
<1>9. /\ L.bal[from] >= amt
      /\ tx.nonce = L.nonce[tx.signer] + 1
      /\ tx.kind = "set" => tx.prev = L.delegate[tx.signer]
  BY <1>4, <1>7 DEF TxValid
<1>10. /\ Shape(K) /\ K.bal = L.bal /\ K.incoming = L.incoming /\ K.nonce = L.nonce
       /\ K.delegate = IF tx.kind = "set" THEN [L.delegate EXCEPT ![tx.signer] = tx.delegate] ELSE L.delegate
  BY <1>1, EffectAccounts DEF Accounts
<1>11. /\ Shape(spent) /\ spent.incoming = L.incoming /\ spent.delegate = K.delegate
       /\ spent.bal = [L.bal EXCEPT ![from] = @ - amt]
       /\ spent.nonce = [L.nonce EXCEPT ![tx.signer] = @ + 1]
  BY <1>2, <1>7, <1>10 DEF Shape
<1>12. PICK v, w, i, x : v = L.bal /\ w = spent.bal /\ i = L.incoming /\ x = spent.delegate
  OBVIOUS
<1>13. v \in [Addresses -> Nat] /\ i \in [Addresses -> Nat] /\ v \in [Addresses -> Int]
  BY <1>12 DEF Accounts
<1>14. v[from] - amt \in Nat
  BY <1>8, <1>9, <1>12, <1>13
<1>15. w \in [Addresses -> Nat] /\ w = [v EXCEPT ![from] = @ - amt] /\ w \in [Addresses -> Int]
  BY <1>8, <1>11, <1>12, <1>13, <1>14
<1>16. SumFunction(w) = SumFunction(v) - amt /\ SumFunction(v) \in Int
  <2>1. -amt \in Int /\ v[from] \in Int /\ v[from] - amt = v[from] + (-amt)
    BY <1>8, <1>13
  <2>3. Adds(v, from, -amt, w)
    BY <1>15, <2>1 DEF Adds
  <2>2. SumFunction(v) \in Int /\ SumFunction(w) = SumFunction(v) + (-amt)
    BY <1>8, <1>13, <2>1, <2>3, AddressesFinite, SumPoint
  <2> QED BY <1>8, <2>2
<1>17. x \in [Users -> DelegateIds \cup {0}]
  BY <1>8, <1>10, <1>11, <1>12 DEF Accounts
<1>18. spent.nonce \in [Users -> Nat] /\ Counted(L.nonce, tx, spent.nonce)
  BY <1>8, <1>9, <1>11 DEF Accounts, Counted
<1>19. CASE tx.kind = "set"
  <2>1. Outputs(tx) = <<>> /\ amt = tx.fee
    BY <1>6, <1>7, <1>19, TxParts
  <2>2. M = spent
    BY <1>5, <2>1, PayNone
  <2>3. Accounts(M)
    BY <1>11, <1>12, <1>13, <1>15, <1>17, <1>18, <2>2 DEF Accounts
  <2>4. \A a \in Addresses : Gets(tx, a) = 0 /\ Notices(tx, a) = 0
    BY <1>19 DEF Gets, Notices
  <2>5. \A a \in Addresses : w[a] = (v[a] - Sends(tx, a)) + Gets(tx, a)
    BY <1>7, <1>8, <1>13, <1>15, <2>4 DEF Sends
  <2>6. M.bal = [a \in Addresses |-> (L.bal[a] - Sends(tx, a)) + Gets(tx, a)]
    BY <1>12, <1>15, <2>2, <2>5
  <2>7. \A a \in Addresses : i[a] = i[a] + Notices(tx, a)
    BY <1>13, <2>4
  <2>8. M.incoming = [a \in Addresses |-> L.incoming[a] + Notices(tx, a)]
    BY <1>11, <1>12, <1>13, <2>2, <2>7
  <2>9. Moves(L, tx, M)
    BY <1>6, <1>7, <1>9, <1>10, <1>11, <1>18, <2>2, <2>6, <2>8 DEF Moves
  <2>10. SumFunction(M.bal) = SumFunction(L.bal) - tx.fee
    BY <1>12, <1>16, <2>1, <2>2
  <2> QED BY <1>4, <2>3, <2>9, <2>10
<1>20. CASE tx.kind # "set"
  <2>1. PICK o : /\ Outputs(tx) = <<o>>
                 /\ o.to \in Addresses /\ o.amount \in Nat /\ o.pos = 0
                 /\ amt = o.amount + tx.fee
    BY <1>6, <1>7, <1>20, TxParts
  <2>2. M = ApplyOutput(spent, h, o)
    BY <1>5, <2>1, PayOne
  <2>3. Pays(spent, o, M)
    BY <1>11, <2>2, ApplyOutputPays
  <2>4. PICK m, j : m = M.bal /\ j = M.incoming
    OBVIOUS
  <2>5. /\ m = [w EXCEPT ![o.to] = @ + o.amount] /\ j = [i EXCEPT ![o.to] = @ + 1]
        /\ Shape(M) /\ M.nonce = spent.nonce /\ M.delegate = x
    BY <1>11, <1>12, <2>3, <2>4 DEF Pays
  <2>6. m \in [Addresses -> Nat] /\ j \in [Addresses -> Nat]
    BY <1>13, <1>15, <2>1, <2>5
  <2>7. SumFunction(m) = SumFunction(w) + o.amount
    <3>1. PICK a, y : a = o.to /\ y = o.amount
      OBVIOUS
    <3>2. Adds(w, a, y, m) /\ a \in Addresses /\ y \in Int
      BY <2>1, <2>5, <3>1 DEF Adds
    <3>4. w \in [Addresses -> Int]
      BY <1>15
    <3>3. SumFunction(m) = SumFunction(w) + y
      BY <3>2, <3>4, AddressesFinite, SumPoint
    <3> QED BY <3>1, <3>3
  <2>8. Accounts(M)
    BY <1>17, <1>18, <2>4, <2>5, <2>6 DEF Accounts
  <2>9. Outputs(tx)[1] = o
    BY <2>1
  <2>10. /\ \A a \in Addresses : Gets(tx, a) = IF o.to = a THEN o.amount ELSE 0
         /\ \A a \in Addresses : Notices(tx, a) = IF o.to = a THEN 1 ELSE 0
         /\ \A a \in Addresses : Sends(tx, a) = IF from = a THEN amt ELSE 0
    BY <1>7, <1>20, <2>9 DEF Gets, Notices, Sends
  <2>11. \A a \in Addresses : m[a] = (v[a] - Sends(tx, a)) + Gets(tx, a)
    BY <1>8, <1>13, <1>15, <2>1, <2>5, <2>10
  <2>12. M.bal = [a \in Addresses |-> (L.bal[a] - Sends(tx, a)) + Gets(tx, a)]
    BY <1>12, <2>4, <2>6, <2>11
  <2>13. \A a \in Addresses : j[a] = i[a] + Notices(tx, a)
    BY <1>13, <2>1, <2>5, <2>10
  <2>14. M.incoming = [a \in Addresses |-> L.incoming[a] + Notices(tx, a)]
    BY <1>12, <2>4, <2>6, <2>13
  <2>15. Moves(L, tx, M)
    BY <1>6, <1>7, <1>9, <1>10, <1>11, <1>12, <1>18, <1>20, <2>5, <2>12, <2>14 DEF Moves
  <2>16. SumFunction(M.bal) = SumFunction(L.bal) - tx.fee
    BY <1>8, <1>12, <1>16, <2>1, <2>4, <2>7
  <2> QED BY <1>4, <2>8, <2>15, <2>16
<1> QED BY <1>19, <1>20

\* The third output of a coinbase, and what stands for it where there is none.
Rest(cb) == IF 3 \in DOMAIN cb THEN cb[3] ELSE [to |-> Gov, amount |-> 0, pos |-> 0]

\* What a coinbase pays to address a, and how often.
Minted(cb, a) ==
  ((IF cb[1].to = a THEN cb[1].amount ELSE 0) + (IF cb[2].to = a THEN cb[2].amount ELSE 0))
    + (IF Rest(cb).to = a THEN Rest(cb).amount ELSE 0)
Payments(cb, a) ==
  ((IF cb[1].to = a THEN 1 ELSE 0) + (IF cb[2].to = a THEN 1 ELSE 0))
    + (IF 3 \in DOMAIN cb /\ Rest(cb).to = a THEN 1 ELSE 0)

\* The outputs of a coinbase, with total in all.
IsCoinbase(cb, total) ==
  /\ cb = <<cb[1], cb[2], Rest(cb)>> \/ cb = <<cb[1], cb[2]>>
  /\ cb[1].to \in Addresses /\ cb[2].to \in Addresses /\ Rest(cb).to \in Addresses
  /\ cb[1].amount \in Nat /\ cb[2].amount \in Nat /\ Rest(cb).amount \in Nat
  /\ (cb[1].amount + cb[2].amount) + Rest(cb).amount = total

\* K has the accounts of L and what a coinbase paid on top of them.
Above(K, L, cb) ==
  /\ Shape(K)
  /\ K.bal = [a \in Addresses |-> L.bal[a] + Minted(cb, a)]
  /\ K.incoming = [a \in Addresses |-> L.incoming[a] + Payments(cb, a)]
  /\ K.nonce = L.nonce /\ K.delegate = L.delegate

LEMMA MintedType ==
  ASSUME NEW cb, NEW total, IsCoinbase(cb, total), NEW a
  PROVE  Minted(cb, a) \in Nat /\ Payments(cb, a) \in Nat
<1>1. PICK x, y, z : x = cb[1] /\ y = cb[2] /\ z = Rest(cb)
  OBVIOUS
<1>2. x.amount \in Nat /\ y.amount \in Nat /\ z.amount \in Nat
  BY <1>1 DEF IsCoinbase
<1> QED BY <1>1, <1>2 DEF Minted, Payments

\* The coinbase of a block adds up to the reward and the fees, whatever is rounded;
\* only its third output rewards a delegate, the one of a signed block.
LEMMA CoinbaseAdds ==
  ASSUME NEW b \in AnyBlock, b.signed => b.delegate \in DelegateIds, NEW total \in Nat,
         NEW cb, cb = CoinbaseTransaction(b, total)
  PROVE  /\ IsCoinbase(cb, total)
         /\ cb[1].pos = 0 /\ cb[2].pos = 0 /\ Rest(cb).pos \in {0, IF b.signed THEN b.delegate ELSE 0}
         /\ Rest(cb).pos # 0 => Rest(cb).amount > 0 /\ Rest(cb).to = DelegateAddr[Rest(cb).pos]
         /\ cb[1].to = Gov /\ cb[2].to \in Users
         /\ Rest(cb).pos = 0 => Rest(cb).to \in {Gov, Burned}
<1>1. PICK gov, pow, pow2 : gov = (total * 10) \div 100 /\ pow = total \div 2 /\ pow2 = (pow * 3) \div 4
  OBVIOUS
<1>2. /\ gov \in Nat /\ pow \in Nat /\ pow2 \in Nat
      /\ total - pow - gov \in Nat /\ total - gov - pow2 \in Nat
  BY <1>1
<1>3. b.miner \in Users /\ b.miner \in Addresses /\ Gov \in Addresses /\ Burned \in Addresses
  BY DEF AnyBlock, Addresses
<1>4. PICK x, y, z :
           /\ x = [to |-> Gov, amount |-> gov, pos |-> 0]
           /\ y = [to |-> b.miner, amount |-> IF b.signed THEN pow ELSE pow2, pos |-> 0]
           /\ z = IF b.signed
                  THEN [to |-> DelegateAddr[b.delegate], amount |-> total - pow - gov, pos |-> b.delegate]
                  ELSE [to |-> Burned, amount |-> total - gov - pow2, pos |-> 0]
  OBVIOUS
<1>9. cb = IF z.amount # 0 THEN <<x, y, z>> ELSE <<x, y>>
  BY <1>1, <1>4, Zenon DEF CoinbaseTransaction
<1>5. /\ x.to = Gov /\ y.to = b.miner /\ x.pos = 0 /\ y.pos = 0 /\ z.to \in Addresses
      /\ x.amount \in Nat /\ y.amount \in Nat /\ z.amount \in Nat
      /\ (x.amount + y.amount) + z.amount = total
      /\ z.pos = IF b.signed THEN b.delegate ELSE 0
      /\ z.to = IF b.signed THEN DelegateAddr[b.delegate] ELSE Burned
  <2>1. CASE b.signed
    <3>1. y.amount = pow /\ z = [to |-> DelegateAddr[b.delegate], amount |-> total - pow - gov, pos |-> b.delegate]
      BY <1>4, <2>1
    <3>2. DelegateAddr[b.delegate] \in Addresses
      BY <2>1 DEF Addresses
    <3>3. (gov + pow) + (total - pow - gov) = total
      BY <1>2
    <3> QED BY <1>2, <1>4, <2>1, <3>1, <3>2, <3>3
  <2>2. CASE ~b.signed
    <3>1. y.amount = pow2 /\ z = [to |-> Burned, amount |-> total - gov - pow2, pos |-> 0]
      BY <1>4, <2>2
    <3>2. (gov + pow2) + (total - gov - pow2) = total
      BY <1>2
    <3> QED BY <1>2, <1>3, <1>4, <2>2, <3>1, <3>2
  <2> QED BY <2>1, <2>2
<1>6. CASE z.amount # 0
  <2>1. cb = <<x, y, z>>
    BY <1>6, <1>9
  <2>2. cb[1] = x /\ cb[2] = y /\ cb[3] = z /\ 3 \in DOMAIN cb
    BY <2>1
  <2>3. Rest(cb) = z /\ z.amount > 0
    BY <1>5, <1>6, <2>2 DEF Rest
  <2>4. IsCoinbase(cb, total)
    BY <1>3, <1>5, <2>1, <2>2, <2>3 DEF IsCoinbase
  <2>5. z.pos # 0 => z.to = DelegateAddr[z.pos]
    BY <1>5
  <2>6. z.pos = 0 => z.to \in {Gov, Burned}
    BY <1>5, LedgerAssumption
  <2> QED BY <1>3, <1>5, <2>2, <2>3, <2>4, <2>5, <2>6
<1>7. CASE z.amount = 0
  <2>1. cb = <<x, y>>
    BY <1>7, <1>9
  <2>2. cb[1] = x /\ cb[2] = y /\ ~(3 \in DOMAIN cb)
    BY <2>1
  <2>3. PICK o : o = Rest(cb)
    OBVIOUS
  <2>4. o = [to |-> Gov, amount |-> 0, pos |-> 0]
    BY <2>2, <2>3 DEF Rest
  <2>5. o.to = Gov /\ o.amount = 0 /\ o.pos = 0
    BY <2>4
  <2>6. IsCoinbase(cb, total)
    BY <1>3, <1>5, <1>7, <2>1, <2>2, <2>3, <2>5 DEF IsCoinbase
  <2> QED BY <1>3, <1>5, <2>2, <2>3, <2>5, <2>6
<1> QED BY <1>6, <1>7

\* Paying an output, address by address.
LEMMA PayPoints ==
  ASSUME NEW L, NEW o, NEW M, Pays(L, o, M), o.to \in Addresses, o.amount \in Nat,
         L.bal \in [Addresses -> Nat], L.incoming \in [Addresses -> Nat]
  PROVE  /\ M.bal \in [Addresses -> Nat] /\ M.incoming \in [Addresses -> Nat]
         /\ \A a \in Addresses : /\ M.bal[a] = L.bal[a] + IF o.to = a THEN o.amount ELSE 0
                                 /\ M.incoming[a] = L.incoming[a] + IF o.to = a THEN 1 ELSE 0
         /\ SumFunction(M.bal) = SumFunction(L.bal) + o.amount
         /\ SumFunction(L.bal) \in Int
<1>1. PICK v, w, i, j, t, x : /\ v = L.bal /\ w = M.bal /\ i = L.incoming /\ j = M.incoming
                              /\ t = o.to /\ x = o.amount
  OBVIOUS
<1>2. /\ v \in [Addresses -> Nat] /\ i \in [Addresses -> Nat] /\ t \in Addresses /\ x \in Nat
      /\ w = [v EXCEPT ![t] = @ + x] /\ j = [i EXCEPT ![t] = @ + 1]
  BY <1>1 DEF Pays
<1>3. w \in [Addresses -> Nat] /\ j \in [Addresses -> Nat]
  BY <1>2
<1>4. \A a \in Addresses : w[a] = v[a] + IF t = a THEN x ELSE 0
  BY <1>2
<1>5. \A a \in Addresses : j[a] = i[a] + IF t = a THEN 1 ELSE 0
  BY <1>2
<1>6. Adds(v, t, x, w) /\ v \in [Addresses -> Int] /\ x \in Int
  BY <1>2 DEF Adds
<1>7. SumFunction(w) = SumFunction(v) + x /\ SumFunction(v) \in Int
  BY <1>2, <1>6, AddressesFinite, SumPoint
<1> QED BY <1>1, <1>3, <1>4, <1>5, <1>7

LEMMA TakePoints ==
  ASSUME NEW L, NEW o, NEW M, TakesBack(L, o, M), o.to \in Addresses, o.amount \in Int,
         L.bal \in [Addresses -> Int], L.incoming \in [Addresses -> Int]
  PROVE  /\ M.bal \in [Addresses -> Int] /\ M.incoming \in [Addresses -> Int]
         /\ \A a \in Addresses : /\ M.bal[a] = L.bal[a] - IF o.to = a THEN o.amount ELSE 0
                                 /\ M.incoming[a] = L.incoming[a] - IF o.to = a THEN 1 ELSE 0
<1>1. PICK v, w, i, j, t, x : /\ v = L.bal /\ w = M.bal /\ i = L.incoming /\ j = M.incoming
                              /\ t = o.to /\ x = o.amount
  OBVIOUS
<1>2. /\ v \in [Addresses -> Int] /\ i \in [Addresses -> Int] /\ t \in Addresses /\ x \in Int
      /\ w = [v EXCEPT ![t] = @ - x] /\ j = [i EXCEPT ![t] = @ - 1]
  BY <1>1 DEF TakesBack
<1>3. w \in [Addresses -> Int] /\ j \in [Addresses -> Int]
  BY <1>2
<1>4. \A a \in Addresses : w[a] = v[a] - IF t = a THEN x ELSE 0
  BY <1>2
<1>5. \A a \in Addresses : j[a] = i[a] - IF t = a THEN 1 ELSE 0
  BY <1>2
<1> QED BY <1>1, <1>3, <1>4, <1>5

\* Paying the third output of a coinbase, if it has one, and taking it back.
PayRest(L, h, cb) == IF 3 \in DOMAIN cb THEN ApplyOutput(L, h, Rest(cb)) ELSE L
TakeRest(L, h, cb) == IF 3 \in DOMAIN cb THEN RemoveOutput(L, h, Rest(cb)) ELSE L

LEMMA PayCoinbase ==
  ASSUME NEW cb, NEW total, IsCoinbase(cb, total), NEW L, NEW h
  PROVE  ApplyTxOutputsToState(L, h, cb) = PayRest(ApplyOutput(ApplyOutput(L, h, cb[1]), h, cb[2]), h, cb)
<1>1. PICK x, y, z : x = cb[1] /\ y = cb[2] /\ z = Rest(cb)
  OBVIOUS
<1>2. cb = <<x, y, z>> \/ cb = <<x, y>>
  BY <1>1 DEF IsCoinbase
<1>3. CASE cb = <<x, y, z>>
  <2>1. 3 \in DOMAIN cb
    BY <1>3
  <2>2. ApplyTxOutputsToState(L, h, cb) = ApplyOutput(ApplyOutput(ApplyOutput(L, h, x), h, y), h, z)
    BY <1>3, PayThree
  <2> QED BY <1>1, <2>1, <2>2 DEF PayRest
<1>4. CASE cb = <<x, y>>
  <2>1. ~(3 \in DOMAIN cb)
    BY <1>4
  <2>2. ApplyTxOutputsToState(L, h, cb) = ApplyOutput(ApplyOutput(L, h, x), h, y)
    BY <1>4, PayTwo
  <2> QED BY <1>1, <2>1, <2>2 DEF PayRest
<1> QED BY <1>2, <1>3, <1>4

LEMMA TakeCoinbase ==
  ASSUME NEW cb, NEW total, IsCoinbase(cb, total), NEW L, NEW h
  PROVE  RemoveTxOutputsFromState(L, h, cb) = TakeRest(RemoveOutput(RemoveOutput(L, h, cb[1]), h, cb[2]), h, cb)
<1>1. PICK x, y, z : x = cb[1] /\ y = cb[2] /\ z = Rest(cb)
  OBVIOUS
<1>2. cb = <<x, y, z>> \/ cb = <<x, y>>
  BY <1>1 DEF IsCoinbase
<1>3. CASE cb = <<x, y, z>>
  <2>1. 3 \in DOMAIN cb
    BY <1>3
  <2>2. RemoveTxOutputsFromState(L, h, cb) = RemoveOutput(RemoveOutput(RemoveOutput(L, h, x), h, y), h, z)
    BY <1>3, TakeThree
  <2> QED BY <1>1, <2>1, <2>2 DEF TakeRest
<1>4. CASE cb = <<x, y>>
  <2>1. ~(3 \in DOMAIN cb)
    BY <1>4
  <2>2. RemoveTxOutputsFromState(L, h, cb) = RemoveOutput(RemoveOutput(L, h, x), h, y)
    BY <1>4, TakeTwo
  <2> QED BY <1>1, <2>1, <2>2 DEF TakeRest
<1> QED BY <1>2, <1>3, <1>4

LEMMA PayRestShape ==
  ASSUME NEW L, Shape(L), NEW h, NEW cb, NEW M, M = PayRest(L, h, cb), M.ok
  PROVE  L.ok /\ Shape(M) /\ M.nonce = L.nonce /\ M.delegate = L.delegate
<1>1. CASE 3 \in DOMAIN cb
  <2>1. PICK z : z = Rest(cb)
    OBVIOUS
  <2>2. M = ApplyOutput(L, h, z)
    BY <1>1, <2>1 DEF PayRest
  <2>3. L.ok /\ Pays(L, z, M)
    BY <2>2, ApplyOutputPays
  <2> QED BY <2>3 DEF Pays
<1>2. CASE ~(3 \in DOMAIN cb)
  BY <1>2 DEF PayRest
<1> QED BY <1>1, <1>2

LEMMA PayRestPoints ==
  ASSUME NEW L, Shape(L), L.bal \in [Addresses -> Nat], L.incoming \in [Addresses -> Nat],
         NEW h, NEW cb, NEW total, IsCoinbase(cb, total), NEW M, M = PayRest(L, h, cb), M.ok
  PROVE  /\ M.bal \in [Addresses -> Nat] /\ M.incoming \in [Addresses -> Nat]
         /\ \A a \in Addresses :
              /\ M.bal[a] = L.bal[a] + IF Rest(cb).to = a THEN Rest(cb).amount ELSE 0
              /\ M.incoming[a] = L.incoming[a] + IF 3 \in DOMAIN cb /\ Rest(cb).to = a THEN 1 ELSE 0
         /\ SumFunction(M.bal) = SumFunction(L.bal) + Rest(cb).amount
<1>1. PICK z : z = Rest(cb)
  OBVIOUS
<1>2. z.to \in Addresses /\ z.amount \in Nat
  BY <1>1 DEF IsCoinbase
<1>3. CASE 3 \in DOMAIN cb
  <2>1. M = ApplyOutput(L, h, z)
    BY <1>1, <1>3 DEF PayRest
  <2>2. Pays(L, z, M)
    BY <2>1, ApplyOutputPays
  <2> QED BY <1>1, <1>2, <1>3, <2>2, PayPoints
<1>4. CASE ~(3 \in DOMAIN cb)
  <2>1. M = L
    BY <1>4 DEF PayRest
  <2>2. z.amount = 0
    BY <1>1, <1>4 DEF Rest
  <2>3. SumFunction(L.bal) \in Int
    <3>1. PICK f, a, g : f = L.bal /\ a = Gov /\ g = [f EXCEPT ![a] = @ + 0]
      OBVIOUS
    <3>2. f \in [Addresses -> Int] /\ a \in Addresses /\ Adds(f, a, 0, g) /\ 0 \in Int
      BY <3>1 DEF Addresses, Adds
    <3> QED BY <3>1, <3>2, AddressesFinite, SumPoint
  <2>4. \A a \in Addresses : L.bal[a] \in Nat /\ L.incoming[a] \in Nat
    OBVIOUS
  <2> QED BY <1>1, <1>4, <2>1, <2>2, <2>3, <2>4
<1> QED BY <1>3, <1>4

LEMMA TakeRestShape ==
  ASSUME NEW L, Shape(L), NEW h, NEW cb, NEW M, M = TakeRest(L, h, cb), M.ok
  PROVE  L.ok /\ Shape(M) /\ M.nonce = L.nonce /\ M.delegate = L.delegate
<1>1. CASE 3 \in DOMAIN cb
  <2>1. PICK z : z = Rest(cb)
    OBVIOUS
  <2>2. M = RemoveOutput(L, h, z)
    BY <1>1, <2>1 DEF TakeRest
  <2>3. L.ok /\ TakesBack(L, z, M)
    BY <2>2, RemoveOutputTakes
  <2> QED BY <2>3 DEF TakesBack
<1>2. CASE ~(3 \in DOMAIN cb)
  BY <1>2 DEF TakeRest
<1> QED BY <1>1, <1>2

LEMMA TakeRestPoints ==
  ASSUME NEW L, Shape(L), L.bal \in [Addresses -> Int], L.incoming \in [Addresses -> Int],
         NEW h, NEW cb, NEW total, IsCoinbase(cb, total), NEW M, M = TakeRest(L, h, cb), M.ok
  PROVE  /\ M.bal \in [Addresses -> Int] /\ M.incoming \in [Addresses -> Int]
         /\ \A a \in Addresses :
              /\ M.bal[a] = L.bal[a] - IF Rest(cb).to = a THEN Rest(cb).amount ELSE 0
              /\ M.incoming[a] = L.incoming[a] - IF 3 \in DOMAIN cb /\ Rest(cb).to = a THEN 1 ELSE 0
<1>1. PICK z : z = Rest(cb)
  OBVIOUS
<1>2. z.to \in Addresses /\ z.amount \in Nat /\ z.amount \in Int
  BY <1>1 DEF IsCoinbase
<1>3. CASE 3 \in DOMAIN cb
  <2>1. M = RemoveOutput(L, h, z)
    BY <1>1, <1>3 DEF TakeRest
  <2>2. TakesBack(L, z, M)
    BY <2>1, RemoveOutputTakes
  <2> QED BY <1>1, <1>2, <1>3, <2>2, TakePoints
<1>4. CASE ~(3 \in DOMAIN cb)
  <2>1. M = L
    BY <1>4 DEF TakeRest
  <2>2. z.amount = 0
    BY <1>1, <1>4 DEF Rest
  <2>3. \A a \in Addresses : L.bal[a] \in Int /\ L.incoming[a] \in Int
    OBVIOUS
  <2> QED BY <1>1, <1>4, <2>1, <2>2, <2>3
<1> QED BY <1>3, <1>4

\* A coinbase lifts every account by what it mints.
LEMMA CoinbasePays ==
  ASSUME NEW L, Accounts(L), NEW h, NEW cb, NEW total \in Nat, IsCoinbase(cb, total),
         NEW M, M = ApplyTxOutputsToState(L, h, cb), M.ok
  PROVE  /\ L.ok /\ Accounts(M) /\ Above(M, L, cb)
         /\ SumFunction(M.bal) = SumFunction(L.bal) + total
<1>1. PICK x, y, z : x = cb[1] /\ y = cb[2] /\ z = Rest(cb)
  OBVIOUS
<1>2. /\ x.to \in Addresses /\ y.to \in Addresses /\ z.to \in Addresses
      /\ x.amount \in Nat /\ y.amount \in Nat /\ z.amount \in Nat
      /\ (x.amount + y.amount) + z.amount = total
  BY <1>1 DEF IsCoinbase
<1>3. PICK A : A = ApplyOutput(L, h, x)
  OBVIOUS
<1>4. PICK B : B = ApplyOutput(A, h, y)
  OBVIOUS
<1>5. M = PayRest(B, h, cb)
  BY <1>1, <1>3, <1>4, PayCoinbase
<1>6. Shape(L) /\ L.bal \in [Addresses -> Nat] /\ L.incoming \in [Addresses -> Nat]
  BY DEF Accounts
<1>7. Shape(A)
  BY <1>3, <1>6, ApplyOutputLike DEF Like
<1>8. Shape(B)
  BY <1>4, <1>7, ApplyOutputLike DEF Like
<1>9. B.ok /\ Shape(M) /\ M.nonce = B.nonce /\ M.delegate = B.delegate
  BY <1>5, <1>8, PayRestShape
<1>10. A.ok /\ Pays(A, y, B)
  BY <1>4, <1>7, <1>9, ApplyOutputPays
<1>11. L.ok /\ Pays(L, x, A)
  BY <1>3, <1>6, <1>10, ApplyOutputPays
<1>12. /\ A.bal \in [Addresses -> Nat] /\ A.incoming \in [Addresses -> Nat]
       /\ \A a \in Addresses : /\ A.bal[a] = L.bal[a] + IF x.to = a THEN x.amount ELSE 0
                               /\ A.incoming[a] = L.incoming[a] + IF x.to = a THEN 1 ELSE 0
       /\ SumFunction(A.bal) = SumFunction(L.bal) + x.amount /\ SumFunction(L.bal) \in Int
  BY <1>2, <1>6, <1>11, PayPoints
<1>13. /\ B.bal \in [Addresses -> Nat] /\ B.incoming \in [Addresses -> Nat]
       /\ \A a \in Addresses : /\ B.bal[a] = A.bal[a] + IF y.to = a THEN y.amount ELSE 0
                               /\ B.incoming[a] = A.incoming[a] + IF y.to = a THEN 1 ELSE 0
       /\ SumFunction(B.bal) = SumFunction(A.bal) + y.amount
  BY <1>2, <1>12, <1>10, PayPoints
<1>14. /\ M.bal \in [Addresses -> Nat] /\ M.incoming \in [Addresses -> Nat]
       /\ \A a \in Addresses : /\ M.bal[a] = B.bal[a] + IF z.to = a THEN z.amount ELSE 0
                               /\ M.incoming[a] = B.incoming[a] + IF 3 \in DOMAIN cb /\ z.to = a THEN 1 ELSE 0
       /\ SumFunction(M.bal) = SumFunction(B.bal) + z.amount
  BY <1>1, <1>5, <1>8, <1>13, PayRestPoints
<1>15. Shape(M) /\ M.nonce = L.nonce /\ M.delegate = L.delegate
  BY <1>9, <1>10, <1>11 DEF Pays
<1>16. SumFunction(M.bal) = SumFunction(L.bal) + total
  BY <1>2, <1>12, <1>13, <1>14
<1>17. ASSUME NEW a \in Addresses
       PROVE  M.bal[a] = L.bal[a] + Minted(cb, a) /\ M.incoming[a] = L.incoming[a] + Payments(cb, a)
  <2>1. PICK p, q, r, i, j, k :
             /\ p = (IF x.to = a THEN x.amount ELSE 0) /\ q = (IF y.to = a THEN y.amount ELSE 0)
             /\ r = (IF z.to = a THEN z.amount ELSE 0) /\ i = (IF x.to = a THEN 1 ELSE 0)
             /\ j = (IF y.to = a THEN 1 ELSE 0) /\ k = (IF 3 \in DOMAIN cb /\ z.to = a THEN 1 ELSE 0)
    OBVIOUS
  <2>2. p \in Nat /\ q \in Nat /\ r \in Nat /\ i \in Nat /\ j \in Nat /\ k \in Nat
    BY <1>2, <2>1
  <2>3. Minted(cb, a) = (p + q) + r /\ Payments(cb, a) = (i + j) + k
    BY <1>1, <2>1 DEF Minted, Payments
  <2>4. M.bal[a] = ((L.bal[a] + p) + q) + r /\ M.incoming[a] = ((L.incoming[a] + i) + j) + k
    BY <1>12, <1>13, <1>14, <2>1
  <2>5. L.bal[a] \in Nat /\ L.incoming[a] \in Nat
    BY <1>6
  <2> QED BY <2>2, <2>3, <2>4, <2>5
<1>18. /\ M.bal = [a \in Addresses |-> L.bal[a] + Minted(cb, a)]
       /\ M.incoming = [a \in Addresses |-> L.incoming[a] + Payments(cb, a)]
  BY <1>14, <1>17
<1>19. Above(M, L, cb)
  BY <1>15, <1>18 DEF Above
<1>20. Accounts(M)
  BY <1>14, <1>15 DEF Accounts
<1> QED BY <1>11, <1>16, <1>19, <1>20

\* Removing the coinbase takes back what it minted.
LEMMA CoinbaseTaken ==
  ASSUME NEW L, Accounts(L), NEW h, NEW cb, NEW total \in Nat, IsCoinbase(cb, total),
         NEW K, Above(K, L, cb), NEW M, M = RemoveTxOutputsFromState(K, h, cb), M.ok
  PROVE  K.ok /\ Shape(M) /\ SameAccounts(M, L)
<1>1. PICK x, y, z : x = cb[1] /\ y = cb[2] /\ z = Rest(cb)
  OBVIOUS
<1>2. /\ x.to \in Addresses /\ y.to \in Addresses /\ z.to \in Addresses
      /\ x.amount \in Int /\ y.amount \in Int /\ z.amount \in Int
  BY <1>1 DEF IsCoinbase
<1>3. PICK A : A = RemoveOutput(K, h, x)
  OBVIOUS
<1>4. PICK B : B = RemoveOutput(A, h, y)
  OBVIOUS
<1>5. M = TakeRest(B, h, cb)
  BY <1>1, <1>3, <1>4, TakeCoinbase
<1>6. /\ Shape(K)
      /\ \A a \in Addresses : /\ L.bal[a] \in Nat /\ L.incoming[a] \in Nat
                              /\ K.bal[a] = L.bal[a] + Minted(cb, a)
                              /\ K.incoming[a] = L.incoming[a] + Payments(cb, a)
  BY DEF Above, Accounts
<1>21. K.bal \in [Addresses -> Int] /\ K.incoming \in [Addresses -> Int]
  <2>1. \A a \in Addresses : L.bal[a] + Minted(cb, a) \in Int /\ L.incoming[a] + Payments(cb, a) \in Int
    BY <1>6, MintedType
  <2> QED BY <2>1 DEF Above
<1>7. Shape(A)
  BY <1>3, <1>6, RemoveOutputLike DEF Like
<1>8. Shape(B)
  BY <1>4, <1>7, RemoveOutputLike DEF Like
<1>9. B.ok /\ Shape(M) /\ M.nonce = B.nonce /\ M.delegate = B.delegate
  BY <1>5, <1>8, TakeRestShape
<1>10. A.ok /\ TakesBack(A, y, B)
  BY <1>4, <1>7, <1>9, RemoveOutputTakes
<1>11. K.ok /\ TakesBack(K, x, A)
  BY <1>3, <1>6, <1>10, RemoveOutputTakes
<1>12. /\ A.bal \in [Addresses -> Int] /\ A.incoming \in [Addresses -> Int]
       /\ \A a \in Addresses : /\ A.bal[a] = K.bal[a] - IF x.to = a THEN x.amount ELSE 0
                               /\ A.incoming[a] = K.incoming[a] - IF x.to = a THEN 1 ELSE 0
  BY <1>2, <1>21, <1>11, TakePoints
<1>13. /\ B.bal \in [Addresses -> Int] /\ B.incoming \in [Addresses -> Int]
       /\ \A a \in Addresses : /\ B.bal[a] = A.bal[a] - IF y.to = a THEN y.amount ELSE 0
                               /\ B.incoming[a] = A.incoming[a] - IF y.to = a THEN 1 ELSE 0
  BY <1>2, <1>12, <1>10, TakePoints
<1>14. /\ M.bal \in [Addresses -> Int] /\ M.incoming \in [Addresses -> Int]
       /\ \A a \in Addresses : /\ M.bal[a] = B.bal[a] - IF z.to = a THEN z.amount ELSE 0
                               /\ M.incoming[a] = B.incoming[a] - IF 3 \in DOMAIN cb /\ z.to = a THEN 1 ELSE 0
  BY <1>1, <1>5, <1>8, <1>13, TakeRestPoints
<1>15. Shape(M) /\ M.nonce = K.nonce /\ M.delegate = K.delegate
  BY <1>9, <1>10, <1>11 DEF TakesBack
<1>17. ASSUME NEW a \in Addresses
       PROVE  M.bal[a] = L.bal[a] /\ M.incoming[a] = L.incoming[a]
  <2>1. PICK p, q, r, i, j, k :
             /\ p = (IF x.to = a THEN x.amount ELSE 0) /\ q = (IF y.to = a THEN y.amount ELSE 0)
             /\ r = (IF z.to = a THEN z.amount ELSE 0) /\ i = (IF x.to = a THEN 1 ELSE 0)
             /\ j = (IF y.to = a THEN 1 ELSE 0) /\ k = (IF 3 \in DOMAIN cb /\ z.to = a THEN 1 ELSE 0)
    OBVIOUS
  <2>2. p \in Int /\ q \in Int /\ r \in Int /\ i \in Int /\ j \in Int /\ k \in Int
    BY <1>2, <2>1
  <2>3. Minted(cb, a) = (p + q) + r /\ Payments(cb, a) = (i + j) + k
    BY <1>1, <2>1 DEF Minted, Payments
  <2>4. M.bal[a] = ((K.bal[a] - p) - q) - r /\ M.incoming[a] = ((K.incoming[a] - i) - j) - k
    BY <1>12, <1>13, <1>14, <2>1
  <2>5. /\ L.bal[a] \in Nat /\ L.incoming[a] \in Nat
        /\ K.bal[a] = L.bal[a] + ((p + q) + r) /\ K.incoming[a] = L.incoming[a] + ((i + j) + k)
    BY <1>6, <2>3
  <2> QED BY <2>2, <2>4, <2>5
<1>18. M.bal = L.bal /\ M.incoming = L.incoming
  BY <1>14, <1>17 DEF Accounts
<1> QED BY <1>11, <1>15, <1>18 DEF Above, SameAccounts

\* A transaction is undone while the coinbase of its block is still paid.  The error
\* that RemoveTxFromState does not look at cannot occur: the recipient still has
\* what it got.
LEMMA RemoveTxMoves ==
  ASSUME NEW L, Accounts(L), NEW tx \in Transaction, NEW M, Accounts(M), Moves(L, tx, M),
         NEW cb, NEW total \in Nat, IsCoinbase(cb, total), NEW K, Above(K, M, cb),
         NEW h, NEW top, NEW N, N = RemoveTxFromState(K, h, tx, top), N.ok
  PROVE  K.ok /\ Above(N, L, cb)
<1>1. PICK unpaid : unpaid = RemoveTxOutputsFromState(K, h, Outputs(tx))
  OBVIOUS
<1>2. PICK back : back = [unpaid EXCEPT !.ok = K.ok, !.bal[Input(tx).from] = @ + Input(tx).amount]
  OBVIOUS
<1>3. PICK J : J = DelegateUndo(back, tx, top)
  OBVIOUS
<1>4. N = IF K.ok /\ UntxValid(back, tx, top)
          THEN [J EXCEPT !.nonce[tx.signer] = @ - 1] ELSE Refuse(K)
  BY <1>1, <1>2, <1>3 DEF RemoveTxFromState
<1>5. Shape(K)
  BY DEF Above
<1>6. K.ok /\ N = [J EXCEPT !.nonce[tx.signer] = @ - 1]
  BY <1>4, <1>5, RefuseLike
<1>7. PICK from, amt : from = Input(tx).from /\ amt = Input(tx).amount
  OBVIOUS
<1>8. /\ tx.signer \in Users /\ Placed(tx)
      /\ from \in Addresses /\ amt \in Nat
  BY <1>7, TxParts DEF Moves
<1>9. ASSUME NEW a \in Addresses
      PROVE  /\ L.bal[a] \in Nat /\ L.incoming[a] \in Nat
             /\ K.bal[a] = ((L.bal[a] - Sends(tx, a)) + Gets(tx, a)) + Minted(cb, a)
             /\ K.incoming[a] = (L.incoming[a] + Notices(tx, a)) + Payments(cb, a)
             /\ Minted(cb, a) \in Nat /\ Payments(cb, a) \in Nat
             /\ Sends(tx, a) = IF a = from THEN amt ELSE 0
             /\ K.bal[a] \in Nat /\ K.incoming[a] \in Nat
  <2>1. L.bal[a] \in Nat /\ L.incoming[a] \in Nat /\ M.bal[a] \in Nat /\ M.incoming[a] \in Nat
    BY DEF Accounts
  <2>2. K.bal[a] = M.bal[a] + Minted(cb, a) /\ K.incoming[a] = M.incoming[a] + Payments(cb, a)
    BY DEF Above
  <2>3. /\ M.bal[a] = (L.bal[a] - Sends(tx, a)) + Gets(tx, a)
        /\ M.incoming[a] = L.incoming[a] + Notices(tx, a)
    BY DEF Moves
  <2>4. Minted(cb, a) \in Nat /\ Payments(cb, a) \in Nat
    BY MintedType
  <2>5. Sends(tx, a) = IF a = from THEN amt ELSE 0
    BY <1>7 DEF Sends
  <2> QED BY <2>1, <2>2, <2>3, <2>4, <2>5
<1>10. K.bal \in [Addresses -> Int] /\ K.incoming \in [Addresses -> Int]
  <2>1. \A a \in Addresses : K.bal[a] \in Int /\ K.incoming[a] \in Int
    BY <1>9
  <2>2. K.bal = [a \in Addresses |-> K.bal[a]] /\ K.incoming = [a \in Addresses |-> K.incoming[a]]
    BY DEF Above
  <2> QED BY <2>1, <2>2
<1>11. /\ Shape(unpaid) /\ unpaid.nonce = K.nonce /\ unpaid.delegate = K.delegate
       /\ unpaid.bal \in [Addresses -> Int] /\ unpaid.incoming \in [Addresses -> Int]
       /\ \A a \in Addresses : /\ unpaid.bal[a] = K.bal[a] - Gets(tx, a)
                               /\ unpaid.incoming[a] = K.incoming[a] - Notices(tx, a)
                               /\ Gets(tx, a) \in Nat /\ Notices(tx, a) \in Nat
  <2>1. CASE tx.kind = "set"
    <3>1. Outputs(tx) = <<>>
      BY <1>8, <2>1, TxParts
    <3>2. unpaid = K
      BY <1>1, <3>1, TakeNone
    <3>3. \A a \in Addresses : Gets(tx, a) = 0 /\ Notices(tx, a) = 0
      BY <2>1 DEF Gets, Notices
    <3>4. \A a \in Addresses : K.bal[a] = K.bal[a] - Gets(tx, a) /\ K.incoming[a] = K.incoming[a] - Notices(tx, a)
      BY <1>9, <3>3
    <3> QED BY <1>5, <1>10, <3>2, <3>3, <3>4
  <2>2. CASE tx.kind # "set"
    <3>1. PICK o : /\ Outputs(tx) = <<o>>
                   /\ o.to \in Addresses /\ o.amount \in Nat /\ o.pos = 0
      BY <1>8, <2>2, TxParts
    <3>2. unpaid = RemoveOutput(K, h, o)
      BY <1>1, <3>1, TakeOne
    <3>3. Outputs(tx)[1] = o
      BY <3>1
    <3>4. \A a \in Addresses : /\ Gets(tx, a) = (IF o.to = a THEN o.amount ELSE 0)
                               /\ Notices(tx, a) = (IF o.to = a THEN 1 ELSE 0)
      BY <2>2, <3>3 DEF Gets, Notices
    <3>5. L.bal[from] >= amt
      BY <1>7 DEF Moves
    <3>6. ~(K.bal[o.to] < o.amount) /\ K.incoming[o.to] # 0
      <4>1. PICK a \in Addresses : a = o.to
        BY <3>1
      <4>2. Gets(tx, a) = o.amount /\ Notices(tx, a) = 1
        BY <3>4, <4>1
      <4>3. L.bal[a] - Sends(tx, a) >= 0 /\ L.bal[a] - Sends(tx, a) \in Int
        BY <1>8, <1>9, <3>5
      <4>4. K.bal[a] >= o.amount /\ K.incoming[a] >= 1
        BY <1>9, <3>1, <4>2, <4>3
      <4> QED BY <1>9, <3>1, <4>1, <4>4
    <3>7. unpaid.ok
      BY <1>5, <1>6, <3>1, <3>2, <3>6, RemoveOutputTakes
    <3>8. TakesBack(K, o, unpaid)
      BY <1>5, <3>2, <3>7, RemoveOutputTakes
    <3>9. o.amount \in Int
      BY <3>1
    <3>10. /\ unpaid.bal \in [Addresses -> Int] /\ unpaid.incoming \in [Addresses -> Int]
           /\ \A a \in Addresses : /\ unpaid.bal[a] = K.bal[a] - IF o.to = a THEN o.amount ELSE 0
                                   /\ unpaid.incoming[a] = K.incoming[a] - IF o.to = a THEN 1 ELSE 0
      BY <1>10, <3>1, <3>8, <3>9, TakePoints
    <3>11. \A a \in Addresses : Gets(tx, a) \in Nat /\ Notices(tx, a) \in Nat
      BY <3>1, <3>4
    <3> QED BY <3>4, <3>8, <3>10, <3>11 DEF TakesBack
  <2> QED BY <2>1, <2>2
<1>12. PICK v, w : v = unpaid.bal /\ w = back.bal
  OBVIOUS
<1>13. /\ w = [v EXCEPT ![from] = @ + amt] /\ v \in [Addresses -> Int]
       /\ Shape(back) /\ back.incoming = unpaid.incoming /\ back.nonce = K.nonce /\ back.delegate = K.delegate
  BY <1>2, <1>7, <1>11, <1>12 DEF Shape
<1>14. w \in [Addresses -> Int] /\ \A a \in Addresses : w[a] = v[a] + IF a = from THEN amt ELSE 0
  BY <1>8, <1>13
<1>15. /\ Shape(J) /\ J.bal = back.bal /\ J.incoming = back.incoming /\ J.nonce = K.nonce
       /\ J.delegate = IF tx.kind = "set" THEN [K.delegate EXCEPT ![tx.signer] = tx.prev] ELSE K.delegate
  <2>1. Shape(back)
    BY <1>13
  <2>2. /\ Shape(J) /\ J.bal = back.bal /\ J.incoming = back.incoming /\ J.nonce = back.nonce
        /\ J.delegate = IF tx.kind = "set" THEN [back.delegate EXCEPT ![tx.signer] = tx.prev] ELSE back.delegate
    BY <1>3, <2>1, UndoAccounts
  <2> QED BY <1>13, <2>2
<1>16. /\ Shape(N) /\ N.bal = w /\ N.incoming = unpaid.incoming /\ N.delegate = J.delegate
       /\ N.nonce = [K.nonce EXCEPT ![tx.signer] = @ - 1]
  BY <1>6, <1>12, <1>13, <1>15 DEF Shape
<1>17. ASSUME NEW a \in Addresses
       PROVE  w[a] = L.bal[a] + Minted(cb, a) /\ unpaid.incoming[a] = L.incoming[a] + Payments(cb, a)
  <2>1. PICK s : s = IF a = from THEN amt ELSE 0
    OBVIOUS
  <2>2. s \in Nat /\ Sends(tx, a) = s
    BY <1>8, <1>9, <2>1
  <2>3. w[a] = v[a] + s /\ v[a] = K.bal[a] - Gets(tx, a) /\ unpaid.incoming[a] = K.incoming[a] - Notices(tx, a)
        /\ Gets(tx, a) \in Nat /\ Notices(tx, a) \in Nat
    BY <1>11, <1>12, <1>14, <2>1
  <2>4. /\ L.bal[a] \in Nat /\ L.incoming[a] \in Nat
        /\ K.bal[a] = ((L.bal[a] - s) + Gets(tx, a)) + Minted(cb, a)
        /\ K.incoming[a] = (L.incoming[a] + Notices(tx, a)) + Payments(cb, a)
        /\ Minted(cb, a) \in Nat /\ Payments(cb, a) \in Nat
    BY <1>9, <2>2
  <2> QED BY <2>2, <2>3, <2>4
<1>18. N.bal = [a \in Addresses |-> L.bal[a] + Minted(cb, a)]
  BY <1>14, <1>16, <1>17
<1>19. N.incoming = [a \in Addresses |-> L.incoming[a] + Payments(cb, a)]
  BY <1>11, <1>16, <1>17
<1>20. N.nonce = L.nonce
  <2>1. PICK m, n : m = L.nonce /\ n = N.nonce
    OBVIOUS
  <2>2. m \in [Users -> Nat] /\ K.nonce = [m EXCEPT ![tx.signer] = @ + 1]
    BY <2>1 DEF Accounts, Moves, Counted, Above
  <2>3. n = [[m EXCEPT ![tx.signer] = @ + 1] EXCEPT ![tx.signer] = @ - 1]
    BY <1>16, <2>1, <2>2
  <2>4. \A u \in Users : n[u] = m[u]
    BY <1>8, <2>2, <2>3
  <2>5. n = m
    BY <2>2, <2>3, <2>4
  <2> QED BY <2>1, <2>5
<1>21. N.delegate = L.delegate
  <2>1. CASE tx.kind = "set"
    <3>1. PICK m, n : m = L.delegate /\ n = N.delegate
      OBVIOUS
    <3>2. /\ m \in [Users -> DelegateIds \cup {0}] /\ tx.prev = m[tx.signer]
          /\ K.delegate = [m EXCEPT ![tx.signer] = tx.delegate]
      BY <2>1, <3>1 DEF Accounts, Moves, Above
    <3>3. n = [[m EXCEPT ![tx.signer] = tx.delegate] EXCEPT ![tx.signer] = m[tx.signer]]
      BY <1>15, <1>16, <2>1, <3>1, <3>2
    <3>4. n = m
      BY <1>8, <3>2, <3>3
    <3> QED BY <3>1, <3>4
  <2>2. CASE tx.kind # "set"
    BY <1>15, <1>16, <2>2 DEF Moves, Above
  <2> QED BY <2>1, <2>2
<1> QED BY <1>6, <1>16, <1>18, <1>19, <1>20, <1>21 DEF Above

-----------------------------------------------------------------------------
(* Accounts of a block                                                     *)

\* The fees of a list of transactions.
Fees(t) == FoldLeft(LAMBDA sum, tx : sum + tx.fee, 0, t)

LEMMA FeeStates ==
  ASSUME NEW s, NEW n \in Nat, DOMAIN s = 1 .. n
  PROVE  \E g : Forward(g, "fees", 0, 0, 0, s, n, Fees(s))
<1> DEFINE Is(f) == f = [t \in SUBSET DOMAIN s |->
                           IF t = {} THEN 0 ELSE f[t \ {Max(t)}] + s[Max(t)].fee]
<1>1. \A f : Is(f) <=> Folding(f, "fees", 0, 0, 0, s)
  BY DEF Folding, Step, Pick
<1>2. PICK f : f = CHOOSE e : Is(e)
  OBVIOUS
<1>3. Fees(s) = f[DOMAIN s]
  BY <1>2 DEF Fees, FoldLeft, MapThenFoldSet
<1> HIDE DEF Is
<1>4. Is(f)
  BY <1>1, <1>2, FoldingExists
<1>5. "fees" # "remove"
  OBVIOUS
<1> QED BY <1>1, <1>3, <1>4, <1>5, LeftStates

\* g is a list of accounts that the first n transactions of t lead through.
Through(g, t, n) ==
  /\ \A k \in 0 .. n : Accounts(g[k])
  /\ \A k \in 1 .. n : Moves(g[k - 1], t[k], g[k])

LEMMA SumType ==
  ASSUME NEW L, Accounts(L)
  PROVE  SumFunction(L.bal) \in Int
<1>1. PICK f, a, g : f = L.bal /\ a = Gov /\ g = [f EXCEPT ![a] = @ + 0]
  OBVIOUS
<1>2. f \in [Addresses -> Int] /\ a \in Addresses /\ Adds(f, a, 0, g) /\ 0 \in Int
  BY <1>1 DEF Accounts, Addresses, Adds
<1>3. SumFunction(f) \in Int
  BY <1>2, AddressesFinite, SumPoint
<1> QED BY <1>1, <1>3

\* g is the list of ledgers that applying the first n transactions of t leads through.
Applying(g, h, t, n, top) ==
  \A k \in 1 .. n : g[k] = ApplyTxToState(g[k - 1], h, t[k], top) /\ g[k].ok

\* Applying the transactions of a block takes their fees out of circulation.
LEMMA AfterTxsMoves ==
  ASSUME NEW L, Accounts(L), NEW h, NEW top, NEW n \in Nat, NEW t \in [1 .. n -> Transaction],
         NEW M, M = AfterTxs(L, h, t, top), M.ok
  PROVE  /\ Fees(t) \in Nat /\ Accounts(M)
         /\ SumFunction(M.bal) = SumFunction(L.bal) - Fees(t)
         /\ \E g : g[0] = L /\ g[n] = M /\ Through(g, t, n) /\ Applying(g, h, t, n, top)
<1>1. PICK g : Forward(g, "apply", h, top, L, t, n, M)
  BY ApplyStates
<1>2. PICK f : Forward(f, "fees", 0, 0, 0, t, n, Fees(t))
  BY FeeStates
<1>3. /\ g[0] = L /\ g[n] = M /\ f[0] = 0 /\ f[n] = Fees(t)
      /\ \A k \in 1 .. n : /\ g[k] = ApplyTxToState(g[k - 1], h, t[k], top)
                           /\ f[k] = f[k - 1] + t[k].fee
  BY <1>1, <1>2 DEF Forward, Step
<1> DEFINE S == {k \in Nat : k <= n => Numbered(g[k])}
<1>4. 0 \in S
  BY <1>3 DEF Accounts, Numbered
<1>5. ASSUME NEW k \in Nat, k \in S PROVE k + 1 \in S
  <2>1. CASE k + 1 <= n
    <3>1. k + 1 \in 1 .. n /\ (k + 1) - 1 = k /\ Numbered(g[k])
      BY <1>5, <2>1
    <3>2. g[k + 1] = ApplyTxToState(g[k], h, t[k + 1], top) /\ t[k + 1] \in Transaction
      BY <1>3, <3>1
    <3> QED BY <3>1, <3>2, ApplyTxCounts
  <2>2. CASE ~(k + 1 <= n)
    BY <2>2
  <2> QED BY <2>1, <2>2
<1>6. Nat \subseteq S
  <2> HIDE DEF S
  <2> QED BY <1>4, <1>5, NatSetInduction
<1>7. \A k \in 0 .. n : Numbered(g[k])
  BY <1>6
<1> DEFINE Ok == {k \in 0 .. n : g[k].ok}
<1>8. n \in Ok
  BY <1>3
<1>9. ASSUME NEW k \in 1 .. n, k \in Ok PROVE k - 1 \in Ok
  <2>1. Numbered(g[k - 1]) /\ t[k] \in Transaction /\ g[k].ok /\ k - 1 \in 0 .. n
    BY <1>7, <1>9
  <2> QED BY <1>3, <2>1, ApplyTxCounts
<1>10. 0 .. n \subseteq Ok
  <2> HIDE DEF Ok
  <2> QED BY <1>8, <1>9, BackInduction
<1> DEFINE Good(k) == /\ Accounts(g[k]) /\ f[k] \in Nat
                      /\ SumFunction(g[k].bal) = SumFunction(L.bal) - f[k]
           R == {k \in Nat : k <= n => Good(k)}
<1>11. SumFunction(L.bal) \in Int
  BY SumType
<1>12. 0 \in R
  BY <1>3, <1>11
<1>13. ASSUME NEW k \in Nat, k + 1 <= n, Good(k)
       PROVE  Good(k + 1) /\ Moves(g[k], t[k + 1], g[k + 1])
  <2>1. k + 1 \in 1 .. n /\ (k + 1) - 1 = k /\ k + 1 \in 0 .. n
    BY <1>13
  <2>2. g[k + 1] = ApplyTxToState(g[k], h, t[k + 1], top) /\ f[k + 1] = f[k] + t[k + 1].fee /\ g[k + 1].ok
    BY <1>3, <1>10, <2>1
  <2>3. t[k + 1] \in Transaction
    BY <2>1
  <2>4. /\ Accounts(g[k + 1]) /\ Moves(g[k], t[k + 1], g[k + 1])
        /\ SumFunction(g[k + 1].bal) = SumFunction(g[k].bal) - t[k + 1].fee
    BY <1>13, <2>2, <2>3, ApplyTxMoves
  <2>5. t[k + 1].fee \in Nat
    BY <2>3 DEF Transaction
  <2>6. f[k + 1] \in Nat /\ SumFunction(g[k + 1].bal) = SumFunction(L.bal) - f[k + 1]
    BY <1>11, <1>13, <2>2, <2>4, <2>5
  <2> QED BY <2>4, <2>6
<1> HIDE DEF Good
<1>14. ASSUME NEW k \in Nat, k \in R PROVE k + 1 \in R
  <2>1. k + 1 <= n => k <= n
    OBVIOUS
  <2> QED BY <1>13, <1>14, <2>1
<1>15. Nat \subseteq R
  <2> HIDE DEF R
  <2> QED BY <1>12, <1>14, NatSetInduction
<1>16. \A k \in 0 .. n : Good(k)
  BY <1>15
<1>17. ASSUME NEW k \in 1 .. n PROVE Moves(g[k - 1], t[k], g[k])
  <2>1. PICK j \in Nat : j = k - 1 /\ j + 1 = k /\ j + 1 <= n /\ j \in 0 .. n
    OBVIOUS
  <2> QED BY <1>13, <1>16, <2>1
<1>18. Through(g, t, n)
  BY <1>16, <1>17 DEF Through, Good
<1>19. Good(n)
  BY <1>16
<1>20. Applying(g, h, t, n, top)
  <2>1. \A k \in 1 .. n : g[k].ok
    BY <1>10
  <2> QED BY <1>3, <2>1 DEF Applying
<1> QED BY <1>3, <1>18, <1>19, <1>20 DEF Good

\* A signed block names a delegate that exists.
Signed(b) == b.signed => b.delegate \in DelegateIds

\* Block b at height h leads from the accounts of L to those of M.
Books(L, b, h, M) ==
  \E g, total, cb :
    /\ SameAccounts(g[0], L)
    /\ Through(g, b.txs, Len(b.txs))
    /\ cb = CoinbaseTransaction(b, TotalReward(b, h)) /\ total \in Nat /\ IsCoinbase(cb, total)
    /\ Above(M, g[Len(b.txs)], cb)

\* What a block brings into circulation is the reward of its height.
LEMMA ApplyBlockBooks ==
  ASSUME NEW L, Accounts(L), NEW h \in Nat, NEW b \in AnyBlock, Signed(b), NEW top, NEW M,
         M = ApplyBlockToState(L, h, b, top), M.ok
  PROVE  /\ Accounts(M) /\ Books(L, b, h, M)
         /\ SumFunction(M.bal) = SumFunction(L.bal) + Reward(h)
<1>1. PICK t \in Seq(Transaction) : t = b.txs
  BY DEF AnyBlock
<1>2. PICK n : n = Len(t)
  OBVIOUS
<1>3. n \in Nat /\ t \in [1 .. n -> Transaction]
  BY <1>2
<1>4. PICK K : K = AfterTxs(L, h, t, top)
  OBVIOUS
<1>5. PICK cb, total : total = TotalReward(b, h) /\ cb = CoinbaseTransaction(b, total)
  OBVIOUS
<1>6. M = IF b.next \in NextStakers(L) THEN ApplyTxOutputsToState(K, h, cb) ELSE Refuse(L)
  BY <1>1, <1>4, <1>5 DEF ApplyBlockToState, AfterTxs
<1>7. Refuse(L).ok = FALSE
  BY RefuseLike DEF Accounts
<1>8. M = ApplyTxOutputsToState(K, h, cb)
  BY <1>6, <1>7
<1>9. PICK m \in Nat : DOMAIN cb = 1 .. m
  BY <1>5, CoinbaseList
<1>10. Numbered(L)
  BY DEF Accounts, Numbered
<1>11. Numbered(K)
  BY <1>3, <1>4, <1>10, AfterTxsCounts
<1>12. K.ok
  BY <1>8, <1>9, <1>11, PaidLike DEF Numbered
<1>13. /\ Fees(t) \in Nat /\ Accounts(K)
       /\ SumFunction(K.bal) = SumFunction(L.bal) - Fees(t)
       /\ \E g : g[0] = L /\ g[n] = K /\ Through(g, t, n)
  BY <1>3, <1>4, <1>12, AfterTxsMoves
<1>14. total = Reward(h) + Fees(t)
  BY <1>1, <1>5 DEF TotalReward, Fees
<1>15. Reward(h) \in Nat
  BY RewardType
<1>16. total \in Nat
  BY <1>13, <1>14, <1>15
<1>17. IsCoinbase(cb, total)
  BY <1>5, <1>16, CoinbaseAdds DEF Signed
<1>18. /\ Accounts(M) /\ Above(M, K, cb)
       /\ SumFunction(M.bal) = SumFunction(K.bal) + total
  BY <1>8, <1>13, <1>16, <1>17, CoinbasePays
<1>19. SumFunction(L.bal) \in Int
  BY SumType
<1>20. SumFunction(M.bal) = SumFunction(L.bal) + Reward(h)
  BY <1>13, <1>14, <1>15, <1>18, <1>19
<1>21. PICK g : g[0] = L /\ g[n] = K /\ Through(g, t, n)
  BY <1>13
<1>22. SameAccounts(g[0], L)
  BY <1>21 DEF SameAccounts
<1>23. Books(L, b, h, M)
  BY <1>1, <1>2, <1>5, <1>16, <1>17, <1>18, <1>21, <1>22 DEF Books
<1> QED BY <1>18, <1>20, <1>23

\* Undoing a block that led from the accounts of L leads back to them.  The ledger it
\* is undone from may differ from the one the block made in funds and stakes.
LEMMA RemoveBlockBooks ==
  ASSUME NEW L, NEW b \in AnyBlock, NEW h, NEW N, Books(L, b, h, N),
         NEW K, Shape(K), SameAccounts(K, N), NEW top, NEW M,
         M = RemoveBlockFromState(K, h, b, top), M.ok
  PROVE  Shape(M) /\ SameAccounts(M, L)
<1>1. PICK t \in Seq(Transaction) : t = b.txs
  BY DEF AnyBlock
<1>2. PICK n : n = Len(t)
  OBVIOUS
<1>3. n \in Nat /\ t \in [1 .. n -> Transaction]
  BY <1>2
<1>4. PICK g, total, cb :
        /\ SameAccounts(g[0], L) /\ Through(g, t, n)
        /\ cb = CoinbaseTransaction(b, TotalReward(b, h)) /\ total \in Nat /\ IsCoinbase(cb, total)
        /\ Above(N, g[n], cb)
  BY <1>1, <1>2 DEF Books
<1>5. PICK J : J = WithoutTxs(K, h, t, top)
  OBVIOUS
<1>6. M = RemoveTxOutputsFromState(J, h, cb)
  BY <1>1, <1>4, <1>5 DEF RemoveBlockFromState, WithoutTxs
<1>7. Above(K, g[n], cb)
  BY <1>4 DEF Above, SameAccounts
<1>8. PICK m \in Nat : DOMAIN cb = 1 .. m
  BY <1>4, CoinbaseList
<1>9. PICK f : Backward(f, "remove", h, top, K, t, n, J)
  BY <1>3, <1>5, RemoveStates
<1>10. /\ f[n] = K /\ f[0] = J
       /\ \A k \in 1 .. n : f[k - 1] = RemoveTxFromState(f[k], h, t[k], top)
  BY <1>9 DEF Backward, Step
<1>11. Numbered(K)
  <2>1. Accounts(g[n]) /\ K.nonce = g[n].nonce
    BY <1>3, <1>4, <1>7 DEF Through, Above
  <2> QED BY <2>1 DEF Accounts, Numbered
<1>12. \A k \in 0 .. n : Numbered(f[k])
  <2> DEFINE S == {k \in 0 .. n : Numbered(f[k])}
  <2>1. n \in S
    BY <1>3, <1>10, <1>11
  <2>2. ASSUME NEW k \in 1 .. n, k \in S PROVE k - 1 \in S
    <3>1. Numbered(f[k]) /\ t[k] \in Transaction /\ k - 1 \in 0 .. n
      BY <1>3, <2>2
    <3> QED BY <1>10, <3>1, RemoveTxCounts
  <2>3. 0 .. n \subseteq S
    <3> HIDE DEF S
    <3> QED BY <1>3, <2>1, <2>2, BackInduction
  <2> QED BY <2>3
<1>13. J.ok
  <2>1. Shape(J)
    BY <1>3, <1>10, <1>12 DEF Numbered
  <2> QED BY <1>6, <1>8, <2>1, TakenLike
<1>14. \A k \in 0 .. n : f[k].ok
  <2> DEFINE S == {k \in Nat : k <= n => f[k].ok}
  <2>1. 0 \in S
    BY <1>10, <1>13
  <2>2. ASSUME NEW k \in Nat, k \in S PROVE k + 1 \in S
    <3>1. CASE k + 1 <= n
      <4>1. k + 1 \in 1 .. n /\ (k + 1) - 1 = k /\ f[k].ok /\ k + 1 \in 0 .. n
        BY <1>3, <2>2, <3>1
      <4>2. f[k] = RemoveTxFromState(f[k + 1], h, t[k + 1], top) /\ t[k + 1] \in Transaction /\ Numbered(f[k + 1])
        BY <1>3, <1>10, <1>12, <4>1
      <4> QED BY <4>1, <4>2, RemoveTxCounts
    <3>2. CASE ~(k + 1 <= n)
      BY <3>2
    <3> QED BY <3>1, <3>2
  <2>3. Nat \subseteq S
    <3> HIDE DEF S
    <3> QED BY <2>1, <2>2, NatSetInduction
  <2> QED BY <2>3
<1>15. Above(J, g[0], cb)
  <2> DEFINE S == {k \in 0 .. n : Above(f[k], g[k], cb)}
  <2>1. n \in S
    BY <1>3, <1>7, <1>10
  <2>2. ASSUME NEW k \in 1 .. n, k \in S PROVE k - 1 \in S
    <3>1. Above(f[k], g[k], cb) /\ t[k] \in Transaction /\ k - 1 \in 0 .. n /\ k \in 0 .. n
      BY <1>3, <2>2
    <3>2. f[k - 1] = RemoveTxFromState(f[k], h, t[k], top) /\ f[k - 1].ok
      BY <1>10, <1>14, <3>1
    <3>3. Accounts(g[k - 1]) /\ Accounts(g[k]) /\ Moves(g[k - 1], t[k], g[k])
      BY <1>4, <3>1 DEF Through
    <3>4. Above(f[k - 1], g[k - 1], cb)
      BY <1>4, <3>1, <3>2, <3>3, RemoveTxMoves
    <3> QED BY <3>1, <3>4
  <2>3. 0 .. n \subseteq S
    <3> HIDE DEF S
    <3> QED BY <1>3, <2>1, <2>2, BackInduction
  <2> QED BY <1>3, <1>10, <2>3
<1>16. Accounts(g[0])
  BY <1>3, <1>4 DEF Through
<1>17. Shape(M) /\ SameAccounts(M, g[0])
  BY <1>4, <1>6, <1>15, <1>16, CoinbaseTaken
<1> QED BY <1>4, <1>17 DEF SameAccounts

-----------------------------------------------------------------------------
(* Accounts of a chain                                                     *)

\* The accounts after every block of chain c, with A[0] those of the genesis block:
\* block by block the balances add up to the emission schedule.
Booking(A, c) ==
  /\ \A k \in 0 .. Len(c) : Accounts(A[k]) /\ SumFunction(A[k].bal) = GetSupplyAtHeight(k)
  /\ \A k \in 1 .. Len(c) : Books(A[k - 1], c[k], k, A[k])

\* Ledger L has the accounts that the blocks of c lead to.
Booked(L, c) == Shape(L) /\ \E A : Booking(A, c) /\ SameAccounts(L, A[Len(c)])

LEMMA BookedAccounts ==
  ASSUME NEW L, NEW c \in Seq(AnyBlock), Booked(L, c)
  PROVE  Accounts(L) /\ SumFunction(L.bal) = GetSupplyAtHeight(Len(c))
<1>1. PICK A : Booking(A, c) /\ SameAccounts(L, A[Len(c)])
  BY DEF Booked
<1>2. Len(c) \in 0 .. Len(c)
  OBVIOUS
<1>3. Accounts(A[Len(c)]) /\ SumFunction(A[Len(c)].bal) = GetSupplyAtHeight(Len(c))
  BY <1>1, <1>2 DEF Booking
<1> QED BY <1>1, <1>3 DEF Booked, Accounts, SameAccounts

LEMMA BookedGrows ==
  ASSUME NEW L, NEW c \in Seq(AnyBlock), Booked(L, c), NEW b \in AnyBlock, Signed(b), NEW top, NEW M,
         M = ApplyBlockToState(L, Len(c) + 1, b, top), M.ok
  PROVE  Booked(M, Append(c, b))
<1>1. PICK n \in Nat : n = Len(c)
  OBVIOUS
<1>2. PICK A : Booking(A, c) /\ SameAccounts(L, A[n])
  BY <1>1 DEF Booked
<1>3. Accounts(L) /\ SumFunction(L.bal) = GetSupplyAtHeight(n)
  BY <1>1, BookedAccounts
<1>4. n + 1 \in Nat /\ M = ApplyBlockToState(L, n + 1, b, top)
  BY <1>1
<1>5. Accounts(M) /\ Books(L, b, n + 1, M) /\ SumFunction(M.bal) = SumFunction(L.bal) + Reward(n + 1)
  BY <1>3, <1>4, ApplyBlockBooks
<1>6. SumFunction(M.bal) = GetSupplyAtHeight(n + 1)
  BY <1>3, <1>5, SupplyGrows
<1>7. Books(A[n], b, n + 1, M)
  <2>1. PICK g, total, cb :
          /\ SameAccounts(g[0], L) /\ Through(g, b.txs, Len(b.txs))
          /\ cb = CoinbaseTransaction(b, TotalReward(b, n + 1)) /\ total \in Nat /\ IsCoinbase(cb, total)
          /\ Above(M, g[Len(b.txs)], cb)
    BY <1>5 DEF Books
  <2>2. SameAccounts(g[0], A[n])
    BY <1>2, <2>1 DEF SameAccounts
  <2> QED BY <2>1, <2>2 DEF Books
<1>8. PICK e : e = Append(c, b)
  OBVIOUS
<1>9. Len(e) = n + 1 /\ e[n + 1] = b /\ \A k \in 1 .. n : e[k] = c[k]
  BY <1>1, <1>8
<1> DEFINE B == [k \in 0 .. n + 1 |-> IF k = n + 1 THEN M ELSE A[k]]
<1>10. B[n + 1] = M /\ \A k \in 0 .. n : B[k] = A[k]
  OBVIOUS
<1> HIDE DEF B
<1>11. ASSUME NEW k \in 0 .. n + 1
       PROVE  Accounts(B[k]) /\ SumFunction(B[k].bal) = GetSupplyAtHeight(k)
  <2>1. CASE k = n + 1
    BY <1>5, <1>6, <1>10, <2>1
  <2>2. CASE k # n + 1
    <3>1. k \in 0 .. n
      BY <2>2
    <3> QED BY <1>1, <1>2, <1>10, <3>1 DEF Booking
  <2> QED BY <2>1, <2>2
<1>12. ASSUME NEW k \in 1 .. n + 1
       PROVE  Books(B[k - 1], e[k], k, B[k])
  <2>1. CASE k = n + 1
    <3>1. k - 1 = n /\ n \in 0 .. n
      BY <2>1
    <3> QED BY <1>7, <1>9, <1>10, <2>1, <3>1
  <2>2. CASE k # n + 1
    <3>1. k \in 1 .. n /\ k \in 0 .. n /\ k - 1 \in 0 .. n
      BY <2>2
    <3>2. Books(A[k - 1], c[k], k, A[k])
      BY <1>1, <1>2, <3>1 DEF Booking
    <3> QED BY <1>9, <1>10, <3>1, <3>2
  <2> QED BY <2>1, <2>2
<1>13. Booking(B, e)
  BY <1>9, <1>11, <1>12 DEF Booking
<1>14. SameAccounts(M, B[Len(e)]) /\ Shape(M)
  BY <1>5, <1>9, <1>10 DEF SameAccounts, Accounts
<1> QED BY <1>8, <1>13, <1>14 DEF Booked

LEMMA BookedShrinks ==
  ASSUME NEW L, NEW c \in Seq(AnyBlock), Booked(L, c), Len(c) > 0, NEW top, NEW M,
         M = RemoveBlockFromState(L, Len(c), c[Len(c)], top), M.ok
  PROVE  Booked(M, Front(c))
<1>1. PICK n \in Nat : n = Len(c) - 1
  OBVIOUS
<1>2. PICK b, e : b = c[Len(c)] /\ e = Front(c)
  OBVIOUS
<1>3. Len(c) = n + 1 /\ b \in AnyBlock
  BY <1>1, <1>2
<1>4. Len(e) = n /\ \A k \in 1 .. n : e[k] = c[k]
  <2>1. e = [i \in 1 .. n |-> c[i]]
    BY <1>1, <1>2, <1>3 DEF Front
  <2>2. e \in Seq(AnyBlock) /\ DOMAIN e = 1 .. n
    BY <1>3, <2>1
  <2> QED BY <2>1, <2>2
<1>5. PICK A : Booking(A, c) /\ SameAccounts(L, A[n + 1])
  BY <1>3 DEF Booked
<1>6. n + 1 \in 1 .. n + 1 /\ (n + 1) - 1 = n
  OBVIOUS
<1>7. Books(A[n], b, n + 1, A[n + 1])
  BY <1>2, <1>3, <1>5, <1>6 DEF Booking
<1>8. M = RemoveBlockFromState(L, n + 1, b, top)
  BY <1>2, <1>3
<1>9. Shape(L)
  BY DEF Booked
<1>10. Shape(M) /\ SameAccounts(M, A[n])
  BY <1>3, <1>5, <1>7, <1>8, <1>9, RemoveBlockBooks
<1>11. ASSUME NEW k \in 0 .. n
       PROVE  Accounts(A[k]) /\ SumFunction(A[k].bal) = GetSupplyAtHeight(k)
  <2>1. k \in 0 .. n + 1
    OBVIOUS
  <2> QED BY <1>3, <1>5, <2>1 DEF Booking
<1>12. ASSUME NEW k \in 1 .. n
       PROVE  Books(A[k - 1], e[k], k, A[k])
  <2>1. k \in 1 .. n + 1
    OBVIOUS
  <2> QED BY <1>3, <1>4, <1>5, <2>1 DEF Booking
<1>13. Booking(A, e)
  BY <1>4, <1>11, <1>12 DEF Booking
<1> QED BY <1>2, <1>4, <1>10, <1>13 DEF Booked

-----------------------------------------------------------------------------
(* The supply                                                              *)

\* The ledger has the accounts the chain leads to, and so has the one a failing
\* reorganisation goes back to.
SupplyInv ==
  /\ LedgerInv
  /\ Booked(led, chain)
  /\ mode # "main" => Booked(saved[1], saved[2])

\* checkBlock lets only a registered delegate sign.
LEMMA OfferedSigned ==
  ASSUME NEW b \in Offered
  PROVE  Signed(b)
<1>1. b \in Candidates(led, Height + 1)
  BY DEF Offered
<1>2. StakeCheck(led, Height + 1, b)
  BY <1>1 DEF Candidates
<1> QED BY <1>2 DEF StakeCheck, Registered, Signed

LEMMA SupplyInit == Init => SupplyInv
<1> SUFFICES ASSUME Init PROVE SupplyInv
  OBVIOUS
<1>1. PICK L, v, z, y : L = led /\ v = L.bal /\ z = [a \in Addresses |-> 0] /\ y = Reward(0)
  OBVIOUS
<1>2. /\ Shape(L) /\ v = [a \in Addresses |-> IF a = Gov THEN y ELSE 0]
      /\ L.incoming = [a \in Addresses |-> IF a = Gov THEN 2 ELSE 0]
      /\ L.nonce = [u \in Users |-> 0] /\ L.delegate = [u \in Users |-> 0]
      /\ chain = <<>> /\ topHeight = 0 /\ mode = "main"
  BY <1>1 DEF Init, Shape
<1>3. y \in Nat
  BY <1>1, RewardType
<1>4. /\ v \in [Addresses -> Nat] /\ L.incoming \in [Addresses -> Nat]
      /\ L.nonce \in [Users -> Nat] /\ L.delegate \in [Users -> DelegateIds \cup {0}]
  BY <1>2, <1>3
<1>5. Accounts(L)
  BY <1>1, <1>2, <1>4 DEF Accounts
<1>6. PICK a : a = Gov
  OBVIOUS
<1>7. a \in Addresses /\ z \in [Addresses -> Int] /\ y \in Int /\ z = [x \in Addresses |-> 0]
  BY <1>1, <1>3, <1>6 DEF Addresses
<1>8. Adds(z, a, y, v)
  <2>1. v = [z EXCEPT ![a] = @ + y]
    BY <1>2, <1>3, <1>6, <1>7
  <2> QED BY <2>1 DEF Adds
<1>9. SumFunction(v) = SumFunction(z) + y
  BY <1>7, <1>8, AddressesFinite, SumPoint
<1>10. SumFunction(z) = 0
  BY <1>7, AddressesFinite, SumZero
<1>11. SumFunction(L.bal) = GetSupplyAtHeight(0)
  BY <1>1, <1>3, <1>9, <1>10, SupplyGrows
<1>12. PICK A : A = [k \in 0 .. 0 |-> L]
  OBVIOUS
<1>13. A[0] = L /\ Len(chain) = 0 /\ \A k \in 0 .. 0 : k = 0
  BY <1>2, <1>12
<1>14. Booking(A, chain)
  BY <1>5, <1>11, <1>13 DEF Booking
<1>15. SameAccounts(L, A[Len(chain)])
  BY <1>13 DEF SameAccounts
<1>16. Booked(led, chain)
  BY <1>1, <1>2, <1>14, <1>15 DEF Booked
<1> QED BY <1>2, <1>16, LedgerInit DEF SupplyInv

\* The steps of the ledger, with any blocks that only a registered delegate signs.
SignedNext ==
  \/ \E b \in AnyBlock : Signed(b) /\ (AddMainchainBlock(b) \/ ReapplyBlock(b))
  \/ UndoBlock
  \/ ReorgFails
  \/ SwitchTop

\* Every block adds its reward, every block undone takes it back, and a failing
\* reorganisation goes back to the accounts of the old chain.
LEMMA SupplyAnyStep ==
  ASSUME SupplyInv, [SignedNext]_vars
  PROVE  SupplyInv'
<1>1. PICK L, c, M : L = led /\ c = chain /\ M = led'
  OBVIOUS
<1>2. LedgerInv /\ Booked(L, c) /\ c \in Seq(AnyBlock)
  BY <1>1 DEF SupplyInv, LedgerInv, Chained
<1>4. LedgerInv'
  <2>1. [AnyNext]_vars
    BY DEF SignedNext, AnyNext
  <2> QED BY <1>2, <2>1, LedgerStep
<1>5. ASSUME NEW b \in AnyBlock, Signed(b), M = ApplyBlockToState(L, Height + 1, b, topHeight), M.ok,
             chain' = Append(chain, b)
      PROVE  Booked(led, chain)' /\ Len(chain') = Height + 1
  <2>1. b \in AnyBlock /\ Signed(b)
    BY <1>5
  <2>2. M = ApplyBlockToState(L, Len(c) + 1, b, topHeight)
    BY <1>1, <1>5 DEF Height
  <2>3. Booked(M, Append(c, b))
    BY <1>2, <1>5, <2>1, <2>2, BookedGrows
  <2>4. Len(Append(c, b)) = Len(c) + 1
    BY <1>2, <2>1
  <2> QED BY <1>1, <1>5, <2>3, <2>4 DEF Height
<1>6. CASE \E b \in AnyBlock : Signed(b) /\ AddMainchainBlock(b)
  <2>1. PICK b \in AnyBlock : Signed(b) /\ AddMainchainBlock(b)
    BY <1>6
  <2>2. Booked(led, chain)' /\ Len(chain') = Height + 1
    BY <1>1, <1>5, <2>1 DEF AddMainchainBlock
  <2> QED BY <1>4, <2>1, <2>2 DEF SupplyInv, AddMainchainBlock
<1>7. CASE \E b \in AnyBlock : Signed(b) /\ ReapplyBlock(b)
  <2>1. PICK b \in AnyBlock : Signed(b) /\ ReapplyBlock(b)
    BY <1>7
  <2>2. Booked(led, chain)'
    BY <1>1, <1>5, <2>1 DEF ReapplyBlock
  <2>3. Booked(saved[1], saved[2])'
    BY <2>1 DEF ReapplyBlock, SupplyInv
  <2> QED BY <1>4, <2>1, <2>2, <2>3 DEF SupplyInv, ReapplyBlock
<1>8. CASE UndoBlock
  <2>1. Len(c) > 0 /\ M = RemoveBlockFromState(L, Len(c), c[Len(c)], topHeight) /\ M.ok
    BY <1>1, <1>8 DEF UndoBlock, Height
  <2>2. Booked(M, Front(c))
    BY <1>2, <2>1, BookedShrinks
  <2>3. Booked(led, chain)'
    BY <1>1, <1>8, <2>2 DEF UndoBlock
  <2>4. Booked(saved[1], saved[2])'
    <3>1. CASE mode = "main"
      BY <1>1, <1>2, <1>8, <3>1 DEF UndoBlock, SupplyInv
    <3>2. CASE mode # "main"
      BY <1>8, <3>2 DEF UndoBlock, SupplyInv
    <3> QED BY <3>1, <3>2
  <2> QED BY <1>4, <1>8, <2>3, <2>4 DEF SupplyInv, UndoBlock
<1>9. CASE ReorgFails
  BY <1>4, <1>9 DEF ReorgFails, SupplyInv
<1>10. CASE SwitchTop
  BY <1>4, <1>10 DEF SwitchTop, SupplyInv, Height
<1>11. CASE UNCHANGED vars
  BY <1>4, <1>11 DEF vars, SupplyInv
<1> QED BY <1>6, <1>7, <1>8, <1>9, <1>10, <1>11 DEF SignedNext

\* The blocks offered are such blocks.
LEMMA SupplyStep ==
  ASSUME SupplyInv, [Next]_vars
  PROVE  SupplyInv'
<1>1. Offered \subseteq AnyBlock
  BY OfferedBlocks DEF SupplyInv, LedgerInv
<1>2. [SignedNext]_vars
  BY <1>1, OfferedSigned DEF Next, SignedNext
<1> QED BY <1>2, SupplyAnyStep

LEMMA InvSupply == SupplyInv => SupplyExact
<1> SUFFICES ASSUME SupplyInv, mode = "main" PROVE SumFunction(led.bal) = GetSupplyAtHeight(Len(chain))
  BY DEF SupplyExact, Height
<1>1. Booked(led, chain) /\ chain \in Seq(AnyBlock)
  BY DEF SupplyInv, LedgerInv, Chained
<1> QED BY <1>1, BookedAccounts

\* After every committed block and every reorganisation, whatever it undid and applied
\* and whatever height its tip gave TopHeight, the balances add up to the emission
\* schedule at the height of the top block: when CheckSupply ends the node, TopHeight
\* is wrong and not a balance.
THEOREM SupplyFollowsSchedule == Spec => []SupplyExact
BY SupplyInit, SupplyStep, InvSupply, PTL DEF Spec

\* A block that RemoveBlockFromState undoes without an error leaves the balances,
\* counters, nonces and delegate choices the ledger had before the block.
UndoExact == \A b \in Applicable : RoundTrip(b).ok => SameAccounts(RoundTrip(b), led)

LEMMA InvUndo == SupplyInv => UndoExact
<1> SUFFICES ASSUME SupplyInv, NEW b \in Applicable, RoundTrip(b).ok
             PROVE  SameAccounts(RoundTrip(b), led)
  BY DEF UndoExact
<1>1. PICK L, c, h : L = led /\ c = chain /\ h = Height + 1
  OBVIOUS
<1>2. Booked(L, c) /\ c \in Seq(AnyBlock) /\ h \in Nat /\ Chained(led, chain)
  BY <1>1 DEF SupplyInv, LedgerInv, Chained, Height
<1>3. Accounts(L)
  BY <1>2, BookedAccounts
<1>4. b \in Offered
  BY DEF Applicable
<1>5. b \in AnyBlock /\ Signed(b)
  BY <1>2, <1>4, OfferedBlocks, OfferedSigned
<1>6. PICK up, back : /\ up = ApplyBlockToState(L, h, b, topHeight)
                      /\ back = RemoveBlockFromState(up, h, b, h)
  OBVIOUS
<1>7. back = RoundTrip(b) /\ up.ok
  BY <1>1, <1>6 DEF RoundTrip, Applicable
<1>8. Accounts(up) /\ Books(L, b, h, up)
  BY <1>2, <1>3, <1>5, <1>6, <1>7, ApplyBlockBooks
<1>9. Shape(up) /\ SameAccounts(up, up)
  BY <1>8 DEF Accounts, SameAccounts
<1>10. SameAccounts(back, L)
  BY <1>5, <1>6, <1>7, <1>8, <1>9, RemoveBlockBooks
<1> QED BY <1>1, <1>7, <1>10

-----------------------------------------------------------------------------
(* Funds                                                                   *)

\* What a stake or a reward adds.
Gains(amount) == amount \in Nat /\ amount > 0

\* Funds of different owners, none of them empty.
Apart(funds) ==
  /\ funds \in Seq(Fund)
  /\ \A i, j \in DOMAIN funds : funds[i].owner = funds[j].owner => i = j
  /\ \A i \in DOMAIN funds : Gains(funds[i].amount)

\* A delegate that is not registered has no funds.
Vacant(x) == x.owner = Nobody => x.funds = <<>>

Holder == {x \in Delegate : Apart(x.funds) /\ Vacant(x)}

\* The part of a ledger that is not accounts.
Stored(L) ==
  /\ Shape(L)
  /\ L.ok \in BOOLEAN
  /\ L.staked \in Nat
  /\ L.dels \in [DelegateIds -> Holder]
  /\ L.history \in [1 .. MaxHeight -> Holder]

\* M has that part of L.
SameStakes(M, L) ==
  /\ Shape(M) /\ M.ok = L.ok /\ M.staked = L.staked /\ M.dels = L.dels /\ M.history = L.history

LEMMA SameStored ==
  ASSUME NEW L, Stored(L), NEW M, SameStakes(M, L)
  PROVE  Stored(M)
BY DEF Stored, SameStakes

LEMMA NewHolder ==
  ASSUME NEW u \in Users \cup {Nobody}
  PROVE  [owner |-> u, funds |-> <<>>] \in Holder
<1>1. PICK x : x = [owner |-> u, funds |-> <<>>]
  OBVIOUS
<1>2. x \in Delegate /\ x.funds = <<>>
  BY <1>1 DEF Delegate
<1>3. Apart(<<>>)
  BY DEF Apart
<1>4. Vacant(x)
  BY <1>2 DEF Vacant
<1> QED BY <1>1, <1>2, <1>3, <1>4 DEF Holder

\* A ledger in which the funds of delegate d are changed to other good ones.
LEMMA FundsStored ==
  ASSUME NEW L, Stored(L), NEW d, Registered(L, d), NEW funds, Apart(funds), NEW M, Shape(M),
         M.ok = L.ok, M.staked \in Nat, M.history = L.history, M.dels = [L.dels EXCEPT ![d].funds = funds]
  PROVE  Stored(M)
<1>1. PICK D \in [DelegateIds -> Holder] : D = L.dels
  BY DEF Stored
<1>2. d \in DelegateIds /\ D[d] \in Delegate /\ D[d].owner # Nobody
  BY <1>1 DEF Holder, Registered
<1>3. PICK x : x = [D[d] EXCEPT !.funds = funds]
  OBVIOUS
<1>4. x \in Delegate /\ x.funds = funds /\ x.owner # Nobody
  BY <1>2, <1>3 DEF Delegate, Apart
<1>5. x \in Holder
  BY <1>4 DEF Holder, Vacant
<1>6. M.dels = [D EXCEPT ![d] = x]
  BY <1>1, <1>3
<1>7. M.dels \in [DelegateIds -> Holder]
  BY <1>2, <1>5, <1>6
<1> QED BY <1>7 DEF Stored

\* None of the funds is empty.
Filled(funds) == \A i \in DOMAIN funds : funds[i].amount > 0

\* What owner u has in a list of funds.
Held(funds, u) ==
  IF \E i \in DOMAIN funds : funds[i].owner = u
  THEN funds[CHOOSE i \in DOMAIN funds : funds[i].owner = u].amount
  ELSE 0

LEMMA HeldAt ==
  ASSUME NEW s, Apart(s), NEW i \in DOMAIN s
  PROVE  Held(s, s[i].owner) = s[i].amount
BY DEF Held, Apart

LEMMA HeldNone ==
  ASSUME NEW s, NEW u, \A i \in DOMAIN s : s[i].owner # u
  PROVE  Held(s, u) = 0
BY DEF Held

LEMMA HeldType ==
  ASSUME NEW s, Apart(s), NEW u
  PROVE  /\ Held(s, u) \in Nat
         /\ Held(s, u) > 0 => \E i \in DOMAIN s : s[i].owner = u /\ s[i].amount = Held(s, u)
         /\ (\E i \in DOMAIN s : s[i].owner = u) => Held(s, u) > 0
<1>1. CASE \E i \in DOMAIN s : s[i].owner = u
  <2>1. PICK i \in DOMAIN s : s[i].owner = u
    BY <1>1
  <2>2. Held(s, u) = s[i].amount
    BY <2>1, HeldAt
  <2>3. Gains(s[i].amount)
    BY <2>1 DEF Apart
  <2> QED BY <2>1, <2>2, <2>3 DEF Gains
<1>2. CASE ~\E i \in DOMAIN s : s[i].owner = u
  BY <1>2, HeldNone
<1> QED BY <1>1, <1>2

\* In M the fund of u with delegate d has x more than in L, and nothing else changed.
Shifts(L, d, u, x, M) ==
  /\ M.staked = L.staked + x
  /\ M.history = L.history
  /\ \A e \in DelegateIds : M.dels[e].owner = L.dels[e].owner /\ (e # d => M.dels[e] = L.dels[e])
  /\ \A v : Held(M.dels[d].funds, v) = Held(L.dels[d].funds, v) + IF v = u THEN x ELSE 0
  /\ x # 0 /\ Filled(L.dels[d].funds) => Filled(M.dels[d].funds)

LEMMA FundsShift ==
  ASSUME NEW L, Stored(L), NEW d \in DelegateIds, NEW u, NEW x, NEW funds, NEW M,
         M.staked = L.staked + x, M.history = L.history, M.dels = [L.dels EXCEPT ![d].funds = funds],
         \A v : Held(funds, v) = Held(L.dels[d].funds, v) + IF v = u THEN x ELSE 0,
         x # 0 /\ Filled(L.dels[d].funds) => Filled(funds)
  PROVE  Shifts(L, d, u, x, M)
<1>1. PICK D \in [DelegateIds -> Holder] : D = L.dels
  BY DEF Stored
<1>2. D[d] \in Delegate
  BY DEF Holder
<1>3. PICK y : y = [D[d] EXCEPT !.funds = funds]
  OBVIOUS
<1>4. y.owner = D[d].owner /\ y.funds = funds
  BY <1>2, <1>3 DEF Delegate
<1>5. M.dels = [D EXCEPT ![d] = y]
  BY <1>1, <1>3
<1>6. M.dels[d] = y /\ \A e \in DelegateIds : e # d => M.dels[e] = D[e]
  BY <1>5
<1>7. M.dels[d].funds = funds
  BY <1>4, <1>6
<1>8. \A e \in DelegateIds : M.dels[e].owner = D[e].owner
  BY <1>4, <1>6
<1> QED BY <1>1, <1>6, <1>7, <1>8 DEF Shifts

\* ApplyStake adds to the one fund of its owner, or opens it.
LEMMA StakeStored ==
  ASSUME NEW L, Stored(L), NEW d, Registered(L, d), NEW u \in Users, NEW amount, Gains(amount),
         NEW top \in Nat, NEW reverse, NEW M, M = Stake(L, d, u, amount, top, reverse)
  PROVE  Stored(M) /\ M.ok = L.ok /\ Shifts(L, d, u, amount, M)
<1>1. PICK funds : funds = L.dels[d].funds
  OBVIOUS
<1>14. d \in DelegateIds
  BY DEF Registered
<1>2. Apart(funds)
  BY <1>1, <1>14 DEF Stored, Holder
<1>3. PICK unlock : unlock = top + STAKE_UNLOCK_TIME
  OBVIOUS
<1>4. unlock \in Nat
  BY <1>3, LedgerAssumption
<1>5. PICK n \in Nat : n = Len(funds) /\ DOMAIN funds = 1 .. n /\ funds \in [1 .. n -> Fund]
  BY <1>2 DEF Apart
<1>6. amount \in Nat
  BY DEF Gains
<1>7. PICK more : more = IF FundOf(funds, u) = {}
                         THEN Append(funds, [owner |-> u, amount |-> amount, unlock |-> unlock])
                         ELSE [i \in DOMAIN funds |->
                                 IF funds[i].owner = u
                                 THEN [owner  |-> u,
                                       amount |-> funds[i].amount + amount,
                                       unlock |-> IF reverse THEN funds[i].unlock ELSE unlock]
                                 ELSE funds[i]]
  OBVIOUS
<1>8. /\ Apart(more)
      /\ \A v : Held(more, v) = Held(funds, v) + IF v = u THEN amount ELSE 0
      /\ amount # 0 /\ Filled(funds) => Filled(more)
  <2>1. CASE FundOf(funds, u) = {}
    <3>1. PICK f : f = [owner |-> u, amount |-> amount, unlock |-> unlock]
      OBVIOUS
    <3>2. f \in Fund /\ f.owner = u /\ Gains(f.amount)
      BY <1>4, <1>6, <3>1 DEF Fund
    <3>3. more = Append(funds, f)
      BY <1>7, <2>1, <3>1
    <3>4. /\ more \in Seq(Fund) /\ DOMAIN more = 1 .. n + 1 /\ more[n + 1] = f
          /\ \A i \in 1 .. n : more[i] = funds[i]
      BY <1>2, <1>5, <3>2, <3>3 DEF Apart
    <3>5. \A i \in 1 .. n : funds[i].owner # u
      BY <1>5, <2>1 DEF FundOf
    <3>6. \A i \in 1 .. n + 1 : i \in 1 .. n \/ i = n + 1
      OBVIOUS
    <3>7. \A i, j \in 1 .. n + 1 : more[i].owner = more[j].owner => i = j
      BY <1>2, <1>5, <3>2, <3>4, <3>5, <3>6 DEF Apart
    <3>8. \A i \in 1 .. n + 1 : Gains(more[i].amount)
      BY <1>2, <1>5, <3>2, <3>4, <3>6 DEF Apart
    <3>9. Apart(more)
      BY <3>4, <3>7, <3>8 DEF Apart
    <3>10. ASSUME NEW v PROVE Held(more, v) = Held(funds, v) + IF v = u THEN amount ELSE 0
      <4>1. Held(funds, v) \in Nat
        BY <1>2, HeldType
      <4>2. CASE v = u
        <5>1. Held(more, v) = amount
          BY <3>1, <3>2, <3>4, <3>9, <4>2, HeldAt
        <5>2. Held(funds, v) = 0
          BY <1>5, <3>5, <4>2, HeldNone
        <5> QED BY <1>6, <4>2, <5>1, <5>2
      <4>3. CASE v # u /\ \E i \in 1 .. n : funds[i].owner = v
        <5>1. PICK i \in 1 .. n : funds[i].owner = v
          BY <4>3
        <5>2. more[i] = funds[i] /\ i \in DOMAIN more /\ i \in DOMAIN funds
          BY <1>5, <3>4
        <5>3. Held(more, v) = funds[i].amount /\ Held(funds, v) = funds[i].amount
          BY <1>2, <3>9, <5>1, <5>2, HeldAt
        <5> QED BY <4>1, <4>3, <5>3
      <4>4. CASE v # u /\ \A i \in 1 .. n : funds[i].owner # v
        <5>1. Held(funds, v) = 0
          BY <1>5, <4>4, HeldNone
        <5>2. \A i \in DOMAIN more : more[i].owner # v
          BY <3>2, <3>4, <3>6, <4>4
        <5>3. Held(more, v) = 0
          BY <5>2, HeldNone
        <5> QED BY <4>4, <5>1, <5>3
      <4> QED BY <4>2, <4>3, <4>4
    <3>11. amount # 0 /\ Filled(funds) => Filled(more)
      BY <1>5, <1>6, <3>1, <3>4, <3>6 DEF Filled
    <3> QED BY <3>9, <3>10, <3>11
  <2>2. CASE FundOf(funds, u) # {}
    <3>1. more = [i \in 1 .. n |->
                   IF funds[i].owner = u
                   THEN [owner  |-> u,
                         amount |-> funds[i].amount + amount,
                         unlock |-> IF reverse THEN funds[i].unlock ELSE unlock]
                   ELSE funds[i]]
      BY <1>5, <1>7, <2>2
    <3>2. ASSUME NEW i \in 1 .. n
          PROVE  more[i] \in Fund /\ more[i].owner = funds[i].owner /\ Gains(more[i].amount)
      <4>1. funds[i] \in Fund /\ Gains(funds[i].amount)
        BY <1>2, <1>5 DEF Apart
      <4>2. CASE funds[i].owner = u
        <5>1. more[i] = [owner  |-> u,
                         amount |-> funds[i].amount + amount,
                         unlock |-> IF reverse THEN funds[i].unlock ELSE unlock]
          BY <3>1, <4>2
        <5>2. more[i] \in Fund
          BY <1>4, <1>6, <4>1, <5>1 DEF Fund
        <5>3. Gains(funds[i].amount + amount)
          BY <4>1 DEF Gains
        <5> QED BY <4>2, <5>1, <5>2, <5>3
      <4>3. CASE funds[i].owner # u
        BY <3>1, <4>1, <4>3
      <4> QED BY <4>2, <4>3
    <3>3. DOMAIN more = 1 .. n /\ more \in Seq(Fund)
      <4>1. more = [i \in 1 .. n |-> more[i]]
        BY <3>1
      <4> QED BY <3>2, <4>1
    <3>4. \A i, j \in 1 .. n : more[i].owner = more[j].owner => i = j
      BY <1>2, <1>5, <3>2 DEF Apart
    <3>5. Apart(more)
      BY <3>2, <3>3, <3>4 DEF Apart
    <3>6. ASSUME NEW v PROVE Held(more, v) = Held(funds, v) + IF v = u THEN amount ELSE 0
      <4>1. CASE \E i \in 1 .. n : funds[i].owner = v
        <5>1. PICK i \in 1 .. n : funds[i].owner = v
          BY <4>1
        <5>2. i \in DOMAIN more /\ i \in DOMAIN funds /\ more[i].owner = v
          BY <1>5, <3>2, <3>3, <5>1
        <5>3. Held(more, v) = more[i].amount /\ Held(funds, v) = funds[i].amount
          BY <1>2, <3>5, <5>1, <5>2, HeldAt
        <5>4. funds[i].amount \in Nat
          BY <1>5 DEF Fund
        <5>5. v = u => more[i].amount = funds[i].amount + amount
          BY <3>1, <5>1
        <5>6. v # u => more[i] = funds[i]
          BY <3>1, <5>1
        <5> QED BY <5>3, <5>4, <5>5, <5>6
      <4>2. CASE \A i \in 1 .. n : funds[i].owner # v
        <5>1. v # u
          BY <1>5, <2>2, <4>2 DEF FundOf
        <5>2. \A i \in DOMAIN more : more[i].owner # v
          BY <3>2, <3>3, <4>2
        <5>3. Held(more, v) = 0 /\ Held(funds, v) = 0
          BY <1>5, <4>2, <5>2, HeldNone
        <5> QED BY <5>1, <5>3
      <4> QED BY <4>1, <4>2
    <3>7. amount # 0 /\ Filled(funds) => Filled(more)
      <4> SUFFICES ASSUME Filled(funds), NEW i \in 1 .. n PROVE more[i].amount > 0
        BY <3>3 DEF Filled
      <4>1. funds[i].amount > 0 /\ funds[i].amount \in Nat
        BY <1>5 DEF Filled, Fund
      <4>2. CASE funds[i].owner = u
        <5>1. more[i].amount = funds[i].amount + amount
          BY <3>1, <4>2
        <5> QED BY <1>6, <4>1, <5>1
      <4>3. CASE funds[i].owner # u
        BY <3>1, <4>1, <4>3
      <4> QED BY <4>2, <4>3
    <3> QED BY <3>5, <3>6, <3>7
  <2> QED BY <2>1, <2>2
<1>9. M = [L EXCEPT !.staked = @ + amount, !.dels[d].funds = more]
  BY <1>1, <1>3, <1>7 DEF Stake
<1>10. /\ Shape(M) /\ M.ok = L.ok /\ M.staked = L.staked + amount /\ M.history = L.history
       /\ M.dels = [L.dels EXCEPT ![d].funds = more]
  BY <1>9 DEF Stored, Shape
<1>11. M.staked \in Nat
  BY <1>6, <1>10 DEF Stored
<1>12. Stored(M)
  BY <1>8, <1>10, <1>11, FundsStored
<1>13. Shifts(L, d, u, amount, M)
  BY <1>1, <1>8, <1>10, <1>14, FundsShift
<1> QED BY <1>10, <1>12, <1>13

\* Taking out one fund.
LEMMA ApartRemove ==
  ASSUME NEW s, Apart(s), NEW k \in DOMAIN s
  PROVE  /\ Apart(RemoveAt(s, k))
         /\ \A v : Held(RemoveAt(s, k), v) = IF v = s[k].owner THEN 0 ELSE Held(s, v)
         /\ Filled(s) => Filled(RemoveAt(s, k))
<1>1. PICK n \in Nat : n = Len(s) /\ DOMAIN s = 1 .. n /\ s \in Seq(Fund)
  BY DEF Apart
<1>2. PICK r, p, q : p = SubSeq(s, 1, k - 1) /\ q = SubSeq(s, k + 1, n) /\ r = p \o q
  OBVIOUS
<1>3. r = RemoveAt(s, k)
  BY <1>1, <1>2 DEF RemoveAt
<1>4. k \in 1 .. n /\ k \in Int
  BY <1>1
<1>5. p \in Seq(Fund) /\ Len(p) = k - 1 /\ \A i \in 1 .. k - 1 : p[i] = s[i]
  BY <1>1, <1>2, <1>4
<1>6. q \in Seq(Fund) /\ Len(q) = n - k /\ \A i \in 1 .. n - k : q[i] = s[i + k]
  <2>1. PICK m : m = k + 1
    OBVIOUS
  <2>2. m \in Int /\ n \in Int /\ q = SubSeq(s, m, n) /\ \A i \in m .. n : s[i] \in Fund
    BY <1>1, <1>2, <1>4, <2>1
  <2>3. /\ q \in Seq(Fund) /\ Len(q) = IF m <= n THEN n-m+1 ELSE 0
        /\ \A i \in 1 .. n-m+1 : q[i] = s[m+i-1]
    BY <2>2, SubSeqProperties
  <2>4. Len(q) = n - k
    BY <1>4, <2>1, <2>3
  <2>5. n-m+1 = n - k /\ \A i \in 1 .. n - k : m+i-1 = i + k
    BY <1>4, <2>1
  <2> QED BY <2>3, <2>4, <2>5
<1>7. /\ r \in Seq(Fund) /\ Len(r) = n - 1
      /\ \A i \in 1 .. n - 1 : r[i] = IF i <= k - 1 THEN p[i] ELSE q[i - (k - 1)]
  <2>1. /\ r \in Seq(Fund) /\ Len(r) = Len(p) + Len(q)
        /\ \A i \in 1 .. Len(p) + Len(q) : r[i] = IF i <= Len(p) THEN p[i] ELSE q[i - Len(p)]
    BY <1>2, <1>5, <1>6, ConcatProperties
  <2>2. Len(p) + Len(q) = n - 1
    BY <1>4, <1>5, <1>6
  <2> QED BY <1>5, <2>1, <2>2
<1>8. DOMAIN r = 1 .. n - 1
  BY <1>7
<1>9. ASSUME NEW i \in 1 .. n - 1
      PROVE  \E j \in 1 .. n : r[i] = s[j] /\ j = IF i < k THEN i ELSE i + 1
  <2>1. CASE i < k
    <3>1. i \in 1 .. k - 1 /\ i \in 1 .. n
      BY <1>4, <2>1
    <3>2. r[i] = p[i]
      BY <1>4, <1>7, <2>1
    <3> QED BY <1>5, <2>1, <3>1, <3>2
  <2>2. CASE ~(i < k)
    <3>1. i - (k - 1) \in 1 .. n - k /\ (i - (k - 1)) + k = i + 1 /\ i + 1 \in 1 .. n
      BY <1>4, <2>2
    <3>2. r[i] = q[i - (k - 1)]
      BY <1>4, <1>7, <2>2
    <3> QED BY <1>6, <2>2, <3>1, <3>2
  <2> QED BY <2>1, <2>2
<1>10. ASSUME NEW i \in 1 .. n - 1, NEW j \in 1 .. n - 1, r[i].owner = r[j].owner
       PROVE  i = j
  <2>1. PICK x \in 1 .. n : r[i] = s[x] /\ x = IF i < k THEN i ELSE i + 1
    BY <1>9
  <2>2. PICK y \in 1 .. n : r[j] = s[y] /\ y = IF j < k THEN j ELSE j + 1
    BY <1>9
  <2>3. x = y
    BY <1>1, <1>10, <2>1, <2>2 DEF Apart
  <2> QED BY <1>4, <2>1, <2>2, <2>3
<1>11. \A i \in 1 .. n - 1 : Gains(r[i].amount)
  BY <1>1, <1>9 DEF Apart
<1>12. Apart(r)
  BY <1>7, <1>8, <1>10, <1>11 DEF Apart
<1>13. ASSUME NEW j \in 1 .. n, j # k
       PROVE  \E i \in 1 .. n - 1 : r[i] = s[j]
  <2>1. PICK i : i = IF j < k THEN j ELSE j - 1
    OBVIOUS
  <2>2. i \in 1 .. n - 1 /\ j = IF i < k THEN i ELSE i + 1
    BY <1>4, <1>13, <2>1
  <2> QED BY <1>9, <2>2
<1>14. ASSUME NEW i \in 1 .. n - 1
       PROVE  \E j \in 1 .. n : r[i] = s[j] /\ j # k
  <2>1. PICK j \in 1 .. n : r[i] = s[j] /\ j = IF i < k THEN i ELSE i + 1
    BY <1>9
  <2> QED BY <1>4, <2>1
<1>15. ASSUME NEW v
       PROVE  Held(r, v) = IF v = s[k].owner THEN 0 ELSE Held(s, v)
  <2>1. CASE v # s[k].owner /\ \E j \in 1 .. n : s[j].owner = v
    <3>1. PICK j \in 1 .. n : s[j].owner = v
      BY <2>1
    <3>2. PICK i \in 1 .. n - 1 : r[i] = s[j]
      BY <1>13, <2>1, <3>1
    <3>3. Held(s, v) = s[j].amount
      BY <1>1, <3>1, HeldAt
    <3>4. i \in DOMAIN r /\ r[i].owner = v
      BY <1>8, <3>1, <3>2
    <3>5. Held(r, v) = r[i].amount
      BY <1>12, <3>4, HeldAt
    <3> QED BY <2>1, <3>2, <3>3, <3>5
  <2>2. CASE v = s[k].owner \/ \A j \in 1 .. n : s[j].owner # v
    <3>1. ASSUME NEW i \in 1 .. n - 1 PROVE r[i].owner # v
      <4>1. PICK j \in 1 .. n : r[i] = s[j] /\ j # k
        BY <1>14
      <4>2. s[j].owner # s[k].owner
        BY <1>1, <1>4, <4>1 DEF Apart
      <4> QED BY <2>2, <4>1, <4>2
    <3>2. Held(r, v) = 0
      BY <1>8, <3>1, HeldNone
    <3>3. v # s[k].owner => Held(s, v) = 0
      BY <1>1, <2>2, HeldNone
    <3> QED BY <3>2, <3>3
  <2> QED BY <2>1, <2>2
<1>16. Filled(s) => Filled(r)
  BY <1>1, <1>8, <1>9 DEF Filled
<1> QED BY <1>3, <1>12, <1>15, <1>16

\* ApplyUnstake takes from the one fund of its owner, and closes it when it is empty.
LEMMA UnstakeStored ==
  ASSUME NEW L, Stored(L), NEW d \in DelegateIds, NEW u \in Users, NEW amount \in Nat,
         NEW top, NEW reverse, UnstakeValid(L, d, u, amount, top, reverse),
         NEW prev \in Nat, NEW M, M = Unstake(L, d, u, amount, reverse, prev)
  PROVE  Stored(M) /\ M.ok = L.ok /\ Shifts(L, d, u, -amount, M)
<1>1. PICK funds : funds = L.dels[d].funds
  OBVIOUS
<1>2. Apart(funds)
  BY <1>1 DEF Stored, Holder
<1>3. PICK n \in Nat : n = Len(funds) /\ DOMAIN funds = 1 .. n /\ funds \in [1 .. n -> Fund]
  BY <1>2 DEF Apart
<1>4. PICK k \in FundOf(funds, u) : funds[k].amount >= amount
  BY <1>1 DEF UnstakeValid
<1>5. k \in 1 .. n /\ funds[k].owner = u /\ k \in DOMAIN funds
  BY <1>3 DEF FundOf
<1>6. Min(FundOf(funds, u)) = k
  <2>1. PICK t : t = FundOf(funds, u)
    OBVIOUS
  <2>2. t \in SUBSET (1 .. n) /\ k \in t /\ t # {}
    BY <1>3, <2>1 DEF FundOf
  <2>3. Min(t) \in t
    BY <2>2, Extremes
  <2>4. \A i \in t : i = k
    BY <1>2, <1>3, <1>5, <2>1 DEF FundOf, Apart
  <2> QED BY <2>1, <2>3, <2>4
<1>7. PICK f : f = [funds[k] EXCEPT !.amount = @ - amount, !.unlock = IF reverse THEN prev ELSE @]
  OBVIOUS
<1>8. PICK less : less = IF f.amount = 0 THEN RemoveAt(funds, k) ELSE [funds EXCEPT ![k] = f]
  OBVIOUS
<1>9. M = [L EXCEPT !.staked = @ - amount, !.dels[d].funds = less]
  BY <1>1, <1>6, <1>7, <1>8 DEF Unstake
<1>10. f \in Fund /\ f.owner = u
  <2>1. funds[k] \in Fund
    BY <1>3, <1>5
  <2>2. funds[k].amount - amount \in Nat
    BY <1>4, <2>1 DEF Fund
  <2> QED BY <1>5, <1>7, <2>1, <2>2 DEF Fund
<1>12. Held(funds, u) = funds[k].amount /\ funds[k].amount \in Nat /\ f.amount = funds[k].amount - amount
  <2>1. funds[k] \in Fund
    BY <1>3, <1>5
  <2> QED BY <1>2, <1>5, <1>7, <2>1, HeldAt DEF Fund
<1>11. /\ Apart(less)
       /\ \A v : Held(less, v) = Held(funds, v) + IF v = u THEN -amount ELSE 0
       /\ Filled(funds) => Filled(less)
  <2>1. CASE f.amount = 0
    <3>1. /\ Apart(less) /\ \A v : Held(less, v) = IF v = u THEN 0 ELSE Held(funds, v)
          /\ Filled(funds) => Filled(less)
      BY <1>2, <1>5, <1>8, <2>1, ApartRemove
    <3>2. \A v : Held(funds, v) \in Nat
      BY <1>2, HeldType
    <3> QED BY <1>12, <2>1, <3>1, <3>2
  <2>2. CASE f.amount # 0
    <3>1. Gains(f.amount)
      BY <1>10, <2>2 DEF Fund, Gains
    <3>2. less = [funds EXCEPT ![k] = f]
      BY <1>8, <2>2
    <3>3. /\ less \in Seq(Fund) /\ DOMAIN less = 1 .. n
          /\ \A i \in 1 .. n : less[i].owner = funds[i].owner /\ (i = k \/ less[i] = funds[i]) /\ less[k] = f
      <4>1. less \in [1 .. n -> Fund]
        BY <1>3, <1>5, <1>10, <3>2
      <4>2. less \in Seq(Fund) /\ DOMAIN less = 1 .. n
        BY <4>1
      <4> QED BY <1>3, <1>5, <1>10, <3>2, <4>2
    <3>4. \A i, j \in 1 .. n : less[i].owner = less[j].owner => i = j
      BY <1>2, <1>3, <3>3 DEF Apart
    <3>5. \A i \in 1 .. n : Gains(less[i].amount)
      BY <1>2, <1>3, <3>1, <3>3 DEF Apart
    <3>6. Apart(less)
      BY <3>3, <3>4, <3>5 DEF Apart
    <3>7. ASSUME NEW v PROVE Held(less, v) = Held(funds, v) + IF v = u THEN -amount ELSE 0
      <4>1. CASE v = u
        <5>1. k \in DOMAIN less /\ less[k] = f
          BY <1>5, <3>3
        <5>2. Held(less, v) = f.amount
          BY <1>10, <3>6, <4>1, <5>1, HeldAt
        <5> QED BY <1>12, <4>1, <5>2
      <4>2. CASE v # u /\ \E i \in 1 .. n : funds[i].owner = v
        <5>1. PICK i \in 1 .. n : funds[i].owner = v
          BY <4>2
        <5>2. i # k /\ i \in DOMAIN less /\ i \in DOMAIN funds
          BY <1>3, <1>5, <3>3, <4>2, <5>1
        <5>3. less[i] = funds[i]
          BY <3>3, <5>2
        <5>4. Held(less, v) = funds[i].amount /\ Held(funds, v) = funds[i].amount
          BY <1>2, <3>6, <5>1, <5>2, <5>3, HeldAt
        <5>5. Held(funds, v) \in Nat
          BY <1>2, HeldType
        <5> QED BY <4>2, <5>4, <5>5
      <4>3. CASE v # u /\ \A i \in 1 .. n : funds[i].owner # v
        <5>1. \A i \in DOMAIN less : less[i].owner # v
          BY <3>3, <4>3
        <5>2. Held(less, v) = 0 /\ Held(funds, v) = 0
          BY <1>3, <4>3, <5>1, HeldNone
        <5> QED BY <4>3, <5>2
      <4> QED BY <4>1, <4>2, <4>3
    <3>8. Filled(funds) => Filled(less)
      <4>1. f.amount > 0
        BY <1>10, <2>2 DEF Fund
      <4> QED BY <1>3, <3>3, <4>1 DEF Filled
    <3> QED BY <3>6, <3>7, <3>8
  <2> QED BY <2>1, <2>2
<1>18. /\ Shape(M) /\ M.ok = L.ok /\ M.staked = L.staked - amount /\ M.history = L.history
       /\ M.dels = [L.dels EXCEPT ![d].funds = less]
  BY <1>9 DEF Stored, Shape
<1>19. M.staked \in Nat
  BY <1>18 DEF Stored, UnstakeValid
<1>23. Registered(L, d)
  BY DEF UnstakeValid
<1>20. Stored(M)
  <2>1. Apart(less)
    BY <1>11
  <2>2. M.ok = L.ok /\ M.history = L.history /\ M.dels = [L.dels EXCEPT ![d].funds = less] /\ Shape(M)
    BY <1>18
  <2> QED BY <1>19, <1>23, <2>1, <2>2, FundsStored
<1>21. M.staked = L.staked + (-amount)
  BY <1>18 DEF Stored
<1>22. Shifts(L, d, u, -amount, M)
  BY <1>1, <1>11, <1>18, <1>21, FundsShift
<1> QED BY <1>18, <1>20, <1>22

\* The funds are added up one after the other, and so are their shares.
LEMMA TotalStates ==
  ASSUME NEW s, NEW n \in Nat, DOMAIN s = 1 .. n
  PROVE  \E g : Forward(g, "total", 0, 0, 0, s, n, TotalAmount(s))
<1> DEFINE Is(f) == f = [t \in SUBSET DOMAIN s |->
                           IF t = {} THEN 0 ELSE f[t \ {Max(t)}] + s[Max(t)].amount]
<1>1. \A f : Is(f) <=> Folding(f, "total", 0, 0, 0, s)
  BY DEF Folding, Step, Pick
<1>2. PICK f : f = CHOOSE e : Is(e)
  OBVIOUS
<1>3. TotalAmount(s) = f[DOMAIN s]
  BY <1>2 DEF TotalAmount, FoldLeft, MapThenFoldSet
<1> HIDE DEF Is
<1>4. Is(f)
  BY <1>1, <1>2, FoldingExists
<1>5. "total" # "remove"
  OBVIOUS
<1> QED BY <1>1, <1>3, <1>4, <1>5, LeftStates

LEMMA ShareStates ==
  ASSUME NEW s, NEW n \in Nat, DOMAIN s = 1 .. n, NEW amount, NEW total, total = TotalAmount(s)
  PROVE  \E g : Forward(g, "share", amount, total, 0, s, n, Shared(s, amount))
<1> DEFINE Is(f) == f = [t \in SUBSET DOMAIN s |->
                           IF t = {} THEN 0 ELSE f[t \ {Max(t)}] + Share(s[Max(t)], total, amount)]
<1>1. \A f : Is(f) <=> Folding(f, "share", amount, total, 0, s)
  BY DEF Folding, Step, Pick
<1>2. PICK f : f = CHOOSE e : Is(e)
  OBVIOUS
<1>3. Shared(s, amount) = f[DOMAIN s]
  BY <1>2 DEF Shared, FoldLeft, MapThenFoldSet
<1> HIDE DEF Is
<1>4. Is(f)
  BY <1>1, <1>2, FoldingExists
<1>5. "share" # "remove"
  OBVIOUS
<1> QED BY <1>1, <1>3, <1>4, <1>5, LeftStates

\* The total of n funds, as it is added up.
LEMMA TotalType ==
  ASSUME NEW n \in Nat, NEW s \in [1 .. n -> Fund],
         NEW f, Forward(f, "total", 0, 0, 0, s, n, TotalAmount(s))
  PROVE  \A k \in 0 .. n : f[k] \in Nat
<1>1. f[0] = 0 /\ \A k \in 1 .. n : f[k] = f[k - 1] + s[k].amount
  BY DEF Forward, Step
<1> DEFINE S == {k \in Nat : k <= n => f[k] \in Nat}
<1>2. 0 \in S
  BY <1>1
<1>3. ASSUME NEW k \in Nat, k \in S PROVE k + 1 \in S
  <2>1. CASE k + 1 <= n
    <3>1. k + 1 \in 1 .. n /\ (k + 1) - 1 = k /\ f[k] \in Nat
      BY <1>3, <2>1
    <3>2. s[k + 1].amount \in Nat
      BY <3>1 DEF Fund
    <3> QED BY <1>1, <3>1, <3>2
  <2>2. CASE ~(k + 1 <= n)
    BY <2>2
  <2> QED BY <2>1, <2>2
<1>4. Nat \subseteq S
  <2> HIDE DEF S
  <2> QED BY <1>2, <1>3, NatSetInduction
<1> QED BY <1>4

\* A share is at most 99% of the part its fund has in the stake.
LEMMA ShareBound ==
  ASSUME NEW x \in Fund, NEW total \in Nat, total > 0, NEW amount \in Nat
  PROVE  /\ Share(x, total, amount) \in Nat
         /\ x.amount * amount \in Nat
         /\ (Share(x, total, amount) * total) * 100 <= (x.amount * amount) * 99
<1>1. PICK a \in Nat : a = x.amount
  BY DEF Fund
<1>2. PICK p, y, w, z : p = a * amount /\ y = p \div 100 /\ w = y * 99 /\ z = w \div total
  OBVIOUS
<1>3. p \in Nat
  BY <1>2
<1>4. y \in Nat /\ y * 100 <= p
  BY <1>2, <1>3
<1>5. w \in Nat
  BY <1>2, <1>4
<1>6. z \in Nat /\ total * z <= w
  <2>1. w \div total \in Nat /\ w % total \in 0 .. total - 1 /\ w = total * (w \div total) + (w % total)
    BY <1>5
  <2>2. total * z \in Nat
    BY <1>2, <2>1
  <2> QED BY <1>2, <1>5, <2>1, <2>2
<1>7. z * total = total * z /\ z * total \in Nat
  BY <1>6
<1>8. (z * total) * 100 <= p * 99
  BY <1>2, <1>3, <1>4, <1>5, <1>6, <1>7
<1>9. Share(x, total, amount) = z
  BY <1>1, <1>2 DEF Share
<1> QED BY <1>1, <1>2, <1>3, <1>6, <1>8, <1>9

\* What is shared out is at most the reward, and less when there is one: the check
\* totalAdded > out.Amount of ApplyPosReward never fails.
LEMMA SharedBound ==
  ASSUME NEW n \in Nat, NEW s \in [1 .. n -> Fund], NEW amount \in Nat, TotalAmount(s) > 0
  PROVE  /\ TotalAmount(s) \in Nat /\ Shared(s, amount) \in Nat
         /\ Shared(s, amount) <= amount
         /\ amount > 0 => Shared(s, amount) < amount
<1>1. PICK f : Forward(f, "total", 0, 0, 0, s, n, TotalAmount(s))
  BY TotalStates
<1>2. \A k \in 0 .. n : f[k] \in Nat
  BY <1>1, TotalType
<1>3. PICK total : total = TotalAmount(s)
  OBVIOUS
<1>4. f[0] = 0 /\ f[n] = total /\ \A k \in 1 .. n : f[k] = f[k - 1] + s[k].amount
  BY <1>1, <1>3 DEF Forward, Step
<1>5. total \in Nat /\ total > 0
  BY <1>2, <1>3, <1>4
<1>6. PICK e : Forward(e, "share", amount, total, 0, s, n, Shared(s, amount))
  BY <1>3, ShareStates
<1>7. e[0] = 0 /\ e[n] = Shared(s, amount) /\ \A k \in 1 .. n : e[k] = e[k - 1] + Share(s[k], total, amount)
  BY <1>6 DEF Forward, Step
<1> DEFINE Good(k) == e[k] \in Nat /\ (e[k] * total) * 100 <= (f[k] * amount) * 99
           S == {k \in Nat : k <= n => Good(k)}
<1>8. 0 \in S
  <2>1. 0 * total = 0 /\ 0 * amount = 0
    BY <1>5
  <2> QED BY <1>4, <1>7, <2>1
<1>9. ASSUME NEW k \in Nat, k + 1 <= n, Good(k) PROVE Good(k + 1)
  <2>1. k + 1 \in 1 .. n /\ (k + 1) - 1 = k /\ k \in 0 .. n
    BY <1>9
  <2>2. PICK x \in Fund : x = s[k + 1]
    BY <2>1
  <2>3. PICK z, a, b, c : z = Share(x, total, amount) /\ a = x.amount /\ b = f[k] /\ c = e[k]
    OBVIOUS
  <2>4. z \in Nat /\ a * amount \in Nat /\ (z * total) * 100 <= (a * amount) * 99
    BY <1>5, <2>3, ShareBound
  <2>5. a \in Nat /\ b \in Nat /\ c \in Nat /\ (c * total) * 100 <= (b * amount) * 99
    BY <1>2, <1>9, <2>1, <2>3 DEF Fund
  <2>6. f[k + 1] = b + a /\ e[k + 1] = c + z
    BY <1>4, <1>7, <2>1, <2>2, <2>3
  <2>7. (b + a) * amount = b * amount + a * amount /\ (c + z) * total = c * total + z * total
    BY <1>5, <2>4, <2>5
  <2>8. b * amount \in Nat /\ c * total \in Nat /\ z * total \in Nat
    BY <1>5, <2>4, <2>5
  <2>9. ((c + z) * total) * 100 <= ((b + a) * amount) * 99
    BY <2>4, <2>5, <2>7, <2>8
  <2>10. c + z \in Nat
    BY <2>4, <2>5
  <2> QED BY <2>6, <2>9, <2>10
<1> HIDE DEF Good
<1>10. ASSUME NEW k \in Nat, k \in S PROVE k + 1 \in S
  <2>1. k + 1 <= n => k <= n
    OBVIOUS
  <2> QED BY <1>9, <1>10, <2>1
<1>11. Nat \subseteq S
  <2> HIDE DEF S
  <2> QED BY <1>8, <1>10, NatSetInduction
<1>12. Good(n)
  BY <1>11
<1>13. PICK c : c = Shared(s, amount)
  OBVIOUS
<1>14. c \in Nat /\ (c * total) * 100 <= (total * amount) * 99
  BY <1>4, <1>7, <1>12, <1>13 DEF Good
<1>15. PICK p : p = total * amount
  OBVIOUS
<1>16. p \in Nat /\ p = amount * total /\ c * total \in Nat
  BY <1>5, <1>14, <1>15
<1>17. c <= amount
  <2> SUFFICES ASSUME c >= amount + 1 PROVE FALSE
    BY <1>14
  <2>1. c * total >= (amount + 1) * total
    BY <1>5, <1>14
  <2>2. (amount + 1) * total = amount * total + total
    BY <1>5
  <2> QED BY <1>5, <1>14, <1>15, <1>16, <2>1, <2>2
<1>18. ASSUME amount > 0 PROVE c < amount
  <2> SUFFICES ASSUME c >= amount PROVE FALSE
    BY <1>14
  <2>1. c = amount
    BY <1>14, <1>17
  <2>2. p >= 1
    BY <1>5, <1>15, <1>18
  <2> QED BY <1>14, <1>15, <1>16, <2>1, <2>2
<1> QED BY <1>3, <1>5, <1>13, <1>14, <1>17, <1>18

\* In M delegate d got a reward that it had not in L: no fund has less and that of its
\* owner has more, and the delegate as it was is saved.
Rewards(L, h, d, amount, M) ==
  /\ M.staked = L.staked + amount
  /\ M.history = [L.history EXCEPT ![h] = L.dels[d]]
  /\ \A e \in DelegateIds : M.dels[e].owner = L.dels[e].owner /\ (e # d => M.dels[e] = L.dels[e])
  /\ \A v : Held(M.dels[d].funds, v) >= Held(L.dels[d].funds, v)
  /\ amount > 0 => Held(M.dels[d].funds, L.dels[d].owner) > Held(L.dels[d].funds, L.dels[d].owner)
  /\ M.dels[d].funds # <<>>

\* ApplyPosReward pays into every fund, and opens one for the owner of the delegate
\* when it has none.
LEMMA PosRewardStored ==
  ASSUME NEW L, Stored(L), NEW h, NEW d, PosValid(L, d), NEW amount, Gains(amount),
         NEW M, M = PosReward(L, h, d, amount)
  PROVE  Stored(M) /\ M.ok = L.ok /\ Rewards(L, h, d, amount, M)
<1>1. PICK funds, owner, total, added :
        /\ funds = L.dels[d].funds /\ owner = L.dels[d].owner
        /\ total = TotalAmount(funds) /\ added = Shared(funds, amount)
  OBVIOUS
<1>2. d \in DelegateIds /\ total > 0 /\ owner # Nobody
  BY <1>1 DEF PosValid, Registered
<1>3. L.dels[d] \in Holder
  BY <1>2 DEF Stored
<1>4. Apart(funds) /\ owner \in Users
  BY <1>1, <1>2, <1>3 DEF Holder, Delegate
<1>5. PICK n \in Nat : n = Len(funds) /\ DOMAIN funds = 1 .. n /\ funds \in [1 .. n -> Fund]
  BY <1>4 DEF Apart
<1>6. amount \in Nat
  BY DEF Gains
<1>7. total \in Nat /\ added \in Nat /\ added <= amount /\ (amount > 0 => added < amount)
  BY <1>1, <1>2, <1>5, <1>6, SharedBound
<1>8. Gains(amount - added)
  BY <1>6, <1>7 DEF Gains
<1>9. PICK grown : grown = [i \in 1 .. n |->
                              [funds[i] EXCEPT !.amount =
                                 @ + Share(funds[i], total, amount)
                                   + IF funds[i].owner = owner THEN amount - added ELSE 0]]
  OBVIOUS
<1>10. ASSUME NEW i \in 1 .. n
       PROVE  grown[i] \in Fund /\ grown[i].owner = funds[i].owner /\ Gains(grown[i].amount)
  <2>1. PICK x \in Fund : x = funds[i]
    BY <1>5
  <2>2. PICK z, y : z = Share(x, total, amount) /\ y = IF x.owner = owner THEN amount - added ELSE 0
    OBVIOUS
  <2>3. z \in Nat
    BY <1>2, <1>6, <1>7, <2>2, ShareBound
  <2>4. y \in Nat
    BY <1>6, <1>7, <2>2
  <2>5. Gains(x.amount) /\ x.amount \in Nat
    BY <1>4, <1>5, <2>1 DEF Apart, Gains
  <2>6. grown[i] = [x EXCEPT !.amount = @ + z + y]
    BY <1>9, <2>1, <2>2
  <2>7. x.amount + z + y \in Nat /\ Gains(x.amount + z + y)
    BY <2>3, <2>4, <2>5 DEF Gains
  <2> QED BY <2>1, <2>6, <2>7 DEF Fund
<1>21. ASSUME NEW i \in 1 .. n
       PROVE  /\ grown[i].amount \in Nat /\ funds[i].amount \in Nat /\ grown[i].amount >= funds[i].amount
              /\ funds[i].owner = owner => grown[i].amount >= funds[i].amount + (amount - added)
  <2>1. PICK x \in Fund : x = funds[i]
    BY <1>5
  <2>2. PICK z, y : z = Share(x, total, amount) /\ y = IF x.owner = owner THEN amount - added ELSE 0
    OBVIOUS
  <2>3. z \in Nat
    BY <1>2, <1>6, <1>7, <2>2, ShareBound
  <2>4. y \in Nat
    BY <1>6, <1>7, <2>2
  <2>5. x.amount \in Nat
    BY DEF Fund
  <2>6. grown[i] = [x EXCEPT !.amount = @ + z + y]
    BY <1>9, <2>1, <2>2
  <2>7. grown[i].amount = x.amount + z + y
    BY <2>6 DEF Fund
  <2>8. x.owner = owner => y = amount - added
    BY <2>2
  <2> QED BY <1>6, <1>7, <2>1, <2>3, <2>4, <2>5, <2>7, <2>8
<1>11. DOMAIN grown = 1 .. n /\ grown \in [1 .. n -> Fund] /\ grown \in Seq(Fund) /\ Len(grown) = n
  <2>1. DOMAIN grown = 1 .. n /\ grown = [i \in 1 .. n |-> grown[i]]
    BY <1>9
  <2>2. grown \in [1 .. n -> Fund]
    BY <1>10, <2>1
  <2> QED BY <2>1, <2>2
<1>12. PICK more : more = IF FundOf(funds, owner) = {}
                          THEN Append(grown, [owner |-> owner, amount |-> amount - added, unlock |-> 0])
                          ELSE grown
  OBVIOUS
<1>13. Apart(more)
  <2>1. CASE FundOf(funds, owner) = {}
    <3>1. PICK f : f = [owner |-> owner, amount |-> amount - added, unlock |-> 0]
      OBVIOUS
    <3>2. f \in Fund /\ f.owner = owner /\ Gains(f.amount)
      BY <1>4, <1>8, <3>1 DEF Fund, Gains
    <3>3. more = Append(grown, f)
      BY <1>12, <2>1, <3>1
    <3>4. /\ more \in Seq(Fund) /\ DOMAIN more = 1 .. n + 1 /\ more[n + 1] = f
          /\ \A i \in 1 .. n : more[i] = grown[i]
      BY <1>11, <3>2, <3>3
    <3>5. \A i \in 1 .. n : funds[i].owner # owner
      BY <1>5, <2>1 DEF FundOf
    <3>6. \A i \in 1 .. n + 1 : i \in 1 .. n \/ i = n + 1
      OBVIOUS
    <3>7. \A i \in 1 .. n : more[i].owner = funds[i].owner /\ more[i].owner # owner
      BY <1>10, <3>4, <3>5
    <3>8. \A i, j \in 1 .. n : more[i].owner = more[j].owner => i = j
      BY <1>4, <1>5, <3>7 DEF Apart
    <3>9. \A i, j \in 1 .. n + 1 : more[i].owner = more[j].owner => i = j
      BY <3>2, <3>4, <3>6, <3>7, <3>8
    <3>10. \A i \in 1 .. n + 1 : Gains(more[i].amount)
      BY <1>10, <3>2, <3>4, <3>6
    <3> QED BY <3>4, <3>9, <3>10 DEF Apart
  <2>2. CASE FundOf(funds, owner) # {}
    <3>1. more = grown
      BY <1>12, <2>2
    <3>2. \A i, j \in 1 .. n : more[i].owner = more[j].owner => i = j
      BY <1>4, <1>5, <1>10, <3>1 DEF Apart
    <3> QED BY <1>10, <1>11, <3>1, <3>2 DEF Apart
  <2> QED BY <2>1, <2>2
<1>14. M = [L EXCEPT !.staked = @ + amount, !.history[h] = L.dels[d], !.dels[d].funds = more]
  BY <1>1, <1>5, <1>9, <1>12 DEF PosReward
<1>15. PICK K : K = [L EXCEPT !.staked = @ + amount, !.dels[d].funds = more]
  OBVIOUS
<1>16. /\ Shape(K) /\ K.ok = L.ok /\ K.staked = L.staked + amount /\ K.history = L.history
       /\ K.dels = [L.dels EXCEPT ![d].funds = more]
  BY <1>15 DEF Stored, Shape
<1>17. K.staked \in Nat
  BY <1>6, <1>16 DEF Stored
<1>29. Registered(L, d)
  BY DEF PosValid
<1>18. Stored(K)
  BY <1>2, <1>29, <1>13, <1>16, <1>17, FundsStored
<1>19. /\ Shape(M) /\ M.ok = L.ok /\ M.staked = K.staked /\ M.dels = K.dels
       /\ M.history = [L.history EXCEPT ![h] = L.dels[d]]
  BY <1>14, <1>15, <1>16 DEF Stored, Shape
<1>20. M.history \in [1 .. MaxHeight -> Holder]
  BY <1>3, <1>19 DEF Stored
<1>23. \A i \in 1 .. n : i \in DOMAIN more /\ more[i] = grown[i]
  BY <1>11, <1>12
<1>24. ASSUME NEW v
       PROVE  Held(more, v) >= Held(funds, v)
  <2>1. Held(more, v) \in Nat
    BY <1>13, HeldType
  <2>2. CASE \E i \in 1 .. n : funds[i].owner = v
    <3>1. PICK i \in 1 .. n : funds[i].owner = v
      BY <2>2
    <3>2. Held(funds, v) = funds[i].amount
      BY <1>4, <1>5, <3>1, HeldAt
    <3>3. i \in DOMAIN more /\ more[i] = grown[i] /\ more[i].owner = v
      BY <1>10, <1>23, <3>1
    <3>4. Held(more, v) = grown[i].amount
      BY <1>13, <3>3, HeldAt
    <3> QED BY <1>21, <3>2, <3>4
  <2>3. CASE \A i \in 1 .. n : funds[i].owner # v
    <3>1. Held(funds, v) = 0
      BY <1>5, <2>3, HeldNone
    <3> QED BY <2>1, <3>1
  <2> QED BY <2>2, <2>3
<1>25. ASSUME amount > 0
       PROVE  Held(more, owner) > Held(funds, owner)
  <2>1. amount - added > 0
    BY <1>6, <1>7, <1>25
  <2>2. CASE \E i \in 1 .. n : funds[i].owner = owner
    <3>1. PICK i \in 1 .. n : funds[i].owner = owner
      BY <2>2
    <3>2. Held(funds, owner) = funds[i].amount
      BY <1>4, <1>5, <3>1, HeldAt
    <3>3. i \in DOMAIN more /\ more[i] = grown[i] /\ more[i].owner = owner
      BY <1>10, <1>23, <3>1
    <3>4. Held(more, owner) = grown[i].amount
      BY <1>13, <3>3, HeldAt
    <3> QED BY <1>6, <1>7, <1>21, <2>1, <3>1, <3>2, <3>4
  <2>3. CASE \A i \in 1 .. n : funds[i].owner # owner
    <3>1. Held(funds, owner) = 0
      BY <1>5, <2>3, HeldNone
    <3>2. PICK f : f = [owner |-> owner, amount |-> amount - added, unlock |-> 0]
      OBVIOUS
    <3>3. more = Append(grown, f)
      BY <1>5, <1>12, <2>3, <3>2 DEF FundOf
    <3>4. n + 1 \in DOMAIN more /\ more[n + 1] = f
      BY <1>11, <3>3
    <3>5. Held(more, f.owner) = f.amount
      BY <1>13, <3>4, HeldAt
    <3> QED BY <2>1, <3>1, <3>2, <3>5
  <2> QED BY <2>2, <2>3
<1>26. /\ M.dels[d].funds = more
       /\ \A e \in DelegateIds : M.dels[e].owner = L.dels[e].owner /\ (e # d => M.dels[e] = L.dels[e])
  <2>1. PICK D \in [DelegateIds -> Holder] : D = L.dels
    BY DEF Stored
  <2>2. D[d] \in Delegate
    BY <1>2 DEF Holder
  <2>3. PICK y : y = [D[d] EXCEPT !.funds = more]
    OBVIOUS
  <2>4. y.owner = D[d].owner /\ y.funds = more
    BY <2>2, <2>3 DEF Delegate
  <2>5. M.dels = [D EXCEPT ![d] = y]
    BY <1>16, <1>19, <2>1, <2>3
  <2>6. M.dels[d] = y /\ \A e \in DelegateIds : e # d => M.dels[e] = D[e]
    BY <1>2, <2>5
  <2> QED BY <2>1, <2>4, <2>6
<1>28. more # <<>>
  <2>1. CASE FundOf(funds, owner) = {}
    <3>1. n + 1 \in DOMAIN more
      BY <1>11, <1>12, <2>1
    <3> QED BY <3>1
  <2>2. CASE FundOf(funds, owner) # {}
    <3>1. PICK i \in 1 .. n : TRUE
      BY <1>5, <2>2 DEF FundOf
    <3>2. i \in DOMAIN more
      BY <1>23
    <3> QED BY <3>2
  <2> QED BY <2>1, <2>2
<1>27. Rewards(L, h, d, amount, M)
  BY <1>1, <1>16, <1>19, <1>24, <1>25, <1>26, <1>28 DEF Rewards
<1> QED BY <1>18, <1>19, <1>20, <1>27 DEF Stored

LEMMA RefuseStored ==
  ASSUME NEW L, Stored(L)
  PROVE  Stored(Refuse(L))
BY DEF Stored, Shape, Refuse

\* RemovePosReward puts back a delegate that was saved.
LEMMA RemovePosRewardStored ==
  ASSUME NEW L, Stored(L), NEW h \in 1 .. MaxHeight, NEW d, NEW amount \in Nat,
         UnposValid(L, h, d, amount), NEW M, M = RemovePosReward(L, h, d, amount)
  PROVE  Stored(M) /\ M.ok = L.ok
<1>1. /\ Shape(M) /\ M.ok = L.ok /\ M.staked = L.staked - amount /\ M.history = L.history
      /\ M.dels = [L.dels EXCEPT ![d] = L.history[h]]
  BY DEF RemovePosReward, Stored, Shape
<1>2. M.staked \in Nat
  BY <1>1 DEF UnposValid, Stored
<1>3. L.history[h] \in Holder
  BY DEF Stored
<1>4. M.dels \in [DelegateIds -> Holder]
  BY <1>1, <1>3 DEF Stored
<1> QED BY <1>1, <1>2, <1>4 DEF Stored

\* An output that is a reward of a delegate adds to its funds.
Earns(out) == out.pos # 0 => Gains(out.amount)

LEMMA ApplyOutputStored ==
  ASSUME NEW L, Stored(L), NEW h, NEW out, Earns(out), NEW M, M = ApplyOutput(L, h, out)
  PROVE  Stored(M)
<1>1. PICK paid : paid = [L EXCEPT !.bal[out.to] = @ + out.amount, !.incoming[out.to] = @ + 1]
  OBVIOUS
<1>2. Stored(paid)
  BY <1>1 DEF Stored, Shape
<1>3. CASE out.pos # 0 /\ PosValid(paid, out.pos)
  <2>1. Stored(PosReward(paid, h, out.pos, out.amount))
    BY <1>2, <1>3, PosRewardStored DEF Earns
  <2> QED BY <1>1, <1>2, <1>3, <2>1 DEF ApplyOutput
<1>4. CASE ~(out.pos # 0 /\ PosValid(paid, out.pos))
  <2>1. M = L \/ M = paid \/ M = Refuse(L)
    BY <1>1, <1>4 DEF ApplyOutput
  <2> QED BY <1>2, <2>1, RefuseStored
<1> QED BY <1>3, <1>4

LEMMA RemoveOutputStored ==
  ASSUME NEW L, Stored(L), NEW h \in 1 .. MaxHeight, NEW out, Earns(out), NEW M, M = RemoveOutput(L, h, out)
  PROVE  Stored(M)
<1>1. PICK taken : taken = [L EXCEPT !.bal[out.to] = @ - out.amount, !.incoming[out.to] = @ - 1]
  OBVIOUS
<1>2. Stored(taken)
  BY <1>1 DEF Stored, Shape
<1>3. CASE out.pos # 0 /\ UnposValid(taken, h, out.pos, out.amount)
  <2>0. out.amount \in Nat
    BY <1>3 DEF Earns, Gains
  <2>1. Stored(RemovePosReward(taken, h, out.pos, out.amount))
    BY <1>2, <1>3, <2>0, RemovePosRewardStored
  <2>2. M = L \/ M = taken \/ M = Refuse(L) \/ M = RemovePosReward(taken, h, out.pos, out.amount)
    BY <1>1 DEF RemoveOutput
  <2> QED BY <1>2, <2>1, <2>2, RefuseStored
<1>4. CASE ~(out.pos # 0 /\ UnposValid(taken, h, out.pos, out.amount))
  <2>1. M = L \/ M = taken \/ M = Refuse(L)
    BY <1>1, <1>4 DEF RemoveOutput
  <2> QED BY <1>2, <2>1, RefuseStored
<1> QED BY <1>3, <1>4

LEMMA PaidStored ==
  ASSUME NEW L, Stored(L), NEW h, NEW s, NEW n \in Nat, DOMAIN s = 1 .. n,
         \A k \in 1 .. n : Earns(s[k])
  PROVE  Stored(ApplyTxOutputsToState(L, h, s))
<1>1. PICK g : Forward(g, "pay", h, 0, L, s, n, ApplyTxOutputsToState(L, h, s))
  BY PayStates
<1>2. \A k \in 1 .. n : g[k] = ApplyOutput(g[k - 1], h, s[k])
  BY <1>1 DEF Forward, Step
<1> DEFINE S == {k \in Nat : k <= n => Stored(g[k])}
<1>3. 0 \in S
  BY <1>1 DEF Forward
<1>4. ASSUME NEW k \in Nat, k \in S PROVE k + 1 \in S
  <2>1. CASE k + 1 <= n
    <3>1. k + 1 \in 1 .. n /\ (k + 1) - 1 = k /\ Stored(g[k])
      BY <1>4, <2>1
    <3>2. g[k + 1] = ApplyOutput(g[k], h, s[k + 1]) /\ Earns(s[k + 1])
      BY <1>2, <3>1
    <3> QED BY <3>1, <3>2, ApplyOutputStored
  <2>2. CASE ~(k + 1 <= n)
    BY <2>2
  <2> QED BY <2>1, <2>2
<1>5. Nat \subseteq S
  <2> HIDE DEF S
  <2> QED BY <1>3, <1>4, NatSetInduction
<1>6. Stored(g[n])
  BY <1>5
<1> QED BY <1>1, <1>6 DEF Forward

LEMMA TakenStored ==
  ASSUME NEW L, Stored(L), NEW h \in 1 .. MaxHeight, NEW s, NEW n \in Nat, DOMAIN s = 1 .. n,
         \A k \in 1 .. n : Earns(s[k])
  PROVE  Stored(RemoveTxOutputsFromState(L, h, s))
<1>1. PICK g : Forward(g, "take", h, 0, L, s, n, RemoveTxOutputsFromState(L, h, s))
  BY TakeStates
<1>2. \A k \in 1 .. n : g[k] = RemoveOutput(g[k - 1], h, s[k])
  BY <1>1 DEF Forward, Step
<1> DEFINE S == {k \in Nat : k <= n => Stored(g[k])}
<1>3. 0 \in S
  BY <1>1 DEF Forward
<1>4. ASSUME NEW k \in Nat, k \in S PROVE k + 1 \in S
  <2>1. CASE k + 1 <= n
    <3>1. k + 1 \in 1 .. n /\ (k + 1) - 1 = k /\ Stored(g[k])
      BY <1>4, <2>1
    <3>2. g[k + 1] = RemoveOutput(g[k], h, s[k + 1]) /\ Earns(s[k + 1])
      BY <1>2, <3>1
    <3> QED BY <3>1, <3>2, RemoveOutputStored
  <2>2. CASE ~(k + 1 <= n)
    BY <2>2
  <2> QED BY <2>1, <2>2
<1>5. Nat \subseteq S
  <2> HIDE DEF S
  <2> QED BY <1>3, <1>4, NatSetInduction
<1>6. Stored(g[n])
  BY <1>5
<1> QED BY <1>1, <1>6 DEF Forward

\* A transaction pays no rewards.
LEMMA OutputsPlain ==
  ASSUME NEW tx \in Transaction
  PROVE  \A k \in DOMAIN Outputs(tx) : Earns(Outputs(tx)[k])
<1>1. tx.kind \in {"transfer", "register", "set", "stake", "unstake"}
  BY DEF Transaction
<1>2. CASE tx.kind = "set"
  <2>1. Outputs(tx) = <<>>
    BY <1>2 DEF Outputs
  <2> QED BY <2>1
<1>3. CASE tx.kind # "set"
  <2>1. PICK o : Outputs(tx) = <<o>> /\ o.pos = 0
    BY <1>1, <1>3 DEF Outputs
  <2>2. \A k \in DOMAIN Outputs(tx) : Outputs(tx)[k] = o
    BY <2>1
  <2> QED BY <2>1, <2>2 DEF Earns
<1> QED BY <1>2, <1>3

LEMMA TxAmounts ==
  ASSUME NEW tx \in Transaction
  PROVE  /\ tx.signer \in Users /\ tx.amount \in Nat /\ tx.prev \in Nat
         /\ tx.kind \in {"stake", "unstake"} => Gains(tx.amount) /\ tx.amount > 0
<1>1. /\ tx.signer \in Users /\ tx.amount \in Nat /\ tx.prev \in Nat /\ tx.fee \in Nat /\ tx.fee > 0
      /\ tx.kind = "stake" => tx.amount > 0
      /\ tx.kind = "unstake" => tx.fee <= tx.amount
  BY DEF Transaction
<1>2. tx.kind = "unstake" => tx.amount > 0
  BY <1>1
<1> QED BY <1>1, <1>2 DEF Gains

\* Transactions and their undoing keep every delegate's funds apart.
LEMMA EffectStored ==
  ASSUME NEW L, Stored(L), NEW tx \in Transaction, NEW top \in Nat, TxValid(L, tx, top),
         NEW K, K = DelegateEffect(L, tx, top)
  PROVE  Stored(K)
<1>1. PICK d, u, amount : d = tx.delegate /\ u = tx.signer /\ amount = tx.amount
  OBVIOUS
<1>2. /\ u \in Users /\ amount \in Nat
      /\ tx.kind \in {"stake", "unstake"} => Gains(amount)
  BY <1>1, TxAmounts
<1>3. CASE tx.kind = "stake"
  <2>1. d \in DelegateIds /\ Registered(L, d)
    BY <1>1, <1>3 DEF TxValid, StakeValid, Registered
  <2>2. PICK r : K = Stake(L, d, u, amount, top, r)
    BY <1>1, <1>3 DEF DelegateEffect
  <2> QED BY <1>2, <1>3, <2>1, <2>2, StakeStored
<1>4. CASE tx.kind = "unstake"
  <2>1. UnstakeValid(L, d, u, amount, top, FALSE)
    BY <1>1, <1>4 DEF TxValid
  <2>2. d \in DelegateIds
    BY <2>1 DEF UnstakeValid, Registered
  <2>3. PICK r : K = Unstake(L, d, u, amount, r, 0) /\ r = FALSE
    BY <1>1, <1>4 DEF DelegateEffect
  <2>4. UnstakeValid(L, d, u, amount, top, r)
    BY <2>1, <2>3
  <2> QED BY <1>2, <2>2, <2>3, <2>4, UnstakeStored
<1>5. CASE tx.kind = "register"
  <2>1. PICK x : x = [owner |-> u, funds |-> <<>>]
    OBVIOUS
  <2>2. x \in Holder
    BY <1>2, <2>1, NewHolder
  <2>3. K = [L EXCEPT !.dels[d] = x]
    BY <1>1, <1>5, <2>1 DEF DelegateEffect
  <2>4. /\ Shape(K) /\ K.ok = L.ok /\ K.staked = L.staked /\ K.history = L.history
        /\ K.dels = [L.dels EXCEPT ![d] = x]
    BY <2>3 DEF Stored, Shape
  <2>5. K.dels \in [DelegateIds -> Holder]
    BY <2>2, <2>4 DEF Stored
  <2> QED BY <2>4, <2>5 DEF Stored
<1>6. CASE tx.kind = "set"
  <2>1. K = [L EXCEPT !.delegate[u] = d]
    BY <1>1, <1>6 DEF DelegateEffect
  <2> QED BY <2>1 DEF Stored, Shape
<1>7. CASE tx.kind \notin {"stake", "unstake", "register", "set"}
  <2>1. K = L
    BY <1>7 DEF DelegateEffect
  <2> QED BY <2>1
<1> QED BY <1>3, <1>4, <1>5, <1>6, <1>7

LEMMA UndoStored ==
  ASSUME NEW L, Stored(L), NEW tx \in Transaction, NEW top \in Nat, UntxValid(L, tx, top),
         NEW K, K = DelegateUndo(L, tx, top)
  PROVE  Stored(K)
<1>1. PICK d, u, amount, p : d = tx.delegate /\ u = tx.signer /\ amount = tx.amount /\ p = tx.prev
  OBVIOUS
<1>2. /\ u \in Users /\ amount \in Nat /\ p \in Nat
      /\ tx.kind \in {"stake", "unstake"} => Gains(amount)
  BY <1>1, TxAmounts
<1>3. CASE tx.kind = "unstake"
  <2>1. d \in DelegateIds /\ Registered(L, d)
    BY <1>1, <1>3 DEF UntxValid, StakeValid, Registered
  <2>2. PICK r : K = Stake(L, d, u, amount, top, r)
    BY <1>1, <1>3 DEF DelegateUndo
  <2> QED BY <1>2, <1>3, <2>1, <2>2, StakeStored
<1>4. CASE tx.kind = "stake"
  <2>1. UnstakeValid(L, d, u, amount, top, TRUE)
    BY <1>1, <1>4 DEF UntxValid
  <2>2. d \in DelegateIds
    BY <2>1 DEF UnstakeValid, Registered
  <2>3. PICK r : K = Unstake(L, d, u, amount, r, p) /\ r = TRUE
    BY <1>1, <1>4 DEF DelegateUndo
  <2>4. UnstakeValid(L, d, u, amount, top, r)
    BY <2>1, <2>3
  <2> QED BY <1>2, <2>2, <2>3, <2>4, UnstakeStored
<1>5. CASE tx.kind = "register"
  <2>1. PICK x : x = [owner |-> Nobody, funds |-> <<>>]
    OBVIOUS
  <2>2. x \in Holder
    BY <2>1, NewHolder
  <2>3. K = [L EXCEPT !.dels[d] = x]
    BY <1>1, <1>5, <2>1 DEF DelegateUndo
  <2>4. /\ Shape(K) /\ K.ok = L.ok /\ K.staked = L.staked /\ K.history = L.history
        /\ K.dels = [L.dels EXCEPT ![d] = x]
    BY <2>3 DEF Stored, Shape
  <2>5. K.dels \in [DelegateIds -> Holder]
    BY <2>2, <2>4 DEF Stored
  <2> QED BY <2>4, <2>5 DEF Stored
<1>6. CASE tx.kind = "set"
  <2>1. K = [L EXCEPT !.delegate[u] = p]
    BY <1>1, <1>6 DEF DelegateUndo
  <2> QED BY <2>1 DEF Stored, Shape
<1>7. CASE tx.kind \notin {"stake", "unstake", "register", "set"}
  <2>1. K = L
    BY <1>7 DEF DelegateUndo
  <2> QED BY <2>1
<1> QED BY <1>3, <1>4, <1>5, <1>6, <1>7

LEMMA ApplyTxStored ==
  ASSUME NEW L, Stored(L), NEW h, NEW tx \in Transaction, NEW top \in Nat, NEW M,
         M = ApplyTxToState(L, h, tx, top)
  PROVE  Stored(M)
<1>1. PICK K : K = DelegateEffect(L, tx, top)
  OBVIOUS
<1>2. PICK spent : spent = [K EXCEPT !.nonce[tx.signer] = @ + 1,
                                     !.bal[Input(tx).from] = @ - Input(tx).amount]
  OBVIOUS
<1>3. M = IF L.ok /\ TxValid(L, tx, top) THEN ApplyTxOutputsToState(spent, h, Outputs(tx)) ELSE Refuse(L)
  BY <1>1, <1>2 DEF ApplyTxToState
<1>4. CASE TxValid(L, tx, top)
  <2>1. Stored(K)
    BY <1>1, <1>4, EffectStored
  <2>2. Stored(spent)
    BY <1>2, <2>1 DEF Stored, Shape
  <2>3. PICK n \in Nat : DOMAIN Outputs(tx) = 1 .. n
    BY OutputList
  <2>4. \A k \in 1 .. n : Earns(Outputs(tx)[k])
    BY <2>3, OutputsPlain
  <2>5. Stored(ApplyTxOutputsToState(spent, h, Outputs(tx)))
    BY <2>2, <2>3, <2>4, PaidStored
  <2> QED BY <1>3, <2>5, RefuseStored
<1>5. CASE ~TxValid(L, tx, top)
  BY <1>3, <1>5, RefuseStored
<1> QED BY <1>4, <1>5

LEMMA RemoveTxStored ==
  ASSUME NEW L, Stored(L), NEW h \in 1 .. MaxHeight, NEW tx \in Transaction, NEW top \in Nat, NEW M,
         M = RemoveTxFromState(L, h, tx, top)
  PROVE  Stored(M)
<1>1. PICK unpaid : unpaid = RemoveTxOutputsFromState(L, h, Outputs(tx))
  OBVIOUS
<1>2. PICK back : back = [unpaid EXCEPT !.ok = L.ok, !.bal[Input(tx).from] = @ + Input(tx).amount]
  OBVIOUS
<1>3. PICK K : K = DelegateUndo(back, tx, top)
  OBVIOUS
<1>4. M = IF L.ok /\ UntxValid(back, tx, top)
          THEN [K EXCEPT !.nonce[tx.signer] = @ - 1] ELSE Refuse(L)
  BY <1>1, <1>2, <1>3 DEF RemoveTxFromState
<1>5. Stored(unpaid)
  <2>1. PICK n \in Nat : DOMAIN Outputs(tx) = 1 .. n
    BY OutputList
  <2>2. \A k \in 1 .. n : Earns(Outputs(tx)[k])
    BY <2>1, OutputsPlain
  <2> QED BY <1>1, <2>1, <2>2, TakenStored
<1>6. Stored(back)
  BY <1>2, <1>5 DEF Stored, Shape
<1>7. CASE UntxValid(back, tx, top)
  <2>1. Stored(K)
    BY <1>3, <1>6, <1>7, UndoStored
  <2>2. Stored([K EXCEPT !.nonce[tx.signer] = @ - 1])
    BY <2>1 DEF Stored, Shape
  <2> QED BY <1>4, <2>2, RefuseStored
<1>8. CASE ~UntxValid(back, tx, top)
  BY <1>4, <1>8, RefuseStored
<1> QED BY <1>7, <1>8

-----------------------------------------------------------------------------
(* Funds of a block                                                        *)

\* Every transaction pays a fee.
LEMMA FeesType ==
  ASSUME NEW n \in Nat, NEW s \in [1 .. n -> Transaction]
  PROVE  Fees(s) \in Nat /\ (n > 0 => Fees(s) > 0)
<1>1. PICK f : Forward(f, "fees", 0, 0, 0, s, n, Fees(s))
  BY FeeStates
<1>2. f[0] = 0 /\ f[n] = Fees(s) /\ \A k \in 1 .. n : f[k] = f[k - 1] + s[k].fee
  BY <1>1 DEF Forward, Step
<1> DEFINE S == {k \in Nat : k <= n => f[k] \in Nat /\ (k > 0 => f[k] > 0)}
<1>3. 0 \in S
  BY <1>2
<1>4. ASSUME NEW k \in Nat, k \in S PROVE k + 1 \in S
  <2>1. CASE k + 1 <= n
    <3>1. k + 1 \in 1 .. n /\ (k + 1) - 1 = k /\ f[k] \in Nat
      BY <1>4, <2>1
    <3>2. s[k + 1].fee \in Nat /\ s[k + 1].fee > 0
      BY <3>1 DEF Transaction
    <3> QED BY <1>2, <3>1, <3>2
  <2>2. CASE ~(k + 1 <= n)
    BY <2>2
  <2> QED BY <2>1, <2>2
<1>5. Nat \subseteq S
  <2> HIDE DEF S
  <2> QED BY <1>3, <1>4, NatSetInduction
<1> QED BY <1>2, <1>5

\* A delegate that a coinbase rewards gets something.
LEMMA CoinbaseEarns ==
  ASSUME NEW b \in AnyBlock, NEW h \in 1 .. MaxHeight, NEW cb,
         cb = CoinbaseTransaction(b, TotalReward(b, h))
  PROVE  \E m \in Nat : DOMAIN cb = 1 .. m /\ \A k \in 1 .. m : Earns(cb[k])
<1>1. PICK t \in Seq(Transaction) : t = b.txs
  BY DEF AnyBlock
<1>2. PICK n : n = Len(t)
  OBVIOUS
<1>3. n \in Nat /\ t \in [1 .. n -> Transaction]
  BY <1>2
<1>4. PICK total, reward, fees : total = TotalReward(b, h) /\ reward = Reward(h) /\ fees = Fees(t)
  OBVIOUS
<1>5. h \in Nat
  BY LedgerAssumption
<1>6. reward \in Nat /\ fees \in Nat
  BY <1>3, <1>4, <1>5, RewardType, FeesType
<1>7. total = reward + fees
  BY <1>1, <1>4 DEF TotalReward, Fees
<1>8. PICK gov, pow, pow2 : gov = (total * 10) \div 100 /\ pow = total \div 2 /\ pow2 = (pow * 3) \div 4
  OBVIOUS
<1>9. total \in Nat /\ gov \in Nat /\ pow \in Nat /\ total - pow - gov \in Nat
  BY <1>6, <1>7, <1>8
<1>10. PICK x, y, z :
           /\ x = [to |-> Gov, amount |-> gov, pos |-> 0]
           /\ y = [to |-> b.miner, amount |-> IF b.signed THEN pow ELSE pow2, pos |-> 0]
           /\ z = IF b.signed
                  THEN [to |-> DelegateAddr[b.delegate], amount |-> total - pow - gov, pos |-> b.delegate]
                  ELSE [to |-> Burned, amount |-> total - gov - pow2, pos |-> 0]
  OBVIOUS
<1>14. cb = IF z.amount # 0 THEN <<x, y, z>> ELSE <<x, y>>
  BY <1>4, <1>8, <1>10, Zenon DEF CoinbaseTransaction
<1>11. Earns(x) /\ Earns(y)
  BY <1>10 DEF Earns
<1>12. CASE z.amount # 0
  <2>1. Earns(z)
    <3>1. CASE b.signed
      <4>1. z.amount = total - pow - gov
        BY <1>10, <3>1
      <4>2. Gains(z.amount)
        BY <1>9, <1>12, <4>1 DEF Gains
      <4> QED BY <4>2 DEF Earns
    <3>2. CASE ~b.signed
      BY <1>10, <3>2 DEF Earns
    <3> QED BY <3>1, <3>2
  <2>2. cb = <<x, y, z>>
    BY <1>12, <1>14
  <2>3. DOMAIN cb = 1 .. 3 /\ cb[1] = x /\ cb[2] = y /\ cb[3] = z /\ \A k \in 1 .. 3 : k = 1 \/ k = 2 \/ k = 3
    BY <2>2
  <2>4. \A k \in 1 .. 3 : Earns(cb[k])
    BY <1>11, <2>1, <2>3
  <2> QED BY <2>3, <2>4
<1>13. CASE z.amount = 0
  <2>1. cb = <<x, y>>
    BY <1>13, <1>14
  <2>2. DOMAIN cb = 1 .. 2 /\ cb[1] = x /\ cb[2] = y /\ \A k \in 1 .. 2 : k = 1 \/ k = 2
    BY <2>1
  <2>3. \A k \in 1 .. 2 : Earns(cb[k])
    BY <1>11, <2>2
  <2> QED BY <2>2, <2>3
<1> QED BY <1>12, <1>13

LEMMA ApplyBlockStored ==
  ASSUME NEW L, Stored(L), NEW h \in 1 .. MaxHeight, NEW b \in AnyBlock, NEW top \in Nat, NEW M,
         M = ApplyBlockToState(L, h, b, top)
  PROVE  Stored(M)
<1>1. PICK t \in Seq(Transaction) : t = b.txs
  BY DEF AnyBlock
<1>2. PICK n : n = Len(t)
  OBVIOUS
<1>3. n \in Nat /\ t \in [1 .. n -> Transaction]
  BY <1>2
<1>4. PICK K : K = AfterTxs(L, h, t, top)
  OBVIOUS
<1>5. PICK cb : cb = CoinbaseTransaction(b, TotalReward(b, h))
  OBVIOUS
<1>6. M = IF b.next \in NextStakers(L) THEN ApplyTxOutputsToState(K, h, cb) ELSE Refuse(L)
  BY <1>1, <1>4, <1>5 DEF ApplyBlockToState, AfterTxs
<1>7. Stored(K)
  <2>1. PICK g : Forward(g, "apply", h, top, L, t, n, K)
    BY <1>3, <1>4, ApplyStates
  <2>2. g[0] = L /\ g[n] = K /\ \A k \in 1 .. n : g[k] = ApplyTxToState(g[k - 1], h, t[k], top)
    BY <2>1 DEF Forward, Step
  <2> DEFINE S == {k \in Nat : k <= n => Stored(g[k])}
  <2>3. 0 \in S
    BY <2>2
  <2>4. ASSUME NEW k \in Nat, k \in S PROVE k + 1 \in S
    <3>1. CASE k + 1 <= n
      <4>1. k + 1 \in 1 .. n /\ (k + 1) - 1 = k /\ Stored(g[k])
        BY <1>3, <2>4, <3>1
      <4>2. g[k + 1] = ApplyTxToState(g[k], h, t[k + 1], top) /\ t[k + 1] \in Transaction
        BY <1>3, <2>2, <4>1
      <4> QED BY <4>1, <4>2, ApplyTxStored
    <3>2. CASE ~(k + 1 <= n)
      BY <3>2
    <3> QED BY <3>1, <3>2
  <2>5. Nat \subseteq S
    <3> HIDE DEF S
    <3> QED BY <2>3, <2>4, NatSetInduction
  <2> QED BY <1>3, <2>2, <2>5
<1>8. PICK m \in Nat : DOMAIN cb = 1 .. m /\ \A k \in 1 .. m : Earns(cb[k])
  BY <1>5, CoinbaseEarns
<1>9. Stored(ApplyTxOutputsToState(K, h, cb))
  BY <1>7, <1>8, PaidStored
<1> QED BY <1>6, <1>9, RefuseStored

LEMMA RemoveBlockStored ==
  ASSUME NEW L, Stored(L), NEW h \in 1 .. MaxHeight, NEW b \in AnyBlock, NEW top \in Nat, NEW M,
         M = RemoveBlockFromState(L, h, b, top)
  PROVE  Stored(M)
<1>1. PICK t \in Seq(Transaction) : t = b.txs
  BY DEF AnyBlock
<1>2. PICK n : n = Len(t)
  OBVIOUS
<1>3. n \in Nat /\ t \in [1 .. n -> Transaction]
  BY <1>2
<1>4. PICK K : K = WithoutTxs(L, h, t, top)
  OBVIOUS
<1>5. PICK cb : cb = CoinbaseTransaction(b, TotalReward(b, h))
  OBVIOUS
<1>6. M = RemoveTxOutputsFromState(K, h, cb)
  BY <1>1, <1>4, <1>5 DEF RemoveBlockFromState, WithoutTxs
<1>7. Stored(K)
  <2>1. PICK g : Backward(g, "remove", h, top, L, t, n, K)
    BY <1>3, <1>4, RemoveStates
  <2>2. g[n] = L /\ g[0] = K /\ \A k \in 1 .. n : g[k - 1] = RemoveTxFromState(g[k], h, t[k], top)
    BY <2>1 DEF Backward, Step
  <2> DEFINE S == {k \in 0 .. n : Stored(g[k])}
  <2>3. n \in S
    BY <1>3, <2>2
  <2>4. ASSUME NEW k \in 1 .. n, k \in S PROVE k - 1 \in S
    <3>1. Stored(g[k]) /\ t[k] \in Transaction /\ k - 1 \in 0 .. n
      BY <1>3, <2>4
    <3> QED BY <2>2, <3>1, RemoveTxStored
  <2>5. 0 .. n \subseteq S
    <3> HIDE DEF S
    <3> QED BY <1>3, <2>3, <2>4, BackInduction
  <2> QED BY <1>3, <2>2, <2>5
<1>8. PICK m \in Nat : DOMAIN cb = 1 .. m /\ \A k \in 1 .. m : Earns(cb[k])
  BY <1>5, CoinbaseEarns
<1> QED BY <1>6, <1>7, <1>8, TakenStored

-----------------------------------------------------------------------------
(* Funds of a chain                                                        *)

\* L, the ledger of the blocks of c, is whole, and c is not higher than the bound.
Whole(L, c) ==
  /\ Stored(L) /\ L.ok = TRUE
  /\ c \in Seq(Block) /\ Len(c) <= MaxHeight

\* The inductive invariant: the accounts follow the chain, and the funds are good in
\* the ledger and in the one a failing reorganisation goes back to.
StakeInv ==
  /\ SupplyInv
  /\ Whole(led, chain)
  /\ mode # "main" => Whole(saved[1], saved[2])
  /\ topHeight \in 0 .. MaxHeight + MaxTipError

LEMMA OfferedListed ==
  ASSUME LedgerInv, NEW b \in Offered
  PROVE  b \in Block /\ b \in AnyBlock /\ Height < MaxHeight
<1>1. b \in AnyBlock
  BY OfferedBlocks DEF LedgerInv
<1>2. Height < MaxHeight /\ b \in Candidates(led, Height + 1)
  BY DEF Offered
<1>3. b.txs \in TxLists
  BY <1>2 DEF Candidates
<1> QED BY <1>1, <1>2, <1>3 DEF AnyBlock, Block

LEMMA StakeInit == Init => StakeInv
<1> SUFFICES ASSUME Init PROVE StakeInv
  OBVIOUS
<1>1. PICK L, c, x : L = led /\ c = chain /\ x = [owner |-> Nobody, funds |-> <<>>]
  OBVIOUS
<1>2. /\ Shape(L) /\ L.ok = TRUE /\ L.staked = 0 /\ c = <<>> /\ mode = "main"
      /\ L.dels = [d \in DelegateIds |-> x] /\ L.history = [h \in 1 .. MaxHeight |-> x]
  BY <1>1 DEF Init, Shape
<1>3. x \in Holder
  BY <1>1, NewHolder
<1>4. /\ L.dels \in [DelegateIds -> Holder] /\ L.history \in [1 .. MaxHeight -> Holder]
      /\ L.staked \in Nat /\ L.ok \in BOOLEAN
  <2>1. L.dels \in [DelegateIds -> Holder]
    BY <1>2, <1>3
  <2>2. L.history \in [1 .. MaxHeight -> Holder]
    BY <1>2, <1>3
  <2>3. L.staked \in Nat
    BY <1>2
  <2>4. L.ok \in BOOLEAN
    BY <1>2
  <2> QED BY <2>1, <2>2, <2>3, <2>4
<1>5. Stored(L)
  BY <1>2, <1>4 DEF Stored
<1>6. c \in Seq(Block) /\ Len(c) <= MaxHeight
  BY <1>2, LedgerAssumption
<1>7. Whole(L, c)
  BY <1>2, <1>5, <1>6 DEF Whole
<1>8. topHeight \in 0 .. MaxHeight + MaxTipError
  BY LedgerAssumption DEF Init
<1> QED BY <1>1, <1>2, <1>7, <1>8, SupplyInit DEF StakeInv

LEMMA TopType == StakeInv => topHeight \in Nat
BY LedgerAssumption DEF StakeInv

\* Every step leaves good funds, an undone block among them: it may not give back
\* the funds there were (undo_stakes), but those it leaves are of different owners.
LEMMA StakeStep ==
  ASSUME StakeInv, [Next]_vars
  PROVE  StakeInv'
<1>1. SupplyInv'
  BY SupplyStep DEF StakeInv
<1>2. PICK L, c, M : L = led /\ c = chain /\ M = led'
  OBVIOUS
<1>3. /\ LedgerInv /\ Whole(L, c) /\ Stored(L)
      /\ c \in Seq(Block) /\ c \in Seq(AnyBlock) /\ Len(c) \in Nat /\ Len(c) <= MaxHeight
  <2>1. LedgerInv /\ Whole(L, c)
    BY <1>2 DEF StakeInv, SupplyInv
  <2>2. c \in Seq(AnyBlock)
    BY <1>2, <2>1 DEF LedgerInv, Chained
  <2>3. Stored(L) /\ c \in Seq(Block) /\ Len(c) <= MaxHeight
    BY <2>1 DEF Whole
  <2>4. Len(c) \in Nat
    BY <2>3
  <2> QED BY <2>1, <2>2, <2>3, <2>4
<1>4. topHeight \in Nat
  BY TopType, LedgerAssumption
<1>5. ASSUME NEW b \in Offered, M = ApplyBlockToState(L, Height + 1, b, topHeight), M.ok,
             chain' = Append(chain, b)
      PROVE  Whole(led, chain)'
  <2>1. b \in Block /\ b \in AnyBlock /\ Height < MaxHeight
    BY <1>3, OfferedListed
  <2>2. Height = Len(c) /\ Height + 1 \in 1 .. MaxHeight
    BY <1>2, <1>3, <2>1, LedgerAssumption DEF Height
  <2>3. Stored(M)
    BY <1>3, <1>4, <1>5, <2>1, <2>2, ApplyBlockStored
  <2>4. M.ok = TRUE
    BY <1>5, <2>3 DEF Stored
  <2>5. Append(c, b) \in Seq(Block) /\ Len(Append(c, b)) = Len(c) + 1
    BY <1>3, <2>1
  <2>6. Len(Append(c, b)) <= MaxHeight
    BY <1>3, <2>2, <2>5, LedgerAssumption
  <2>7. Whole(M, Append(c, b))
    BY <2>3, <2>4, <2>5, <2>6 DEF Whole
  <2> QED BY <1>2, <1>5, <2>7
<1>6. CASE \E b \in Offered : AddMainchainBlock(b)
  <2>1. PICK b \in Offered : AddMainchainBlock(b)
    BY <1>6
  <2>2. Whole(led, chain)'
    BY <1>2, <1>5, <2>1 DEF AddMainchainBlock
  <2>3. Height < MaxHeight /\ Height \in Nat
    BY <1>2, <1>3, <2>1, OfferedListed DEF Height
  <2>4. topHeight' \in 0 .. MaxHeight + MaxTipError
    BY <2>1, <2>3, LedgerAssumption DEF AddMainchainBlock
  <2> QED BY <1>1, <2>1, <2>2, <2>4 DEF StakeInv, AddMainchainBlock
<1>7. CASE \E b \in Offered : ReapplyBlock(b)
  <2>1. PICK b \in Offered : ReapplyBlock(b)
    BY <1>7
  <2>2. Whole(led, chain)'
    BY <1>2, <1>5, <2>1 DEF ReapplyBlock
  <2>3. Whole(saved[1], saved[2])'
    BY <2>1 DEF ReapplyBlock, StakeInv
  <2> QED BY <1>1, <2>1, <2>2, <2>3 DEF StakeInv, ReapplyBlock
<1>8. CASE UndoBlock
  <2>1. Len(c) > 0 /\ M = RemoveBlockFromState(L, Len(c), c[Len(c)], topHeight) /\ M.ok
    BY <1>2, <1>8 DEF UndoBlock, Height
  <2>2. Len(c) \in 1 .. MaxHeight /\ c[Len(c)] \in AnyBlock
    BY <1>3, <2>1, LedgerAssumption
  <2>3. Stored(M)
    BY <1>3, <1>4, <2>1, <2>2, RemoveBlockStored
  <2>4. M.ok = TRUE
    BY <2>1, <2>3 DEF Stored
  <2>5. Front(c) \in Seq(Block) /\ Len(Front(c)) = Len(c) - 1
    <3>1. PICK n \in Nat : n = Len(c) - 1
      BY <1>3, <2>1
    <3>2. PICK e : e = Front(c)
      OBVIOUS
    <3>3. e = [i \in 1 .. n |-> c[i]]
      BY <3>1, <3>2, <1>3 DEF Front
    <3>4. \A i \in 1 .. n : c[i] \in Block
      BY <1>3, <3>1
    <3>5. e \in Seq(Block) /\ DOMAIN e = 1 .. n
      BY <3>3, <3>4
    <3> QED BY <3>1, <3>2, <3>5
  <2>6. Whole(M, Front(c))
    BY <1>3, <2>3, <2>4, <2>5, LedgerAssumption DEF Whole
  <2>7. Whole(led, chain)'
    BY <1>2, <1>8, <2>6 DEF UndoBlock
  <2>8. Whole(saved[1], saved[2])'
    <3>1. CASE mode = "main"
      BY <1>2, <1>3, <1>8, <3>1 DEF UndoBlock
    <3>2. CASE mode # "main"
      BY <1>8, <3>2 DEF UndoBlock, StakeInv
    <3> QED BY <3>1, <3>2
  <2> QED BY <1>1, <1>8, <2>7, <2>8 DEF StakeInv, UndoBlock
<1>9. CASE ReorgFails
  BY <1>1, <1>9 DEF ReorgFails, StakeInv
<1>10. CASE SwitchTop
  <2>1. Height \in Nat /\ Height <= MaxHeight
    BY <1>2, <1>3 DEF Height
  <2>2. topHeight' \in 0 .. MaxHeight + MaxTipError
    BY <1>10, <2>1, LedgerAssumption DEF SwitchTop
  <2> QED BY <1>1, <1>10, <2>2 DEF SwitchTop, StakeInv
<1>11. CASE UNCHANGED vars
  BY <1>1, <1>11 DEF vars, StakeInv
<1> QED BY <1>6, <1>7, <1>8, <1>9, <1>10, <1>11 DEF Next

LEMMA InvTypeOK == StakeInv => TypeOK
<1> SUFFICES ASSUME StakeInv PROVE TypeOK
  OBVIOUS
<1>1. PICK L : L = led
  OBVIOUS
<1>2. Stored(L) /\ L.ok = TRUE /\ chain \in Seq(Block)
  BY <1>1 DEF StakeInv, Whole
<1>3. Booked(led, chain) /\ chain \in Seq(AnyBlock) /\ mode \in {"main", "undo", "redo"}
  BY DEF StakeInv, SupplyInv, LedgerInv, Chained
<1>4. Accounts(L)
  BY <1>1, <1>3, BookedAccounts
<1>5. Holder \subseteq Delegate
  BY DEF Holder
<1>6. L.dels \in [DelegateIds -> Delegate] /\ L.history \in [1 .. MaxHeight -> Delegate] /\ L.staked \in Nat
  BY <1>2, <1>5 DEF Stored
<1>7. topHeight \in 0 .. MaxHeight + MaxTipError
  BY DEF StakeInv
<1> QED BY <1>1, <1>2, <1>3, <1>4, <1>6, <1>7 DEF TypeOK, Accounts

\* No unsigned subtraction of ApplyTxToState, RemoveTxFromState, ApplyStake,
\* ApplyUnstake, ApplyPosReward and their counterparts wraps: whatever blocks are
\* added, undone and applied again, every balance, counter, nonce, fund and staked
\* amount stays a natural number.
THEOREM LedgerTyped == Spec => []TypeOK
BY StakeInit, StakeStep, InvTypeOK, PTL DEF Spec

LEMMA InvFunds == StakeInv => FundsDistinct
<1> SUFFICES ASSUME StakeInv, NEW d \in DelegateIds, NEW funds, funds = led.dels[d].funds
             PROVE  /\ \A i, j \in DOMAIN funds : funds[i].owner = funds[j].owner => i = j
                    /\ \A i \in DOMAIN funds : funds[i].amount > 0
  BY DEF FundsDistinct
<1>1. Apart(funds)
  BY DEF StakeInv, Whole, Stored, Holder
<1> QED BY <1>1 DEF Apart, Gains

\* ApplyStake, ApplyUnstake and ApplyPosReward never leave a delegate with two funds
\* of one owner or with an empty one, in any chain that a reorganisation leads to:
\* a reward of nothing is no output of the coinbase, and opens no fund.
THEOREM FundsApart == Spec => []FundsDistinct
BY InvFunds, StakeInit, StakeStep, PTL DEF Spec

-----------------------------------------------------------------------------
(* Undoing a block succeeds                                                *)

\* K has the delegates of L and, with d the delegate a coinbase rewarded (0 for none),
\* the reward x of d on top of its funds.
Over(K, L, d, x) ==
  /\ K.staked = L.staked + x
  /\ \A e \in DelegateIds : K.dels[e].owner = L.dels[e].owner
  /\ \A e \in DelegateIds : Registered(L, e) =>
       \A v : /\ Held(K.dels[e].funds, v) >= Held(L.dels[e].funds, v)
              /\ e # d => Held(K.dels[e].funds, v) = Held(L.dels[e].funds, v)
  /\ \A e \in DelegateIds : Registered(L, e) /\ e # d /\ Filled(L.dels[e].funds) => Filled(K.dels[e].funds)
  /\ d # 0 /\ x > 0 => Held(K.dels[d].funds, L.dels[d].owner) > Held(L.dels[d].funds, L.dels[d].owner)

LEMMA HeldStored ==
  ASSUME NEW L, Stored(L), NEW e \in DelegateIds, NEW v
  PROVE  Held(L.dels[e].funds, v) \in Nat
<1>1. Apart(L.dels[e].funds)
  BY DEF Stored, Holder
<1> QED BY <1>1, HeldType

\* A stake or unstake and its counterpart cancel out under a reward.
LEMMA OverShift ==
  ASSUME NEW L, Stored(L), NEW M, Stored(M), NEW K, Stored(K), NEW J, Stored(J),
         NEW d \in DelegateIds \cup {0}, NEW x \in Nat, Over(K, M, d, x),
         NEW e \in DelegateIds, NEW u, NEW y \in Int, NEW z \in Int, z + y = 0, y # 0,
         Shifts(L, e, u, y, M), Shifts(K, e, u, z, J)
  PROVE  Over(J, L, d, x)
<1>1. L.staked \in Nat /\ M.staked \in Nat /\ K.staked \in Nat /\ J.staked \in Nat
  BY DEF Stored
<1>2. J.staked = L.staked + x
  <2>1. J.staked = K.staked + z /\ K.staked = M.staked + x /\ M.staked = L.staked + y
    BY DEF Shifts, Over
  <2> QED BY <1>1, <2>1
<1>3. \A f \in DelegateIds : J.dels[f].owner = L.dels[f].owner
  BY DEF Shifts, Over
<1>4. \A f \in DelegateIds : Registered(L, f) <=> Registered(M, f)
  BY DEF Shifts, Registered
<1>5. ASSUME NEW f \in DelegateIds, NEW v
      PROVE  \E w \in Int : /\ Held(K.dels[f].funds, v) = Held(J.dels[f].funds, v) + w
                            /\ Held(M.dels[f].funds, v) = Held(L.dels[f].funds, v) + w
  <2>1. PICK a, b, c, g : /\ a = Held(L.dels[f].funds, v) /\ b = Held(M.dels[f].funds, v)
                          /\ c = Held(K.dels[f].funds, v) /\ g = Held(J.dels[f].funds, v)
    OBVIOUS
  <2>2. a \in Nat /\ b \in Nat /\ c \in Nat /\ g \in Nat
    BY <2>1, HeldStored
  <2>3. CASE f # e
    <3>1. b = a /\ g = c
      BY <2>1, <2>3 DEF Shifts
    <3>2. b = a + 0 /\ c = g + 0
      BY <2>2, <3>1
    <3> QED BY <2>1, <3>2
  <2>4. CASE f = e /\ v = u
    <3>1. b = a + y /\ g = c + z
      BY <2>1, <2>4 DEF Shifts
    <3>2. b = a + y /\ c = g + y
      BY <2>2, <3>1
    <3> QED BY <2>1, <3>2
  <2>5. CASE f = e /\ v # u
    <3>1. b = a + 0 /\ g = c + 0
      BY <2>1, <2>5 DEF Shifts
    <3>2. b = a + 0 /\ c = g + 0
      BY <2>2, <3>1
    <3> QED BY <2>1, <3>2
  <2> QED BY <2>3, <2>4, <2>5
<1>6. ASSUME NEW f \in DelegateIds, NEW v
      PROVE  /\ Held(K.dels[f].funds, v) >= Held(M.dels[f].funds, v)
                => Held(J.dels[f].funds, v) >= Held(L.dels[f].funds, v)
             /\ Held(K.dels[f].funds, v) = Held(M.dels[f].funds, v)
                => Held(J.dels[f].funds, v) = Held(L.dels[f].funds, v)
             /\ Held(K.dels[f].funds, v) > Held(M.dels[f].funds, v)
                => Held(J.dels[f].funds, v) > Held(L.dels[f].funds, v)
  <2>1. PICK a, b, c, g : /\ a = Held(L.dels[f].funds, v) /\ b = Held(M.dels[f].funds, v)
                          /\ c = Held(K.dels[f].funds, v) /\ g = Held(J.dels[f].funds, v)
    OBVIOUS
  <2>2. a \in Nat /\ b \in Nat /\ c \in Nat /\ g \in Nat
    BY <2>1, HeldStored
  <2>3. PICK w \in Int : c = g + w /\ b = a + w
    BY <1>5, <2>1
  <2>4. (c >= b => g >= a) /\ (c = b => g = a) /\ (c > b => g > a)
    BY <2>2, <2>3
  <2> QED BY <2>1, <2>4
<1>7. ASSUME NEW f \in DelegateIds, Registered(L, f), NEW v
      PROVE  /\ Held(J.dels[f].funds, v) >= Held(L.dels[f].funds, v)
             /\ f # d => Held(J.dels[f].funds, v) = Held(L.dels[f].funds, v)
  <2>1. /\ Held(K.dels[f].funds, v) >= Held(M.dels[f].funds, v)
        /\ f # d => Held(K.dels[f].funds, v) = Held(M.dels[f].funds, v)
    BY <1>4, <1>7 DEF Over
  <2> QED BY <1>6, <2>1
<1>9. ASSUME NEW f \in DelegateIds, Registered(L, f), f # d, Filled(L.dels[f].funds)
      PROVE  Filled(J.dels[f].funds)
  <2>1. z # 0
    OBVIOUS
  <2>2. Filled(M.dels[f].funds)
    BY <1>9 DEF Shifts
  <2>3. Filled(K.dels[f].funds)
    BY <1>4, <1>9, <2>2 DEF Over
  <2> QED BY <2>1, <2>3 DEF Shifts
<1>8. d # 0 /\ x > 0 => Held(J.dels[d].funds, L.dels[d].owner) > Held(L.dels[d].funds, L.dels[d].owner)
  <2> SUFFICES ASSUME d # 0, x > 0 PROVE Held(J.dels[d].funds, L.dels[d].owner) > Held(L.dels[d].funds, L.dels[d].owner)
    OBVIOUS
  <2>1. d \in DelegateIds /\ M.dels[d].owner = L.dels[d].owner
    BY DEF Shifts
  <2>2. Held(K.dels[d].funds, L.dels[d].owner) > Held(M.dels[d].funds, L.dels[d].owner)
    BY <2>1 DEF Over
  <2> QED BY <1>6, <2>1, <2>2
<1> QED BY <1>2, <1>3, <1>7, <1>8, <1>9 DEF Over

\* What a transaction of no fund and no delegate leaves alone.
SameFunds(M, L) == Shape(M) /\ M.staked = L.staked /\ M.dels = L.dels /\ M.history = L.history

LEMMA OverSame ==
  ASSUME NEW L, NEW M, NEW K, NEW J, SameFunds(M, L), SameFunds(J, K), NEW d, NEW x, Over(K, M, d, x)
  PROVE  Over(J, L, d, x)
BY DEF SameFunds, Over, Registered

\* An output that is no reward leaves the funds alone.
LEMMA PlainPaid ==
  ASSUME NEW L, Shape(L), NEW h, NEW out, out.pos = 0, NEW M, M = ApplyOutput(L, h, out)
  PROVE  SameFunds(M, L)
BY DEF ApplyOutput, SameFunds, Shape

LEMMA PlainTaken ==
  ASSUME NEW L, Shape(L), NEW h, NEW out, out.pos = 0, NEW M, M = RemoveOutput(L, h, out)
  PROVE  SameFunds(M, L) /\ M.nonce = L.nonce /\ M.delegate = L.delegate
BY DEF RemoveOutput, Refuse, SameFunds, Shape

\* In M delegate d is registered by u, or free again (u = Nobody).
Registers(L, d, u, M) ==
  M.staked = L.staked /\ M.history = L.history /\ M.dels = [L.dels EXCEPT ![d] = [owner |-> u, funds |-> <<>>]]

\* Transaction tx leads from the delegates of L to those of M.
Places(L, tx, M) ==
  /\ M.history = L.history
  /\ tx.kind \in {"stake", "unstake", "set"} => Registered(L, tx.delegate)
  /\ tx.kind \in {"stake", "unstake"} => L.delegate[tx.signer] = tx.delegate
  /\ tx.kind = "stake" => Shifts(L, tx.delegate, tx.signer, tx.amount, M)
  /\ tx.kind = "unstake" => Shifts(L, tx.delegate, tx.signer, -tx.amount, M)
  /\ tx.kind = "register" => /\ tx.delegate \in DelegateIds /\ ~Registered(L, tx.delegate)
                             /\ Registers(L, tx.delegate, tx.signer, M)
  /\ tx.kind \in {"transfer", "set"} => SameFunds(M, L)

LEMMA SamePlaces ==
  ASSUME NEW L, NEW tx, NEW K, Places(L, tx, K), NEW M, SameFunds(M, K)
  PROVE  Places(L, tx, M)
BY DEF Places, SameFunds, Shifts, Registers

LEMMA ApplyTxPlaces ==
  ASSUME NEW L, Accounts(L), Stored(L), NEW h, NEW tx \in Transaction, NEW top \in Nat, NEW M,
         M = ApplyTxToState(L, h, tx, top), M.ok
  PROVE  Places(L, tx, M)
<1>1. PICK K : K = DelegateEffect(L, tx, top)
  OBVIOUS
<1>2. PICK spent : spent = [K EXCEPT !.nonce[tx.signer] = @ + 1,
                                     !.bal[Input(tx).from] = @ - Input(tx).amount]
  OBVIOUS
<1>3. M = IF L.ok /\ TxValid(L, tx, top) THEN ApplyTxOutputsToState(spent, h, Outputs(tx)) ELSE Refuse(L)
  BY <1>1, <1>2 DEF ApplyTxToState
<1>4. Refuse(L).ok = FALSE
  BY RefuseLike DEF Stored
<1>5. TxValid(L, tx, top) /\ M = ApplyTxOutputsToState(spent, h, Outputs(tx))
  BY <1>3, <1>4
<1>6. Stored(K)
  BY <1>1, <1>5, EffectStored
<1>7. SameFunds(spent, K)
  BY <1>2, <1>6 DEF SameFunds, Stored, Shape
<1>8. Placed(tx)
  BY ApplyTxMoves DEF Moves
<1>9. SameFunds(M, spent)
  <2>1. CASE tx.kind = "set"
    <3>1. M = spent
      BY <1>5, <1>8, <2>1, TxParts, PayNone
    <3> QED BY <1>7, <3>1 DEF SameFunds
  <2>2. CASE tx.kind # "set"
    <3>1. PICK o : Outputs(tx) = <<o>> /\ o.pos = 0
      BY <1>8, <2>2, TxParts
    <3>2. M = ApplyOutput(spent, h, o)
      BY <1>5, <3>1, PayOne
    <3> QED BY <1>7, <3>1, <3>2, PlainPaid DEF SameFunds
  <2> QED BY <2>1, <2>2
<1>10. SameFunds(M, K)
  BY <1>7, <1>9 DEF SameFunds
<1>11. Places(L, tx, K)
  <2>1. PICK d, u, amount : d = tx.delegate /\ u = tx.signer /\ amount = tx.amount
    OBVIOUS
  <2>2. /\ u \in Users /\ amount \in Nat
        /\ tx.kind \in {"stake", "unstake"} => Gains(amount)
    BY <2>1, TxAmounts
  <2>3. /\ tx.kind \in {"transfer", "register", "set", "stake", "unstake"}
        /\ d \in DelegateIds \cup {0} /\ (tx.kind = "register" => d # 0)
    BY <2>1 DEF Transaction
  <2>4. CASE tx.kind = "stake"
    <3>1. Registered(L, d) /\ d \in DelegateIds /\ L.delegate[u] = d
      BY <1>5, <2>1, <2>4 DEF TxValid, StakeValid, Registered
    <3>2. PICK r : K = Stake(L, d, u, amount, top, r)
      BY <1>1, <2>1, <2>4 DEF DelegateEffect
    <3>3. Shifts(L, d, u, amount, K)
      BY <2>2, <2>4, <3>1, <3>2, StakeStored
    <3> QED BY <2>1, <2>4, <3>1, <3>3 DEF Places, Shifts
  <2>5. CASE tx.kind = "unstake"
    <3>1. UnstakeValid(L, d, u, amount, top, FALSE) /\ L.delegate[u] = d
      BY <1>5, <2>1, <2>5 DEF TxValid
    <3>2. Registered(L, d) /\ d \in DelegateIds
      BY <3>1 DEF UnstakeValid, Registered
    <3>3. PICK r : K = Unstake(L, d, u, amount, r, 0) /\ r = FALSE
      BY <1>1, <2>1, <2>5 DEF DelegateEffect
    <3>4. UnstakeValid(L, d, u, amount, top, r)
      BY <3>1, <3>3
    <3>5. Shifts(L, d, u, -amount, K)
      BY <2>2, <3>2, <3>3, <3>4, UnstakeStored
    <3> QED BY <2>1, <2>5, <3>1, <3>2, <3>5 DEF Places, Shifts
  <2>6. CASE tx.kind = "register"
    <3>1. ~Registered(L, d) /\ d \in DelegateIds
      BY <1>5, <2>1, <2>3, <2>6 DEF TxValid
    <3>2. K = [L EXCEPT !.dels[d] = [owner |-> u, funds |-> <<>>]]
      BY <1>1, <2>1, <2>6 DEF DelegateEffect
    <3>3. Registers(L, d, u, K)
      BY <3>2 DEF Stored, Shape, Registers
    <3> QED BY <2>1, <2>6, <3>1, <3>3 DEF Places, Registers
  <2>7. CASE tx.kind = "set"
    <3>1. Registered(L, d)
      BY <1>5, <2>1, <2>7 DEF TxValid
    <3>2. K = [L EXCEPT !.delegate[u] = d]
      BY <1>1, <2>1, <2>7 DEF DelegateEffect
    <3>3. SameFunds(K, L)
      BY <3>2 DEF Stored, Shape, SameFunds
    <3> QED BY <2>1, <2>7, <3>1, <3>3 DEF Places, SameFunds
  <2>8. CASE tx.kind = "transfer"
    <3>1. K = L
      BY <1>1, <2>8 DEF DelegateEffect
    <3>2. SameFunds(K, L)
      BY <3>1 DEF Stored, SameFunds
    <3> QED BY <2>8, <3>2 DEF Places, SameFunds
  <2> QED BY <2>3, <2>4, <2>5, <2>6, <2>7, <2>8
<1> QED BY <1>10, <1>11, SamePlaces

\* A registered delegate stays registered, with its owner, under any transaction.
LEMMA PlacesKeep ==
  ASSUME NEW L, Stored(L), NEW tx, NEW M, Places(L, tx, M), NEW d, Registered(L, d),
         tx.kind \in {"transfer", "register", "set", "stake", "unstake"}
  PROVE  Registered(M, d) /\ M.dels[d].owner = L.dels[d].owner
<1>1. d \in DelegateIds /\ L.dels[d].owner # Nobody
  BY DEF Registered
<1>2. CASE tx.kind = "register"
  <2>1. d # tx.delegate
    BY <1>2 DEF Places
  <2>2. PICK D \in [DelegateIds -> Holder] : D = L.dels
    BY DEF Stored
  <2>3. M.dels[d] = L.dels[d]
    BY <1>1, <1>2, <2>1, <2>2 DEF Places, Registers
  <2> QED BY <1>1, <2>3 DEF Registered
<1>3. CASE tx.kind # "register"
  BY <1>1, <1>3 DEF Places, Shifts, SameFunds, Registered
<1> QED BY <1>2, <1>3

\* A fund of u that holds amount or more lets amount be taken out of it.
LEMMA HeldTakes ==
  ASSUME NEW L, Stored(L), NEW d, Registered(L, d), NEW u, NEW amount \in Nat, amount > 0,
         Held(L.dels[d].funds, u) >= amount, L.staked >= amount, NEW top
  PROVE  UnstakeValid(L, d, u, amount, top, TRUE)
<1>1. PICK s : s = L.dels[d].funds
  OBVIOUS
<1>2. Apart(s)
  BY <1>1 DEF Stored, Holder, Registered
<1>3. Held(s, u) \in Nat /\ Held(s, u) > 0
  BY <1>1, <1>2, HeldType
<1>4. PICK i \in DOMAIN s : s[i].owner = u /\ s[i].amount = Held(s, u)
  BY <1>2, <1>3, HeldType
<1>5. i \in FundOf(s, u) /\ s[i].amount >= amount
  BY <1>1, <1>4 DEF FundOf
<1> QED BY <1>1, <1>5 DEF UnstakeValid

\* Where nobody holds anything, and no fund is empty, there are no funds.
LEMMA HeldEmpty ==
  ASSUME NEW s, Apart(s), Filled(s), \A v : Held(s, v) = 0
  PROVE  s = <<>>
<1>1. ASSUME NEW i \in DOMAIN s PROVE FALSE
  <2>1. PICK v : v = s[i].owner
    OBVIOUS
  <2>2. Held(s, v) > 0
    BY <2>1, HeldAt DEF Filled
  <2>3. Held(s, v) = 0
    OBVIOUS
  <2> QED BY <2>2, <2>3
<1>2. s \in Seq(Fund)
  BY DEF Apart
<1>3. Len(s) = 0
  <2>1. Len(s) \in Nat /\ DOMAIN s = 1 .. Len(s)
    BY <1>2
  <2>2. Len(s) # 0 => 1 \in DOMAIN s
    BY <2>1
  <2> QED BY <1>1, <2>2
<1> QED BY <1>2, <1>3

\* RemoveTxFromState finds what it checks when the ledger has the delegates after the
\* transaction, and the reward of the block on top of them: in particular a delegate
\* that the block registered has no funds, and so is not the rewarded one.
LEMMA UndoValid ==
  ASSUME NEW L, Accounts(L), Stored(L), NEW tx \in Transaction, NEW M, Stored(M), Moves(L, tx, M),
         Places(L, tx, M), NEW d \in DelegateIds \cup {0}, d # 0 => Registered(L, d), NEW x \in Nat,
         NEW K, Stored(K), Over(K, M, d, x), K.nonce = M.nonce, K.delegate = M.delegate, NEW top
  PROVE  UntxValid(K, tx, top)
<1>1. PICK e, u, amount : e = tx.delegate /\ u = tx.signer /\ amount = tx.amount
  OBVIOUS
<1>2. /\ u \in Users /\ amount \in Nat
      /\ tx.kind \in {"transfer", "register", "set", "stake", "unstake"}
      /\ tx.kind = "stake" => amount > 0
  BY <1>1 DEF Transaction
<1>3. K.nonce[u] = tx.nonce
  <2>1. PICK m : m = L.nonce
    OBVIOUS
  <2>2. m \in [Users -> Nat] /\ K.nonce = [m EXCEPT ![u] = @ + 1] /\ tx.nonce = m[u] + 1
    BY <1>1, <2>1 DEF Accounts, Moves, Counted
  <2> QED BY <1>2, <2>2
<1>4. tx.kind \in {"stake", "unstake", "set"} => K.delegate[u] = e
  <2>1. CASE tx.kind = "set"
    <3>1. PICK m : m = L.delegate
      OBVIOUS
    <3>2. DOMAIN m = Users /\ K.delegate = [m EXCEPT ![u] = e]
      BY <1>1, <2>1, <3>1 DEF Accounts, Moves
    <3> QED BY <1>2, <3>2
  <2>2. CASE tx.kind \in {"stake", "unstake"}
    BY <1>1, <2>2 DEF Moves, Places
  <2> QED BY <2>1, <2>2
<1>5. ASSUME NEW f, Registered(M, f) PROVE Registered(K, f)
  BY <1>5 DEF Registered, Over
<1>6. tx.kind \in {"stake", "unstake", "set"} => Registered(L, e) /\ Registered(M, e) /\ Registered(K, e)
  BY <1>1, <1>2, <1>5, PlacesKeep DEF Places
<1>7. tx.kind = "stake" => UnstakeValid(K, e, u, amount, top, TRUE)
  <2> SUFFICES ASSUME tx.kind = "stake" PROVE UnstakeValid(K, e, u, amount, top, TRUE)
    OBVIOUS
  <2>1. Shifts(L, e, u, amount, M) /\ e \in DelegateIds
    BY <1>1, <1>6 DEF Places, Registered
  <2>2. PICK p, q, r : p = Held(L.dels[e].funds, u) /\ q = Held(M.dels[e].funds, u) /\ r = Held(K.dels[e].funds, u)
    OBVIOUS
  <2>3. p \in Nat /\ q \in Nat /\ r \in Nat
    BY <2>1, <2>2, HeldStored
  <2>4. q = p + amount
    BY <2>1, <2>2 DEF Shifts
  <2>5. r >= q
    BY <1>6, <2>1, <2>2 DEF Over
  <2>6. r >= amount
    BY <1>2, <2>3, <2>4, <2>5
  <2>7. K.staked >= amount
    <3>1. L.staked \in Nat /\ M.staked = L.staked + amount /\ K.staked = M.staked + x
      BY <2>1 DEF Shifts, Over, Stored
    <3> QED BY <1>2, <3>1
  <2>8. amount > 0 /\ Registered(K, e)
    BY <1>2, <1>6
  <2> QED BY <1>2, <2>2, <2>6, <2>7, <2>8, HeldTakes
<1>8. tx.kind = "unstake" => StakeValid(K, e, u, 0, TRUE)
  BY <1>6 DEF StakeValid
<1>9. tx.kind = "register" => Registered(K, e) /\ K.dels[e].funds = <<>>
  <2> SUFFICES ASSUME tx.kind = "register" PROVE Registered(K, e) /\ K.dels[e].funds = <<>>
    OBVIOUS
  <2>1. e \in DelegateIds /\ ~Registered(L, e) /\ Registers(L, e, u, M)
    BY <1>1 DEF Places
  <2>2. PICK D \in [DelegateIds -> Holder] : D = L.dels
    BY DEF Stored
  <2>3. PICK y : y = [owner |-> u, funds |-> <<>>]
    OBVIOUS
  <2>4. M.dels = [D EXCEPT ![e] = y]
    BY <2>1, <2>2, <2>3 DEF Registers
  <2>5. M.dels[e].owner = u /\ M.dels[e].funds = <<>>
    BY <2>1, <2>3, <2>4
  <2>6. Registered(M, e)
    BY <1>2, <2>1, <2>5, LedgerAssumption DEF Registered
  <2>7. e # d
    BY <2>1, LedgerAssumption
  <2>8. PICK s : s = K.dels[e].funds
    OBVIOUS
  <2>9. \A v : Held(s, v) = Held(<<>>, v)
    BY <2>1, <2>5, <2>6, <2>7, <2>8 DEF Over
  <2>10. \A v : Held(<<>>, v) = 0
    BY HeldNone
  <2>11. Apart(s)
    BY <2>1, <2>8 DEF Stored, Holder
  <2>13. Filled(s)
    <3>1. Filled(<<>>)
      BY DEF Filled
    <3> QED BY <2>1, <2>5, <2>6, <2>7, <2>8, <3>1 DEF Over
  <2>12. s = <<>>
    BY <2>9, <2>10, <2>11, <2>13, HeldEmpty
  <2> QED BY <1>5, <2>6, <2>8, <2>12
<1> QED BY <1>1, <1>3, <1>4, <1>6, <1>7, <1>8, <1>9 DEF UntxValid

\* What DelegateUndo takes back of a transaction, under the reward.
LEMMA UndoOver ==
  ASSUME NEW L, Stored(L), NEW tx \in Transaction, NEW M, Stored(M), Places(L, tx, M),
         NEW d \in DelegateIds \cup {0}, d # 0 => Registered(L, d), NEW x \in Nat,
         NEW K, Stored(K), Over(K, M, d, x), NEW top \in Nat, UntxValid(K, tx, top),
         NEW J, J = DelegateUndo(K, tx, top)
  PROVE  Over(J, L, d, x) /\ J.history = K.history /\ J.ok = K.ok
<1>1. PICK e, u, amount, p : e = tx.delegate /\ u = tx.signer /\ amount = tx.amount /\ p = tx.prev
  OBVIOUS
<1>2. /\ u \in Users /\ amount \in Nat /\ p \in Nat
      /\ tx.kind \in {"stake", "unstake"} => Gains(amount) /\ amount > 0
  BY <1>1, TxAmounts
<1>3. tx.kind \in {"transfer", "register", "set", "stake", "unstake"}
  BY DEF Transaction
<1>4. Stored(J)
  BY UndoStored
<1>5. CASE tx.kind = "stake"
  <2>1. UnstakeValid(K, e, u, amount, top, TRUE)
    BY <1>1, <1>5 DEF UntxValid
  <2>2. e \in DelegateIds
    BY <2>1 DEF UnstakeValid, Registered
  <2>3. PICK r : J = Unstake(K, e, u, amount, r, p) /\ r = TRUE
    BY <1>1, <1>5 DEF DelegateUndo
  <2>4. UnstakeValid(K, e, u, amount, top, r)
    BY <2>1, <2>3
  <2>5. PICK z \in Int : z = -amount /\ z + amount = 0 /\ amount \in Int /\ amount # 0
    BY <1>2, <1>5
  <2>6. Shifts(K, e, u, z, J) /\ J.ok = K.ok
    <3>1. Stored(J) /\ J.ok = K.ok /\ Shifts(K, e, u, -amount, J)
      BY <1>2, <2>2, <2>3, <2>4, UnstakeStored, ZenonT(30)
    <3> QED BY <2>5, <3>1
  <2>7. Shifts(L, e, u, amount, M)
    BY <1>1, <1>5 DEF Places
  <2>8. Over(J, L, d, x)
    BY <1>4, <2>2, <2>5, <2>6, <2>7, OverShift
  <2> QED BY <2>6, <2>8 DEF Shifts
<1>6. CASE tx.kind = "unstake"
  <2>1. e \in DelegateIds /\ Registered(K, e)
    BY <1>1, <1>6 DEF UntxValid, StakeValid, Registered
  <2>2. PICK r : J = Stake(K, e, u, amount, top, r)
    BY <1>1, <1>6 DEF DelegateUndo
  <2>3. PICK z \in Int : z = -amount /\ amount + z = 0 /\ amount \in Int /\ z # 0
    BY <1>2, <1>6
  <2>4. Shifts(K, e, u, amount, J) /\ J.ok = K.ok
    BY <1>2, <1>6, <2>1, <2>2, StakeStored
  <2>5. Shifts(L, e, u, z, M)
    BY <1>1, <1>6, <2>3 DEF Places
  <2>6. Over(J, L, d, x)
    BY <1>4, <2>1, <2>3, <2>4, <2>5, OverShift
  <2> QED BY <2>4, <2>6 DEF Shifts
<1>7. CASE tx.kind = "register"
  <2>1. e \in DelegateIds /\ ~Registered(L, e) /\ Registers(L, e, u, M)
    BY <1>1, <1>7 DEF Places
  <2>2. PICK C, D \in [DelegateIds -> Holder] : C = K.dels /\ D = L.dels
    BY DEF Stored
  <2>3. PICK y, w : y = [owner |-> u, funds |-> <<>>] /\ w = [owner |-> Nobody, funds |-> <<>>]
    OBVIOUS
  <2>4. M.dels = [D EXCEPT ![e] = y] /\ M.staked = L.staked
    BY <2>1, <2>2, <2>3 DEF Registers
  <2>5. J = [K EXCEPT !.dels[e] = w]
    BY <1>1, <1>7, <2>3 DEF DelegateUndo
  <2>6. J.dels = [C EXCEPT ![e] = w] /\ J.staked = K.staked /\ J.history = K.history /\ J.ok = K.ok
    BY <2>2, <2>5 DEF Stored, Shape
  <2>7. \A f \in DelegateIds : f # e => J.dels[f] = K.dels[f] /\ M.dels[f] = L.dels[f]
    BY <2>2, <2>4, <2>6
  <2>8. J.dels[e].owner = Nobody /\ L.dels[e].owner = Nobody
    BY <2>1, <2>3, <2>6 DEF Registered
  <2>9. \A f \in DelegateIds : J.dels[f].owner = L.dels[f].owner
    BY <2>7, <2>8 DEF Over
  <2>10. ASSUME NEW f \in DelegateIds, Registered(L, f)
         PROVE  f # e /\ Registered(M, f) /\ J.dels[f] = K.dels[f] /\ M.dels[f] = L.dels[f]
    BY <2>1, <2>7, <2>10 DEF Registered
  <2>11. ASSUME NEW f \in DelegateIds, Registered(L, f), NEW v
         PROVE  /\ Held(J.dels[f].funds, v) >= Held(L.dels[f].funds, v)
                /\ f # d => Held(J.dels[f].funds, v) = Held(L.dels[f].funds, v)
    BY <2>10, <2>11 DEF Over
  <2>14. ASSUME NEW f \in DelegateIds, Registered(L, f), f # d, Filled(L.dels[f].funds)
         PROVE  Filled(J.dels[f].funds)
    BY <2>10, <2>14 DEF Over
  <2>12. d # 0 /\ x > 0 => Held(J.dels[d].funds, L.dels[d].owner) > Held(L.dels[d].funds, L.dels[d].owner)
    <3> SUFFICES ASSUME d # 0, x > 0 PROVE Held(J.dels[d].funds, L.dels[d].owner) > Held(L.dels[d].funds, L.dels[d].owner)
      OBVIOUS
    <3>1. J.dels[d] = K.dels[d] /\ M.dels[d] = L.dels[d]
      BY <2>10
    <3> QED BY <3>1 DEF Over
  <2>13. J.staked = L.staked + x
    BY <2>4, <2>6 DEF Over
  <2> QED BY <2>6, <2>9, <2>11, <2>12, <2>13, <2>14 DEF Over
<1>8. CASE tx.kind = "set"
  <2>1. J = [K EXCEPT !.delegate[u] = p]
    BY <1>1, <1>8 DEF DelegateUndo
  <2>2. SameFunds(J, K) /\ J.ok = K.ok
    BY <2>1 DEF SameFunds, Stored, Shape
  <2>3. SameFunds(M, L)
    BY <1>8 DEF Places
  <2> QED BY <2>2, <2>3, OverSame DEF SameFunds
<1>9. CASE tx.kind = "transfer"
  <2>1. J = K
    BY <1>9 DEF DelegateUndo
  <2>2. SameFunds(J, K) /\ J.ok = K.ok
    BY <2>1 DEF SameFunds, Stored
  <2>3. SameFunds(M, L)
    BY <1>9 DEF Places
  <2> QED BY <2>2, <2>3, OverSame DEF SameFunds
<1> QED BY <1>3, <1>5, <1>6, <1>7, <1>8, <1>9

LEMMA RemoveTxPlaces ==
  ASSUME NEW L, Accounts(L), Stored(L), NEW tx \in Transaction, NEW M, Stored(M), Moves(L, tx, M),
         Places(L, tx, M), NEW d \in DelegateIds \cup {0}, d # 0 => Registered(L, d), NEW x \in Nat,
         NEW K, Stored(K), Over(K, M, d, x), K.nonce = M.nonce, K.delegate = M.delegate, K.ok,
         NEW h \in 1 .. MaxHeight, NEW top \in Nat, NEW N, N = RemoveTxFromState(K, h, tx, top)
  PROVE  N.ok /\ Over(N, L, d, x) /\ N.history = K.history
<1>1. PICK unpaid : unpaid = RemoveTxOutputsFromState(K, h, Outputs(tx))
  OBVIOUS
<1>2. PICK back : back = [unpaid EXCEPT !.ok = K.ok, !.bal[Input(tx).from] = @ + Input(tx).amount]
  OBVIOUS
<1>3. PICK J : J = DelegateUndo(back, tx, top)
  OBVIOUS
<1>4. N = IF K.ok /\ UntxValid(back, tx, top)
          THEN [J EXCEPT !.nonce[tx.signer] = @ - 1] ELSE Refuse(K)
  BY <1>1, <1>2, <1>3 DEF RemoveTxFromState
<1>5. Shape(K) /\ Placed(tx) /\ K.ok \in BOOLEAN
  BY DEF Stored, Moves
<1>6. SameFunds(unpaid, K) /\ unpaid.nonce = K.nonce /\ unpaid.delegate = K.delegate
  <2>1. CASE tx.kind = "set"
    <3>1. unpaid = K
      BY <1>1, <1>5, <2>1, TxParts, TakeNone
    <3> QED BY <1>5, <3>1 DEF SameFunds
  <2>2. CASE tx.kind # "set"
    <3>1. PICK o : Outputs(tx) = <<o>> /\ o.pos = 0
      BY <1>5, <2>2, TxParts
    <3>2. unpaid = RemoveOutput(K, h, o)
      BY <1>1, <3>1, TakeOne
    <3> QED BY <1>5, <3>1, <3>2, PlainTaken
  <2> QED BY <2>1, <2>2
<1>7. SameFunds(back, K) /\ back.ok = K.ok /\ back.nonce = K.nonce /\ back.delegate = K.delegate
  BY <1>2, <1>6 DEF SameFunds, Shape
<1>8. Stored(back)
  BY <1>7 DEF SameFunds, Stored
<1>9. SameFunds(M, M)
  BY DEF SameFunds, Stored
<1>10. Over(back, M, d, x)
  BY <1>7, <1>9, OverSame
<1>11. UntxValid(back, tx, top)
  BY <1>7, <1>8, <1>10, UndoValid
<1>12. Over(J, L, d, x) /\ J.history = back.history /\ J.ok = back.ok
  BY <1>3, <1>8, <1>10, <1>11, UndoOver
<1>13. Stored(J)
  BY <1>3, <1>8, <1>11, UndoStored
<1>14. N = [J EXCEPT !.nonce[tx.signer] = @ - 1]
  BY <1>4, <1>11
<1>15. SameFunds(N, J) /\ N.ok = J.ok
  BY <1>13, <1>14 DEF SameFunds, Stored, Shape
<1>16. SameFunds(L, L)
  BY DEF SameFunds, Stored
<1>17. Over(N, L, d, x)
  BY <1>12, <1>15, <1>16, OverSame
<1>18. N.history = K.history
  BY <1>7, <1>12, <1>15 DEF SameFunds
<1> QED BY <1>7, <1>12, <1>15, <1>17, <1>18

\* The reward of the delegate in a coinbase.
Prize(cb) == IF Rest(cb).pos = 0 THEN 0 ELSE Rest(cb).amount

\* A coinbase puts the reward of the delegate on top of its funds.
LEMMA CoinbaseOver ==
  ASSUME NEW K, Stored(K), NEW h \in 1 .. MaxHeight, NEW B, Stored(B), SameFunds(B, K), NEW z,
         z.pos \in DelegateIds \cup {0}, Earns(z),
         NEW M, M.ok, M = ApplyOutput(B, h, z) \/ (z.pos = 0 /\ M = B),
         NEW prize, prize = IF z.pos = 0 THEN 0 ELSE z.amount
  PROVE  /\ Over(M, K, z.pos, prize)
         /\ z.pos # 0 => M.history[h] = K.dels[z.pos] /\ M.dels[z.pos].funds # <<>>
<1>1. M = ApplyOutput(B, h, z) \/ (z.pos = 0 /\ M = B)
  OBVIOUS
<1>2. Shape(K)
  BY DEF Stored
<1>5. SameFunds(B, K)
  OBVIOUS
<1>6. K.staked \in Nat /\ \A e \in DelegateIds : \A v : Held(K.dels[e].funds, v) \in Nat
  BY HeldStored DEF Stored
<1>7. CASE z.pos = 0
  <2>1. SameFunds(M, B)
    BY <1>1, <1>5, <1>7, PlainPaid DEF SameFunds
  <2>2. SameFunds(M, K)
    BY <1>5, <2>1 DEF SameFunds
  <2>3. M.staked = K.staked + 0
    BY <1>6, <2>2 DEF SameFunds
  <2>4. \A e \in DelegateIds : \A v : Held(M.dels[e].funds, v) = Held(K.dels[e].funds, v) /\ Held(M.dels[e].funds, v) >= Held(K.dels[e].funds, v)
    BY <1>6, <2>2 DEF SameFunds
  <2>5. \A e \in DelegateIds : M.dels[e].owner = K.dels[e].owner
    BY <2>2 DEF SameFunds
  <2>6. Over(M, K, 0, 0)
    <3>1. M.dels = K.dels
      BY <2>2 DEF SameFunds
    <3> QED BY <2>3, <2>4, <2>5, <3>1 DEF Over
  <2> QED BY <1>7, <2>6
<1>8. CASE z.pos # 0
  <2>1. PICK d, amount : d = z.pos /\ amount = z.amount
    OBVIOUS
  <2>2. PICK paid : paid = [B EXCEPT !.bal[z.to] = @ + z.amount, !.incoming[z.to] = @ + 1]
    OBVIOUS
  <2>3. SameFunds(paid, B) /\ paid.ok = B.ok
    BY <1>5, <2>2 DEF SameFunds, Shape
  <2>4. B.ok
    BY <1>1, <1>5, ApplyOutputPays DEF SameFunds
  <2>5. PosValid(paid, d) /\ M = PosReward(paid, h, d, amount)
    <3>1. Refuse(B).ok = FALSE
      BY <1>5, RefuseLike DEF SameFunds
    <3>2. M = IF PosValid(paid, d) THEN PosReward(paid, h, d, amount) ELSE Refuse(B)
      BY <1>1, <1>8, <2>1, <2>2, <2>4 DEF ApplyOutput
    <3> QED BY <3>1, <3>2
  <2>6. Stored(paid)
    BY <2>3 DEF SameFunds, Stored
  <2>7. Gains(amount)
    BY <1>8, <2>1 DEF Earns
  <2>8. Rewards(paid, h, d, amount, M)
    BY <2>5, <2>6, <2>7, PosRewardStored
  <2>9. paid.dels = K.dels /\ paid.staked = K.staked /\ paid.history = K.history
    BY <1>5, <2>3 DEF SameFunds
  <2>11. d \in DelegateIds
    BY <1>8, <2>1
  <2>12. M.staked = K.staked + amount
    BY <2>8, <2>9 DEF Rewards
  <2>13. \A e \in DelegateIds : M.dels[e].owner = K.dels[e].owner /\ (e # d => M.dels[e] = K.dels[e])
    BY <2>8, <2>9 DEF Rewards
  <2>14. \A v : Held(M.dels[d].funds, v) >= Held(K.dels[d].funds, v)
    BY <2>8, <2>9 DEF Rewards
  <2>15. amount > 0 => Held(M.dels[d].funds, K.dels[d].owner) > Held(K.dels[d].funds, K.dels[d].owner)
    BY <2>8, <2>9 DEF Rewards
  <2>16. \A e \in DelegateIds : \A v : e # d => /\ Held(M.dels[e].funds, v) = Held(K.dels[e].funds, v)
                                           /\ Held(M.dels[e].funds, v) >= Held(K.dels[e].funds, v)
    BY <1>6, <2>13
  <2>17. Over(M, K, d, amount)
    BY <2>12, <2>13, <2>14, <2>15, <2>16 DEF Over
  <2>19. M.dels[d].funds # <<>>
    BY <2>8 DEF Rewards
  <2>18. M.history[h] = K.dels[d]
    <3>1. PICK H \in [1 .. MaxHeight -> Holder] : H = K.history
      BY DEF Stored
    <3>2. M.history = [H EXCEPT ![h] = K.dels[d]]
      BY <2>8, <2>9, <3>1 DEF Rewards
    <3> QED BY <3>2
  <2> QED BY <1>8, <2>1, <2>17, <2>18, <2>19
<1> QED BY <1>7, <1>8

\* RemoveTxOutputsFromState finds every output of the coinbase paid, and the reward
\* of the delegate still in its funds.
LEMMA CoinbaseUndone ==
  ASSUME NEW L, Accounts(L), Stored(L), NEW h \in 1 .. MaxHeight, NEW cb, NEW total \in Nat, IsCoinbase(cb, total),
         cb[1].pos = 0, cb[2].pos = 0, Rest(cb).pos \in DelegateIds \cup {0},
         Rest(cb).pos # 0 => Rest(cb).amount > 0,
         NEW J, Above(J, L, cb), J.ok, Stored(J), Over(J, L, Rest(cb).pos, Prize(cb)),
         Rest(cb).pos # 0 => Registered(L, Rest(cb).pos) /\ J.history[h].owner = L.dels[Rest(cb).pos].owner
  PROVE  RemoveTxOutputsFromState(J, h, cb).ok
<1>1. PICK x, y, z : x = cb[1] /\ y = cb[2] /\ z = Rest(cb)
  OBVIOUS
<1>2. /\ x.to \in Addresses /\ y.to \in Addresses /\ z.to \in Addresses
      /\ x.amount \in Nat /\ y.amount \in Nat /\ z.amount \in Nat
      /\ x.amount \in Int /\ y.amount \in Int /\ z.amount \in Int
  <2>2. x.amount \in Nat /\ y.amount \in Nat /\ z.amount \in Nat
    BY <1>1 DEF IsCoinbase
  <2> QED BY <1>1, <2>2 DEF IsCoinbase
<1>3. PICK A, B, M : A = RemoveOutput(J, h, x) /\ B = RemoveOutput(A, h, y) /\ M = RemoveOutput(B, h, z)
  OBVIOUS
<1>4. RemoveTxOutputsFromState(J, h, cb) = IF 3 \in DOMAIN cb THEN M ELSE B
  BY <1>1, <1>3, TakeCoinbase DEF TakeRest
<1>5. ASSUME NEW a \in Addresses
      PROVE  /\ L.bal[a] \in Nat /\ L.incoming[a] \in Nat
             /\ J.bal[a] = L.bal[a] + (((IF x.to = a THEN x.amount ELSE 0) + (IF y.to = a THEN y.amount ELSE 0))
                                        + (IF z.to = a THEN z.amount ELSE 0))
             /\ J.incoming[a] = L.incoming[a] + (((IF x.to = a THEN 1 ELSE 0) + (IF y.to = a THEN 1 ELSE 0))
                                                  + (IF 3 \in DOMAIN cb /\ z.to = a THEN 1 ELSE 0))
  BY <1>1 DEF Above, Accounts, Minted, Payments
<1>6. J.bal \in [Addresses -> Int] /\ J.incoming \in [Addresses -> Int] /\ Shape(J)
  <2>1. \A a \in Addresses : L.bal[a] + Minted(cb, a) \in Int /\ L.incoming[a] + Payments(cb, a) \in Int
    BY MintedType DEF Accounts
  <2> QED BY <2>1 DEF Above
<1>7. x.pos = 0 /\ y.pos = 0 /\ z.pos \in DelegateIds \cup {0}
  BY <1>1
<1>8. A.ok
  <2>1. ~(J.bal[x.to] < x.amount) /\ J.incoming[x.to] # 0
    <3>1. PICK a \in Addresses : a = x.to
      BY <1>2
    <3>2. PICK q, r, j, k :
             /\ q = (IF y.to = a THEN y.amount ELSE 0) /\ r = (IF z.to = a THEN z.amount ELSE 0)
             /\ j = (IF y.to = a THEN 1 ELSE 0) /\ k = (IF 3 \in DOMAIN cb /\ z.to = a THEN 1 ELSE 0)
      OBVIOUS
    <3>3. q \in Nat /\ r \in Nat /\ j \in Nat /\ k \in Nat
      BY <1>2, <3>2
    <3>4. /\ L.bal[a] \in Nat /\ L.incoming[a] \in Nat
          /\ J.bal[a] = L.bal[a] + ((x.amount + q) + r) /\ J.incoming[a] = L.incoming[a] + ((1 + j) + k)
      BY <1>5, <3>1, <3>2
    <3> QED BY <1>2, <3>1, <3>3, <3>4
  <2> QED BY <1>3, <1>6, <1>7, <2>1, RemoveOutputTakes
<1>9. TakesBack(J, x, A)
  BY <1>3, <1>6, <1>8, RemoveOutputTakes
<1>10. /\ A.bal \in [Addresses -> Int] /\ A.incoming \in [Addresses -> Int]
       /\ \A a \in Addresses : /\ A.bal[a] = J.bal[a] - IF x.to = a THEN x.amount ELSE 0
                               /\ A.incoming[a] = J.incoming[a] - IF x.to = a THEN 1 ELSE 0
  BY <1>2, <1>6, <1>9, TakePoints
<1>11. Shape(A)
  BY <1>9 DEF TakesBack
<1>12. B.ok
  <2>1. ~(A.bal[y.to] < y.amount) /\ A.incoming[y.to] # 0
    <3>1. PICK a \in Addresses : a = y.to
      BY <1>2
    <3>2. PICK p, r, i, k :
             /\ p = (IF x.to = a THEN x.amount ELSE 0) /\ r = (IF z.to = a THEN z.amount ELSE 0)
             /\ i = (IF x.to = a THEN 1 ELSE 0) /\ k = (IF 3 \in DOMAIN cb /\ z.to = a THEN 1 ELSE 0)
      OBVIOUS
    <3>3. p \in Nat /\ r \in Nat /\ i \in Nat /\ k \in Nat
      BY <1>2, <3>2
    <3>4. /\ L.bal[a] \in Nat /\ L.incoming[a] \in Nat
          /\ J.bal[a] = L.bal[a] + ((p + y.amount) + r) /\ J.incoming[a] = L.incoming[a] + ((i + 1) + k)
      BY <1>5, <3>1, <3>2
    <3>5. A.bal[a] = J.bal[a] - p /\ A.incoming[a] = J.incoming[a] - i
      BY <1>10, <3>2
    <3> QED BY <1>2, <3>1, <3>3, <3>4, <3>5
  <2> QED BY <1>3, <1>7, <1>8, <1>11, <2>1, RemoveOutputTakes
<1>13. TakesBack(A, y, B)
  BY <1>3, <1>11, <1>12, RemoveOutputTakes
<1>14. /\ B.bal \in [Addresses -> Int] /\ B.incoming \in [Addresses -> Int]
       /\ \A a \in Addresses : /\ B.bal[a] = A.bal[a] - IF y.to = a THEN y.amount ELSE 0
                               /\ B.incoming[a] = A.incoming[a] - IF y.to = a THEN 1 ELSE 0
  BY <1>2, <1>10, <1>13, TakePoints
<1>15. Shape(B)
  BY <1>13 DEF TakesBack
<1>19. CASE ~(3 \in DOMAIN cb)
  BY <1>4, <1>12, <1>19
<1>20. ASSUME 3 \in DOMAIN cb PROVE ~(B.bal[z.to] < z.amount) /\ B.incoming[z.to] # 0
  <2>1. PICK a \in Addresses : a = z.to
    BY <1>2
  <2>2. PICK p, q, i, j :
           /\ p = (IF x.to = a THEN x.amount ELSE 0) /\ q = (IF y.to = a THEN y.amount ELSE 0)
           /\ i = (IF x.to = a THEN 1 ELSE 0) /\ j = (IF y.to = a THEN 1 ELSE 0)
    OBVIOUS
  <2>3. p \in Nat /\ q \in Nat /\ i \in Nat /\ j \in Nat
    BY <1>2, <2>2
  <2>4. /\ L.bal[a] \in Nat /\ L.incoming[a] \in Nat
        /\ J.bal[a] = L.bal[a] + ((p + q) + z.amount) /\ J.incoming[a] = L.incoming[a] + ((i + j) + 1)
    BY <1>5, <1>20, <2>1, <2>2
  <2>5. B.bal[a] = (J.bal[a] - p) - q /\ B.incoming[a] = (J.incoming[a] - i) - j
    BY <1>10, <1>14, <2>2
  <2> QED BY <1>2, <2>1, <2>3, <2>4, <2>5
<1>17. CASE 3 \in DOMAIN cb /\ z.pos = 0
  BY <1>3, <1>4, <1>12, <1>15, <1>17, <1>20, RemoveOutputTakes
<1>18. CASE 3 \in DOMAIN cb /\ z.pos # 0
  <2>1. PICK d, amount : d = z.pos /\ amount = z.amount
    OBVIOUS
  <2>2. /\ d \in DelegateIds /\ d # 0 /\ Registered(L, d) /\ J.history[h].owner = L.dels[d].owner
        /\ Over(J, L, d, amount)
    BY <1>1, <1>7, <1>18, <2>1 DEF Prize
  <2>3. SameFunds(A, J)
    BY <1>3, <1>6, <1>7, PlainTaken
  <2>4. SameFunds(B, A)
    BY <1>3, <1>7, <1>11, PlainTaken
  <2>5. PICK taken : taken = [B EXCEPT !.bal[z.to] = @ - z.amount, !.incoming[z.to] = @ - 1]
    OBVIOUS
  <2>6. SameFunds(taken, B) /\ taken.ok = B.ok
    BY <1>15, <2>5 DEF SameFunds, Shape
  <2>7. taken.dels = J.dels /\ taken.staked = J.staked /\ taken.history = J.history /\ Shape(taken)
    BY <2>3, <2>4, <2>6 DEF SameFunds
  <2>8. UnposValid(taken, h, d, amount)
    <3>1. Registered(taken, d)
      BY <2>2, <2>7 DEF Over, Registered
    <3>2. J.dels[d].funds # <<>>
      <4>5. amount > 0
        BY <1>1, <1>18, <2>1
      <4>1. PICK o : o = L.dels[d].owner
        OBVIOUS
      <4>2. amount > 0 => Held(J.dels[d].funds, o) > Held(L.dels[d].funds, o)
        BY <2>2, <4>1 DEF Over
      <4>3. Held(J.dels[d].funds, o) \in Nat /\ Held(L.dels[d].funds, o) \in Nat
        BY <2>2, HeldStored
      <4>4. Held(<<>>, o) = 0
        BY HeldNone
      <4> QED BY <1>2, <2>1, <4>2, <4>3, <4>4, <4>5
    <3>3. J.history[h].owner = J.dels[d].owner
      BY <2>2 DEF Over
    <3>4. J.staked >= amount
      <4>1. L.staked \in Nat /\ J.staked = L.staked + amount /\ amount \in Nat
        BY <1>2, <2>1, <2>2 DEF Over, Stored
      <4> QED BY <4>1
    <3> QED BY <2>7, <3>1, <3>2, <3>3, <3>4 DEF UnposValid
  <2>9. M = RemovePosReward(taken, h, d, amount)
    BY <1>3, <1>12, <1>18, <1>20, <2>1, <2>5, <2>8 DEF RemoveOutput
  <2>10. M.ok = taken.ok
    BY <2>7, <2>9, RemovePosRewardSteady DEF Steady
  <2> QED BY <1>4, <1>12, <1>18, <2>6, <2>10
<1> QED BY <1>17, <1>18, <1>19

\* g is a list of ledgers with good funds that the first n transactions of t lead
\* through, in all of which delegate d (0 for none) is registered, with one owner.
Placing(g, t, n, d) ==
  /\ \A k \in 0 .. n : Stored(g[k])
  /\ \A k \in 1 .. n : Places(g[k - 1], t[k], g[k])
  /\ d # 0 => \A k \in 0 .. n : Registered(g[k], d) /\ g[k].dels[d].owner = g[0].dels[d].owner

LEMMA ApplyingPlaces ==
  ASSUME NEW g, NEW h, NEW n \in Nat, NEW t \in [1 .. n -> Transaction], NEW top \in Nat,
         Applying(g, h, t, n, top), Through(g, t, n), Stored(g[0]), NEW d, d # 0 => Registered(g[0], d)
  PROVE  Placing(g, t, n, d)
<1>1. \A k \in 1 .. n : g[k] = ApplyTxToState(g[k - 1], h, t[k], top) /\ g[k].ok
  BY DEF Applying
<1> DEFINE S == {k \in Nat : k <= n => Stored(g[k])}
<1>2. 0 \in S
  OBVIOUS
<1>3. ASSUME NEW k \in Nat, k \in S PROVE k + 1 \in S
  <2>1. CASE k + 1 <= n
    <3>1. k + 1 \in 1 .. n /\ (k + 1) - 1 = k /\ Stored(g[k])
      BY <1>3, <2>1
    <3>2. g[k + 1] = ApplyTxToState(g[k], h, t[k + 1], top) /\ t[k + 1] \in Transaction
      BY <1>1, <3>1
    <3> QED BY <3>1, <3>2, ApplyTxStored
  <2>2. CASE ~(k + 1 <= n)
    BY <2>2
  <2> QED BY <2>1, <2>2
<1>4. Nat \subseteq S
  <2> HIDE DEF S
  <2> QED BY <1>2, <1>3, NatSetInduction
<1>5. \A k \in 0 .. n : Stored(g[k])
  BY <1>4
<1>6. ASSUME NEW k \in 1 .. n PROVE Places(g[k - 1], t[k], g[k]) /\ t[k] \in Transaction
  <2>1. k - 1 \in 0 .. n /\ t[k] \in Transaction
    OBVIOUS
  <2>2. Stored(g[k - 1]) /\ Accounts(g[k - 1])
    BY <1>5, <2>1 DEF Through
  <2> QED BY <1>1, <2>1, <2>2, ApplyTxPlaces
<1>7. ASSUME d # 0
      PROVE  \A k \in 0 .. n : Registered(g[k], d) /\ g[k].dels[d].owner = g[0].dels[d].owner
  <2> DEFINE R == {k \in Nat : k <= n => Registered(g[k], d) /\ g[k].dels[d].owner = g[0].dels[d].owner}
  <2>1. 0 \in R
    BY <1>7
  <2>2. ASSUME NEW k \in Nat, k \in R PROVE k + 1 \in R
    <3>1. CASE k + 1 <= n
      <4>1. k + 1 \in 1 .. n /\ (k + 1) - 1 = k /\ k \in 0 .. n
        BY <3>1
      <4>2. Registered(g[k], d) /\ g[k].dels[d].owner = g[0].dels[d].owner /\ Stored(g[k])
        BY <1>5, <2>2, <4>1
      <4>3. Places(g[k], t[k + 1], g[k + 1]) /\ t[k + 1] \in Transaction
        BY <1>6, <4>1
      <4>4. t[k + 1].kind \in {"transfer", "register", "set", "stake", "unstake"}
        BY <4>3 DEF Transaction
      <4>5. Registered(g[k + 1], d) /\ g[k + 1].dels[d].owner = g[k].dels[d].owner
        BY <4>2, <4>3, <4>4, PlacesKeep
      <4> QED BY <4>2, <4>5
    <3>2. CASE ~(k + 1 <= n)
      BY <3>2
    <3> QED BY <3>1, <3>2
  <2>3. Nat \subseteq R
    <3> HIDE DEF R
    <3> QED BY <2>1, <2>2, NatSetInduction
  <2> QED BY <2>3
<1> QED BY <1>5, <1>6, <1>7 DEF Placing

\* J is the ledger L with what coinbase cb left in H, the ledger after the block, on top.
Laid(J, L, cb, H) ==
  J.ok /\ Stored(J) /\ Above(J, L, cb) /\ Over(J, L, Rest(cb).pos, Prize(cb)) /\ J.history = H.history

\* Undoing the transactions of a block keeps its coinbase in place, to the first one.
LEMMA WithoutTxsLaid ==
  ASSUME NEW h \in 1 .. MaxHeight, NEW n \in Nat, NEW t \in [1 .. n -> Transaction], NEW top \in Nat,
         NEW cb, NEW total \in Nat, IsCoinbase(cb, total), Rest(cb).pos \in DelegateIds \cup {0}, Prize(cb) \in Nat,
         NEW g, Through(g, t, n), Placing(g, t, n, Rest(cb).pos),
         NEW H, Laid(H, g[n], cb, H), NEW J, J = WithoutTxs(H, h, t, top)
  PROVE  Laid(J, g[0], cb, H)
<1>1. PICK f : Backward(f, "remove", h, top, H, t, n, J)
  BY RemoveStates
<1>2. /\ f[n] = H /\ f[0] = J
      /\ \A k \in 1 .. n : f[k - 1] = RemoveTxFromState(f[k], h, t[k], top)
  BY <1>1 DEF Backward, Step
<1>3. PICK d, x : d = Rest(cb).pos /\ x = Prize(cb)
  OBVIOUS
<1>4. d \in DelegateIds \cup {0} /\ x \in Nat
  BY <1>3
<1> DEFINE S == {k \in 0 .. n : Laid(f[k], g[k], cb, H)}
<1>5. n \in S
  BY <1>2
<1>6. ASSUME NEW k \in 1 .. n, k \in S PROVE k - 1 \in S
  <2>1. PICK L, M, K, N, tx : L = g[k - 1] /\ M = g[k] /\ K = f[k] /\ N = f[k - 1] /\ tx = t[k]
    OBVIOUS
  <2>2. k \in 0 .. n /\ k - 1 \in 0 .. n /\ tx \in Transaction
    BY <2>1
  <2>3. Accounts(L) /\ Accounts(M) /\ Moves(L, tx, M)
    BY <2>1, <2>2 DEF Through
  <2>4. Stored(L) /\ Stored(M) /\ Places(L, tx, M) /\ (d # 0 => Registered(L, d))
    BY <1>3, <2>1, <2>2 DEF Placing
  <2>5. K.ok /\ Stored(K) /\ Above(K, M, cb) /\ Over(K, M, d, x) /\ K.history = H.history
    BY <1>3, <1>6, <2>1 DEF Laid
  <2>6. N = RemoveTxFromState(K, h, tx, top)
    BY <1>2, <2>1
  <2>7. K.nonce = M.nonce /\ K.delegate = M.delegate
    BY <2>5 DEF Above
  <2>8. N.ok /\ Over(N, L, d, x) /\ N.history = K.history
    BY <1>4, <2>2, <2>3, <2>4, <2>5, <2>6, <2>7, RemoveTxPlaces
  <2>9. Stored(N)
    BY <2>2, <2>5, <2>6, RemoveTxStored
  <2>10. Above(N, L, cb)
    BY <2>2, <2>3, <2>5, <2>6, <2>8, RemoveTxMoves
  <2>11. Laid(N, L, cb, H)
    BY <1>3, <2>5, <2>8, <2>9, <2>10 DEF Laid
  <2> QED BY <2>1, <2>2, <2>11
<1>7. 0 .. n \subseteq S
  <2> HIDE DEF S
  <2> QED BY <1>5, <1>6, BackInduction
<1> QED BY <1>2, <1>7

\* A block that was applied can be undone.
LEMMA BlockUndone ==
  ASSUME NEW L, Accounts(L), Stored(L), NEW h \in 1 .. MaxHeight, NEW b \in AnyBlock,
         b.signed => Registered(L, b.delegate), NEW top \in Nat, NEW M,
         M = ApplyBlockToState(L, h, b, top), M.ok, NEW later \in Nat
  PROVE  RemoveBlockFromState(M, h, b, later).ok
<1>1. PICK t \in Seq(Transaction) : t = b.txs
  BY DEF AnyBlock
<1>2. PICK n : n = Len(t)
  OBVIOUS
<1>3. n \in Nat /\ t \in [1 .. n -> Transaction]
  BY <1>2
<1>4. PICK K : K = AfterTxs(L, h, t, top)
  OBVIOUS
<1>5. PICK cb, total : total = TotalReward(b, h) /\ cb = CoinbaseTransaction(b, total)
  OBVIOUS
<1>6. M = IF b.next \in NextStakers(L) THEN ApplyTxOutputsToState(K, h, cb) ELSE Refuse(L)
  BY <1>1, <1>4, <1>5 DEF ApplyBlockToState, AfterTxs
<1>7. Refuse(L).ok = FALSE
  BY RefuseLike DEF Accounts
<1>8. M = ApplyTxOutputsToState(K, h, cb)
  BY <1>6, <1>7
<1>9. PICK m \in Nat : DOMAIN cb = 1 .. m
  BY <1>5, CoinbaseList
<1>10. Numbered(L)
  BY DEF Accounts, Numbered
<1>11. Numbered(K)
  BY <1>3, <1>4, <1>10, AfterTxsCounts
<1>12. K.ok
  <2>1. Shape(K)
    BY <1>11 DEF Numbered
  <2>2. M.ok => K.ok
    BY <1>8, <1>9, <2>1, PaidLike
  <2> QED BY <2>2
<1>13. /\ Fees(t) \in Nat /\ Accounts(K)
       /\ \E g : g[0] = L /\ g[n] = K /\ Through(g, t, n) /\ Applying(g, h, t, n, top)
  BY <1>3, <1>4, <1>12, AfterTxsMoves
<1>14. PICK g : g[0] = L /\ g[n] = K /\ Through(g, t, n) /\ Applying(g, h, t, n, top)
  BY <1>13
<1>15. Reward(h) \in Nat
  BY RewardType, LedgerAssumption
<1>16. total \in Nat
  <2>1. total = Reward(h) + Fees(t)
    BY <1>1, <1>5 DEF TotalReward, Fees
  <2> QED BY <1>13, <1>15, <2>1
<1>17. b.signed => b.delegate \in DelegateIds
  BY DEF Registered
<1>18. /\ IsCoinbase(cb, total)
       /\ cb[1].pos = 0 /\ cb[2].pos = 0 /\ Rest(cb).pos \in {0, IF b.signed THEN b.delegate ELSE 0}
       /\ Rest(cb).pos # 0 => Rest(cb).amount > 0
  BY <1>5, <1>16, <1>17, CoinbaseAdds
<1>19. Above(M, K, cb)
  BY <1>8, <1>13, <1>16, <1>18, CoinbasePays
<1>20. PICK x, y, z : x = cb[1] /\ y = cb[2] /\ z = Rest(cb)
  OBVIOUS
<1>21. z.amount \in Nat
  BY <1>18, <1>20 DEF IsCoinbase
<1>22. /\ x.pos = 0 /\ y.pos = 0
       /\ cb[1].pos = 0 /\ cb[2].pos = 0 /\ Rest(cb).pos = z.pos
  BY <1>18, <1>20
<1>23. z.pos \in DelegateIds \cup {0} /\ (z.pos # 0 => Registered(L, z.pos))
  BY <1>17, <1>18, <1>20
<1>24. Earns(z)
  BY <1>18, <1>20, <1>21 DEF Earns, Gains
<1>25. Placing(g, t, n, z.pos)
  BY <1>3, <1>14, <1>23, ApplyingPlaces
<1>26. Stored(K)
  BY <1>3, <1>14, <1>25 DEF Placing
<1>27. PICK prize : prize = Prize(cb)
  OBVIOUS
<1>28. prize = (IF z.pos = 0 THEN 0 ELSE z.amount) /\ prize \in Nat
  BY <1>20, <1>21, <1>27 DEF Prize
<1>29. PICK A, B : A = ApplyOutput(K, h, x) /\ B = ApplyOutput(A, h, y)
  OBVIOUS
<1>37. M = ApplyOutput(B, h, z) \/ (z.pos = 0 /\ M = B)
  <2>1. M = PayRest(ApplyOutput(ApplyOutput(K, h, x), h, y), h, cb)
    BY <1>8, <1>18, <1>20, PayCoinbase
  <2>2. ~(3 \in DOMAIN cb) => z.pos = 0
    BY <1>20 DEF Rest
  <2> QED BY <1>20, <1>29, <2>1, <2>2 DEF PayRest
<1>30. /\ Over(M, K, z.pos, prize)
       /\ z.pos # 0 => M.history[h] = K.dels[z.pos]
  <2>1. Stored(K) /\ x.pos = 0 /\ y.pos = 0 /\ z.pos \in DelegateIds \cup {0} /\ Earns(z) /\ M.ok
    BY <1>22, <1>23, <1>24, <1>26
  <2>2. SameFunds(B, K)
    <3>1. SameFunds(A, K)
      BY <1>29, <2>1, PlainPaid DEF Stored
    <3>2. SameFunds(B, A)
      BY <1>29, <2>1, <3>1, PlainPaid DEF SameFunds
    <3> QED BY <3>1, <3>2 DEF SameFunds
  <2>3. Stored(B)
    <3>1. Stored(A)
      BY <1>29, <2>1, ApplyOutputStored DEF Earns
    <3> QED BY <1>29, <2>1, <3>1, ApplyOutputStored DEF Earns
  <2> QED BY <1>28, <1>37, <2>1, <2>2, <2>3, CoinbaseOver
<1>31. Stored(M)
  BY ApplyBlockStored
<1>32. Laid(M, K, cb, M)
  BY <1>19, <1>22, <1>27, <1>30, <1>31 DEF Laid
<1>33. PICK J : J = WithoutTxs(M, h, t, later)
  OBVIOUS
<1>34. Laid(J, L, cb, M)
  <2>1. Placing(g, t, n, Rest(cb).pos) /\ Laid(M, g[n], cb, M) /\ Prize(cb) \in Nat /\ Rest(cb).pos \in DelegateIds \cup {0}
    BY <1>14, <1>22, <1>23, <1>25, <1>27, <1>28, <1>32
  <2> QED BY <1>3, <1>14, <1>16, <1>18, <1>33, <2>1, WithoutTxsLaid
<1>35. Rest(cb).pos # 0 => Registered(L, Rest(cb).pos) /\ J.history[h].owner = L.dels[Rest(cb).pos].owner
  <2>1. z.pos # 0 => K.dels[z.pos].owner = L.dels[z.pos].owner
    BY <1>3, <1>14, <1>25 DEF Placing
  <2>2. J.history = M.history
    BY <1>34 DEF Laid
  <2> QED BY <1>22, <1>23, <1>30, <2>1, <2>2
<1>36. RemoveTxOutputsFromState(J, h, cb).ok
  BY <1>16, <1>18, <1>22, <1>23, <1>34, <1>35, CoinbaseUndone DEF Laid
<1> QED BY <1>1, <1>5, <1>33, <1>36 DEF RemoveBlockFromState, WithoutTxs

LEMMA InvUndoAll ==
  ASSUME StakeInv
  PROVE  UndoRestoresAccounts
<1> SUFFICES ASSUME NEW b \in Applicable
             PROVE  RoundTrip(b).ok /\ SameAccounts(RoundTrip(b), led)
  BY DEF UndoRestoresAccounts, SameAccounts
<1>1. PICK L, c, h : L = led /\ c = chain /\ h = Height + 1
  OBVIOUS
<1>2. SupplyInv /\ LedgerInv /\ Booked(L, c) /\ Stored(L) /\ c \in Seq(AnyBlock)
  BY <1>1 DEF StakeInv, Whole, SupplyInv, LedgerInv, Chained
<1>3. Accounts(L)
  BY <1>2, BookedAccounts
<1>4. b \in Offered
  BY DEF Applicable
<1>5. b \in AnyBlock /\ Height < MaxHeight
  BY <1>2, <1>4, OfferedListed
<1>6. h \in 1 .. MaxHeight /\ h \in Nat
  BY <1>1, <1>2, <1>5, LedgerAssumption DEF Height
<1>7. topHeight \in Nat
  BY TopType, LedgerAssumption
<1>8. b.signed => Registered(L, b.delegate)
  <2>1. StakeCheck(L, h, b)
    BY <1>1, <1>4 DEF Offered, Candidates
  <2> QED BY <2>1 DEF StakeCheck
<1>9. PICK up, back : /\ up = ApplyBlockToState(L, h, b, topHeight)
                      /\ back = RemoveBlockFromState(up, h, b, h)
  OBVIOUS
<1>10. back = RoundTrip(b) /\ up.ok
  BY <1>1, <1>9 DEF RoundTrip, Applicable
<1>11. back.ok
  BY <1>3, <1>2, <1>5, <1>6, <1>7, <1>8, <1>9, <1>10, BlockUndone
<1>12. UndoExact
  BY <1>2, InvUndo
<1> QED BY <1>10, <1>11, <1>12 DEF UndoExact

\* RemoveBlockFromState undoes every block that ApplyBlockToState applied, without an
\* error, and gives back balances, counters, nonces and delegate choices: the undo of
\* a stake finds the stake, that of a registration a delegate without funds, and
\* RemovePosReward a delegate with the owner and the funds it asks for.
THEOREM UndoSucceeds == Spec => []UndoRestoresAccounts
BY StakeInit, StakeStep, InvUndoAll, PTL DEF Spec

-----------------------------------------------------------------------------
(* Stakes, StakedAmount and balances in step                               *)

\* What every user has in a list of funds.
Holdings(s) == [u \in Users |-> Held(s, u)]

\* The total of the funds of different owners is what their owners have.
LEMMA TotalHeld ==
  ASSUME NEW s, Apart(s)
  PROVE  /\ TotalAmount(s) \in Nat
         /\ TotalAmount(s) = SumFunction(Holdings(s))
         /\ Holdings(s) \in [Users -> Int]
<1>1. PICK n \in Nat : n = Len(s) /\ DOMAIN s = 1 .. n /\ s \in [1 .. n -> Fund]
  BY DEF Apart
<1>2. PICK f : Forward(f, "total", 0, 0, 0, s, n, TotalAmount(s))
  BY <1>1, TotalStates
<1>3. \A k \in 0 .. n : f[k] \in Nat
  BY <1>1, <1>2, TotalType
<1>4. f[0] = 0 /\ f[n] = TotalAmount(s) /\ \A k \in 1 .. n : f[k] = f[k - 1] + s[k].amount
  BY <1>2 DEF Forward, Step
<1>5. IsFiniteSet(Users)
  BY LedgerAssumption
<1>6. \A u : Held(s, u) \in Nat
  BY HeldType
<1> DEFINE Owns(k, u) == \E i \in 1 .. k : s[i].owner = u
           Upto(k) == [u \in Users |-> IF Owns(k, u) THEN Held(s, u) ELSE 0]
           T == {k \in Nat : k <= n => SumFunction(Upto(k)) = f[k]}
<1>7. 0 \in T
  <2>1. Upto(0) = [u \in Users |-> 0]
    OBVIOUS
  <2>2. SumFunction(Upto(0)) = 0
    <3> HIDE DEF Upto
    <3> QED BY <1>5, <2>1, SumZero
  <2> QED BY <1>4, <2>2
<1>8. ASSUME NEW k \in Nat, k \in T PROVE k + 1 \in T
  <2>1. CASE k + 1 <= n
    <3>1. k + 1 \in 1 .. n /\ (k + 1) - 1 = k /\ k \in 0 .. n
      BY <2>1
    <3>2. PICK a, x : a = s[k + 1].owner /\ x = s[k + 1].amount
      OBVIOUS
    <3>3. a \in Users /\ x \in Nat /\ Held(s, a) = x
      BY <1>1, <3>1, <3>2, HeldAt DEF Fund
    <3>4. ~Owns(k, a) /\ Owns(k + 1, a)
      <4>1. ASSUME NEW i \in 1 .. k, s[i].owner = a PROVE FALSE
        <5>1. i \in DOMAIN s /\ k + 1 \in DOMAIN s /\ i # k + 1
          BY <1>1, <3>1
        <5> QED BY <3>2, <4>1, <5>1 DEF Apart
      <4>2. k + 1 \in 1 .. k + 1
        BY <3>1
      <4> QED BY <3>2, <4>1, <4>2
    <3>5. \A u : u # a => (Owns(k + 1, u) <=> Owns(k, u))
      <4>1. \A i \in 1 .. k + 1 : i \in 1 .. k \/ i = k + 1
        OBVIOUS
      <4>2. \A i \in 1 .. k : i \in 1 .. k + 1
        OBVIOUS
      <4> QED BY <3>2, <4>1, <4>2
    <3>6. Upto(k) \in [Users -> Int]
      BY <1>6
    <3>7. Adds(Upto(k), a, x, Upto(k + 1))
      <4> HIDE DEF Owns
      <4>1. Upto(k)[a] = 0 /\ Upto(k + 1)[a] = x
        BY <3>3, <3>4
      <4>2. \A u \in Users : u # a => Upto(k + 1)[u] = Upto(k)[u]
        BY <3>5
      <4>3. Upto(k + 1) = [u \in Users |-> Upto(k + 1)[u]] /\ Upto(k) = [u \in Users |-> Upto(k)[u]]
        OBVIOUS
      <4>4. Upto(k)[a] + x = x
        BY <3>3, <4>1
      <4> HIDE DEF Upto
      <4> QED BY <3>3, <4>1, <4>2, <4>3, <4>4 DEF Adds
    <3>8. SumFunction(Upto(k + 1)) = SumFunction(Upto(k)) + x
      <4>1. x \in Int
        BY <3>3
      <4> HIDE DEF Upto
      <4> QED BY <1>5, <3>3, <3>6, <3>7, <4>1, SumPoint
    <3>9. SumFunction(Upto(k)) = f[k] /\ f[k + 1] = f[k] + x
      BY <1>4, <1>8, <3>1, <3>2
    <3> HIDE DEF Upto
    <3> QED BY <3>8, <3>9
  <2>2. CASE ~(k + 1 <= n)
    BY <2>2
  <2> QED BY <2>1, <2>2
<1>9. Nat \subseteq T
  <2> HIDE DEF T
  <2> QED BY <1>7, <1>8, NatSetInduction
<1>10. SumFunction(Upto(n)) = f[n]
  BY <1>9
<1>11. Upto(n) = Holdings(s)
  <2>1. \A u \in Users : ~Owns(n, u) => Held(s, u) = 0
    BY <1>1, HeldNone
  <2> HIDE DEF Owns
  <2> QED BY <2>1 DEF Holdings
<1>12. Holdings(s) \in [Users -> Int]
  BY <1>6 DEF Holdings
<1> HIDE DEF Upto
<1> QED BY <1>3, <1>4, <1>10, <1>11, <1>12

\* What one owner has more, the funds have more.
LEMMA TotalShift ==
  ASSUME NEW s, Apart(s), NEW t, Apart(t), NEW u \in Users, NEW x \in Int,
         \A v : Held(t, v) = Held(s, v) + IF v = u THEN x ELSE 0
  PROVE  TotalAmount(t) = TotalAmount(s) + x
<1>1. PICK f, g : f = Holdings(s) /\ g = Holdings(t)
  OBVIOUS
<1>2. /\ f \in [Users -> Int] /\ TotalAmount(s) = SumFunction(f)
      /\ g \in [Users -> Int] /\ TotalAmount(t) = SumFunction(g)
  BY <1>1, TotalHeld
<1>3. g[u] = f[u] + x /\ \A v \in Users : v # u => g[v] = f[v]
  <2>1. \A v \in Users : f[v] = Held(s, v) /\ g[v] = Held(t, v)
    BY <1>1 DEF Holdings
  <2>2. \A v \in Users : f[v] \in Int
    BY <1>2
  <2>3. \A v \in Users : g[v] = f[v] + IF v = u THEN x ELSE 0
    BY <2>1
  <2> QED BY <2>2, <2>3
<1>4. Adds(f, u, x, g)
  BY <1>2, <1>3 DEF Adds
<1> QED BY <1>2, <1>4, SumPoint, LedgerAssumption

\* more has what PosReward makes of the funds s.
PaidInto(s, owner, amount, more) ==
  \E total, added, grown :
    /\ total = TotalAmount(s) /\ added = Shared(s, amount)
    /\ grown = [i \in DOMAIN s |->
                  [s[i] EXCEPT !.amount = @ + Share(s[i], total, amount)
                                            + IF s[i].owner = owner THEN amount - added ELSE 0]]
    /\ more = IF FundOf(s, owner) = {}
              THEN Append(grown, [owner |-> owner, amount |-> amount - added, unlock |-> 0])
              ELSE grown

\* Every coin of a reward goes into a fund: the shares, and what is left over to the
\* owner of the delegate.
LEMMA TotalGrown ==
  ASSUME NEW s, Apart(s), NEW owner \in Users, NEW amount \in Nat, TotalAmount(s) > 0,
         NEW more, PaidInto(s, owner, amount, more)
  PROVE  TotalAmount(more) = TotalAmount(s) + amount
<1>0. PICK total, added, grown :
        /\ total = TotalAmount(s) /\ added = Shared(s, amount)
        /\ grown = [i \in DOMAIN s |->
                      [s[i] EXCEPT !.amount = @ + Share(s[i], total, amount)
                                                + IF s[i].owner = owner THEN amount - added ELSE 0]]
        /\ more = IF FundOf(s, owner) = {}
                  THEN Append(grown, [owner |-> owner, amount |-> amount - added, unlock |-> 0])
                  ELSE grown
  BY DEF PaidInto
<1>1. PICK n \in Nat : n = Len(s) /\ DOMAIN s = 1 .. n /\ s \in [1 .. n -> Fund]
  BY DEF Apart
<1>2. PICK f : Forward(f, "total", 0, 0, 0, s, n, TotalAmount(s))
  BY <1>1, TotalStates
<1>3. f[0] = 0 /\ f[n] = total /\ \A k \in 1 .. n : f[k] = f[k - 1] + s[k].amount
  BY <1>0, <1>2 DEF Forward, Step
<1>4. PICK e : Forward(e, "share", amount, total, 0, s, n, added)
  BY <1>0, <1>1, ShareStates
<1>5. e[0] = 0 /\ e[n] = added /\ \A k \in 1 .. n : e[k] = e[k - 1] + Share(s[k], total, amount)
  BY <1>4 DEF Forward, Step
<1>6. total \in Nat /\ total > 0 /\ added \in Nat /\ added <= amount
  BY <1>0, <1>1, SharedBound
<1>7. PICK rest \in Nat : rest = amount - added
  BY <1>6
<1>8. \A k \in 0 .. n : f[k] \in Nat
  BY <1>1, <1>2, TotalType
<1> DEFINE Owns(k) == \E i \in 1 .. k : s[i].owner = owner
<1>9. ASSUME NEW k \in 1 .. n
      PROVE  /\ Share(s[k], total, amount) \in Nat /\ s[k].amount \in Nat
             /\ grown[k].amount = (s[k].amount + Share(s[k], total, amount))
                                    + IF s[k].owner = owner THEN rest ELSE 0
  <2>1. PICK x \in Fund : x = s[k]
    BY <1>1
  <2>2. PICK z, y : z = Share(x, total, amount) /\ y = IF x.owner = owner THEN rest ELSE 0
    OBVIOUS
  <2>3. z \in Nat /\ x.amount \in Nat
    BY <1>6, <2>2, ShareBound DEF Fund
  <2>4. grown[k] = [x EXCEPT !.amount = @ + z + y]
    BY <1>0, <1>1, <1>7, <2>1, <2>2
  <2>5. grown[k].amount = x.amount + z + y
    BY <2>4 DEF Fund
  <2> QED BY <2>1, <2>2, <2>3, <2>5
<1>10. PICK m, g : /\ m \in Nat /\ m = IF FundOf(s, owner) = {} THEN n + 1 ELSE n
                   /\ DOMAIN more = 1 .. m /\ Forward(g, "total", 0, 0, 0, more, m, TotalAmount(more))
  <2>1. grown = [i \in 1 .. n |-> grown[i]] /\ DOMAIN grown = 1 .. n /\ Len(grown) = n
    <3>1. DOMAIN grown = 1 .. n
      BY <1>0, <1>1
    <3>2. grown = [i \in 1 .. n |-> grown[i]]
      BY <1>0, <1>1
    <3> QED BY <3>1, <3>2
  <2>2. CASE FundOf(s, owner) = {}
    <3>1. DOMAIN more = 1 .. n + 1 /\ n + 1 \in Nat
      BY <1>0, <2>1, <2>2
    <3> QED BY <2>2, <3>1, TotalStates
  <2>3. CASE FundOf(s, owner) # {}
    <3>1. DOMAIN more = 1 .. n
      BY <1>0, <2>1, <2>3
    <3> QED BY <2>3, <3>1, TotalStates
  <2> QED BY <2>2, <2>3
<1>11. g[0] = 0 /\ g[m] = TotalAmount(more) /\ \A k \in 1 .. m : g[k] = g[k - 1] + more[k].amount
  BY <1>10 DEF Forward, Step
<1>12. \A k \in 1 .. n : k \in 1 .. m /\ more[k] = grown[k]
  <2>1. CASE FundOf(s, owner) = {}
    BY <1>0, <1>1, <1>10, <2>1
  <2>2. CASE FundOf(s, owner) # {}
    BY <1>0, <1>1, <1>10, <2>2
  <2> QED BY <2>1, <2>2
<1> DEFINE Good(k) == e[k] \in Nat /\ g[k] = (f[k] + e[k]) + IF Owns(k) THEN rest ELSE 0
           T == {k \in Nat : k <= n => Good(k)}
<1>13. 0 \in T
  <2>1. ~Owns(0)
    OBVIOUS
  <2> QED BY <1>3, <1>5, <1>11, <2>1
<1>14. ASSUME NEW k \in Nat, k \in T PROVE k + 1 \in T
  <2>1. CASE k + 1 <= n
    <3>0. k + 1 \in 1 .. n /\ (k + 1) - 1 = k /\ k \in 0 .. n
      BY <2>1
    <3>1. k + 1 \in 1 .. n /\ (k + 1) - 1 = k /\ k \in 0 .. n /\ k + 1 \in 1 .. m
      BY <1>12, <3>0
    <3>2. PICK x, z, y : x = s[k + 1].amount /\ z = Share(s[k + 1], total, amount) /\ y = more[k + 1].amount
      OBVIOUS
    <3>3. x \in Nat /\ z \in Nat /\ y = (x + z) + IF s[k + 1].owner = owner THEN rest ELSE 0
      BY <1>9, <1>12, <3>1, <3>2
    <3>4. f[k + 1] = f[k] + x /\ e[k + 1] = e[k] + z /\ g[k + 1] = g[k] + y /\ f[k] \in Nat
      BY <1>3, <1>5, <1>8, <1>11, <3>1, <3>2
    <3>5. Good(k)
      BY <1>14, <2>1
    <3>8. PICK f0, e0, g0, f1, e1, g1 : /\ f0 = f[k] /\ e0 = e[k] /\ g0 = g[k]
                                        /\ f1 = f[k + 1] /\ e1 = e[k + 1] /\ g1 = g[k + 1]
      OBVIOUS
    <3>9. f1 = f0 + x /\ e1 = e0 + z /\ g1 = g0 + y /\ f0 \in Nat
      BY <3>4, <3>8
    <3>6. CASE s[k + 1].owner = owner
      <4>1. ~Owns(k)
        <5>1. ASSUME NEW i \in 1 .. k, s[i].owner = owner PROVE FALSE
          <6>1. i \in DOMAIN s /\ k + 1 \in DOMAIN s /\ i # k + 1
            BY <1>1, <3>1
          <6> QED BY <3>6, <5>1, <6>1 DEF Apart
        <5> QED BY <5>1
      <4>2. Owns(k + 1)
        <5>1. k + 1 \in 1 .. k + 1
          BY <3>1
        <5> QED BY <3>6, <5>1
      <4>3. g0 = f0 + e0 /\ e0 \in Nat /\ y = (x + z) + rest
        BY <3>3, <3>5, <3>6, <3>8, <3>9, <4>1
      <4>5. g1 = (f1 + e1) + rest /\ e1 \in Nat
        BY <3>3, <3>9, <4>3
      <4> HIDE DEF Owns
      <4>4. Good(k + 1)
        BY <3>8, <4>2, <4>5
      <4> QED BY <4>4
    <3>7. CASE s[k + 1].owner # owner
      <4>1. Owns(k + 1) <=> Owns(k)
        <5>1. \A i \in 1 .. k + 1 : i \in 1 .. k \/ i = k + 1
          OBVIOUS
        <5>2. \A i \in 1 .. k : i \in 1 .. k + 1
          OBVIOUS
        <5> QED BY <3>7, <5>1, <5>2
      <4> HIDE DEF Owns
      <4>2. PICK w \in Nat : w = (IF Owns(k) THEN rest ELSE 0) /\ w = (IF Owns(k + 1) THEN rest ELSE 0)
        BY <4>1
      <4>3. g0 = (f0 + e0) + w /\ e0 \in Nat /\ y = x + z
        BY <3>3, <3>5, <3>7, <3>8, <4>2
      <4>4. g1 = (f1 + e1) + w /\ e1 \in Nat
        BY <3>3, <3>9, <4>2, <4>3
      <4>5. Good(k + 1)
        BY <3>8, <4>2, <4>4
      <4> QED BY <4>5
    <3> QED BY <3>6, <3>7
  <2>2. CASE ~(k + 1 <= n)
    BY <2>2
  <2> QED BY <2>1, <2>2
<1>15. Nat \subseteq T
  <2> HIDE DEF T
  <2> QED BY <1>13, <1>14, NatSetInduction
<1>16. Good(n)
  BY <1>15
<1>17. CASE FundOf(s, owner) = {}
  <2>1. ~Owns(n)
    BY <1>1, <1>17 DEF FundOf
  <2>2. g[n] = total + added
    BY <1>3, <1>5, <1>6, <1>16, <2>1
  <2>3. m = n + 1 /\ n + 1 \in 1 .. m /\ (n + 1) - 1 = n
    BY <1>10, <1>17
  <2>4. more[n + 1].amount = rest
    <3>1. PICK x : x = [owner |-> owner, amount |-> amount - added, unlock |-> 0]
      OBVIOUS
    <3>2. more = Append(grown, x) /\ x.amount = rest
      BY <1>0, <1>7, <1>17, <3>1
    <3>3. grown = [i \in 1 .. n |-> grown[i]] /\ Len(grown) = n
      <4>1. DOMAIN grown = 1 .. n
        BY <1>0, <1>1
      <4>2. grown = [i \in 1 .. n |-> grown[i]]
        BY <1>0, <1>1
      <4> QED BY <4>1, <4>2
    <3>4. more[n + 1] = x
      BY <3>2, <3>3
    <3> QED BY <3>2, <3>4
  <2>5. TotalAmount(more) = (total + added) + rest
    BY <1>11, <2>2, <2>3, <2>4
  <2> QED BY <1>0, <1>6, <1>7, <2>5
<1>18. CASE FundOf(s, owner) # {}
  <2>1. Owns(n)
    BY <1>1, <1>18 DEF FundOf
  <2>2. g[n] = (total + added) + rest
    BY <1>3, <1>5, <1>6, <1>16, <2>1
  <2>3. m = n
    BY <1>10, <1>18
  <2> QED BY <1>0, <1>6, <1>7, <1>11, <2>2, <2>3
<1> QED BY <1>17, <1>18

\* M has x more in the funds of delegate d than L, and as much more staked.
Tops(L, d, x, M) ==
  /\ M.staked = L.staked + x
  /\ TotalAmount(M.dels[d].funds) = TotalAmount(L.dels[d].funds) + x
  /\ \A e \in DelegateIds : e # d => TotalAmount(M.dels[e].funds) = TotalAmount(L.dels[e].funds)

LEMMA StoredApart ==
  ASSUME NEW L, Stored(L), NEW d \in DelegateIds
  PROVE  Apart(L.dels[d].funds) /\ TotalAmount(L.dels[d].funds) \in Nat
<1>1. Apart(L.dels[d].funds)
  BY DEF Stored, Holder
<1> QED BY <1>1, TotalHeld

LEMMA ShiftTops ==
  ASSUME NEW L, Stored(L), NEW M, Stored(M), NEW d \in DelegateIds, NEW u \in Users, NEW x \in Int,
         Shifts(L, d, u, x, M)
  PROVE  Tops(L, d, x, M)
<1>1. PICK s, t : s = L.dels[d].funds /\ t = M.dels[d].funds
  OBVIOUS
<1>2. Apart(s) /\ Apart(t)
  BY <1>1, StoredApart
<1>3. \A v : Held(t, v) = Held(s, v) + IF v = u THEN x ELSE 0
  BY <1>1 DEF Shifts
<1>4. TotalAmount(t) = TotalAmount(s) + x
  BY <1>2, <1>3, TotalShift
<1> QED BY <1>1, <1>4 DEF Tops, Shifts

\* ApplyPosReward: what is added to StakedAmount is added to the funds.
LEMMA RewardTops ==
  ASSUME NEW L, Stored(L), NEW h, NEW d, PosValid(L, d), NEW amount, Gains(amount),
         NEW M, M = PosReward(L, h, d, amount)
  PROVE  Tops(L, d, amount, M)
<1>1. PICK s, owner, total, added :
        /\ s = L.dels[d].funds /\ owner = L.dels[d].owner
        /\ total = TotalAmount(s) /\ added = Shared(s, amount)
  OBVIOUS
<1>2. d \in DelegateIds /\ total > 0 /\ owner # Nobody
  BY <1>1 DEF PosValid, Registered
<1>3. PICK D \in [DelegateIds -> Holder] : D = L.dels
  BY DEF Stored
<1>4. Apart(s) /\ owner \in Users /\ D[d] \in Delegate /\ amount \in Nat
  BY <1>1, <1>2, <1>3 DEF Holder, Delegate, Gains
<1>5. PICK grown : grown = [i \in DOMAIN s |->
                              [s[i] EXCEPT !.amount =
                                 @ + Share(s[i], total, amount)
                                   + IF s[i].owner = owner THEN amount - added ELSE 0]]
  OBVIOUS
<1>6. PICK more : more = IF FundOf(s, owner) = {}
                         THEN Append(grown, [owner |-> owner, amount |-> amount - added, unlock |-> 0])
                         ELSE grown
  OBVIOUS
<1>7. TotalAmount(more) = TotalAmount(s) + amount
  <2>1. PaidInto(s, owner, amount, more)
    BY <1>1, <1>5, <1>6 DEF PaidInto
  <2> QED BY <1>1, <1>2, <1>4, <2>1, TotalGrown
<1>8. M = [L EXCEPT !.staked = @ + amount, !.history[h] = L.dels[d], !.dels[d].funds = more]
  BY <1>1, <1>5, <1>6 DEF PosReward
<1>9. M.staked = L.staked + amount /\ M.dels = [L.dels EXCEPT ![d].funds = more]
  BY <1>8 DEF Stored, Shape
<1>10. PICK y : y = [D[d] EXCEPT !.funds = more]
  OBVIOUS
<1>11. y.funds = more
  BY <1>4, <1>10 DEF Delegate
<1>12. M.dels = [D EXCEPT ![d] = y]
  BY <1>3, <1>9, <1>10
<1>13. M.dels[d].funds = more /\ \A e \in DelegateIds : e # d => M.dels[e] = L.dels[e]
  BY <1>2, <1>3, <1>11, <1>12
<1> QED BY <1>1, <1>7, <1>9, <1>13 DEF Tops

\* From L to M the funds keep up with StakedAmount, and with the address of every
\* delegate but for the coins that gift says were transferred to it.
InStep(L, M, gift) ==
  /\ Unfunded(M) = Unfunded(L)
  /\ \A d \in DelegateIds : Excess(M, d) = Excess(L, d) + gift[d]

LEMMA TopsUnfunded ==
  ASSUME NEW L, Stored(L), NEW M, Stored(M), NEW d \in DelegateIds, NEW x \in Int, Tops(L, d, x, M)
  PROVE  Unfunded(M) = Unfunded(L) /\ Unfunded(L) \in Int
<1>1. PICK f, g : /\ f = [e \in DelegateIds |-> TotalAmount(L.dels[e].funds)]
                  /\ g = [e \in DelegateIds |-> TotalAmount(M.dels[e].funds)]
  OBVIOUS
<1>2. f \in [DelegateIds -> Int] /\ g \in [DelegateIds -> Int]
  BY <1>1, StoredApart
<1>3. g[d] = f[d] + x /\ \A e \in DelegateIds : e # d => g[e] = f[e]
  BY <1>1 DEF Tops
<1>4. Adds(f, d, x, g)
  BY <1>2, <1>3 DEF Adds
<1>5. SumFunction(f) \in Int /\ SumFunction(g) = SumFunction(f) + x
  BY <1>2, <1>4, SumPoint, LedgerAssumption
<1>6. M.staked = L.staked + x /\ L.staked \in Int
  BY DEF Tops, Stored
<1>7. Unfunded(L) = L.staked - SumFunction(f) /\ Unfunded(M) = M.staked - SumFunction(g)
  BY <1>1 DEF Unfunded
<1> QED BY <1>5, <1>6, <1>7

LEMMA SameUnfunded ==
  ASSUME NEW L, NEW M, SameFunds(M, L)
  PROVE  Unfunded(M) = Unfunded(L)
BY DEF Unfunded, SameFunds

\* What a transaction brings to the funds of delegate d.
Flow(tx, d) ==
  CASE tx.kind = "stake" /\ tx.delegate = d   -> tx.amount
    [] tx.kind = "unstake" /\ tx.delegate = d -> -tx.amount
    [] OTHER                                  -> 0

\* The address of a delegate gets that and what is transferred to it.
LEMMA TxFlow ==
  ASSUME NEW tx \in Transaction, Placed(tx), NEW d \in DelegateIds, NEW a, a = DelegateAddr[d]
  PROVE  /\ Gets(tx, a) \in Nat /\ Sends(tx, a) \in Nat /\ Given(tx, a) \in Nat /\ Flow(tx, d) \in Int
         /\ Gets(tx, a) - Sends(tx, a) = Given(tx, a) + Flow(tx, d)
<1>1. /\ tx.kind \in {"transfer", "register", "set", "stake", "unstake"}
      /\ tx.signer \in Users /\ tx.fee \in Nat /\ tx.amount \in Nat
      /\ tx.kind = "unstake" => tx.fee <= tx.amount
  BY DEF Transaction
<1>2. PICK amount \in Nat : amount = tx.amount
  BY <1>1
<1>3. /\ a # tx.signer /\ a # Burned /\ a # Gov
      /\ \A e \in DelegateIds : DelegateAddr[e] = a => e = d
  BY <1>1, AddrAssumption
<1>4. CASE tx.kind = "transfer"
  <2>1. Input(tx) = [from |-> tx.signer, amount |-> tx.amount + tx.fee]
    BY <1>4 DEF Input
  <2>2. PICK o : o = [to |-> tx.to, amount |-> tx.amount, pos |-> 0]
    OBVIOUS
  <2>3. Outputs(tx) = <<o>>
    BY <1>4, <2>2 DEF Outputs
  <2>4. Sends(tx, a) = 0 /\ Gets(tx, a) = Given(tx, a) /\ Given(tx, a) \in Nat /\ Flow(tx, d) = 0
    BY <1>1, <1>3, <1>4, <2>1, <2>2, <2>3 DEF Sends, Gets, Given, Flow
  <2> QED BY <2>4
<1>5. CASE tx.kind = "register"
  <2>1. Input(tx) = [from |-> tx.signer, amount |-> REGISTER_DELEGATE_BURN + tx.fee]
    BY <1>5 DEF Input
  <2>2. PICK o : o = [to |-> Burned, amount |-> REGISTER_DELEGATE_BURN, pos |-> 0]
    OBVIOUS
  <2>3. Outputs(tx) = <<o>>
    BY <1>5, <2>2 DEF Outputs
  <2>4. Sends(tx, a) = 0 /\ Gets(tx, a) = 0 /\ Given(tx, a) = 0 /\ Flow(tx, d) = 0
    BY <1>1, <1>3, <1>5, <2>1, <2>2, <2>3 DEF Sends, Gets, Given, Flow
  <2> QED BY <2>4
<1>6. CASE tx.kind = "set"
  <2>1. Input(tx) = [from |-> tx.signer, amount |-> tx.fee]
    BY <1>6 DEF Input
  <2>2. Sends(tx, a) = 0 /\ Gets(tx, a) = 0 /\ Given(tx, a) = 0 /\ Flow(tx, d) = 0
    BY <1>1, <1>3, <1>6, <2>1 DEF Sends, Gets, Given, Flow
  <2> QED BY <2>2
<1>7. CASE tx.kind = "stake"
  <2>1. Input(tx) = [from |-> tx.signer, amount |-> tx.amount + tx.fee]
    BY <1>7 DEF Input
  <2>2. PICK o : o = [to |-> DelegateAddr[tx.delegate], amount |-> tx.amount, pos |-> 0]
    OBVIOUS
  <2>3. Outputs(tx) = <<o>>
    BY <1>7, <2>2 DEF Outputs
  <2>4. tx.delegate \in DelegateIds /\ (o.to = a <=> tx.delegate = d)
    BY <1>3, <1>7, <2>2 DEF Placed
  <2>5. Sends(tx, a) = 0 /\ Given(tx, a) = 0
    BY <1>3, <1>7, <2>1 DEF Sends, Given
  <2>6. PICK x : x = IF tx.delegate = d THEN amount ELSE 0
    OBVIOUS
  <2>7. Gets(tx, a) = x
    BY <1>2, <1>7, <2>2, <2>3, <2>4, <2>6 DEF Gets
  <2>8. Flow(tx, d) = x
    BY <1>2, <1>7, <2>6 DEF Flow
  <2> QED BY <1>2, <2>5, <2>6, <2>7, <2>8
<1>8. CASE tx.kind = "unstake"
  <2>1. Input(tx) = [from |-> DelegateAddr[tx.delegate], amount |-> tx.amount]
    BY <1>8 DEF Input
  <2>2. PICK o : o = [to |-> tx.signer, amount |-> tx.amount - tx.fee, pos |-> 0]
    OBVIOUS
  <2>3. Outputs(tx) = <<o>>
    BY <1>8, <2>2 DEF Outputs
  <2>4. tx.delegate \in DelegateIds /\ (DelegateAddr[tx.delegate] = a <=> tx.delegate = d)
    BY <1>3, <1>8 DEF Placed
  <2>5. Gets(tx, a) = 0 /\ Given(tx, a) = 0
    BY <1>3, <1>8, <2>2, <2>3 DEF Gets, Given
  <2>6. PICK x \in Nat : x = IF tx.delegate = d THEN amount ELSE 0
    BY <1>2
  <2>7. Sends(tx, a) = x
    BY <1>2, <2>1, <2>4, <2>6 DEF Sends
  <2>8. Flow(tx, d) = -x
    <3>1. tx.delegate = d => Flow(tx, d) = -amount
      BY <1>2, <1>8 DEF Flow
    <3>2. tx.delegate # d => Flow(tx, d) = 0
      BY <1>8 DEF Flow
    <3> QED BY <2>6, <3>1, <3>2
  <2> QED BY <2>5, <2>6, <2>7, <2>8
<1> QED BY <1>1, <1>4, <1>5, <1>6, <1>7, <1>8

\* A transaction keeps the funds in step.
LEMMA TxInStep ==
  ASSUME NEW L, Accounts(L), Stored(L), NEW tx \in Transaction, NEW M, Stored(M),
         Moves(L, tx, M), Places(L, tx, M)
  PROVE  InStep(L, M, [d \in DelegateIds |-> Given(tx, DelegateAddr[d])])
<1>1. Placed(tx) /\ M.bal = [a \in Addresses |-> (L.bal[a] - Sends(tx, a)) + Gets(tx, a)]
  BY DEF Moves
<1>2. /\ tx.kind \in {"transfer", "register", "set", "stake", "unstake"}
      /\ tx.signer \in Users /\ tx.amount \in Nat
  BY DEF Transaction
<1>3. /\ Unfunded(M) = Unfunded(L)
      /\ \A d \in DelegateIds : TotalAmount(M.dels[d].funds) = TotalAmount(L.dels[d].funds) + Flow(tx, d)
  <2>0. \A d \in DelegateIds : TotalAmount(L.dels[d].funds) \in Nat
    BY StoredApart
  <2>1. ASSUME NEW x \in Int, NEW e \in DelegateIds, Tops(L, e, x, M), Flow(tx, e) = x,
               \A d \in DelegateIds : d # e => Flow(tx, d) = 0
        PROVE  /\ Unfunded(M) = Unfunded(L)
               /\ \A d \in DelegateIds : TotalAmount(M.dels[d].funds) = TotalAmount(L.dels[d].funds) + Flow(tx, d)
    <3>1. Unfunded(M) = Unfunded(L)
      BY <2>1, TopsUnfunded
    <3> QED BY <2>0, <2>1, <3>1 DEF Tops
  <2>2. CASE tx.kind = "stake"
    <3>1. PICK e, x : e = tx.delegate /\ x = tx.amount
      OBVIOUS
    <3>2. e \in DelegateIds /\ x \in Int /\ Shifts(L, e, tx.signer, x, M)
      BY <1>1, <1>2, <2>2, <3>1 DEF Placed, Places
    <3>3. Tops(L, e, x, M)
      BY <1>2, <3>2, ShiftTops
    <3>4. Flow(tx, e) = x /\ \A d \in DelegateIds : d # e => Flow(tx, d) = 0
      BY <2>2, <3>1 DEF Flow
    <3> QED BY <2>1, <3>2, <3>3, <3>4
  <2>3. CASE tx.kind = "unstake"
    <3>1. PICK e, x : e = tx.delegate /\ x = -tx.amount
      OBVIOUS
    <3>2. e \in DelegateIds /\ x \in Int /\ Shifts(L, e, tx.signer, x, M)
      BY <1>1, <1>2, <2>3, <3>1 DEF Placed, Places
    <3>3. Tops(L, e, x, M)
      BY <1>2, <3>2, ShiftTops
    <3>4. Flow(tx, e) = x /\ \A d \in DelegateIds : d # e => Flow(tx, d) = 0
      BY <2>3, <3>1 DEF Flow
    <3> QED BY <2>1, <3>2, <3>3, <3>4
  <2>4. CASE tx.kind \in {"transfer", "set"}
    <3>1. SameFunds(M, L)
      BY <2>4 DEF Places
    <3>2. \A d \in DelegateIds : Flow(tx, d) = 0
      BY <2>4 DEF Flow
    <3>3. M.dels = L.dels
      BY <3>1 DEF SameFunds
    <3> QED BY <2>0, <3>1, <3>2, <3>3, SameUnfunded
  <2>5. CASE tx.kind = "register"
    <3>1. PICK e : e = tx.delegate
      OBVIOUS
    <3>2. e \in DelegateIds /\ ~Registered(L, e) /\ Registers(L, e, tx.signer, M)
      BY <2>5, <3>1 DEF Places
    <3>3. PICK D \in [DelegateIds -> Holder] : D = L.dels
      BY DEF Stored
    <3>4. PICK x : x = [owner |-> tx.signer, funds |-> <<>>]
      OBVIOUS
    <3>5. M.dels = [D EXCEPT ![e] = x] /\ M.staked = L.staked /\ x.funds = <<>>
      BY <3>2, <3>3, <3>4 DEF Registers
    <3>6. D[e].funds = <<>>
      BY <3>2, <3>3 DEF Registered, Holder, Vacant
    <3>7. \A d \in DelegateIds : M.dels[d].funds = L.dels[d].funds
      BY <3>2, <3>3, <3>5, <3>6
    <3>8. Unfunded(M) = Unfunded(L)
      BY <3>5, <3>7 DEF Unfunded
    <3>9. \A d \in DelegateIds : Flow(tx, d) = 0
      BY <2>5 DEF Flow
    <3> QED BY <2>0, <3>7, <3>8, <3>9
  <2> QED BY <1>2, <2>2, <2>3, <2>4, <2>5
<1>4. ASSUME NEW d \in DelegateIds
      PROVE  Excess(M, d) = Excess(L, d) + Given(tx, DelegateAddr[d])
  <2>1. PICK a : a = DelegateAddr[d]
    OBVIOUS
  <2>2. PICK p, q, g, w : p = Gets(tx, a) /\ q = Sends(tx, a) /\ g = Given(tx, a) /\ w = Flow(tx, d)
    OBVIOUS
  <2>3. p \in Nat /\ q \in Nat /\ g \in Nat /\ w \in Int /\ p - q = g + w
    BY <1>1, <2>1, <2>2, TxFlow
  <2>4. a \in Addresses /\ L.bal[a] \in Nat
    BY <2>1 DEF Addresses, Accounts
  <2>5. PICK b0, b1, t0, t1 : /\ b0 = L.bal[a] /\ b1 = M.bal[a]
                              /\ t0 = TotalAmount(L.dels[d].funds) /\ t1 = TotalAmount(M.dels[d].funds)
    OBVIOUS
  <2>6. b1 = (b0 - q) + p /\ t1 = t0 + w /\ b0 \in Nat /\ t0 \in Nat
    BY <1>1, <1>3, <2>2, <2>4, <2>5, StoredApart
  <2>7. b1 - t1 = (b0 - t0) + g
    BY <2>3, <2>6
  <2> QED BY <2>1, <2>2, <2>5, <2>7 DEF Excess
<1> QED BY <1>3, <1>4 DEF InStep

\* What a list of transactions transfers to an address.
GivenAll(s, a) == FoldLeft(LAMBDA sum, tx : sum + Given(tx, a), 0, s)

LEMMA GivenStates ==
  ASSUME NEW s, NEW a, NEW n \in Nat, DOMAIN s = 1 .. n
  PROVE  \E g : Forward(g, "given", a, 0, 0, s, n, GivenAll(s, a))
<1> DEFINE Is(f) == f = [t \in SUBSET DOMAIN s |->
                           IF t = {} THEN 0 ELSE f[t \ {Max(t)}] + Given(s[Max(t)], a)]
<1>1. \A f : Is(f) <=> Folding(f, "given", a, 0, 0, s)
  BY DEF Folding, Step, Pick
<1>2. PICK f : f = CHOOSE e : Is(e)
  OBVIOUS
<1>3. GivenAll(s, a) = f[DOMAIN s]
  BY <1>2 DEF GivenAll, FoldLeft, MapThenFoldSet
<1> HIDE DEF Is
<1>4. Is(f)
  BY <1>1, <1>2, FoldingExists
<1>5. "given" # "remove"
  OBVIOUS
<1> QED BY <1>1, <1>3, <1>4, <1>5, LeftStates

LEMMA ExcessType ==
  ASSUME NEW L, Accounts(L), Stored(L), NEW d \in DelegateIds
  PROVE  Excess(L, d) \in Int
<1>1. DelegateAddr[d] \in Addresses
  BY DEF Addresses
<1>2. L.bal[DelegateAddr[d]] \in Nat
  BY <1>1 DEF Accounts
<1>3. TotalAmount(L.dels[d].funds) \in Nat
  BY StoredApart
<1> QED BY <1>2, <1>3 DEF Excess

\* The transactions of a block keep the funds in step.
LEMMA TxsInStep ==
  ASSUME NEW n \in Nat, NEW t \in [1 .. n -> Transaction], NEW g, Through(g, t, n), NEW e, Placing(g, t, n, e)
  PROVE  InStep(g[0], g[n], [d \in DelegateIds |-> GivenAll(t, DelegateAddr[d])])
<1>1. ASSUME NEW k \in 1 .. n
      PROVE  InStep(g[k - 1], g[k], [d \in DelegateIds |-> Given(t[k], DelegateAddr[d])])
  <2>1. PICK L, M, tx : L = g[k - 1] /\ M = g[k] /\ tx = t[k]
    OBVIOUS
  <2>2. k - 1 \in 0 .. n /\ k \in 0 .. n /\ tx \in Transaction
    BY <2>1
  <2>3. Accounts(L) /\ Moves(L, tx, M)
    BY <2>1, <2>2 DEF Through
  <2>4. Stored(L) /\ Stored(M) /\ Places(L, tx, M)
    BY <2>1, <2>2 DEF Placing
  <2> QED BY <2>1, <2>2, <2>3, <2>4, TxInStep
<1>2. Unfunded(g[n]) = Unfunded(g[0])
  <2> DEFINE S == {k \in Nat : k <= n => Unfunded(g[k]) = Unfunded(g[0])}
  <2>1. 0 \in S
    OBVIOUS
  <2>2. ASSUME NEW k \in Nat, k \in S PROVE k + 1 \in S
    <3>1. CASE k + 1 <= n
      <4>1. k + 1 \in 1 .. n /\ (k + 1) - 1 = k /\ k <= n
        BY <3>1
      <4>2. Unfunded(g[k + 1]) = Unfunded(g[k])
        BY <1>1, <4>1 DEF InStep
      <4> QED BY <2>2, <4>1, <4>2
    <3>2. CASE ~(k + 1 <= n)
      BY <3>2
    <3> QED BY <3>1, <3>2
  <2>3. Nat \subseteq S
    <3> HIDE DEF S
    <3> QED BY <2>1, <2>2, NatSetInduction
  <2> QED BY <2>3
<1>3. ASSUME NEW d \in DelegateIds
      PROVE  Excess(g[n], d) = Excess(g[0], d) + GivenAll(t, DelegateAddr[d])
  <2>0. PICK a : a = DelegateAddr[d]
    OBVIOUS
  <2>1. PICK f : Forward(f, "given", a, 0, 0, t, n, GivenAll(t, a))
    BY GivenStates
  <2>2. f[0] = 0 /\ f[n] = GivenAll(t, a) /\ \A k \in 1 .. n : f[k] = f[k - 1] + Given(t[k], a)
    BY <2>1 DEF Forward, Step
  <2>3. \A k \in 0 .. n : Excess(g[k], d) \in Int
    BY ExcessType DEF Through, Placing
  <2>4. \A k \in 1 .. n : Given(t[k], a) \in Nat
    BY DEF Given, Transaction
  <2>5. ASSUME NEW k \in 1 .. n PROVE Excess(g[k], d) = Excess(g[k - 1], d) + Given(t[k], a)
    BY <1>1, <2>0 DEF InStep
  <2> DEFINE Good(k) == f[k] \in Nat /\ Excess(g[k], d) = Excess(g[0], d) + f[k]
             S == {k \in Nat : k <= n => Good(k)}
  <2>6. 0 \in S
    BY <2>2, <2>3
  <2>7. ASSUME NEW k \in Nat, k \in S PROVE k + 1 \in S
    <3>1. CASE k + 1 <= n
      <4>1. k + 1 \in 1 .. n /\ (k + 1) - 1 = k /\ k <= n /\ k \in 0 .. n /\ 0 \in 0 .. n
        BY <3>1
      <4>2. PICK p, q, r, x, y, z : /\ p = Excess(g[0], d) /\ q = Excess(g[k], d) /\ r = Excess(g[k + 1], d)
                                    /\ x = f[k] /\ y = f[k + 1] /\ z = Given(t[k + 1], a)
        OBVIOUS
      <4>3. p \in Int /\ q \in Int /\ z \in Nat /\ r = q + z /\ y = x + z
        BY <2>2, <2>3, <2>4, <2>5, <4>1, <4>2
      <4>4. x \in Nat /\ q = p + x
        BY <2>7, <4>1, <4>2
      <4>5. y \in Nat /\ r = p + y
        BY <4>3, <4>4
      <4>6. Good(k + 1)
        BY <4>2, <4>5
      <4> HIDE DEF Good
      <4> QED BY <4>1, <4>6
    <3>2. CASE ~(k + 1 <= n)
      BY <3>2
    <3> QED BY <3>1, <3>2
  <2>8. Nat \subseteq S
    <3> HIDE DEF S
    <3> QED BY <2>6, <2>7, NatSetInduction
  <2>9. Good(n)
    BY <2>8
  <2> QED BY <2>0, <2>2, <2>9
<1> QED BY <1>2, <1>3 DEF InStep

\* A coinbase brings its reward to the funds of the delegate.
LEMMA CoinbaseTops ==
  ASSUME NEW K, Stored(K), NEW h \in 1 .. MaxHeight, NEW x, NEW y, NEW z,
         x.pos = 0, y.pos = 0, z.pos \in DelegateIds \cup {0}, Earns(z),
         NEW M, M.ok, \/ M = ApplyOutput(ApplyOutput(ApplyOutput(K, h, x), h, y), h, z)
                      \/ z.pos = 0 /\ M = ApplyOutput(ApplyOutput(K, h, x), h, y)
  PROVE  /\ z.pos = 0 => SameFunds(M, K)
         /\ z.pos # 0 => Tops(K, z.pos, z.amount, M)
<1>1. PICK A, B : A = ApplyOutput(K, h, x) /\ B = ApplyOutput(A, h, y) /\ (M = ApplyOutput(B, h, z) \/ (z.pos = 0 /\ M = B))
  OBVIOUS
<1>2. Shape(K)
  BY DEF Stored
<1>3. SameFunds(A, K)
  BY <1>1, <1>2, PlainPaid
<1>4. SameFunds(B, A)
  BY <1>1, <1>3, PlainPaid DEF SameFunds
<1>5. SameFunds(B, K)
  BY <1>3, <1>4 DEF SameFunds
<1>7. CASE z.pos = 0
  <2>1. SameFunds(M, B)
    BY <1>1, <1>5, <1>7, PlainPaid DEF SameFunds
  <2>2. SameFunds(M, K)
    BY <1>5, <2>1 DEF SameFunds
  <2> QED BY <1>7, <2>2
<1>8. CASE z.pos # 0
  <2>1. PICK d, amount : d = z.pos /\ amount = z.amount
    OBVIOUS
  <2>2. PICK paid : paid = [B EXCEPT !.bal[z.to] = @ + z.amount, !.incoming[z.to] = @ + 1]
    OBVIOUS
  <2>3. SameFunds(paid, B) /\ paid.ok = B.ok
    BY <1>5, <2>2 DEF SameFunds, Shape
  <2>4. B.ok
    BY <1>1, <1>5, ApplyOutputPays DEF SameFunds
  <2>5. PosValid(paid, d) /\ M = PosReward(paid, h, d, amount)
    <3>1. Refuse(B).ok = FALSE
      BY <1>5, RefuseLike DEF SameFunds
    <3>2. M = IF PosValid(paid, d) THEN PosReward(paid, h, d, amount) ELSE Refuse(B)
      BY <1>1, <1>8, <2>1, <2>2, <2>4 DEF ApplyOutput
    <3> QED BY <3>1, <3>2
  <2>6. Stored(paid)
    <3>1. Stored(A)
      BY <1>1, ApplyOutputStored DEF Earns
    <3>2. Stored(B)
      BY <1>1, <3>1, ApplyOutputStored DEF Earns
    <3> QED BY <2>3, <3>2 DEF SameFunds, Stored
  <2>7. Gains(amount)
    BY <1>8, <2>1 DEF Earns
  <2>8. Tops(paid, d, amount, M)
    BY <2>5, <2>6, <2>7, RewardTops
  <2>9. paid.dels = K.dels /\ paid.staked = K.staked
    BY <1>5, <2>3 DEF SameFunds
  <2>10. Tops(K, d, amount, M)
    BY <2>8, <2>9 DEF Tops
  <2> QED BY <1>8, <2>1, <2>10
<1> QED BY <1>7, <1>8

\* The coinbase keeps the funds in step.
LEMMA CoinbaseInStep ==
  ASSUME NEW K, Accounts(K), Stored(K), NEW M, Stored(M),
         NEW cb, NEW total, IsCoinbase(cb, total), Rest(cb).pos \in DelegateIds \cup {0},
         cb[1].to = Gov, cb[2].to \in Users, Rest(cb).pos = 0 => Rest(cb).to \in {Gov, Burned},
         Rest(cb).pos # 0 => Rest(cb).to = DelegateAddr[Rest(cb).pos],
         Above(M, K, cb), Rest(cb).pos = 0 => SameFunds(M, K),
         Rest(cb).pos # 0 => Tops(K, Rest(cb).pos, Rest(cb).amount, M)
  PROVE  InStep(K, M, [d \in DelegateIds |-> 0])
<1>1. PICK x, y, z : x = cb[1] /\ y = cb[2] /\ z = Rest(cb)
  OBVIOUS
<1>2. x.amount \in Nat /\ y.amount \in Nat /\ z.amount \in Nat
  BY <1>1 DEF IsCoinbase
<1>3. x.to = Gov /\ y.to \in Users /\ (z.pos = 0 => z.to \in {Gov, Burned}) /\ (z.pos # 0 => z.to = DelegateAddr[z.pos])
  BY <1>1
<1>4. Unfunded(M) = Unfunded(K)
  <2>1. CASE Rest(cb).pos = 0
    BY <2>1, SameUnfunded
  <2>2. CASE Rest(cb).pos # 0
    <3>1. PICK e, w : e = Rest(cb).pos /\ w = Rest(cb).amount
      OBVIOUS
    <3>2. e \in DelegateIds /\ w \in Int /\ Tops(K, e, w, M)
      BY <1>1, <1>2, <2>2, <3>1
    <3> QED BY <3>2, TopsUnfunded
  <2> QED BY <2>1, <2>2
<1>5. ASSUME NEW d \in DelegateIds PROVE Excess(M, d) = Excess(K, d) + 0
  <2>1. PICK a : a = DelegateAddr[d]
    OBVIOUS
  <2>2. a \in Addresses /\ K.bal[a] \in Nat
    BY <2>1 DEF Addresses, Accounts
  <2>3. a # Gov /\ a # Burned /\ a \notin Users /\ \A e \in DelegateIds : DelegateAddr[e] = a => e = d
    BY <2>1, AddrAssumption
  <2>4. x.to # a /\ y.to # a /\ (z.to = a <=> z.pos = d)
    <3>1. d # 0
      BY LedgerAssumption
    <3> QED BY <1>1, <1>3, <2>1, <2>3, <3>1
  <2>5. PICK w : w = IF z.pos = d THEN z.amount ELSE 0
    OBVIOUS
  <2>6. Minted(cb, a) = (0 + 0) + w
    BY <1>1, <2>4, <2>5 DEF Minted
  <2>7. w \in Nat
    BY <1>2, <2>5
  <2>8. PICK b0, b1, t0, t1 : /\ b0 = K.bal[a] /\ b1 = M.bal[a]
                              /\ t0 = TotalAmount(K.dels[d].funds) /\ t1 = TotalAmount(M.dels[d].funds)
    OBVIOUS
  <2>9. b0 \in Nat /\ t0 \in Nat /\ b1 = b0 + w
    <3>1. M.bal[a] = K.bal[a] + Minted(cb, a)
      BY <2>2 DEF Above
    <3> QED BY <2>2, <2>6, <2>7, <2>8, <3>1, StoredApart
  <2>10. t1 = t0 + w
    <3>1. CASE z.pos = d
      <4>1. d # 0
        BY LedgerAssumption
      <4>2. Tops(K, d, z.amount, M)
        BY <1>1, <3>1, <4>1
      <4> QED BY <2>5, <2>8, <3>1, <4>2 DEF Tops
    <3>2. CASE z.pos # d
      <4>1. CASE z.pos = 0
        <5>1. M.dels = K.dels
          BY <1>1, <4>1 DEF SameFunds
        <5> QED BY <2>5, <2>8, <2>9, <3>2, <5>1
      <4>2. CASE z.pos # 0
        <5>1. Tops(K, z.pos, z.amount, M)
          BY <1>1, <4>2
        <5>2. t1 = t0
          BY <2>8, <3>2, <5>1 DEF Tops
        <5> QED BY <2>5, <2>9, <3>2, <5>2
      <4> QED BY <4>1, <4>2
    <3> QED BY <3>1, <3>2
  <2>11. b1 - t1 = (b0 - t0) + 0
    BY <2>7, <2>9, <2>10
  <2> QED BY <2>1, <2>8, <2>11 DEF Excess
<1> QED BY <1>4, <1>5 DEF InStep

\* ApplyBlockToState keeps the funds in step: in everything a block does, StakedAmount
\* and the balance of a delegate change with the funds.
LEMMA BlockInStep ==
  ASSUME NEW L, Accounts(L), Stored(L), NEW h \in 1 .. MaxHeight, NEW b \in AnyBlock,
         b.signed => Registered(L, b.delegate), NEW top \in Nat, NEW M,
         M = ApplyBlockToState(L, h, b, top), M.ok
  PROVE  InStep(L, M, [d \in DelegateIds |-> Donated(b, DelegateAddr[d])])
<1>1. PICK t \in Seq(Transaction) : t = b.txs
  BY DEF AnyBlock
<1>2. PICK n : n = Len(t)
  OBVIOUS
<1>3. n \in Nat /\ t \in [1 .. n -> Transaction]
  BY <1>2
<1>4. PICK K : K = AfterTxs(L, h, t, top)
  OBVIOUS
<1>5. PICK cb, total : total = TotalReward(b, h) /\ cb = CoinbaseTransaction(b, total)
  OBVIOUS
<1>6. M = IF b.next \in NextStakers(L) THEN ApplyTxOutputsToState(K, h, cb) ELSE Refuse(L)
  BY <1>1, <1>4, <1>5 DEF ApplyBlockToState, AfterTxs
<1>7. Refuse(L).ok = FALSE
  BY RefuseLike DEF Accounts
<1>8. M = ApplyTxOutputsToState(K, h, cb)
  BY <1>6, <1>7
<1>9. PICK m \in Nat : DOMAIN cb = 1 .. m
  BY <1>5, CoinbaseList
<1>10. Numbered(L)
  BY DEF Accounts, Numbered
<1>11. Numbered(K)
  BY <1>3, <1>4, <1>10, AfterTxsCounts
<1>12. K.ok
  <2>1. Shape(K)
    BY <1>11 DEF Numbered
  <2>2. M.ok => K.ok
    BY <1>8, <1>9, <2>1, PaidLike
  <2> QED BY <2>2
<1>13. /\ Fees(t) \in Nat /\ Accounts(K)
       /\ \E g : g[0] = L /\ g[n] = K /\ Through(g, t, n) /\ Applying(g, h, t, n, top)
  BY <1>3, <1>4, <1>12, AfterTxsMoves
<1>14. PICK g : g[0] = L /\ g[n] = K /\ Through(g, t, n) /\ Applying(g, h, t, n, top)
  BY <1>13
<1>15. Reward(h) \in Nat
  BY RewardType, LedgerAssumption
<1>16. total \in Nat
  <2>1. total = Reward(h) + Fees(t)
    BY <1>1, <1>5 DEF TotalReward, Fees
  <2> QED BY <1>13, <1>15, <2>1
<1>17. b.signed => b.delegate \in DelegateIds
  BY DEF Registered
<1>18. /\ IsCoinbase(cb, total)
       /\ cb[1].pos = 0 /\ cb[2].pos = 0 /\ Rest(cb).pos \in {0, IF b.signed THEN b.delegate ELSE 0}
       /\ Rest(cb).pos # 0 => Rest(cb).amount > 0 /\ Rest(cb).to = DelegateAddr[Rest(cb).pos]
       /\ cb[1].to = Gov /\ cb[2].to \in Users
       /\ Rest(cb).pos = 0 => Rest(cb).to \in {Gov, Burned}
  BY <1>5, <1>16, <1>17, CoinbaseAdds
<1>19. Above(M, K, cb)
  BY <1>8, <1>13, <1>16, <1>18, CoinbasePays
<1>20. PICK x, y, z : x = cb[1] /\ y = cb[2] /\ z = Rest(cb)
  OBVIOUS
<1>21. z.amount \in Nat
  BY <1>18, <1>20 DEF IsCoinbase
<1>22. x.pos = 0 /\ y.pos = 0
  BY <1>18, <1>20
<1>23. z.pos \in DelegateIds \cup {0} /\ (z.pos # 0 => Registered(L, z.pos))
  BY <1>17, <1>18, <1>20
<1>24. Earns(z)
  BY <1>18, <1>20, <1>21 DEF Earns, Gains
<1>25. Placing(g, t, n, z.pos)
  BY <1>3, <1>14, <1>23, ApplyingPlaces
<1>26. Stored(K)
  BY <1>3, <1>14, <1>25 DEF Placing
<1>27. \/ M = ApplyOutput(ApplyOutput(ApplyOutput(K, h, x), h, y), h, z)
       \/ z.pos = 0 /\ M = ApplyOutput(ApplyOutput(K, h, x), h, y)
  <2>1. M = PayRest(ApplyOutput(ApplyOutput(K, h, x), h, y), h, cb)
    BY <1>8, <1>18, <1>20, PayCoinbase
  <2>2. ~(3 \in DOMAIN cb) => z.pos = 0
    BY <1>20 DEF Rest
  <2> QED BY <1>20, <2>1, <2>2 DEF PayRest
<1>28. (z.pos = 0 => SameFunds(M, K)) /\ (z.pos # 0 => Tops(K, z.pos, z.amount, M))
  BY <1>22, <1>23, <1>24, <1>26, <1>27, CoinbaseTops
<1>29. Stored(M)
  BY ApplyBlockStored
<1>30. InStep(K, M, [d \in DelegateIds |-> 0])
  BY <1>5, <1>13, <1>18, <1>19, <1>20, <1>23, <1>26, <1>28, <1>29, CoinbaseInStep
<1>31. InStep(L, K, [d \in DelegateIds |-> GivenAll(t, DelegateAddr[d])])
  BY <1>3, <1>14, <1>25, TxsInStep
<1>32. \A d \in DelegateIds : GivenAll(t, DelegateAddr[d]) = Donated(b, DelegateAddr[d])
  BY <1>1 DEF GivenAll, Donated
<1>33. ASSUME NEW d \in DelegateIds PROVE Excess(M, d) = Excess(L, d) + Donated(b, DelegateAddr[d])
  <2>1. Excess(M, d) = Excess(K, d) + 0 /\ Excess(K, d) = Excess(L, d) + GivenAll(t, DelegateAddr[d])
    BY <1>30, <1>31 DEF InStep
  <2>2. Excess(K, d) \in Int
    BY <1>13, <1>26, ExcessType
  <2> QED BY <1>32, <2>1, <2>2
<1> QED BY <1>30, <1>31, <1>33 DEF InStep

\* A step keeps the funds in step.
KeptInStep ==
  Extends => /\ Unfunded(led') = Unfunded(led)
             /\ \A d \in DelegateIds :
                  Excess(led', d) = Excess(led, d) + Donated(chain'[Len(chain')], DelegateAddr[d])

LEMMA StepInStep ==
  ASSUME StakeInv, [Next]_vars
  PROVE  KeptInStep
<1>1. PICK L, c, h, M : L = led /\ c = chain /\ h = Height + 1 /\ M = led'
  OBVIOUS
<1>2. SupplyInv /\ LedgerInv /\ Booked(L, c) /\ Stored(L) /\ c \in Seq(AnyBlock) /\ Len(c) \in Nat
  <2>1. SupplyInv /\ LedgerInv /\ Booked(L, c) /\ Stored(L) /\ c \in Seq(AnyBlock)
    BY <1>1 DEF StakeInv, Whole, SupplyInv, LedgerInv, Chained
  <2> QED BY <2>1
<1>3. Accounts(L)
  BY <1>2, BookedAccounts
<1>4. topHeight \in Nat
  BY TopType, LedgerAssumption
<1>5. ASSUME NEW b \in Offered, M = ApplyBlockToState(L, h, b, topHeight), M.ok, chain' = Append(chain, b)
      PROVE  KeptInStep
  <2>1. b \in AnyBlock /\ Height < MaxHeight
    BY <1>2, <1>5, OfferedListed
  <2>2. h \in 1 .. MaxHeight
    BY <1>1, <1>2, <2>1, LedgerAssumption DEF Height
  <2>3. b.signed => Registered(L, b.delegate)
    <3>1. StakeCheck(L, h, b)
      BY <1>1, <1>5 DEF Offered, Candidates
    <3> QED BY <3>1 DEF StakeCheck
  <2>4. InStep(L, M, [d \in DelegateIds |-> Donated(b, DelegateAddr[d])])
    BY <1>2, <1>3, <1>4, <1>5, <2>1, <2>2, <2>3, BlockInStep
  <2>5. chain'[Len(chain')] = b
    <3>1. PICK e : e = Append(c, b)
      OBVIOUS
    <3>2. Len(e) = Len(c) + 1 /\ e[Len(c) + 1] = b
      BY <1>2, <2>1, <3>1
    <3> QED BY <1>1, <1>5, <3>1, <3>2
  <2> QED BY <1>1, <2>4, <2>5 DEF KeptInStep, InStep
<1>6. CASE \E b \in Offered : AddMainchainBlock(b)
  BY <1>1, <1>5, <1>6 DEF AddMainchainBlock
<1>7. CASE \E b \in Offered : ReapplyBlock(b)
  BY <1>1, <1>5, <1>7 DEF ReapplyBlock
<1>8. CASE UndoBlock
  <2>1. Len(c) > 0 /\ chain' = Front(c)
    BY <1>1, <1>8 DEF UndoBlock, Height
  <2>2. Len(Front(c)) = Len(c) - 1
    <3>1. PICK n \in Nat : n = Len(c) - 1
      BY <1>2, <2>1
    <3>2. PICK e : e = Front(c)
      OBVIOUS
    <3>3. e = [i \in 1 .. n |-> c[i]]
      BY <1>2, <3>1, <3>2 DEF Front
    <3>4. \A i \in 1 .. n : c[i] \in AnyBlock
      BY <1>2, <3>1
    <3>5. e \in Seq(AnyBlock) /\ DOMAIN e = 1 .. n
      BY <3>3, <3>4
    <3> QED BY <3>1, <3>2, <3>5
  <2>3. ~Extends
    BY <1>1, <1>2, <2>1, <2>2 DEF Extends
  <2> QED BY <2>3 DEF KeptInStep
<1>9. CASE ReorgFails
  <2>1. ~Extends
    BY <1>9 DEF ReorgFails, Extends
  <2> QED BY <2>1 DEF KeptInStep
<1>10. CASE SwitchTop \/ UNCHANGED vars
  <2>1. Len(chain') = Len(c) /\ Len(chain) = Len(c)
    BY <1>1, <1>10 DEF SwitchTop, vars
  <2>2. ~Extends
    BY <1>2, <2>1 DEF Extends
  <2> QED BY <2>2 DEF KeptInStep
<1> QED BY <1>6, <1>7, <1>8, <1>9, <1>10 DEF Next

\* Whatever transactions a block carries, and whether it is the new top or applied
\* again by a reorganisation: ApplyStake, ApplyUnstake and ApplyPosReward change
\* StakedAmount, the funds and the balance of a delegate's address together, and every
\* coin of a reward ends in a fund, however its shares are rounded.
THEOREM StakesInStep == Spec => StakeAccounted
<1>1. StakeInv /\ [Next]_vars => [KeptInStep]_vars
  BY StepInStep
<1>2. StakeAccounted <=> [][KeptInStep]_vars
  BY DEF StakeAccounted, KeptInStep
<1> QED BY <1>1, <1>2, StakeInit, StakeStep, PTL DEF Spec

=============================================================================
