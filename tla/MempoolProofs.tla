---------------------------- MODULE MempoolProofs ----------------------------
(***************************************************************************)
(* Proofs about Mempool and Wallet, for any users, transactions and depth  *)
(* of reorganisations: the pool holds what waits for a block, once, and    *)
(* what a reorganisation takes out of the chain is back in it; a payment   *)
(* that a wallet builds from get_address is taken by validateMempoolTx; a  *)
(* template of payments makes a block that can be applied.  They rest on   *)
(* the invariants of LedgerProofs: a block undone must hold no transaction *)
(* twice, nor one that the chain below it has, and balances and nonces are *)
(* natural numbers.                                                        *)
(***************************************************************************)
EXTENDS Wallet, LedgerProofs

-----------------------------------------------------------------------------
(* Lists made of some elements of a list                                   *)

\* Whether the folds of Mempool add x to the list K.
Takes(fold, S, K, x) ==
  IF fold = "kept"
  THEN x \in S
  ELSE Len(K) < MaxBlockTxs /\ ValidateMempoolTx(x, K, topHeight + 1)

\* What the folds do at an element: those that make a list, validateMempoolTx for the
\* accounts S.affected of the signer S.signer, the balance that get_address gives for
\* the account S, and what a transaction pays to S.
Turn(fold, S, K, x) ==
  CASE fold = "imitate" -> Simulate(K, S.affected, S.signer, x, S.height)
    [] fold = "balance" -> (K - Spent(S, x) + Received(S, x)) % Uint64
    [] fold = "paid"    -> K + IF x.to = S THEN x.amount ELSE 0
    [] OTHER            -> IF Takes(fold, S, K, x) THEN Append(K, x) ELSE K

Choosing(f, fold, S, L, s) ==
  f = [t \in SUBSET DOMAIN s |->
         IF t = {} THEN L ELSE Turn(fold, S, f[t \ {Max(t)}], s[Max(t)])]

\* The recursion of the fold over the sets of positions exists.
LEMMA ChoosingExists ==
  ASSUME NEW fold, NEW S, NEW L, NEW s, NEW n \in Nat, DOMAIN s = 1 .. n
  PROVE  \E f : Choosing(f, fold, S, L, s)
<1> DEFINE D == SUBSET DOMAIN s
           F(f, t) == IF t = {} THEN L ELSE Turn(fold, S, f[t \ {Max(t)}], s[Max(t)])
           Upto(k) == {t \in D : Cardinality(t) <= k}
           Is(f, k) == f = [t \in Upto(k) |-> F(f, t)]
           N == {k \in Nat : \E f : Is(f, k)}
<1>1. ASSUME NEW t \in D
      PROVE  /\ IsFiniteSet(t) /\ Cardinality(t) \in Nat /\ Cardinality(t) <= n
             /\ Cardinality(t) = 0 <=> t = {}
             /\ t # {} => /\ t \ {Max(t)} \in D
                          /\ Cardinality(t \ {Max(t)}) = Cardinality(t) - 1
  <2>1. IsFiniteSet(1 .. n) /\ Cardinality(1 .. n) = n
    BY FS_Interval
  <2>2. IsFiniteSet(t) /\ Cardinality(t) <= n
    BY <2>1, FS_Subset
  <2>3. t # {} => Max(t) \in t
    BY Extremes
  <2>4. Cardinality(t) \in Nat /\ (Cardinality(t) = 0 <=> t = {})
    BY <2>2, FS_CardinalityType, FS_EmptySet
  <2> QED BY <2>2, <2>3, <2>4, FS_RemoveElement
<1>2. 0 \in N
  <2> DEFINE f == [t \in Upto(0) |-> L]
  <2>1. ASSUME NEW t \in Upto(0) PROVE t = {}
    <3>1. t \in D /\ Cardinality(t) <= 0
      OBVIOUS
    <3>2. Cardinality(t) \in Nat /\ (Cardinality(t) = 0 => t = {})
      BY <1>1, <3>1
    <3> QED BY <3>1, <3>2
  <2>2. f = [t \in Upto(0) |-> F(f, t)]
    <3>1. \A t \in Upto(0) : F(f, t) = L
      BY <2>1
    <3> HIDE DEF F, Upto
    <3> QED BY <3>1
  <2> QED BY <2>2
<1>3. ASSUME NEW k \in Nat, k \in N PROVE k + 1 \in N
  <2>1. PICK f : Is(f, k)
    BY <1>3
  <2> DEFINE e == [t \in Upto(k + 1) |-> F(f, t)]
  <2>2. \A t \in Upto(k) : t \in Upto(k + 1) /\ e[t] = f[t]
    <3>1. ASSUME NEW t \in Upto(k) PROVE t \in Upto(k + 1)
      <4>1. t \in D /\ Cardinality(t) <= k
        OBVIOUS
      <4>2. Cardinality(t) \in Nat
        BY <1>1, <4>1
      <4>3. Cardinality(t) <= k + 1
        BY <4>1, <4>2
      <4> QED BY <4>1, <4>3
    <3> HIDE DEF F, Upto
    <3> QED BY <2>1, <3>1
  <2>3. ASSUME NEW t \in Upto(k + 1) PROVE F(e, t) = F(f, t)
    <3>1. CASE t = {}
      BY <3>1
    <3>2. CASE t # {}
      <4>1. t \ {Max(t)} \in Upto(k)
        <5>1. /\ t \ {Max(t)} \in D /\ Cardinality(t) \in Nat /\ Cardinality(t) <= k + 1
              /\ Cardinality(t \ {Max(t)}) = Cardinality(t) - 1
          BY <1>1, <3>2
        <5>2. Cardinality(t \ {Max(t)}) <= k
          BY <5>1
        <5> QED BY <5>1, <5>2
      <4>2. e[t \ {Max(t)}] = f[t \ {Max(t)}]
        BY <2>2, <4>1
      <4> HIDE DEF e
      <4> QED BY <3>2, <4>2
    <3> QED BY <3>1, <3>2
  <2>4. Is(e, k + 1)
    BY <2>3
  <2>5. k + 1 \in Nat
    OBVIOUS
  <2> HIDE DEF e, Is
  <2> QED BY <2>4, <2>5
<1>4. n \in N
  <2> HIDE DEF N
  <2>1. Nat \subseteq N
    BY <1>2, <1>3, NatSetInduction
  <2> QED BY <2>1
<1>5. Upto(n) = D
  BY <1>1
<1>6. \E f : f = [t \in D |-> F(f, t)]
  BY <1>4, <1>5
<1> QED BY <1>6 DEF Choosing

\* What a fold over the first n elements of s goes through, from L to r.
Walk(g, fold, S, L, s, n, r) ==
  /\ g[0] = L /\ g[n] = r
  /\ \A k \in 1 .. n : g[k] = Turn(fold, S, g[k - 1], s[k])

\* The lists of a fold that makes one.
Chosen(g, fold, S, s, n, r) ==
  /\ g[0] = <<>> /\ g[n] = r
  /\ \A k \in 1 .. n : g[k] = IF Takes(fold, S, g[k - 1], s[k]) THEN Append(g[k - 1], s[k]) ELSE g[k - 1]

\* The fold over a list goes through its prefixes.
LEMMA FoldWalks ==
  ASSUME NEW f, NEW fold, NEW S, NEW L, NEW s, NEW n \in Nat, DOMAIN s = 1 .. n, Choosing(f, fold, S, L, s)
  PROVE  \E g : Walk(g, fold, S, L, s, n, f[DOMAIN s])
<1> DEFINE g == [k \in 0 .. n |-> f[1 .. k]]
<1>1. g[0] = L
  <2>1. 1 .. 0 = {} /\ {} \in SUBSET DOMAIN s
    OBVIOUS
  <2>2. f[{}] = L
    BY <2>1 DEF Choosing
  <2> QED BY <2>1, <2>2
<1>2. ASSUME NEW k \in 1 .. n
      PROVE  g[k] = Turn(fold, S, g[k - 1], s[k])
  <2>1. PICK t : t = 1 .. k
    OBVIOUS
  <2>2. t \in SUBSET (1 .. n) /\ k \in t /\ t # {} /\ t \in SUBSET DOMAIN s
    <3>1. t \subseteq 1 .. n /\ k \in t
      BY <2>1
    <3> QED BY <3>1
  <2>3. Max(t) \in t /\ \A y \in t : Max(t) >= y
    BY <2>2, Extremes
  <2>4. Max(t) = k
    BY <2>1, <2>2, <2>3
  <2>5. t \ {k} = 1 .. k - 1 /\ k - 1 \in 0 .. n /\ k \in 0 .. n
    BY <2>1
  <2>6. f[t] = Turn(fold, S, f[t \ {k}], s[k])
    BY <2>2, <2>4 DEF Choosing
  <2> QED BY <2>1, <2>5, <2>6
<1>3. g[n] = f[DOMAIN s]
  OBVIOUS
<1> HIDE DEF g
<1> QED BY <1>1, <1>2, <1>3 DEF Walk

\* One that makes a list goes through lists.
LEMMA ChosenLists ==
  ASSUME NEW f, NEW fold, fold \in {"kept", "template"}, NEW S, NEW s, NEW n \in Nat, DOMAIN s = 1 .. n,
         Choosing(f, fold, S, <<>>, s)
  PROVE  \E g : Chosen(g, fold, S, s, n, f[DOMAIN s])
<1>1. PICK L : L = <<>>
  OBVIOUS
<1>2. PICK g : Walk(g, fold, S, L, s, n, f[DOMAIN s])
  BY <1>1, FoldWalks
<1> QED BY <1>1, <1>2 DEF Walk, Chosen, Turn

\* Kept and Template are such folds.
LEMMA KeptLists ==
  ASSUME NEW S, NEW s, NEW n \in Nat, DOMAIN s = 1 .. n
  PROVE  \E g : Chosen(g, "kept", S, s, n, Kept(s, S))
<1> DEFINE Is(f) == f = [t \in SUBSET DOMAIN s |->
                           IF t = {} THEN <<>>
                           ELSE IF s[Max(t)] \in S
                                THEN Append(f[t \ {Max(t)}], s[Max(t)])
                                ELSE f[t \ {Max(t)}]]
<1>1. \A f : Is(f) <=> Choosing(f, "kept", S, <<>>, s)
  BY DEF Choosing, Turn, Takes
<1>2. PICK f : f = CHOOSE e : Is(e)
  OBVIOUS
<1>3. Kept(s, S) = f[DOMAIN s]
  BY <1>2 DEF Kept, FoldLeft, MapThenFoldSet
<1> HIDE DEF Is
<1>4. Is(f)
  BY <1>1, <1>2, ChoosingExists
<1> QED BY <1>1, <1>3, <1>4, ChosenLists

\* So is what GetBlockTemplate chooses.
LEMMA TemplateLists ==
  ASSUME NEW s, NEW n \in Nat, DOMAIN s = 1 .. n, s = [i \in DOMAIN pool |-> pool[i].tx]
  PROVE  \E g : Chosen(g, "template", {}, s, n, Template)
<1> DEFINE Is(f) == f = [t \in SUBSET DOMAIN s |->
                           IF t = {} THEN <<>>
                           ELSE IF /\ Len(f[t \ {Max(t)}]) < MaxBlockTxs
                                   /\ ValidateMempoolTx(s[Max(t)], f[t \ {Max(t)}], topHeight + 1)
                                THEN Append(f[t \ {Max(t)}], s[Max(t)])
                                ELSE f[t \ {Max(t)}]]
<1>1. \A f : Is(f) <=> Choosing(f, "template", {}, <<>>, s)
  BY DEF Choosing, Turn, Takes
<1>2. PICK f : f = CHOOSE e : Is(e)
  OBVIOUS
<1>3. Template = f[DOMAIN s]
  BY <1>2 DEF Template, FoldLeft, MapThenFoldSet
<1> HIDE DEF Is
<1>4. Is(f)
  BY <1>1, <1>2, ChoosingExists
<1> QED BY <1>1, <1>3, <1>4, ChosenLists

\* The elements of r are elements of the first k of s, each taken once.
Part(r, s, k) ==
  \E q \in [1 .. Len(r) -> 1 .. k] :
    /\ \A j \in 1 .. Len(r) : r[j] = s[q[j]]
    /\ \A i, j \in 1 .. Len(r) : q[i] = q[j] => i = j

\* An element added to a list.
LEMMA AppendIs ==
  ASSUME NEW T, NEW a \in Seq(T), NEW x \in T
  PROVE  /\ Append(a, x) \in Seq(T) /\ Len(a) \in Nat /\ Len(Append(a, x)) = Len(a) + 1
         /\ Append(a, x)[Len(a) + 1] = x /\ \A j \in 1 .. Len(a) : Append(a, x)[j] = a[j]
OBVIOUS

\* Two lists one after the other, a list without its last element, and a list
\* given by its elements.
LEMMA ConcatIs ==
  ASSUME NEW T, NEW a \in Seq(T), NEW b \in Seq(T), NEW m \in Nat, m = Len(a), NEW n \in Nat, n = Len(b),
         NEW r, r = a \o b
  PROVE  /\ r \in Seq(T) /\ Len(r) = m + n
         /\ \A i \in 1 .. m : r[i] = a[i]
         /\ \A i \in m + 1 .. m + n : r[i] = b[i - m]
OBVIOUS

LEMMA LengthIs ==
  ASSUME NEW T, NEW a \in Seq(T)
  PROVE  Len(a) \in Nat /\ DOMAIN a = 1 .. Len(a) /\ \A i \in 1 .. Len(a) : a[i] \in T
OBVIOUS

LEMMA FrontIs ==
  ASSUME NEW T, NEW a \in Seq(T), NEW n \in Nat, n + 1 = Len(a)
  PROVE  Front(a) = [i \in 1 .. n |-> a[i]]
BY DEF Front

LEMMA ListOf ==
  ASSUME NEW T, NEW n \in Nat, NEW a, a = [i \in 1 .. n |-> a[i]], \A i \in 1 .. n : a[i] \in T
  PROVE  a \in Seq(T)
OBVIOUS

\* A list made by such a fold is a part of the list it was made from.
LEMMA ChosenPart ==
  ASSUME NEW g, NEW fold, NEW S, NEW T, NEW s \in Seq(T), NEW r, Chosen(g, fold, S, s, Len(s), r)
  PROVE  r \in Seq(T) /\ Part(r, s, Len(s))
<1>1. PICK n \in Nat : n = Len(s)
  OBVIOUS
<1>2. /\ g[0] = <<>> /\ g[n] = r
      /\ \A k \in 1 .. n : g[k] = g[k - 1] \/ g[k] = Append(g[k - 1], s[k])
  BY <1>1 DEF Chosen
<1> DEFINE N == {k \in Nat : k <= n => g[k] \in Seq(T) /\ Part(g[k], s, k)}
<1>3. 0 \in N
  <2>1. g[0] \in Seq(T) /\ 1 .. Len(g[0]) = {}
    BY <1>2
  <2>2. PICK q : q = [j \in {} |-> j]
    OBVIOUS
  <2>3. q \in [1 .. Len(g[0]) -> 1 .. 0]
    BY <2>1, <2>2
  <2>4. Part(g[0], s, 0)
    BY <2>1, <2>3 DEF Part
  <2> QED BY <2>1, <2>4
<1>4. ASSUME NEW k \in Nat, k \in N PROVE k + 1 \in N
  <2>1. SUFFICES ASSUME k + 1 <= n PROVE g[k + 1] \in Seq(T) /\ Part(g[k + 1], s, k + 1)
    OBVIOUS
  <2>2. k + 1 \in 1 .. n /\ (k + 1) - 1 = k /\ g[k] \in Seq(T) /\ Part(g[k], s, k)
    BY <1>4, <2>1
  <2>3. PICK a \in Seq(T) : a = g[k]
    BY <2>2
  <2>4. PICK x \in T : x = s[k + 1]
    BY <1>1, <2>2
  <2>5. PICK q \in [1 .. Len(a) -> 1 .. k] :
          /\ \A j \in 1 .. Len(a) : a[j] = s[q[j]]
          /\ \A i, j \in 1 .. Len(a) : q[i] = q[j] => i = j
    BY <2>2, <2>3 DEF Part
  <2>6. CASE g[k + 1] = a
    <3>1. q \in [1 .. Len(a) -> 1 .. k + 1]
      BY <2>5
    <3>2. Part(a, s, k + 1)
      BY <2>5, <3>1 DEF Part
    <3> QED BY <2>6, <3>2
  <2>7. CASE g[k + 1] = Append(a, x)
    <3>1. PICK m \in Nat : m = Len(a)
      OBVIOUS
    <3>2. PICK b \in Seq(T) : b = Append(a, x)
      BY AppendIs
    <3>3. Len(b) = m + 1 /\ b[m + 1] = x /\ \A j \in 1 .. m : b[j] = a[j]
      BY <3>1, <3>2
    <3>4. PICK p : p = [j \in 1 .. m + 1 |-> IF j = m + 1 THEN k + 1 ELSE q[j]]
      OBVIOUS
    <3>5. \A j \in 1 .. m : q[j] \in 1 .. k /\ q[j] # k + 1
      BY <2>5, <3>1
    <3>6. \A j \in 1 .. m + 1 : j = m + 1 \/ j \in 1 .. m
      OBVIOUS
    <3>7. p[m + 1] = k + 1 /\ \A j \in 1 .. m : p[j] = q[j] /\ j \in 1 .. m + 1
      BY <3>4
    <3>8. p \in [1 .. m + 1 -> 1 .. k + 1]
      BY <3>4, <3>5, <3>6
    <3>9. \A j \in 1 .. m + 1 : b[j] = s[p[j]]
      BY <2>4, <2>5, <3>1, <3>3, <3>6, <3>7
    <3>10. \A i, j \in 1 .. m + 1 : p[i] = p[j] => i = j
      BY <2>5, <3>1, <3>5, <3>6, <3>7
    <3>11. Part(b, s, k + 1)
      <4>1. PICK w \in Nat : w = m + 1
        OBVIOUS
      <4>2. Len(b) = w /\ p \in [1 .. w -> 1 .. k + 1]
        BY <3>3, <3>8, <4>1
      <4>3. (\A j \in 1 .. w : b[j] = s[p[j]]) /\ \A i, j \in 1 .. w : p[i] = p[j] => i = j
        BY <3>9, <3>10, <4>1
      <4> QED BY <4>2, <4>3, Zenon DEF Part
    <3> QED BY <2>7, <3>2, <3>11
  <2> QED BY <1>2, <2>2, <2>3, <2>4, <2>6, <2>7
<1>5. Nat \subseteq N
  <2> HIDE DEF N
  <2> QED BY <1>3, <1>4, NatSetInduction
<1> QED BY <1>1, <1>2, <1>5

\* All elements of s that are in S, and no other, are in r.
AllOf(r, s, S) ==
  /\ \A j \in 1 .. Len(r) : r[j] \in S
  /\ \A i \in 1 .. Len(s) : s[i] \in S => \E j \in 1 .. Len(r) : r[j] = s[i]

\* What Kept returns: a part of the list, with every element of the set and no other.
LEMMA KeptIs ==
  ASSUME NEW T, NEW s \in Seq(T), NEW S, NEW r, r = Kept(s, S)
  PROVE  r \in Seq(T) /\ Part(r, s, Len(s)) /\ AllOf(r, s, S)
<1>1. PICK n \in Nat : n = Len(s) /\ DOMAIN s = 1 .. n
  OBVIOUS
<1>2. PICK g : Chosen(g, "kept", S, s, n, r)
  BY <1>1, KeptLists
<1>3. r \in Seq(T) /\ Part(r, s, Len(s))
  BY <1>1, <1>2, ChosenPart
<1>4. /\ g[0] = <<>> /\ g[n] = r
      /\ \A k \in 1 .. n : g[k] = IF s[k] \in S THEN Append(g[k - 1], s[k]) ELSE g[k - 1]
  BY <1>2 DEF Chosen, Takes
<1> DEFINE Good(k) == /\ g[k] \in Seq(T)
                      /\ \A j \in 1 .. Len(g[k]) : g[k][j] \in S
                      /\ \A i \in 1 .. k : s[i] \in S => \E j \in 1 .. Len(g[k]) : g[k][j] = s[i]
           N == {k \in Nat : k <= n => Good(k)}
<1>5. 0 \in N
  <2>1. g[0] \in Seq(T) /\ 1 .. Len(g[0]) = {} /\ 1 .. 0 = {}
    BY <1>4
  <2> QED BY <2>1
<1>6. ASSUME NEW k \in Nat, k \in N PROVE k + 1 \in N
  <2>1. SUFFICES ASSUME k + 1 <= n PROVE Good(k + 1)
    OBVIOUS
  <2>2. k + 1 \in 1 .. n /\ (k + 1) - 1 = k /\ Good(k)
    BY <1>6, <2>1
  <2>3. PICK a \in Seq(T) : a = g[k]
    BY <2>2
  <2>4. PICK x \in T : x = s[k + 1]
    BY <1>1, <2>2
  <2>5. /\ \A j \in 1 .. Len(a) : a[j] \in S
        /\ \A i \in 1 .. k : s[i] \in S => \E j \in 1 .. Len(a) : a[j] = s[i]
    BY <2>2, <2>3
  <2>6. \A i \in 1 .. k + 1 : i \in 1 .. k \/ i = k + 1
    OBVIOUS
  <2>7. CASE x \notin S
    <3>1. g[k + 1] = a
      BY <1>4, <2>2, <2>3, <2>4, <2>7
    <3>2. \A i \in 1 .. k + 1 : s[i] \in S => \E j \in 1 .. Len(a) : a[j] = s[i]
      BY <2>4, <2>5, <2>6, <2>7
    <3> QED BY <2>5, <3>1, <3>2
  <2>8. CASE x \in S
    <3>1. PICK m \in Nat : m = Len(a)
      OBVIOUS
    <3>2. PICK b \in Seq(T) : b = Append(a, x)
      BY AppendIs
    <3>3. Len(b) = m + 1 /\ b[m + 1] = x /\ \A j \in 1 .. m : b[j] = a[j] /\ j \in 1 .. m + 1
      BY <3>1, <3>2
    <3>4. g[k + 1] = b
      BY <1>4, <2>2, <2>3, <2>4, <2>8, <3>2
    <3>5. \A j \in 1 .. m + 1 : j = m + 1 \/ j \in 1 .. m
      OBVIOUS
    <3>6. \A j \in 1 .. m + 1 : b[j] \in S
      BY <2>5, <2>8, <3>1, <3>3, <3>5
    <3>7. ASSUME NEW i \in 1 .. k + 1, s[i] \in S PROVE \E j \in 1 .. m + 1 : b[j] = s[i]
      <4>1. CASE i = k + 1
        <5>1. m + 1 \in 1 .. m + 1
          OBVIOUS
        <5> QED BY <2>4, <3>3, <4>1, <5>1
      <4>2. CASE i \in 1 .. k
        BY <2>5, <3>1, <3>3, <3>7, <4>2
      <4> QED BY <2>6, <4>1, <4>2
    <3> QED BY <3>2, <3>3, <3>4, <3>6, <3>7
  <2> QED BY <2>7, <2>8
<1>7. Nat \subseteq N
  <2> HIDE DEF N
  <2> QED BY <1>5, <1>6, NatSetInduction
<1>8. Good(n)
  BY <1>7
<1> QED BY <1>1, <1>3, <1>4, <1>8 DEF AllOf

-----------------------------------------------------------------------------
(* What waits                                                              *)

\* The pool p holds transactions of the database k, each once, and none of the
\* chain c, whose transactions the database has.
Waiting(p, k, c) ==
  /\ k \subseteq Transaction
  /\ p \in Seq([tx : k, expired : BOOLEAN])
  /\ TxsOf(c) \subseteq k
  /\ \A i, j \in 1 .. Len(p) : p[i].tx = p[j].tx => i = j
  /\ \A i \in 1 .. Len(p) : p[i].tx \notin TxsOf(c)

\* Fewer entries wait for the same chain.
LEMMA KeptWaits ==
  ASSUME NEW p, NEW k, NEW c, Waiting(p, k, c), NEW S, NEW r, r = Kept(p, S)
  PROVE  Waiting(r, k, c)
<1>1. PICK T : T = [tx : k, expired : BOOLEAN] /\ p \in Seq(T)
  BY DEF Waiting
<1>2. r \in Seq(T) /\ Part(r, p, Len(p))
  BY <1>1, KeptIs
<1>3. PICK q \in [1 .. Len(r) -> 1 .. Len(p)] :
        /\ \A j \in 1 .. Len(r) : r[j] = p[q[j]]
        /\ \A i, j \in 1 .. Len(r) : q[i] = q[j] => i = j
  BY <1>2 DEF Part
<1>4. \A j \in 1 .. Len(r) : q[j] \in 1 .. Len(p)
  BY <1>3
<1>5. ASSUME NEW i \in 1 .. Len(r), NEW j \in 1 .. Len(r), r[i].tx = r[j].tx PROVE i = j
  BY <1>3, <1>4, <1>5 DEF Waiting
<1>6. ASSUME NEW i \in 1 .. Len(r) PROVE r[i].tx \notin TxsOf(c)
  BY <1>3, <1>4 DEF Waiting
<1> QED BY <1>1, <1>2, <1>5, <1>6 DEF Waiting

\* Different transactions that neither the pool nor the chain has.
Fresh(a, p, c) ==
  /\ \A i, j \in 1 .. Len(a) : a[i] = a[j] => i = j
  /\ \A i \in 1 .. Len(a) : a[i] \notin TxsOf(c) /\ \A j \in 1 .. Len(p) : p[j].tx # a[i]

\* Entries for such transactions are added.
LEMMA MoreWait ==
  ASSUME NEW p, NEW k, NEW c, Waiting(p, k, c), NEW a, a \in Seq(k), Fresh(a, p, c), NEW e, e = [i \in DOMAIN a |-> Entry(a[i])]
  PROVE  Waiting(p \o e, k, c)
<1>1. PICK T : T = [tx : k, expired : BOOLEAN] /\ p \in Seq(T)
  BY DEF Waiting
<1>2. PICK m \in Nat, n \in Nat : m = Len(p) /\ n = Len(a) /\ DOMAIN a = 1 .. n
  BY <1>1
<1>3. \A i \in 1 .. n : a[i] \in k
  BY <1>2
<1>4. e = [i \in 1 .. n |-> Entry(a[i])]
  BY <1>2
<1>5. \A i \in 1 .. n : e[i] \in T /\ e[i].tx = a[i]
  BY <1>1, <1>3, <1>4 DEF Entry
<1>6. e \in Seq(T) /\ Len(e) = n
  BY <1>4, <1>5
<1>7. PICK r \in Seq(T) : r = p \o e
  BY <1>1, <1>2, <1>6, ConcatIs
<1>8. Len(r) = m + n /\ (\A i \in 1 .. m : r[i] = p[i]) /\ \A i \in m + 1 .. m + n : r[i] = e[i - m]
  <2>1. p \in Seq(T) /\ m = Len(p) /\ e \in Seq(T) /\ n = Len(e) /\ r = p \o e
    BY <1>1, <1>2, <1>6, <1>7
  <2> QED BY <2>1, ConcatIs
<1>9. ASSUME NEW i \in 1 .. Len(r)
      PROVE  \/ i \in 1 .. m /\ r[i] = p[i]
             \/ i - m \in 1 .. n /\ r[i].tx = a[i - m]
  <2>1. i \in Int /\ i <= m + n /\ 1 <= i
    BY <1>8
  <2>2. CASE i <= m
    BY <1>8, <2>1, <2>2
  <2>3. CASE ~(i <= m)
    <3>1. i \in m + 1 .. m + n /\ i - m \in 1 .. n
      BY <2>1, <2>3
    <3> QED BY <1>5, <1>8, <3>1
  <2> QED BY <2>2, <2>3
<1>10. ASSUME NEW i \in 1 .. Len(r), NEW j \in 1 .. Len(r), r[i].tx = r[j].tx PROVE i = j
  <2>1. i \in Int /\ j \in Int
    BY <1>8
  <2>2. CASE i \in 1 .. m /\ r[i] = p[i] /\ j \in 1 .. m /\ r[j] = p[j]
    BY <1>2, <1>10, <2>2 DEF Waiting
  <2>3. CASE i \in 1 .. m /\ r[i] = p[i] /\ j - m \in 1 .. n /\ r[j].tx = a[j - m]
    BY <1>2, <1>10, <2>3 DEF Fresh
  <2>4. CASE j \in 1 .. m /\ r[j] = p[j] /\ i - m \in 1 .. n /\ r[i].tx = a[i - m]
    BY <1>2, <1>10, <2>4 DEF Fresh
  <2>5. CASE i - m \in 1 .. n /\ r[i].tx = a[i - m] /\ j - m \in 1 .. n /\ r[j].tx = a[j - m]
    <3>1. i - m = j - m
      BY <1>2, <1>10, <2>5 DEF Fresh
    <3> QED BY <2>1, <3>1
  <2> QED BY <1>9, <2>2, <2>3, <2>4, <2>5
<1>11. ASSUME NEW i \in 1 .. Len(r) PROVE r[i].tx \notin TxsOf(c)
  BY <1>2, <1>9 DEF Waiting, Fresh
<1>12. Waiting(r, k, c)
  BY <1>1, <1>10, <1>11 DEF Waiting
<1> QED BY <1>7, <1>12

\* The same pool with a larger database and other blocks.
LEMMA WaitsForOther ==
  ASSUME NEW p, NEW k, NEW c, Waiting(p, k, c), NEW l, k \subseteq l, l \subseteq Transaction,
         NEW d, TxsOf(d) \subseteq l, \A i \in 1 .. Len(p) : p[i].tx \notin TxsOf(d)
  PROVE  Waiting(p, l, d)
<1>1. p \in Seq([tx : l, expired : BOOLEAN])
  <2>1. PICK T, U : T = [tx : k, expired : BOOLEAN] /\ U = [tx : l, expired : BOOLEAN]
    OBVIOUS
  <2>2. T \subseteq U
    BY <2>1
  <2>3. p \in Seq(T)
    BY <2>1 DEF Waiting
  <2>4. PICK n \in Nat : n = Len(p) /\ p = [i \in 1 .. n |-> p[i]] /\ \A i \in 1 .. n : p[i] \in T
    BY <2>3
  <2>5. \A i \in 1 .. n : p[i] \in U
    BY <2>2, <2>4
  <2>6. p \in Seq(U)
    BY <2>4, <2>5, ListOf
  <2> QED BY <2>1, <2>6
<1> QED BY <1>1 DEF Waiting

LEMMA WaitsInLarger ==
  ASSUME NEW p, NEW k, NEW c, Waiting(p, k, c), NEW l, k \subseteq l, l \subseteq Transaction
  PROVE  Waiting(p, l, c)
<1>1. TxsOf(c) \subseteq l /\ \A i \in 1 .. Len(p) : p[i].tx \notin TxsOf(c)
  BY DEF Waiting
<1> QED BY <1>1, WaitsForOther

\* The transactions of a chain and of its last block.
LEMMA TxsOfAppend ==
  ASSUME NEW c \in Seq(AnyBlock), NEW b \in AnyBlock
  PROVE  TxsOf(Append(c, b)) = TxsOf(c) \cup ToSet(b.txs)
<1>0. PICK e : e = Append(c, b)
  OBVIOUS
<1>1. PICK n \in Nat : /\ n = Len(c) /\ e = Append(c, b)
                       /\ DOMAIN c = 1 .. n /\ DOMAIN e = 1 .. n + 1
                       /\ e[n + 1] = b /\ \A i \in 1 .. n : e[i] = c[i]
  BY <1>0, AppendIs
<1>2. \A i \in 1 .. n + 1 : i \in 1 .. n \/ i = n + 1
  OBVIOUS
<1>3. n + 1 \in 1 .. n + 1 /\ 1 .. n \subseteq 1 .. n + 1
  OBVIOUS
<1> QED BY <1>1, <1>2, <1>3 DEF TxsOf

LEMMA TxsOfFront ==
  ASSUME NEW c \in Seq(AnyBlock), Len(c) > 0
  PROVE  /\ c[Len(c)] \in AnyBlock
         /\ TxsOf(c) = TxsOf(Front(c)) \cup ToSet(c[Len(c)].txs)
<1>0. PICK e : e = Front(c)
  OBVIOUS
<1>1. PICK n \in Nat : n + 1 = Len(c) /\ DOMAIN c = 1 .. n + 1
  <2>1. Len(c) - 1 \in Nat /\ (Len(c) - 1) + 1 = Len(c) /\ DOMAIN c = 1 .. Len(c)
    OBVIOUS
  <2> QED BY <2>1
<1>2. e = [i \in 1 .. n |-> c[i]]
  BY <1>0, <1>1, FrontIs
<1>3. \A i \in 1 .. n + 1 : i \in 1 .. n \/ i = n + 1
  OBVIOUS
<1>4. n + 1 \in 1 .. n + 1 /\ 1 .. n \subseteq 1 .. n + 1
  OBVIOUS
<1>5. c[n + 1] \in AnyBlock
  BY <1>1, <1>4
<1> QED BY <1>0, <1>1, <1>2, <1>3, <1>4, <1>5 DEF TxsOf

\* On a chain that the ledger counts, a block has no transaction twice and none of
\* the blocks below it.
LEMMA LastBlockNew ==
  ASSUME NEW L, NEW c, Chained(L, c), Len(c) > 0, NEW t, t = c[Len(c)].txs
  PROVE  /\ t \in Seq(Transaction)
         /\ \A i, j \in 1 .. Len(t) : t[i] = t[j] => i = j
         /\ \A i \in 1 .. Len(t) : t[i] \notin TxsOf(Front(c))
<1>1. c \in Seq(AnyBlock) /\ Increasing(c)
  BY DEF Chained
<1>2. PICK n \in Nat : /\ n + 1 = Len(c) /\ DOMAIN c = 1 .. n + 1
  <2>1. Len(c) - 1 \in Nat /\ (Len(c) - 1) + 1 = Len(c) /\ DOMAIN c = 1 .. Len(c)
    BY <1>1
  <2> QED BY <2>1
<1>3. n + 1 \in 1 .. n + 1 /\ \A i \in 1 .. n : i \in 1 .. n + 1 /\ i < n + 1
  OBVIOUS
<1>4. c[n + 1] \in AnyBlock /\ t = c[n + 1].txs
  BY <1>1, <1>2, <1>3
<1>5. /\ t \in Seq(Transaction) /\ Len(t) \in Nat /\ DOMAIN t = 1 .. Len(t)
      /\ \A i \in 1 .. Len(t) : t[i].nonce \in Nat
  BY <1>4, TxOfBlock
<1>6. ASSUME NEW i \in 1 .. Len(t), NEW j \in 1 .. Len(t), i < j, t[i] = t[j] PROVE FALSE
  <2>1. n + 1 \in DOMAIN c /\ i \in DOMAIN c[n + 1].txs /\ j \in DOMAIN c[n + 1].txs
    BY <1>2, <1>3, <1>4, <1>5
  <2>2. c[n + 1].txs[i].nonce < c[n + 1].txs[j].nonce
    BY <1>1, <1>4, <1>6, <2>1 DEF Increasing
  <2>3. t[i].nonce < t[i].nonce
    BY <1>4, <1>6, <2>2
  <2> QED BY <1>5, <2>3
<1>7. ASSUME NEW i \in 1 .. Len(t), NEW j \in 1 .. Len(t), t[i] = t[j] PROVE i = j
  <2>1. i \in Int /\ j \in Int
    BY <1>5
  <2>2. ~(i < j) /\ ~(j < i)
    BY <1>6, <1>7
  <2> QED BY <2>1, <2>2
<1>8. ASSUME NEW i \in 1 .. Len(t), t[i] \in TxsOf(Front(c)) PROVE FALSE
  <2>1. PICK e : e = Front(c) /\ e = [j \in 1 .. n |-> c[j]]
    BY <1>1, <1>2, FrontIs
  <2>2. PICK j \in 1 .. n : \E k \in DOMAIN c[j].txs : t[i] = c[j].txs[k]
    BY <1>8, <2>1 DEF TxsOf, ToSet
  <2>3. PICK k \in DOMAIN c[j].txs : t[i] = c[j].txs[k]
    BY <2>2
  <2>4. n + 1 \in DOMAIN c /\ j \in DOMAIN c /\ j < n + 1 /\ i \in DOMAIN c[n + 1].txs
    BY <1>2, <1>3, <1>4, <1>5
  <2>5. c[j].txs[k].nonce < c[n + 1].txs[i].nonce
    BY <1>1, <1>4, <2>3, <2>4 DEF Increasing
  <2>6. t[i].nonce < t[i].nonce
    BY <1>4, <2>3, <2>5
  <2> QED BY <1>5, <2>6
<1> QED BY <1>5, <1>7, <1>8

-----------------------------------------------------------------------------
(* The invariant                                                           *)

\* With the ledger's invariant: what waits, what waited when the reorganisation
\* began, and the transactions taken out of the chain since then.
PoolInv ==
  /\ LedgerInv
  /\ Waiting(pool, known, chain)
  /\ mode = "main" <=> savedPool = <<>>
  /\ mode # "main" => Waiting(savedPool[1], savedPool[2], saved[2])
  /\ mode # "main" => \A tx \in TxsOf(saved[2]) \ TxsOf(chain) :
                        \E i \in 1 .. Len(pool) : pool[i].tx = tx /\ ~pool[i].expired

\* A template is made of transactions, and a block made from it can be applied
\* like any other.
LEMMA TemplateTxs ==
  ASSUME Waiting(pool, known, chain)
  PROVE  Template \in Seq(Transaction)
<1>1. PICK p, T : p = pool /\ T = [tx : known, expired : BOOLEAN]
  OBVIOUS
<1>2. p \in Seq(T) /\ known \subseteq Transaction
  BY <1>1 DEF Waiting
<1>3. PICK n \in Nat : DOMAIN p = 1 .. n /\ \A i \in 1 .. n : p[i] \in T
  BY <1>2
<1>4. PICK s : s = [i \in 1 .. n |-> p[i].tx]
  OBVIOUS
<1>5. \A i \in 1 .. n : s[i] \in Transaction
  BY <1>1, <1>2, <1>3, <1>4
<1>6. s \in Seq(Transaction) /\ Len(s) = n /\ DOMAIN s = 1 .. n
  BY <1>4, <1>5
<1>7. s = [i \in DOMAIN pool |-> pool[i].tx]
  BY <1>1, <1>3, <1>4
<1>8. PICK g : Chosen(g, "template", {}, s, n, Template)
  BY <1>6, <1>7, TemplateLists
<1> QED BY <1>6, <1>8, ChosenPart

LEMMA PoolOfferedBlocks ==
  ASSUME PoolInv
  PROVE  Offered \subseteq AnyBlock /\ PoolOffered \subseteq AnyBlock
<1>1. Offered \subseteq AnyBlock
  BY OfferedBlocks DEF PoolInv, LedgerInv
<1>2. Template \in Seq(Transaction)
  BY TemplateTxs DEF PoolInv
<1>3. \A b \in AnyBlock : \A t \in Seq(Transaction) : [b EXCEPT !.txs = t] \in AnyBlock
  BY DEF AnyBlock
<1> QED BY <1>1, <1>2, <1>3 DEF PoolOffered, TemplateBlocks

\* Every step is one of the ledger.
LEMMA PoolLedgerStep ==
  ASSUME PoolInv, [PoolNext]_poolVars
  PROVE  LedgerInv'
<1>1. Offered \subseteq AnyBlock /\ PoolOffered \subseteq AnyBlock
  BY PoolOfferedBlocks
<1>2. [AnyNext]_vars
  BY <1>1 DEF PoolNext, poolVars, AnyNext, AddTransaction, GetBlockTemplate, Expire, ConnectBlock,
              StoreAltchainBlock, DisconnectBlock, AbandonReorg, FinishReorg
<1> QED BY <1>2, LedgerStep DEF PoolInv

\* The entries that SetMempool keeps.
Unexpired(r, p) == \A i \in 1 .. Len(p) : ~p[i].expired => \E j \in 1 .. Len(r) : r[j] = p[i]

LEMMA SetMempoolIs ==
  ASSUME NEW T, NEW p \in Seq(T), NEW r, r = SetMempool(p)
  PROVE  Unexpired(r, p)
<1>1. PICK S : S = {e \in ToSet(p) : ~e.expired}
  OBVIOUS
<1>2. r = Kept(p, S)
  BY <1>1 DEF SetMempool
<1>3. \A i \in 1 .. Len(p) : ~p[i].expired => p[i] \in S
  BY <1>1 DEF ToSet
<1>4. AllOf(r, p, S)
  BY <1>2, KeptIs
<1> QED BY <1>3, <1>4 DEF AllOf, Unexpired

LEMMA SetMempoolWaits ==
  ASSUME NEW p, NEW k, NEW c, Waiting(p, k, c)
  PROVE  Waiting(SetMempool(p), k, c)
BY KeptWaits DEF SetMempool

\* The entries of r are those of p whose transaction is not in the list t.
Without(r, p, t) ==
  /\ \A j \in 1 .. Len(r) : r[j].tx \notin ToSet(t)
  /\ \A i \in 1 .. Len(p) : p[i].tx \notin ToSet(t) => \E j \in 1 .. Len(r) : r[j] = p[i]

LEMMA DeleteEntriesIs ==
  ASSUME NEW p, NEW k, NEW c, Waiting(p, k, c), NEW t, NEW r, r = DeleteEntries(p, t)
  PROVE  Waiting(r, k, c) /\ Without(r, p, t)
<1>1. PICK S : S = {e \in ToSet(p) : e.tx \notin ToSet(t)}
  OBVIOUS
<1>2. r = Kept(p, S)
  BY <1>1 DEF DeleteEntries
<1>3. PICK T : p \in Seq(T)
  BY DEF Waiting
<1>4. AllOf(r, p, S)
  BY <1>2, <1>3, KeptIs
<1>5. \A i \in 1 .. Len(p) : p[i].tx \notin ToSet(t) => p[i] \in S
  <2>1. \A i \in 1 .. Len(p) : p[i] \in ToSet(p)
    BY <1>3 DEF ToSet
  <2> QED BY <1>1, <2>1
<1>6. \A j \in 1 .. Len(r) : r[j].tx \notin ToSet(t)
  BY <1>1, <1>4 DEF AllOf
<1>7. Waiting(r, k, c)
  BY <1>2, KeptWaits
<1> QED BY <1>4, <1>5, <1>6, <1>7 DEF AllOf, Without

\* A transaction waits in pool p and its time is not over.
Waits(p, tx) == \E i \in 1 .. Len(p) : p[i].tx = tx /\ ~p[i].expired

\* A block applied to the ledger: what it has no longer waits, the rest does.
LEMMA ConnectWaits ==
  ASSUME NEW p, NEW k, NEW c, Waiting(p, k, c), c \in Seq(AnyBlock), NEW b \in AnyBlock, NEW r,
         r = SetMempool(DeleteEntries(p, b.txs))
  PROVE  /\ Waiting(r, k \cup ToSet(b.txs), Append(c, b))
         /\ \A tx : Waits(p, tx) /\ tx \notin ToSet(b.txs) => Waits(r, tx)
<1>1. PICK l, d, q : /\ l = k \cup ToSet(b.txs) /\ d = Append(c, b)
                     /\ q = DeleteEntries(p, b.txs)
  OBVIOUS
<1>2. Waiting(q, k, c) /\ Without(q, p, b.txs)
  BY <1>1, DeleteEntriesIs
<1>3. TxsOf(d) = TxsOf(c) \cup ToSet(b.txs)
  BY <1>1, TxsOfAppend
<1>4. k \subseteq l /\ l \subseteq Transaction /\ TxsOf(d) \subseteq l
  <2>1. ToSet(b.txs) \subseteq Transaction
    BY TxOfBlock DEF ToSet
  <2> QED BY <1>1, <1>3, <2>1 DEF Waiting
<1>5. \A i \in 1 .. Len(q) : q[i].tx \notin TxsOf(d)
  BY <1>2, <1>3 DEF Waiting, Without
<1>6. Waiting(q, l, d)
  BY <1>2, <1>4, <1>5, WaitsForOther
<1>7. Waiting(r, l, d)
  BY <1>1, <1>6, SetMempoolWaits
<1>8. ASSUME NEW tx, Waits(p, tx), tx \notin ToSet(b.txs) PROVE Waits(r, tx)
  <2>1. PICK i \in 1 .. Len(p) : p[i].tx = tx /\ ~p[i].expired
    BY <1>8 DEF Waits
  <2>2. PICK j \in 1 .. Len(q) : q[j] = p[i]
    BY <1>2, <1>8, <2>1 DEF Without
  <2>3. PICK T : q \in Seq(T)
    BY <1>6 DEF Waiting
  <2>4. Unexpired(r, q)
    BY <1>1, <2>3, SetMempoolIs
  <2>5. \E h \in 1 .. Len(r) : r[h] = q[j]
    BY <2>1, <2>2, <2>4 DEF Unexpired
  <2> QED BY <2>1, <2>2, <2>5 DEF Waits
<1> QED BY <1>1, <1>7, <1>8

\* The pool p when the transactions of t are put back.
Returned(p, t) ==
  LET a == Kept(t, ToSet(t) \ {e.tx : e \in ToSet(p)})
  IN  IF t = <<>> THEN p ELSE SetMempool(p \o [i \in DOMAIN a |-> Entry(a[i])])

\* A block undone: what it has waits again.
LEMMA DisconnectWaits ==
  ASSUME NEW p, NEW k, NEW L, NEW c, Waiting(p, k, c), Chained(L, c), Len(c) > 0,
         NEW t, t = c[Len(c)].txs, NEW r, r = Returned(p, t)
  PROVE  /\ Waiting(r, k, Front(c))
         /\ \A tx : Waits(p, tx) \/ tx \in ToSet(t) => Waits(r, tx)
<1>1. PICK d, S : d = Front(c) /\ S = ToSet(t) \ {e.tx : e \in ToSet(p)}
  OBVIOUS
<1>0. PICK a : /\ a = Kept(t, S)
               /\ r = IF t = <<>> THEN p ELSE SetMempool(p \o [i \in DOMAIN a |-> Entry(a[i])])
  BY <1>1 DEF Returned
<1>2. /\ t \in Seq(Transaction)
      /\ \A i, j \in 1 .. Len(t) : t[i] = t[j] => i = j
      /\ \A i \in 1 .. Len(t) : t[i] \notin TxsOf(d)
  BY <1>1, LastBlockNew
<1>3. TxsOf(c) = TxsOf(d) \cup ToSet(t)
  BY <1>1, TxsOfFront DEF Chained
<1>4. Waiting(p, k, d)
  <2>1. k \subseteq Transaction /\ TxsOf(d) \subseteq k /\ \A i \in 1 .. Len(p) : p[i].tx \notin TxsOf(d)
    BY <1>3 DEF Waiting
  <2> QED BY <2>1, WaitsForOther
<1>5. PICK T : T = [tx : k, expired : BOOLEAN] /\ p \in Seq(T)
  BY DEF Waiting
<1>6. PICK n \in Nat : n = Len(t) /\ DOMAIN t = 1 .. n
  BY <1>2
<1>7. \A i \in 1 .. n : t[i] \in k /\ t[i] \in ToSet(t)
  <2>1. \A i \in 1 .. n : t[i] \in ToSet(t)
    BY <1>6 DEF ToSet
  <2> QED BY <1>3, <2>1 DEF Waiting
<1>8. t \in Seq(k)
  <2>1. t = [i \in 1 .. n |-> t[i]]
    BY <1>2, <1>6
  <2> QED BY <1>7, <2>1, ListOf
<1>9. a \in Seq(k) /\ Part(a, t, Len(t)) /\ AllOf(a, t, S)
  BY <1>0, <1>8, KeptIs
<1>10. \A i, j \in 1 .. Len(a) : a[i] = a[j] => i = j
  <2>1. PICK q \in [1 .. Len(a) -> 1 .. n] :
          /\ \A j \in 1 .. Len(a) : a[j] = t[q[j]]
          /\ \A i, j \in 1 .. Len(a) : q[i] = q[j] => i = j
    BY <1>6, <1>9 DEF Part
  <2>2. \A j \in 1 .. Len(a) : q[j] \in 1 .. n
    BY <2>1
  <2>3. ASSUME NEW i \in 1 .. Len(a), NEW j \in 1 .. Len(a), a[i] = a[j] PROVE i = j
    <3>1. t[q[i]] = t[q[j]] /\ q[i] \in 1 .. n /\ q[j] \in 1 .. n
      BY <2>1, <2>2, <2>3
    <3>2. q[i] = q[j]
      BY <1>2, <1>6, <3>1
    <3> QED BY <2>1, <3>2
  <2> QED BY <2>3
<1>11. \A i \in 1 .. Len(p) : p[i].tx \notin S
  <2>1. \A i \in 1 .. Len(p) : p[i] \in ToSet(p)
    BY <1>5 DEF ToSet
  <2> QED BY <1>1, <2>1
<1>12. \A i \in 1 .. Len(a) : a[i] \notin TxsOf(d) /\ \A j \in 1 .. Len(p) : p[j].tx # a[i]
  <2>1. \A x \in S : x \notin TxsOf(d)
    BY <1>1, <1>2, <1>6 DEF ToSet
  <2> QED BY <1>9, <1>11, <2>1 DEF AllOf
<1>13. PICK e : e = [i \in DOMAIN a |-> Entry(a[i])]
  OBVIOUS
<1>14. Waiting(p \o e, k, d)
  <2>1. Fresh(a, p, d)
    BY <1>10, <1>12 DEF Fresh
  <2> QED BY <1>4, <1>9, <1>13, <2>1, MoreWait
<1>15. Waiting(r, k, d)
  <2>1. CASE t = <<>>
    BY <1>0, <1>4, <2>1
  <2>2. CASE t # <<>>
    BY <1>0, <1>13, <1>14, <2>2, SetMempoolWaits
  <2> QED BY <2>1, <2>2
<1>16. ASSUME NEW tx, Waits(p, tx) \/ tx \in ToSet(t) PROVE Waits(r, tx)
  <2>1. CASE t = <<>>
    <3>1. ToSet(t) = {}
      BY <2>1 DEF ToSet
    <3> QED BY <1>0, <1>16, <2>1, <3>1
  <2>2. CASE t # <<>>
    <3>1. PICK b : b = p \o e /\ r = SetMempool(b) /\ b \in Seq(T)
      BY <1>0, <1>5, <1>13, <1>14, <2>2 DEF Waiting
    <3>2. PICK m \in Nat : m = Len(p)
      BY <1>5
    <3>3. PICK h \in Nat : h = Len(a) /\ DOMAIN a = 1 .. h
      BY <1>9, LengthIs
    <3>4. /\ e \in Seq(T) /\ Len(e) = h
          /\ \A j \in 1 .. h : e[j].tx = a[j] /\ ~e[j].expired
      <4>1. \A j \in 1 .. h : a[j] \in k
        BY <1>9, <3>3
      <4>2. e = [j \in 1 .. h |-> Entry(a[j])]
        BY <1>13, <3>3
      <4>3. \A j \in 1 .. h : Entry(a[j]) \in T /\ Entry(a[j]).tx = a[j] /\ ~Entry(a[j]).expired
        BY <1>5, <4>1 DEF Entry
      <4>4. \A j \in 1 .. h : e[j] \in T /\ e[j].tx = a[j] /\ ~e[j].expired
        BY <4>2, <4>3
      <4>5. e \in Seq(T) /\ Len(e) = h
        BY <4>2, <4>4
      <4> QED BY <4>4, <4>5
    <3>5. /\ Len(b) = m + h /\ \A i \in 1 .. m : b[i] = p[i]
          /\ \A i \in m + 1 .. m + h : b[i] = e[i - m]
      <4>1. p \in Seq(T) /\ e \in Seq(T) /\ m = Len(p) /\ h = Len(e) /\ b = p \o e
        BY <1>5, <3>1, <3>2, <3>4
      <4> QED BY ONLY <4>1, m \in Nat, h \in Nat, ConcatIs
    <3>6. \E i \in 1 .. m + h : b[i].tx = tx /\ ~b[i].expired
      <4>1. CASE Waits(p, tx)
        <5>1. PICK i \in 1 .. m : p[i].tx = tx /\ ~p[i].expired
          BY <3>2, <4>1 DEF Waits
        <5>2. i \in 1 .. m + h
          OBVIOUS
        <5> QED BY <3>5, <5>1, <5>2
      <4>2. CASE tx \in ToSet(t)
        <5>1. tx \in S
          <6>1. \A i \in 1 .. Len(p) : p[i].tx \notin ToSet(t)
            BY <1>3 DEF Waiting
          <6>2. tx \notin {y.tx : y \in ToSet(p)}
            BY <1>5, <4>2, <6>1 DEF ToSet
          <6> QED BY <1>1, <4>2, <6>2
        <5>2. PICK i \in 1 .. n : tx = t[i]
          BY <1>6, <4>2 DEF ToSet
        <5>3. PICK j \in 1 .. h : a[j] = tx
          BY <1>6, <1>9, <3>3, <5>1, <5>2 DEF AllOf
        <5>4. m + j \in m + 1 .. m + h /\ (m + j) - m = j /\ m + j \in 1 .. m + h
          OBVIOUS
        <5>5. b[m + j] = e[j]
          BY <3>5, <5>4
        <5> QED BY <3>4, <5>3, <5>4, <5>5
      <4> QED BY <1>16, <4>1, <4>2
    <3>7. PICK i \in 1 .. Len(b) : b[i].tx = tx /\ ~b[i].expired
      BY <3>5, <3>6
    <3>8. Unexpired(r, b)
      BY <3>1, SetMempoolIs
    <3>9. PICK j \in 1 .. Len(r) : r[j] = b[i]
      BY <3>7, <3>8 DEF Unexpired
    <3> QED BY <3>7, <3>9 DEF Waits
  <2> QED BY <2>1, <2>2
<1> QED BY <1>1, <1>15, <1>16

\* The parts of the invariant about the pool.
UndoneWaits == mode # "main" => \A tx \in TxsOf(saved[2]) \ TxsOf(chain) : Waits(pool, tx)
BeforeReorg ==
  /\ mode = "main" <=> savedPool = <<>>
  /\ mode # "main" => Waiting(savedPool[1], savedPool[2], saved[2])

LEMMA PoolInvIs == PoolInv <=> LedgerInv /\ Waiting(pool, known, chain) /\ BeforeReorg /\ UndoneWaits
BY DEF PoolInv, UndoneWaits, BeforeReorg, Waits

LEMMA PoolInitInv == PoolInit => PoolInv
<1> SUFFICES ASSUME PoolInit PROVE PoolInv
  OBVIOUS
<1>1. LedgerInv
  BY LedgerInit DEF PoolInit
<1>2. Waiting(pool, known, chain)
  <2>1. pool = <<>> /\ known = {} /\ chain = <<>>
    BY DEF PoolInit, Init
  <2>2. TxsOf(<<>>) = {}
    BY DEF TxsOf
  <2> QED BY <2>1, <2>2 DEF Waiting
<1>3. mode = "main" /\ savedPool = <<>>
  BY DEF PoolInit, Init
<1> QED BY <1>1, <1>2, <1>3 DEF PoolInv

\* Every step keeps the rest of the invariant too.
LEMMA PoolStep ==
  ASSUME PoolInv, [PoolNext]_poolVars
  PROVE  PoolInv'
<1>1. LedgerInv /\ Waiting(pool, known, chain) /\ BeforeReorg /\ UndoneWaits
  BY PoolInvIs
<1>2. LedgerInv'
  BY PoolLedgerStep
<1>3. PICK p, k, c : p = pool /\ k = known /\ c = chain
  OBVIOUS
<1>4. Waiting(p, k, c) /\ Chained(led, c)
  BY <1>1, <1>3 DEF LedgerInv
<1>5. c \in Seq(AnyBlock)
  BY <1>4 DEF Chained
<1>6. SUFFICES Waiting(pool, known, chain)' /\ BeforeReorg' /\ UndoneWaits'
  BY <1>2 DEF PoolInv, BeforeReorg, UndoneWaits, Waits
<1>7. CASE \E tx \in Submitted : AddTransaction(tx)
  <2>1. PICK tx \in Submitted : AddTransaction(tx)
    BY <1>7
  <2>2. PICK l : l = k \cup {tx}
    OBVIOUS
  <2>3. PICK q : q = Append(p, Entry(tx))
    OBVIOUS
  <2>4. tx \in Transaction /\ tx \notin k
    BY <1>3, <2>1, PoolAssumption DEF AddTransaction
  <2>5. Waiting(p, l, c)
    <3>1. k \subseteq Transaction
      BY <1>4 DEF Waiting
    <3>2. k \subseteq l /\ l \subseteq Transaction
      BY <2>2, <2>4, <3>1
    <3> QED BY <1>4, <3>2, WaitsInLarger
  <2>6. PICK a : a = <<tx>>
    OBVIOUS
  <2>7. PICK e : e = [i \in DOMAIN a |-> Entry(a[i])]
    OBVIOUS
  <2>8. a \in Seq(l) /\ Len(a) = 1 /\ a[1] = tx /\ DOMAIN a = {1} /\ 1 .. 1 = {1}
    BY <2>2, <2>6
  <2>9. q = p \o e
    <3>1. e = <<Entry(tx)>>
      BY <2>7, <2>8
    <3>2. PICK T : p \in Seq(T)
      BY <1>4 DEF Waiting
    <3> QED BY <2>3, <3>1, <3>2
  <2>10. Fresh(a, p, c)
    <3>1. tx \notin TxsOf(c) /\ \A j \in 1 .. Len(p) : p[j].tx \in k
      <4>1. PICK T : T = [tx : k, expired : BOOLEAN] /\ p \in Seq(T)
        BY <1>4 DEF Waiting
      <4>2. \A j \in 1 .. Len(p) : p[j] \in T
        BY <4>1, LengthIs
      <4>3. TxsOf(c) \subseteq k
        BY <1>4 DEF Waiting
      <4> QED BY <2>4, <4>1, <4>2, <4>3
    <3> QED BY <2>4, <2>8, <3>1 DEF Fresh
  <2>11. Waiting(q, l, c)
    BY <2>5, <2>7, <2>8, <2>9, <2>10, MoreWait
  <2>12. Waiting(SetMempool(q), l, c)
    BY <2>11, SetMempoolWaits
  <2>13. pool' = SetMempool(q) /\ known' = l /\ chain' = c
    BY <1>3, <2>1, <2>2, <2>3 DEF AddTransaction, vars
  <2>14. Waiting(pool, known, chain)'
    BY <2>12, <2>13
  <2>15. BeforeReorg' /\ UndoneWaits'
    BY <1>1, <2>1 DEF AddTransaction, vars, BeforeReorg, UndoneWaits
  <2> QED BY <2>14, <2>15
<1>8. CASE GetBlockTemplate
  <2>1. PICK S : S = {e \in ToSet(pool) : e.tx \in ToSet(Template)}
    OBVIOUS
  <2>2. Waiting(SetMempool(Kept(p, S)), k, c)
    BY <1>4, KeptWaits, SetMempoolWaits
  <2>3. pool' = SetMempool(Kept(p, S)) /\ known' = k /\ chain' = c
    BY <1>3, <1>8, <2>1 DEF GetBlockTemplate, vars
  <2>4. Waiting(pool, known, chain)'
    BY <2>2, <2>3
  <2>5. BeforeReorg' /\ UndoneWaits'
    BY <1>1, <1>8 DEF GetBlockTemplate, vars, BeforeReorg, UndoneWaits
  <2> QED BY <2>4, <2>5
<1>9. CASE \E i \in DOMAIN pool : Expire(i)
  <2>1. PICK i \in DOMAIN pool : Expire(i)
    BY <1>9
  <2>2. PICK T : T = [tx : k, expired : BOOLEAN] /\ p \in Seq(T)
    BY <1>4 DEF Waiting
  <2>3. PICK q : q = [p EXCEPT ![i].expired = TRUE]
    OBVIOUS
  <2>4. PICK n \in Nat : n = Len(p) /\ DOMAIN p = 1 .. n /\ \A j \in 1 .. n : p[j] \in T
    BY <2>2, LengthIs
  <2>5. i \in 1 .. n
    BY <1>3, <2>1, <2>4
  <2>6. \A j \in 1 .. n : q[j] \in T /\ q[j].tx = p[j].tx
    BY <2>2, <2>3, <2>4
  <2>7. q = [j \in 1 .. n |-> q[j]]
    BY <2>3, <2>4
  <2>8. q \in Seq(T) /\ Len(q) = n
    BY <2>6, <2>7
  <2>9. Waiting(q, k, c)
    BY <1>4, <2>2, <2>4, <2>6, <2>8 DEF Waiting
  <2>10. pool' = q /\ known' = k /\ chain' = c
    BY <1>3, <2>1, <2>3 DEF Expire, vars
  <2>11. Waiting(pool, known, chain)'
    BY <2>9, <2>10
  <2>12. BeforeReorg' /\ UndoneWaits'
    BY <1>1, <2>1 DEF Expire, vars, BeforeReorg, UndoneWaits
  <2> QED BY <2>11, <2>12
<1>10. CASE \E b \in PoolOffered : ConnectBlock(b)
  <2>1. PICK b \in AnyBlock : ConnectBlock(b)
    BY <1>10, PoolOfferedBlocks
  <2>2. PICK q : q = SetMempool(DeleteEntries(p, b.txs))
    OBVIOUS
  <2>3. /\ Waiting(q, k \cup ToSet(b.txs), Append(c, b))
        /\ \A tx : Waits(p, tx) /\ tx \notin ToSet(b.txs) => Waits(q, tx)
    BY <1>4, <1>5, <2>2, ConnectWaits
  <2>4. /\ pool' = q /\ known' = k \cup ToSet(b.txs) /\ chain' = Append(c, b)
        /\ savedPool' = savedPool /\ saved' = saved /\ (mode = "main" <=> mode' = "main")
    BY <1>3, <2>1, <2>2 DEF ConnectBlock, AddMainchainBlock, ReapplyBlock
  <2>5. Waiting(pool, known, chain)'
    BY <2>3, <2>4
  <2>6. BeforeReorg'
    BY <1>1, <2>4 DEF BeforeReorg
  <2>7. TxsOf(chain') = TxsOf(c) \cup ToSet(b.txs)
    BY <1>5, <2>4, TxsOfAppend
  <2>8. UndoneWaits'
    <3>1. SUFFICES ASSUME mode' # "main", NEW tx \in TxsOf(saved[2]), tx \notin TxsOf(chain')
                   PROVE  Waits(q, tx)
      BY <2>4 DEF UndoneWaits
    <3>2. Waits(p, tx) /\ tx \notin ToSet(b.txs)
      BY <1>1, <1>3, <2>4, <2>7, <3>1 DEF UndoneWaits
    <3> QED BY <2>3, <3>2
  <2> QED BY <2>5, <2>6, <2>8
<1>11. CASE \E b \in Offered : StoreAltchainBlock(b)
  <2>1. PICK b \in AnyBlock : StoreAltchainBlock(b)
    BY <1>11, PoolOfferedBlocks
  <2>2. ToSet(b.txs) \subseteq Transaction
    BY TxOfBlock DEF ToSet
  <2>3. Waiting(p, k \cup ToSet(b.txs), c)
    <3>1. k \subseteq Transaction
      BY <1>4 DEF Waiting
    <3>2. k \subseteq k \cup ToSet(b.txs) /\ k \cup ToSet(b.txs) \subseteq Transaction
      BY <2>2, <3>1
    <3> QED BY <1>4, <3>2, WaitsInLarger
  <2>4. pool' = p /\ known' = k \cup ToSet(b.txs) /\ chain' = c
    BY <1>3, <2>1 DEF StoreAltchainBlock, vars
  <2>5. Waiting(pool, known, chain)'
    BY <2>3, <2>4
  <2>6. BeforeReorg' /\ UndoneWaits'
    BY <1>1, <2>1 DEF StoreAltchainBlock, vars, BeforeReorg, UndoneWaits
  <2> QED BY <2>5, <2>6
<1>12. CASE DisconnectBlock
  <2>1. UndoBlock /\ SavePool /\ UNCHANGED known
    BY <1>12 DEF DisconnectBlock
  <2>2. PICK t : t = c[Len(c)].txs
    OBVIOUS
  <2>3. PICK q : q = Returned(p, t)
    OBVIOUS
  <2>4. pool' = q
    BY <1>3, <1>12, <2>2, <2>3 DEF DisconnectBlock, Returned, Height
  <2>5. pool' = q /\ known' = k /\ chain' = Front(c) /\ Len(c) > 0 /\ mode' = "undo"
    BY <1>3, <2>1, <2>4 DEF UndoBlock, Height
  <2>6. /\ Waiting(q, k, Front(c))
        /\ \A tx : Waits(p, tx) \/ tx \in ToSet(t) => Waits(q, tx)
    <3>1. PICK L : Chained(L, c)
      BY <1>4
    <3>2. Waiting(p, k, c) /\ Len(c) > 0
      BY <1>4, <2>5
    <3> QED BY <2>2, <2>3, <3>1, <3>2, DisconnectWaits
  <2>7. Waiting(pool, known, chain)'
    BY <2>5, <2>6
  <2>8. BeforeReorg'
    <3>1. CASE mode = "main"
      <4>1. savedPool' = <<p, k>> /\ saved'[2] = c
        BY <1>3, <2>1, <3>1 DEF SavePool, UndoBlock
      <4>2. <<p, k>> # <<>>
        OBVIOUS
      <4> QED BY <1>4, <2>5, <4>1, <4>2 DEF BeforeReorg
    <3>2. CASE mode # "main"
      <4>1. savedPool' = savedPool /\ saved' = saved
        BY <2>1, <3>2 DEF SavePool, UndoBlock
      <4> QED BY <1>1, <2>5, <3>2, <4>1 DEF BeforeReorg
    <3> QED BY <3>1, <3>2
  <2>9. TxsOf(c) = TxsOf(Front(c)) \cup ToSet(t)
    BY <1>5, <2>2, <2>5, TxsOfFront
  <2>10. UndoneWaits'
    <3>1. SUFFICES ASSUME NEW tx \in TxsOf(saved'[2]), tx \notin TxsOf(Front(c))
                   PROVE  Waits(q, tx)
      BY <2>5 DEF UndoneWaits
    <3>2. CASE tx \in TxsOf(c)
      BY <2>6, <2>9, <3>1, <3>2
    <3>3. CASE tx \notin TxsOf(c)
      <4>1. CASE mode = "main"
        <5>1. saved'[2] = c
          BY <1>3, <2>1, <4>1 DEF UndoBlock
        <5> QED BY <3>1, <3>3, <5>1
      <4>2. CASE mode # "main"
        <5>1. saved' = saved
          BY <2>1, <4>2 DEF UndoBlock
        <5>2. Waits(p, tx)
          BY <1>1, <1>3, <3>1, <3>3, <4>2, <5>1 DEF UndoneWaits
        <5> QED BY <2>6, <5>2
      <4> QED BY <4>1, <4>2
    <3> QED BY <3>2, <3>3
  <2> QED BY <2>7, <2>8, <2>10
<1>13. CASE AbandonReorg
  <2>1. /\ mode # "main" /\ mode' = "main" /\ savedPool' = <<>>
        /\ pool' = savedPool[1] /\ known' = savedPool[2] /\ chain' = saved[2]
    BY <1>13 DEF AbandonReorg, ReorgFails
  <2>2. Waiting(pool, known, chain)'
    BY <1>1, <2>1 DEF BeforeReorg
  <2>3. BeforeReorg' /\ UndoneWaits'
    BY <2>1 DEF BeforeReorg, UndoneWaits
  <2> QED BY <2>2, <2>3
<1>14. CASE FinishReorg
  <2>1. mode' = "main" /\ savedPool' = <<>> /\ UNCHANGED <<pool, known, chain>>
    BY <1>14 DEF FinishReorg, SwitchTop
  <2> QED BY <1>1, <2>1 DEF BeforeReorg, UndoneWaits
<1>15. CASE UNCHANGED poolVars
  BY <1>1, <1>15 DEF poolVars, vars, BeforeReorg, UndoneWaits
<1> QED BY <1>7, <1>8, <1>9, <1>10, <1>11, <1>12, <1>13, <1>14, <1>15 DEF PoolNext

LEMMA InvPool == PoolInv => PoolTypeOK /\ PoolIsPending /\ NoReplay
<1> SUFFICES ASSUME PoolInv PROVE PoolTypeOK /\ PoolIsPending /\ NoReplay
  OBVIOUS
<1>1. LedgerInv /\ Waiting(pool, known, chain) /\ (mode = "main" <=> savedPool = <<>>)
  BY DEF PoolInv
<1>2. PICK T : pool \in Seq(T)
  BY <1>1 DEF Waiting
<1>3. DOMAIN pool = 1 .. Len(pool)
  BY <1>2
<1>4. PoolTypeOK
  BY <1>1 DEF Waiting, PoolTypeOK
<1>5. PoolIsPending
  BY <1>1, <1>3 DEF Waiting, PoolIsPending
<1> QED BY <1>1, <1>4, <1>5, InvNoReplay

LEMMA PoolInvariant == PoolSpec => []PoolInv
<1>1. PoolInv /\ [PoolNext]_poolVars => PoolInv'
  BY PoolStep
<1> QED BY <1>1, PoolInitInv, PTL DEF PoolSpec

\* GetTx finds every transaction of the pool and of the main chain, and the pool is
\* saved exactly while CheckReorgs runs.
THEOREM PoolTyped == PoolSpec => []PoolTypeOK
BY PoolInvariant, InvPool, PTL

\* What waits in the pool waits once and is not in the main chain, whatever blocks,
\* branches, reorganisations that fail or succeed, templates and expiry do.
THEOREM PoolPending == PoolSpec => []PoolIsPending
BY PoolInvariant, InvPool, PTL

\* The node's own blocks, made from GetBlockTemplate, replay nothing either.
THEOREM TemplatesReplayNothing == PoolSpec => []NoReplay
BY PoolInvariant, InvPool, PTL

\* When a reorganisation is committed, every transaction of the abandoned blocks
\* that the new main chain does not have is back in the pool.
THEOREM UndoneTxsReturn == PoolSpec => UndoneReturn
<1>1. PoolInv /\ [PoolNext]_poolVars
      => [FinishReorg => \A tx \in TxsOf(saved[2]) \ TxsOf(chain) :
                           \E i \in DOMAIN pool : pool[i].tx = tx]_poolVars
  <2> SUFFICES ASSUME PoolInv, FinishReorg, NEW tx \in TxsOf(saved[2]) \ TxsOf(chain)
               PROVE  \E i \in DOMAIN pool : pool[i].tx = tx
    OBVIOUS
  <2>1. mode # "main"
    BY DEF FinishReorg, SwitchTop
  <2>2. PICK i \in 1 .. Len(pool) : pool[i].tx = tx
    BY <2>1 DEF PoolInv
  <2>3. PICK T : pool \in Seq(T)
    BY DEF PoolInv, Waiting
  <2> QED BY <2>2, <2>3
<1> QED BY <1>1, PoolInvariant, PTL DEF PoolSpec, UndoneReturn

-----------------------------------------------------------------------------
(* validateMempoolTx                                                       *)

\* The copies of the ledger, after the transactions before are imitated.
Imitation(A, u, h, before) == FoldLeft(LAMBDA S, e : Simulate(S, A, u, e, h), led, before)

\* validateMempoolTx goes through the entries one after the other.
LEMMA ImitationWalks ==
  ASSUME NEW A, NEW u, NEW h, NEW s, NEW n \in Nat, DOMAIN s = 1 .. n
  PROVE  \E g : /\ g[0] = led /\ g[n] = Imitation(A, u, h, s)
                /\ \A k \in 1 .. n : g[k] = Simulate(g[k - 1], A, u, s[k], h)
<1> DEFINE Is(f) == f = [t \in SUBSET DOMAIN s |->
                           IF t = {} THEN led ELSE Simulate(f[t \ {Max(t)}], A, u, s[Max(t)], h)]
<1>0. PICK S : S = [affected |-> A, signer |-> u, height |-> h]
  OBVIOUS
<1>1. \A f : Is(f) <=> Choosing(f, "imitate", S, led, s)
  BY <1>0 DEF Choosing, Turn
<1>2. PICK f : f = CHOOSE e : Is(e)
  OBVIOUS
<1>3. Imitation(A, u, h, s) = f[DOMAIN s]
  BY <1>2 DEF Imitation, FoldLeft, MapThenFoldSet
<1> HIDE DEF Is
<1>4. Is(f)
  BY <1>1, <1>2, ChoosingExists
<1>5. PICK g : Walk(g, "imitate", S, led, s, n, Imitation(A, u, h, s))
  BY <1>1, <1>3, <1>4, FoldWalks
<1> QED BY <1>0, <1>5 DEF Walk, Turn

\* What a transaction pays to an account: it has one output, or none.
LEMMA ReceivedIs ==
  ASSUME NEW e \in Transaction, Placed(e), NEW u
  PROVE  Received(u, e) = Gets(e, u) /\ Gets(e, u) \in Nat
<1> DEFINE s == Outputs(e)
           Is(f) == f = [t \in SUBSET DOMAIN s |->
                           IF t = {} THEN 0
                           ELSE f[t \ {Max(t)}] + IF s[Max(t)].to = u THEN s[Max(t)].amount ELSE 0]
<1>1. \A f : Is(f) <=> Choosing(f, "paid", u, 0, s)
  BY DEF Choosing, Turn
<1>2. PICK f : f = CHOOSE x : Is(x)
  OBVIOUS
<1>3. Received(u, e) = f[DOMAIN s]
  BY <1>2 DEF Received, FoldLeft, MapThenFoldSet
<1> HIDE DEF Is
<1>4. CASE e.kind = "set"
  <2>1. s = <<>>
    BY <1>4, TxParts
  <2>2. DOMAIN s = 1 .. 0
    BY <2>1
  <2>3. Is(f)
    BY <1>1, <1>2, <2>2, ChoosingExists
  <2>4. PICK g : Walk(g, "paid", u, 0, s, 0, f[DOMAIN s])
    BY <1>1, <2>2, <2>3, FoldWalks
  <2>5. f[DOMAIN s] = 0
    BY <2>4 DEF Walk
  <2> QED BY <1>3, <1>4, <2>5 DEF Gets
<1>5. CASE e.kind # "set"
  <2>1. PICK o : s = <<o>> /\ o.amount \in Nat
    BY <1>5, TxParts
  <2>2. DOMAIN s = 1 .. 1 /\ s[1] = o
    BY <2>1
  <2>3. Is(f)
    BY <1>1, <1>2, <2>2, ChoosingExists
  <2>4. PICK g : Walk(g, "paid", u, 0, s, 1, f[DOMAIN s])
    BY <1>1, <2>2, <2>3, FoldWalks
  <2>5. 1 \in 1 .. 1 /\ 1 - 1 = 0
    OBVIOUS
  <2>6. f[DOMAIN s] = Turn("paid", u, 0, o)
    BY <2>2, <2>4, <2>5 DEF Walk
  <2>7. f[DOMAIN s] = 0 + IF o.to = u THEN o.amount ELSE 0
    BY <2>6 DEF Turn
  <2>8. f[DOMAIN s] = IF o.to = u THEN o.amount ELSE 0
    BY <2>1, <2>7
  <2> QED BY <1>3, <1>5, <2>1, <2>2, <2>8 DEF Gets
<1> QED BY <1>4, <1>5

\* What an entry does to the accounts A in the copies: as much as ApplyTxToState.
Imitates(K, A, e, M) ==
  /\ Shape(M)
  /\ Input(e).from \in A => K.bal[Input(e).from] >= Input(e).amount
  /\ M.nonce = [v \in Users |-> K.nonce[v] + IF v = e.signer /\ v \in A THEN 1 ELSE 0]
  /\ M.bal = [a \in Addresses |-> IF a \in A THEN (K.bal[a] - Sends(e, a)) + Gets(e, a) ELSE K.bal[a]]

\* The accounts are imitated for every kind of transaction alike.
LEMMA AccountsImitated ==
  ASSUME NEW K, Shape(K), K.ok, NEW A, NEW e \in Transaction, Placed(e), NEW M,
         M = SimulateAccounts(K, A, e)
  PROVE  /\ M.ok => Imitates(K, A, e, M)
         /\ M.dels = K.dels /\ Shape(M) /\ M.delegate = K.delegate
<1>1. \A a : Received(a, e) = Gets(e, a) /\ Spent(a, e) = Sends(e, a)
  BY ReceivedIs DEF Spent, Sends
<1>2. M = [K EXCEPT
            !.ok = @ /\ (Input(e).from \in A => K.bal[Input(e).from] >= Input(e).amount),
            !.nonce = [v \in Users |-> K.nonce[v] + IF v = e.signer /\ v \in A THEN 1 ELSE 0],
            !.bal = [a \in Addresses |-> IF a \in A THEN K.bal[a] - Spent(a, e) + Received(a, e) ELSE K.bal[a]]]
  BY DEF SimulateAccounts, Spent, Received
<1>3. Shape(M) /\ M.dels = K.dels /\ M.delegate = K.delegate
  BY <1>2 DEF Shape
<1>4. M.nonce = [v \in Users |-> K.nonce[v] + IF v = e.signer /\ v \in A THEN 1 ELSE 0]
  BY <1>2 DEF Shape
<1>5. M.bal = [a \in Addresses |-> IF a \in A THEN (K.bal[a] - Sends(e, a)) + Gets(e, a) ELSE K.bal[a]]
  <2>1. M.bal = [a \in Addresses |-> IF a \in A THEN K.bal[a] - Spent(a, e) + Received(a, e) ELSE K.bal[a]]
    BY <1>2 DEF Shape
  <2> QED BY <1>1, <2>1
<1>6. M.ok => (Input(e).from \in A => K.bal[Input(e).from] >= Input(e).amount)
  BY <1>2 DEF Shape
<1> QED BY <1>3, <1>4, <1>5, <1>6 DEF Imitates

\* A stake or an unstake is imitated only of a registered delegate, and nothing else is
\* done to the accounts.
LEMMA EntryImitated ==
  ASSUME NEW K, Shape(K), NEW A, NEW u, NEW e \in Transaction, NEW h, NEW M,
         M = Simulate(K, A, u, e, h), M.ok
  PROVE  /\ K.ok /\ Placed(e) /\ Imitates(K, A, e, M)
         /\ e.kind = "transfer" => M.dels = K.dels
         /\ e.kind = "register" => M.dels = [K.dels EXCEPT ![e.delegate] = [owner |-> e.signer, funds |-> <<>>]]
<1>1. PICK T : T = SimulateAccounts(K, A, e)
  OBVIOUS
<1>2. Shape(T)
  BY <1>1 DEF SimulateAccounts, Shape
<1>3. K.ok
  BY DEF Simulate
<1>4. e.kind \in {"transfer", "register", "set", "stake", "unstake"}
  BY DEF Transaction
<1>5. CASE e.kind = "transfer"
  <2>1. M = T
    BY <1>1, <1>3, <1>5 DEF Simulate
  <2>2. Placed(e)
    BY <1>5 DEF Placed
  <2> QED BY <1>1, <1>3, <1>5, <2>1, <2>2, AccountsImitated
<1>6. CASE e.kind = "register"
  <2>1. M = [T EXCEPT !.dels[e.delegate] = [owner |-> e.signer, funds |-> <<>>]]
    BY <1>1, <1>3, <1>6 DEF Simulate
  <2>2. Placed(e)
    BY <1>6 DEF Placed
  <2>3. /\ M.ok = T.ok /\ M.nonce = T.nonce /\ M.bal = T.bal /\ Shape(M)
        /\ M.dels = [T.dels EXCEPT ![e.delegate] = [owner |-> e.signer, funds |-> <<>>]]
    BY <1>2, <2>1 DEF Shape
  <2>4. Imitates(K, A, e, T) /\ T.dels = K.dels
    BY <1>1, <1>3, <2>2, <2>3, AccountsImitated
  <2> QED BY <1>3, <1>6, <2>2, <2>3, <2>4 DEF Imitates
<1>7. CASE e.kind = "set"
  <2>1. M = [T EXCEPT !.ok = @ /\ e.prev = T.delegate[u], !.delegate[u] = e.delegate]
    BY <1>1, <1>3, <1>7 DEF Simulate
  <2>2. Placed(e)
    BY <1>7 DEF Placed
  <2>3. (M.ok => T.ok) /\ M.nonce = T.nonce /\ M.bal = T.bal /\ Shape(M)
    BY <1>2, <2>1 DEF Shape
  <2>4. Imitates(K, A, e, T)
    BY <1>1, <1>3, <2>2, <2>3, AccountsImitated
  <2> QED BY <1>3, <1>7, <2>2, <2>3, <2>4 DEF Imitates
<1>8. CASE e.kind = "stake"
  <2>1. M = SimulateStake(T, u, e, h)
    BY <1>1, <1>3, <1>8 DEF Simulate
  <2>2. /\ M.ok => T.ok /\ Registered(T, e.delegate)
        /\ M.nonce = T.nonce /\ M.bal = T.bal /\ Shape(M)
    <3>1. CASE FundOf(T.dels[e.delegate].funds, e.signer) = {}
      <4>1. PICK x : M = [T EXCEPT !.ok = @ /\ Registered(T, e.delegate),
                                   !.dels[e.delegate].funds = Append(@, x)]
        BY <2>1, <3>1 DEF SimulateStake
      <4> QED BY <1>2, <4>1 DEF Shape
    <3>2. CASE FundOf(T.dels[e.delegate].funds, e.signer) # {}
      <4>1. PICK z, w : z = Min(FundOf(T.dels[e.delegate].funds, e.signer)) /\ w = h + STAKE_UNLOCK_TIME
        OBVIOUS
      <4>2. M = [T EXCEPT !.ok = @ /\ Registered(T, e.delegate) /\ T.dels[e.delegate].funds[z].unlock = e.prev,
                          !.dels[e.delegate].funds[z] =
                            [owner |-> e.signer, amount |-> @.amount + e.amount, unlock |-> w]]
        BY <2>1, <3>2, <4>1 DEF SimulateStake
      <4> QED BY <1>2, <4>2 DEF Shape
    <3> QED BY <3>1, <3>2
  <2>3. Placed(e)
    BY <1>8, <2>2 DEF Placed, Registered
  <2>4. Imitates(K, A, e, T)
    BY <1>1, <1>3, <2>2, <2>3, AccountsImitated
  <2> QED BY <1>3, <1>8, <2>2, <2>3, <2>4 DEF Imitates
<1>9. CASE e.kind = "unstake"
  <2>1. M = SimulateUnstake(T, e)
    BY <1>1, <1>3, <1>9 DEF Simulate
  <2>2. Refuse(T).ok = FALSE
    BY <1>2 DEF Refuse, Shape
  <2>3. PICK x, z : M = [T EXCEPT !.dels[e.delegate].funds[z].amount = x] /\ Registered(T, e.delegate)
    BY <2>1, <2>2 DEF SimulateUnstake
  <2>4. M.ok = T.ok /\ M.nonce = T.nonce /\ M.bal = T.bal /\ Shape(M)
    BY <1>2, <2>3 DEF Shape
  <2>5. Placed(e)
    BY <1>9, <2>3 DEF Placed, Registered
  <2>6. Imitates(K, A, e, T)
    BY <1>1, <1>3, <2>4, <2>5, AccountsImitated
  <2> QED BY <1>3, <1>9, <2>4, <2>5, <2>6 DEF Imitates
<1> QED BY <1>4, <1>5, <1>6, <1>7, <1>8, <1>9

\* The copies a fold goes through, when it ends without an error.
Imitating(g, A, n, s) ==
  /\ g[0] = led
  /\ \A k \in 0 .. n : Shape(g[k]) /\ g[k].ok
  /\ \A k \in 1 .. n : Placed(s[k]) /\ Imitates(g[k - 1], A, s[k], g[k])

\* When the fold ends without an error, every entry was imitated without one.
LEMMA AllImitated ==
  ASSUME Shape(led), NEW A, NEW u, NEW h, NEW n \in Nat, NEW s, DOMAIN s = 1 .. n,
         \A k \in 1 .. n : s[k] \in Transaction, Imitation(A, u, h, s).ok
  PROVE  \E g : /\ g[n] = Imitation(A, u, h, s) /\ Imitating(g, A, n, s)
                /\ \A k \in 1 .. n : g[k] = Simulate(g[k - 1], A, u, s[k], h)
<1>1. PICK g : /\ g[0] = led /\ g[n] = Imitation(A, u, h, s)
               /\ \A k \in 1 .. n : g[k] = Simulate(g[k - 1], A, u, s[k], h)
  BY ImitationWalks
<1> DEFINE B == {k \in 0 .. n : g[k].ok}
<1>2. n \in B
  BY <1>1
<1>3. ASSUME NEW k \in 1 .. n, k \in B PROVE k - 1 \in B
  <2>1. g[k] = Simulate(g[k - 1], A, u, s[k], h) /\ g[k].ok /\ k - 1 \in 0 .. n
    BY <1>1, <1>3
  <2>2. g[k - 1].ok
    BY <2>1 DEF Simulate
  <2> QED BY <2>1, <2>2
<1>4. \A k \in 0 .. n : g[k].ok
  <2>1. 0 .. n \subseteq B
    <3> HIDE DEF B
    <3> QED BY <1>2, <1>3, BackInduction
  <2> QED BY <2>1
<1> DEFINE C == {k \in Nat : k <= n => Shape(g[k])}
<1>5. 0 \in C
  BY <1>1
<1>6. ASSUME NEW k \in Nat, k \in C PROVE k + 1 \in C
  <2>1. CASE k + 1 <= n
    <3>1. k + 1 \in 1 .. n /\ (k + 1) - 1 = k /\ Shape(g[k]) /\ k + 1 \in 0 .. n
      BY <1>6, <2>1
    <3>2. g[k + 1] = Simulate(g[k], A, u, s[k + 1], h) /\ g[k + 1].ok /\ s[k + 1] \in Transaction
      BY <1>1, <1>4, <3>1
    <3>3. Imitates(g[k], A, s[k + 1], g[k + 1])
      BY <3>1, <3>2, EntryImitated
    <3> QED BY <3>3 DEF Imitates
  <2>2. CASE ~(k + 1 <= n)
    BY <2>2
  <2> QED BY <2>1, <2>2
<1>7. \A k \in 0 .. n : Shape(g[k])
  <2>1. Nat \subseteq C
    <3> HIDE DEF C
    <3> QED BY <1>5, <1>6, NatSetInduction
  <2> QED BY <2>1
<1>8. ASSUME NEW k \in 1 .. n PROVE Placed(s[k]) /\ Imitates(g[k - 1], A, s[k], g[k])
  <2>1. k - 1 \in 0 .. n /\ k \in 0 .. n
    OBVIOUS
  <2>2. Shape(g[k - 1]) /\ g[k] = Simulate(g[k - 1], A, u, s[k], h) /\ g[k].ok /\ s[k] \in Transaction
    BY <1>1, <1>4, <1>7, <2>1
  <2> QED BY <2>2, EntryImitated
<1>9. Imitating(g, A, n, s)
  BY <1>1, <1>4, <1>7, <1>8 DEF Imitating
<1> QED BY <1>1, <1>9

-----------------------------------------------------------------------------
(* get_address                                                             *)

\* The positions of the entries that u has signed, among the first k.
Signing(s, u, k) == {i \in 1 .. k : s[i].signer = u}

\* Entry k + 1 is one more of u, or none.
LEMMA SigningCounts ==
  ASSUME NEW s, NEW u, NEW k \in Nat
  PROVE  /\ IsFiniteSet(Signing(s, u, k)) /\ Cardinality(Signing(s, u, k)) \in Nat
         /\ Cardinality(Signing(s, u, 0)) = 0
         /\ Cardinality(Signing(s, u, k + 1)) =
              Cardinality(Signing(s, u, k)) + IF s[k + 1].signer = u THEN 1 ELSE 0
<1>1. IsFiniteSet(1 .. k)
  BY FS_Interval
<1>2. PICK P, Q : P = Signing(s, u, k) /\ Q = Signing(s, u, k + 1)
  OBVIOUS
<1>3. IsFiniteSet(P) /\ Cardinality(P) \in Nat
  <2>1. P \subseteq 1 .. k
    BY <1>2 DEF Signing
  <2> QED BY <1>1, <2>1, FS_Subset, FS_CardinalityType
<1>4. Signing(s, u, 0) = {}
  BY DEF Signing
<1>5. Cardinality(Signing(s, u, 0)) = 0
  BY <1>4, FS_EmptySet
<1>6. CASE s[k + 1].signer = u
  <2>1. Q = P \cup {k + 1} /\ k + 1 \notin P
    BY <1>2, <1>6 DEF Signing
  <2>2. Cardinality(Q) = Cardinality(P) + 1
    BY <1>3, <2>1, FS_AddElement
  <2> QED BY <1>2, <1>3, <1>5, <1>6, <2>2
<1>7. CASE s[k + 1].signer # u
  <2>1. Q = P
    BY <1>2, <1>7 DEF Signing
  <2>2. Cardinality(Q) = Cardinality(P) + 0
    BY <1>3, <2>1
  <2> QED BY <1>2, <1>3, <1>5, <1>7, <2>2
<1> QED BY <1>6, <1>7

\* validateMempoolTx counts the entries that the account has signed.
LEMMA NonceImitated ==
  ASSUME NEW g, NEW A, NEW n \in Nat, NEW s, Imitating(g, A, n, s), NEW u \in Users, u \in A,
         led.nonce[u] \in Nat
  PROVE  g[n].nonce[u] = led.nonce[u] + Cardinality(Signing(s, u, n))
<1> DEFINE N == {k \in Nat : k <= n => g[k].nonce[u] = led.nonce[u] + Cardinality(Signing(s, u, k))}
<1>1. 0 \in N
  <2>1. Cardinality(Signing(s, u, 0)) = 0 /\ g[0] = led
    BY SigningCounts DEF Imitating
  <2> QED BY <2>1
<1>2. ASSUME NEW k \in Nat, k \in N PROVE k + 1 \in N
  <2>1. CASE k + 1 <= n
    <3>1. k + 1 \in 1 .. n /\ (k + 1) - 1 = k /\ k <= n
      BY <2>1
    <3>2. PICK c, d, x : /\ c = Cardinality(Signing(s, u, k)) /\ d = Cardinality(Signing(s, u, k + 1))
                         /\ x = IF s[k + 1].signer = u THEN 1 ELSE 0
      OBVIOUS
    <3>3. c \in Nat /\ d = c + x
      BY <3>2, SigningCounts
    <3>4. g[k].nonce[u] = led.nonce[u] + c
      BY <1>2, <3>1, <3>2
    <3>5. Imitates(g[k], A, s[k + 1], g[k + 1])
      BY <3>1 DEF Imitating
    <3>6. g[k + 1].nonce[u] = g[k].nonce[u] + IF u = s[k + 1].signer /\ u \in A THEN 1 ELSE 0
      BY <3>5 DEF Imitates
    <3>7. g[k + 1].nonce[u] = g[k].nonce[u] + x
      BY <3>2, <3>6
    <3>8. x \in Nat
      BY <3>2
    <3>9. g[k + 1].nonce[u] = led.nonce[u] + d
      BY <3>3, <3>4, <3>7, <3>8
    <3> QED BY <3>2, <3>9
  <2>2. CASE ~(k + 1 <= n)
    BY <2>2
  <2> QED BY <2>1, <2>2
<1>3. n \in N
  <2>1. Nat \subseteq N
    <3> HIDE DEF N
    <3> QED BY <1>1, <1>2, NatSetInduction
  <2> QED BY <2>1
<1> QED BY <1>3

\* The balance that get_address gives, entry by entry.
LEMMA BalanceWalks ==
  ASSUME NEW u, NEW s, NEW n \in Nat, DOMAIN s = 1 .. n, s = Entries
  PROVE  \E m : /\ m[0] = led.bal[u] /\ m[n] = GetAddress(u).MempoolBalance
                /\ \A k \in 1 .. n : m[k] = (m[k - 1] - Spent(u, s[k]) + Received(u, s[k])) % Uint64
<1>0. PICK L : L = led.bal[u]
  OBVIOUS
<1> DEFINE Is(f) == f = [t \in SUBSET DOMAIN s |->
                           IF t = {} THEN L
                           ELSE (f[t \ {Max(t)}] - Spent(u, s[Max(t)]) + Received(u, s[Max(t)])) % Uint64]
<1>1. \A f : Is(f) <=> Choosing(f, "balance", u, L, s)
  BY DEF Choosing, Turn
<1>2. PICK f : f = CHOOSE e : Is(e)
  OBVIOUS
<1>3. GetAddress(u).MempoolBalance = f[DOMAIN s]
  BY <1>0, <1>2 DEF GetAddress, FoldLeft, MapThenFoldSet
<1> HIDE DEF Is
<1>4. Is(f)
  BY <1>1, <1>2, ChoosingExists
<1>5. PICK m : Walk(m, "balance", u, L, s, n, GetAddress(u).MempoolBalance)
  BY <1>1, <1>3, <1>4, FoldWalks
<1> QED BY <1>0, <1>5 DEF Walk, Turn

\* The remainder of any integer.
LEMMA WrapsAround ==
  ASSUME NEW y \in Int, NEW b \in Nat \ {0}
  PROVE  y % b \in 0 .. b - 1 /\ \E z \in Int : y = z * b + (y % b)
<1>1. y \div b \in Int /\ y % b \in 0 .. b - 1
  OBVIOUS
<1>2. y = b * (y \div b) + (y % b)
  OBVIOUS
<1>3. PICK z \in Int : z = y \div b
  BY <1>1
<1>4. b * z = z * b
  OBVIOUS
<1> QED BY <1>1, <1>2, <1>3, <1>4

\* Balance x differs from what get_address makes of it by a multiple of 2^64.
Congruent(x, y) ==
  /\ x \in Nat /\ y \in Int /\ (y = x \/ y \in 0 .. Uint64 - 1)
  /\ \E z \in Int : x = z * Uint64 + y

\* A payment out of x, and one into it, with the wrap of get_address.
LEMMA CongruentStep ==
  ASSUME NEW x, NEW y, Congruent(x, y), NEW p \in Nat, NEW q \in Nat, p <= x
  PROVE  Congruent((x - p) + q, (y - p + q) % Uint64)
<1>1. PICK b \in Nat \ {0} : b = Uint64
  BY WalletAssumption
<1>2. PICK z \in Int : x = z * b + y
  BY <1>1 DEF Congruent
<1>3. x \in Nat /\ y \in Int
  BY DEF Congruent
<1>4. PICK v \in Int : v = y - p + q
  BY <1>3
<1>5. PICK w \in Int : v = w * b + (v % b)
  BY <1>4, WrapsAround
<1>6. v % b \in 0 .. b - 1
  BY <1>4, WrapsAround
<1>7. PICK r \in Int : r = v % b
  BY <1>6
<1>8. (z + w) * b = z * b + w * b /\ z * b \in Int /\ w * b \in Int
  OBVIOUS
<1>9. (x - p) + q = (z + w) * b + r
  BY <1>2, <1>3, <1>4, <1>5, <1>7, <1>8
<1>10. (x - p) + q \in Nat /\ z + w \in Int
  BY <1>3
<1> QED BY <1>1, <1>4, <1>6, <1>7, <1>9, <1>10 DEF Congruent

\* What get_address shows is at most the balance: a difference is at least 2^64.
LEMMA CongruentBelow ==
  ASSUME NEW x, NEW y, Congruent(x, y)
  PROVE  y <= x
<1>1. PICK b \in Nat \ {0} : b = Uint64
  BY WalletAssumption
<1>2. PICK z \in Int : x = z * b + y
  BY <1>1 DEF Congruent
<1>3. x \in Nat /\ y \in Int /\ (y = x \/ y \in 0 .. b - 1)
  BY <1>1 DEF Congruent
<1>4. CASE y = x
  BY <1>3, <1>4
<1>5. CASE y \in 0 .. b - 1
  <2>1. CASE z < 0
    <3>1. PICK c \in Nat : c = -z - 1
      BY <2>1
    <3>2. z = -(c + 1) /\ c * b \in Nat
      BY <3>1
    <3>3. z * b = -(c * b) - b
      BY <3>2
    <3> QED BY <1>2, <1>3, <1>5, <3>2, <3>3
  <2>2. CASE z >= 0
    <3>1. z * b \in Nat
      BY <2>2
    <3> QED BY <1>2, <1>3, <3>1
  <2> QED BY <2>1, <2>2
<1> QED BY <1>3, <1>4, <1>5

\* The two balances of u that the node computes differ by a multiple of 2^64.
LEMMA BalanceImitated ==
  ASSUME NEW g, NEW A, NEW n \in Nat, NEW s, Imitating(g, A, n, s), NEW u \in Users, u \in A,
         led.bal[u] \in Nat, \A k \in 1 .. n : s[k] \in Transaction, NEW m, m[0] = led.bal[u],
         \A k \in 1 .. n : m[k] = (m[k - 1] - Spent(u, s[k]) + Received(u, s[k])) % Uint64
  PROVE  Congruent(g[n].bal[u], m[n])
<1>0. u \in Addresses
  BY DEF Addresses
<1> DEFINE N == {k \in Nat : k <= n => Congruent(g[k].bal[u], m[k])}
<1>1. 0 \in N
  <2>1. g[0].bal[u] = m[0] /\ m[0] \in Nat
    BY DEF Imitating
  <2>2. PICK x \in Nat : x = m[0]
    BY <2>1
  <2>3. 0 * Uint64 = 0
    BY WalletAssumption
  <2>4. x = 0 * Uint64 + x
    BY <2>3
  <2>5. Congruent(x, x)
    BY <2>4 DEF Congruent
  <2> QED BY <2>1, <2>2, <2>5
<1>2. ASSUME NEW k \in Nat, k \in N PROVE k + 1 \in N
  <2>1. CASE k + 1 <= n
    <3>1. k + 1 \in 1 .. n /\ (k + 1) - 1 = k /\ k <= n
      BY <2>1
    <3>2. PICK e \in Transaction : e = s[k + 1]
      BY <3>1
    <3>3. Placed(e) /\ Imitates(g[k], A, e, g[k + 1])
      BY <3>1, <3>2 DEF Imitating
    <3>4. PICK p, q : p = Sends(e, u) /\ q = Gets(e, u)
      OBVIOUS
    <3>5. p \in Nat /\ q \in Nat /\ p = Spent(u, e) /\ q = Received(u, e)
      <4>1. Input(e).amount \in Nat
        BY <3>3, TxParts
      <4>2. q = Received(u, e) /\ q \in Nat
        BY <3>3, <3>4, ReceivedIs
      <4> QED BY <3>4, <4>1, <4>2 DEF Sends, Spent
    <3>6. g[k + 1].bal[u] = (g[k].bal[u] - p) + q
      BY <1>0, <3>3, <3>4 DEF Imitates
    <3>7. Congruent(g[k].bal[u], m[k])
      BY <1>2, <3>1
    <3>8. p <= g[k].bal[u]
      <4>1. CASE Input(e).from = u
        BY <3>3, <3>4, <4>1 DEF Imitates, Sends
      <4>2. CASE Input(e).from # u
        BY <3>4, <3>7, <4>2 DEF Sends, Congruent
      <4> QED BY <4>1, <4>2
    <3>9. m[k + 1] = (m[k] - p + q) % Uint64
      BY <3>1, <3>2, <3>5
    <3>10. Congruent((g[k].bal[u] - p) + q, (m[k] - p + q) % Uint64)
      BY <3>5, <3>7, <3>8, CongruentStep
    <3> QED BY <3>6, <3>9, <3>10
  <2>2. CASE ~(k + 1 <= n)
    BY <2>2
  <2> QED BY <2>1, <2>2
<1>3. n \in N
  <2>1. Nat \subseteq N
    <3> HIDE DEF N
    <3> QED BY <1>1, <1>2, NatSetInduction
  <2> QED BY <2>1
<1> QED BY <1>3

\* As many entries of u as there are nonces: none is left over for one more.
LEMMA NoSpareNonce ==
  ASSUME NEW s, NEW u, NEW n \in Nat, NEW b \in Nat, NEW c \in Nat, c = Cardinality(Signing(s, u, n)),
         \A x \in b + 1 .. b + c + 1 : \E i \in Signing(s, u, n) : s[i].nonce = x
  PROVE  FALSE
<1>1. PICK P : P = Signing(s, u, n)
  OBVIOUS
<1>2. IsFiniteSet(P) /\ c = Cardinality(P)
  BY <1>1, SigningCounts
<1> DEFINE T == b + 1 .. b + c + 1
           f == [i \in P |-> IF s[i].nonce \in T THEN s[i].nonce ELSE b + 1]
<1>3. f \in [P -> T]
  BY <1>1
<1>4. \A x \in T : \E i \in P : f[i] = x
  BY <1>1
<1>5. f \in Surjection(P, T)
  <2> HIDE DEF f, T
  <2> QED BY <1>3, <1>4 DEF Surjection
<1>6. Cardinality(T) <= Cardinality(P)
  <2> HIDE DEF f, T
  <2> QED BY <1>2, <1>5, FS_Surjection
<1>7. Cardinality(T) = c + 1
  <2>1. b + 1 \in Int /\ b + c + 1 \in Int /\ ~(b + 1 > b + c + 1) /\ (b + c + 1) - (b + 1) + 1 = c + 1
    OBVIOUS
  <2> QED BY <2>1, FS_Interval
<1> QED BY <1>2, <1>6, <1>7

\* The input of an entry is its signer's, except that of an unstake.
LEMMA InputIs ==
  ASSUME NEW e \in Transaction, Placed(e), NEW u \in Users, ~(e.kind = "unstake" /\ e.signer = u)
  PROVE  Input(e).from = u <=> e.signer = u
<1>1. e.kind \in {"transfer", "register", "set", "stake", "unstake"}
  BY DEF Transaction
<1>2. CASE e.kind = "unstake"
  <2>1. Input(e).from = DelegateAddr[e.delegate] /\ e.delegate \in DelegateIds
    BY <1>2 DEF Input, Placed
  <2>2. DelegateAddr[e.delegate] # u
    BY <2>1, AddrAssumption
  <2> QED BY <1>2, <2>1, <2>2
<1>3. CASE e.kind # "unstake"
  BY <1>1, <1>3 DEF Input
<1> QED BY <1>2, <1>3

\* The ledger's part and the pool's part of the invariant give what PaymentTaken says.
LEMMA InvPays == PoolInv /\ SupplyInv => PaymentTaken
<1> SUFFICES ASSUME PoolInv, SupplyInv, mode = "main",
                    NEW u \in Users, NEW to \in Users \ {u}, NEW amount \in Nat,
                    NEW tx \in CreateTransaction(u, to, amount),
                    ~(tx \in known /\ ((\A i \in DOMAIN pool : pool[i].tx # tx) \/ Missing(u, tx))),
                    ~(\E i \in DOMAIN pool : pool[i].tx.kind = "unstake" /\ pool[i].tx.signer = u),
                    EntriesApply(u, to)
             PROVE  SubmitTx(tx)
  BY DEF PaymentTaken
<1>1. /\ tx = Transfer(u, to, amount) /\ Input(tx).amount <= GetAddress(u).MempoolBalance
      /\ Input(tx) = [from |-> u, amount |-> amount + Fee]
      /\ tx.kind = "transfer" /\ tx.signer = u /\ tx.nonce = GetAddress(u).MempoolNonce + 1
  BY DEF CreateTransaction, checkAndSignTx, Transfer, Input
<1>2. Affected(tx) = {u, to}
  <2>1. Outputs(tx) = << [to |-> to, amount |-> amount, pos |-> 0] >>
    BY <1>1 DEF Outputs, Transfer
  <2>2. PICK o : Outputs(tx) = <<o>> /\ o.to = to
    BY <2>1
  <2>3. {Outputs(tx)[i].to : i \in DOMAIN Outputs(tx)} = {to}
    BY <2>2
  <2> QED BY <1>1, <2>3 DEF Affected
<1>3. Accounts(led)
  BY BookedAccounts DEF SupplyInv, LedgerInv, Chained
<1>4. u \in Addresses /\ led.bal[u] \in Nat /\ led.nonce[u] \in Nat /\ Shape(led)
  BY <1>3 DEF Accounts, Addresses
<1>5. Waiting(pool, known, chain)
  BY DEF PoolInv
<1>6. PICK n \in Nat : DOMAIN pool = 1 .. n /\ \A i \in 1 .. n : pool[i].tx \in known /\ pool[i].tx \in Transaction
  <2>1. PICK p, T : p = pool /\ T = [tx : known, expired : BOOLEAN]
    OBVIOUS
  <2>2. p \in Seq(T) /\ known \subseteq Transaction
    BY <1>5, <2>1 DEF Waiting
  <2>3. PICK n \in Nat : DOMAIN p = 1 .. n /\ \A i \in 1 .. n : p[i] \in T
    BY <2>2
  <2>4. \A i \in 1 .. n : p[i].tx \in known /\ p[i].tx \in Transaction
    BY <2>1, <2>2, <2>3
  <2> QED BY <2>1, <2>3, <2>4
<1>7. PICK s : s = Entries
  OBVIOUS
<1>8. DOMAIN s = 1 .. n /\ \A i \in 1 .. n : s[i] = pool[i].tx /\ s[i] \in Transaction
  BY <1>6, <1>7 DEF Entries
<1>9. PICK A, h, S : A = {u, to} /\ h = topHeight + 1 /\ S = Imitation(A, u, h, s)
  OBVIOUS
<1>10. S.ok
  <2>1. EntriesApply(u, to) = Imitation({u, to}, u, topHeight + 1, Entries).ok
    BY DEF EntriesApply, Imitation
  <2> QED BY <1>7, <1>9, <2>1
<1>11. PICK g : g[n] = S /\ Imitating(g, A, n, s)
  BY <1>4, <1>8, <1>9, <1>10, AllImitated
<1>12. PICK c : c = Cardinality(Signing(s, u, n))
  OBVIOUS
<1>13. c \in Nat
  BY <1>12, SigningCounts
<1>14. S.nonce[u] = led.nonce[u] + c
  BY <1>4, <1>9, <1>11, <1>12, NonceImitated
<1>15. GetAddress(u).MempoolNonce = led.nonce[u] + c
  <2>1. ASSUME NEW i \in 1 .. n PROVE Input(pool[i].tx).from = u <=> s[i].signer = u
    <3>1. Placed(s[i])
      BY <1>11 DEF Imitating
    <3>2. ~(s[i].kind = "unstake" /\ s[i].signer = u)
      BY <1>6, <1>8
    <3> QED BY <1>8, <3>1, <3>2, InputIs
  <2>2. {i \in DOMAIN pool : Input(pool[i].tx).from = u} = Signing(s, u, n)
    BY <1>6, <2>1 DEF Signing
  <2> QED BY <1>12, <2>2 DEF GetAddress
<1>16. tx.nonce = S.nonce[u] + 1 /\ tx.nonce = led.nonce[u] + c + 1
  BY <1>1, <1>14, <1>15
<1>17. S.bal[u] >= amount + Fee
  <2>1. PICK m : /\ m[0] = led.bal[u] /\ m[n] = GetAddress(u).MempoolBalance
                 /\ \A k \in 1 .. n : m[k] = (m[k - 1] - Spent(u, s[k]) + Received(u, s[k])) % Uint64
    BY <1>7, <1>8, BalanceWalks
  <2>2. Congruent(g[n].bal[u], m[n])
    <3>1. u \in A /\ led.bal[u] \in Nat /\ Imitating(g, A, n, s) /\ m[0] = led.bal[u]
      BY <1>4, <1>9, <1>11, <2>1
    <3>2. \A k \in 1 .. n : s[k] \in Transaction
      BY <1>8
    <3>3. \A k \in 1 .. n : m[k] = (m[k - 1] - Spent(u, s[k]) + Received(u, s[k])) % Uint64
      BY <2>1
    <3> QED BY ONLY <3>1, <3>2, <3>3, n \in Nat, u \in Users, BalanceImitated
  <2>3. m[n] <= S.bal[u] /\ m[n] \in Int /\ S.bal[u] \in Nat
    BY <1>11, <2>2, CongruentBelow DEF Congruent
  <2>4. amount + Fee \in Nat /\ amount + Fee <= m[n]
    BY <1>1, <2>1, WalletAssumption
  <2> QED BY <2>3, <2>4
<1>18. tx \notin known
  <2> SUFFICES ASSUME tx \in known PROVE FALSE
    OBVIOUS
  <2>1. PICK j \in 1 .. n : s[j] = tx
    BY <1>6, <1>8
  <2>2. ~Missing(u, tx)
    OBVIOUS
  <2>3. PICK b \in Nat : b = led.nonce[u]
    BY <1>4
  <2>4. ASSUME NEW x \in b + 1 .. b + c + 1 PROVE \E i \in Signing(s, u, n) : s[i].nonce = x
    <3>1. CASE x = b + c + 1
      <4>1. s[j].signer = u /\ s[j].nonce = x
        BY <1>1, <1>16, <2>1, <2>3, <3>1
      <4> QED BY <4>1 DEF Signing
    <3>2. CASE x # b + c + 1
      <4>1. tx.nonce - 1 = b + c
        BY <1>13, <1>16, <2>3
      <4>2. x \in b + 1 .. b + c
        BY <1>13, <2>4, <3>2
      <4>3. x \in led.nonce[u] + 1 .. tx.nonce - 1
        BY <2>3, <4>1, <4>2
      <4>4. PICK i \in DOMAIN pool : pool[i].tx.signer = u /\ pool[i].tx.nonce = x
        BY <2>2, <4>3 DEF Missing
      <4>5. i \in 1 .. n /\ s[i].signer = u /\ s[i].nonce = x
        BY <1>6, <1>8, <4>4
      <4> QED BY <4>5 DEF Signing
    <3> QED BY <3>1, <3>2
  <2> QED BY <1>12, <1>13, <2>3, <2>4, NoSpareNonce
<1>19. \A i \in DOMAIN s : s[i] # tx
  BY <1>6, <1>8, <1>18
<1>20. Accepts(S, tx, h)
  BY <1>1, <1>10, <1>16, <1>17 DEF Accepts
<1>21. ValidateMempoolTx(tx, s, h) <=> (\A i \in DOMAIN s : s[i] # tx) /\ Accepts(Imitation(Affected(tx), tx.signer, h, s), tx, h)
  BY DEF ValidateMempoolTx, Imitation
<1>22. ValidateMempoolTx(tx, s, h)
  BY <1>1, <1>2, <1>9, <1>19, <1>20, <1>21
<1> QED BY <1>7, <1>9, <1>18, <1>22 DEF SubmitTx

\* Every step of the pool is one of the ledger, with blocks that only a registered
\* delegate signs: the supply follows the schedule here too.
LEMMA PoolSupplyStep ==
  ASSUME PoolInv, SupplyInv, [PoolNext]_poolVars
  PROVE  SupplyInv'
<1>1. Offered \subseteq AnyBlock /\ PoolOffered \subseteq AnyBlock
  BY PoolOfferedBlocks
<1>2. \A b \in PoolOffered : Signed(b)
  <2>1. \A b \in Offered : Signed(b)
    BY OfferedSigned
  <2>2. \A b \in AnyBlock : \A t : Signed(b) => Signed([b EXCEPT !.txs = t])
    BY DEF Signed, AnyBlock
  <2> QED BY <1>1, <2>1, <2>2 DEF PoolOffered, TemplateBlocks
<1>3. [SignedNext]_vars
  BY <1>1, <1>2 DEF PoolNext, poolVars, SignedNext, AddTransaction, GetBlockTemplate, Expire, ConnectBlock,
                    StoreAltchainBlock, DisconnectBlock, AbandonReorg, FinishReorg
<1> QED BY <1>3, SupplyAnyStep

\* The invariant of the pool and that of the supply hold together.
LEMMA PoolSupply == PoolSpec => [](PoolInv /\ SupplyInv)
<1>1. PoolInit => PoolInv /\ SupplyInv
  BY PoolInitInv, SupplyInit DEF PoolInit
<1>2. PoolInv /\ SupplyInv /\ [PoolNext]_poolVars => (PoolInv /\ SupplyInv)'
  BY PoolStep, PoolSupplyStep
<1> QED BY <1>1, <1>2, PTL DEF PoolSpec

\* What get_address tells a wallet is what validateMempoolTx will say of its payment,
\* with the exceptions that PaymentTaken names and no other.
THEOREM PaymentsTaken == PoolSpec => []PaymentTaken
BY PoolSupply, InvPays, PTL

\* Blocks made of the node's own templates keep the supply to the schedule.
THEOREM TemplatesKeepSupply == PoolSpec => []SupplyExact
BY PoolSupply, InvSupply, PTL

-----------------------------------------------------------------------------
(* GetBlockTemplate                                                        *)

\* Transfers and registrations: neither needs a fund or the choice of a delegate.
Payment(tx) == tx.kind \in {"transfer", "register"}

\* What one of them does to the delegates.
Enters(K, tx, M) ==
  M.dels = IF tx.kind = "register"
           THEN [K.dels EXCEPT ![tx.delegate] = [owner |-> tx.signer, funds |-> <<>>]]
           ELSE K.dels

\* The copies S are right about the accounts A of ledger J, and about the delegates.
Agree(S, J, A) ==
  /\ S.dels = J.dels
  /\ \A a \in Addresses : a \in A => S.bal[a] = J.bal[a]
  /\ \A v \in Users : v \in A => S.nonce[v] = J.nonce[v]

\* ApplyTxToState finds no error after its checks.
LEMMA PaymentApplied ==
  ASSUME NEW L, Accounts(L), L.ok, NEW h, NEW tx \in Transaction, Payment(tx), NEW top,
         TxValid(L, tx, top), NEW M, M = ApplyTxToState(L, h, tx, top)
  PROVE  M.ok /\ Enters(L, tx, M)
<1>1. PICK K : K = DelegateEffect(L, tx, top)
  OBVIOUS
<1>2. PICK spent : spent = [K EXCEPT !.nonce[tx.signer] = @ + 1,
                                     !.bal[Input(tx).from] = @ - Input(tx).amount]
  OBVIOUS
<1>3. M = ApplyTxOutputsToState(spent, h, Outputs(tx))
  BY <1>1, <1>2 DEF ApplyTxToState
<1>4. Shape(K) /\ K.ok = L.ok
  BY <1>1, EffectAccounts DEF Accounts
<1>5. Enters(L, tx, K)
  <2>1. CASE tx.kind = "register"
    <3>1. K = [L EXCEPT !.dels[tx.delegate] = [owner |-> tx.signer, funds |-> <<>>]]
      BY <1>1, <2>1 DEF DelegateEffect
    <3> QED BY <2>1, <3>1 DEF Enters, Accounts, Shape
  <2>2. CASE tx.kind = "transfer"
    <3>1. K = L
      BY <1>1, <2>2 DEF DelegateEffect
    <3> QED BY <2>2, <3>1 DEF Enters
  <2> QED BY <2>1, <2>2 DEF Payment
<1>6. Shape(spent) /\ spent.ok /\ spent.dels = K.dels
  BY <1>2, <1>4 DEF Shape
<1>7. Placed(tx) /\ tx.kind # "set"
  BY DEF Payment, Placed
<1>8. PICK o : Outputs(tx) = <<o>> /\ o.pos = 0
  BY <1>7, TxParts
<1>9. M = ApplyOutput(spent, h, o)
  BY <1>3, <1>8, PayOne
<1>10. M = [spent EXCEPT !.bal[o.to] = @ + o.amount, !.incoming[o.to] = @ + 1]
  BY <1>6, <1>8, <1>9 DEF ApplyOutput
<1>11. M.ok /\ M.dels = K.dels
  BY <1>6, <1>10 DEF Shape
<1> QED BY <1>5, <1>11 DEF Enters

\* validateMempoolTx does to the copies what ApplyTxToState does to the ledger.
LEMMA AgreeStep ==
  ASSUME NEW K, NEW J, NEW A, Agree(K, J, A), Accounts(J), NEW e \in Transaction, NEW M, NEW N,
         Imitates(K, A, e, M), Enters(K, e, M), Moves(J, e, N), Enters(J, e, N)
  PROVE  Agree(M, N, A)
<1>1. M.dels = N.dels
  BY DEF Agree, Enters
<1>2. ASSUME NEW a \in Addresses, a \in A PROVE M.bal[a] = N.bal[a]
  <2>1. M.bal[a] = (K.bal[a] - Sends(e, a)) + Gets(e, a)
    BY <1>2 DEF Imitates
  <2>2. N.bal[a] = (J.bal[a] - Sends(e, a)) + Gets(e, a)
    BY DEF Moves
  <2> QED BY <1>2, <2>1, <2>2 DEF Agree
<1>3. ASSUME NEW v \in Users, v \in A PROVE M.nonce[v] = N.nonce[v]
  <2>1. M.nonce[v] = K.nonce[v] + IF v = e.signer THEN 1 ELSE 0
    BY <1>3 DEF Imitates
  <2>2. N.nonce[v] = J.nonce[v] + IF v = e.signer THEN 1 ELSE 0
    <3>1. J.nonce \in [Users -> Nat] /\ N.nonce = [J.nonce EXCEPT ![e.signer] = @ + 1]
      BY DEF Accounts, Moves, Counted
    <3> QED BY <3>1
  <2> QED BY <1>3, <2>1, <2>2 DEF Agree
<1> QED BY <1>1, <1>2, <1>3 DEF Agree

\* A block's list of payments, imitated for A.
LEMMA ListAgrees ==
  ASSUME Accounts(led), NEW h, NEW top, NEW A, NEW u, NEW x, NEW m \in Nat,
         NEW r \in [1 .. m -> Transaction], \A k \in 1 .. m : Payment(r[k]),
         AfterTxs(led, h, r, top).ok, Imitation(A, u, x, r).ok
  PROVE  /\ Accounts(AfterTxs(led, h, r, top)) /\ Shape(Imitation(A, u, x, r))
         /\ Agree(Imitation(A, u, x, r), AfterTxs(led, h, r, top), A)
<1>1. PICK J, S : J = AfterTxs(led, h, r, top) /\ S = Imitation(A, u, x, r)
  OBVIOUS
<1>2. Accounts(J) /\ \E g : g[0] = led /\ g[m] = J /\ Through(g, r, m) /\ Applying(g, h, r, m, top)
  BY <1>1, AfterTxsMoves
<1>3. PICK j : j[0] = led /\ j[m] = J /\ Through(j, r, m) /\ Applying(j, h, r, m, top)
  BY <1>2
<1>4. DOMAIN r = 1 .. m /\ (\A k \in 1 .. m : r[k] \in Transaction) /\ Shape(led) /\ Imitation(A, u, x, r).ok
  BY DEF Accounts
<1>5. PICK f : /\ f[m] = Imitation(A, u, x, r) /\ Imitating(f, A, m, r)
               /\ \A k \in 1 .. m : f[k] = Simulate(f[k - 1], A, u, r[k], x)
  BY ONLY <1>4, m \in Nat, AllImitated
<1> DEFINE N == {k \in Nat : k <= m => Agree(f[k], j[k], A)}
<1>6. 0 \in N
  <2>1. f[0] = led
    BY <1>5 DEF Imitating
  <2> QED BY <1>3, <2>1 DEF Agree
<1>7. ASSUME NEW k \in Nat, k \in N PROVE k + 1 \in N
  <2>1. CASE k + 1 <= m
    <3>1. k + 1 \in 1 .. m /\ (k + 1) - 1 = k /\ k \in 0 .. m /\ k + 1 \in 0 .. m
      BY <2>1
    <3>2. PICK e \in Transaction : e = r[k + 1] /\ Payment(e)
      BY <3>1
    <3>3. f[k + 1] = Simulate(f[k], A, u, e, x) /\ Shape(f[k]) /\ f[k + 1].ok
      BY <1>5, <3>1, <3>2 DEF Imitating
    <3>4. Imitates(f[k], A, e, f[k + 1]) /\ Enters(f[k], e, f[k + 1])
      <4>1. /\ Imitates(f[k], A, e, f[k + 1])
            /\ e.kind = "transfer" => f[k + 1].dels = f[k].dels
            /\ e.kind = "register" => f[k + 1].dels = [f[k].dels EXCEPT ![e.delegate] = [owner |-> e.signer, funds |-> <<>>]]
        BY <3>3, EntryImitated
      <4> QED BY <3>2, <4>1 DEF Enters, Payment
    <3>5. j[k + 1] = ApplyTxToState(j[k], h, e, top) /\ j[k + 1].ok
      BY <1>3, <3>1, <3>2 DEF Applying
    <3>6. Accounts(j[k]) /\ Moves(j[k], e, j[k + 1])
      BY <1>3, <3>1, <3>2 DEF Through
    <3>7. j[k].ok /\ TxValid(j[k], e, top)
      <4>1. Shape(j[k]) /\ Refuse(j[k]).ok = FALSE
        BY <3>6, RefuseLike DEF Accounts
      <4> QED BY <3>5, <4>1 DEF ApplyTxToState
    <3>8. Enters(j[k], e, j[k + 1])
      BY <3>2, <3>5, <3>6, <3>7, PaymentApplied
    <3>9. Agree(f[k], j[k], A)
      BY <1>7, <3>1
    <3>10. Agree(f[k + 1], j[k + 1], A)
      BY <3>4, <3>6, <3>8, <3>9, AgreeStep
    <3> QED BY <3>10
  <2>2. CASE ~(k + 1 <= m)
    BY <2>2
  <2> QED BY <2>1, <2>2
<1>8. m \in N
  <2>1. Nat \subseteq N
    <3> HIDE DEF N
    <3> QED BY <1>6, <1>7, NatSetInduction
  <2> QED BY <2>1
<1>9. Agree(f[m], j[m], A) /\ Shape(f[m])
  BY <1>5, <1>8 DEF Imitating
<1> QED BY <1>1, <1>2, <1>3, <1>5, <1>9

\* What validateMempoolTx accepts passes the checks of ApplyTxToState.
LEMMA AcceptedValid ==
  ASSUME NEW S, NEW J, Accounts(J), NEW tx \in Transaction, Payment(tx), Agree(S, J, Affected(tx)),
         NEW x, Accepts(S, tx, x), NEW top
  PROVE  TxValid(J, tx, top)
<1>1. Placed(tx)
  BY DEF Payment, Placed
<1>2. tx.signer \in Users /\ Input(tx).from \in Addresses
  BY <1>1, TxParts
<1>3. tx.signer \in Affected(tx) /\ Input(tx).from \in Affected(tx)
  BY DEF Affected
<1>4. /\ tx.nonce = S.nonce[tx.signer] + 1 /\ S.bal[Input(tx).from] >= Input(tx).amount
      /\ tx.kind = "register" => ~Registered(S, tx.delegate)
  BY DEF Accepts
<1>5. /\ tx.nonce = J.nonce[tx.signer] + 1 /\ J.bal[Input(tx).from] >= Input(tx).amount
      /\ tx.kind = "register" => ~Registered(J, tx.delegate)
  BY <1>2, <1>3, <1>4 DEF Agree, Registered
<1> QED BY <1>5 DEF TxValid, Payment

\* Applying a list with one more transaction.
LEMMA AppendApplied ==
  ASSUME NEW L, NEW h, NEW top, NEW r \in Seq(Transaction), NEW tx \in Transaction
  PROVE  AfterTxs(L, h, Append(r, tx), top) = ApplyTxToState(AfterTxs(L, h, r, top), h, tx, top)
<1>1. PICK T : T = Transaction
  OBVIOUS
<1>2. PICK m \in Nat : m = Len(r)
  BY <1>1
<1>3. PICK b \in Seq(T) : b = Append(r, tx)
  BY <1>1, AppendIs
<1>4. /\ DOMAIN r = 1 .. m /\ DOMAIN b = 1 .. m + 1
      /\ b[m + 1] = tx /\ \A k \in 1 .. m : b[k] = r[k]
  BY <1>1, <1>2, <1>3
<1>5. PICK f : Forward(f, "apply", h, top, L, r, m, AfterTxs(L, h, r, top))
  BY <1>4, ApplyStates
<1>6. PICK n \in Nat : n = m + 1
  OBVIOUS
<1>7. PICK g : Forward(g, "apply", h, top, L, b, n, AfterTxs(L, h, b, top))
  BY <1>4, <1>6, ApplyStates
<1>8. /\ f[0] = L /\ f[m] = AfterTxs(L, h, r, top) /\ g[0] = L /\ g[n] = AfterTxs(L, h, b, top)
      /\ \A k \in 1 .. m : f[k] = ApplyTxToState(f[k - 1], h, r[k], top)
      /\ \A k \in 1 .. n : g[k] = ApplyTxToState(g[k - 1], h, b[k], top)
  BY <1>5, <1>7 DEF Forward, Step
<1> DEFINE N == {k \in Nat : k <= m => f[k] = g[k]}
<1>9. 0 \in N
  BY <1>8
<1>10. ASSUME NEW k \in Nat, k \in N PROVE k + 1 \in N
  <2>1. CASE k + 1 <= m
    <3>1. k + 1 \in 1 .. m /\ k + 1 \in 1 .. n /\ (k + 1) - 1 = k /\ f[k] = g[k]
      BY <1>6, <1>10, <2>1
    <3> QED BY <1>4, <1>8, <3>1
  <2>2. CASE ~(k + 1 <= m)
    BY <2>2
  <2> QED BY <2>1, <2>2
<1>11. m \in N
  <2>1. Nat \subseteq N
    <3> HIDE DEF N
    <3> QED BY <1>9, <1>10, NatSetInduction
  <2> QED BY <2>1
<1>12. n \in 1 .. n /\ n - 1 = m /\ b[n] = tx
  BY <1>4, <1>6
<1>13. f[m] = g[m]
  BY <1>11
<1>14. g[n] = ApplyTxToState(g[n - 1], h, b[n], top)
  BY <1>8, <1>12
<1>15. g[n] = ApplyTxToState(f[m], h, tx, top)
  BY <1>12, <1>13, <1>14
<1> HIDE DEF N
<1> QED BY <1>8, <1>3, <1>15

\* The ledger has no error, and neither has the one a reorganisation goes back to.
Sound == led.ok /\ (mode # "main" => saved[1].ok)

\* No step leaves an error behind: a block with one is dropped, and a reorganisation with it.
LEMMA SoundStep ==
  ASSUME Sound, [PoolNext]_poolVars
  PROVE  Sound'
<1>1. CASE UNCHANGED vars
  BY <1>1 DEF vars, Sound
<1>2. CASE \E b : AddMainchainBlock(b)
  BY <1>2 DEF AddMainchainBlock, Sound
<1>3. CASE \E b : ReapplyBlock(b)
  BY <1>3 DEF ReapplyBlock, Sound
<1>4. CASE UndoBlock
  <2>1. PICK L, c : L = led /\ c = chain
    OBVIOUS
  <2>2. led'.ok /\ saved' = IF mode = "main" THEN <<L, c>> ELSE saved
    BY <1>4, <2>1 DEF UndoBlock
  <2> QED BY <2>1, <2>2 DEF Sound
<1>5. CASE ReorgFails
  BY <1>5 DEF ReorgFails, Sound
<1>6. CASE SwitchTop
  BY <1>6 DEF SwitchTop, Sound
<1> QED BY <1>1, <1>2, <1>3, <1>4, <1>5, <1>6
        DEF PoolNext, poolVars, AddTransaction, GetBlockTemplate, Expire, ConnectBlock,
            StoreAltchainBlock, DisconnectBlock, AbandonReorg, FinishReorg

\* The template holds transfers and registrations only.
PaymentsOnly == \A i \in DOMAIN Template : Payment(Template[i])

\* By induction over the transactions chosen: each was accepted by copies that agree with
\* the ledger after the ones chosen before it.
LEMMA InvApplies == PoolInv /\ SupplyInv /\ Sound /\ PaymentsOnly => TemplateApplies
<1> SUFFICES ASSUME PoolInv, SupplyInv, Sound, PaymentsOnly, mode = "main"
             PROVE  AfterTxs(led, Height + 1, Template, topHeight).ok
  BY DEF TemplateApplies, AfterTxs
<1>1. Accounts(led)
  BY BookedAccounts DEF SupplyInv, LedgerInv, Chained
<1>2. PICK T, h, top : T = Transaction /\ h = Height + 1 /\ top = topHeight
  OBVIOUS
<1>3. PICK s : s = [i \in DOMAIN pool |-> pool[i].tx]
  OBVIOUS
<1>4. PICK n \in Nat : s \in Seq(T) /\ n = Len(s) /\ DOMAIN s = 1 .. n
  <2>1. PICK p, R : p = pool /\ R = [tx : known, expired : BOOLEAN]
    OBVIOUS
  <2>2. p \in Seq(R) /\ known \subseteq T
    BY <1>2, <2>1 DEF PoolInv, Waiting
  <2>3. PICK n \in Nat : DOMAIN p = 1 .. n /\ \A i \in 1 .. n : p[i] \in R
    BY <2>2
  <2>4. s = [i \in 1 .. n |-> p[i].tx] /\ \A i \in 1 .. n : p[i].tx \in T
    BY <1>3, <2>1, <2>2, <2>3
  <2>5. s \in Seq(T) /\ Len(s) = n /\ DOMAIN s = 1 .. n
    BY <2>4
  <2> QED BY <2>5
<1>5. PICK g : Chosen(g, "template", {}, s, n, Template)
  BY <1>3, <1>4, TemplateLists
<1>6. /\ g[0] = <<>> /\ g[n] = Template
      /\ \A k \in 1 .. n : \/ g[k] = g[k - 1]
                           \/ /\ ValidateMempoolTx(s[k], g[k - 1], top + 1)
                              /\ g[k] = Append(g[k - 1], s[k])
  BY <1>2, <1>5 DEF Chosen, Takes
<1> DEFINE C == {k \in Nat : k <= n => g[k] \in Seq(T)}
<1>7. 0 \in C
  <2>1. <<>> \in Seq(T)
    OBVIOUS
  <2> QED BY <1>6, <2>1
<1>8. ASSUME NEW k \in Nat, k \in C PROVE k + 1 \in C
  <2>1. CASE k + 1 <= n
    <3>1. k + 1 \in 1 .. n /\ (k + 1) - 1 = k /\ g[k] \in Seq(T)
      BY <1>8, <2>1
    <3>2. PICK a \in Seq(T), x \in T : a = g[k] /\ x = s[k + 1]
      BY <1>4, <3>1
    <3>3. Append(a, x) \in Seq(T)
      BY AppendIs
    <3>4. g[k + 1] = a \/ g[k + 1] = Append(a, x)
      BY <1>6, <3>1, <3>2
    <3>5. g[k + 1] \in Seq(T)
      BY <3>3, <3>4
    <3> QED BY <3>5
  <2>2. CASE ~(k + 1 <= n)
    BY <2>2
  <2> QED BY <2>1, <2>2
<1>9. \A k \in 0 .. n : g[k] \in Seq(T)
  <2>1. Nat \subseteq C
    <3> HIDE DEF C
    <3> QED BY <1>7, <1>8, NatSetInduction
  <2> QED BY <2>1
<1> DEFINE Paying(r) == \A i \in 1 .. Len(r) : Payment(r[i])
           B == {k \in 0 .. n : Paying(g[k])}
<1>10. n \in B
  <2>1. PICK r \in Seq(T) : r = g[n]
    BY <1>9
  <2>2. DOMAIN r = 1 .. Len(r)
    OBVIOUS
  <2> QED BY <1>6, <2>1, <2>2 DEF PaymentsOnly
<1>11. ASSUME NEW k \in 1 .. n, k \in B PROVE k - 1 \in B
  <2>1. k - 1 \in 0 .. n /\ k \in 0 .. n
    OBVIOUS
  <2>2. PICK a \in Seq(T), x \in T : a = g[k - 1] /\ x = s[k]
    BY <1>4, <1>9, <2>1
  <2>3. Paying(Append(a, x)) => Paying(a)
    <3>1. PICK m \in Nat : m = Len(a) /\ Len(Append(a, x)) = m + 1 /\ \A i \in 1 .. m : Append(a, x)[i] = a[i]
      BY AppendIs
    <3>2. \A i \in 1 .. m : i \in 1 .. m + 1
      OBVIOUS
    <3> QED BY <3>1, <3>2
  <2>4. g[k] = a \/ g[k] = Append(a, x)
    BY <1>6, <2>2
  <2> HIDE DEF Paying
  <2> QED BY <1>11, <2>1, <2>2, <2>3, <2>4
<1>12. \A k \in 0 .. n : Paying(g[k])
  <2>1. 0 .. n \subseteq B
    <3> HIDE DEF B
    <3> QED BY <1>10, <1>11, BackInduction
  <2> QED BY <2>1
<1> HIDE DEF C, B
<1> DEFINE N == {k \in Nat : k <= n => AfterTxs(led, h, g[k], top).ok}
<1>13. 0 \in N
  <2>1. PICK e : e = g[0]
    OBVIOUS
  <2>2. DOMAIN e = 1 .. 0
    BY <1>6, <2>1
  <2>3. PICK f : Forward(f, "apply", h, top, led, e, 0, AfterTxs(led, h, e, top))
    BY <2>2, ApplyStates
  <2>4. AfterTxs(led, h, e, top) = led
    BY <2>3 DEF Forward
  <2> QED BY <2>1, <2>4 DEF Sound
<1>14. ASSUME NEW k \in Nat, k \in N PROVE k + 1 \in N
  <2>1. CASE k + 1 <= n
    <3>1. k + 1 \in 1 .. n /\ (k + 1) - 1 = k /\ k \in 0 .. n /\ k + 1 \in 0 .. n
      BY <2>1
    <3>2. PICK a \in Seq(T) : a = g[k]
      BY <1>9, <3>1
    <3>3. PICK x \in T : x = s[k + 1]
      BY <1>4, <3>1
    <3>4. AfterTxs(led, h, a, top).ok
      BY <1>14, <3>1, <3>2
    <3>5. CASE g[k + 1] = a
      BY <3>4, <3>5
    <3>6. CASE ValidateMempoolTx(x, a, top + 1) /\ g[k + 1] = Append(a, x)
      <4>1. PICK S, J : S = Imitation(Affected(x), x.signer, top + 1, a) /\ J = AfterTxs(led, h, a, top)
        OBVIOUS
      <4>2. Accepts(S, x, top + 1)
        BY <3>6, <4>1 DEF ValidateMempoolTx, Imitation
      <4>3. S.ok
        BY <4>2 DEF Accepts
      <4>4. PICK m \in Nat : m = Len(a) /\ a \in [1 .. m -> T] /\ \A i \in 1 .. m : Payment(a[i])
        <5>1. PICK m \in Nat : m = Len(a) /\ a \in [1 .. m -> T]
          OBVIOUS
        <5>2. Paying(a)
          BY <1>12, <3>1, <3>2
        <5> QED BY <5>1, <5>2
      <4>5. Payment(x)
        <5>1. PICK b : b = Append(a, x)
          OBVIOUS
        <5>2. Len(b) = m + 1 /\ b[m + 1] = x
          BY <4>4, <5>1
        <5>3. Paying(b)
          BY <1>12, <3>1, <3>6, <5>1
        <5>4. m + 1 \in 1 .. Len(b)
          BY <5>2
        <5> QED BY <5>2, <5>3, <5>4
      <4>6. a \in [1 .. m -> Transaction] /\ x \in Transaction /\ a \in Seq(Transaction)
        BY <1>2, <4>4
      <4>7. Accounts(J) /\ Agree(S, J, Affected(x))
        BY <1>1, <3>4, <4>1, <4>3, <4>4, <4>6, ListAgrees
      <4>8. TxValid(J, x, top)
        BY <4>2, <4>5, <4>6, <4>7, AcceptedValid
      <4>9. PICK M : M = ApplyTxToState(J, h, x, top)
        OBVIOUS
      <4>10. M.ok
        BY <3>4, <4>1, <4>5, <4>6, <4>7, <4>8, <4>9, PaymentApplied
      <4>11. AfterTxs(led, h, Append(a, x), top) = M
        BY <4>1, <4>6, <4>9, AppendApplied
      <4>12. AfterTxs(led, h, g[k + 1], top).ok
        BY <3>6, <4>10, <4>11
      <4> QED BY <4>12
    <3>7. g[k + 1] = a \/ (ValidateMempoolTx(x, a, top + 1) /\ g[k + 1] = Append(a, x))
      BY <1>6, <3>1, <3>2, <3>3
    <3> QED BY <3>5, <3>6, <3>7
  <2>2. CASE ~(k + 1 <= n)
    BY <2>2
  <2> QED BY <2>1, <2>2
<1>15. n \in N
  <2>1. Nat \subseteq N
    <3> HIDE DEF N
    <3> QED BY <1>13, <1>14, NatSetInduction
  <2> QED BY <2>1
<1> QED BY <1>2, <1>6, <1>15

\* A template of transfers and registrations makes a block that can be applied:
\* on any ledger, with any pool, and after any reorganisation, validateMempoolTx
\* accepts a transaction after those chosen before it only when ApplyTxToState does.
THEOREM TemplatesApply == PoolSpec => [](PaymentsOnly => TemplateApplies)
<1>1. PoolInit => Sound
  BY DEF PoolInit, Init, Sound
<1>2. Sound /\ [PoolNext]_poolVars => Sound'
  BY SoundStep
<1>3. PoolSpec => []Sound
  BY <1>1, <1>2, PTL DEF PoolSpec
<1> QED BY <1>3, PoolSupply, InvApplies, PTL
=============================================================================
