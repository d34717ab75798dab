------------------------------- MODULE Mempool -------------------------------
(***************************************************************************)
(* The pool of transactions that wait for a block (blockchain/bc-txn.go,   *)
(* Mempool of bc-stats.go, the pool's part of ApplyBlockToState,           *)
(* RemoveBlockFromState and GetBlockTemplate), on top of Ledger.           *)
(*                                                                         *)
(* validateMempoolTx does not apply transactions to the ledger: it         *)
(* imitates what the entries before a transaction will do, on copies of    *)
(* the few accounts the transaction touches.  Simulate and Accepts follow  *)
(* that code, and the question is whether it agrees with ApplyTxToState.   *)
(***************************************************************************)
EXTENDS Ledger

CONSTANTS
  Submitted,      \* transactions that users hand to the node
  MaxBlockTxs     \* MAX_BLOCK_SIZE, counted in transactions

ASSUME PoolAssumption == MaxBlockTxs \in Nat \ {0} /\ Submitted \subseteq Transaction

VARIABLES
  pool,       \* Mempool.Entries: the transaction, and whether Expires has passed
  known,      \* Index.Tx: all transactions the database has
  savedPool   \* both of them, for a reorganisation that fails

poolVars == <<vars, pool, known, savedPool>>

Entry(tx) == [tx |-> tx, expired |-> FALSE]

\* The elements of a list which are in a set, in their order.
Kept(list, S) == FoldLeft(LAMBDA kept, x : IF x \in S THEN Append(kept, x) ELSE kept, <<>>, list)

\* Serialize, called by SetMempool, leaves out the entries that have expired.
SetMempool(entries) == Kept(entries, {e \in ToSet(entries) : ~e.expired})

\* DeleteEntry for each of the transactions.
DeleteEntries(entries, txs) == Kept(entries, {e \in ToSet(entries) : e.tx \notin ToSet(txs)})

-----------------------------------------------------------------------------
(* validateMempoolTx                                                       *)

\* The accounts whose state is copied: the rest of the ledger is not looked at.
Affected(tx) ==
  {tx.signer, Input(tx).from} \cup {Outputs(tx)[i].to : i \in DOMAIN Outputs(tx)}

\* What an entry does to the copied accounts.
SimulateAccounts(S, A, e) ==
  LET paid(a) == FoldLeft(LAMBDA sum, out : sum + IF out.to = a THEN out.amount ELSE 0,
                          0, Outputs(e))
      spent(a) == IF Input(e).from = a THEN Input(e).amount ELSE 0
  IN  [S EXCEPT
        !.ok = @ /\ (Input(e).from \in A => S.bal[Input(e).from] >= Input(e).amount),
        !.nonce = [u \in Users |-> S.nonce[u] + IF u = e.signer /\ u \in A THEN 1 ELSE 0],
        !.bal = [a \in Addresses |-> IF a \in A THEN S.bal[a] - spent(a) + paid(a) ELSE S.bal[a]]]

\* What a stake does to the copied delegate.  A new fund is given to the signer
\* of the transaction being validated, not to the entry's; and the lock is
\* counted from the next height.
SimulateStake(S, u, e, nextheight) ==
  LET funds == S.dels[e.delegate].funds
      unlock == nextheight + STAKE_UNLOCK_TIME
  IN  IF FundOf(funds, e.signer) = {}
      THEN [S EXCEPT
             !.ok = @ /\ Registered(S, e.delegate),
             !.dels[e.delegate].funds =
               Append(@, [owner |-> u, amount |-> e.amount, unlock |-> unlock])]
      ELSE LET i == Min(FundOf(funds, e.signer))
           IN  [S EXCEPT
                 !.ok = @ /\ Registered(S, e.delegate) /\ funds[i].unlock = e.prev,
                 !.dels[e.delegate].funds[i] =
                   [owner |-> e.signer, amount |-> @.amount + e.amount, unlock |-> unlock]]

\* What an unstake does: an emptied fund stays.
SimulateUnstake(S, e) ==
  LET funds == S.dels[e.delegate].funds
      enough == \E i \in FundOf(funds, e.signer) :
                  i = Min(FundOf(funds, e.signer)) /\ funds[i].amount >= e.amount
  IN  IF Registered(S, e.delegate) /\ enough
      THEN [S EXCEPT !.dels[e.delegate].funds[Min(FundOf(funds, e.signer))].amount = @ - e.amount]
      ELSE Refuse(S)

\* One entry before the transaction of signer u.  A set_delegate of any signer is
\* checked against, and written to, the account of u.
Simulate(S, A, u, e, nextheight) ==
  LET T == SimulateAccounts(S, A, e)
  IN  IF ~S.ok THEN S
      ELSE CASE e.kind = "register" -> [T EXCEPT !.dels[e.delegate] = [owner |-> e.signer, funds |-> <<>>]]
             [] e.kind = "stake"    -> SimulateStake(T, u, e, nextheight)
             [] e.kind = "unstake"  -> SimulateUnstake(T, e)
             [] e.kind = "set"      -> [T EXCEPT !.ok = @ /\ e.prev = T.delegate[u],
                                                 !.delegate[u] = e.delegate]
             [] OTHER               -> T

\* The checks at the end.
Accepts(S, tx, nextheight) ==
  LET u == tx.signer
      d == tx.delegate
      fundOf(k) == IF FundOf(S.dels[k].funds, u) = {}
                   THEN [owner |-> u, amount |-> 0, unlock |-> 0]
                   ELSE S.dels[k].funds[Min(FundOf(S.dels[k].funds, u))]
  IN  /\ S.ok
      /\ tx.nonce = S.nonce[u] + 1
      /\ S.bal[Input(tx).from] >= Input(tx).amount
      /\ tx.kind = "stake" => /\ Registered(S, d)
                              /\ FundOf(S.dels[d].funds, u) # {} => fundOf(d).unlock = tx.prev
                              /\ S.delegate[u] = d
      /\ tx.kind = "unstake" => /\ Registered(S, d)
                                /\ S.delegate[u] = d
                                /\ fundOf(d).amount # 0 \/ fundOf(d).unlock # 0
                                /\ fundOf(d).unlock <= nextheight
                                /\ fundOf(d).amount >= tx.amount
      /\ tx.kind = "register" => ~Registered(S, d)
      /\ tx.kind = "set" => /\ tx.prev = S.delegate[u]
                            /\ Registered(S, tx.prev) => FundOf(S.dels[tx.prev].funds, u) = {}
                            /\ Registered(S, d)

\* Mutant of ValidateMempoolTx: the entries before the transaction are not looked at.
ValidateAlone(tx, before, nextheight) == Accepts(led, tx, nextheight)

ValidateMempoolTx(tx, before, nextheight) ==
  /\ \A i \in DOMAIN before : before[i] # tx
  /\ Accepts(FoldLeft(LAMBDA S, e : Simulate(S, Affected(tx), tx.signer, e, nextheight),
                      led, before),
             tx, nextheight)

-----------------------------------------------------------------------------
(* GetBlockTemplate: the entries that fit and are accepted, in the pool's order.*)

Template ==
  LET txs == [i \in DOMAIN pool |-> pool[i].tx]
  IN  FoldLeft(LAMBDA chosen, tx :
                 IF Len(chosen) < MaxBlockTxs /\ ValidateMempoolTx(tx, chosen, topHeight + 1)
                 THEN Append(chosen, tx)
                 ELSE chosen,
               <<>>, txs)

-----------------------------------------------------------------------------
PoolInit ==
  /\ Init
  /\ pool = <<>>
  /\ known = {}
  /\ savedPool = <<>>

\* AddTransaction with mempool set, from a packet or the RPC.  The height was read
\* in an earlier transaction, and a block may have come in between.
AddTransaction(tx) ==
  /\ mode = "main"
  /\ tx \notin known
  /\ \E nextheight \in {topHeight, topHeight + 1} \ {0} :
       ValidateMempoolTx(tx, [i \in DOMAIN pool |-> pool[i].tx], nextheight)
  /\ pool' = SetMempool(Append(pool, Entry(tx)))
  /\ known' = known \cup {tx}
  /\ UNCHANGED <<vars, savedPool>>

\* GetBlockTemplate as NewStratumJob calls it, in a transaction that may write:
\* what is not in the template is taken out of the pool.
GetBlockTemplate ==
  /\ mode = "main"
  /\ Len(Template) # Len(pool)
  /\ pool' = SetMempool(Kept(pool, {e \in ToSet(pool) : e.tx \in ToSet(Template)}))
  /\ UNCHANGED <<vars, known, savedPool>>

\* The time of an entry is over.
Expire(i) ==
  /\ mode = "main"
  /\ ~pool[i].expired
  /\ pool' = [pool EXCEPT ![i].expired = TRUE]
  /\ UNCHANGED <<vars, known, savedPool>>

\* Mutant of ConnectBlock: the pool is not cleaned when a reorganisation applies a block.
ConnectBlockKeep(b) ==
  /\ AddMainchainBlock(b) \/ ReapplyBlock(b)
  /\ pool' = SetMempool(IF mode = "main" THEN DeleteEntries(pool, b.txs) ELSE pool)
  /\ known' = known \cup ToSet(b.txs)
  /\ UNCHANGED savedPool

\* Mutant of ConnectBlock: the transactions of the block are not stored.
ConnectBlockOnly(b) ==
  /\ AddMainchainBlock(b) \/ ReapplyBlock(b)
  /\ pool' = SetMempool(DeleteEntries(pool, b.txs))
  /\ UNCHANGED <<known, savedPool>>

\* A block applied to the ledger: executePostprocess has stored its transactions,
\* ApplyBlockToState takes them out of the pool.
ConnectBlock(b) ==
  /\ AddMainchainBlock(b) \/ ReapplyBlock(b)
  /\ pool' = SetMempool(DeleteEntries(pool, b.txs))
  /\ known' = known \cup ToSet(b.txs)
  /\ UNCHANGED savedPool

\* A block of another branch: only its transactions are stored.
StoreAltchainBlock(b) ==
  /\ mode = "main"
  /\ known' = known \cup ToSet(b.txs)
  /\ UNCHANGED <<vars, pool, savedPool>>

\* What a failing reorganisation goes back to.
SavePool == savedPool' = IF mode = "main" THEN <<pool, known>> ELSE savedPool

\* Mutant of DisconnectBlock: the block's transactions are not put back.
DisconnectBlockForget ==
  /\ UndoBlock
  /\ SavePool
  /\ UNCHANGED <<pool, known>>

\* RemoveBlockFromState puts the block's transactions back, at the end.
DisconnectBlock ==
  /\ UndoBlock
  /\ SavePool
  /\ LET txs == Kept(chain[Height].txs, ToSet(chain[Height].txs) \ {e.tx : e \in ToSet(pool)})
     IN  pool' = IF chain[Height].txs = <<>>
                 THEN pool
                 ELSE SetMempool(pool \o [i \in DOMAIN txs |-> Entry(txs[i])])
  /\ UNCHANGED known

\* The transaction is dropped, with what it did to the pool.
AbandonReorg ==
  /\ ReorgFails
  /\ pool' = savedPool[1] /\ known' = savedPool[2]
  /\ savedPool' = <<>>

FinishReorg ==
  /\ SwitchTop
  /\ savedPool' = <<>>
  /\ UNCHANGED <<pool, known>>

\* The blocks that others mine, and those made from the template, whose height
\* checkBlock refuses when TopHeight is wrong.
TemplateBlocks ==
  IF mode = "main" /\ topHeight # Height
  THEN {}
  ELSE {[b EXCEPT !.txs = Template] : b \in {c \in Offered : c.txs = <<>>}}

PoolOffered == Offered \cup TemplateBlocks

PoolNext ==
  \/ \E tx \in Submitted : AddTransaction(tx)
  \/ GetBlockTemplate
  \/ \E i \in DOMAIN pool : Expire(i)
  \/ \E b \in PoolOffered : ConnectBlock(b)
  \/ \E b \in Offered : StoreAltchainBlock(b)
  \/ DisconnectBlock
  \/ AbandonReorg
  \/ FinishReorg

PoolSpec == PoolInit /\ [][PoolNext]_poolVars

-----------------------------------------------------------------------------
(* Properties.                                                             *)

\* The transactions of the pool and of the main chain are all in the database, so
\* that the reads of GetTx in ApplyBlockToState, RemoveBlockFromState and
\* validateMempoolTx find them.
PoolTypeOK ==
  /\ pool \in Seq([tx : known, expired : BOOLEAN])
  /\ TxsOf(chain) \subseteq known
  /\ mode = "main" <=> savedPool = <<>>

\* What waits in the pool waits once, and is not in the main chain: no order of
\* blocks, branches, reorganisations (failed ones too) and expiry breaks this.
PoolIsPending ==
  /\ \A i, j \in DOMAIN pool : pool[i].tx = pool[j].tx => i = j
  /\ \A i \in DOMAIN pool : pool[i].tx \notin TxsOf(chain)

\* The transactions GetBlockTemplate chooses can be applied together: what
\* validateMempoolTx predicts of each is what ApplyTxToState does with it.
TemplateApplies ==
  mode = "main" =>
    FoldLeft(LAMBDA K, tx : ApplyTxToState(K, Height + 1, tx, topHeight), led, Template).ok

\* After a reorganisation the transactions of the abandoned blocks which the new
\* main chain does not have are back in the pool.
UndoneReturn ==
  [][FinishReorg => \A tx \in TxsOf(saved[2]) \ TxsOf(chain) :
                      \E i \in DOMAIN pool : pool[i].tx = tx]_poolVars
=============================================================================
