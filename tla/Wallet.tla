------------------------------- MODULE Wallet -------------------------------
(***************************************************************************)
(* A wallet that pays: create_transaction and submit_transaction of the    *)
(* wallet's RPC (walletrpc.go), Refresh, Transfer and SubmitTx             *)
(* (wallet.go), and the node's answers get_address and submit_transaction  *)
(* (noderpc.go), on top of Mempool.                                        *)
(*                                                                         *)
(* The wallet keeps nothing that a Refresh does not replace, so it has no  *)
(* variable: what it would build and send now is a function of the state.  *)
(* get_address says what the waiting entries will leave of an account, as  *)
(* validateMempoolTx does, with code of its own.                           *)
(***************************************************************************)
EXTENDS Mempool

CONSTANTS
  Fee,      \* GetVirtualSize() * FEE_PER_BYTE_V2 of a payment
  Uint64    \* 2^64, scaled down

ASSUME WalletAssumption == Fee \in Nat /\ Uint64 \in Nat \ {0}

Entries == [i \in DOMAIN pool |-> pool[i].tx]

Spent(u, e) == IF Input(e).from = u THEN Input(e).amount ELSE 0
Received(u, e) ==
  FoldLeft(LAMBDA sum, out : sum + IF out.to = u THEN out.amount ELSE 0, 0, Outputs(e))

\* Mutant of GetAddress: the nonce of the last block, without the entries.
GetAddressCommitted(u) ==
  [MempoolBalance |-> FoldLeft(LAMBDA b, e : (b - Spent(u, e) + Received(u, e)) % Uint64,
                               led.bal[u], Entries),
   MempoolNonce |-> led.nonce[u]]

\* MempoolNonce counts the entries whose input is the account's: of an unstake
\* it is the delegate's.  The subtraction may wrap around.
GetAddress(u) ==
  [MempoolBalance |-> FoldLeft(LAMBDA b, e : (b - Spent(u, e) + Received(u, e)) % Uint64,
                               led.bal[u], Entries),
   MempoolNonce |-> led.nonce[u]
                      + Cardinality({i \in DOMAIN pool : Input(pool[i].tx).from = u})]

\* Refresh and Transfer.
Transfer(u, to, amount) ==
  [kind |-> "transfer", signer |-> u, nonce |-> GetAddress(u).MempoolNonce + 1, delegate |-> 0,
   amount |-> amount, prev |-> 0, fee |-> Fee, to |-> to]

\* The wallet refuses to sign what spends more than it has.
checkAndSignTx(u, tx) == Input(tx).amount <= GetAddress(u).MempoolBalance

\* create_transaction of the wallet's RPC: the transaction, or none.
CreateTransaction(u, to, amount) == {tx \in {Transfer(u, to, amount)} : checkAndSignTx(u, tx)}

\* The node's submit_transaction puts the transaction in the pool.  (For one
\* that it knows it answers the same, and does nothing.)
SubmitTx(tx) ==
  /\ tx \notin known
  /\ ValidateMempoolTx(tx, Entries, topHeight + 1)

-----------------------------------------------------------------------------

\* validateMempoolTx gets through the entries.
EntriesApply(u, to) ==
  FoldLeft(LAMBDA S, e : Simulate(S, {u, to}, u, e, topHeight + 1), led, Entries).ok

\* A payment of u that comes before tx has left the pool without a block.
Missing(u, tx) ==
  \E nonce \in led.nonce[u] + 1 .. tx.nonce - 1 :
    \A i \in DOMAIN pool : ~(pool[i].tx.signer = u /\ pool[i].tx.nonce = nonce)

\* A payment that the wallet builds now, be it of one coin or of everything it
\* has, is taken by the pool, whatever waits there and for however long: what
\* get_address tells the wallet (noderpc.go:454) is what validateMempoolTx
\* will say.  The exceptions are exact: an unstake of the wallet waits; an
\* entry waits that has become impossible; or the node knows the very same
\* transaction and says that it was accepted (bc-txn.go:26), because it has left
\* the pool, or because one before it has and get_address counts too few.
PaymentTaken ==
  mode = "main" =>
    \A u \in Users : \A to \in Users \ {u} :
      \A amount \in {1, GetAddress(u).MempoolBalance - Fee} \cap Nat :
        \A tx \in CreateTransaction(u, to, amount) :
          \/ SubmitTx(tx)
          \/ tx \in known /\ ((\A i \in DOMAIN pool : pool[i].tx # tx) \/ Missing(u, tx))
          \/ \E i \in DOMAIN pool : pool[i].tx.kind = "unstake" /\ pool[i].tx.signer = u
          \/ ~EntriesApply(u, to)
=============================================================================
