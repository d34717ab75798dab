------------------------------- MODULE Ledger -------------------------------
(***************************************************************************)
(* What a block does to balances, nonces, delegates and stakes, and how a  *)
(* reorganisation undoes it (blockchain/bc-stateadd.go, bc-staterm.go,     *)
(* staking.go, ApplyBlockToState and RemoveBlockFromState of               *)
(* blockchain.go, block/coinbase.go, block/reward.go).                     *)
(*                                                                         *)
(* Chain shows that blocks are applied and undone like a stack; here the   *)
(* stack is chain and every entry is a whole block.  A reorganisation is a *)
(* run of UndoBlock steps, a run of ReapplyBlock steps and one SwitchTop;  *)
(* all of it is one database transaction, dropped when a step fails.       *)
(***************************************************************************)
EXTENDS Integers, Sequences, SequencesExt, Functions

CONSTANTS
  Users,              \* addresses that sign transactions and mine
  DelegateIds,        \* ids a delegate may register, as numbers >= 1
  Nobody,             \* no owner: the delegate is not registered
  DelegateAddr,       \* DelegateAddr[d]: NewDelegateAddress of id d
  Gov,                \* address.GenesisAddress
  Burned,             \* address.INVALID_ADDRESS
  TxLists,            \* lists of transactions a block may carry
  BLOCK_REWARD,
  REDUCTION_INTERVAL,
  REGISTER_DELEGATE_BURN,
  STAKE_UNLOCK_TIME,
  MINIDAG_ANCESTORS,
  MaxHeight,          \* bound: height of the highest block
  MaxUndo,            \* bound: blocks undone by one reorganisation
  MaxTipError         \* bound: what the Height of a tip has more than its block

ASSUME LedgerAssumption ==
  /\ DelegateIds \subseteq Nat \ {0}
  /\ IsFiniteSet(Users) /\ IsFiniteSet(DelegateIds)
  /\ Nobody \notin Users
  /\ {BLOCK_REWARD, REGISTER_DELEGATE_BURN, STAKE_UNLOCK_TIME, MaxHeight, MaxUndo, MaxTipError} \subseteq Nat
  /\ {REDUCTION_INTERVAL, MINIDAG_ANCESTORS} \subseteq Nat \ {0}

\* An address made of a delegate's id is that of no other delegate, and no hash of a
\* public key: all but its last 8 bytes are zero.
ASSUME AddrAssumption ==
  \A d \in DelegateIds : /\ DelegateAddr[d] \notin Users \cup {Gov, Burned}
                         /\ \A e \in DelegateIds : DelegateAddr[e] = DelegateAddr[d] => e = d

VARIABLES
  led,        \* the ledger of the open transaction
  chain,      \* applied blocks above genesis, oldest first
  topHeight,  \* Stats.TopHeight
  mode,       \* "main", or the step of CheckReorgs: "undo", "redo"
  saved       \* what a failing reorganisation goes back to

vars == <<led, chain, topHeight, mode, saved>>

Addresses == Users \cup {Gov, Burned} \cup {DelegateAddr[d] : d \in DelegateIds}

Height == Len(chain)

\* A transaction of one of the five versions that passed Prevalidate; prev is the
\* previous unlock height of a stake, and the previous delegate of a set_delegate.
Transaction ==
  {tx \in [kind : {"transfer", "register", "set", "stake", "unstake"}, signer : Users, nonce : Nat,
           delegate : DelegateIds \cup {0}, amount : Nat, prev : Nat, fee : Nat, to : Addresses] :
     /\ tx.fee > 0
     /\ tx.kind = "register" => tx.delegate # 0
     /\ tx.kind = "stake" => tx.amount > 0
     /\ tx.kind = "unstake" => tx.fee <= tx.amount}

ASSUME TxAssumption == TxLists \subseteq Seq(Transaction)

TxsOf(blocks) == UNION {ToSet(blocks[i].txs) : i \in DOMAIN blocks}

-----------------------------------------------------------------------------
(* block/reward.go                                                         *)

\* reduce(BLOCK_REWARD, k)
Reduced[k \in Nat] == IF k = 0 THEN BLOCK_REWARD ELSE (Reduced[k - 1] * 9) \div 10

Reward(h) ==
  LET reductions == h \div REDUCTION_INTERVAL
  IN  IF reductions = 0 THEN BLOCK_REWARD ELSE Reduced[reductions - 1]

SupplyAtPhase[k \in Nat] ==
  IF k = 0
  THEN 0
  ELSE Reward(REDUCTION_INTERVAL * k - 1) * REDUCTION_INTERVAL + SupplyAtPhase[k - 1]

GetSupplyAtHeight(h) ==
  SupplyAtPhase[h \div REDUCTION_INTERVAL] + Reward(h) * ((h % REDUCTION_INTERVAL) + 1)

\* block/coinbase.go, version 1: 10% governance, half PoW, the rest PoS.  An
\* unsigned block burns the PoS share and a quarter of the PoW share.  Nothing is
\* no output for the staker and nothing to burn; the first two are always there.
CoinbaseTransaction(b, total) ==
  LET gov == (total * 10) \div 100
      pow == total \div 2
      pow2 == (pow * 3) \div 4
      rest == IF b.signed
              THEN [to |-> DelegateAddr[b.delegate], amount |-> total - pow - gov, pos |-> b.delegate]
              ELSE [to |-> Burned, amount |-> total - gov - pow2, pos |-> 0]
      toGov == [to |-> Gov, amount |-> gov, pos |-> 0]
      toMiner == [to |-> b.miner, amount |-> IF b.signed THEN pow ELSE pow2, pos |-> 0]
  IN  IF rest.amount # 0 THEN <<toGov, toMiner, rest>> ELSE <<toGov, toMiner>>

-----------------------------------------------------------------------------
(* Delegates and their funds.                                              *)

Registered(L, d) == d \in DelegateIds /\ L.dels[d].owner # Nobody

TotalAmount(funds) == FoldLeft(LAMBDA sum, f : sum + f.amount, 0, funds)

FundOf(funds, u) == {i \in DOMAIN funds : funds[i].owner = u}

\* ApplyStake adds to the owner's fund or opens one.  Undoing an unstake
\* (reverse) leaves the unlock height of an existing fund alone.
StakeValid(L, d, u, prevUnlock, reverse) ==
  /\ Registered(L, d)
  /\ \A i \in FundOf(L.dels[d].funds, u) :
       reverse \/ L.dels[d].funds[i].unlock = prevUnlock

Stake(L, d, u, amount, top, reverse) ==
  LET funds == L.dels[d].funds
      unlock == top + STAKE_UNLOCK_TIME
  IN  [L EXCEPT
        !.staked = @ + amount,
        !.dels[d].funds =
          IF FundOf(funds, u) = {}
          THEN Append(funds, [owner |-> u, amount |-> amount, unlock |-> unlock])
          ELSE [i \in DOMAIN funds |->
                  IF funds[i].owner = u
                  THEN [owner  |-> u,
                        amount |-> funds[i].amount + amount,
                        unlock |-> IF reverse THEN funds[i].unlock ELSE unlock]
                  ELSE funds[i]]]

\* ApplyUnstake takes from the owner's fund and closes an empty one.  Undoing
\* a stake (reverse) skips the lock and restores the unlock height.
UnstakeValid(L, d, u, amount, top, reverse) ==
  /\ Registered(L, d)
  /\ \E i \in FundOf(L.dels[d].funds, u) :
       /\ reverse \/ top >= L.dels[d].funds[i].unlock
       /\ L.dels[d].funds[i].amount >= amount
  /\ L.staked >= amount

\* Mutant of Unstake: an emptied fund is kept.
UnstakeKeepEmpty(L, d, u, amount, reverse, prevUnlock) ==
  LET i == CHOOSE i \in FundOf(L.dels[d].funds, u) : TRUE
  IN  [L EXCEPT !.staked = @ - amount, !.dels[d].funds[i].amount = @ - amount]

Unstake(L, d, u, amount, reverse, prevUnlock) ==
  LET funds == L.dels[d].funds
      i == Min(FundOf(funds, u))
      rest == [funds[i] EXCEPT !.amount = @ - amount,
                               !.unlock = IF reverse THEN prevUnlock ELSE @]
  IN  [L EXCEPT
        !.staked = @ - amount,
        !.dels[d].funds = IF rest.amount = 0 THEN RemoveAt(funds, i) ELSE [funds EXCEPT ![i] = rest]]

\* ApplyPosReward: the delegate as it is now is saved under the block, every
\* fund gets its share of 99% and the owner what is left over.
PosValid(L, d) == Registered(L, d) /\ TotalAmount(L.dels[d].funds) > 0

\* Mutant of PosReward: the whole reward goes to the first fund, and
\* StakedAmount is not told.
PosRewardUncounted(L, h, d, amount) ==
  [L EXCEPT !.history[h] = L.dels[d], !.dels[d].funds[1].amount = @ + amount]

\* What a fund gets of the reward, and what all of them get.
Share(f, total, amount) == (((f.amount * amount) \div 100) * 99) \div total

Shared(funds, amount) ==
  LET total == TotalAmount(funds)
  IN  FoldLeft(LAMBDA sum, f : sum + Share(f, total, amount), 0, funds)

PosReward(L, h, d, amount) ==
  LET funds == L.dels[d].funds
      owner == L.dels[d].owner
      total == TotalAmount(funds)
      added == Shared(funds, amount)
      grown == [i \in DOMAIN funds |->
                  [funds[i] EXCEPT !.amount =
                     @ + Share(funds[i], total, amount)
                       + IF funds[i].owner = owner THEN amount - added ELSE 0]]
  IN  [L EXCEPT
        !.staked = @ + amount,
        !.history[h] = L.dels[d],
        !.dels[d].funds =
          IF FundOf(funds, owner) = {}
          THEN Append(grown, [owner |-> owner, amount |-> amount - added, unlock |-> 0])
          ELSE grown]

\* RemovePosReward puts the saved delegate back.
UnposValid(L, h, d, amount) ==
  /\ Registered(L, d)
  /\ L.dels[d].funds # <<>>
  /\ L.history[h].owner = L.dels[d].owner
  /\ L.staked >= amount

RemovePosReward(L, h, d, amount) ==
  [L EXCEPT !.staked = @ - amount, !.dels[d] = L.history[h]]

\* GetStaker: the first delegate, in key order, at which coinIndex is reached.
Seen(L, d) ==
  SumFunctionOnSet([k \in DelegateIds |-> TotalAmount(L.dels[k].funds)],
                   {k \in DelegateIds : k <= d})

GetStaker(L, coinIndex) ==
  {d \in DelegateIds :
     /\ Registered(L, d)
     /\ coinIndex <= Seen(L, d)
     /\ \A k \in DelegateIds : k < d /\ Registered(L, k) => coinIndex > Seen(L, k)}

\* The stakers some block hash selects.  GetStaker is constant between two
\* values of Seen, so 0 and the coin after each delegate stand for all.
NextStakers(L) ==
  LET coins == {0} \cup {Seen(L, d) + 1 : d \in DelegateIds}
  IN  IF L.staked = 0
      THEN {0}
      ELSE UNION {GetStaker(L, c) : c \in coins \cap 0..(L.staked - 1)}

-----------------------------------------------------------------------------
(* Transactions.                                                           *)

\* StateInputs: every transaction has one.
Input(tx) ==
  CASE tx.kind = "register" -> [from |-> tx.signer, amount |-> REGISTER_DELEGATE_BURN + tx.fee]
    [] tx.kind = "set"      -> [from |-> tx.signer, amount |-> tx.fee]
    [] tx.kind = "unstake"  -> [from |-> DelegateAddr[tx.delegate], amount |-> tx.amount]
    [] OTHER                -> [from |-> tx.signer, amount |-> tx.amount + tx.fee]

\* StateOutputs.
Outputs(tx) ==
  CASE tx.kind = "transfer" -> << [to |-> tx.to, amount |-> tx.amount, pos |-> 0] >>
    [] tx.kind = "register" -> << [to |-> Burned, amount |-> REGISTER_DELEGATE_BURN, pos |-> 0] >>
    [] tx.kind = "set"      -> <<>>
    [] tx.kind = "stake"    -> << [to |-> DelegateAddr[tx.delegate], amount |-> tx.amount, pos |-> 0] >>
    [] tx.kind = "unstake"  -> << [to |-> tx.signer, amount |-> tx.amount - tx.fee, pos |-> 0] >>

Refuse(L) == [L EXCEPT !.ok = FALSE]

\* ApplyTxOutputsToState, for one of the outputs of the block at height h.
ApplyOutput(L, h, out) ==
  LET paid == [L EXCEPT !.bal[out.to] = @ + out.amount, !.incoming[out.to] = @ + 1]
  IN  IF ~L.ok THEN L
      ELSE IF out.pos = 0 THEN paid
      ELSE IF PosValid(paid, out.pos) THEN PosReward(paid, h, out.pos, out.amount)
      ELSE Refuse(L)

ApplyTxOutputsToState(L, h, outs) == FoldLeft(LAMBDA K, out : ApplyOutput(K, h, out), L, outs)

\* RemoveTxOutputsFromState.
RemoveOutput(L, h, out) ==
  LET taken == [L EXCEPT !.bal[out.to] = @ - out.amount, !.incoming[out.to] = @ - 1]
  IN  IF ~L.ok THEN L
      ELSE IF L.bal[out.to] < out.amount \/ L.incoming[out.to] = 0 THEN Refuse(L)
      ELSE IF out.pos = 0 THEN taken
      ELSE IF UnposValid(taken, h, out.pos, out.amount)
           THEN RemovePosReward(taken, h, out.pos, out.amount)
      ELSE Refuse(L)

RemoveTxOutputsFromState(L, h, outs) == FoldLeft(LAMBDA K, out : RemoveOutput(K, h, out), L, outs)

\* Mutant of TxValid: the sender's balance is not checked.
TxValidAnyBalance(L, tx, top) ==
  /\ tx.nonce = L.nonce[tx.signer] + 1
  /\ tx.kind = "register" => ~Registered(L, tx.delegate)
  /\ tx.kind = "set" => Registered(L, tx.delegate)
  /\ tx.kind = "stake" => StakeValid(L, tx.delegate, tx.signer, tx.prev, FALSE)
  /\ tx.kind = "unstake" => UnstakeValid(L, tx.delegate, tx.signer, tx.amount, top, FALSE)

\* The conditions ApplyTxToState checks.
TxValid(L, tx, top) ==
  LET u == tx.signer
      d == tx.delegate
  IN  /\ tx.nonce = L.nonce[u] + 1
      /\ tx.kind \in {"stake", "unstake"} => L.delegate[u] = d
      /\ tx.kind = "stake" => StakeValid(L, d, u, tx.prev, FALSE)
      /\ tx.kind = "unstake" => UnstakeValid(L, d, u, tx.amount, top, FALSE)
      /\ tx.kind = "register" => ~Registered(L, d)
      /\ tx.kind = "set" => /\ tx.prev = L.delegate[u]
                            /\ Registered(L, tx.prev) => FundOf(L.dels[tx.prev].funds, u) = {}
                            /\ Registered(L, d)
      /\ L.bal[Input(tx).from] >= Input(tx).amount

\* What ApplyTxToState does to the delegates.
DelegateEffect(L, tx, top) ==
  CASE tx.kind = "stake"    -> Stake(L, tx.delegate, tx.signer, tx.amount, top, FALSE)
    [] tx.kind = "unstake"  -> Unstake(L, tx.delegate, tx.signer, tx.amount, FALSE, 0)
    [] tx.kind = "register" -> [L EXCEPT !.dels[tx.delegate] = [owner |-> tx.signer, funds |-> <<>>]]
    [] tx.kind = "set"      -> [L EXCEPT !.delegate[tx.signer] = tx.delegate]
    [] OTHER                -> L

ApplyTxToState(L, h, tx, top) ==
  LET spent == [DelegateEffect(L, tx, top) EXCEPT
                  !.nonce[tx.signer] = @ + 1,
                  !.bal[Input(tx).from] = @ - Input(tx).amount]
  IN  IF L.ok /\ TxValid(L, tx, top)
      THEN ApplyTxOutputsToState(spent, h, Outputs(tx))
      ELSE Refuse(L)

\* The conditions RemoveTxFromState checks after giving back the inputs.
UntxValid(L, tx, top) ==
  LET u == tx.signer
      d == tx.delegate
  IN  /\ L.nonce[u] = tx.nonce
      /\ tx.kind \in {"stake", "unstake", "set"} => L.delegate[u] = d
      /\ tx.kind = "stake" => UnstakeValid(L, d, u, tx.amount, top, TRUE)
      /\ tx.kind = "unstake" => StakeValid(L, d, u, 0, TRUE)
      /\ tx.kind = "register" => Registered(L, d) /\ L.dels[d].funds = <<>>
      /\ tx.kind = "set" => Registered(L, d)

\* Mutant of DelegateUndo: set_delegate is not reverted.
DelegateUndoKeepChoice(L, tx, top) ==
  CASE tx.kind = "stake"    -> Unstake(L, tx.delegate, tx.signer, tx.amount, TRUE, tx.prev)
    [] tx.kind = "unstake"  -> Stake(L, tx.delegate, tx.signer, tx.amount, top, TRUE)
    [] tx.kind = "register" -> [L EXCEPT !.dels[tx.delegate] = [owner |-> Nobody, funds |-> <<>>]]
    [] OTHER                -> L

DelegateUndo(L, tx, top) ==
  CASE tx.kind = "stake"    -> Unstake(L, tx.delegate, tx.signer, tx.amount, TRUE, tx.prev)
    [] tx.kind = "unstake"  -> Stake(L, tx.delegate, tx.signer, tx.amount, top, TRUE)
    [] tx.kind = "register" -> [L EXCEPT !.dels[tx.delegate] = [owner |-> Nobody, funds |-> <<>>]]
    [] tx.kind = "set"      -> [L EXCEPT !.delegate[tx.signer] = tx.prev]
    [] OTHER                -> L

\* Mutant of RemoveTxFromState: the signer's nonce is not decreased.
RemoveTxKeepNonce(L, h, tx, top) ==
  LET unpaid == RemoveTxOutputsFromState(L, h, Outputs(tx))
  IN  DelegateUndo([unpaid EXCEPT !.bal[Input(tx).from] = @ + Input(tx).amount], tx, top)

\* Mutant of RemoveTxFromState: inputs are given back, outputs stay.
RemoveTxKeepOutputs(L, h, tx, top) ==
  LET refunded == [L EXCEPT !.bal[Input(tx).from] = @ + Input(tx).amount]
  IN  [DelegateUndo(refunded, tx, top) EXCEPT !.nonce[tx.signer] = @ - 1]

\* The error of RemoveTxOutputsFromState is not looked at: outputs that could
\* not be removed stay.
RemoveTxFromState(L, h, tx, top) ==
  LET unpaid == RemoveTxOutputsFromState(L, h, Outputs(tx))
      refunded == [unpaid EXCEPT !.ok = L.ok, !.bal[Input(tx).from] = @ + Input(tx).amount]
  IN  IF L.ok /\ UntxValid(refunded, tx, top)
      THEN [DelegateUndo(refunded, tx, top) EXCEPT !.nonce[tx.signer] = @ - 1]
      ELSE Refuse(L)

-----------------------------------------------------------------------------
(* Blocks.                                                                 *)

TotalReward(b, h) == Reward(h) + FoldLeft(LAMBDA sum, tx : sum + tx.fee, 0, b.txs)

ApplyBlockToState(L, h, b, top) ==
  LET afterTxs == FoldLeft(LAMBDA K, tx : ApplyTxToState(K, h, tx, top), L, b.txs)
  IN  IF b.next \in NextStakers(L)
      THEN ApplyTxOutputsToState(afterTxs, h, CoinbaseTransaction(b, TotalReward(b, h)))
      ELSE Refuse(L)

\* Transactions are undone first, last one first, then the coinbase.
RemoveBlockFromState(L, h, b, top) ==
  LET withoutTxs == FoldRight(LAMBDA tx, K : RemoveTxFromState(K, h, tx, top), b.txs, L)
  IN  RemoveTxOutputsFromState(withoutTxs, h, CoinbaseTransaction(b, TotalReward(b, h)))

\* checkBlock: the delegate was chosen MINIDAG_ANCESTORS blocks ago, and only
\* a registered delegate can sign, when something is staked.
StakeCheck(L, h, b) ==
  /\ b.delegate = IF h > MINIDAG_ANCESTORS THEN chain[h - MINIDAG_ANCESTORS].next ELSE 0
  /\ b.signed => L.staked > 0 /\ Registered(L, b.delegate)

Block == [miner : Users, txs : TxLists, delegate : DelegateIds \cup {0},
          next : DelegateIds \cup {0}, signed : BOOLEAN]

\* The blocks that can be put on top of the chain.
Candidates(L, h) ==
  {b \in [miner : Users, txs : TxLists, signed : BOOLEAN, next : NextStakers(L),
          delegate : {IF h > MINIDAG_ANCESTORS THEN chain[h - MINIDAG_ANCESTORS].next ELSE 0}] :
     StakeCheck(L, h, b)}

-----------------------------------------------------------------------------

\* addGenesis: a version 0 block, all of its reward goes to Gov.
Init ==
  /\ led = [ok       |-> TRUE,
            bal      |-> [a \in Addresses |-> IF a = Gov THEN Reward(0) ELSE 0],
            incoming |-> [a \in Addresses |-> IF a = Gov THEN 2 ELSE 0],
            nonce    |-> [u \in Users |-> 0],
            delegate |-> [u \in Users |-> 0],
            dels     |-> [d \in DelegateIds |-> [owner |-> Nobody, funds |-> <<>>]],
            staked   |-> 0,
            history  |-> [h \in 1..MaxHeight |-> [owner |-> Nobody, funds |-> <<>>]]]
  /\ chain = <<>>
  /\ topHeight = 0
  /\ mode = "main"
  /\ saved = <<>>

\* addMainchainBlock; a block that fails to apply leaves no trace.
AddMainchainBlock(b) ==
  /\ mode = "main"
  /\ led' = ApplyBlockToState(led, Height + 1, b, topHeight)
  /\ led'.ok
  /\ chain' = Append(chain, b)
  /\ topHeight' = Height + 1
  /\ UNCHANGED <<mode, saved>>

\* The blocks undone so far.
Undone == IF mode = "undo" THEN Len(saved[2]) - Height ELSE 0

\* CheckReorgs, step 2.  TopHeight keeps the height of the old main chain.
UndoBlock ==
  /\ mode \in {"main", "undo"}
  /\ Height > 0
  /\ Undone < MaxUndo
  /\ led' = RemoveBlockFromState(led, Height, chain[Height], topHeight)
  /\ led'.ok
  /\ chain' = Front(chain)
  /\ mode' = "undo"
  /\ saved' = IF mode = "main" THEN <<led, chain>> ELSE saved
  /\ UNCHANGED topHeight

\* Step 3.
ReapplyBlock(b) ==
  /\ mode \in {"undo", "redo"}
  /\ led' = ApplyBlockToState(led, Height + 1, b, topHeight)
  /\ led'.ok
  /\ chain' = Append(chain, b)
  /\ mode' = "redo"
  /\ UNCHANGED <<topHeight, saved>>

\* A failing step drops the transaction.
ReorgFails ==
  /\ mode \in {"undo", "redo"}
  /\ led' = saved[1]
  /\ chain' = saved[2]
  /\ mode' = "main"
  /\ saved' = <<>>
  /\ UNCHANGED topHeight

\* Step 4 and the commit.  TopHeight is the Height of the tip, and not that of the
\* block: addAltchainBlock may have counted the tip up once too often (run
\* tip_height; TipsNotBelow of Chain has that it is never too small).
SwitchTop ==
  /\ mode = "redo"
  /\ topHeight' \in Height .. Height + MaxTipError
  /\ mode' = "main"
  /\ saved' = <<>>
  /\ UNCHANGED <<led, chain>>

\* The blocks that can be offered next.
Offered == IF Height < MaxHeight THEN Candidates(led, Height + 1) ELSE {}

Next ==
  \/ \E b \in Offered : AddMainchainBlock(b)
  \/ \E b \in Offered : ReapplyBlock(b)
  \/ UndoBlock
  \/ ReorgFails
  \/ SwitchTop

Spec == Init /\ [][Next]_vars

-----------------------------------------------------------------------------
(* Properties.                                                             *)

Fund == [owner : Users, amount : Nat, unlock : Nat]
Delegate == [owner : Users \cup {Nobody}, funds : Seq(Fund)]

\* Every part of the ledger has its type: no balance, nonce, counter or fund
\* ever goes below zero, so none of the unsigned subtractions wraps.
TypeOK ==
  /\ led.ok = TRUE
  /\ led.bal \in [Addresses -> Nat]
  /\ led.incoming \in [Addresses -> Nat]
  /\ led.nonce \in [Users -> Nat]
  /\ led.delegate \in [Users -> DelegateIds \cup {0}]
  /\ led.dels \in [DelegateIds -> Delegate]
  /\ led.staked \in Nat
  /\ led.history \in [1..MaxHeight -> Delegate]
  /\ chain \in Seq(Block)
  /\ topHeight \in 0 .. MaxHeight + MaxTipError
  /\ mode \in {"main", "undo", "redo"}

\* After every committed block and every reorganisation the balances add up to
\* what the emission schedule has at the height of the top block.  CheckSupply
\* (blockchain.go:1194) compares them with the schedule at TopHeight, so it ends
\* the node only where a reorganisation took a wrong height from its tip.
SupplyExact ==
  mode = "main" => SumFunction(led.bal) = GetSupplyAtHeight(Height)

\* A block is put on the chain, as the new top or by a reorganisation.
Extends ==
  Len(chain') > Len(chain) /\ (mode = "main" \/ mode' = "redo")

\* What StakedAmount, from which GetStaker draws the next staker, has more
\* than all funds, and the address of a delegate more than its funds.
Unfunded(L) == L.staked - SumFunction([d \in DelegateIds |-> TotalAmount(L.dels[d].funds)])
Excess(L, d) == L.bal[DelegateAddr[d]] - TotalAmount(L.dels[d].funds)

\* What a transaction, and what a block, transfers to an address.
Given(tx, a) == IF tx.kind = "transfer" /\ tx.to = a THEN tx.amount ELSE 0
Donated(b, a) == FoldLeft(LAMBDA sum, tx : sum + Given(tx, a), 0, b.txs)

\* Stakes, unstakes and rewards of a block keep the funds, StakedAmount and
\* the delegates' balances in step (bc-stateadd.go:195, :250, :372): the
\* funds grow by what StakedAmount grows, and the address of a delegate by
\* what its funds grow and by what was transferred to it, to the last coin of
\* a reward.  What they add up to only stops agreeing when a reorganisation
\* undoes a block (undo_stakes).
StakeAccounted ==
  [][Extends =>
       /\ Unfunded(led') = Unfunded(led)
       /\ \A d \in DelegateIds :
            Excess(led', d) = Excess(led, d) + Donated(chain'[Len(chain')], DelegateAddr[d])]_vars

\* A delegate never has two funds of one owner, nor an empty fund that keeps
\* a lock alive.
FundsDistinct ==
  \A d \in DelegateIds :
    LET funds == led.dels[d].funds
    IN  /\ \A i, j \in DOMAIN funds : funds[i].owner = funds[j].owner => i = j
        /\ \A i \in DOMAIN funds : funds[i].amount > 0

\* No transaction takes effect twice on one chain: along the chain the
\* transactions of each signer carry the nonces 1, 2, ... LastNonce.
NoReplay ==
  /\ \A i, j \in DOMAIN chain : \A k \in DOMAIN chain[i].txs, l \in DOMAIN chain[j].txs :
       /\ chain[i].txs[k].signer = chain[j].txs[l].signer
       /\ i < j \/ (i = j /\ k < l)
       => chain[i].txs[k].nonce < chain[j].txs[l].nonce
  /\ \A u \in Users : {tx.nonce : tx \in {x \in TxsOf(chain) : x.signer = u}} = 1 .. led.nonce[u]

\* Applying a block on this ledger and undoing it at once, with the
\* TopHeight each of the two sees.
RoundTrip(b) ==
  LET up == ApplyBlockToState(led, Height + 1, b, topHeight)
  IN  RemoveBlockFromState(up, Height + 1, b, Height + 1)

Applicable ==
  {b \in Offered : /\ mode = "main"
                  /\ ApplyBlockToState(led, Height + 1, b, topHeight).ok}

\* RemoveBlockFromState can undo every block the node can apply, and gives
\* back balances, counters, nonces and delegate choices exactly.
UndoRestoresAccounts ==
  \A b \in Applicable :
    LET back == RoundTrip(b)
    IN  /\ back.ok
        /\ back.bal = led.bal
        /\ back.incoming = led.incoming
        /\ back.nonce = led.nonce
        /\ back.delegate = led.delegate

\* RemoveBlockFromState also gives back what every user has staked with every
\* delegate, and the staked amount.
UndoRestoresStakes ==
  \A b \in Applicable :
    LET back == RoundTrip(b)
        stakeOf(L, d, u) == TotalAmount(SelectSeq(L.dels[d].funds, LAMBDA f : f.owner = u))
    IN  /\ back.staked = led.staked
        /\ \A d \in DelegateIds, u \in Users : stakeOf(back, d, u) = stakeOf(led, d, u)

\* An unstake is never in a block earlier than STAKE_UNLOCK_TIME blocks after
\* the block of a stake of the same signer with the same delegate.
StakeHeld ==
  \A g, h \in DOMAIN chain :
    \A in \in ToSet(chain[g].txs), out \in ToSet(chain[h].txs) :
      /\ in.kind = "stake" /\ out.kind = "unstake"
      /\ in.signer = out.signer /\ in.delegate = out.delegate
      /\ g < h
      => h - g >= STAKE_UNLOCK_TIME
=============================================================================
