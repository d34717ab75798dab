----------------------------- MODULE MCMempool -----------------------------
(***************************************************************************)
(* User o registers a delegate, s makes payments, and the blocks of others *)
(* carry some of their transactions, or one that competes with them.       *)
(***************************************************************************)
EXTENDS Wallet

MCDelegateAddr == <<"d1">>

Tx(kind, signer, nonce, delegate, amount, prev) ==
  [kind |-> kind, signer |-> signer, nonce |-> nonce, delegate |-> delegate,
   amount |-> amount, prev |-> prev, fee |-> 25, to |-> "o"]

Pay1 == Tx("transfer", "s", 1, 0, 60, 0)
Pay2 == Tx("transfer", "s", 2, 0, 1, 0)
Other1 == Tx("transfer", "s", 1, 0, 300, 0)
Register == Tx("register", "o", 1, 1, 0, 0)
SetDelegate == Tx("set", "o", 2, 1, 0, 0)

MCSubmitted == {Pay1, Pay2, Register}
MCTxLists == {<<>>, <<Pay1, Pay2>>, <<Other1>>}

\* For stakes: a chain on which o has a delegate and a stake.
StakeTx == Tx("stake", "o", 3, 1, 100, 0)
UnstakeTx == Tx("unstake", "o", 4, 1, 60, 0)
MCStakeSubmitted == {UnstakeTx}
MCStakeTxLists == {<<>>, <<Register, SetDelegate, StakeTx>>}
=============================================================================
