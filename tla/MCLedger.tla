------------------------------ MODULE MCLedger ------------------------------
(***************************************************************************)
(* Two users for Ledger: o, who can register delegate 1 and stake, and s,  *)
(* who can stake with delegate 1 or open delegate 2.                       *)
(***************************************************************************)
EXTENDS Ledger

MCDelegateAddr == <<"d1", "d2">>

Fee == 25

Tx(kind, signer, nonce, delegate, amount, prev) ==
  [kind |-> kind, signer |-> signer, nonce |-> nonce, delegate |-> delegate,
   amount |-> amount, prev |-> prev, fee |-> Fee, to |-> "o"]

MCTxLists ==
  {<<>>,
   <<Tx("register", "o", 1, 1, 0, 0), Tx("set", "o", 2, 1, 0, 0), Tx("stake", "o", 3, 1, 100, 0)>>,
   <<Tx("set", "s", 1, 1, 0, 0), Tx("stake", "s", 2, 1, 150, 0)>>,
   <<Tx("transfer", "s", 1, 0, 60, 0)>>,
   <<Tx("register", "s", 1, 2, 0, 0), Tx("set", "s", 2, 2, 0, 0)>>,
   <<Tx("stake", "o", 4, 1, 100, 2)>>,
   <<Tx("unstake", "o", 4, 1, 60, 0)>>,
   <<Tx("unstake", "o", 4, 1, 100, 0)>>}

\* o opens delegate 1 and stakes with it; s stakes with it too.
OwnerStakes == <<Tx("register", "o", 1, 1, 0, 0), Tx("set", "o", 2, 1, 0, 0), Tx("stake", "o", 3, 1, 100, 0)>>
StakerStakes == <<Tx("set", "s", 1, 1, 0, 0), Tx("stake", "s", 2, 1, 150, 0)>>

\* For reorganisations: the lists that move stakes, and one delegate.
MCReorgTxLists == {<<>>, OwnerStakes, StakerStakes, <<Tx("unstake", "o", 4, 1, 60, 0)>>}

\* ... both stakes in one block, a second delegate with a transfer to the
\* address of the first, or a stake taken back whole.
MCMixedTxLists ==
  {<<>>, OwnerStakes, OwnerStakes \o StakerStakes,
   <<Tx("register", "s", 1, 2, 0, 0), Tx("set", "s", 2, 2, 0, 0),
     [Tx("transfer", "s", 3, 0, 60, 0) EXCEPT !.to = "d1"]>>,
   <<Tx("unstake", "o", 4, 1, 100, 0)>>}
=============================================================================
