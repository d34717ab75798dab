SPECIFICATION PoolSpec
CONSTANTS
  Users = {"o", "s"}
  DelegateIds = {1}
  DelegateAddr <- MCDelegateAddr
  Nobody = "nobody"
  Gov = "gov"
  Burned = "burned"
  TxLists <- MCStakeTxLists
  Submitted <- MCStakeSubmitted
  BLOCK_REWARD = 1000
  REDUCTION_INTERVAL = 2
  REGISTER_DELEGATE_BURN = 50
  STAKE_UNLOCK_TIME = 2
  MINIDAG_ANCESTORS = 1
  MaxHeight = 4
  MaxUndo = 0
  MaxTipError = 0
  MaxBlockTxs = 2
  Fee = 25
  Uint64 = 1000000
INVARIANT TemplateApplies
CHECK_DEADLOCK FALSE
