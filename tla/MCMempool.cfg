SPECIFICATION PoolSpec
CONSTANTS
  Users = {"o", "s"}
  DelegateIds = {1}
  DelegateAddr <- MCDelegateAddr
  Nobody = "nobody"
  Gov = "gov"
  Burned = "burned"
  TxLists <- MCTxLists
  Submitted <- MCSubmitted
  BLOCK_REWARD = 1000
  REDUCTION_INTERVAL = 2
  REGISTER_DELEGATE_BURN = 50
  STAKE_UNLOCK_TIME = 2
  MINIDAG_ANCESTORS = 1
  MaxHeight = 3
  MaxUndo = 2
  MaxTipError = 1
  MaxBlockTxs = 2
  Fee = 25
  Uint64 = 1000000
INVARIANTS
  PoolTypeOK
  PoolIsPending
  TemplateApplies
  PaymentTaken
PROPERTY UndoneReturn
CHECK_DEADLOCK FALSE
