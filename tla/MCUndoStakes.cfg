SPECIFICATION Spec
CONSTANTS
  Users = {"o", "s"}
  DelegateIds = {1, 2}
  DelegateAddr <- MCDelegateAddr
  Nobody = "nobody"
  Gov = "gov"
  Burned = "burned"
  TxLists <- MCTxLists
  BLOCK_REWARD = 1000
  REDUCTION_INTERVAL = 2
  REGISTER_DELEGATE_BURN = 50
  STAKE_UNLOCK_TIME = 1
  MINIDAG_ANCESTORS = 1
  MaxHeight = 4
  MaxUndo = 0
  MaxTipError = 0
INVARIANT UndoRestoresStakes
CHECK_DEADLOCK FALSE
