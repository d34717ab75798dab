SPECIFICATION Spec
CONSTANTS
  Users = {"o", "s"}
  DelegateIds = {1, 2}
  DelegateAddr <- MCDelegateAddr
  Nobody = "nobody"
  Gov = "gov"
  Burned = "burned"
  TxLists <- MCMixedTxLists
  BLOCK_REWARD = 1000
  REDUCTION_INTERVAL = 2
  REGISTER_DELEGATE_BURN = 50
  STAKE_UNLOCK_TIME = 2
  MINIDAG_ANCESTORS = 1
  MaxHeight = 4
  MaxUndo = 2
  MaxTipError = 1
INVARIANTS
  TypeOK
  SupplyExact
  NoReplay
  FundsDistinct
  UndoRestoresAccounts
PROPERTIES
  StakeAccounted
CHECK_DEADLOCK FALSE
