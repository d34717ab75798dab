SPECIFICATION FairSpec
CONSTANTS
  Blocks <- MCBlocks
  Genesis = "g"
  NoBlock = "none"
  Prev <- MCPrev
  Height <- MCHeight
  CumDiff <- MCCumDiff
  Contribution <- MCContribution
  Sound <- MCSound
INVARIANTS
  TypeOK
  MainChainConsistent
  NoHeavierBlock TipsNotBelow
  UndoStopsAtFork
  SyncNotBehind
PROPERTIES
  OnlyToHeavier
  LedgerLIFO
  AddBlockEnds
  ImplementsForkChoice
