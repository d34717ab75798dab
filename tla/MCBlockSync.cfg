SPECIFICATION FairSpec
CONSTANTS
  Blocks <- MCBlocks
  Genesis = "g"
  NoBlock = "none"
  Prev <- MCPrev
  Height <- MCHeight
  CumDiff <- MCCumDiff
  Own = "b2"
  Peers = {"p"}
  PeerStart <- MCPeerStart
  PARALLEL_BLOCKS_DOWNLOAD = 1
  RetryAfter = 0
  MaxFaults = 1
INVARIANTS
  TypeOK
  TargetIsOneBlock
PROPERTY CatchesUp
CHECK_DEADLOCK FALSE
