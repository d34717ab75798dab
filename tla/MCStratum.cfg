SPECIFICATION Spec
CONSTANTS
  W = 4
  c1 = c1
  c2 = c2
  Conns = {c1, c2}
  Solo = Solo
  Peer = Peer
  None = None
  Nodes <- MCNodes
  STRATUM_JOBS_HISTORY = 2
  MaxTop = 2
  MaxMergeJobs = 1
  DifficultyW = 15
  DIFFICULTY_N = 120
  TargetTime = 150
  MIN_DIFFICULTY = 10
  SampleDiffs <- MCSampleDiffs
  SampleTimes <- MCSampleTimes
INVARIANTS TypeOK AcceptedPays ShareCounts SoloWoken MinerUpToDate Uint128Exact DifficultyResponds
PROPERTIES SolutionAnswered
CHECK_DEADLOCK FALSE
