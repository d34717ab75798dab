SPECIFICATION FairSpec
CONSTANTS
  Packets = {"b1", "b2"}
  NoPacket = "none"
  HeightOf <- MCHeightOf
  MayFail = {}
  Workers = {"w1", "w2"}
  Parallelism = 1
  TriggerSize = 1
  POSTPROCESS_SIZE = 2
  MayClose = TRUE
  MergeMining = FALSE
PROPERTY ShutdownCompletes
CHECK_DEADLOCK FALSE
