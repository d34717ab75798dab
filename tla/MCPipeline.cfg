SPECIFICATION FairSpec
CONSTANTS
  Packets = {"b1", "b2", "again1"}
  NoPacket = "none"
  HeightOf <- MCHeightOf
  MayFail = {"again1"}
  Workers = {"w1", "w2"}
  Parallelism = 1
  TriggerSize = 1
  POSTPROCESS_SIZE = 2
  MayClose = TRUE
  MergeMining = TRUE
INVARIANTS
  TypeOK
  NoLostPacket
PROPERTIES
  EveryPacketJudged
  BatchStored
  ShutdownEnds
CHECK_DEADLOCK FALSE
