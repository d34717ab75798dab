SPECIFICATION FairSpec
CONSTANTS
  Hosts = {"a"}
  PeerIds = {"own", "other"}
  Self = "own"
  Bootstrap = {"a"}
  MaxConns = 3
  None = None
  P2P_CONNECTIONS = 1
  MAX_PEER_FAILURES = 0
  MaxFaults = 1
INVARIANTS
  TwoPerPeer
  TableOwned
PROPERTIES
  Settles
CHECK_DEADLOCK FALSE
