CONSTANTS
  Users = {"main", "other"}
  Peers = {p1, p2}
  Environments <- AsUsed
SPECIFICATION FairSpec
INVARIANT EveryPeerIsNotified
CHECK_DEADLOCK FALSE
