CONSTANTS
  Users = {"main", "other"}
  Peers = {p1, p2}
  Environments <- LateCallbacks
SPECIFICATION FairSpec
INVARIANT NothingLeaks
CHECK_DEADLOCK FALSE
