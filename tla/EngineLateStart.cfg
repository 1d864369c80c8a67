CONSTANTS
  Users = {"main", "other"}
  Peers = {p1, p2}
  Environments <- LateStart
SPECIFICATION FairSpec
INVARIANT NoUseAfterEnd
CHECK_DEADLOCK FALSE
