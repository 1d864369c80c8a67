CONSTANTS
  Users = {"main", "other"}
  Peers = {p1, p2}
  Environments <- SlowConnect
SPECIFICATION FairSpec
INVARIANT NoUseAfterEnd
CHECK_DEADLOCK FALSE
