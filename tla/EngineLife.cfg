CONSTANTS
  Users = {"main", "other"}
  Peers = {p1, p2, p3}
  Environments <- AsUsed
SPECIFICATION FairSpec
INVARIANTS NoUseAfterEnd FreedWhenUnused ClosedOnce
PROPERTY CloseEnds
CHECK_DEADLOCK FALSE
