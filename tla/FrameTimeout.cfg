CONSTANTS
  Senders = {"accept", "pump"}
  Header = 2
  Chunk = 4
  Followed = {1, 2, 3}
  Environments <- TimedOut
SPECIFICATION FairSpec
INVARIANT WholeFramesInOrder
CHECK_DEADLOCK FALSE
