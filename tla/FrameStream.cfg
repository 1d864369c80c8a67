CONSTANTS
  Senders = {"accept", "pump"}
  Header = 2
  Chunk = 4
  Followed = {1, 2, 3}
  Environments <- Streams
SPECIFICATION FairSpec
INVARIANTS WholeFramesInOrder NumbersGrow
PROPERTY FramesArrive
CHECK_DEADLOCK FALSE
