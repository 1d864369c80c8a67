CONSTANTS
  Chunks <- OneChunk
  Senders = {"client", "server"}
  Faulty = {"client"}
  PhoneMayLeave = FALSE
  STREAM_CONNECT_MAX = 2
  ConnectResults = {"sent"}
SPECIFICATION FairSpec
PROPERTY PhaseEnds
CHECK_DEADLOCK FALSE
