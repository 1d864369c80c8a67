CONSTANTS
  Chunks <- OneChunk
  Senders = {"server"}
  Faulty = {"client"}
  PhoneMayLeave = TRUE
  STREAM_CONNECT_MAX = 2
  ConnectResults = {"sent"}
SPECIFICATION Spec
PROPERTY FinIsAnswered
CHECK_DEADLOCK FALSE
