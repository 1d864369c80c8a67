CONSTANTS
  Chunks <- OneChunk
  Senders = {"client", "server"}
  Faulty = {"client"}
  PhoneMayLeave = TRUE
  STREAM_CONNECT_MAX = 2
  ConnectResults = {"sent"}
SPECIFICATION Spec
INVARIANTS TxOkMeansAcked FinAfterDrain
CHECK_DEADLOCK FALSE
