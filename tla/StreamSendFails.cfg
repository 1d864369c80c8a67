CONSTANTS
  Chunks <- OneChunk
  Senders = {"client", "server"}
  Faulty = {"client"}
  PhoneMayLeave = FALSE
  STREAM_CONNECT_MAX = 2
  ConnectResults = {"sent", "send failed"}
SPECIFICATION Spec
INVARIANTS FinMeansDelivered TxOkMeansAcked
CHECK_DEADLOCK FALSE
