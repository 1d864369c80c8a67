CONSTANTS
  Chunks <- EmptyFromPhone
  Senders = {"client", "server"}
  Faulty = {"client"}
  PhoneMayLeave = FALSE
  STREAM_CONNECT_MAX = 2
  ConnectResults = {"sent"}
SPECIFICATION Spec
INVARIANTS ReceivedIsReported
CHECK_DEADLOCK FALSE
