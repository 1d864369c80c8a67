CONSTANTS
  Chunks <- EmptyFromDaemon
  Senders = {"client", "server"}
  Faulty = {}
  PhoneMayLeave = FALSE
  STREAM_CONNECT_MAX = 2
  ConnectResults = {"sent", "no peer"}
SPECIFICATION FairSpec
PROPERTY PhaseEndsUnlessLost
CHECK_DEADLOCK FALSE
