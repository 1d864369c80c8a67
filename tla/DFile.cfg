CONSTANTS
  Environments <- Anything
  DC_SEND_BUDGET = 2
  DC_CTRL_MAX_RETRIES = 1
  DFILE_MAX_ACK_ENTRIES = 2
SPECIFICATION Spec
INVARIANTS TypeOK SentMeansVerified ReceivedMeansSent AckedIsWritten NoGap OneResult
PROPERTY ImplementsTransfer
CHECK_DEADLOCK FALSE
