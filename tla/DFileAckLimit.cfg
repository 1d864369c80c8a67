CONSTANTS
  Environments <- QuietTwoFiles
  DC_SEND_BUDGET = 2
  DC_CTRL_MAX_RETRIES = 1
  DFILE_MAX_ACK_ENTRIES = 1
SPECIFICATION FairSpec
PROPERTY TransfersEnd
CHECK_DEADLOCK FALSE
