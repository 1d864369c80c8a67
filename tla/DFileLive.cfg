CONSTANTS
  Environments <- CalmAndHarsh
  DC_SEND_BUDGET = 2
  DC_CTRL_MAX_RETRIES = 1
  DFILE_MAX_ACK_ENTRIES = 2
SPECIFICATION FairSpec
PROPERTY TransfersEnd
CHECK_DEADLOCK FALSE
