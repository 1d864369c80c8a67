CONSTANTS
  Environments <- AckFails
  DC_SEND_BUDGET = 2
  DC_CTRL_MAX_RETRIES = 1
  DFILE_MAX_ACK_ENTRIES = 2
SPECIFICATION Spec
INVARIANT OneResult
CHECK_DEADLOCK FALSE
