CONSTANTS
  Environments <- AsCommented
  DC_SEND_BUDGET = 2
  DC_CTRL_MAX_RETRIES = 1
  DFILE_MAX_ACK_ENTRIES = 2
SPECIFICATION Spec
INVARIANTS CallbacksAreSet ErrorsAreReported PhaseIsOver
PROPERTIES DuplicateIsHarmless RstHitsItsTransfer
CHECK_DEADLOCK FALSE
