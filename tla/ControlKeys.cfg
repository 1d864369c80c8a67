CONSTANTS
  Sessions = {s1}
  Environments <- BothRetry
  SOFTBUS_AUTH_RETRIES = 1
SPECIFICATION Spec
INVARIANTS FailedHasNoKeys
CHECK_DEADLOCK FALSE
