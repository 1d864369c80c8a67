CONSTANTS
  Sessions = {s1, s2}
  Environments <- Undisturbing
  SOFTBUS_AUTH_RETRIES = 1
SPECIFICATION Spec
INVARIANTS InputsFollowPlay
CHECK_DEADLOCK FALSE
