CONSTANTS
  Sessions = {s1}
  Environments <- PhoneRepeats
  SOFTBUS_AUTH_RETRIES = 1
SPECIFICATION Spec
INVARIANTS FurtherRepliesIgnored
CHECK_DEADLOCK FALSE
