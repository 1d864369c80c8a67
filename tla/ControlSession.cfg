CONSTANTS
  Sessions = {s1, s2}
  Environments <- AllDisturbed
  SOFTBUS_AUTH_RETRIES = 1
SPECIFICATION FairSpec
INVARIANTS DoneIsMutual ControlAfterAuth InputAfterPlay
PROPERTIES SessionSettles
CHECK_DEADLOCK FALSE
