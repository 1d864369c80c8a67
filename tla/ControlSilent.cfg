CONSTANTS
  Sessions = {s1}
  Environments <- Undisturbing
  SOFTBUS_AUTH_RETRIES = 1
SPECIFICATION PumpSpec
PROPERTIES AuthSettles
CHECK_DEADLOCK FALSE
