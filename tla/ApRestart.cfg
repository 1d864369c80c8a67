CONSTANTS
  Sessions = {}
  DropsRunning = TRUE
  Restarts = TRUE
SPECIFICATION TransportSpec
INVARIANT ServicesOnInterface
CHECK_DEADLOCK FALSE
