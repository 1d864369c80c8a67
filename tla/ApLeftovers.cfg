CONSTANTS
  Sessions = {}
  DropsRunning = TRUE
  Restarts = FALSE
SPECIFICATION TransportSpec
INVARIANTS StopEndsHostapd StopRemovesRules StopEndsSupplicant GoneLeavesNothing StopRemovesInterface ServicesOnAddress
PROPERTY CreatedIsFound
CHECK_DEADLOCK FALSE
