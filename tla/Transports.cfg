CONSTANTS
  Sessions = {s1, s2}
  DropsRunning = TRUE
  Restarts = FALSE
SPECIFICATION TransportSpec
INVARIANTS HoldersHaveReferences NeverJoinsItself OneThreadOwner JoinedIsReported
INVARIANTS StopUndoesStart ServicesOnInterface FailedStartServesNobody
PROPERTY ShutdownEnds
CHECK_DEADLOCK FALSE
