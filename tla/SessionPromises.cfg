CONSTANTS
  Sessions = {s1, s2}
  DropsRunning = FALSE
SPECIFICATION Spec
INVARIANTS ClosedIsReported OpenedIsAlive StopReleases StopWaitsForClosed
CHECK_DEADLOCK FALSE
