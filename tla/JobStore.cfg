SPECIFICATION MCSpec
CONSTANTS
  p1 = p1
  p2 = p2
  j1 = j1
  j2 = j2
  Null = Null
  Procs <- Pair
  Jobs <- Two
  Limit <- Limits
  MaxChecks = 1
INVARIANTS TypeOK OneWorker NoCircularWait
PROPERTIES StartsAreAsked CancelStops
\* Every job may have used up its attempts, and every process may have died.
CHECK_DEADLOCK FALSE
