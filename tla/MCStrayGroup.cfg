SPECIFICATION Spec
CONSTANTS
  Channels = {c1}
  Names = {h1}
  Stuck = {}
  None = None
  Threads = 2
  DeleteOfMissingFails = TRUE
  MaxChanges = 2
  MaxFaults = 0
INVARIANTS
  RemovedWithResources
\* Users, failures and restarts are bounded: the system comes to rest.
CHECK_DEADLOCK FALSE
