SPECIFICATION FairSpec
CONSTANTS
  Channels = {c1, c2}
  Names = {h1, h2}
  Stuck = {h2}
  None = None
  Threads = 2
  DeleteOfMissingFails = TRUE
  MaxChanges = 4
  MaxFaults = 1
INVARIANTS
  TypeOK
  HubReadyComplete
  SessionKeyed
  SessionOnOwnHub
  GroupsOwned
PROPERTIES
  HubsConverge
  DeletionEnds
\* Users, failures and restarts are bounded: the system comes to rest.
CHECK_DEADLOCK FALSE
