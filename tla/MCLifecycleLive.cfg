SPECIFICATION FairSpec
CONSTANTS
  MaxIncarnations = 1
  Annotated = {FALSE}
  Outages = {"available"}
  DeleteOfMissingFails = TRUE
  MaxChanges = 1
  MaxFailures = 0
  MaxRestarts = 1
PROPERTIES
  StatusConverges
  ReadyDeletionSettles
\* Users, failures and restarts are bounded: the system comes to rest.
CHECK_DEADLOCK FALSE
