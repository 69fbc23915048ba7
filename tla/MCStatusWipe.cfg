SPECIFICATION FairSpec
CONSTANTS
  MaxIncarnations = 1
  Annotated = {FALSE}
  Outages = {}
  DeleteOfMissingFails = FALSE
  MaxChanges = 2
  MaxFailures = 0
  MaxRestarts = 0
PROPERTIES
  ReadyDeletionCompletes
\* Users, failures and restarts are bounded: the system comes to rest.
CHECK_DEADLOCK FALSE
