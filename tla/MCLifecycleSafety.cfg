SPECIFICATION Spec
CONSTANTS
  MaxIncarnations = 2
  Annotated = {FALSE}
  Outages = {"secret", "available"}
  DeleteOfMissingFails = TRUE
  MaxChanges = 1
  MaxFailures = 1
  MaxRestarts = 0
INVARIANTS
  TypeOK
  SessionProtected
  HubReadyProvisioned
  RestIsReady
  RestIsReleased
PROPERTIES
  FinalizerHonoured
  HubCreatedUnderFinalizer
\* Users, failures and restarts are bounded: the system comes to rest.
CHECK_DEADLOCK FALSE
