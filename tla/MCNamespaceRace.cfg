SPECIFICATION FairSpec
CONSTANTS
  Channels = {c1, c2}
  Threads = 2
  Images = {i1}
  MaxIncarnations = 1
  MaxChanges = 0
  MaxFailures = 1
  None = None
INVARIANTS
  RestIsTruthful
PROPERTIES
  Converges
\* Users, failures and restarts are bounded: the system comes to rest.
CHECK_DEADLOCK FALSE
