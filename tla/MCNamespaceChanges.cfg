SPECIFICATION Spec
CONSTANTS
  Channels = {c1}
  Threads = 2
  Images = {i1, i2}
  MaxIncarnations = 2
  MaxChanges = 2
  MaxFailures = 1
  None = None
SYMMETRY ImageSymmetry
INVARIANTS
  TypeOK
  RestIsTruthful
  ErrorShows
\* Users, failures and restarts are bounded: the system comes to rest.
CHECK_DEADLOCK FALSE
