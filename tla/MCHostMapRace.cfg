SPECIFICATION Spec
CONSTANTS
  Channels = {c1, c2}
  SubUIDs = {}
  Partitions = {}
  Copies = {1}
  Posts = {}
  NoChannel = NoChannel
  Threads = 2
  FlakyPartitions = {}
  NamesReused = FALSE
  MaxChanges = 4
  MaxFailures = 0
  MaxRestarts = 0
SYMMETRY Symmetry
INVARIANTS
  QuiescentRoutable
\* Users, failures and restarts are bounded: the system comes to rest.
CHECK_DEADLOCK FALSE
