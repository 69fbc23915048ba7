SPECIFICATION Spec
CONSTANTS
  Channels = {c1}
  SubUIDs = {s1}
  Partitions = {p1, p2}
  Copies = {1, 2}
  Posts = {m1}
  NoChannel = NoChannel
  Threads = 2
  FlakyPartitions = {p2}
  NamesReused = TRUE
  MaxChanges = 6
  MaxFailures = 1
  MaxRestarts = 0
SYMMETRY Symmetry
INVARIANTS
  MemoryIsFinalized
  
  QuiescentSynced
\* Users, failures and restarts are bounded: the system comes to rest.
CHECK_DEADLOCK FALSE
