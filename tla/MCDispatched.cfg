SPECIFICATION Spec
CONSTANTS
  Channels = {c1}
  SubUIDs = {s1}
  Partitions = {p1}
  Copies = {1, 2}
  Posts = {m1}
  NoChannel = NoChannel
  Threads = 2
  FlakyPartitions = {}
  NamesReused = FALSE
  MaxChanges = 4
  MaxFailures = 0
  MaxRestarts = 0
PROPERTIES
  DispatchedToSubscribers
\* Users, failures and restarts are bounded: the system comes to rest.
CHECK_DEADLOCK FALSE
