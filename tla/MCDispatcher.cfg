SPECIFICATION FairSpec
CONSTANTS
  Channels = {c1, c2}
  SubUIDs = {s1}
  Partitions = {}
  Copies = {1, 2, 3, 4}
  Posts = {}
  NoChannel = NoChannel
  Threads = 2
  FlakyPartitions = {}
  NamesReused = TRUE
  MaxChanges = 5
  MaxFailures = 2
  MaxRestarts = 1
INVARIANTS
  TypeOK
  SubscriptionHasSession
  MemoryIsFinalized
  StagesProtected
  OneRefPerSubscriber
  QuiescentSynced
  QuiescentReleased
PROPERTIES
  FinalizerHonoured
  Converges
  FinalizerReleased
\* Users, failures and restarts are bounded: the system comes to rest.
CHECK_DEADLOCK FALSE
