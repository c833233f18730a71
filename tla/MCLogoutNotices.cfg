SPECIFICATION FairSpec
CONSTANTS
  h1 = h1
  h2 = h2
  c1 = c1
  c2 = c2
  Host = {h1, h2}
  Client = {c1, c2}
  NotifyMs = 2
  RetryMs = 1
  Shards = 2
  ShardOf <- MCShardOf
  Horizon = 4
  Loads <- MCLoads
INVARIANTS TypeOK NoneForgotten StoppedIsQuiet
PROPERTIES NoticesEnd
CHECK_DEADLOCK FALSE
