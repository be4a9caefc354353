SPECIFICATION FairSpec
CONSTANTS
  Nobody = Nobody
  Tables = {t1}
  Keys = {0}
  NumPartitions = 2
  Clients = {c1}
  Dumpers = {d1}
  Compactors = {x1}
  Ops = {"insert", "select", "create", "drop", "describe"}
  MaxTime = 2
  MaxTmp = 2
  MaxInode = 2
  SpaceRunsOut = TRUE
  Crashes = TRUE
INVARIANT CompactorsFollowTables
PROPERTIES
  RecordsAreLostInNineWays
  EveryLockIsReleased
CHECK_DEADLOCK FALSE
