SPECIFICATION Spec
CONSTANTS
  Nobody = Nobody
  Tables = {t1}
  Keys = {0}
  NumPartitions = 2
  Clients = {c1}
  Dumpers = {d1}
  Compactors = {x1}
  Ops = {"insert", "select"}
  MaxTime = 1
  MaxTmp = 1
  MaxInode = 0
  SpaceRunsOut = FALSE
  Crashes = FALSE
INVARIANT SelectSeesAcceptedInserts
