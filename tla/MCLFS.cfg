SPECIFICATION Spec
CONSTANTS
  Nobody = Nobody
  Tables = {t1}
  Keys = {0, 1}
  NumPartitions = 2
  Clients = {c1, c2}
  Dumpers = {d1}
  Compactors = {x1}
  Ops = {"insert", "select"}
  MaxTime = 2
  MaxTmp = 2
  MaxInode = 0
  SpaceRunsOut = FALSE
  Crashes = FALSE
SYMMETRY Symmetries
INVARIANTS
  TypeOK
  NoRecordLost
  SelectIsNotStale
  PartitionsAreMerged
