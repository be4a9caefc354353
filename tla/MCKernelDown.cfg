SPECIFICATION Spec
CONSTANTS
  Memories = {1, 2}
  Tables = {t1}
  Workers = {w1}
  Dispatcher = d
  Commands = {"select", "insert", "create", "drop", "describe", "global", "journal"}
  Adds <- SharedMemory
  Consistencies = {"SHC"}
  Seed = 1
  MaxStops = 1
  MaxFills = 1
  MaxRequests = 1
INVARIANT AMemoryDownEndsOneRequest
CHECK_DEADLOCK FALSE
