SPECIFICATION Spec
CONSTANTS
  t1 = t1  t2 = t2
  k1 = k1  k2 = k2
  v1 = v1  v2 = v2
  dispatcher = dispatcher  console = console
  Tables = {t1}
  Keys = {k1, k2}
  Values = {v1, v2}
  Threads = {dispatcher, console}
  NumFrames = 2
  MaxCounter = 4
  MaxClock = 3
  NoPage = NoPage
  KeyNotFound = KeyNotFound
  TableNotFound = TableNotFound
  Garbage = Garbage
  NoWrite = NoWrite
INVARIANT NoAcceptedWriteIsLost
