SPECIFICATION Spec
CONSTANTS
  t1 = t1  t2 = t2
  k1 = k1  k2 = k2
  v1 = v1  v2 = v2
  dispatcher = dispatcher  console = console
  Tables = {t1}
  Keys = {k1, k2}
  Values = {v1, v2}
  Threads = {dispatcher}
  NumFrames = 1
  MaxCounter = 3
  MaxClock = 2
  NoPage = NoPage
  KeyNotFound = KeyNotFound
  TableNotFound = TableNotFound
  Garbage = Garbage
  NoWrite = NoWrite
SYMMETRY Symmetry
INVARIANTS
  TypeOK
  PagesAgreeWithRecords
  ConnectionStaysInStep
PROPERTIES
  ImplementsMainMemory
  ImplementsStore
