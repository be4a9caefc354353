SPECIFICATION FairSpec
CONSTANTS
  WorkerTimers = {"gossip"}
  InlineTimers = {"journal"}
  TimerOrder <- Order
  Intervals = {0, 1, 2}
  FirstInterval <- First
  StartedWith <- AtInit
  Workers = {1, 2}
  Peers = {p1}
  Packets <- PacketSet
  Garbage <- GarbageSet
  Width = 65536
  MaxSize = 10240
  NumOpcodes = 3
  HandledOpcodes = {0, 1}
  Keys = {1, 2, 3, 4, 5}
  Hash <- Hashes
  NULL = NULL
  InitialSize = 4
  MaxExpiries = 2
  MaxReloads = 1
  MaxConnections = 2
  MaxPackets = 2
INVARIANTS
  TypeOK
  OneWorkerPerTimer
  PacketsArriveWhole
  EveryDescriptorHasItsInterface
PROPERTY TheLoopGoesOn
CHECK_DEADLOCK FALSE
