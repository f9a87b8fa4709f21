SPECIFICATION FairSpec
CONSTANTS
  Modes <- SomeModes
  Daemon <- AsDaemon
  Fanout <- TwoAndOne
  MaxFd = 5
  MaxDatagrams = 1
  MaxKills = 2
CHECK_DEADLOCK FALSE
INVARIANTS
  IInv
  WaitsOnlyForInterrupted
  SocketsClosed
  TrafficOnOwnSocket
PROPERTIES
  EndComesNearer
  LoopEndsBySignal
