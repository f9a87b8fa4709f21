SPECIFICATION Spec
CONSTANTS
  Modes <- OneMode
  Daemon <- Foreground
  Fanout <- OneEach
  MaxFd = 6
  MaxDatagrams = 2
  MaxKills = 0
INVARIANTS
  EveryDatagramRelayed
