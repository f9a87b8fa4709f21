SPECIFICATION Spec
CONSTANTS
  Modes <- AllModes
  Daemon <- Foreground
  Fanout <- TwoAndOne
  MaxFd = 6
  MaxDatagrams = 2
  MaxKills = 3
INVARIANTS
  CountersTrackTraffic
  EveryCopyTriedOnce
  FinalStatsAccurate
  NoUseAfterFree
  NoBadClose
PROPERTIES
  HandlersPreserveMain
