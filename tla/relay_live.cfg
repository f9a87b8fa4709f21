SPECIFICATION FairSpec
CONSTANTS
  Modes <- SomeModes
  Daemon <- Foreground
  Fanout <- OneAndTwo
  MaxFd = 6
  MaxDatagrams = 1
  MaxKills = 2
PROPERTIES
  ExitSignalEndsProgram
  Usr1Answered
  Replicates
