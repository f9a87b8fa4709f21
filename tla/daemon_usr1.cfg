SPECIFICATION FairSpec
CONSTANTS
  Modes <- OneMode
  Daemon <- AsDaemon
  Fanout <- OneEach
  MaxFd = 5
  MaxDatagrams = 1
  MaxKills = 1
CHECK_DEADLOCK FALSE
PROPERTIES
  Usr1Answered
