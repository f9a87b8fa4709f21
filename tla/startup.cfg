SPECIFICATION FairSpec
CONSTANTS
  Fanout <- OneEach
  MaxFd = 4
  MaxKills = 3
INVARIANTS
  StartupInv
  DaemonNotKilled
  ListsCompleteDests
  LogNotLost
  ParentLeaves
  RelayStartsRight

  
