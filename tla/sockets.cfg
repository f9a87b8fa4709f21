SPECIFICATION Spec
CONSTANTS
  Arguments <- CommandLines
  Interfaces <- OneInterface
  MaxArgs = 4
  MaxIfChanges = 1
INVARIANTS
  SocketsInv
  ParmsFitMode
  FillFits
  ListedIsKept
  Diagnosed
  MulticastAsAsked
  SourceAsAsked
  ListingRestarts
