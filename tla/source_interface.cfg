SPECIFICATION Spec
CONSTANTS
  Arguments <- SimpleLines
  Interfaces <- OneInterface
  MaxArgs = 3
  MaxIfChanges = 0
INVARIANTS
  SourceInterfaceUsed
