SPECIFICATION CallSpec
CONSTANTS
  Size = 7
  Pieces <- ShortPieces
  MaxSaid = 7
  Report <- TwoPieces
  MaxTorn = 2
CHECK_DEADLOCK FALSE
INVARIANTS
  IndexInBuffer
  LinesAreText
  CallsAreAtomic
  HandlerFindsRoom
  ReportWhole
  TornCallRecovers
  CallInv
