SPECIFICATION BoundedSpec
CONSTANTS
  Streams <- TwoStreams
  Plans <- SomePlans
  MaxReceived = 3
CHECK_DEADLOCK FALSE
INVARIANTS
  TypeOK
  ExactlyOnce
PROPERTIES
  TakenIsFinished
