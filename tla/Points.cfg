SPECIFICATION Spec
CONSTANTS
  Tags = {"p", "q"}
  Files <- MCFiles
  Written <- MCWritten
  Contents <- MCContents
  MaxWrites = 1
INVARIANTS
  TypeOK
  HeldIsRead
  AbortsAreKnown
  TableIsOfOneLoad
PROPERTIES
  AcknowledgedIsShown
CHECK_DEADLOCK FALSE
