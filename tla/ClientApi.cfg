\* Calls in any order, with questions that are given up and an update.
CONSTANTS
  Services = {s1, s2}
  MaxCalls = 5
  MaxMoves = 1
  MaxUpdates = 2
SPECIFICATION Spec
INVARIANTS
  TypeOK
  EndpointIsOfService
  AbortsWhenOwed
  DirectReachesService
SYMMETRY Symmetric
CHECK_DEADLOCK FALSE
