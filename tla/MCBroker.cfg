\* Two workers and an identity that may not register, two services, one client.
CONSTANTS
  Services = {s1, s2}
  Workers = {w1, w2, w3}
  Reserved = {w3}
  Clients = {c1}
  Endpoints = {e1}
  Bodies = {d1}
  HeartbeatPeriodMsec = 1000
  ExpirationPeriodMsec = 1
  MaxAutoid = 4
  MaxTime = 3
  NoService = NoService
  NoEndpoint = NoEndpoint
SYMMETRY MCSymmetry
SPECIFICATION Spec
INVARIANTS
  CrossReferences
  PlaceholderIsNoWorker
PROPERTIES
  RequestSentOnce
  LetterLeavesByReport
  KeepsPromises
CHECK_DEADLOCK FALSE
