\* Worker processes that are started, stopped and killed; or the broker is.
CONSTANTS
  Services = {s1}
  Workers = {w1}
  Reserved = {}
  Clients = {c1}
  Endpoints = {e1}
  Bodies = {asklife, other}
  Supported = {asklife}
  HeartbeatPeriodMsec = 1000
  ExpirationPeriodMsec = 1
  HeartbeatLiveness = 3
  MaxAutoid = 4
  MaxTime = 0
  MaxInFlight = 2
  MaxStops = 2
  MaxBrokerStops = 2
  NoService = NoService
  NoEndpoint = NoEndpoint
  ServiceOf <- MCServiceOf
SPECIFICATION Spec
INVARIANTS
  OneRequestOutstanding
  WorkIsAssigned
PROPERTIES
  ReportReleasesItsLetter
  PromisesOverRestarts
