\* One worker that nobody stops.
CONSTANTS
  Services = {s1}
  Workers = {w1}
  Reserved = {}
  Clients = {c1}
  Endpoints = {e1}
  Bodies = {asklife}
  Supported = {asklife}
  HeartbeatPeriodMsec = 1000
  ExpirationPeriodMsec = 1
  HeartbeatLiveness = 3
  MaxAutoid = 4
  MaxTime = 0
  MaxInFlight = 2
  MaxStops = 0
  MaxBrokerStops = 0
  NoService = NoService
  NoEndpoint = NoEndpoint
  ServiceOf <- MCServiceOf
SPECIFICATION LiveSpec
PROPERTIES
  EventuallyInService
  EveryLetterAnswered
