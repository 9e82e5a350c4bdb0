SPECIFICATION FairSpec
CONSTANTS
  Processes = {p1, p2}
  Deliveries = {first, again, other}
  Events = {paid, unknown}
  EventOf <- MCEventOf
  Unhandled = {unknown}
  Handlers = 2
  NoDelivery = NoDelivery
  FaultLimit = 3
  ExpiryLimit = 1
  Queued = {first, other}
  MaxRetries = 3
  CrashLimit = 1
  p1 = p1
  p2 = p2
  first = first
  again = again
  other = other
  paid = paid
  unknown = unknown
INVARIANTS
  DedupUnlessExcused
  OnePlace
  ExhaustedIsDead
  VerdictIsTrue
  MetricsAgree
PROPERTY
  Settles
CHECK_DEADLOCK FALSE
