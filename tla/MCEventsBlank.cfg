SPECIFICATION Spec
CONSTANTS
  Processes = {p1, p2}
  Deliveries = {first, again, other}
  Events = {paid, unknown}
  EventOf <- MCEventOf
  Unhandled = {unknown}
  Handlers = 2
  NoDelivery = NoDelivery
  FaultLimit = 1
  ExpiryLimit = 0
  Queued = {first, other}
  MaxRetries = 2
  CrashLimit = 0
  p1 = p1
  p2 = p2
  first = first
  again = again
  other = other
  paid = paid
  unknown = unknown
INVARIANT CompletedIsHandled
CHECK_DEADLOCK FALSE
