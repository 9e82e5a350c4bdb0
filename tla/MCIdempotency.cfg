SPECIFICATION FairSpec
CONSTANTS
  Decorated = {d1}
  Middleware = {m1}
  Endpoint = {e1}
  FaultLimit = 2
  CrashLimit = 1
  ExpiryLimit = 1
  NoRequest = NoRequest
  d1 = d1
  m1 = m1
  e1 = e1
INVARIANTS
  ExclusiveUnlessOverrun
  NoStrandedLock
PROPERTY
  EventuallyStored
