SPECIFICATION FairSpec
CONSTANTS
  Decorated = {d1, d2}
  Middleware = {}
  Endpoint = {}
  FaultLimit = 0
  CrashLimit = 0
  ExpiryLimit = 0
  NoRequest = NoRequest
  d1 = d1
  d2 = d2
PROPERTY FirstResponseKept
