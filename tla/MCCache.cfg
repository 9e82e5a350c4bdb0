SPECIFICATION FairSpec
CONSTANTS
  Callers = {c1, c2}
  LockTTL = 2
  MaxUpdates = 2
  Nulls = {1}
  FaultLimit = 1
  CrashLimit = 1
  NoCaller = NoCaller
  c1 = c1
  c2 = c2
INVARIANTS
  SingleFlight
  FailsOpenLate
  FreshUnlessLate
PROPERTY
  CallsEnd
