SPECIFICATION FairSpec
CONSTANTS
  Callers = {c1, c2}
  Monitors = {m1}
  FailureThreshold = 2
  RecoveryTicks = 1
  Second = 1
  HalfOpenMaxCalls = 1
  MaxRetries = 0
  CrashLimit = 1
  ResetLimit = 1
  c1 = c1
  c2 = c2
  m1 = m1
INVARIANTS
  HalfOpenHasTrial
  ClosedIsArmed
PROPERTY
  Recovers
