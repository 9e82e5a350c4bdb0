SPECIFICATION MCSpec
CONSTANTS
  Workers = {"w1", "w2"}
  Amounts = {2}
  Limits = {1, 2}
  Weekly = 2
  Monthly = 2
  Wests <- Zones
  LastTime = 2
  PushLimit = 2
  AppCalls = 5
  Threads = 2
  MaxRequests = 2
  Window = 2
  AppEnd = 3
  Recorders = {"w1", "w2"}
  Lengths <- PeriodLengths
  CostEnd = 4
  Payers = {"w1", "w2", "w3"}
  NoPayer = "none"
  LapseLimit = 1
  Demos = {"w1", "w2"}
  DemoRetries = 2
  Readers = {"w1", "w2"}
  Replicas = {"r1", "r2"}
  NoReplica = "none"
  Cooldown = 2
  RouterEnd = 2
  Rows = {"row1", "row2", "row3", "row4"}
  Keys = {1, 2, 3}
  PageSize = 2
  Backends = {"w1", "w2", "w3"}
  NoResult = "none"
  Parts = 4
  PartSize = 3
  Callers = {"w1"}
  Monitors = {}
  FailureThreshold = 3
  RecoveryTicks = 4
  Second = 2
  HalfOpenMaxCalls = 2
  MaxRetries = 2
  CrashLimit = 0
  ResetLimit = 0
INVARIANTS
  OverspendBounded
  OvershootBounded
  UsageIsCurrent
  PaidOnce
  DemoIsTrue
  EachRowOnce
  PolledIsFetched
  PartsInPlace
PROPERTIES
  RoutesByHealth
  ImplementsProtocol
CHECK_DEADLOCK FALSE
