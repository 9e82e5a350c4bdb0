SPECIFICATION Spec
CONSTANTS
  Calls = {c1, c2, c3, c4}
  MaxRequests = 2
  Window = 4
  Lag = 1
  Lead = 1
  MaxTime = 8
  ResetLimit = 1
  c1 = c1
  c2 = c2
  c3 = c3
  c4 = c4
INVARIANTS
  WindowBound
  RefusalIsFair
  KeyOutlivesWindow
SYMMETRY CallSymmetry
