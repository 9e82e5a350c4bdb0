SPECIFICATION Spec
CONSTANTS
  Tokens = {w1, w2, w3}
  MaxConcurrent = 1
  MaxHold = 2
  MaxTime = 5
  w1 = w1
  w2 = w2
  w3 = w3
INVARIANTS
  FreshWithinLimit
  FreshIsRecorded
  StaleCannotBlock
PROPERTY
  ImplementsSlots
SYMMETRY WorkerSymmetry
