SPECIFICATION Spec
CONSTANTS
  Workers = {w1, w2}
  MaxEnds = 2
  CrashLimit = 1
  w1 = w1
  w2 = w2
INVARIANTS
  BooksAgree
PROPERTIES
  TransitionsEnforced
  GraceKept
