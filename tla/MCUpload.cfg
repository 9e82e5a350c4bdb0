SPECIFICATION MCSpec
CONSTANTS
  Adapters = {"s3", "gcs"}
  Workers = {w1, w2}
  Parts = {1, 2}
  Etags = {e1, e2}
  NoPart = NoPart
  FaultLimit = 1
  ExpiryLimit = 1
  w1 = w1
  w2 = w2
  e1 = e1
  e2 = e2
INVARIANTS
  FinalIsTrue
PROPERTIES
  FinalStays
  ObjectIsWhole
SYMMETRY UploadSymmetry
