SPECIFICATION Spec
CONSTANTS
  INVALID = INVALID
  NULL = NULL
  Socks = {s1, s2, s3}
  Recs = {r1, r2}
  Alias = {}
  Cap = 1
  NListen = 1
  Faults = {"post"}
  Kinds = {"POST"}
SYMMETRY MCSymmetry
INVARIANTS
  WritableHandled
  OneRecordPerISock
PROPERTY CapacityRespected
