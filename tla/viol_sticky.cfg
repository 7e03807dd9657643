SPECIFICATION Spec
CONSTANTS
  INVALID = INVALID
  NULL = NULL
  Socks = {s1, s2, s3}
  Recs = {r1, r2}
  Alias = {}
  Cap = 9
  NListen = 1
  Faults = {}
  Kinds = {"GET"}
INVARIANT ResponsesAreRelayed
