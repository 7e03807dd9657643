SPECIFICATION Spec
CONSTANTS
  INVALID = INVALID
  NULL = NULL
  Socks = {s1, s2, s3, s4}
  Recs = {r1, r2}
  Alias = {}
  Cap = 3
  NListen = 1
  Faults = {"send", "proxy"}
  Kinds = {"GET", "POST", "CONNECT", "CONFIRM"}
SYMMETRY MCSymmetry
INVARIANTS
  TypeOK
  Ownership
  ConnectingMirrors
  SnapshotAligned
  Watched
PROPERTIES
  NoLeak
  Isolation
