SPECIFICATION FairSpec
CONSTANTS
  Hosts <- MCHosts
  Common <- MCCommon
  Section <- MCSection
  Jobs = {j1}
  MaxKeys = 2
  MaxFaults = 1
  j1 = j1
INVARIANTS
  TypeOK
  KeyFileAgrees
  KeyContinues
  ReportTrue
PROPERTIES
  Resumed
CHECK_DEADLOCK FALSE
