SPECIFICATION Spec
CONSTANTS
  Hosts <- MCWindows
  Common <- MCCommon
  Section <- MCSection
  Jobs = {j1}
  MaxKeys = 1
  MaxFaults = 0
  j1 = j1
INVARIANTS
  AllReplaced
CHECK_DEADLOCK FALSE
