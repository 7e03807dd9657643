SPECIFICATION FairSpec
CONSTANTS
  Hosts <- MCLinux
  Common <- MCCommon
  Section <- MCSection
  Jobs = {j1}
  MaxKeys = 1
  MaxFaults = 0
  j1 = j1
PROPERTIES
  ServesAgain
CHECK_DEADLOCK FALSE
