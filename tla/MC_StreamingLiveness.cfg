SPECIFICATION FairSpec
CONSTANTS
  c1 = c1
  c2 = c2
  Context = {c1, c2}
  Page <- MCPage
  CommonPages <- MCCommon
  LastGroup = 2
  GroupPages <- MCGroupPages
  TokenRows <- MCTokenRows
  MaxSubBatch = 1
  MaxCalls = 1
  MaxLeases = 6
PROPERTIES
  EveryCallEnds
CHECK_DEADLOCK FALSE
