SPECIFICATION Spec
CONSTANTS
  c1 = c1
  c2 = c2
  Context = {c1, c2}
  Page <- MCPage
  CommonPages <- MCCommon
  LastGroup = 2
  GroupPages <- MCGroupPages
  TokenRows <- MCTokenRows
  MaxSubBatch = 2
  MaxCalls = 2
  MaxLeases = 24
SYMMETRY Symm
INVARIANTS
  ComputesOnLeasedPages
  LeasesBelongToRunningPhases
  OutputIsAllOrNothing
  CallsAfterPoisonFail
CHECK_DEADLOCK FALSE
