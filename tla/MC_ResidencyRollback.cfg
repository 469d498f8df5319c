SPECIFICATION Spec
CONSTANTS
  k1 = k1
  k2 = k2
  h1 = h1
  h2 = h2
  h3 = h3
  Key = {k1, k2}
  Holder = {h1, h2}
  Page <- MCPage
  CommonPages <- MCCommon
  MaxLeases = 3
INVARIANT FailedAcquisitionIsRolledBack
CHECK_DEADLOCK FALSE
