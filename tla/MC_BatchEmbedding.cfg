SPECIFICATION Spec
CONSTANTS
  Text <- MCText
  Padding = 0
  MaxTexts = 4
  MaxBatch = 3
INVARIANTS
  RowsAreThoseOfSingleCalls
  ReturnIsWhole
CHECK_DEADLOCK FALSE
