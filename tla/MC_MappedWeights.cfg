SPECIFICATION MappedSpec
CONSTANTS
  MaxSize = 15
  MappingSize = 7
  PageSize = 2
  Raw <- MCRequests
  Tensor <- MCTensor
  TokenId <- MCTokens
  MaxItems = 3
  Headers <- MCHeaders
  CpuAlignment = 2
INVARIANTS
  PlanIsExact
  ReleaseIsExact
  RowsAreLeased
  ValidatedTensorsAreLeasable
  OnlyLateChangesGoUnseen
CHECK_DEADLOCK FALSE
