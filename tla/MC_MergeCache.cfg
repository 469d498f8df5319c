SPECIFICATION Spec
CONSTANTS
  pidA = pidA
  pidB = pidB
  Proc = {1, 2}
  Loader = {1, 2, 3}
  ProcessOf <- TwoProcesses
  Pid = {pidA, pidB}
  MaxLoads = 1
  MaxStops = 1
SYMMETRY Symm
INVARIANTS
  LoadedIndexIsComplete
  TargetNeverTorn
  LoadFailsOnlyOnFault
  TemporariesAreTemporary
CHECK_DEADLOCK FALSE
