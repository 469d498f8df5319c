SPECIFICATION GroupSpec
CONSTANTS
  Slot = {"x", "a", "xn", "q", "k", "v", "h", "x1", "fn", "fh", "fd", "xa"}
  Residual = "x"
  Models <- MCModels
  Presets <- MCPresets
  Layers = 2
  SubBatches = 2
INVARIANTS
  StreamedVectorIsEager
  WeightsAreLeased
  ModelIsStreamable
  SlotChecksAreExact
  PartitionMeetsPreset
CHECK_DEADLOCK FALSE
