SPECIFICATION Spec
CONSTANTS
  CommandLines <- MCCommandLines
  Items = 3
  PipeCapacity = 2
  Memory = {1, 2}
  MaxPeriodic = 2
INVARIANTS
  MeasurementIsOfWindow
  ReportIsOfRequest
  TimelineIsComplete
PROPERTY OnlyMissedWakeupHangs
CHECK_DEADLOCK FALSE
