SPECIFICATION Spec
CONSTANTS
  Vehicles <- MCVehicles
  Scenarios <- MCScenarios
  MaxInterrupts = 1
INVARIANTS
  TypeOK
  ReportIsTruthful
  CleanupFailsAlone
