SPECIFICATION Spec
CONSTANTS
  Vehicles <- MCVehicles
  Backend <- MCBackend
  Names <- MCNames
  Cases <- MCCases
  Configs <- MCInterruptible
  Interruptible <- MCInterruptible
  MaxInterrupts = 0
INVARIANTS
  FaultsClearedAfterEveryRound
