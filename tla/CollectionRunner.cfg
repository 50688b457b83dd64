SPECIFICATION FairSpec
CONSTANTS
  Vehicles <- MCVehicles
  Backend <- MCBackend
  Names <- MCNames
  Cases <- MCCases
  Configs <- MCConfigs
  Interruptible <- MCInterruptible
  MaxInterrupts = 2
INVARIANTS
  TypeOK
  
  ReturnsEveryLog
  
  RoundStartsFaultFree
PROPERTIES
  RoundsDoNotOverlap
  ImplementsLifecycle
  ImplementsFairLifecycle
