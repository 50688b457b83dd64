SPECIFICATION FairSpec
CONSTANTS
  NVehicles = 2
  MaxPhase = 2
  MaxSamples = 3
INVARIANTS
  TypeOK
  RowsAreOrdered
  WorkbookIsComplete
PROPERTIES
  SamplerEnds
