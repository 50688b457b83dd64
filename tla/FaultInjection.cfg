SPECIFICATION FaultSpec
CONSTANTS
  Backends = {"real", "dt"}
  Modes = {11, 12, 13, 100}
  Flags = {3}
  DefaultModes = {0}
  MaxCommands = 3
INVARIANTS
  FaultTypeOK
  DTClearRestores
  
