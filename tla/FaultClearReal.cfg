SPECIFICATION FaultSpec
CONSTANTS
  Backends = {"real"}
  Modes = {12}
  Flags = {3}
  DefaultModes = {0}
  MaxCommands = 2
INVARIANTS
  RealClearRestores
