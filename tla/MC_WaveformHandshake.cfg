SPECIFICATION PortSpec
CONSTANTS
  Overlap = FALSE
  MaxOutstanding = 1
  Undefined = Undefined
  MaxCycles = 12
INVARIANTS
  PortTypeOK
  SnapshotPerCycle
PROPERTY WaitsAsPromised
