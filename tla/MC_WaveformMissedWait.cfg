SPECIFICATION PortSpec
CONSTANTS
  Overlap = TRUE
  MaxOutstanding = 2
  Undefined = Undefined
  MaxCycles = 12
INVARIANT PendingIsWaited
