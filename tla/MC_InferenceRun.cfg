SPECIFICATION FairSpec
CONSTANTS
  r1 = r1
  r2 = r2
  Request <- MCRequest
  Rejected = Rejected
  Undecodable = Undecodable
  Absent = Absent
  Chunks <- MCChunks
  MaxChunks = 2
  MaxEdits = 1
  MaxRuns = 2
INVARIANTS
  TypeOK
  BundleIsWhole
  ZeroMeansComplete
  RejectionHasReason
PROPERTIES
  BundleIsKept
  RunEnds
CHECK_DEADLOCK FALSE
