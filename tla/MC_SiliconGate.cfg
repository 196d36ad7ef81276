SPECIFICATION Spec
CONSTANTS
    AddressSpace = 4
    ExpectedCycles = 1
    Commits = {"c1", "c2"}
    Base = "base"
    Traces <- MCTraces
    Simulated <- MCSimulated
    Oracle <- MCPlain
    Requests <- MCRequests
    MaxExplained = 1
    MaxRedirects = 0
    MaxWrites = 1
    MaxGates = 2
INVARIANTS
    QuietReportIsExact
    GreenMeansAllowed
    AllowedRunIsOnTime
CHECK_DEADLOCK FALSE
