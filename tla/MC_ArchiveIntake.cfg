SPECIFICATION Spec
CONSTANTS
    Archives <- MC_Archives
    Retried <- MC_Retried
    MaxEntries = 4
    MaxFileBytes = 2
    MaxTotalBytes = 4
    MaxTries = 2
INVARIANTS
    TypeOK
    AcceptedTreeIsExact
    WrittenIsSound
CHECK_DEADLOCK FALSE
