SPECIFICATION Spec
CONSTANTS
    Contents = {"send", "Send", "float"}
    OffProfile = {"Send"}
    Unhashable = {"float"}
    Deadlines = {"noon", "night"}
    Transitions = {"AUDIT_LOG", "STRUCTURED_REPLAN", "PUBLIC_CONFORMANCE"}
    RequiredDepth <- MCRequired
    AuditLog = "AUDIT_LOG"
    Refs = {"r1", "r2", "r3", "r4"}
    MaxRefs = 3
    MaxRefsByBytes = 2
    Payloads = {"p1", "p2"}
    BaseDecisions <- MCBaseDecisions
    MaxEdits = 2
INVARIANTS
    ResumeReproducesFrozen
    AuditReachesAction
    SameIdSameAuthority
CHECK_DEADLOCK FALSE
