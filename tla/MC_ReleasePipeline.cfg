SPECIFICATION FairSpec
CONSTANTS
    MaxAttempts = 2
    MaxReruns = 2
    MaxKills = 1
    MaxEdits = 1
    EvidenceFaults <- MC_EvidenceFaults
    AssetFaults <- MC_AssetFaults
    Claims <- MC_Claims
    Executions <- MC_Executions
INVARIANTS
    TypeOK
    ReceiptIsWhole
    ReceiptReachesEvidence
    DeployedIsTriggering
    RefusalHasCause
PROPERTIES
    PublishedIsFinal
    CalmRunIsSigned
CONSTRAINT FewDisturbances
CHECK_DEADLOCK FALSE
