SPECIFICATION FairSpec
CONSTANTS
    Heads <- MCHeads
    Paths <- MCPaths
    PathsOf <- MCPathsOf
    RuleDepths <- MCRuleDepths
    DefaultDepth = 3
    CiNodes <- MCCiNodes
    ExternalNodes = {"human_review"}
    Conditional = {"installed_wheel"}
    MinimumDepth <- MCMinimumDepth
    MaxRuns = 3
INVARIANTS
    TypeOK
    PassMeansCoreRan
    SteadyPassIsRight
PROPERTIES
    LastRunEnds
CHECK_DEADLOCK FALSE
