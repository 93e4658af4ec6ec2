SPECIFICATION FairSpec
CONSTANTS
    DCs = {1, 2}
    MaxReplicas = 2
    SysKeyspaces = {k1, k2}
    MaxCalls = 2
    Persistence = TRUE
    Starts <- AllStarts
    Edits <- AllEdits
INVARIANTS TypeOK KeyspacesHaveNodes NothingLeftBehind OneLeavingPerDC
PROPERTIES ShrinkOnlyDecommissioned Converges
