SPECIFICATION Spec
CONSTANTS
    DCs = {1, 2}
    MaxReplicas = 1
    SysKeyspaces = {k1, k2}
    MaxCalls = 2
    Persistence = FALSE
    Starts <- NoQuorum
    Edits <- OnlyShrink
PROPERTIES ShrinkAfterDecommission
