SPECIFICATION FairSpec
CONSTANTS
    DCs = {1, 2}
    MaxReplicas = 3
    NumSeeds = 1
    Base = 10
    HostPort = FALSE
    Persistence = TRUE
    Scenarios <- DeployOrResize
    Edits <- OtherSizes
INVARIANTS OneStartPerDC SeedsFirst DCsInOrder
PROPERTIES AllReady
