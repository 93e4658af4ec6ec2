SPECIFICATION FairSpec
CONSTANTS
    DCsOf <- TwoRegions
    Scenarios <- JoinWithRestart
PROPERTIES RegionsReady
