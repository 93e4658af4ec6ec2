SPECIFICATION FairSpec
CONSTANTS
    DCsOf <- TwoRegions
    Scenarios <- AnyStart
INVARIANTS OneMigration
PROPERTIES OneRing RegionsInOrder RegionsSettle
