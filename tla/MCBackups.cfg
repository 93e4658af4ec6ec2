SPECIFICATION FairSpec
CONSTANTS
    Backups = {"b1", "b2"}
    Restores = {"r1"}
    SpecsOf <- MCSpecsOf
    Pinned = {3}
    Secrets <- MCSecrets
    MaxOps <- MCMaxOps
    Scenarios <- MCScenarios
INVARIANTS TypeOK RequestsAccounted
PROPERTIES StatusIsTrue BackupsSettle
CHECK_DEADLOCK FALSE
