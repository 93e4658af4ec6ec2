SPECIFICATION FairSpec
CONSTANTS
    Hosts = {"h1", "h2"}
    Remote = {"remote"}
    DefaultImage = 1
    Scenarios <- MCScenarios
INVARIANTS NeedsFirst FirstMigration
PROPERTIES ObjectsSettle PoliciesSettle MonitorsSettle
