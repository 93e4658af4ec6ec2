SPECIFICATION FairSpec
CONSTANTS
    Pods = {p1, p2}
    Clients = {"reaper"}
    Stages <- MCStages
    Scenarios <- MCScenarios
INVARIANTS MutualTrust CertificatesAccounted
PROPERTIES CertificatesSettle
