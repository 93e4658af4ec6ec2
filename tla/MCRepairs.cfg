SPECIFICATION FairSpec
CONSTANTS
    BuiltIn <- MCBuiltIn
    Extra = {"app"}
    DCs = {"dc1", "dc2"}
    Specs <- MCSpecs
    InitSpecs <- MCInitSpecs
    InitRepl <- MCInitRepl
    Budget <- MCFaults
INVARIANTS TypeOK OneActiveRun FirstFutureDate
PROPERTIES OthersSchedulesKept ReplicationConverges AlterIsRepaired SchedulesConverge ClusterWorks
