SPECIFICATION FairSpec
CONSTANTS
    Repos <- ThreeRepos
    RepoList <- ThreeList
    Concurrency = 2
    RefillTries = 2
    DiskStates <- GateDisk
    MaxRuns = 1
    Crashes <- MachineOnly
INVARIANTS
    TypeOK
    AtMostConcurrencyInFlight
    DroppedOnlyWhenEverySlotGaveUp
PROPERTIES
    ImplementsPool
    EveryRepoReported
    RunEnds
