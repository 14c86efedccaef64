SPECIFICATION Spec
CONSTANTS
    Repos <- TwoRepos
    RepoList <- TwoList
    Concurrency = 2
    RefillTries = 1
    DiskStates <- AnyDisk
    MaxRuns = 2
    Crashes <- AnyCrash
INVARIANTS
    ReportCoversSubmitted
PROPERTIES
    SettledRowIsFinal
    ReinvokedOnlyIfUnsettled
    
