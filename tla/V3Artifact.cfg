SPECIFICATION Spec
CONSTANTS
    MaxHead = 2
    MaxLaunches = 2
    MaxReplays = 1
    MaxHarms = 1
INVARIANTS
    TypeOK
    ArtifactIsOwn
    NothingLeftBehind
CHECK_DEADLOCK FALSE
