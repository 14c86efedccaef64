SPECIFICATION FairSpec
CONSTANTS
    lib = lib
    tool = tool
    svc = svc
    None = None
    Script = Script
    Node <- LibAndService
    Services <- ServiceOnly
    Packages <- NoNodes
    Libs <- LibOnly
    Static <- ServiceOnly
    Predicted <- LibOnly
    Recipes <- LibOnly
    Requires <- ServiceOnLib
    Wheels <- NoNodes
    Conflicted <- NoNodes
    AptFile <- LibOnly
    AllowServices = TRUE
    FailSig = {f1}
    MaxCycles = 3
    AttemptCap = 1
    MaxRepairs = 2
    NoProgressCycles = 2
    ResidualCycles = 1
INVARIANTS
    TypeOK
    SuccessIsVerified
    UnreplayedIsIngested
    NoProgressExactly
    PassIsNotGivenUp
PROPERTIES
    HandOutIsReal
    NeverInCircles
    LoopEnds
