SPECIFICATION Spec
CONSTANTS
    lib = lib
    tool = tool
    svc = svc
    None = None
    Script = Script
    Node <- ToolAndService
    Services <- ServiceOnly
    Packages <- NoNodes
    Libs <- NoNodes
    Static <- ToolAndService
    Predicted <- NoNodes
    Recipes <- ToolOnly
    Requires <- ServiceOnTool
    Wheels <- NoNodes
    Conflicted <- NoNodes
    AptFile <- NoNodes
    AllowServices = TRUE
    FailSig = {f1}
    MaxCycles = 3
    AttemptCap = 2
    MaxRepairs = 2
    NoProgressCycles = 2
    ResidualCycles = 2
INVARIANT
    ServicesBlockSuccess
