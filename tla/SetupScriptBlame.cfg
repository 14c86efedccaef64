SPECIFICATION Spec
CONSTANTS
    Node <- Nodes
    Package <- Packages
    AptNode <- Apt
    Block <- Blocks
    Rank <- Ranks
    Layers = 2
    Project = "project"
    Preamble = "preamble"
    Text <- Texts
    Refresh = "apt-get update"
    Reports <- ReportsOf
    Holds <- HeldBy
INVARIANTS
    BlamesWhatFailed
CHECK_DEADLOCK FALSE
