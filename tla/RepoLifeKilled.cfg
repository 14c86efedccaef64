SPECIFICATION Spec
CONSTANTS
    MaxLaunches = 1
    MaxFaults = 1
    Rehomes = FALSE
    Faults <- WallOnly
INVARIANTS
    LegacyMeansPreContract
