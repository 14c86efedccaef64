SPECIFICATION FairSpec
CONSTANTS
    MaxLaunches = 2
    MaxFaults = 2
    Rehomes = TRUE
    Faults <- AllFaults
INVARIANTS
    TypeOK
    MarkedPacketCoherent
    MarkedIsWhatIsMeasured
    CleanOutcomeHarvested
    BuiltFromOnePacket

PROPERTIES
    EveryRepoMeasured
