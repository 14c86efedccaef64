SPECIFICATION Spec
CONSTANTS
    MaxLaunches = 3
    MaxHead = 2
INVARIANTS
    TypeOK
    ProducedIsExplained
    AnalysedAtPin
    SuccessHasPacket
CHECK_DEADLOCK FALSE
