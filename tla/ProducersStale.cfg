SPECIFICATION Spec
CONSTANTS
    MaxLaunches = 3
    MaxHead = 2
INVARIANTS
    SweAgentFileIsOwn
CHECK_DEADLOCK FALSE
