SPECIFICATION Spec
CONSTANTS
    Jobs = {j1, j2}
    Workers = {w1, w2}
    MaxQueued = 1
    MaxEngines = 1
    MaxFaults = 1
    NoJob = NoJob
    Closer = Closer
INVARIANTS
    JobsConserved
    EnginesAccountedFor
    NobodyWaitsForNothing
SYMMETRY Symmetry
CHECK_DEADLOCK FALSE
