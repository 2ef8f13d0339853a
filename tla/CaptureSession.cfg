SPECIFICATION Spec
CONSTANTS
    User = User
    Rt = Rt
    Other = Other
    Readers = {r1}
    MaxFrames = 1
    MaxFaults = 1
INVARIANTS
    FinalizedAlone
    FramesFollowStartup
    CloseTellsEverything
    NobodyIsStuck
CHECK_DEADLOCK FALSE
