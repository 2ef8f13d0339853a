SPECIFICATION Spec
CONSTANTS
    User = User
    Rt = Rt
    Other = Other
    Readers = {}
    MaxFrames = 1
    MaxFaults = 1
INVARIANT ClosedSettlesStartup
CHECK_DEADLOCK FALSE
