SPECIFICATION Spec
CONSTANTS
    MaxFrames = 1
    MaxCrashes = 0
INVARIANT ShutdownRunsNormalPath
CHECK_DEADLOCK FALSE
