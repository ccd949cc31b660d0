CONSTANTS
    Envs <- MCEnvs
    MaxFaults = 0
    MaxLosses = 0
SPECIFICATION RunSpec
CHECK_DEADLOCK FALSE
INVARIANT CancelledHasEvent
