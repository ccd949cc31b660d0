CONSTANTS
    Envs <- MCEnvs
    MaxFaults = 2
    MaxLosses = 2
SPECIFICATION RunSpec
CHECK_DEADLOCK FALSE
INVARIANTS
    RunTypeOK
    PreacceptIsTrue
    CauseIsTrue
    SettledFirst
    ReceiptFollowsRecord
    ReportIsTrue
    OneAdmission
PROPERTIES
    NoEscape
    RunEnds
