\* Two recoveries, a log of at most one byte, and two faults: a death and a
\* loss, two deaths, or a failed copy and a loss.
SPECIFICATION FairSpec
CONSTANTS
    r1 = r1
    r2 = r2
    Recoveries = {r1, r2}
    NoFile = NoFile
    MaxLog = 1
    MaxFaults = 2
INVARIANTS
    TypeOK
    OneEvent
    NeverLaunchedIsTrue
    LossIsFinal
PROPERTIES
    LastCopyKept
    SourceResolves
\* A registration that was never committed ends with its worker.
CHECK_DEADLOCK FALSE
