SPECIFICATION FairSpec
CONSTANTS
    a = a
    b = b
    r1 = r1
    r2 = r2
    None = None
    Handles = {a, b}
    Reapers = {r1, r2}
    Recurrent = r1
    Parent <- MCParent
    Accepted = {a, b}
    Versioned = {a}
    Ended = {a}
    Shard <- MCShard
    Shards = 2
    MaxScan = 1
    MaxDirs = 1
    MaxCommands = 1
    MaxFaults = 1
INVARIANTS TypeOK QuietRemoval CausalEvidenceKept
PROPERTY EventuallyReaped
CHECK_DEADLOCK FALSE
