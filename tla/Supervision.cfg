\* Both modes and scopes; supervisor, guardian and commands may be killed.
SPECIFICATION Spec
CONSTANTS
    root = root
    kid = kid
    k1 = k1
    Root = root
    Descendants = {kid}
    Commands = {k1}
    Modes = {"exit", "sentinel"}
    Killable = {"supervisor", "guardian", "command"}
INVARIANTS
    TypeOK
    RcMatchesRecord
    DrainedIsTrue
    CustodyCoversTree
PROPERTIES
    TerminalIsFinal
    CancelPrecedence
    NoLateAcceptance
\* Both owners may have returned and every process be gone.
CHECK_DEADLOCK FALSE
