\* Exit mode under fairness; the supervisor and commands may be killed.
SPECIFICATION FairSpec
CONSTANTS
    root = root
    kid = kid
    k1 = k1
    Root = root
    Descendants = {kid}
    Commands = {k1}
    Modes = {"exit"}
    Killable = {"supervisor", "command"}
PROPERTIES
    AcceptedCancelCompletes
\* Both owners may have returned and every process be gone.
CHECK_DEADLOCK FALSE
