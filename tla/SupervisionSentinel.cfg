\* A sentinel-mode handle whose supervisor may be killed.
SPECIFICATION Spec
CONSTANTS
    root = root
    kid = kid
    k1 = k1
    Root = root
    Descendants = {kid}
    Commands = {k1}
    Modes = {"sentinel"}
    Killable = {"supervisor"}
INVARIANT
    DeliveryFollowsTerminal
CHECK_DEADLOCK FALSE
