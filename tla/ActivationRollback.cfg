\* No process is killed; a write may take effect and still report an error.
SPECIFICATION Spec
CONSTANTS
    d1 = d1
    d2 = d2
    Detachers = {d1, d2}
    Faults = {"sync"}
    Killable = {}
    MaxInvocations = 1
PROPERTIES
    RollbackRetainsClaim
CHECK_DEADLOCK FALSE
