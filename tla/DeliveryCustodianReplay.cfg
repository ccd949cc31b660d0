\* Only the role custodian may be killed.
SPECIFICATION Spec
CONSTANTS
    c1 = c1
    Callers = {c1}
    Killable = {"custodian"}
INVARIANTS
    AtMostOnceAdmission
CHECK_DEADLOCK FALSE
