\* Every process may be killed, the role custodian included.
SPECIFICATION Spec
CONSTANTS
    c1 = c1
    Callers = {c1}
    Killable = {"supervisor", "guardian", "caller", "worker", "custodian"}
INVARIANTS
    ReplayBounded
    RoleCoversExecution
\* The handle is settled in the end.
CHECK_DEADLOCK FALSE
