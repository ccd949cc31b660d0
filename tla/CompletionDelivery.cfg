\* Supervisor, guardian and one caller; every process but the role custodian
\* may be killed at any step.
SPECIFICATION FairSpec
CONSTANTS
    c1 = c1
    Callers = {c1}
    Killable = {"supervisor", "guardian", "caller", "worker"}
INVARIANTS
    TypeOK
    AtMostOnceAdmission
    ExternalHelperCovered
PROPERTIES
    RecordedOutcomeSurvives
    ImplementsPromise
    DeliveryReachesOutcome
\* The handle is settled in the end.
CHECK_DEADLOCK FALSE
