\* Two command slots used over and over, any process killed at any step,
\* any write failing before it takes effect.
SPECIFICATION FairSpec
CONSTANTS
    d1 = d1
    d2 = d2
    Detachers = {d1, d2}
    Faults = {"write"}
    Killable = {"caller", "worker"}
    MaxInvocations = 2
INVARIANTS
    TypeOK
    AdmittedActivationKept
    AsyncReportIsTrue
PROPERTIES
    RollbackRetainsClaim
    DetachReturns
\* The last retry the bound allows may be waiting for a helper.
CHECK_DEADLOCK FALSE
