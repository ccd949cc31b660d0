------------------------- MODULE CompletionDelivery -------------------------
(***************************************************************************)
(* Delivery of one terminal handle's completion notification               *)
(* (src/src/delivery.rs, with the lifecycle classifier of state.rs and the *)
(* role slot of delivery_role.rs).                                         *)
(*                                                                         *)
(* Claimants compete for delivery.lock: the founding supervisor, the       *)
(* guardian that succeeds it, and status/cancel callers.  A claimant that  *)
(* may attempt forks a transfer child: the owners a role custodian with an *)
(* execution worker below it, the callers a worker directly.  The flock is *)
(* an open file description the whole chain inherits, so it is free only   *)
(* when every process of every chain has exited; LockFree derives it from  *)
(* the processes instead of storing it.  The helper does not hold it       *)
(* (CLOEXEC).  Processes named in Killable may be killed at any step.      *)
(***************************************************************************)
EXTENDS Integers

CONSTANTS Callers,    \* status / cancel processes that claim pending delivery
          Killable    \* which kinds of process may be killed

Owners == {"supervisor", "guardian"}
Claimants == Owners \cup Callers
ProcessKinds == {"supervisor", "guardian", "caller", "custodian", "worker"}

ASSUME CallersAssumption == Callers \cap (Owners \cup {"none", "foreign"}) = {}
ASSUME KillableAssumption == Killable \subseteq ProcessKinds

VARIABLES
    delivery,     \* meta.delivery as persisted in meta.json
    v2,           \* continuation-v2 is enabled for this handle
    snapshot,     \* the v2 source snapshot has been published
    external,     \* whose external-transfer-custody marker is on disk
    cleanup_error,\* external-transfer-cleanup-error has been recorded
    slot,         \* delivery_role::Role.pid, shared by supervisor and guardian
    claim,        \* program counter of each claimant
    gate,         \* the admission byte has been written to the transfer child
    retry_count,  \* the retry count each claimant's attempt runs with
    observed,     \* the record integrate_completion_transfer read
    failed,       \* the transfer child's status is not a clean exit
    custodian,    \* program counter of each owner's role custodian
    worker,       \* program counter of each execution worker
    launch,       \* what the worker's helper command returned
    helper,       \* the helper process each worker spawned
    invocations   \* admitted agent-bash-complete invocations so far

files == <<snapshot, external, cleanup_error>>
chain == <<custodian, worker, launch, helper, invocations>>
vars == <<delivery, v2, files, slot, claim, gate, retry_count, observed, failed,
          chain>>

-----------------------------------------------------------------------------
(* The persisted delivery record and its classifier *)

\* The error codes the protocol tells apart; "other" is any pre-admission code.
ErrorCodes == {"none", "in_progress", "unknown", "other"}
RetryCounts == 0 .. 255

CompletionDeliveryMeta ==
    [attempted : BOOLEAN, error_code : ErrorCodes, retryable : BOOLEAN,
     retry_count : RetryCounts, skipped : BOOLEAN]

UnclaimedMeta ==
    [attempted |-> FALSE, error_code |-> "none", retryable |-> FALSE,
     retry_count |-> 0, skipped |-> FALSE]
LegacySkippedMeta ==
    [attempted |-> FALSE, error_code |-> "none", retryable |-> FALSE,
     retry_count |-> 0, skipped |-> TRUE]

ProvisionalMeta ==
    [attempted |-> TRUE, error_code |-> "in_progress", retryable |-> FALSE,
     retry_count |-> 0, skipped |-> FALSE]
AdmittedMeta ==
    [attempted |-> TRUE, error_code |-> "none", retryable |-> FALSE,
     retry_count |-> 0, skipped |-> FALSE]
UnknownTransferMeta(n) ==
    [attempted |-> TRUE, error_code |-> "unknown", retryable |-> FALSE,
     retry_count |-> n, skipped |-> FALSE]
\* Mutant of LaunchErrorMeta: the retry budget is counted down without a floor.
LaunchErrorMetaUnderflows(n) ==
    [attempted |-> FALSE, error_code |-> "other", retryable |-> (n = 0),
     retry_count |-> n - 1, skipped |-> FALSE]

\* Mutant of LaunchErrorMeta: a pre-admission failure is retryable for ever.
LaunchErrorMetaAlwaysRetryable(n) ==
    [attempted |-> FALSE, error_code |-> "other", retryable |-> TRUE,
     retry_count |-> n, skipped |-> FALSE]

\* launch_error and owner_launch_error
LaunchErrorMeta(n) ==
    [attempted |-> FALSE, error_code |-> "other", retryable |-> (n = 0),
     retry_count |-> n, skipped |-> FALSE]
\* A helper that can never be right
InvalidHelperMeta(n) ==
    [attempted |-> FALSE, error_code |-> "other", retryable |-> FALSE,
     retry_count |-> n, skipped |-> FALSE]

\* helper_error: a helper that is away or was replaced may be back
HelperErrorMeta(code, n) ==
    IF code \in {"unavailable", "changed"} THEN LaunchErrorMeta(n) ELSE InvalidHelperMeta(n)

completion_lifecycle(d) ==
    CASE d.skipped -> IF ~d.attempted /\ d.error_code = "none"
                      THEN "LegacySkipped" ELSE "Invalid"
      [] ~d.skipped /\ d.attempted ->
            IF d.error_code = "in_progress" THEN "ProvisionalTransfer"
            ELSE IF d.error_code = "unknown" THEN "NonReplayableUnknownTransfer"
            ELSE "AdmittedOutcome"
      [] ~d.skipped /\ ~d.attempted ->
            IF d.error_code = "none" THEN "Unclaimed"
            ELSE IF d.retryable THEN "RetryablePreAdmissionFailure"
            ELSE "ClosedPreAdmissionFailure"

\* Mutant of permits_attempt: an orphaned claim is attempted again.
PermitsOrphanedClaim(d) ==
    completion_lifecycle(d) \in {"Unclaimed", "RetryablePreAdmissionFailure",
                                 "ProvisionalTransfer"}

permits_attempt(d) ==
    completion_lifecycle(d) \in {"Unclaimed", "RetryablePreAdmissionFailure"}

needs_progress(d) ==
    permits_attempt(d) \/ completion_lifecycle(d) = "ProvisionalTransfer"

\* Mutant of AttemptRetryCount: the retry is not counted.
AttemptRetryCountUncounted(d) == d.retry_count

\* The retry count of the attempt a claimant starts from record d (u8, saturating)
AttemptRetryCount(d) ==
    IF completion_lifecycle(d) = "RetryablePreAdmissionFailure"
    THEN IF d.retry_count = 255 THEN 255 ELSE d.retry_count + 1
    ELSE d.retry_count

-----------------------------------------------------------------------------
(* Processes and the lock they share *)

ClaimStates == {"guarding", "idle", "locked", "forked", "published", "waiting",
                "reaped", "merging", "settled", "retained", "exited", "gone"}
CustodianStates == {"none", "gate", "supervising", "integrated", "exited", "reaped"}
WorkerStates == {"none", "gate", "request", "provisional", "custody", "waiting",
                 "record", "leaving", "exited", "reaped"}
HelperResults == {"none", "not_started", "success", "failure", "wait_error"}

ClaimantHolds(c) ==
    claim[c] \in {"locked", "forked", "published", "waiting", "reaped", "merging"}
CustodianAlive(c) == custodian[c] \in {"gate", "supervising", "integrated"}
WorkerAlive(c) ==
    worker[c] \in {"gate", "request", "provisional", "custody", "waiting", "record", "leaving"}

\* Some process of c's attempt has the locked file description open.
Holding(c) == ClaimantHolds(c) \/ CustodianAlive(c) \/ WorkerAlive(c)

\* try_lock_delivery / DeliveryLockGuard::acquire succeed
LockFree == \A c \in Claimants : ~Holding(c)

Alive(c) == claim[c] \notin {"exited", "gone"}
IsOwner(c) == c \in Owners
Kind(c) == IF c \in Callers THEN "caller" ELSE c

\* A process of owner c's transfer chain has not been reaped.
ChainUnreaped(c) == \/ custodian[c] \notin {"none", "reaped"}
                    \/ worker[c] \notin {"none", "reaped"}
                    \/ helper[c] = "running"
TreeEmpty == \A c \in Owners : ~ChainUnreaped(c)

\* The slot holds 0, -1, the custodian's pid, or its negation once certified.
EmptySlot == <<"empty", "none">>
UnknownSlot == <<"unknown", "none">>
LiveSlot(c) == <<"live", c>>
CertifiedSlot(c) == <<"certified", c>>
SlotValues == {EmptySlot, UnknownSlot} \cup {LiveSlot(c) : c \in Owners}
                                      \cup {CertifiedSlot(c) : c \in Owners}

TypeOK ==
    /\ delivery \in CompletionDeliveryMeta
    /\ v2 \in BOOLEAN /\ snapshot \in BOOLEAN
    /\ external \in {"none", "foreign"} \cup Callers
    /\ cleanup_error \in BOOLEAN
    /\ slot \in SlotValues
    /\ claim \in [Claimants -> ClaimStates]
    /\ gate \in [Claimants -> BOOLEAN]
    /\ retry_count \in [Claimants -> RetryCounts]
    /\ observed \in [Claimants -> CompletionDeliveryMeta]
    /\ failed \in [Claimants -> BOOLEAN]
    /\ custodian \in [Claimants -> CustodianStates]
    /\ worker \in [Claimants -> WorkerStates]
    /\ launch \in [Claimants -> HelperResults]
    /\ helper \in [Claimants -> {"none", "running", "exited"}]
    /\ invocations \in Nat

Init ==
    /\ delivery \in {UnclaimedMeta, LegacySkippedMeta}
    /\ v2 \in BOOLEAN
    /\ snapshot = FALSE /\ cleanup_error = FALSE
    /\ external \in {"none", "foreign"}   \* an earlier activation may have left one
    /\ slot = EmptySlot
    /\ claim = [c \in Claimants |-> IF c = "guardian" THEN "guarding" ELSE "idle"]
    /\ gate = [c \in Claimants |-> FALSE]
    /\ retry_count = [c \in Claimants |-> 0]
    /\ observed = [c \in Claimants |-> UnclaimedMeta]
    /\ failed = [c \in Claimants |-> FALSE]
    /\ custodian = [c \in Claimants |-> "none"]
    /\ worker = [c \in Claimants |-> "none"]
    /\ launch = [c \in Claimants |-> "none"]
    /\ helper = [c \in Claimants |-> "none"]
    /\ invocations = 0

-----------------------------------------------------------------------------
(* Claimants *)

\* mark_completion_delivery_settled: an unknown transfer retains the event loop.
SettledAs(d) ==
    IF completion_lifecycle(d) = "NonReplayableUnknownTransfer" THEN "retained" ELSE "settled"

\* Mutant of GuardianTakesOver: every death of the supervisor counts as reconciled.
GuardianTakesOverReconciled ==
    /\ claim["guardian"] = "guarding"
    /\ ~Alive("supervisor")
    /\ claim' = [claim EXCEPT !["guardian"] = "settled"]
    /\ UNCHANGED <<delivery, v2, files, slot, gate, retry_count, observed, failed, chain>>

\* continuation::handed_off: a v2 handle is supervised only once its registration
\* is confirmed, so the runner owns the notification as soon as the source is
\* published.
handed_off == v2 /\ snapshot

\* guard_supervisor_exit: the guardian has reaped the supervisor.  A clean exit
\* (v2: a hand-off to the runner) leaves it nothing to reconcile.
GuardianTakesOver ==
    /\ claim["guardian"] = "guarding"
    /\ ~Alive("supervisor")
    /\ LET reconciled == IF v2 THEN handed_off ELSE claim["supervisor"] = "exited" IN
       claim' = [claim EXCEPT !["guardian"] = IF reconciled THEN "settled" ELSE "idle"]
    /\ UNCHANGED <<delivery, v2, files, slot, gate, retry_count, observed, failed, chain>>

\* try_start_completion_delivery / reconcile_completion_delivery take the lock.
\* The guardian does not come for it while a role it adopted is still held; an
\* empty tree has already cleared an unknown one in the same iteration.
AcquireLock(c) ==
    /\ claim[c] = "idle"
    /\ c = "guardian" => slot = EmptySlot \/ (TreeEmpty /\ slot # UnknownSlot)
    /\ LockFree
    /\ claim' = [claim EXCEPT ![c] = "locked"]
    /\ UNCHANGED <<delivery, v2, files, slot, gate, retry_count, observed, failed, chain>>

\* v2 without a source snapshot: Busy.  Owners poll again, a caller returns.
StartBusy(c) ==
    /\ claim[c] = "locked"
    /\ v2 /\ ~snapshot
    /\ claim' = [claim EXCEPT ![c] = IF IsOwner(c) THEN "idle" ELSE "settled"]
    /\ UNCHANGED <<delivery, v2, files, slot, gate, retry_count, observed, failed, chain>>

\* A record that permits no attempt; an orphaned provisional one is closed first.
StartSettled(c) ==
    /\ claim[c] = "locked"
    /\ v2 => snapshot
    /\ ~permits_attempt(delivery)
    /\ delivery' = IF completion_lifecycle(delivery) = "ProvisionalTransfer"
                   THEN UnknownTransferMeta(delivery.retry_count) ELSE delivery
    /\ claim' = [claim EXCEPT ![c] = SettledAs(delivery')]
    /\ UNCHANGED <<v2, files, slot, gate, retry_count, observed, failed, chain>>

\* fork fails: integrate_completion_transfer(Err) on the unchanged record
StartForkFails(c) ==
    /\ claim[c] = "locked"
    /\ v2 => snapshot
    /\ permits_attempt(delivery)
    /\ delivery' = LaunchErrorMeta(AttemptRetryCount(delivery))
    /\ claim' = [claim EXCEPT ![c] = "settled"]
    /\ UNCHANGED <<v2, files, slot, gate, retry_count, observed, failed, chain>>

StartFork(c) ==
    /\ claim[c] = "locked"
    /\ v2 => snapshot
    /\ permits_attempt(delivery)
    /\ retry_count' = [retry_count EXCEPT ![c] = AttemptRetryCount(delivery)]
    /\ claim' = [claim EXCEPT ![c] = "forked"]
    /\ IF IsOwner(c)
       THEN custodian' = [custodian EXCEPT ![c] = "gate"] /\ UNCHANGED worker
       ELSE worker' = [worker EXCEPT ![c] = "gate"] /\ UNCHANGED custodian
    /\ UNCHANGED <<delivery, v2, files, slot, gate, observed, failed, launch, helper,
                   invocations>>

\* delivery_role::publish: compare-exchange from the empty slot
PublishRole(c) ==
    /\ IsOwner(c)
    /\ claim[c] = "forked"
    /\ slot = EmptySlot
    /\ slot' = LiveSlot(c)
    /\ claim' = [claim EXCEPT ![c] = "published"]
    /\ UNCHANGED <<delivery, v2, files, gate, retry_count, observed, failed, chain>>

\* The admission byte makes the transfer Running.
OpenGate(c) ==
    /\ claim[c] = IF IsOwner(c) THEN "published" ELSE "forked"
    /\ gate' = [gate EXCEPT ![c] = TRUE]
    /\ claim' = [claim EXCEPT ![c] = "waiting"]
    /\ UNCHANGED <<delivery, v2, files, slot, retry_count, observed, failed, chain>>

\* before_reap: a custodian that died uncertified leaves the role unknown.
RetiredSlot(c) ==
    CASE slot = LiveSlot(c) -> UnknownSlot
      [] slot = CertifiedSlot(c) -> EmptySlot
      [] OTHER -> slot

\* The process that adopts owner c's role custodian, between two of its own steps
ReaperReady(c) ==
    LET r == IF Alive(c) THEN c ELSE "guardian" IN
    claim[r] \in {"idle", "waiting", "settled", "retained"}

\* The adopting reaper retires the slot, then reaps the custodian; the claimant
\* whose transfer it is learns the exit status.
ReapCustodian(c) ==
    /\ IsOwner(c)
    /\ custodian[c] = "exited"
    /\ ReaperReady(c)
    /\ slot' = RetiredSlot(c)
    /\ custodian' = [custodian EXCEPT ![c] = "reaped"]
    /\ claim' = [claim EXCEPT ![c] = IF @ = "waiting" THEN "reaped" ELSE @]
    /\ UNCHANGED <<delivery, v2, files, gate, retry_count, observed, failed, worker,
                   launch, helper, invocations>>

\* wait_for_completion_custodian of a caller, whose direct child is the worker
ReapTransferWorker(c) ==
    /\ ~IsOwner(c)
    /\ claim[c] = "waiting"
    /\ worker[c] = "exited"
    /\ worker' = [worker EXCEPT ![c] = "reaped"]
    /\ claim' = [claim EXCEPT ![c] = "reaped"]
    /\ UNCHANGED <<delivery, v2, files, slot, gate, retry_count, observed, failed,
                   custodian, launch, helper, invocations>>

\* Mutant of IntegrateRead: a recorded outcome does not stop the integration.
IntegrateReadAlwaysMerges(c) ==
    /\ claim[c] = "reaped"
    /\ observed' = [observed EXCEPT ![c] = delivery]
    /\ claim' = [claim EXCEPT ![c] = IF failed[c] THEN "merging" ELSE SettledAs(delivery)]
    /\ UNCHANGED <<delivery, v2, files, slot, gate, retry_count, failed, chain>>

\* integrate_completion_transfer, first half: read the record.  A clean child
\* needs no write, and neither does a failed one whose outcome is recorded.
IntegrateRead(c) ==
    /\ claim[c] = "reaped"
    /\ observed' = [observed EXCEPT ![c] = delivery]
    /\ claim' = [claim EXCEPT ![c] = IF failed[c] /\ needs_progress(delivery)
                                     THEN "merging" ELSE SettledAs(delivery)]
    /\ UNCHANGED <<delivery, v2, files, slot, gate, retry_count, failed, chain>>

\* What integrate_completion_transfer(Err) makes of the record d it read
LostTransferMeta(d, n) ==
    IF permits_attempt(d) THEN LaunchErrorMeta(n) ELSE UnknownTransferMeta(n)

\* Second half: write that over whatever the record is by now.
IntegrateWrite(c) ==
    /\ claim[c] = "merging"
    /\ delivery' = LostTransferMeta(observed[c], retry_count[c])
    /\ claim' = [claim EXCEPT ![c] = SettledAs(delivery')]
    /\ UNCHANGED <<v2, files, slot, gate, retry_count, observed, failed, chain>>

\* The event loop leaves cleanly (should_exit); an unknown transfer keeps it
\* until every adopted process is reaped.
SupervisorExits ==
    /\ claim["supervisor"] \in {"settled", "retained"}
    /\ claim["supervisor"] = "retained" => TreeEmpty
    /\ claim' = [claim EXCEPT !["supervisor"] = "exited"]
    /\ UNCHANGED <<delivery, v2, files, slot, gate, retry_count, observed, failed, chain>>

\* guardian_tree_drained: the supervisor is reaped and ECHILD was observed
GuardianTreeDrained ==
    /\ claim["guardian"] \in {"idle", "waiting", "settled", "retained"}
    /\ TreeEmpty
    /\ slot = UnknownSlot
    /\ slot' = EmptySlot
    /\ UNCHANGED <<delivery, v2, files, claim, gate, retry_count, observed, failed, chain>>

KillClaimant(c) ==
    /\ Kind(c) \in Killable
    /\ IF IsOwner(c) THEN Alive(c) ELSE ClaimantHolds(c)
    /\ claim' = [claim EXCEPT ![c] = "gone"]
    /\ UNCHANGED <<delivery, v2, files, slot, gate, retry_count, observed, failed, chain>>

-----------------------------------------------------------------------------
(* The role custodian of an owner *)

DrainedSlot(c) == IF slot = LiveSlot(c) THEN CertifiedSlot(c) ELSE slot

\* EOF at the gate because the owner died, or no worker could be started: no
\* execution was admitted.
CustodianRefuses(c) ==
    /\ custodian[c] = "gate"
    /\ gate[c] \/ claim[c] = "gone"
    /\ slot' = DrainedSlot(c)
    /\ failed' = [failed EXCEPT ![c] = TRUE]
    /\ custodian' = [custodian EXCEPT ![c] = "exited"]
    /\ UNCHANGED <<delivery, v2, files, claim, gate, retry_count, observed, worker,
                   launch, helper, invocations>>

CustodianForksWorker(c) ==
    /\ custodian[c] = "gate"
    /\ gate[c]
    /\ custodian' = [custodian EXCEPT ![c] = "supervising"]
    /\ worker' = [worker EXCEPT ![c] = "request"]
    /\ UNCHANGED <<delivery, v2, files, slot, claim, gate, retry_count, observed, failed,
                   launch, helper, invocations>>

\* The custodian reaps its worker and integrates the outcome: with the worker
\* gone no other process of the chain writes the record meanwhile.
CustodianReapsWorker(c) ==
    /\ custodian[c] = "supervising"
    /\ worker[c] = "exited"
    /\ worker' = [worker EXCEPT ![c] = "reaped"]
    /\ custodian' = [custodian EXCEPT ![c] = "integrated"]
    /\ delivery' = IF failed[c] /\ needs_progress(delivery)
                   THEN LostTransferMeta(delivery, retry_count[c]) ELSE delivery
    /\ failed' = [failed EXCEPT ![c] = FALSE]
    /\ UNCHANGED <<v2, files, slot, claim, gate, retry_count, observed, launch, helper,
                   invocations>>

\* Mutant of CustodianDrains: the role is certified as soon as the worker is reaped.
CustodianDrainsEarly(c) ==
    /\ custodian[c] = "integrated"
    /\ slot' = DrainedSlot(c)
    /\ custodian' = [custodian EXCEPT ![c] = "exited"]
    /\ UNCHANGED <<delivery, v2, files, claim, gate, retry_count, observed, failed,
                   worker, launch, helper, invocations>>

\* ECHILD: certify the role drained and exit.
CustodianDrains(c) ==
    /\ custodian[c] = "integrated"
    /\ helper[c] # "running"
    /\ slot' = DrainedSlot(c)
    /\ custodian' = [custodian EXCEPT ![c] = "exited"]
    /\ UNCHANGED <<delivery, v2, files, claim, gate, retry_count, observed, failed,
                   worker, launch, helper, invocations>>

KillCustodian(c) ==
    /\ "custodian" \in Killable
    /\ CustodianAlive(c)
    /\ failed' = [failed EXCEPT ![c] = TRUE]
    /\ custodian' = [custodian EXCEPT ![c] = "exited"]
    /\ UNCHANGED <<delivery, v2, files, slot, claim, gate, retry_count, observed, worker,
                   launch, helper, invocations>>

-----------------------------------------------------------------------------
(* The execution worker: execute_completion_transfer *)

WorkerMoves(c, to) ==
    /\ worker' = [worker EXCEPT ![c] = to]
    /\ UNCHANGED <<v2, snapshot, slot, claim, gate, retry_count, observed, custodian>>

\* A caller's worker waits at its own gate; EOF, or a failure to shed the
\* descriptors it inherited, exits 70.
WorkerPassesGate(c) ==
    /\ worker[c] = "gate"
    /\ gate[c]
    /\ WorkerMoves(c, "request")
    /\ UNCHANGED <<delivery, external, cleanup_error, failed, launch, helper,
                   invocations>>

WorkerRefuses(c) ==
    /\ worker[c] = "gate"
    /\ gate[c] \/ claim[c] = "gone"
    /\ failed' = [failed EXCEPT ![c] = TRUE]
    /\ WorkerMoves(c, "exited")
    /\ UNCHANGED <<delivery, external, cleanup_error, launch, helper, invocations>>

\* How the parts of the handle's pinned helper may fail to be the registered
\* ones: its private environment, its interpreter, its executable.
load_delivery_helper_environment == {"invalid", "unavailable", "changed"}
load_bound_interpreter == {"unavailable", "changed"}
from_provenance ==
    {"legacy", "invalid", "unavailable", "changed"}
    \cup load_delivery_helper_environment \cup load_bound_interpreter

\* completion_request fails.  Legacy work records a pre-admission failure, ...
WorkerRequestFails(c) ==
    /\ worker[c] = "request"
    /\ ~v2
    /\ \E code \in from_provenance : delivery' = HelperErrorMeta(code, retry_count[c])
    /\ WorkerMoves(c, "leaving")
    /\ UNCHANGED <<external, cleanup_error, failed, launch, helper, invocations>>

\* ... a v2 worker reports it by failing.
ContinuationRequestFails(c) ==
    /\ worker[c] = "request"
    /\ v2
    /\ failed' = [failed EXCEPT ![c] = TRUE]
    /\ WorkerMoves(c, "exited")
    /\ UNCHANGED <<delivery, external, cleanup_error, launch, helper, invocations>>

\* The write-ahead claim
WorkerClaims(c) ==
    /\ worker[c] = "request"
    /\ delivery' = ProvisionalMeta
    /\ WorkerMoves(c, "provisional")
    /\ UNCHANGED <<external, cleanup_error, failed, launch, helper, invocations>>

\* begin_external_transfer_custody: owned only if no earlier marker remains
WorkerBeginsCustody(c) ==
    /\ ~IsOwner(c)
    /\ worker[c] = "provisional"
    /\ external' = IF external = "none" THEN c ELSE external
    /\ WorkerMoves(c, "custody")
    /\ UNCHANGED <<delivery, cleanup_error, failed, launch, helper, invocations>>

ReadyToSpawn(c) == worker[c] = IF IsOwner(c) THEN "provisional" ELSE "custody"

\* end_external_transfer_custody by the attempt that owns the marker; a failure
\* is recorded beside the unchanged helper result.
EndsExternalCustody(c) ==
    \/ /\ external' = IF external = c THEN "none" ELSE external
       /\ UNCHANGED cleanup_error
    \/ /\ external = c
       /\ cleanup_error' = TRUE
       /\ UNCHANGED external

\* No custody marker could be written, or the helper could not be spawned
WorkerSpawnFails(c) ==
    /\ \/ worker[c] = "provisional" /\ ~IsOwner(c) /\ UNCHANGED <<external, cleanup_error>>
       \/ ReadyToSpawn(c) /\ EndsExternalCustody(c)
    /\ launch' = [launch EXCEPT ![c] = "not_started"]
    /\ WorkerMoves(c, "record")
    /\ UNCHANGED <<delivery, failed, helper, invocations>>

WorkerSpawns(c) ==
    /\ ReadyToSpawn(c)
    /\ helper' = [helper EXCEPT ![c] = "running"]
    /\ invocations' = invocations + 1
    /\ WorkerMoves(c, "waiting")
    /\ UNCHANGED <<delivery, external, cleanup_error, failed, launch>>

\* The helper's raw wait result ends the attempt's custody.  The structured v2
\* command turns an unsuccessful exit into an admitted error before custody is
\* decided, and so keeps the marker.
WorkerWaits(c) ==
    /\ worker[c] = "waiting"
    /\ helper[c] = "exited"
    /\ \E result \in {"success", "failure"} :
        /\ launch' = [launch EXCEPT ![c] = result]
        /\ IF v2 /\ result = "failure" THEN UNCHANGED <<external, cleanup_error>>
                                       ELSE EndsExternalCustody(c)
    /\ WorkerMoves(c, "record")
    /\ UNCHANGED <<delivery, failed, helper, invocations>>

\* Mutant of WorkerWaitFails: a wait error discharges the marker.
WorkerWaitFailsDischarges(c) ==
    /\ worker[c] = "waiting"
    /\ launch' = [launch EXCEPT ![c] = "wait_error"]
    /\ EndsExternalCustody(c)
    /\ WorkerMoves(c, "record")
    /\ UNCHANGED <<delivery, failed, helper, invocations>>

\* waitpid itself fails: cessation is not proved and the marker stays.
WorkerWaitFails(c) ==
    /\ worker[c] = "waiting"
    /\ launch' = [launch EXCEPT ![c] = "wait_error"]
    /\ WorkerMoves(c, "record")
    /\ UNCHANGED <<delivery, external, cleanup_error, failed, helper, invocations>>

\* Legacy work keeps a conclusive launch failure pre-admission; the v2 transfer
\* closes the attempt whatever the error was.
WorkerRecords(c) ==
    /\ worker[c] = "record"
    /\ delivery' = IF launch[c] = "not_started" /\ ~v2
                   THEN LaunchErrorMeta(retry_count[c]) ELSE AdmittedMeta
    /\ WorkerMoves(c, "leaving")
    /\ UNCHANGED <<external, cleanup_error, failed, launch, helper, invocations>>

\* _exit(0) once the record is written
WorkerExits(c) ==
    /\ worker[c] = "leaving"
    /\ WorkerMoves(c, "exited")
    /\ UNCHANGED <<delivery, external, cleanup_error, failed, launch, helper,
                   invocations>>

\* Killed, or a metadata write failed and the worker exited 70
WorkerFails(c) ==
    /\ "worker" \in Killable
    /\ WorkerAlive(c)
    /\ failed' = [failed EXCEPT ![c] = TRUE]
    /\ WorkerMoves(c, "exited")
    /\ UNCHANGED <<delivery, external, cleanup_error, launch, helper, invocations>>

\* An orphaned worker is reaped by whoever adopted it.
ReapOrphanWorker(c) ==
    /\ worker[c] = "exited"
    /\ IF IsOwner(c) THEN custodian[c] \in {"exited", "reaped"} ELSE claim[c] = "gone"
    /\ WorkerMoves(c, "reaped")
    /\ UNCHANGED <<delivery, external, cleanup_error, failed, launch, helper,
                   invocations>>

-----------------------------------------------------------------------------
(* Environment *)

HelperExits(c) ==
    /\ helper[c] = "running"
    /\ helper' = [helper EXCEPT ![c] = "exited"]
    /\ UNCHANGED <<delivery, v2, files, slot, claim, gate, retry_count, observed, failed,
                   custodian, worker, launch, invocations>>

\* continuation::publish makes the source snapshot durable (Continuation)
PublishSource ==
    /\ v2 /\ ~snapshot
    /\ snapshot' = TRUE
    /\ UNCHANGED <<delivery, v2, external, cleanup_error, slot, claim, gate,
                   retry_count, observed, failed, chain>>

ClaimantStep(c) ==
    \/ AcquireLock(c) \/ StartBusy(c) \/ StartSettled(c) \/ StartForkFails(c)
    \/ StartFork(c) \/ PublishRole(c) \/ OpenGate(c) \/ ReapCustodian(c)
    \/ ReapTransferWorker(c) \/ IntegrateRead(c) \/ IntegrateWrite(c)

CustodianStep(c) ==
    \/ CustodianRefuses(c) \/ CustodianForksWorker(c) \/ CustodianReapsWorker(c)
    \/ CustodianDrains(c)

WorkerStep(c) ==
    \/ WorkerPassesGate(c) \/ WorkerRefuses(c) \/ WorkerRequestFails(c)
    \/ ContinuationRequestFails(c) \/ WorkerClaims(c) \/ WorkerBeginsCustody(c)
    \/ WorkerSpawnFails(c) \/ WorkerSpawns(c) \/ WorkerWaits(c) \/ WorkerWaitFails(c)
    \/ WorkerRecords(c) \/ WorkerExits(c) \/ ReapOrphanWorker(c)

Kill(c) == KillClaimant(c) \/ KillCustodian(c) \/ WorkerFails(c)

Next ==
    \/ \E c \in Claimants : \/ ClaimantStep(c) \/ CustodianStep(c) \/ WorkerStep(c)
                            \/ HelperExits(c) \/ Kill(c)
    \/ GuardianTakesOver \/ SupervisorExits \/ GuardianTreeDrained \/ PublishSource

Spec == Init /\ [][Next]_vars

\* The scheduling the code relies on: every live process keeps running, and the
\* source of a v2 handle is published eventually.  Nothing is assumed of kills,
\* of the helper, nor of anyone issuing a status or cancel command.
Fairness ==
    /\ \A c \in Claimants : /\ WF_vars((IsOwner(c) \/ claim[c] # "idle") /\ ClaimantStep(c))
                            /\ WF_vars(CustodianStep(c))
                            /\ WF_vars(WorkerStep(c))
    /\ WF_vars(GuardianTakesOver) /\ WF_vars(GuardianTreeDrained)
    /\ WF_vars(PublishSource)

FairSpec == Spec /\ Fairness

-----------------------------------------------------------------------------
(* Properties *)

\* README: completion keeps at-most-once admitted invocation.  However the
\* claimants, their children and their deaths interleave, one handle spawns the
\* completion helper at most once (execute_completion_transfer's write-ahead
\* claim, start_completion_delivery's closing of orphaned claims).
AtMostOnceAdmission == invocations <= 1

\* The replay bound that survives even a lost custodian: one observer-triggered
\* retry per handle (retry_count), so never a third invocation.
ReplayBounded == invocations <= 2 /\ delivery.retry_count <= 1

\* signal_descendants spares nothing when the slot is empty or certified: while
\* a worker or helper of an owner's attempt lives, the slot names its live
\* custodian or is unknown, so cancellation can never hit the delivery.
RoleCoversExecution ==
    \A c \in Owners : WorkerAlive(c) \/ helper[c] = "running" =>
        slot \in {LiveSlot(c), UnknownSlot}

\* A caller's helper is never left running without a custody marker to veto the
\* reaper: worker loss and wait errors keep the marker, whoever owns it.
ExternalHelperCovered ==
    \A c \in Callers : helper[c] = "running" => external # "none"

\* DESIGN.md: an already recorded delivery outcome survives abnormal exit of the
\* execution role, and no later claimant rewrites it.
RecordedOutcomeSurvives ==
    [][completion_lifecycle(delivery) = "AdmittedOutcome" => delivery' = delivery]_delivery

\* Delivery of a legacy handle is not abandoned: unless the guardian or a caller
\* is killed, or a helper runs for ever, the record leaves unclaimed and
\* provisional, however the supervisor and the workers died on the way.  (The
\* guardian leaves a v2 handle that was handed off to the runner.)
DeliveryReachesOutcome ==
    \/ v2
    \/ <>(\E c \in Callers \cup {"guardian"} : claim[c] = "gone")
    \/ <>[](\E c \in Claimants : helper[c] = "running")
    \/ <>[](completion_lifecycle(delivery) \notin {"Unclaimed", "ProvisionalTransfer"})

\* The abstract promise, read off the persisted record
RecordState ==
    CASE completion_lifecycle(delivery) = "Unclaimed" -> "fresh"
      [] completion_lifecycle(delivery) = "RetryablePreAdmissionFailure" -> "retryable"
      [] completion_lifecycle(delivery) = "ProvisionalTransfer" -> "claimed"
      [] OTHER -> "closed"

Promise == INSTANCE AtMostOnceDelivery
    WITH record <- RecordState,
         retried <- (\E c \in Claimants : retry_count[c] > 0),
         admitted <- invocations

\* The protocol implements the promise of AtMostOnceDelivery.
ImplementsPromise == Promise!ASpec
=============================================================================
