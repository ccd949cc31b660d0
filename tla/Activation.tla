----------------------------- MODULE Activation -----------------------------
(***************************************************************************)
(* Explicit detach of one sync handle (src/src/delivery.rs detach and the  *)
(* activation files of state.rs).                                          *)
(*                                                                         *)
(* The settled mode is spread over four files: delivery-mode, its mirror   *)
(* in meta.json, the create-once attempt marker and the outcome.  detach   *)
(* and an eligible `mode` caller hold delivery.lock; detach forks a worker *)
(* that inherits it.  The other writers of meta.json copy the mode file    *)
(* into it: terminal publication under completion.lock, which the mirror   *)
(* repair takes as well, the root status and completion transfers under    *)
(* delivery.lock, and the supervisor's start-up under no lock at all.  A   *)
(* process may die between two writes and a write may fail before or after *)
(* its rename.  (An ineligible `mode` caller reads the files with no lock  *)
(* and changes none of them; it is left out.)                              *)
(***************************************************************************)
EXTENDS Naturals

CONSTANTS Detachers,   \* eligible detach / mode commands, each issued again and again
          Faults,      \* "write": no effect, "sync": effect but an error
          Killable,    \* which kinds of process may be killed
          MaxInvocations   \* bound on the v2 retries explored

ASSUME FaultsAssumption == Faults \subseteq {"write", "sync"}
ASSUME ActivationKillableAssumption == Killable \subseteq {"caller", "worker"}
ASSUME MaxInvocationsAssumption == MaxInvocations \in Nat \ {0}

VARIABLES
    v2,           \* continuation-v2 is enabled for this handle
    mode,         \* delivery-mode
    mirror,       \* meta.delivery_mode; late: put there by a start-up rewrite
                  \* that had read another mode (history)
    attempted,    \* activation-attempted exists
    outcome,      \* activation-outcome
    committed,    \* the runner has applied the activation (external)
    invocations,  \* admitted agent-bash-activate invocations
    startup,      \* the supervisor's start-up: between rewrites, holding what it read, over
    publisher,    \* terminal publication: idle, holding what it read, done
    caller,       \* program counter of each command
    op,           \* what it is doing: detach, retry (v2) or mode
    settle,       \* step of its or its worker's settle_orphaned_activation
    worker,       \* program counter of its transfer worker
    failed,       \* the worker's result is an error
    helper,       \* the helper the worker spawned
    result        \* what the command reported

records == <<mode, mirror, attempted, outcome>>
vars == <<v2, records, committed, invocations, startup, publisher, caller, op, settle, worker,
          failed, helper, result>>

Outcomes == {"none", "pending", "succeeded", "pre_admission_failed", "failed", "unknown"}
CallerStates == {"idle", "settling", "decide", "waiting", "closing", "final", "repair",
                 "returned", "gone"}
WorkerStates == {"none", "attempt", "mode", "pending", "spawn", "helping", "not_started",
                 "failure", "success", "settling", "mirror_failure", "mirror_success",
                 "readback", "commit", "exited"}

TypeOK ==
    /\ v2 \in BOOLEAN /\ attempted \in BOOLEAN /\ committed \in BOOLEAN
    /\ mode \in {"sync", "async"} /\ mirror \in [mode : {"sync", "async"}, late : BOOLEAN]
    /\ outcome \in Outcomes
    /\ invocations \in 0 .. MaxInvocations
    /\ startup \in {"idle", "sync", "async", "over"}
    /\ publisher \in {"idle", "sync", "async", "done"}
    /\ caller \in [Detachers -> CallerStates]
    /\ op \in [Detachers -> {"detach", "retry", "mode"}]
    /\ settle \in [Detachers -> {"off", "mode", "mirror", "outcome", "attempt", "unknown"}]
    /\ worker \in [Detachers -> WorkerStates]
    /\ failed \in [Detachers -> BOOLEAN]
    /\ helper \in [Detachers -> {"none", "running", "success", "failure"}]
    /\ result \in [Detachers -> {"none", "async", "sync", "error"}]

\* A handle started with --sync and never detached, its supervisor starting up
Init ==
    /\ v2 \in BOOLEAN
    /\ mode = "sync" /\ mirror = [mode |-> "sync", late |-> FALSE]
    /\ attempted = FALSE /\ outcome = "none"
    /\ committed = FALSE /\ invocations = 0 /\ startup = "idle" /\ publisher = "idle"
    /\ caller = [p \in Detachers |-> "idle"]
    /\ op = [p \in Detachers |-> "detach"]
    /\ settle = [p \in Detachers |-> "off"]
    /\ worker = [p \in Detachers |-> "none"]
    /\ failed = [p \in Detachers |-> FALSE]
    /\ helper = [p \in Detachers |-> "none"]
    /\ result = [p \in Detachers |-> "none"]

-----------------------------------------------------------------------------
(* Files and locks *)

\* The outcome of one durable write, and what it leaves in the file
WriteResults == {"done"} \cup Faults
Left(w, old, new) == IF w = "write" THEN old ELSE new

\* activation_transfer_state
TransferOutcome(marker, file) ==
    IF file # "none" THEN file ELSE IF marker THEN "claimed" ELSE "unclaimed"

\* require_settled_activation
Settled(o) == o \in {"unclaimed", "succeeded"}

Commanding(p) == caller[p] \notin {"idle", "returned", "gone"}
WorkerAlive(p) == worker[p] \notin {"none", "exited"}
\* The worker inherits the locked file description; the helper does not.
LockFree == \A p \in Detachers : ~Commanding(p) /\ ~WorkerAlive(p)
CompletionFree == publisher \in {"idle", "done"}

\* write_meta_atomic: the record with the mode that was read from the mode file
Meta(read) == [mode |-> read, late |-> FALSE]

\* Mutant of Repairs: the record is rewritten without completion.lock.
RepairsUnlocked(w, to) ==
    mirror' = Left(w, mirror, IF mirror.mode # to THEN Meta(mode) ELSE mirror)

\* repair_delivery_mode_mirror: write_meta_atomic itself rereads the mode file.
Repairs(w, to) ==
    /\ CompletionFree
    /\ mirror' = Left(w, mirror, IF mirror.mode # to THEN Meta(mode) ELSE mirror)

-----------------------------------------------------------------------------
(* settle_orphaned_activation, run by a command or by its worker *)

Settling(p) == \/ worker[p] = "settling"
               \/ caller[p] \in {"settling", "closing"} /\ ~WorkerAlive(p)

\* A worker settles only on its way to an error; a command goes on.
SettleReturns(p) ==
    IF worker[p] = "settling"
    THEN /\ worker' = [worker EXCEPT ![p] = "exited"]
         /\ failed' = [failed EXCEPT ![p] = TRUE]
         /\ UNCHANGED <<caller, result>>
    ELSE /\ caller' = [caller EXCEPT ![p] = IF @ = "settling" THEN "decide" ELSE "final"]
         /\ UNCHANGED <<worker, failed, result>>

SettleFails(p) ==
    IF worker[p] = "settling"
    THEN /\ worker' = [worker EXCEPT ![p] = "exited"]
         /\ failed' = [failed EXCEPT ![p] = TRUE]
         /\ UNCHANGED <<caller, result>>
    ELSE /\ caller' = [caller EXCEPT ![p] = "returned"]
         /\ result' = [result EXCEPT ![p] = "error"]
         /\ UNCHANGED <<worker, failed>>

SettleFrame == UNCHANGED <<v2, committed, invocations, startup, publisher, op, helper>>

SettleReads(p) ==
    /\ Settling(p) /\ settle[p] = "off"
    /\ LET o == TransferOutcome(attempted, outcome) IN
       IF o \in {"claimed", "pre_admission_failed", "pending"}
       THEN /\ settle' = [settle EXCEPT ![p] = IF o = "pending" THEN "unknown" ELSE "mode"]
            /\ UNCHANGED <<caller, worker, failed, result>>
       ELSE SettleReturns(p) /\ UNCHANGED settle
    /\ SettleFrame /\ UNCHANGED records

\* One write of the rollback, at step `at`; the last one returns.
SettleStep(p, at, next, w) ==
    /\ Settling(p) /\ settle[p] = at
    /\ IF w = "done" /\ next # "off"
       THEN settle' = [settle EXCEPT ![p] = next] /\ UNCHANGED <<caller, worker, failed, result>>
       ELSE /\ settle' = [settle EXCEPT ![p] = "off"]
            /\ IF w = "done" THEN SettleReturns(p) ELSE SettleFails(p)
    /\ SettleFrame

\* Mutant of SettleMode: the claim is released before the mode is restored.
SettleModeReleasesClaim(p) == \E w \in WriteResults :
    /\ SettleStep(p, "mode", "mirror", w)
    /\ mode' = Left(w, mode, "sync")
    /\ attempted' = FALSE
    /\ UNCHANGED <<mirror, outcome>>

SettleMode(p) == \E w \in WriteResults :
    /\ SettleStep(p, "mode", "mirror", w)
    /\ mode' = Left(w, mode, "sync")
    /\ UNCHANGED <<mirror, attempted, outcome>>

SettleMirror(p) == \E w \in WriteResults :
    /\ SettleStep(p, "mirror", "outcome", w)
    /\ Repairs(w, "sync")
    /\ UNCHANGED <<mode, attempted, outcome>>

SettleOutcome(p) == \E w \in WriteResults :
    /\ SettleStep(p, "outcome", "attempt", w)
    /\ outcome' = Left(w, outcome, "none")
    /\ UNCHANGED <<mode, mirror, attempted>>

SettleAttempt(p) == \E w \in WriteResults :
    /\ SettleStep(p, "attempt", "off", w)
    /\ attempted' = Left(w, attempted, FALSE)
    /\ UNCHANGED <<mode, mirror, outcome>>

SettleUnknown(p) == \E w \in WriteResults :
    /\ SettleStep(p, "unknown", "off", w)
    /\ outcome' = Left(w, outcome, "unknown")
    /\ UNCHANGED <<mode, mirror, attempted>>

-----------------------------------------------------------------------------
(* detach and settled_delivery_mode *)

CallerFrame == UNCHANGED <<v2, committed, invocations, startup, publisher, settle, helper>>

Returns(p, r) ==
    /\ caller' = [caller EXCEPT ![p] = "returned"]
    /\ result' = [result EXCEPT ![p] = r]

\* A new command, in a slot nothing of an earlier one runs in
AcquireLock(p) ==
    /\ LockFree
    /\ helper[p] # "running"
    /\ caller' = [caller EXCEPT ![p] = "settling"]
    /\ \E o \in {"detach", "mode"} : op' = [op EXCEPT ![p] = o]
    /\ worker' = [worker EXCEPT ![p] = "none"]
    /\ failed' = [failed EXCEPT ![p] = FALSE]
    /\ result' = [result EXCEPT ![p] = "none"]
    /\ UNCHANGED <<v2, records, committed, invocations, startup, publisher, settle, helper>>

\* observed_delivery_mode under the lock
ReportMode(p) ==
    /\ caller[p] = "decide" /\ op[p] = "mode"
    /\ Returns(p, IF mode = "sync" THEN "sync"
                  ELSE IF Settled(TransferOutcome(attempted, outcome)) THEN "async" ELSE "error")
    /\ CallerFrame /\ UNCHANGED <<records, op, worker, failed>>

\* retry_uncertain_activation applies to a v2 handle whose outcome is in doubt
Uncertain == v2 /\ outcome \in {"failed", "unknown"}

\* Already detached: require_settled_activation, then the mirror
DetachAgain(p) ==
    /\ caller[p] = "decide" /\ op[p] = "detach"
    /\ mode = "async" /\ ~Uncertain
    /\ IF Settled(TransferOutcome(attempted, outcome))
       THEN caller' = [caller EXCEPT ![p] = "repair"] /\ UNCHANGED result
       ELSE Returns(p, "error")
    /\ CallerFrame /\ UNCHANGED <<records, op, worker, failed>>

\* activate_request fails, or fork of the retry worker does
DetachRefused(p) ==
    /\ caller[p] = "decide" /\ op[p] = "detach"
    /\ mode = "async" => Uncertain
    /\ Returns(p, "error")
    /\ CallerFrame /\ UNCHANGED <<records, op, worker, failed>>

DetachRetries(p) ==
    /\ caller[p] = "decide" /\ op[p] = "detach"
    /\ mode = "async" /\ Uncertain
    /\ op' = [op EXCEPT ![p] = "retry"]
    /\ caller' = [caller EXCEPT ![p] = "waiting"]
    /\ worker' = [worker EXCEPT ![p] = "spawn"]
    /\ CallerFrame /\ UNCHANGED <<records, failed, result>>

DetachForks(p) ==
    /\ caller[p] = "decide" /\ op[p] = "detach"
    /\ mode = "sync"
    /\ caller' = [caller EXCEPT ![p] = "waiting"]
    /\ worker' = [worker EXCEPT ![p] = "attempt"]
    /\ CallerFrame /\ UNCHANGED <<records, op, failed, result>>

\* fork fails: the command settles and reports the error
DetachForkFails(p) ==
    /\ caller[p] = "decide" /\ op[p] = "detach"
    /\ mode = "sync"
    /\ caller' = [caller EXCEPT ![p] = "closing"]
    /\ failed' = [failed EXCEPT ![p] = TRUE]
    /\ CallerFrame /\ UNCHANGED <<records, op, worker, result>>

ReapWorker(p) ==
    /\ caller[p] = "waiting" /\ worker[p] = "exited"
    /\ worker' = [worker EXCEPT ![p] = "none"]
    /\ IF op[p] = "detach"
       THEN caller' = [caller EXCEPT ![p] = "closing"] /\ UNCHANGED result
       ELSE IF ~failed[p] /\ Settled(TransferOutcome(attempted, outcome))
       THEN caller' = [caller EXCEPT ![p] = "repair"] /\ UNCHANGED result
       ELSE Returns(p, "error")
    /\ CallerFrame /\ UNCHANGED <<records, op, failed>>

RepairMirror(p) ==
    /\ caller[p] = "repair"
    /\ \E w \in WriteResults : /\ Repairs(w, "async")
                               /\ Returns(p, IF w = "done" THEN "async" ELSE "error")
    /\ CallerFrame /\ UNCHANGED <<mode, attempted, outcome, op, worker, failed>>

FinishDetach(p) ==
    /\ caller[p] = "final"
    /\ Returns(p, IF Settled(TransferOutcome(attempted, outcome)) /\ ~failed[p]
                  THEN "async" ELSE "error")
    /\ CallerFrame /\ UNCHANGED <<records, op, worker, failed>>

KillCaller(p) ==
    /\ "caller" \in Killable
    /\ Commanding(p)
    /\ caller' = [caller EXCEPT ![p] = "gone"]
    /\ settle' = [settle EXCEPT ![p] = IF WorkerAlive(p) THEN @ ELSE "off"]
    /\ UNCHANGED <<v2, records, committed, invocations, startup, publisher, op, worker, failed,
                   helper, result>>

-----------------------------------------------------------------------------
(* The transfer worker *)

WorkerFrame == UNCHANGED <<v2, startup, publisher, caller, op, settle, result>>

\* The worker goes on, or exits 70 when write result w is an error.
WorkerGoes(p, w, to) ==
    IF w = "done" THEN worker' = [worker EXCEPT ![p] = to] /\ UNCHANGED failed
    ELSE worker' = [worker EXCEPT ![p] = "exited"] /\ failed' = [failed EXCEPT ![p] = TRUE]

\* record_activation_attempt; publication failure rolls the new marker back.
WorkerAttempts(p) ==
    /\ worker[p] = "attempt"
    /\ \E w \in WriteResults :
        /\ WorkerGoes(p, w, "mode")
        /\ attempted' \in CASE w = "done" -> {TRUE}
                            [] w = "write" -> {attempted}
                            [] w = "sync" -> BOOLEAN
    /\ WorkerFrame
    /\ UNCHANGED <<mode, mirror, outcome, committed, invocations, helper>>

\* The mode becomes async before the outcome is pending; a failure rolls the
\* claim back, and ignores whether that worked.
WorkerSetsMode(p) ==
    /\ worker[p] = "mode"
    /\ \E w \in WriteResults :
        /\ WorkerGoes(p, w, "pending")
        /\ mode' = Left(w, mode, "async")
        /\ attempted' \in IF w = "done" THEN {attempted} ELSE {FALSE, attempted}
    /\ WorkerFrame
    /\ UNCHANGED <<mirror, outcome, committed, invocations, helper>>

\* Mutant of WorkerWritesPending: the helper is admitted without a durable pending.
WorkerSkipsPending(p) ==
    /\ worker[p] = "pending"
    /\ worker' = [worker EXCEPT ![p] = "spawn"]
    /\ WorkerFrame
    /\ UNCHANGED <<records, committed, invocations, failed, helper>>

WorkerWritesPending(p) ==
    /\ worker[p] = "pending"
    /\ \E w \in WriteResults :
        /\ outcome' = Left(w, outcome, "pending")
        /\ worker' = [worker EXCEPT ![p] = IF w = "done" THEN "spawn" ELSE "settling"]
    /\ WorkerFrame
    /\ UNCHANGED <<mode, mirror, attempted, committed, invocations, failed, helper>>

\* Known non-admission: no custody marker, or no process.  A retry keeps the
\* previous outcome and asks whether the earlier request was committed.
WorkerSpawnFails(p) ==
    /\ worker[p] = "spawn"
    /\ worker' = [worker EXCEPT ![p] = IF op[p] = "retry" THEN "readback" ELSE "not_started"]
    /\ WorkerFrame
    /\ UNCHANGED <<records, committed, invocations, failed, helper>>

WorkerSpawns(p) ==
    /\ worker[p] = "spawn"
    /\ invocations < MaxInvocations
    /\ helper' = [helper EXCEPT ![p] = "running"]
    /\ invocations' = invocations + 1
    /\ worker' = [worker EXCEPT ![p] = "helping"]
    /\ WorkerFrame
    /\ UNCHANGED <<records, committed, failed>>

\* wait_with_output returns the exit status, or an error while the helper runs on.
WorkerWaits(p) ==
    /\ worker[p] = "helping"
    /\ \E r \in {"failure", helper[p]} \ {"running"} :
        worker' = [worker EXCEPT ![p] = IF op[p] # "retry" THEN r
                                        ELSE IF r = "success" THEN "commit" ELSE "readback"]
    /\ helper' = [helper EXCEPT ![p] = IF @ = "running" THEN @ ELSE "none"]
    /\ WorkerFrame
    /\ UNCHANGED <<records, committed, invocations, failed>>

\* Mutant of WorkerRecords: the raw helper result is written, which the decoder
\* of activation_transfer_state does not know.
WorkerRecordsRaw(p) ==
    /\ worker[p] \in {"failure", "success"}
    /\ outcome' = worker[p]
    /\ WorkerGoes(p, "done", IF worker[p] = "success" THEN "mirror_success" ELSE "mirror_failure")
    /\ WorkerFrame
    /\ UNCHANGED <<mode, mirror, attempted, committed, invocations, helper>>

\* The outcome of the admitted helper, then the mirror and the worker's status
WorkerRecords(p) ==
    /\ worker[p] \in {"failure", "success"}
    /\ \E w \in WriteResults :
        /\ outcome' = Left(w, outcome, IF worker[p] = "success" THEN "succeeded" ELSE "failed")
        /\ WorkerGoes(p, w, IF worker[p] = "success" THEN "mirror_success" ELSE "mirror_failure")
    /\ WorkerFrame
    /\ UNCHANGED <<mode, mirror, attempted, committed, invocations, helper>>

WorkerMirrors(p) ==
    /\ worker[p] \in {"mirror_failure", "mirror_success"}
    /\ \E w \in WriteResults :
        /\ Repairs(w, "async")
        /\ failed' = [failed EXCEPT ![p] = w # "done" \/ worker[p] = "mirror_failure"]
    /\ worker' = [worker EXCEPT ![p] = "exited"]
    /\ WorkerFrame
    /\ UNCHANGED <<mode, attempted, outcome, committed, invocations, helper>>

\* The pre-admission failure is persisted before the rollback it calls for.
WorkerRollsBack(p) ==
    /\ worker[p] = "not_started"
    /\ \E w \in WriteResults :
        /\ outcome' = Left(w, outcome, "pre_admission_failed")
        /\ WorkerGoes(p, w, "settling")
    /\ WorkerFrame
    /\ UNCHANGED <<mode, mirror, attempted, committed, invocations, helper>>

\* readback_activation_committed may also fail, which counts as uncommitted.
WorkerReadsBack(p) ==
    /\ worker[p] = "readback"
    /\ \E confirmed \in BOOLEAN :
        /\ confirmed => committed
        /\ WorkerGoes(p, IF confirmed THEN "done" ELSE "uncommitted", "commit")
    /\ WorkerFrame
    /\ UNCHANGED <<records, committed, invocations, helper>>

WorkerCommits(p) ==
    /\ worker[p] = "commit"
    /\ \E w \in WriteResults :
        /\ outcome' = Left(w, outcome, "succeeded")
        /\ failed' = [failed EXCEPT ![p] = w # "done"]
    /\ worker' = [worker EXCEPT ![p] = "exited"]
    /\ WorkerFrame
    /\ UNCHANGED <<mode, mirror, attempted, committed, invocations, helper>>

KillWorker(p) ==
    /\ "worker" \in Killable
    /\ WorkerAlive(p)
    /\ worker' = [worker EXCEPT ![p] = "exited"]
    /\ failed' = [failed EXCEPT ![p] = TRUE]
    /\ settle' = [settle EXCEPT ![p] = "off"]
    /\ helper' = [helper EXCEPT ![p] = IF @ = "running" THEN @ ELSE "none"]
    /\ UNCHANGED <<v2, records, committed, invocations, startup, publisher, caller, op, result>>

-----------------------------------------------------------------------------
(* The helper *)

\* The runner applies an activation its helper reports as successful; one that
\* failed or lost its reply may have been applied as well.
HelperExits(p) ==
    /\ helper[p] = "running"
    /\ \E r \in {"success", "failure"}, applied \in BOOLEAN :
        /\ r = "success" => applied
        /\ helper' = [helper EXCEPT ![p] = IF worker[p] = "helping" THEN r ELSE "none"]
        /\ committed' = (committed \/ applied)
    /\ UNCHANGED <<v2, records, invocations, startup, publisher, caller, op, settle, worker,
                   failed, result>>

-----------------------------------------------------------------------------
(* The other writers of meta.json *)

MetaFrame == UNCHANGED <<v2, mode, attempted, outcome, committed, invocations, caller, op,
                         settle, worker, failed, helper, result>>

\* persist_supervisor_meta_best_effort, several times before the event loop: it
\* copies the mode file without a lock and ignores a failure.
StartupReads ==
    /\ startup = "idle"
    /\ startup' = mode
    /\ MetaFrame /\ UNCHANGED <<mirror, publisher>>

StartupWrites ==
    /\ startup \in {"sync", "async"}
    /\ \E w \in WriteResults :
        mirror' = Left(w, mirror, [mode |-> startup, late |-> startup # mode])
    /\ startup' = "idle"
    /\ MetaFrame /\ UNCHANGED publisher

\* The loop begins, start-up ends in an error, or the supervisor dies in it.
StartupEnds ==
    /\ startup # "over"
    /\ startup' = "over"
    /\ MetaFrame /\ UNCHANGED <<mirror, publisher>>

\* flush_root_status and the completion transfers, under delivery.lock
DeliveryWrites ==
    /\ LockFree /\ startup = "over"
    /\ mirror' = Meta(mode)
    /\ MetaFrame /\ UNCHANGED <<startup, publisher>>

\* publish_terminal_with_delivery_disposition, by the supervisor after its start-up
\* or by another after its death: under completion.lock the record is read, and
\* write_meta_atomic copies the mode file into it.
PublishReads ==
    /\ publisher = "idle" /\ startup = "over"
    /\ publisher' = mode
    /\ MetaFrame /\ UNCHANGED <<mirror, startup>>

\* Mutant of PublishWrites: completion.lock is not released.
PublishWritesKeepsLock ==
    /\ publisher \in {"sync", "async"}
    /\ mirror' = Meta(publisher)
    /\ MetaFrame /\ UNCHANGED <<startup, publisher>>

PublishWrites ==
    /\ publisher \in {"sync", "async"}
    /\ mirror' = Meta(publisher)
    /\ publisher' = "done"
    /\ MetaFrame /\ UNCHANGED startup

-----------------------------------------------------------------------------

Settle(p) ==
    \/ SettleReads(p) \/ SettleMode(p) \/ SettleMirror(p) \/ SettleOutcome(p)
    \/ SettleAttempt(p) \/ SettleUnknown(p)

Command(p) ==
    \/ ReportMode(p) \/ DetachAgain(p) \/ DetachRefused(p) \/ DetachRetries(p)
    \/ DetachForks(p) \/ DetachForkFails(p) \/ ReapWorker(p) \/ RepairMirror(p)
    \/ FinishDetach(p)

Work(p) ==
    \/ WorkerAttempts(p) \/ WorkerSetsMode(p) \/ WorkerWritesPending(p) \/ WorkerSpawnFails(p)
    \/ WorkerSpawns(p) \/ WorkerWaits(p) \/ WorkerRecords(p) \/ WorkerMirrors(p)
    \/ WorkerRollsBack(p) \/ WorkerReadsBack(p) \/ WorkerCommits(p)

RewriteMeta ==
    \/ StartupReads \/ StartupWrites \/ StartupEnds \/ DeliveryWrites
    \/ PublishReads \/ PublishWrites

Next ==
    \/ \E p \in Detachers : \/ AcquireLock(p) \/ Settle(p) \/ Command(p) \/ Work(p)
                            \/ KillCaller(p) \/ KillWorker(p) \/ HelperExits(p)
    \/ RewriteMeta

Spec == Init /\ [][Next]_vars

\* A worker blocked in wait_with_output has no step of its own to take.
Blocked(p) == worker[p] = "helping" /\ helper[p] = "running"

\* Live processes run; nothing is assumed of kills, of the helper (nor that waiting
\* for it ever fails), of the supervisor, or of when a command is issued.
Fairness ==
    /\ \A p \in Detachers : /\ WF_vars(Settle(p)) /\ WF_vars(Command(p))
                             /\ WF_vars(Work(p) /\ ~Blocked(p))
    /\ WF_vars(PublishWrites)

FairSpec == Spec /\ Fairness

-----------------------------------------------------------------------------
(* Properties *)

\* README: legacy activation keeps at-most-once admitted invocation, and an
\* admitted one is never erased: whatever dies or fails afterwards, the files
\* say async with an outcome, so no later detach can start from sync again.
AdmittedActivationKept ==
    invocations > 0 => /\ mode = "async"
                       /\ outcome \notin {"none", "pre_admission_failed"}
                       /\ v2 \/ invocations = 1

\* A detach or eligible mode command that reports async reports an activation
\* the runner has applied, and the mirror in meta.json agrees although others
\* rewrite it concurrently: only a start-up rewrite that had read the mode
\* before can put sync back, and terminal publication ends that.
AsyncReportIsTrue ==
    \A p \in Detachers : result[p] = "async" =>
        /\ committed
        /\ mode = "async"
        /\ op[p] # "mode" => mirror.mode = "async" \/ (mirror.late /\ publisher # "done")

\* DESIGN.md: rollback retains the durable attempt claim until the canonical sync
\* mode and the metadata mirror are restored, and the outcome is removed first.
\* Only a start-up rewrite that had read the mode before the rollback can have
\* undone the restored mirror.
RollbackRetainsClaim ==
    [][attempted /\ ~attempted' => /\ mode' = "sync" /\ outcome' = "none"
                                   /\ mirror'.mode = "sync" \/ mirror'.late
      ]_attempted

\* A command that took delivery.lock returns or dies, unless its helper runs for
\* ever: the nested completion.lock never closes a cycle, neither before the
\* helper nor in the repair of the mirror after it.
DetachReturns ==
    \A p \in Detachers :
        caller[p] = "settling" ~> \/ caller[p] \in {"returned", "gone"}
                                  \/ [](helper[p] = "running")
=============================================================================
