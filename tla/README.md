# Verification of agent-bash

TLA+ models of `agent-bash`, the detached bash spooler in this repository, checked with TLC on small
instances; their safety properties are proved with TLAPS for every instance. `PROJECT.json` lists
components, runs, mutants, the map from definitions to source lines, findings, hazards and theorems.

## 1. The system

`agent-bash run` creates a state directory (the *handle*), forks a **guardian**, which forks a
**supervisor**, which spawns the workload. Nothing stays in the foreground. All coordination between
these processes and later commands (`status`, `cancel`, `detach`, `mode`, `list`) goes through files:
atomically renamed records, create-once markers and `flock`s. Any process may be killed at any
instruction, and its locks go with it.

| Component | State | Operations | Hard part |
|---|---|---|---|
| Completion delivery (`delivery.rs`, `delivery_role.rs`) | `meta.delivery`, role slot, external custody marker | claim, fork custodian and worker, invoke the helper, integrate | at-most-once across crashes of every process |
| Detach / activation (`delivery.rs`, `state.rs`) | delivery-mode, its mirror, attempt claim, activation outcome | detach, retry, settle an orphan, mode | four files and no transaction; writes that fail after their rename |
| Supervision (`supervisor.rs`, `state.rs`) | meta, rc, cancel / drain / custody markers, process tree | event loop, publication, guardian succession, cancel, reconcile | who publishes, who drains, who discharges, when anyone may die |
| Descendant signalling (`supervisor/descendant_signal.rs`) | captured pidfds, role challenge | sweep | PID reuse, reparenting, never hitting the delivery role |
| State reaper (`state.rs`), retained output (`retained_output.rs`) | directories, shard cursor, three locks per directory | reap pass; snapshot and accept-output | removing a directory, lock files included, that others use |
| Continuation v2 (`continuation*.rs`) | launch fence, selection, captured output, bundle, outcome, snapshot | register, launch, select, capture, publish, recover | one event from several writers that die between immutable files |
| Paired root work (`root_work.rs`, `supervisor.rs`) | intent, control socket, worker record | classify, submit, phases P G R S T, cancel | lost answers, no replay, either side lost in any phase |
| Fresh runs (`fresh_run.rs`) | nothing but the request | frames to the kernel broker, readbacks | lost and late frames whose effects must not repeat |
| CLI (`main.rs`) | the handle being created | run over three routes, cancel, status | a run takes one route, whatever is lost |
| Helper image custody (`image.rs`) | sealed images, bounded cache, custodian child | acquire, recover | bounds and recovery in the owner's loop |
| Root v1 client, live capture, sentinel matcher | decoders and buffers | decode, record, match | boundaries of pure algorithms |
| Config, cgroup, guard, private v30, OpenCode adapter, diagnostics | none of their own, or I/O only | | |

Interaction: the supervisor's loop publishes the terminal record, then starts delivery as its own
child; the guardian does both for a supervisor that failed; `status` and `cancel` reconcile and deliver
for a handle whose owners are gone; `detach` changes what the delivery means while all of this runs.
A v2 handle's source is published by supervisor, guardian or a recovery the runner starts. A run
inside a paired tree is supervised by a worker of the root instead, and a run of a fresh session is
executed by the kernel broker. Every run starts with a reap pass over everybody else's directories.
Lock order is delivery.lock, then completion.lock or custody.lock; reconciliation.lock is outermost.

What makes each part correct, in short. Delivery: one admitted helper invocation, recorded outcomes
survive, something is recorded in the end, cancellation never hits the delivery. Activation: an admitted
activation is neither forgotten nor repeated, and async is never claimed falsely. Supervision: one
final record that agrees with rc and honours accepted cancels, drain and custody evidence that is true,
accepted cancels carried out. Continuation: one event per handle, a true "never launched", no lost last
copy, every committed registration resolved. Reaper: nothing is removed that runs, that may still start
or that is causal evidence, and everything settled is removed in the end. Runs: one admission over one
route, reports that are true in spite of lost messages, no escape from a paired tree, no process left
waiting.

## 2. Modules

### CompletionDelivery (and AtMostOnceDelivery)

Claimants (supervisor, guardian, callers) compete for delivery.lock. The lock is an open file
description that the forked chain inherits, so `LockFree` is derived from which processes live rather
than stored. An owner forks a gated role custodian with the execution worker below it, a caller forks
the worker directly. `claim`, `custodian` and `worker` are program counters; one action per step of
`start_completion_delivery`, `run_custodian`, `execute_completion_transfer` and
`integrate_completion_transfer`, with every file write a step of its own, so that a kill may come
between any two. `delivery` is the persisted record, reduced to the fields
`completion_lifecycle` classifies; the retry count keeps its width (`RetryCounts`, a saturating u8).
`integrate_completion_transfer` is two steps, read and write, because the read is stale in between.
`v2` chooses a continuation-v2 handle: its source snapshot gates the attempt.

`AtMostOnceDelivery` is the promise in four record states: an attempt is claimed before it is admitted,
a claimed attempt is never tried again, a clean pre-admission failure is retried once.
`ImplementsPromise` is the refinement (`INSTANCE ... WITH`).

### Activation

The four files of one sync handle, detach and mode commands that hold delivery.lock, the transfer worker
that inherits it, and the other writers of meta.json, all of which copy the mode file into it
(`write_meta_atomic`): the supervisor's start-up, which reads the mode and writes the record later under no
lock at all (`StartupReads`, `StartupWrites`), its root status and the completion transfers under delivery.lock
(`DeliveryWrites`), and terminal publication as a read and a write under completion.lock, by a supervisor whose
start-up is over or by another after its death. `mirror.late` is history: the mirror was put there by a start-up
write whose mode had changed since its read. The recovery of a never-launched v2 source writes meta.json too,
of a handle no caller has been given.
`Faults` selects writes that fail with no effect (`"write"`) or after
the rename (`"sync"`), which is where `atomic_write` may fail.

### Supervision

One legacy handle. The supervisor walks startup and then the loop: `TopOfLoop` (cancel, owner, sweep),
`MaybeFinish`, `MarksDrained`, `DrivesDelivery`, `LeavesLoop`, then poll and `Dispatches`. Publication
(`PublishDefers`, `PublishBegins`, `PublishRc`, `PublishMeta`) is shared by supervisor,
guardian and commands, as `publish_terminal_with_delivery_disposition` is; locks are derived from
program counters. The guardian is the loop of `guard_supervisor_exit`. Commands cancel,
or reconcile on behalf of `status` (which then claims delivery) or `list` (which leaves it pending), again and again. The workload forks, daemonizes (lets go of the pipes), exits and reaps as it
likes; a SIGKILL sweep ends at least one process that was there when it began, and a fork may escape it.
Delivery is reduced to what supervision sees: unclaimed, running, settled, unknown, and a role child in
the tree. What an owner knew dies with it (`SupervisorForgets`).

Abstracted: the root's control channel (RootWork) and v2 source publication (Continuation), image
custodian, cgroup, PID namespaces, the content of output, and I/O errors that make a loop retry the
same step.

### Continuation

The files of one v2 handle's source are the variables, `NoFile` where a file does not exist. Three
kinds of process run the same code: the registration worker, which becomes the guardian; the
supervisor; and recoveries (`completion-reconcile-v2`) the runner starts at any moment after the
commit. `pc` is where each is; every immutable write is a step, and `Kill` may come between any two,
releasing the locks held. Registration (`Prepare` to `ConfirmLocal`, `Abandon`) spends the one-use launch
fence; `Launched` and `Release` gate the workload; `SupervisorObserves` selects the event; the
publication steps (`publish`, `pin`, `select`, `header`, the capture's `freeze` to `link`, `bundle`,
`outcome`, `snapshot`) are shared. An event is its kind and the process that observed it; the log is
its length, and the selected bytes exist as long as a name of the inode is linked and it is `whole`.
`StorageLoss` unlinks or truncates. Left to results: owner-binding confirmation, the runner's
acceptance record, `activation_committed`.

### Reaper

State directories under one root, reduced to the files the eligibility test reads. `Handles` have a
`Parent` (nested work), may be `Accepted` by a root, `Versioned` (v2) or `Ended` (over before the first
step). A pass reads and writes the shard cursor, scans up to `MaxScan` entries of a shard, and removes
up to `MaxDirs`: eligibility under try-locks, then removal file by file (lock files included) while
a `reader` of output, a reconciling `client`, the run itself and another pass open the same names;
`fresh` records a name created since the removal listed the directory, which makes the final rmdir fail.
Retention time is `expired`; reboots change the boot that custody markers are compared with.

### RootWork, FreshRun and RunCommand

`RootWork` is one paired work. The client selects its route from its environment (`env`, one of
`Envs`), walks over its ancestors while they end and are reparented, writes the intent and submits; the
root (external) accepts, rejects, answers or not, sends the control bytes and may die; the worker is the
paired half of `supervisor.rs`: registration, prepared `P`, the wait for `G`, completion without launch, the
event loop, local readiness `R`, settlement `S`, terminal `T`; one cancel command goes to the root or
takes the local path. Two histories serve `CauseIsTrue`: `worker.told` has the causes the worker has read before
its terminal was published, `worker.dropped` those that were sent and unread when it closed the socket. A log
that cannot be written (`record_capture_failure`) is a cause of the worker's own, `X`, which only an explicit
request outranks, and ends in an error record.

`FreshRun` is the client of the kernel broker (external). Each frame is answered, refused or fails; a
failed frame has or has not had its effect, or has it later (`late`). The broker of the model serves
every frame it gets, so that only the client's discipline keeps effects single. Options, command drift
and the broker's socket are chosen where they are used.

`RunCommand` composes both as `run_command` does: the fresh route first; then the caller, the cancel owner
and the completion owner are resolved, and an owner of a fresh session returns to the broker; every other
run creates its handle, persists its initial metadata and goes to RootWork's route selection. A run that
is classified standalone continues in Supervision (legacy) or Continuation (v2), which start there.

## 3. Runs

| Run | What it shows |
|---|---|
| `completion_delivery` | Supervisor, guardian and one caller, any process but the role custodian killable: `AtMostOnceAdmission`, `ExternalHelperCovered`, `RecordedOutcomeSurvives`, `ImplementsPromise`, and `DeliveryReachesOutcome` under fairness. |
| `delivery_role_loss` | The custodian killable too: `ReplayBounded`, `RoleCoversExecution`. |
| `delivery_custodian_replay` | Violation of `AtMostOnceAdmission` when only the custodian is killed. |
| `activation` | Two command slots against every other writer of meta.json, any process killed, writes that fail without effect: `AdmittedActivationKept`, `AsyncReportIsTrue`, `RollbackRetainsClaim`, `DetachReturns`. |
| `activation_rollback` | Violation of `RollbackRetainsClaim` when a write fails after its rename. |
| `supervision` | Both modes, both scopes, supervisor, guardian and command killable: `TerminalIsFinal`, `CancelPrecedence`, `RcMatchesRecord`, `DrainedIsTrue`, `CustodyCoversTree`, `NoLateAcceptance`. |
| `supervision_cancel` | Exit mode under fairness, supervisor and commands killable: `AcceptedCancelCompletes`. |
| `supervision_sentinel` | Violation of `DeliveryFollowsTerminal` when a sentinel-mode supervisor dies. |
| `continuation` | Supervisor, guardian and two recoveries, two deaths, storage losses or failed copies: `OneEvent`, `NeverLaunchedIsTrue`, `LossIsFinal`, `LastCopyKept`, and `SourceResolves` under fairness. |
| `reaper` | Two passes over a finished root run and a nested run, one other command, one death or reboot: `QuietRemoval`, `CausalEvidenceKept`, and `EventuallyReaped` under fairness. |
| `run_command` | All routes of a run, two failures (of the capture, too) or deaths and two lost or late frames: `PreacceptIsTrue`, `NoEscape`, `CauseIsTrue`, `SettledFirst`, `ReceiptFollowsRecord`, `ReportIsTrue`, `OneAdmission`, and `RunEnds` under fairness. |
| `root_work_cancel` | Violation of `CancelledHasEvent` with no failure at all. |

**Bounds.** Delivery and Activation need two contenders besides the owner pair for every race of two
critical sections; callers and command slots are reused without bound in Activation and Supervision, so
one or two slots give arbitrarily long sequences of commands. `MaxInvocations = 2` allows the one v2
retry that a second success or failure could follow. One descendant beside the root is enough to
outlive the root, to hold or to release the pipes, and to escape a sweep. Two recoveries and
`MaxFaults = 2` in Continuation let a second recovery meet what a dead one left and lose the bytes as
well; `MaxLog = 1` tells an empty prefix, a whole and a truncated one apart. In Reaper a parent and a
nested handle in two shards, with `MaxScan = MaxDirs = 1`, make every pass hit its limits; r1 reaps for ever,
r2 and the other commands share `MaxCommands = 1`. In RunCommand two failures are what a lost reply
followed by the death of the root or of a process needs, `MaxLosses = 2` covers a lost request followed by
a lost readback, and `MCEnvs` has every environment without a grant and those with one that submission
treats differently. The runs have between 0.2 and 1.8 million states.

**Fairness.** Weak fairness of each live process's own steps: the kernel schedules it. Strong
fairness of the owners' publication in Supervision: they wait in a blocking `flock`, which
is granted although commands keep taking the lock. Activation assumes nothing of the supervisor, and
nothing of a worker that waits for its helper (`Blocked`), in particular not that the wait ever fails. The grace period ends (`GraceElapses`). The
guardian only *tries* reconciliation.lock, so `supervision_cancel` also assumes that commands are not
killed for ever, each time while they hold it. No fairness for kills, for the workload, for helpers, for
source snapshots of a legacy handle or for commands being issued: properties name a
helper or transfer that never ends (`[]` of its running, not the moment in which it does), or a killed last
owner, as the excuse. Continuation: processes run, the workload
ends, and the runner goes on starting recoveries of a committed registration, as it is documented to;
`SourceResolves` names what the source leaves pending on purpose, and for ever (`[]Pending`). Reaper: runs keep being started, each
with its pass, and the holders of locks go on. RunCommand: client, worker and a living root go on; broker and
workload need not.

**Deadlock** checking is off where the system really stops: the handle is settled and every process
gone. In RunCommand the liveness property `RunEnds` takes its place: whoever stops has returned or
ended.

## 4. Findings

1. *Custodian loss* (`delivery_custodian_replay`): the owner reaps a killed custodian and reads a record
   that is not claimed yet. The execution worker, which has outlived the custodian, claims, invokes the
   helper and records the admitted outcome; the owner's write, decided from the stale read, lands over that
   recorded outcome as a retryable owner-launch failure. The worker exits, delivery.lock is free, and the
   next claimant invokes the helper a second time. With the custodian alive at-most-once is proved.
2. *Rollback* (`activation_rollback`): the error path of the delivery-mode write drops the claim at
   once, although the write may have taken effect.
3. *Sentinel loss* (`supervision_sentinel`): for a sentinel-mode handle whose supervisor died before
   readiness the guardian delivers a completion for a record that is, and stays, RUNNING. For the same
   reason `NoLateAcceptance` and `AcceptedCancelCompletes` are stated for exit mode: a sentinel-mode
   handle has no publication between the supervisor's death and the guardian's return that would
   exclude a requester that captured the supervisor earlier.
4. *Root cancel* (`root_work_cancel`): the root's `C` after the grant starts an explicit cancellation
   without the marker from which the completion event is made; the worker writes the terminal record,
   fails to select an event, and exits without `T`.

Met while modelling and not stated as a run, because nothing is lost by them or they concern what is
abstracted. A start-up write of meta.json that had read the mode before a detach (or its rollback) leaves the
old mode in the mirror after the command has repaired it and returned; DESIGN.md:360 calls the mirror
observability, and the terminal publication corrects it, so `AsyncReportIsTrue` and `RollbackRetainsClaim`
allow exactly this (`mirror.late`). A paired worker whose `R` cannot be sent closes its socket without reading
what it holds (supervisor.rs:2831): a `C`, `O` or `K` that the dead root had sent is recorded as the loss of the
root, although the comment at supervisor.rs:1964 says that transport loss must never relabel a cause already
accepted by the root; `CauseIsTrue` allows exactly this, a socket closed on unread causes before any `R`. Also: a v2 caller's helper that exits unsuccessfully leaves the creating attempt's custody marker
although DESIGN.md counts the exit as a wait result; `mode` of an ineligible caller, which reads three
files without a lock, may report async for an activation that was being rolled back; the output lock
does not exclude a reaper that has already unlinked the lock file, and a directory half removed by a dead
reaper is never eligible again; a reconciliation that dies after publishing leaves a never-launched record
without rc; a never-launched paired worker that cannot open its log reports `R` and `T` with no record;
docs/completion-continuation-v2.md:60 says that v2 artifacts are not TTL-reaped, where DESIGN.md:515 and the
code reap them after their retention release.

## 5. Proofs

Every invariant and every action property of the passing runs, and the refinement, is also a theorem: it
holds for any sets of callers, commands, descendants, recoveries, handles and reapers, and for any bound on
faults, losses, logs and limits. The six liveness properties stay with TLC. Each proof has the same shape:
an inductive invariant with named parts, one lemma per part that goes through the actions, and a temporal
step that combines them.

**What is assumed.** The named `ASSUME`s of the modules say only that identities are distinct
(`CallersAssumption`, `RootAssumption`, `CommandsAssumption`, `ContinuationAssumption`, and
`NoFileAssumption`: no content of a file is the absence of one), that bounds are naturals, and that `Killable`,
`Modes`, `Faults` and `Envs` are subsets of what the model knows. `DescendantsAssumption` makes the workload
finite. `ReaperAssumption` says of the initial directories that nested work was accepted by its parent and
that a nested run that is over belongs to a parent that is over.
Two families of theorems have a hypothesis of their own, and in both the violation run of the same component is
the counterexample without it: `"custodian" \notin Killable` for `AtMostOnce`, `OutcomeSurvives`,
`HelperCovered` and `DeliveryRefinesPromise`; `"sync" \notin Faults` (no write fails after its rename) for
`AsyncReportHolds` and `RollbackKeepsClaim`.

**`CompletionDelivery_proofs`** (`TypeCorrect`, `AtMostOnce`, `OutcomeSurvives`, `HelperCovered`,
`DeliveryRefinesPromise`). `AtMostOnceAdmission` is not inductive: it does not say why nobody may start again
after the first invocation. `AdmissionInv` has four parts. `OneChain`: at most one claimant's chain of
processes holds delivery.lock. `ChainShape`: within a chain, which processes can exist at which point; above
all, whoever has reaped the transfer child leaves no process behind that could still write the record, which
is where the assumption on custodians enters. `RecordTracksWorker`: how far the worker has come can be read
off the persisted record, and an integration's stale read still equals the record. `AdmissionCloses`: after an
invocation the record permits no attempt. The survival of a recorded outcome and the refinement follow,
the latter with `RetryInv`: what the record knows of the one retry, and what an attempt in progress may assume
of it. `HelperCovered` needs `OneHelper` (a second attempt would discharge the marker of the first one's
helper) and that a caller's worker goes on to its helper only under a marker.

**`CompletionLoss_proofs`** (`RoleCovers`, `ReplayIsBounded`) is for any `Killable`, lost custodians included.
`ForkOrder` keeps of `ChainShape` what survives the loss: who was forked before whom. `RoleInv` follows the
role slot through fork, gate and death. `ReplayInv` counts: before it spawns the
helper an attempt has as many invocations behind it as its retry count says, and one with a retry behind it
leaves a record that permits no other.

**`Activation_proofs`** (`ActivationTypeCorrect`, `AdmittedKept`, `AsyncReportHolds`, `RollbackKeepsClaim`).
`LockInv`: one command, or the worker it left behind, holds delivery.lock. `AdmissionInv`: what each step of
worker and command relies on about the files, which is nothing for whoever does not hold the lock;
`AdmittedActivationKept` is a part of it, with writes failing before or after the rename. `ReportInv`: the
claim is there whenever mode or outcome say that something was begun, and what a finished command reported is
stable under everybody else's steps, terminal publication and start-up writes from a stale read included: over
settled files (`Detached`, `Attached`) no publisher holds the other mode, and a mirror that differs is `late`.

**`Supervision_proofs`** (`SupervisionTypeCorrect`, `TerminalRecordIsFinal`, `CancelWins`, `RcAgrees`,
`DrainEvidence`, `CustodyCovers`, `LateAcceptanceRefused`). `PublisherPlaced`: who may be inside a publication
when. `CompletionLocked`: publications exclude each other and acceptance by completion.lock, what a publisher
decided under the lock is still so when it writes, and rc is written first. `EmptyIsTrue`: what an owner
concluded from ECHILD stays true, because nothing is marked before the root is spawned, the guardian looks
only after the supervisor's death, and a workload without a process never has one again.
`DischargedIsTerminal` is the step from discharged custody to a terminal record, on which a late cancel
command is refused.

**`Continuation_proofs`** (`ContinuationTypeCorrect`, `OneEventPublished`, `NeverLaunchedHolds`, `LossFinal`,
`LastCopySurvives`). `FenceInv`: only the registering worker moves the launch fence up, only its supervisor
spends it, and a revoked fence belongs to a worker that is gone and to a supervisor that was never forked.
`FilesInv`: the immutable files agree, and each process finds the files its program counter relies on.
`Placed`: who may be where in publication.

**`Reaper_proofs`** (`ReaperTypeCorrect`, `RemovalIsQuiet`, `EvidenceIsKept`). `Busy`: whoever
works on a handle works on a known one, within the limits. `Story(h)` relates how far a run has come to what it has left on disk and says that no removal begins
before it is over; `Kin(h)` that a nested run's parent came first and that its acceptance is on disk as long
as the parent's directory, whatever the depth of nesting.

**`RootWork_proofs`** proves the paired route by itself. `Submission`: a client that recorded a failure has no
request that may still be accepted, and no worker exists without an acceptance. `Wire`: what may be on the
control socket, above all that a grant is the first byte and that a settlement answers `R`. `Publication`:
nothing is published before the worker says so, and a reported terminal is complete. `Cause`: the cause the
worker holds was read, left by a local request or its own, and outranks the others it read. `Loss`: only the
event loop closes the socket, and on unread causes only when `R` has not been sent; a failed capture is an error,
so that it is never recorded as a cancellation. `Walk`: when the walk over the ancestors passed
one, the custodian below it was gone, and it never comes back.

**`RunCommand_proofs`** (`RunTypeCorrect`, `PreacceptHolds`, `NobodyEscapes`, `CauseHolds`,
`SettlementPrecedes`, `ReceiptFollows`, `FreshReportHolds`, `AdmittedOnce`). `RunImplementsWork`
(`RunSpec => Spec`) carries the theorems of RootWork over to the composition. `Effects`: each of the frames
`X`, `^` and `v` had its effect at most once, *counting the frame that may still be served late*; without that
clause the invariant is not inductive, because a lost frame may be served after the readback. `Routes`: the
fresh route has found nothing before a handle exists, and the paired route is entered last.

**What proving changed in the models.** `WorkerWaits` of Activation had overlapping CASE arms, of which TLC
took the first; it is an IF now. `CallersAssumption` also excludes the two names the custody marker uses for
nobody and for a stranger. Bounds and the shape of initial directories that the Reaper's instance satisfied
silently are assumptions now.

**Only model-checked.** `DeliveryReachesOutcome`, `DetachReturns`, `AcceptedCancelCompletes`, `SourceResolves`,
`EventuallyReaped` and `RunEnds` need fairness and ENABLED, which are out of the prover's reach. The
violation runs are counterexamples and have nothing to prove.

## 6. Plan

Done: `CompletionDelivery` with `AtMostOnceDelivery`, `Activation`, `Supervision`, `Continuation`, `Reaper`,
`RootWork`, `FreshRun` and `RunCommand`, with the runs above, and theorems for every safety property among
them. No module declares a RECURSIVE operator. To come, in this order:

1. The safety half of the liveness properties, as invariants: that whoever waits in Supervision, Continuation
   and RunCommand waits for somebody who is alive or for a file that is there.
2. The sharpest form of the two hypotheses: at-most-once when custodians die only before the worker's claim,
   and a true async report when only the mirror's write fails after its rename.
3. That CompletionDelivery and Activation, which share delivery.lock and meta.json, do not interfere:
   Supervision's delivery (unclaimed, running, settled, unknown) as an abstraction of CompletionDelivery.

## 7. Not modelled

`components` in `PROJECT.json` has the list. Helper images are taken as prepared: the image custodian, its
bounded cache and its recovery would be a module of their own. The ancestry walk of the cancellation sweep
is one step of Supervision; PID reuse and captured pidfds are below that grain, and so is PID reuse in
RootWork's walk, which also assumes that all ancestors belong to one user. In RootWork the paired worker's
PID-namespace scopes, owner witnesses, root completion scope, diagnostics and the reconciliation of a killed
worker are left out, and the reading of a reply has no deadline, as in the code. The root-v1 decoder, the
sentinel matcher and live capture are sequential algorithms over bytes whose behaviour is in the strings;
private v30 admission is only in a feature build; configuration, cgroup placement, the attached guard,
argument parsing, rendering and the OpenCode adapter are system calls or pure I/O with no protocol state of
their own; attempt diagnostics have no effect on anything.
