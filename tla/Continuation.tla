---------------------------- MODULE Continuation ----------------------------
(***************************************************************************)
(* The source side of one completion-continuation-v2 handle: registration  *)
(* and its one-use launch fence, the selection of the completion event,    *)
(* the capture of the selected output prefix, and the publication of       *)
(* bundle, outcome and snapshot (src/src/continuation.rs and its           *)
(* submodules), driven by the three kinds of process that run this code:   *)
(*                                                                         *)
(*   "guardian"    the registration worker, which becomes the adopting     *)
(*                 guardian of the supervisor it forks (supervisor.rs);    *)
(*   "supervisor"  the live observer of the workload;                      *)
(*   Recoveries    completion-only recoveries the runner starts            *)
(*                 (completion-reconcile-v2), at any moment after the      *)
(*                 registration was committed.                             *)
(*                                                                         *)
(* The files of the state directory are the variables.  A file that does   *)
(* not exist is NoFile.  Every file is written atomically; a process can   *)
(* die between any two writes, and the locks it holds die with it.         *)
(***************************************************************************)
EXTENDS Integers, FiniteSets

CONSTANTS Recoveries,   \* identities of completion-only recoveries
          NoFile,       \* the content of a file that does not exist
          MaxLog,       \* bound on the length of the log
          MaxFaults     \* bound on deaths, storage losses and I/O errors

Actors == {"supervisor", "guardian"} \cup Recoveries

ASSUME ContinuationAssumption ==
    /\ Recoveries \cap {"supervisor", "guardian", "noone"} = {}
    /\ MaxLog \in Nat /\ MaxFaults \in Nat

VARIABLES
    fence,      \* source-launch-v2.json: its phase
    local,      \* continuation-v2.json: its "registration" field
    committed,  \* the runner's broker has committed the registration
    workload,   \* "none", "gated", "running", "exited", "refused"
    cancel,     \* the accepted-cancel marker
    log,        \* length of the log
    names,      \* the names under which the log's inode is still linked
    whole,      \* the inode still has every byte up to the selected length
    selection,  \* output-selection-v2.json: event and length
    header,     \* source-observation-v2.json: the projected event
    slot,       \* the named copy and its receipt
    output,     \* completion-output-v2.bin: its length
    proof,      \* missing-output-observation-v2.json exists
    bundle,     \* completion-source-bundle-v2.json
    outcome,    \* source-outcome-v2.json
    snapshot,   \* completion-snapshot-v2.json
    terminal,   \* rc and terminal metadata are written
    pc,         \* where each process is
    seen,       \* the supervisor's pending source event
    mark,       \* the length each process has pinned, before it selects
    recovering, \* recoveries that may attest the loss of the output
    launch,     \* holder of launch.lock
    capture,    \* holder of source-capture.lock
    serial,     \* holder of source-recovery.lock
    faults      \* faults so far

fences  == <<fence, local, committed>>
storage == <<log, names, whole>>
files   == <<selection, header, slot, output, proof, bundle, outcome, snapshot>>
locks   == <<launch, capture, serial>>
vars    == <<fences, workload, cancel, storage, files, terminal,
             pc, seen, mark, recovering, locks, faults>>

\* A selection whose output could not be retained has no length.
Missing == -1

Kinds == {"ready", "exit", "cancelled", "ceased_status_unknown", "never_launched"}

Events == [kind : Kinds, observer : Actors]

ASSUME NoFileAssumption ==
    NoFile \notin Int \cup Events \cup [event : Events, len : Int]
                  \cup [event : Events, output : Int]

Registering == {"prepare", "prepareFence", "prepareLocal", "register",
                "confirm", "confirmFence", "confirmLocal", "abandon", "fork"}

Publishing == {"publish", "pin", "select", "header", "freeze", "body", "copy",
               "complete", "link", "anonymous", "bundle", "missing",
               "outcome", "snapshot", "published"}

PCs == Registering \cup Publishing \cup
       {"unborn", "spawn", "launch", "release", "run", "settled", "gone",
        "watch", "idle", "fence", "serialize", "recover", "inventory"}

Init ==
    /\ fence = "none" /\ local = "none" /\ committed = FALSE
    /\ workload = "none" /\ cancel = FALSE
    /\ log = 0 /\ names = {"log"} /\ whole = TRUE
    /\ selection = NoFile /\ header = NoFile /\ slot = "free" /\ output = NoFile
    /\ proof = FALSE
    /\ bundle = NoFile /\ outcome = NoFile /\ snapshot = NoFile /\ terminal = FALSE
    /\ pc = [a \in Actors |-> CASE a = "guardian" -> "prepare"
                                [] a = "supervisor" -> "unborn"
                                [] OTHER -> "idle"]
    /\ seen = NoFile /\ mark = [a \in Actors |-> Missing] /\ recovering = {}
    /\ launch = "noone" /\ capture = "noone" /\ serial = "noone"
    /\ faults = 0

Goto(a, label) == pc' = [pc EXCEPT ![a] = label]

Alive(a) == pc[a] # "gone"

Free(lock) == lock = "noone"

Without(lock, a) == IF lock = a THEN "noone" ELSE lock

(***************************************************************************)
(* Predicates the processes read from the directory.                       *)
(***************************************************************************)

\* The registration, not a delivered body, owns the notification.
notification_owned == local \in {"confirmed", "completion_only_confirmed"}

\* The original bytes can still be opened and are long enough.
selected_file == selection.len # Missing /\ names # {} /\ whole

output_unavailable ==
    /\ output = NoFile /\ header # NoFile
    /\ \/ selection = NoFile
       \/ selection.len = Missing
       \/ ~("pin" \in names /\ whole)

\* An immutable file refuses other bytes and accepts the same ones.
Agrees(file, data) == file \in {NoFile, data}

\* The wire status of a snapshot.
status(event, body) ==
    IF body = Missing THEN "original_output_unavailable"
    ELSE CASE event.kind = "ready" -> "ready"
           [] event.kind = "exit" -> "completed"
           [] OTHER -> "error"

(***************************************************************************)
(* Registration, by the process that becomes the guardian.                 *)
(***************************************************************************)

\* prepare: REGISTRATION under launch.lock, then the fence, then LOCAL.
Prepare ==
    /\ pc["guardian"] = "prepare" /\ Free(launch)
    /\ launch' = "guardian" /\ Goto("guardian", "prepareFence")
    /\ UNCHANGED <<fences, workload, cancel, storage, files, terminal, seen,
                   mark, recovering, capture, serial, faults>>

PrepareFence ==
    /\ pc["guardian"] = "prepareFence"
    /\ fence' = "unreleased" /\ Goto("guardian", "prepareLocal")
    /\ UNCHANGED <<local, committed, workload, cancel, storage, files, terminal,
                   seen, mark, recovering, locks, faults>>

PrepareLocal ==
    /\ pc["guardian"] = "prepareLocal"
    /\ local' = "intent" /\ launch' = "noone" /\ Goto("guardian", "register")
    /\ UNCHANGED <<fence, committed, workload, cancel, storage, files, terminal,
                   seen, mark, recovering, capture, serial, faults>>

\* The runner's broker commits the registration it was sent (external).  The
\* reply may be lost: the worker then only knows that its helper was admitted.
BrokerCommits ==
    /\ pc["guardian"] = "register" /\ ~committed
    /\ committed' = TRUE
    /\ UNCHANGED <<fence, local, workload, cancel, storage, files, terminal, pc,
                   seen, mark, recovering, locks, faults>>

\* delivery::register returns an exact committed receipt, or an error.
Register ==
    /\ pc["guardian"] = "register"
    /\ \/ committed /\ Goto("guardian", "confirm")
       \/ Goto("guardian", "abandon")
    /\ UNCHANGED <<fences, workload, cancel, storage, files, terminal, seen,
                   mark, recovering, locks, faults>>

\* confirm_launch: only the registering worker, only an unspent fence; the
\* receipt, the fence and LOCAL are three writes.
Confirm ==
    /\ pc["guardian"] = "confirm" /\ Free(launch)
    /\ IF fence = "unreleased"
       THEN launch' = "guardian" /\ Goto("guardian", "confirmFence")
       ELSE Goto("guardian", "abandon") /\ UNCHANGED launch
    /\ UNCHANGED <<fences, workload, cancel, storage, files, terminal, seen,
                   mark, recovering, capture, serial, faults>>

ConfirmFence ==
    /\ pc["guardian"] = "confirmFence"
    /\ fence' = "may_launch" /\ Goto("guardian", "confirmLocal")
    /\ UNCHANGED <<local, committed, workload, cancel, storage, files, terminal,
                   seen, mark, recovering, locks, faults>>

ConfirmLocal ==
    /\ pc["guardian"] = "confirmLocal"
    /\ local' = "confirmed" /\ launch' = "noone" /\ Goto("guardian", "fork")
    /\ UNCHANGED <<fence, committed, workload, cancel, storage, files, terminal,
                   seen, mark, recovering, capture, serial, faults>>

\* abandon after a failed registration, then the error record and the exit.
Abandon ==
    /\ pc["guardian"] = "abandon" /\ Free(launch)
    /\ fence' = IF fence = "unreleased" THEN "revoked_never_launched" ELSE fence
    /\ terminal' = TRUE /\ Goto("guardian", "gone")
    /\ UNCHANGED <<local, committed, workload, cancel, storage, files, seen,
                   mark, recovering, locks, faults>>

\* daemonization_child: the worker forks the supervisor and guards it.
Fork ==
    /\ pc["guardian"] = "fork"
    /\ pc' = [pc EXCEPT !["guardian"] = "watch", !["supervisor"] = "spawn"]
    /\ UNCHANGED <<fences, workload, cancel, storage, files, terminal, seen,
                   mark, recovering, locks, faults>>

(***************************************************************************)
(* Launch and observation, by the supervisor.                              *)
(***************************************************************************)

\* run_supervisor forks the workload behind its start gate.
Spawn ==
    /\ pc["supervisor"] = "spawn"
    /\ workload' = "gated" /\ Goto("supervisor", "launch")
    /\ UNCHANGED <<fences, cancel, storage, files, terminal, seen, mark,
                   recovering, locks, faults>>

\* launched: binds the child's identity and spends the fence.  When that
\* fails the gate stays shut and the child exits without exec.
Launched ==
    /\ pc["supervisor"] = "launch" /\ Free(launch)
    /\ \/ /\ fence = "may_launch"
          /\ fence' = "launched" /\ Goto("supervisor", "release")
          /\ UNCHANGED <<workload, faults>>
       \/ /\ faults < MaxFaults /\ faults' = faults + 1
          /\ workload' = "refused" /\ Goto("supervisor", "run")
          /\ UNCHANGED fence
    /\ UNCHANGED <<local, committed, cancel, storage, files, terminal, seen,
                   mark, recovering, locks>>

Release ==
    /\ pc["supervisor"] = "release"
    /\ workload' = "running" /\ Goto("supervisor", "run")
    /\ UNCHANGED <<fences, cancel, storage, files, terminal, seen, mark,
                   recovering, locks, faults>>

\* The live loop appends what the workload writes, also while it publishes
\* an earlier event, but never between the event and its selection.
Append ==
    /\ pc["supervisor"] = "run" \/ selection # NoFile
    /\ pc["supervisor"] \in Publishing \cup {"run", "settled"}
    /\ workload = "running" /\ log < MaxLog
    /\ log' = log + 1
    /\ UNCHANGED <<fences, workload, cancel, names, whole, files, terminal, pc,
                   seen, mark, recovering, locks, faults>>

\* The live loop publishes the terminal record of the first event and, in the
\* same turn, starts on the source event.  A supervisor error (an exec
\* failure, or a capture error, after which the log is not trusted) is
\* "ceased_status_unknown".
Observe(kind, trusted) ==
    /\ pc["supervisor"] = "run" /\ seen = NoFile
    /\ trusted \/ kind = "ceased_status_unknown"
    /\ IF kind = "ready" THEN workload = "running" ELSE workload \in {"exited", "refused"}
    /\ cancel <=> (kind = "cancelled")
    /\ seen' = [kind |-> kind, trusted |-> trusted]
    /\ terminal' = TRUE /\ Goto("supervisor", "publish")
    /\ UNCHANGED <<fences, workload, cancel, storage, files, mark, recovering,
                   locks, faults>>

SupervisorObserves ==
    \E kind \in Kinds \ {"never_launched"}, trusted \in BOOLEAN : Observe(kind, trusted)

\* The source is published, or given up; the loop ends with the tree.
SupervisorExits ==
    /\ pc["supervisor"] \in {"published", "settled"} /\ workload # "running"
    /\ Goto("supervisor", "gone")
    /\ UNCHANGED <<fences, workload, cancel, storage, files, terminal, seen,
                   mark, recovering, locks, faults>>

(***************************************************************************)
(* Publication: select, project, capture, bundle.  Shared by all actors.   *)
(***************************************************************************)

\* The event an actor selects, if none is selected yet.
EventOf(a) ==
    [kind |-> CASE a = "supervisor" -> seen.kind
                [] a = "guardian" -> IF cancel THEN "cancelled" ELSE "ceased_status_unknown"
                [] OTHER -> "never_launched",
     observer |-> a]

\* Only the live observer, or a recovery that knows that nothing ran, can
\* vouch for the log.
Trusted(a) == CASE a = "supervisor" -> seen.trusted
                [] a = "guardian" -> FALSE
                [] OTHER -> TRUE

\* An error ends the actor's attempt, and its locks with it.  The live loop
\* and the guardian retry, unless the output can no longer be captured and
\* the registration owns the notification; a recovery returns the error.
Failed(a) ==
    /\ capture' = Without(capture, a) /\ serial' = Without(serial, a)
    /\ recovering' = recovering \ {a}
    /\ Goto(a, CASE a = "supervisor" ->
                        IF output_unavailable /\ notification_owned THEN "settled" ELSE "publish"
                 [] a = "guardian" -> "watch"
                 [] OTHER -> "idle")

\* publish, advance_publication, capture_observation: enter where the files
\* already are.
Publish(a) ==
    /\ pc[a] = "publish"
    /\ Goto(a, IF bundle # NoFile THEN "outcome"
               ELSE IF header # NoFile THEN IF output = NoFile THEN "freeze" ELSE "bundle"
               ELSE IF selection # NoFile THEN "header" ELSE "pin")
    /\ UNCHANGED <<fences, workload, cancel, storage, files, terminal, seen,
                   mark, recovering, locks, faults>>

\* Mutant: the boundary is one byte too far.
PinBeyond(a) ==
    /\ pc[a] = "pin"
    /\ IF Trusted(a) /\ names = {"log"}
       THEN mark' = [mark EXCEPT ![a] = log + 1] /\ names' = {"log", "pin"}
       ELSE mark' = [mark EXCEPT ![a] = Missing] /\ UNCHANGED names
    /\ Goto(a, "select")
    /\ UNCHANGED <<fences, workload, cancel, log, whole, files, terminal, seen,
                   recovering, locks, faults>>

\* pin_output: a hard link that never replaces an orphaned pin.
Pin(a) ==
    /\ pc[a] = "pin"
    /\ IF Trusted(a) /\ names = {"log"}
       THEN mark' = [mark EXCEPT ![a] = log] /\ names' = {"log", "pin"}
       ELSE mark' = [mark EXCEPT ![a] = Missing] /\ UNCHANGED names
    /\ Goto(a, "select")
    /\ UNCHANGED <<fences, workload, cancel, log, whole, files, terminal, seen,
                   recovering, locks, faults>>

\* select_observed_event and select_event_output: event and boundary become
\* one immutable record.
Select(a) ==
    /\ pc[a] = "select"
    /\ LET record == [event |-> EventOf(a), len |-> mark[a]] IN
       IF Agrees(selection, record)
       THEN selection' = record /\ Goto(a, "header") /\ UNCHANGED <<capture, serial, recovering>>
       ELSE Failed(a) /\ UNCHANGED selection
    /\ UNCHANGED <<fences, workload, cancel, storage, header, slot, output, proof,
                   bundle, outcome, snapshot, terminal, seen, mark, launch, faults>>

\* Mutant: the actor that restores the header supplies its own event.
HeaderRelabels(a) ==
    /\ pc[a] = "header"
    /\ header' = EventOf(a)
    /\ Goto(a, IF a \in recovering THEN "recover"
               ELSE IF output = NoFile THEN "freeze" ELSE "bundle")
    /\ UNCHANGED <<fences, workload, cancel, storage, selection, slot, output,
                   proof, bundle, outcome, snapshot, terminal, seen, mark,
                   recovering, locks, faults>>

\* restore_selected_event: the header projects the selected event.
Header(a) ==
    /\ pc[a] = "header"
    /\ header' = selection.event
    /\ Goto(a, IF a \in recovering THEN "recover"
               ELSE IF output = NoFile THEN "freeze" ELSE "bundle")
    /\ UNCHANGED <<fences, workload, cancel, storage, selection, slot, output,
                   proof, bundle, outcome, snapshot, terminal, seen, mark,
                   recovering, locks, faults>>

\* Mutant: the capture lease is not tested.
CaptureIgnored == FALSE

\* capture::lock is nonblocking: another capturer holds the lease.
CaptureBusy == ~Free(capture)

\* capture::freeze fails: a recovery that restores the output goes on to the
\* storage inventory, still under the capture lease.
FreezeFails(a) ==
    IF a \in recovering
    THEN capture' = a /\ Goto(a, "inventory") /\ UNCHANGED <<serial, recovering>>
    ELSE Failed(a)

\* capture::freeze under the nonblocking lease: an output stands, a recorded
\* loss is final, a completed copy is promoted, and otherwise the original
\* inode is copied, anonymously when the named slot is occupied.
Freeze(a) ==
    /\ pc[a] = "freeze"
    /\ IF CaptureBusy
       THEN Failed(a) /\ UNCHANGED <<slot, output>>
       ELSE IF output # NoFile
       THEN Goto(a, "bundle") /\ UNCHANGED <<capture, serial, recovering, slot, output>>
       ELSE IF proof \/ (slot # "complete" /\ ~selected_file)
       THEN FreezeFails(a) /\ UNCHANGED <<slot, output>>
       ELSE IF slot = "complete"
       THEN /\ output' = selection.len /\ Goto(a, "bundle")
            /\ UNCHANGED <<capture, serial, recovering, slot>>
       ELSE /\ capture' = a
            /\ slot' = IF slot = "free" THEN "body" ELSE slot
            /\ Goto(a, IF slot = "free" THEN "body" ELSE "anonymous")
            /\ UNCHANGED <<serial, recovering, output>>
    /\ UNCHANGED <<fences, workload, cancel, storage, selection, header, proof,
                   bundle, outcome, snapshot, terminal, seen, mark, launch, faults>>

\* Attempt::capture: the body is created before its receipt says "incomplete".
CopyReceipt(a) ==
    /\ pc[a] = "body"
    /\ slot' = "incomplete" /\ Goto(a, "copy")
    /\ UNCHANGED <<fences, workload, cancel, storage, selection, header, output,
                   proof, bundle, outcome, snapshot, terminal, seen, mark,
                   recovering, locks, faults>>

\* copy_selected: the descriptor is open, so lost names do not matter, but a
\* shortened inode does.
CopyBytes(a) ==
    /\ pc[a] = "copy" /\ whole
    /\ slot' = "full" /\ Goto(a, "complete")
    /\ UNCHANGED <<fences, workload, cancel, storage, selection, header, output,
                   proof, bundle, outcome, snapshot, terminal, seen, mark,
                   recovering, locks, faults>>

CopyComplete(a) ==
    /\ pc[a] = "complete"
    /\ slot' = "complete" /\ Goto(a, "link")
    /\ UNCHANGED <<fences, workload, cancel, storage, selection, header, output,
                   proof, bundle, outcome, snapshot, terminal, seen, mark,
                   recovering, locks, faults>>

\* The final hard link; the named body goes, its receipt stays.
CopyLink(a) ==
    /\ pc[a] = "link"
    /\ output' = selection.len /\ slot' = "receipt"
    /\ capture' = "noone" /\ Goto(a, "bundle")
    /\ UNCHANGED <<fences, workload, cancel, storage, selection, header, proof,
                   bundle, outcome, snapshot, terminal, seen, mark, recovering,
                   launch, serial, faults>>

\* capture_anonymous leaves the retained slot alone.
CopyAnonymous(a) ==
    /\ pc[a] = "anonymous" /\ whole
    /\ output' = selection.len /\ capture' = "noone" /\ Goto(a, "bundle")
    /\ UNCHANGED <<fences, workload, cancel, storage, selection, header, slot,
                   proof, bundle, outcome, snapshot, terminal, seen, mark,
                   recovering, launch, serial, faults>>

\* Mutant: every unfinished copy is disposable.
DisposesUnfinished == slot # "complete"

\* Attempt::disposable: a completed copy is custody, and so is a full copy
\* whose original is gone.
disposable == \/ slot \in {"body", "incomplete"} /\ selection.len > 0
              \/ slot # "complete" /\ selected_file

\* A copy fails: the bytes were cut short meanwhile, or an I/O error.
CopyFails(a) ==
    /\ pc[a] \in {"body", "copy", "complete", "link", "anonymous"}
    /\ IF pc[a] \in {"copy", "anonymous"} /\ ~whole THEN UNCHANGED faults
       ELSE faults < MaxFaults /\ faults' = faults + 1
    /\ slot' = IF pc[a] # "anonymous" /\ disposable THEN "free" ELSE slot
    /\ FreezeFails(a)
    /\ UNCHANGED <<fences, workload, cancel, storage, selection, header, output,
                   proof, bundle, outcome, snapshot, terminal, seen, mark, launch>>

\* missing_output::loss over the inventory of managed storage: a named copy
\* that may still hold the bytes, or an orphaned pin, leaves it uncertain.
UncertainCopy == \/ slot \in {"body", "full", "complete"}
                 \/ slot = "incomplete" /\ selection.len = 0

loss == IF selection.len = Missing THEN "pin" \notin names ELSE names = {} \/ ~whole

\* The exact observer of the selected event is gone.  A recovery that selected
\* one has left source-recovery.lock, and with it the process.
ObserverGone == header.observer \in Recoveries \/ ~Alive(header.observer)

\* missing_output::observe.
Inventory(a) ==
    /\ pc[a] = "inventory"
    /\ IF proof \/ (ObserverGone /\ ~UncertainCopy /\ loss)
       THEN proof' = TRUE /\ Goto(a, "missing") /\ UNCHANGED <<capture, serial, recovering>>
       ELSE Failed(a) /\ UNCHANGED proof
    /\ UNCHANGED <<fences, workload, cancel, storage, selection, header, slot,
                   output, bundle, outcome, snapshot, terminal, seen, mark,
                   launch, faults>>

\* finish_observation_with_output: one immutable bundle of header and output.
Bundle(a) ==
    /\ pc[a] \in {"bundle", "missing"}
    /\ LET record == [event |-> header,
                      output |-> IF pc[a] = "missing" THEN Missing ELSE output] IN
       IF Agrees(bundle, record)
       THEN bundle' = record /\ Goto(a, "outcome") /\ UNCHANGED <<capture, serial, recovering>>
       ELSE Failed(a) /\ UNCHANGED bundle
    /\ UNCHANGED <<fences, workload, cancel, storage, selection, header, slot,
                   output, proof, outcome, snapshot, terminal, seen, mark,
                   launch, faults>>

\* finish_snapshot: the outcome, then the snapshot, both from the bundle.
Outcome(a) ==
    /\ pc[a] = "outcome"
    /\ IF Agrees(outcome, bundle.event)
       THEN outcome' = bundle.event /\ Goto(a, "snapshot") /\ UNCHANGED <<capture, serial, recovering>>
       ELSE Failed(a) /\ UNCHANGED outcome
    /\ UNCHANGED <<fences, workload, cancel, storage, selection, header, slot,
                   output, proof, bundle, snapshot, terminal, seen, mark,
                   launch, faults>>

Snapshot(a) ==
    /\ pc[a] = "snapshot"
    /\ LET record == [event |-> bundle.event, output |-> bundle.output,
                      status |-> status(bundle.event, bundle.output)] IN
       IF Agrees(snapshot, record)
       THEN snapshot' = record /\ Goto(a, "published") /\ UNCHANGED <<capture, serial, recovering>>
       ELSE Failed(a) /\ UNCHANGED snapshot
    /\ UNCHANGED <<fences, workload, cancel, storage, selection, header, slot,
                   output, proof, bundle, outcome, terminal, seen, mark,
                   launch, faults>>

PublicationStep(a) ==
    \/ Publish(a) \/ Pin(a) \/ Select(a) \/ Header(a) \/ Freeze(a)
    \/ CopyReceipt(a) \/ CopyBytes(a) \/ CopyComplete(a) \/ CopyLink(a)
    \/ CopyAnonymous(a) \/ Bundle(a) \/ Outcome(a) \/ Snapshot(a)

(***************************************************************************)
(* The guardian, once the supervisor is gone and the adopted tree empty.   *)
(***************************************************************************)

AdoptedTreeEmpty == pc["supervisor"] = "gone" /\ workload \notin {"gated", "running"}

\* Nothing can be captured any more and the registration owns the rest; or
\* the snapshot is there and delivery, no longer busy, settles.
GuardianRetires ==
    /\ pc["guardian"] = "watch" /\ AdoptedTreeEmpty
    /\ (output_unavailable /\ notification_owned) \/ snapshot # NoFile
    /\ Goto("guardian", "gone")
    /\ UNCHANGED <<fences, workload, cancel, storage, files, terminal, seen,
                   mark, recovering, locks, faults>>

\* It publishes only while there is no outcome.
GuardianPublishes ==
    /\ pc["guardian"] = "watch" /\ AdoptedTreeEmpty
    /\ ~(output_unavailable /\ notification_owned) /\ outcome = NoFile
    /\ Goto("guardian", "publish")
    /\ UNCHANGED <<fences, workload, cancel, storage, files, terminal, seen,
                   mark, recovering, locks, faults>>

\* The rc and the terminal metadata follow the publication.
GuardianRecords ==
    /\ pc["guardian"] = "published"
    /\ terminal' = TRUE /\ Goto("guardian", "watch")
    /\ UNCHANGED <<fences, workload, cancel, storage, files, seen, mark,
                   recovering, locks, faults>>

(***************************************************************************)
(* Completion-only recovery (reconcile).                                   *)
(***************************************************************************)

\* Mutant: a fence without an outcome is revoked whatever its phase.
RecoverFenceSpent(r) ==
    /\ pc[r] = "idle" /\ committed /\ Free(launch)
    /\ ~Alive("guardian")
    /\ fence' = IF outcome = NoFile THEN "revoked_never_launched" ELSE fence
    /\ Goto(r, "serialize")
    /\ UNCHANGED <<local, committed, workload, cancel, storage, files, terminal,
                   seen, mark, recovering, locks, faults>>

\* Under launch.lock: an unspent fence is revoked, but only when the exact
\* registration worker is gone; until then the recovery answers "pending".
\* The broker's confirmation is stored in the same section.
RecoverFence(r) ==
    /\ pc[r] = "idle" /\ committed /\ Free(launch)
    /\ fence = "unreleased" => ~Alive("guardian")
    /\ fence' = IF fence = "unreleased" THEN "revoked_never_launched" ELSE fence
    /\ Goto(r, "serialize")
    /\ UNCHANGED <<local, committed, workload, cancel, storage, files, terminal,
                   seen, mark, recovering, locks, faults>>

\* source-recovery.lock orders recoveries; LOCAL records their authority.
Serialize(r) ==
    /\ pc[r] = "serialize" /\ Free(serial)
    /\ serial' = r /\ local' = "completion_only_confirmed" /\ Goto(r, "recover")
    /\ UNCHANGED <<fence, committed, workload, cancel, storage, files, terminal,
                   seen, mark, recovering, launch, capture, faults>>

\* Mutant: an outcome is taken for a finished publication.
NextRecoveryStops ==
    IF header = NoFile /\ selection # NoFile THEN "header"
    ELSE IF header # NoFile /\ output = NoFile /\ bundle = NoFile THEN "freeze"
    ELSE IF header # NoFile /\ bundle = NoFile THEN "bundle"
    ELSE IF fence = "revoked_never_launched" /\ outcome = NoFile /\ bundle = NoFile THEN "pin"
    ELSE IF bundle # NoFile /\ outcome = NoFile THEN "outcome"
    ELSE "idle"

\* What reconcile does next, from what is in the directory.
NextRecovery ==
    IF header = NoFile /\ selection # NoFile THEN "header"
    ELSE IF header # NoFile /\ output = NoFile /\ bundle = NoFile THEN "freeze"
    ELSE IF header # NoFile /\ bundle = NoFile THEN "bundle"
    ELSE IF fence = "revoked_never_launched" /\ outcome = NoFile /\ bundle = NoFile THEN "pin"
    ELSE IF bundle # NoFile THEN "outcome"
    ELSE "idle"

Recover(r) ==
    /\ pc[r] = "recover"
    /\ Goto(r, NextRecovery)
    /\ recovering' = IF NextRecovery \in {"pin", "idle"} THEN recovering \ {r}
                     ELSE recovering \cup {r}
    /\ serial' = IF NextRecovery = "idle" THEN "noone" ELSE serial
    /\ UNCHANGED <<fences, workload, cancel, storage, files, terminal, seen,
                   mark, launch, capture, faults>>

\* The answer; after a never-launched publication rc and metadata first.
RecoveryAnswers(r) ==
    /\ pc[r] = "published"
    /\ terminal' = (terminal \/ r \notin recovering)
    /\ recovering' = recovering \ {r}
    /\ capture' = Without(capture, r) /\ serial' = "noone" /\ Goto(r, "idle")
    /\ UNCHANGED <<fences, workload, cancel, storage, files, seen, mark, launch, faults>>

(***************************************************************************)
(* The environment and its faults.                                         *)
(***************************************************************************)

WorkloadExits ==
    /\ workload = "running"
    /\ workload' = "exited"
    /\ UNCHANGED <<fences, cancel, storage, files, terminal, pc, seen, mark,
                   recovering, locks, faults>>

AcceptCancel ==
    /\ ~cancel /\ ~terminal /\ fence # "none"
    /\ cancel' = TRUE
    /\ UNCHANGED <<fences, workload, storage, files, terminal, pc, seen, mark,
                   recovering, locks, faults>>

\* A process dies; its locks go, and a child behind the gate never runs.
Kill(a) ==
    /\ pc[a] \notin {"gone", "unborn", "idle"} /\ faults < MaxFaults
    /\ faults' = faults + 1
    /\ Goto(a, IF a \in Recoveries THEN "idle" ELSE "gone")
    /\ recovering' = recovering \ {a}
    /\ launch' = Without(launch, a)
    /\ capture' = Without(capture, a)
    /\ serial' = Without(serial, a)
    /\ workload' = IF a = "supervisor" /\ workload = "gated" THEN "refused" ELSE workload
    /\ UNCHANGED <<fences, cancel, storage, files, terminal, seen, mark>>

\* Names of the selected inode disappear, or the inode is cut short.
StorageLoss ==
    /\ selection # NoFile /\ faults < MaxFaults
    /\ faults' = faults + 1
    /\ \/ \E kept \in SUBSET names \ {names} : names' = kept /\ UNCHANGED whole
       \/ /\ whole /\ selection.len > 0 /\ ~Alive("supervisor")
          /\ whole' = FALSE /\ UNCHANGED names
    /\ UNCHANGED <<fences, workload, cancel, log, files, terminal, pc, seen, mark,
                   recovering, locks>>

GuardianStep ==
    \/ Prepare \/ PrepareFence \/ PrepareLocal \/ Register \/ Confirm
    \/ ConfirmFence \/ ConfirmLocal \/ Abandon \/ Fork
    \/ GuardianRetires \/ GuardianPublishes \/ GuardianRecords
    \/ PublicationStep("guardian")

SupervisorStep ==
    \/ Spawn \/ Launched \/ Release \/ SupervisorObserves \/ SupervisorExits
    \/ PublicationStep("supervisor")

RecoveryStep(r) ==
    \/ RecoverFence(r) \/ Serialize(r) \/ Recover(r) \/ Inventory(r)
    \/ RecoveryAnswers(r) \/ PublicationStep(r)

Next ==
    \/ GuardianStep
    \/ SupervisorStep
    \/ \E r \in Recoveries : RecoveryStep(r)
    \/ \E a \in Actors : CopyFails(a) \/ Kill(a)
    \/ BrokerCommits \/ Append \/ WorkloadExits \/ AcceptCancel \/ StorageLoss

Spec == Init /\ [][Next]_vars

\* Processes are scheduled, a workload ends, and the runner keeps starting
\* recoveries of a registration it has committed.
FairSpec ==
    /\ Spec
    /\ WF_vars(GuardianStep \/ CopyFails("guardian"))
    /\ WF_vars(SupervisorStep \/ CopyFails("supervisor"))
    /\ \A r \in Recoveries : WF_vars(RecoveryStep(r) \/ CopyFails(r))
    /\ WF_vars(WorkloadExits)

(***************************************************************************)
(* Properties.                                                             *)
(***************************************************************************)

Lengths == Missing .. MaxLog

\* Types of the files and of the processes that write them.
TypeOK ==
    /\ fence \in {"none", "unreleased", "may_launch", "launched", "revoked_never_launched"}
    /\ local \in {"none", "intent", "confirmed", "completion_only_confirmed"}
    /\ committed \in BOOLEAN /\ cancel \in BOOLEAN /\ whole \in BOOLEAN
    /\ proof \in BOOLEAN /\ terminal \in BOOLEAN
    /\ workload \in {"none", "gated", "running", "exited", "refused"}
    /\ log \in 0 .. MaxLog /\ names \subseteq {"log", "pin"}
    /\ selection \in [event : Events, len : Lengths] \cup {NoFile}
    /\ header \in Events \cup {NoFile} /\ outcome \in Events \cup {NoFile}
    /\ slot \in {"free", "body", "incomplete", "full", "complete", "receipt"}
    /\ output \in (0 .. MaxLog) \cup {NoFile}
    /\ bundle \in [event : Events, output : Lengths] \cup {NoFile}
    /\ snapshot = NoFile \/ snapshot.status \in
            {"ready", "completed", "error", "original_output_unavailable"}
    /\ pc \in [Actors -> PCs] /\ mark \in [Actors -> Lengths]
    /\ recovering \subseteq Recoveries
    /\ {launch, capture, serial} \subseteq Actors \cup {"noone"}
    /\ faults \in 0 .. MaxFaults

\* One event per handle: whichever of the live observer, the guardian and the
\* recoveries writes a file, and wherever one of them died, header, bundle,
\* outcome and snapshot are projections of the one selected event and of the
\* one length that was selected with it (or of its recorded loss).
OneEvent ==
    /\ header # NoFile => selection # NoFile /\ header = selection.event
    /\ bundle # NoFile => /\ header # NoFile /\ bundle.event = selection.event
                          /\ bundle.output \in {selection.len, Missing}
    /\ outcome # NoFile => bundle # NoFile /\ outcome = selection.event
    /\ snapshot # NoFile => /\ outcome # NoFile /\ snapshot.event = outcome
                            /\ snapshot.output = bundle.output

\* The launch fence is spent at most once: a fence that was revoked, and a
\* source that says "never launched", belong to a workload that has not run
\* and that neither its worker nor its supervisor can still launch.
NeverLaunchedIsTrue ==
    fence = "revoked_never_launched"
        \/ (selection # NoFile /\ selection.event.kind = "never_launched")
    => /\ fence = "revoked_never_launched"
       /\ workload \notin {"running", "exited"}
       /\ pc["guardian"] \notin {"confirmFence", "confirmLocal", "fork"}
       /\ pc["supervisor"] # "release"

\* A recorded loss is final and exact: no body is published beside it, by a
\* capturer that still had the bytes open, and no source says "missing"
\* without it.
LossIsFinal ==
    /\ proof => output = NoFile /\ (bundle # NoFile => bundle.output = Missing)
    /\ bundle # NoFile /\ bundle.output = Missing => proof

\* Bytes of the selected prefix that a publication could still use.
Recoverable == \/ output # NoFile \/ slot \in {"full", "complete"} \/ selected_file

\* Only a loss of storage loses the selected bytes: no step of a process
\* discards the last whole copy, however its own attempt ends.
LastCopyKept ==
    [][(selection # NoFile /\ Recoverable /\ UNCHANGED storage) => Recoverable']_vars

\* A process is copying the selected prefix.
Copying ==
    \E a \in Actors : pc[a] \in {"body", "copy", "complete", "link", "anonymous"}

\* What the source deliberately leaves pending: an event nobody observed, an
\* orphaned pin, or, with the original gone and nobody copying, a copy that
\* its receipt does not call complete and that may hold the bytes.
Pending ==
    \/ /\ selection = NoFile /\ fence \in {"may_launch", "launched"}
       /\ ~Alive("guardian") /\ pc["supervisor"] \in {"gone", "unborn"}
    \/ selection # NoFile /\ selection.len = Missing /\ "pin" \in names
    \/ /\ selection # NoFile /\ output = NoFile /\ ~selected_file
       /\ UncertainCopy /\ slot # "complete" /\ ~Copying

\* Whoever dies, and wherever, a committed registration gets its snapshot,
\* unless the evidence stays one of the documented uncertainties for ever.
SourceResolves == committed ~> (snapshot # NoFile \/ []Pending)

=============================================================================
