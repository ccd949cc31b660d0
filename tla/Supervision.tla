---------------------------- MODULE Supervision ----------------------------
(***************************************************************************)
(* Supervision of one handle (src/src/supervisor.rs with the custody and   *)
(* cancellation markers of state.rs): the supervisor's event loop, the     *)
(* guardian that succeeds it, commands that cancel or reconcile the handle *)
(* and the workload's process tree.  The handle has no continuation-v2     *)
(* registration and no paired root authority; completion delivery is       *)
(* reduced to what supervision sees of it (CompletionDelivery has the      *)
(* rest).                                                                  *)
(*                                                                         *)
(* completion.lock and reconciliation.lock are derived from where their    *)
(* holders are, so that a killed holder releases them.                     *)
(***************************************************************************)
EXTENDS Naturals, FiniteSets

CONSTANTS Root,         \* the process the supervisor spawns
          Descendants,  \* the processes the workload may still fork
          Commands,     \* cancel / status commands, each issued again and again
          Modes,        \* completion modes explored, "exit" or "sentinel"
          Killable      \* which of supervisor, guardian and command may be killed

Owners == {"supervisor", "guardian"}
Workload == {Root} \cup Descendants
Publishers == Owners \cup Commands

ASSUME RootAssumption == Root \notin Descendants
ASSUME DescendantsAssumption == IsFiniteSet(Descendants)
ASSUME CommandsAssumption == Commands \cap Owners = {}
ASSUME ModesAssumption == Modes \subseteq {"exit", "sentinel"}
ASSUME SupervisionKillableAssumption == Killable \subseteq Owners \cup {"command"}

VARIABLES
    mode, scope,    \* meta.mode and the completion scope
    record,         \* meta.completion_reason, "running" until it is terminal
    rc,             \* the rc file
    identity,       \* which process identities meta.json holds
    accepted,       \* cancel-requested
    drained,        \* cancellation-drained
    custody,        \* physical-custody
    delivery,       \* the completion delivery record
    proc,           \* every process of the workload
    exec_failed,    \* the root reported an exec error
    transfer,       \* the owners' delivery role: a child of the tree like any other
    sup,            \* where the supervisor is
    cause,          \* EventLoop.cancellation's provisional cause
    tree_empty, closed, root_status, recorded, settled, capture_error,
                    \* the other fields of EventLoop
    guard,          \* where the guardian is
    cancelling, empty, seen, reconciled,   \* locals of guard_supervisor_exit
    escalation,     \* each owner's CancellationEscalation
    command,        \* where each command is
    pub,            \* each publisher's step of the terminal publication
    proposal        \* what it proposes, then what it publishes

files == <<record, rc, identity, accepted, drained, custody, delivery>>
tree == <<proc, exec_failed, transfer>>
loop == <<cause, tree_empty, closed, root_status, recorded, settled, capture_error>>
guarding == <<cancelling, empty, seen, reconciled>>
vars == <<mode, scope, files, tree, sup, loop, guard, guarding, escalation, command, pub,
          proposal>>

-----------------------------------------------------------------------------

\* CancellationCause, weakest first (the two causes of a root authority are left out)
Causes == {"none", "owner-exit", "output-capture-failed", "cancel-request"}
rank(c) == CASE c = "none" -> 0 [] c = "owner-exit" -> 1
             [] c = "output-capture-failed" -> 3 [] c = "cancel-request" -> 4
with_precedence_over(c, d) == IF rank(c) >= rank(d) THEN c ELSE d
Cancellations == Causes \ {"none"}

Reasons == Cancellations \cup
    {"exit", "exit-before-ready", "ready-sentinel", "supervisor-error", "supervisor-lost"}

\* Mutant: a cancelled workload reports the bare signal number.
TerminalStatusBareSignal(reason) ==
    CASE reason \in Cancellations -> "15"
      [] reason \in {"exit", "exit-before-ready"} -> "root"
      [] reason = "ready-sentinel" -> "0"
      [] reason \in {"supervisor-error", "supervisor-lost"} -> "70"

\* The rc a terminal record carries; "root" is the status of the root process.
TerminalStatus(reason) ==
    CASE reason \in Cancellations -> "143"
      [] reason \in {"exit", "exit-before-ready"} -> "root"
      [] reason = "ready-sentinel" -> "0"
      [] reason \in {"supervisor-error", "supervisor-lost"} -> "70"

\* Mutant: only DONE counts as terminal, not ERROR.
TerminalWhenDone == record \notin {"running", "supervisor-error", "supervisor-lost"}

terminal == record # "running"

Alive(p) == proc[p] \in {"gated", "running", "detached"}
Writing(p) == proc[p] \in {"gated", "running"}      \* holds the output pipes open
SupervisorAlive == sup \notin {"exited", "failed"}
GuardianAlive == guard \notin {"returned", "gone"}
SupervisorReaped == ~SupervisorAlive /\ guard # "waiting"

\* waitpid finds no child: ECHILD
NoChild(procs, role) ==
    role = "none" /\ \A p \in Workload : procs[p] \in {"unborn", "reaped"}
Reaped(procs) == [p \in Workload |-> IF procs[p] = "zombie" THEN "reaped" ELSE procs[p]]

TypeOK ==
    /\ mode \in Modes /\ scope \in {"tree", "root"}
    /\ record \in Reasons \cup {"running"}
    /\ rc \in {"none", "root", "0", "70", "143"}
    /\ identity \in {"none", "supervisor", "both"}
    /\ accepted \in BOOLEAN /\ drained \in BOOLEAN /\ custody \in BOOLEAN
    /\ delivery \in {"unclaimed", "running", "settled", "unknown"}
    /\ proc \in [Workload -> {"unborn", "gated", "running", "detached", "zombie", "reaped"}]
    /\ exec_failed \in BOOLEAN
    /\ transfer \in {"none", "running", "exited"}
    /\ sup \in {"starting", "spawning", "identifying", "error", "claiming", "top", "finish", "mark",
                "deliver", "leave", "poll", "sentinel", "dispatch", "exited",
                "failed"}
    /\ cause \in Causes
    /\ tree_empty \in BOOLEAN /\ closed \in BOOLEAN /\ recorded \in BOOLEAN
    /\ settled \in BOOLEAN /\ capture_error \in BOOLEAN
    /\ root_status \in {"none", "pending", "flushed"}
    /\ guard \in {"waiting", "sweep", "settle", "reconcile", "deliver", "returned", "gone"}
    /\ cancelling \in BOOLEAN /\ empty \in BOOLEAN /\ seen \in BOOLEAN /\ reconciled \in BOOLEAN
    /\ escalation \in [Owners -> {"none", "term", "kill"}]
    /\ command \in [Commands -> {"idle", "lock", "captured", "accepted",
                                 "terminal", "progress", "list", "reconcile", "deliver"}]
    /\ pub \in [Publishers -> {"off", "begin", "rc", "meta"}]
    /\ proposal \in [Publishers -> Reasons \cup {"none"}]

\* daemonization_child has begun physical custody and forked the supervisor.
Init ==
    /\ mode \in Modes /\ scope \in {"tree", "root"}
    /\ record = "running" /\ rc = "none" /\ identity = "none"
    /\ accepted = FALSE /\ drained = FALSE /\ custody = TRUE /\ delivery = "unclaimed"
    /\ proc = [p \in Workload |-> "unborn"] /\ exec_failed = FALSE /\ transfer = "none"
    /\ sup = "starting" /\ cause = "none"
    /\ tree_empty = FALSE /\ closed = FALSE /\ root_status = "none" /\ recorded = FALSE
    /\ settled = FALSE /\ capture_error = FALSE
    /\ guard = "waiting"
    /\ cancelling = FALSE /\ empty = FALSE /\ seen = FALSE /\ reconciled = FALSE
    /\ escalation = [o \in Owners |-> "none"]
    /\ command = [k \in Commands |-> "idle"]
    /\ pub = [p \in Publishers |-> "off"]
    /\ proposal = [p \in Publishers |-> "none"]

\* What an owner held in memory goes with it.
SupervisorForgets ==
    /\ cause' = "none" /\ tree_empty' = FALSE /\ closed' = FALSE /\ root_status' = "none"
    /\ recorded' = FALSE /\ settled' = FALSE /\ capture_error' = FALSE
    /\ escalation' = [escalation EXCEPT !["supervisor"] = "none"]
    /\ pub' = [pub EXCEPT !["supervisor"] = "off"]
    /\ proposal' = [proposal EXCEPT !["supervisor"] = "none"]

GuardianForgets ==
    /\ cancelling' = FALSE /\ empty' = FALSE /\ seen' = FALSE /\ reconciled' = FALSE
    /\ escalation' = [escalation EXCEPT !["guardian"] = "none"]
    /\ pub' = [pub EXCEPT !["guardian"] = "off"]
    /\ proposal' = [proposal EXCEPT !["guardian"] = "none"]

-----------------------------------------------------------------------------
(* Terminal publication: publish_terminal_with_delivery_disposition *)

CompletionLockFree ==
    /\ \A p \in Publishers : pub[p] \in {"off", "begin"}
    /\ \A k \in Commands : command[k] \notin {"captured", "accepted"}

\* reconcile_lost_supervisor holds reconciliation.lock until delivery is settled.
ReconciliationLockFree ==
    /\ pub["guardian"] = "off"
    /\ \A k \in Commands : pub[k] = "off" /\ command[k] # "deliver"

Propose(p, reason) ==
    /\ pub' = [pub EXCEPT ![p] = "begin"]
    /\ proposal' = [proposal EXCEPT ![p] = reason]

\* The event loop publishes as LiveLoop; everyone else leaves or claims delivery.
LiveLoop(p) == p = "supervisor" /\ sup # "error"

\* Mutant: decided from what the event loop remembers.
FinalizedFromMemory(p) ==
    IF LiveLoop(p) /\ cause = "cancel-request" THEN "cancel-request" ELSE proposal[p]

\* finalize_terminal_proposal, decided from the durable marker
Finalized(p) == IF accepted THEN "cancel-request" ELSE proposal[p]

Deferred(p) ==
    ~terminal /\ accepted /\ ((LiveLoop(p) /\ ~tree_empty) \/ proposal[p] = "ready-sentinel")

\* EventLoop::request_cancellation; its sweep is the one the next pass begins with.
RequestCancellation(proposed) ==
    LET c == IF accepted THEN "cancel-request" ELSE proposed IN
    /\ cause' = with_precedence_over(cause, c)
    /\ escalation' = [escalation EXCEPT !["supervisor"] = IF @ = "none" THEN "term" ELSE @]

\* Where each publisher goes on; integrate_terminal_publication of the event loop
Published(p) ==
    /\ pub' = [pub EXCEPT ![p] = "off"]
    /\ proposal' = [proposal EXCEPT ![p] = "none"]
    /\ recorded' = (recorded \/ LiveLoop(p))
    /\ sup' = CASE p # "supervisor" -> sup
                [] p = "supervisor" /\ sup = "error" -> "claiming"
                [] p = "supervisor" /\ sup = "finish" -> "mark"
                [] p = "supervisor" /\ sup = "sentinel" -> "dispatch"
    /\ guard' = IF p = "guardian" THEN "deliver" ELSE guard
    /\ command' = [k \in Commands |-> IF p = k THEN "deliver" ELSE command[k]]

PublishDefers(p) ==
    /\ pub[p] = "begin" /\ CompletionLockFree
    /\ Deferred(p)
    /\ pub' = [pub EXCEPT ![p] = "off"]
    /\ proposal' = [proposal EXCEPT ![p] = "none"]
    /\ sup' = IF sup = "finish" THEN "mark" ELSE "dispatch"
    /\ RequestCancellation("cancel-request")
    /\ UNCHANGED <<mode, scope, files, tree, tree_empty, closed, root_status, recorded,
                   settled, capture_error, guard, guarding, command>>

\* Under completion.lock: a record that is already terminal is kept, otherwise the
\* final reason and the drain it proves
PublishBegins(p) ==
    /\ pub[p] = "begin" /\ CompletionLockFree
    /\ ~Deferred(p)
    /\ IF terminal
       THEN Published(p) /\ UNCHANGED drained
       ELSE /\ proposal' = [proposal EXCEPT ![p] = Finalized(p)]
            /\ drained' = (drained \/
                  (LiveLoop(p) /\ tree_empty /\ Finalized(p) \in Cancellations))
            /\ pub' = [pub EXCEPT ![p] = "rc"]
            /\ UNCHANGED <<recorded, sup, guard, command>>
    /\ UNCHANGED <<mode, scope, record, rc, identity, accepted, custody, delivery, tree, cause,
                   tree_empty, closed, root_status, settled, capture_error, guarding,
                   escalation>>

\* Mutant: an rc that is already there is kept.
PublishRcOnce(p) ==
    /\ pub[p] = "rc"
    /\ rc' = IF rc = "none" THEN TerminalStatus(proposal[p]) ELSE rc
    /\ pub' = [pub EXCEPT ![p] = "meta"]
    /\ UNCHANGED <<mode, scope, record, identity, accepted, drained, custody, delivery, tree,
                   sup, loop, guard, guarding, escalation, command, proposal>>

PublishRc(p) ==
    /\ pub[p] = "rc"
    /\ rc' = TerminalStatus(proposal[p])
    /\ pub' = [pub EXCEPT ![p] = "meta"]
    /\ UNCHANGED <<mode, scope, record, identity, accepted, drained, custody, delivery, tree,
                   sup, loop, guard, guarding, escalation, command, proposal>>

PublishMeta(p) ==
    /\ pub[p] = "meta"
    /\ record' = proposal[p]
    /\ Published(p)
    /\ UNCHANGED <<mode, scope, rc, identity, accepted, drained, custody, delivery, tree,
                   cause, tree_empty, closed, root_status, settled, capture_error, guarding,
                   escalation>>

Publish(p) ==
    PublishDefers(p) \/ PublishBegins(p) \/ PublishRc(p) \/ PublishMeta(p)

-----------------------------------------------------------------------------
(* The supervisor: run_supervisor, then event_loop *)

\* The first write of meta.json is best effort, as the others of startup are.
StartsUp ==
    /\ sup = "starting"
    /\ identity' \in {"none", "supervisor"}
    /\ sup' = "spawning"
    /\ UNCHANGED <<mode, scope, record, rc, accepted, drained, custody, delivery, tree, loop,
                   guard, guarding, escalation, command, pub, proposal>>

SpawnsWorkload ==
    /\ sup = "spawning"
    /\ proc' = [proc EXCEPT ![Root] = "gated"]
    /\ sup' = "identifying"
    /\ UNCHANGED <<mode, scope, files, exec_failed, transfer, loop, guard, guarding, escalation,
                   command, pub, proposal>>

PersistsIdentity ==
    /\ sup = "identifying"
    /\ identity' \in {identity, "both"}
    /\ sup' = "top"
    /\ UNCHANGED <<mode, scope, record, rc, accepted, drained, custody, delivery, tree, loop,
                   guard, guarding, escalation, command, pub, proposal>>

\* record_supervisor_error, then a nonzero exit; the workload may have started.
StartupFails ==
    /\ sup \in {"starting", "spawning", "identifying"}
    /\ sup' = "error"
    /\ Propose("supervisor", "supervisor-error")
    /\ UNCHANGED <<mode, scope, files, tree, loop, guard, guarding, escalation, command>>

\* reconcile_completion_delivery as a synchronous claimant does it
ClaimsDelivery ==
    /\ delivery # "running"
    /\ delivery' \in IF delivery = "unclaimed" THEN {"settled", "unknown"} ELSE {delivery}

StartupExits ==
    /\ sup = "claiming"
    /\ ClaimsDelivery
    /\ sup' = "failed"
    /\ UNCHANGED <<mode, scope, record, rc, identity, accepted, drained, custody, tree, loop,
                   guard, guarding, escalation, command, pub, proposal>>

\* signal_descendants: SIGTERM asks (a process may exit at any time anyway);
\* SIGKILL ends the processes the sweep caught, which a concurrent fork may escape.
Sweep(procs, signal) ==
    LET caught == {p \in Workload : procs[p] \in {"gated", "running", "detached"}} IN
    IF signal = "kill" /\ caught # {}
    THEN {[p \in Workload |-> IF p \in killed THEN "zombie" ELSE procs[p]] :
            killed \in SUBSET caught \ {{}}}
    ELSE {procs}

\* check_explicit_cancel, check_polled_owner (or its pidfd) and drive_cancellation
TopOfLoop ==
    /\ sup = "top"
    /\ \E observed \in {cause} \cup (IF cause = "none" THEN {"owner-exit"} ELSE {}) :
        LET c == IF accepted THEN "cancel-request" ELSE observed
            e == IF c # "none" /\ escalation["supervisor"] = "none" THEN "term"
                 ELSE escalation["supervisor"] IN
        /\ cause' = c
        /\ escalation' = [escalation EXCEPT !["supervisor"] = e]
        /\ proc' \in IF recorded /\ record \in Cancellations THEN {proc} ELSE Sweep(proc, e)
    /\ sup' = "finish"
    /\ UNCHANGED <<mode, scope, files, exec_failed, transfer, tree_empty, closed, root_status,
                   recorded, settled, capture_error, guard, guarding, command, pub, proposal>>

\* exit_completion_ready and exit_completion_reason
exit_completion_ready == closed /\ (tree_empty \/ (cause = "none" /\ scope = "root"))
exit_completion_reason ==
    IF cause # "none" THEN cause
    ELSE IF mode = "sentinel" THEN "exit-before-ready" ELSE "exit"

finish_decision ==
    IF recorded \/ root_status = "none" \/ ~exit_completion_ready THEN "none"
    ELSE IF capture_error \/ (exec_failed /\ tree_empty) THEN "supervisor-error"
    ELSE exit_completion_reason

MaybeFinish ==
    /\ sup = "finish" /\ pub["supervisor"] = "off"
    /\ \/ /\ finish_decision # "none"
          /\ Propose("supervisor", finish_decision)
          /\ UNCHANGED sup
       \/ /\ finish_decision = "none"
          /\ sup' = "mark"
          /\ UNCHANGED <<pub, proposal>>
    /\ UNCHANGED <<mode, scope, files, tree, loop, guard, guarding, escalation, command>>

\* Mutant: closed output is taken for an empty tree.
MarksDrainedOnClosure ==
    /\ sup = "mark"
    /\ drained' = (drained \/ (closed /\ accepted))
    /\ sup' = "deliver"
    /\ UNCHANGED <<mode, scope, record, rc, identity, accepted, custody, delivery, tree, loop,
                   guard, guarding, escalation, command, pub, proposal>>

\* Reaping and closure are drain evidence whatever was published.
MarksDrained ==
    /\ sup = "mark"
    /\ drained' = (drained \/ (tree_empty /\ closed /\ accepted))
    /\ sup' = "deliver"
    /\ UNCHANGED <<mode, scope, record, rc, identity, accepted, custody, delivery, tree, loop,
                   guard, guarding, escalation, command, pub, proposal>>

\* drive_completion_delivery and flush_root_status
DrivesDelivery ==
    /\ sup = "deliver"
    /\ IF recorded /\ ~settled /\ transfer = "none"
       THEN \/ /\ delivery = "unclaimed"
               /\ delivery' = "running" /\ transfer' = "running" /\ tree_empty' = FALSE
               /\ UNCHANGED settled
            \/ /\ delivery' = IF delivery = "unclaimed" THEN "settled" ELSE delivery
               /\ settled' = TRUE
               /\ UNCHANGED <<transfer, tree_empty>>
       ELSE UNCHANGED <<delivery, transfer, tree_empty, settled>>
    /\ root_status' = IF root_status = "pending" /\ transfer' = "none" THEN "flushed"
                      ELSE root_status
    /\ sup' = "leave"
    /\ UNCHANGED <<mode, scope, record, rc, identity, accepted, drained, custody, proc,
                   exec_failed, cause, closed, recorded, capture_error, guard, guarding,
                   escalation, command, pub, proposal>>

should_exit ==
    /\ recorded /\ settled /\ closed
    /\ delivery = "unknown" => tree_empty
    /\ root_status = "flushed"
    /\ scope = "root" \/ tree_empty

\* end_physical_custody, under custody.lock: a request accepted in the meantime
\* is drained by the same observation.
EndPhysicalCustody ==
    /\ drained' = (drained \/ accepted)
    /\ custody' = FALSE

\* Mutant: custody ends with the event loop, whatever it left behind.
LeavesLoopDischarged ==
    /\ sup = "leave"
    /\ \/ /\ should_exit
          /\ EndPhysicalCustody
          /\ sup' = "exited" /\ SupervisorForgets
       \/ /\ ~should_exit
          /\ sup' = "poll"
          /\ UNCHANGED <<drained, custody, loop, escalation, pub, proposal>>
    /\ UNCHANGED <<mode, scope, record, rc, identity, accepted, delivery, tree, guard, guarding,
                   command>>

LeavesLoop ==
    /\ sup = "leave"
    /\ \/ /\ should_exit
          /\ IF tree_empty THEN EndPhysicalCustody ELSE UNCHANGED <<drained, custody>>
          /\ sup' = "exited" /\ SupervisorForgets
       \/ /\ ~should_exit
          /\ sup' = "poll"
          /\ UNCHANGED <<drained, custody, loop, escalation, pub, proposal>>
    /\ UNCHANGED <<mode, scope, record, rc, identity, accepted, delivery, tree, guard, guarding,
                   command>>

\* handle_stdout_bytes: the sentinel matches, a log write fails, or neither
ReadsSentinel ==
    /\ sup = "poll"
    /\ mode = "sentinel" /\ ~closed /\ ~recorded /\ ~capture_error
    /\ proc[Root] # "gated" /\ ~exec_failed
    /\ Propose("supervisor", "ready-sentinel")
    /\ sup' = "sentinel"
    /\ UNCHANGED <<mode, scope, files, tree, loop, guard, guarding, escalation, command>>

CaptureFails ==
    /\ sup = "poll"
    /\ ~closed /\ ~capture_error
    /\ capture_error' = TRUE
    /\ RequestCancellation("output-capture-failed")
    /\ sup' = "dispatch"
    /\ UNCHANGED <<mode, scope, files, tree, tree_empty, closed, root_status, recorded, settled,
                   guard, guarding, command, pub, proposal>>

ReadsOutput ==
    /\ sup = "poll"
    /\ sup' = "dispatch"
    /\ UNCHANGED <<mode, scope, files, tree, loop, guard, guarding, escalation, command, pub,
                   proposal>>

\* The rest of dispatch_ready_pollfds: EOF of the output, then reap_children
Dispatches ==
    /\ sup = "dispatch"
    /\ closed' = (closed \/ \A p \in Workload : ~Writing(p))
    /\ proc' = Reaped(proc)
    /\ transfer' = IF transfer = "exited" THEN "none" ELSE transfer
    /\ settled' = (settled \/ transfer = "exited")
    /\ tree_empty' = NoChild(proc', transfer')
    /\ root_status' = IF root_status # "none" \/ proc'[Root] # "reaped" THEN root_status
                      ELSE IF transfer' = "none" THEN "flushed" ELSE "pending"
    /\ sup' = "top"
    /\ UNCHANGED <<mode, scope, files, exec_failed, cause, recorded, capture_error, guard,
                   guarding, escalation, command, pub, proposal>>

\* Killed, or event_loop returned an error
KillSupervisor ==
    /\ "supervisor" \in Killable
    /\ SupervisorAlive
    /\ sup' = "failed" /\ SupervisorForgets
    /\ UNCHANGED <<mode, scope, files, tree, guard, guarding, command>>

-----------------------------------------------------------------------------
(* The guardian: guard_supervisor_exit *)

GuardianTakesOver ==
    /\ guard = "waiting"
    /\ ~SupervisorAlive
    /\ reconciled' = (sup = "exited")
    /\ guard' = "sweep"
    /\ UNCHANGED <<mode, scope, files, tree, sup, loop, cancelling, empty, seen, escalation,
                   command, pub, proposal>>

\* Read the markers, signal the adopted tree, reap what has exited.
GuardianSweeps ==
    /\ guard = "sweep"
    /\ seen' = accepted
    /\ cancelling' = (accepted /\ ~drained)
    /\ escalation' = [escalation EXCEPT !["guardian"] =
                        IF cancelling' /\ @ = "none" THEN "term" ELSE @]
    /\ proc' \in {Reaped(swept) :
                    swept \in Sweep(proc, IF cancelling' THEN escalation'["guardian"] ELSE "none")}
    /\ transfer' = IF transfer = "exited" THEN "none" ELSE transfer
    /\ empty' = NoChild(proc', transfer')
    /\ guard' = "settle"
    /\ UNCHANGED <<mode, scope, files, exec_failed, sup, loop, reconciled, command, pub,
                   proposal>>

GuardianDischarges ==
    /\ guard = "settle"
    /\ reconciled /\ empty
    /\ EndPhysicalCustody
    /\ guard' = "returned" /\ GuardianForgets
    /\ UNCHANGED <<mode, scope, record, rc, identity, accepted, delivery, tree, sup, loop,
                   command>>

\* The drain of an accepted cancellation; nothing more while the tree has work
\* to cancel or a delivery role to wait for.
GuardianSettles ==
    /\ guard = "settle"
    /\ ~(reconciled /\ empty)
    /\ drained' = (drained \/ (cancelling /\ empty))
    /\ guard' = IF reconciled \/ (~empty /\ (cancelling \/ transfer # "none"))
                THEN "sweep" ELSE "reconcile"
    /\ UNCHANGED <<mode, scope, record, rc, identity, accepted, custody, delivery, tree, sup,
                   loop, guarding, escalation, command, pub, proposal>>

\* exact_supervisor_and_workload_are_gone
ExactlyGone ==
    mode = "exit" /\ identity = "both" /\ SupervisorReaped /\ proc[Root] = "reaped"

\* Mutant: only exact evidence of the workload's end lets the guardian publish.
GuardianReconcilesExactOnly ==
    /\ guard = "reconcile" /\ pub["guardian"] = "off"
    /\ IF ReconciliationLockFree /\ ~terminal /\ ExactlyGone
       THEN Propose("guardian", "supervisor-lost") /\ UNCHANGED guard
       ELSE /\ guard' = IF ReconciliationLockFree /\ (terminal \/ mode # "exit")
                        THEN "deliver" ELSE "sweep"
            /\ UNCHANGED <<pub, proposal>>
    /\ UNCHANGED <<mode, scope, files, tree, sup, loop, guarding, escalation, command>>

\* reconcile_lost_supervisor_after_guardian: the lock is only tried.
GuardianReconciles ==
    /\ guard = "reconcile" /\ pub["guardian"] = "off"
    /\ IF ReconciliationLockFree /\ ~terminal
             /\ (ExactlyGone \/ (seen /\ accepted /\ (empty \/ ~cancelling)))
       THEN Propose("guardian", "supervisor-lost") /\ UNCHANGED guard
       ELSE /\ guard' = IF ReconciliationLockFree /\ (terminal \/ mode # "exit")
                        THEN "deliver" ELSE "sweep"
            /\ UNCHANGED <<pub, proposal>>
    /\ UNCHANGED <<mode, scope, files, tree, sup, loop, guarding, escalation, command>>

\* try_start_completion_delivery: Running, Settled or Busy
GuardianDelivers ==
    /\ guard = "deliver"
    /\ \/ /\ delivery = "unclaimed"
          /\ delivery' = "running" /\ transfer' = "running" /\ reconciled' = TRUE
       \/ /\ delivery # "running"
          /\ delivery' = IF delivery = "unclaimed" THEN "settled" ELSE delivery
          /\ reconciled' = TRUE
          /\ UNCHANGED transfer
       \/ /\ delivery = "running"
          /\ UNCHANGED <<delivery, transfer, reconciled>>
    /\ guard' = "sweep"
    /\ UNCHANGED <<mode, scope, record, rc, identity, accepted, drained, custody, proc,
                   exec_failed, sup, loop, cancelling, empty, seen, escalation, command, pub,
                   proposal>>

KillGuardian ==
    /\ "guardian" \in Killable
    /\ GuardianAlive
    /\ guard' = "gone" /\ GuardianForgets
    /\ UNCHANGED <<mode, scope, files, tree, sup, loop, command>>

-----------------------------------------------------------------------------
(* Commands: request_cancel, and the reconciliation of status and list *)

CommandFrame(k, to) ==
    /\ command' = [command EXCEPT ![k] = to]
    /\ UNCHANGED <<mode, scope, record, rc, identity, drained, custody, tree, sup, loop, guard,
                   guarding, escalation>>

\* reconcile_status_meta: delivery that needs progress is claimed directly.
StatusReconciles(k) ==
    /\ command[k] = "idle"
    /\ \/ terminal /\ delivery \in {"unclaimed", "running"} /\ CommandFrame(k, "progress")
       \/ ~terminal /\ mode = "exit" /\ CommandFrame(k, "reconcile")
    /\ UNCHANGED <<accepted, delivery, pub, proposal>>

\* list reconciles every visible handle that still runs in exit mode, and leaves
\* its delivery pending.
ListReconciles(k) ==
    /\ command[k] = "idle"
    /\ ~terminal /\ mode = "exit" /\ CommandFrame(k, "list")
    /\ UNCHANGED <<accepted, delivery, pub, proposal>>

\* The first look, without a lock, after waiting for supervisor metadata a while
CancelReads(k) ==
    /\ command[k] = "idle"
    /\ CommandFrame(k, IF terminal THEN "terminal" ELSE "lock")
    /\ UNCHANGED <<accepted, delivery, pub, proposal>>

\* Under completion.lock: read again, then capture the exact supervisor by pidfd.
CancelCaptures(k) ==
    /\ command[k] = "lock"
    /\ CompletionLockFree
    /\ CommandFrame(k, IF terminal THEN "terminal"
                       ELSE IF identity # "none" /\ SupervisorAlive THEN "captured"
                       ELSE "reconcile")
    /\ UNCHANGED <<accepted, delivery, pub, proposal>>

\* record_explicit_cancel_acceptance: the durable acceptance
CancelAccepts(k) ==
    /\ command[k] = "captured"
    /\ accepted' = TRUE
    /\ CommandFrame(k, "accepted")
    /\ UNCHANGED <<delivery, pub, proposal>>

\* The wake-up signal, and the release of completion.lock
CancelWakes(k) ==
    /\ command[k] = "accepted"
    /\ CommandFrame(k, IF SupervisorReaped THEN "reconcile" ELSE "idle")
    /\ UNCHANGED <<accepted, delivery, pub, proposal>>

\* Mutant: the custody marker is not consulted.
CancelTerminalAlways(k) ==
    /\ command[k] = "terminal"
    /\ accepted' = (accepted \/ ~drained)
    /\ CommandFrame(k, "idle")
    /\ UNCHANGED <<delivery, pub, proposal>>

\* accept_terminal_custody_cancel, under custody.lock
CancelTerminal(k) ==
    /\ command[k] = "terminal"
    /\ accepted' = (accepted \/ (custody /\ ~drained))
    /\ CommandFrame(k, "idle")
    /\ UNCHANGED <<delivery, pub, proposal>>

\* reconcile_lost_supervisor
CommandReconciles(k) ==
    /\ command[k] \in {"reconcile", "list"} /\ pub[k] = "off"
    /\ ReconciliationLockFree
    /\ IF ~terminal /\ ExactlyGone
       THEN CommandFrame(k, command[k]) /\ Propose(k, "supervisor-lost")
       ELSE /\ CommandFrame(k, IF terminal /\ command[k] = "reconcile" THEN "deliver" ELSE "idle")
            /\ UNCHANGED <<pub, proposal>>
    /\ UNCHANGED <<accepted, delivery>>

CommandDelivers(k) ==
    /\ command[k] \in {"progress", "deliver"}
    /\ ClaimsDelivery
    /\ CommandFrame(k, "idle")
    /\ UNCHANGED <<accepted, pub, proposal>>

KillCommand(k) ==
    /\ "command" \in Killable
    /\ command[k] # "idle"
    /\ pub' = [pub EXCEPT ![k] = "off"]
    /\ proposal' = [proposal EXCEPT ![k] = "none"]
    /\ CommandFrame(k, "idle")
    /\ UNCHANGED <<accepted, delivery>>

-----------------------------------------------------------------------------
(* The workload, the delivery role and the grace clock *)

WorkloadFrame ==
    UNCHANGED <<mode, scope, files, transfer, sup, loop, guard, guarding, escalation, command,
                pub, proposal>>

RootExecs ==
    /\ proc[Root] = "gated"
    /\ \/ proc' = [proc EXCEPT ![Root] = "running"] /\ UNCHANGED exec_failed
       \/ proc' = [proc EXCEPT ![Root] = "zombie"] /\ exec_failed' = TRUE
    /\ WorkloadFrame

Forks(p, q) ==
    /\ proc[p] \in {"running", "detached"} /\ proc[q] = "unborn"
    /\ proc' = [proc EXCEPT ![q] = proc[p]]
    /\ UNCHANGED exec_failed /\ WorkloadFrame

\* A daemon lets go of the output pipes.
Detaches(p) ==
    /\ proc[p] = "running"
    /\ proc' = [proc EXCEPT ![p] = "detached"]
    /\ UNCHANGED exec_failed /\ WorkloadFrame

Exits(p) ==
    /\ Alive(p)
    /\ proc' = [proc EXCEPT ![p] = "zombie"]
    /\ UNCHANGED exec_failed /\ WorkloadFrame

\* With both owners dead the system's init reaps.
OrphansReaped ==
    /\ ~SupervisorAlive /\ ~GuardianAlive
    /\ \E p \in Workload : proc[p] = "zombie"
    /\ proc' = Reaped(proc)
    /\ UNCHANGED exec_failed /\ WorkloadFrame

\* The role custodian has recorded its worker's outcome and seen ECHILD.
TransferExits ==
    /\ transfer = "running"
    /\ transfer' = "exited"
    /\ delivery' \in {"settled", "unknown"}
    /\ UNCHANGED <<mode, scope, record, rc, identity, accepted, drained, custody, proc,
                   exec_failed, sup, loop, guard, guarding, escalation, command, pub, proposal>>

\* CANCEL_GRACE has passed.
GraceElapses(o) ==
    /\ escalation[o] = "term"
    /\ escalation' = [escalation EXCEPT ![o] = "kill"]
    /\ UNCHANGED <<mode, scope, files, tree, sup, loop, guard, guarding, command, pub, proposal>>

-----------------------------------------------------------------------------

SupervisorStep ==
    \/ StartsUp \/ SpawnsWorkload \/ PersistsIdentity \/ StartupFails \/ StartupExits
    \/ TopOfLoop \/ MaybeFinish \/ MarksDrained \/ DrivesDelivery \/ LeavesLoop
    \/ ReadsSentinel \/ CaptureFails \/ ReadsOutput \/ Dispatches
    \/ Publish("supervisor")

GuardianStep ==
    \/ GuardianTakesOver \/ GuardianSweeps \/ GuardianDischarges \/ GuardianSettles
    \/ GuardianReconciles \/ GuardianDelivers \/ Publish("guardian")

CommandStep(k) ==
    \/ CancelCaptures(k) \/ CancelAccepts(k) \/ CancelWakes(k)
    \/ CancelTerminal(k) \/ CommandReconciles(k) \/ CommandDelivers(k) \/ Publish(k)

WorkloadStep ==
    \/ RootExecs \/ OrphansReaped
    \/ \E p \in Workload : Detaches(p) \/ Exits(p) \/ \E q \in Workload : Forks(p, q)

Next ==
    \/ SupervisorStep \/ KillSupervisor
    \/ GuardianStep \/ KillGuardian
    \/ \E k \in Commands :
        StatusReconciles(k) \/ ListReconciles(k) \/ CancelReads(k) \/ CommandStep(k) \/ KillCommand(k)
    \/ WorkloadStep \/ TransferExits
    \/ \E o \in Owners : GraceElapses(o)

Spec == Init /\ [][Next]_vars

\* Live processes run, a blocked flock is granted, the grace period ends, and
\* commands are not killed for ever.  Nothing is assumed of the workload, of the
\* delivery helper, of the owners' deaths or of commands being issued.
Fairness ==
    /\ WF_vars(SupervisorStep) /\ WF_vars(GuardianStep)
    /\ \A k \in Commands : WF_vars(CommandStep(k))
    /\ \A p \in Owners : SF_vars(Publish(p))
    /\ \A o \in Owners : WF_vars(GraceElapses(o))
    /\ <>[][~\E k \in Commands : KillCommand(k)]_vars

FairSpec == Spec /\ Fairness

-----------------------------------------------------------------------------
(* Properties *)

\* A terminal record is immutable and its reason was decided once: supervisor,
\* guardian and reconciling commands race to publish, some from what they read
\* before the lock.
TerminalIsFinal == [][record # "running" => record' = record]_vars

\* DESIGN.md: every non-sentinel terminal producer gives an accepted cancel
\* precedence, and a sentinel defers to it: a record that becomes terminal while
\* the marker is on disk says cancel-request, whoever publishes it.
CancelPrecedence == [][~terminal /\ record' # record /\ accepted => record' = "cancel-request"]_vars

\* rc is written before meta.json and a crash may separate them: a terminal
\* record and the rc file still agree.
RcMatchesRecord == terminal => rc = TerminalStatus(record)

\* cancellation-drained is evidence: no process of the workload is left, and none
\* comes back, once either owner has written it.
DrainedIsTrue == drained => \A p \in Workload : proc[p] \in {"unborn", "reaped"}

\* While a process of the workload lives the custody marker vetoes the reaper and
\* admits cancellation, however completion and the owners' deaths interleave.
CustodyCoversTree == (\E p \in Workload : Alive(p)) => custody

\* state.rs: terminal admission cannot recreate a responsibility already
\* discharged by an empty-tree observer (exit mode).
NoLateAcceptance ==
    [][mode = "exit" /\ ~custody /\ ~accepted => ~accepted']_vars

\* DESIGN.md: requester death cannot abandon an accepted request, nor can the
\* supervisor's: unless the guardian is killed or a delivery helper runs for
\* ever, the workload is drained and the record published (exit mode).
AcceptedCancelCompletes ==
    (accepted /\ mode = "exit") ~>
        ((drained /\ terminal) \/ guard = "gone" \/ [](transfer = "running"))

\* DESIGN.md: the guardian observes the terminal record, then claims pending
\* delivery; no helper runs for a handle whose record is still RUNNING.
DeliveryFollowsTerminal == delivery # "unclaimed" => terminal
=============================================================================
