------------------------------ MODULE RootWork ------------------------------
(***************************************************************************)
(* Paired original work (root_work.rs, and the root worker's half in       *)
(* supervisor.rs).  A run that belongs to a paired tree is not supervised  *)
(* by a process of its own: the client writes an intent, submits it to the *)
(* runner's guardian (the root), and the root executes it in a worker that *)
(* talks to it over a control socket, one byte per phase:                  *)
(*                                                                         *)
(*    worker -> root   P prepared, R locally ready, T terminal             *)
(*    root -> worker   G granted, S settled, and the causes of a           *)
(*                     cancellation: C explicit request, O owner exit,     *)
(*                     K causal parent, F root authority lost              *)
(*                                                                         *)
(* The module has one work: its client (route selection, the walk over its *)
(* ancestors, submission), the root (external), the worker, and one        *)
(* command that cancels.  Processes die and operations fail at any step.   *)
(***************************************************************************)
EXTENDS Naturals, Sequences

CONSTANTS
    Envs,      \* the environments the client may be started in
    MaxFaults  \* bound on failures and deaths

VARIABLES
    env,       \* the client's environment, one of Envs
    live,      \* the client's ancestors that are alive, the guardian apart
    client,    \* the client: its step, the ancestor it examines, the next one
    request,   \* what the root has of the submission
    reply,     \* what the root has answered on the submission's socket
    root,      \* the root: alive, accepted, decided, receipt, settled
    inbox,     \* bytes the root has sent and the worker has not read
    outbox,    \* bytes the worker has sent
    worker,    \* the worker: see WorkerType
    meta,      \* meta.json: completion reason, supervisor identity recorded
    marker,    \* the handle's local cancel-requested marker
    source,    \* the v2 completion source's event is selected
    canceller, \* the step of the cancel command
    faults

vars == <<env, live, client, request, reply, root, inbox, outbox,
          worker, meta, marker, source, canceller, faults>>

clientVars == <<env, live, client>>
wireVars == <<request, reply>>
workerVars == <<worker, outbox>>
recordVars == <<meta, marker, source>>
besidesClient ==
    <<env, live, root, inbox, canceller, wireVars, workerVars, recordVars>>

Causes == {"C", "O", "K", "F"}

\* The ancestors of a client started by paired work: a shell, the worker of
\* the parent work, the guardian.  A client started outside has only a shell.
Chain(e) == IF e.paired THEN <<"shell", "parent", "guardian">> ELSE <<"shell">>

\* The causal parent the client names: none, one with its capability, or only
\* one of the two.
WorkRegistration == {"root", "nested", "torn"}

EnvType ==
    [marker : {"absent", "one", "bad"},       \* OULIPOLY_ORIGINAL_WORK_REQUIRED_V1
     endpoint : BOOLEAN,                      \* OULIPOLY_COMPLETION_ENDPOINT
     grant : {"absent", "legacy", "v2", "bad"}, \* OULIPOLY_ROOT_AUTHORITY_V1: its
                                              \* control protocol
     parent : WorkRegistration,               \* work id and parent capability
     ring : {"paired", "other", "malformed"}, \* the session keyring
     paired : BOOLEAN,                        \* started by paired work
     v2 : BOOLEAN]                            \* completion continuation is enabled

ASSUME RootWorkAssumption == Envs \subseteq EnvType /\ MaxFaults \in Nat

Init ==
    /\ env \in Envs
    /\ live = {"shell", "parent"}
    /\ client = [at |-> "select", pid |-> "none", next |-> "none"]
    /\ request = "none" /\ reply = "none"
    /\ root = [alive |-> TRUE, accepted |-> FALSE, decided |-> FALSE,
               receipt |-> "none", settled |-> FALSE]
    /\ inbox = <<>> /\ outbox = {}
    /\ worker = [at |-> "none", cause |-> "none", told |-> {}, dropped |-> {},
                 launched |-> FALSE, empty |-> FALSE, ready |-> FALSE, fd |-> TRUE,
                 granted |-> FALSE, recorded |-> FALSE, error |-> FALSE]
    /\ meta = [reason |-> "none", supervisor |-> FALSE]
    /\ marker = FALSE /\ source = FALSE
    /\ canceller = "idle"
    /\ faults = 0

Fault == faults < MaxFaults /\ faults' = faults + 1

(***************************************************************************)
(* Records.  Terminal metadata is written once, under completion.lock.     *)
(***************************************************************************)
terminal == meta.reason # "none"

Record(reason) ==
    meta' = IF terminal THEN meta ELSE [meta EXCEPT !.reason = reason]

\* The result of the record is dropped: "let _ = record_...".
BestEffort(reason) == Record(reason) \/ UNCHANGED meta

ClientStep(at) == client' = [client EXCEPT !.at = at]

\* A failure that is proven to precede acceptance ends the run.
record_root_preaccept_failure == BestEffort("preaccept")

preaccept_failure ==
    /\ ClientStep("failed")
    /\ record_root_preaccept_failure
    /\ UNCHANGED <<env, live, root, inbox, marker, source, canceller, wireVars, workerVars>>

(***************************************************************************)
(* Selection of the route.  Only a client with neither the marker nor a    *)
(* grant may be standalone, and only if neither its session keyring nor a  *)
(* live ancestor says that it belongs to paired work.                      *)
(***************************************************************************)
required == env.marker = "one"

Select ==
    /\ client.at = "select"
    /\ UNCHANGED faults
    /\ \/ env.marker = "bad" /\ preaccept_failure
       \/ /\ env.marker # "bad"
          /\ ClientStep(IF ~required /\ env.grant = "absent" THEN "ring" ELSE "route")
          /\ UNCHANGED besidesClient

Alive(p) == IF p = "guardian" THEN root.alive ELSE p \in live

\* The parent of ancestor i of the chain (of the client itself for i = 0) as
\* the kernel keeps it: the nearest ancestor that is alive adopts.
ParentOf(i) ==
    LET above == {j \in (i + 1) .. Len(Chain(env)) : Alive(Chain(env)[j])}
    IN IF above = {} THEN "init"
       ELSE Chain(env)[CHOOSE j \in above : \A k \in above : j <= k]

IndexOf(p) == CHOOSE i \in DOMAIN Chain(env) : Chain(env)[i] = p

\* What the description of the session keyring says: the paired prefix with a
\* version 4 UUID, another well-formed name of the caller's own, or neither.
parse_session_ring_description == env.ring

\* A paired ring, a malformed description and a query that fails all refuse.
inherited_paired_session_ring ==
    /\ client.at = "ring"
    /\ \/ parse_session_ring_description # "other" /\ preaccept_failure /\ UNCHANGED faults
       \/ Fault /\ preaccept_failure
       \/ /\ parse_session_ring_description = "other"
          /\ client' = [client EXCEPT !.at = "walk", !.pid = ParentOf(0)]
          /\ UNCHANGED <<faults, besidesClient>>

WalkReadLenient ==
    /\ client.at = "walk"
    /\ UNCHANGED faults
    /\ client' = [client EXCEPT
        !.at = IF client.pid = "init" \/ ~Alive(client.pid) THEN "route" ELSE "examine",
        !.next = IF client.pid = "init" \/ ~Alive(client.pid) THEN "none"
                 ELSE ParentOf(IndexOf(client.pid))]
    /\ UNCHANGED besidesClient

\* One ancestor: its start time and its parent are read.  Init ends the walk;
\* an ancestor that has vanished since its child named it refuses.
WalkRead ==
    /\ client.at = "walk"
    /\ UNCHANGED faults
    /\ \/ client.pid # "init" /\ ~Alive(client.pid) /\ preaccept_failure
       \/ /\ client.pid = "init" \/ Alive(client.pid)
          /\ client' = [client EXCEPT
                !.at = IF client.pid = "init" THEN "route" ELSE "examine",
                !.next = IF client.pid = "init" THEN "none"
                         ELSE ParentOf(IndexOf(client.pid))]
          /\ UNCHANGED besidesClient

ancestor_holds_guardian_socket(p) == p = "guardian"

\* It is refused as a custodian when its command line is the worker's or it
\* holds a guardian's socket, and for any read of /proc that fails; the walk
\* goes on with the parent read before.
Custodian(p) == p = "parent" \/ ancestor_holds_guardian_socket(p)

has_paired_custodian_ancestor ==
    /\ client.at = "examine"
    /\ \/ ~Alive(client.pid) /\ preaccept_failure /\ UNCHANGED faults
       \/ Alive(client.pid) /\ Custodian(client.pid) /\ preaccept_failure /\ UNCHANGED faults
       \/ Fault /\ preaccept_failure
       \/ /\ Alive(client.pid) /\ ~Custodian(client.pid)
          /\ client' = [client EXCEPT !.at = "walk", !.pid = client.next]
          /\ UNCHANGED <<faults, besidesClient>>

\* An ancestor ends; its children are adopted (ParentOf).
AncestorEnds ==
    /\ client.at \in {"ring", "walk", "examine"}
    /\ \E p \in live : live' = live \ {p}
    /\ UNCHANGED <<env, client, root, inbox, canceller, faults, wireVars, workerVars, recordVars>>

selected ==
    /\ client.at = "route"
    /\ UNCHANGED faults
    /\ \/ ~required /\ env.grant = "absent" /\ ClientStep("standalone")
          /\ UNCHANGED besidesClient
       \/ env.endpoint /\ env.grant # "absent" /\ ClientStep("submit")
          /\ UNCHANGED besidesClient
       \/ /\ IF env.grant = "absent" THEN required ELSE ~env.endpoint
          /\ preaccept_failure

(***************************************************************************)
(* Submission (submit_inner).  Up to the transfer of the frame every       *)
(* failure is a failure before acceptance; from there on none is.          *)
(***************************************************************************)
Proceed(at) == ClientStep(at) /\ UNCHANGED besidesClient

\* The grant names a known protocol and the causal parent is whole or absent.
ReadGrant ==
    /\ client.at = "submit"
    /\ UNCHANGED faults
    /\ \/ (env.grant = "bad" \/ env.parent = "torn") /\ preaccept_failure
       \/ env.grant # "bad" /\ env.parent # "torn" /\ Proceed("intent")

\* root-work-intent-v1.json is made durable.  The one failure that is not
\* recorded is that of new_capability.
PersistIntent ==
    /\ client.at = "intent"
    /\ \/ Fault /\ preaccept_failure
       \/ Fault /\ Proceed("unrecorded")
       \/ UNCHANGED faults /\ Proceed("pin")

\* The executable, the intent, the cwd and the state directory are opened.
PinDescriptors ==
    /\ client.at = "pin"
    /\ \/ Fault /\ preaccept_failure
       \/ UNCHANGED faults /\ Proceed("connect")

\* The endpoint is connected and the frame is within its bound.
Connect ==
    /\ client.at = "connect"
    /\ \/ ~root.alive /\ preaccept_failure /\ UNCHANGED faults
       \/ Fault /\ preaccept_failure
       \/ root.alive /\ UNCHANGED faults /\ Proceed("authenticate")

\* The peer of the socket is the live guardian, by its credentials or, across
\* PID domains, by the word of the broker (external).
authenticate_peer == env.grant = "legacy" /\ root.alive

verify_source_socket_v2_at == env.grant = "v2" /\ root.alive

\* Across PID domains the client names itself as the mounted procfs observes
\* it; an observation that changes while it is made fails.
host_observed_source_fails == env.grant = "v2" /\ Fault

Authentic == authenticate_peer \/ verify_source_socket_v2_at

authenticate_control ==
    /\ client.at = "authenticate"
    /\ \/ ~Authentic /\ preaccept_failure /\ UNCHANGED faults
       \/ host_observed_source_fails /\ preaccept_failure
       \/ Authentic /\ UNCHANGED faults /\ Proceed("send")

\* The frame and the four descriptors are sent.  A failure says nothing of
\* what the root has received.
send_with_fds ==
    /\ client.at = "send"
    /\ \/ /\ root.alive /\ request' = "received" /\ ClientStep("sent")
          /\ UNCHANGED faults
       \/ /\ ~root.alive /\ UNCHANGED <<request, faults>> /\ ClientStep("noreplay")
       \/ /\ Fault /\ request' \in {"none", "received"} /\ ClientStep("noreplay")
    /\ UNCHANGED <<env, live, reply, root, inbox, canceller, workerVars, recordVars>>

\* The v2 control protocol ends the frame by half closing the socket.
HalfClose ==
    /\ client.at = "sent"
    /\ \/ env.grant = "v2" /\ Fault /\ Proceed("noreplay")
       \/ UNCHANGED faults /\ Proceed("await")

\* One bounded line; there is no deadline, and it is lost with the root.
read_response == reply # "none"

ResponseLost == reply = "none" /\ ~root.alive

\* The identities match, and an acceptance names its worker.
validate_response(status) == status # "conflict"

\* What is not exactly an acceptance or a rejection leaves effects possible.
submit_response_disposition(status) ==
    CASE ~validate_response(status) -> "noreplay"
      [] status \in {"accepted", "already_accepted_no_replay"} -> "accepted"
      [] status = "rejected_preaccept" -> "failed"
      [] OTHER -> "noreplay"

ReadResponseOrFail ==
    /\ client.at = "await"
    /\ UNCHANGED faults
    /\ reply # "none" \/ ~root.alive
    /\ \/ reply = "accepted" /\ Proceed("accepted")
       \/ reply # "accepted" /\ preaccept_failure

ReadResponse ==
    /\ client.at = "await"
    /\ LET disposition == submit_response_disposition(reply) IN
       \/ /\ read_response /\ UNCHANGED faults
          /\ \/ disposition = "failed" /\ preaccept_failure
             \/ /\ disposition # "failed" /\ ClientStep(disposition) /\ reply' = "none"
                /\ UNCHANGED <<env, live, request, root, inbox, canceller, workerVars, recordVars>>
       \/ ResponseLost /\ UNCHANGED faults /\ Proceed("noreplay")
       \/ Fault /\ Proceed("noreplay")

ClientReturned ==
    client.at \in {"standalone", "failed", "unrecorded", "noreplay", "accepted", "dead"}

ClientDies == Fault /\ ~ClientReturned /\ Proceed("dead")

(***************************************************************************)
(* The root (external: the runner's guardian).  It accepts or rejects what *)
(* it received, keeps the answer until the worker has prepared, decides    *)
(* the grant once, persists one cancellation receipt before it acts on it, *)
(* and settles a worker that is locally ready.                             *)
(***************************************************************************)
restOfRoot == <<clientVars, meta, marker, source, canceller>>

WorkerGone == worker.at \in {"exit", "dead"}

RootRejects ==
    /\ root.alive /\ request = "received"
    /\ request' = "replied" /\ reply' = "rejected_preaccept"
    /\ UNCHANGED <<root, inbox, workerVars, faults, restOfRoot>>

\* root-work-accepted-v1.json is created and the worker is started.
RootAccepts ==
    /\ root.alive /\ request = "received"
    /\ request' = "accepted"
    /\ root' = [root EXCEPT !.accepted = TRUE]
    /\ worker' = [worker EXCEPT !.at = "start"]
    /\ UNCHANGED <<reply, inbox, outbox, faults, restOfRoot>>

\* A known submission is answered as such; "other" and "conflict" stand for
\* an unknown status and for identities that do not match.  A client that has
\* returned reads nothing.
RootReplies ==
    /\ root.alive /\ request = "accepted"
    /\ "P" \in outbox \/ "R" \in outbox \/ WorkerGone
    /\ request' = "replied"
    /\ reply' \in IF ClientReturned THEN {"none"}
                  ELSE {"accepted", "already_accepted_no_replay", "other", "conflict"}
    /\ UNCHANGED <<root, inbox, workerVars, faults, restOfRoot>>

RootDecides ==
    /\ root.alive /\ "P" \in outbox /\ ~root.decided
    /\ root' = [root EXCEPT !.decided = TRUE]
    /\ inbox' = Append(inbox, IF root.receipt = "none" THEN "G" ELSE root.receipt)
    /\ UNCHANGED <<wireVars, workerVars, faults, restOfRoot>>

\* One receipt is persisted; a worker that was already granted is told.
RootReceipt(cause) ==
    /\ root' = [root EXCEPT !.receipt = cause]
    /\ inbox' = IF root.decided THEN Append(inbox, cause) ELSE inbox

\* The owner exits, or the causal parent is cancelled.
RootCancels ==
    /\ root.alive /\ root.accepted /\ root.receipt = "none" /\ ~WorkerGone
    /\ \E cause \in {"O", "K"} : RootReceipt(cause)
    /\ UNCHANGED <<wireVars, workerVars, faults, restOfRoot>>

RootSettles ==
    /\ root.alive /\ "R" \in outbox /\ ~root.settled
    /\ root' = [root EXCEPT !.settled = TRUE]
    /\ inbox' = Append(inbox, "S")
    /\ UNCHANGED <<wireVars, workerVars, faults, restOfRoot>>

\* A failing root may say so; its death closes every socket.
RootFails ==
    /\ Fault /\ root.alive /\ root.decided /\ ~WorkerGone
    /\ inbox' = Append(inbox, "F")
    /\ UNCHANGED <<root, wireVars, workerVars, restOfRoot>>

RootDies ==
    /\ Fault /\ root.alive
    /\ root' = [root EXCEPT !.alive = FALSE]
    /\ UNCHANGED <<inbox, wireVars, workerVars, restOfRoot>>

(***************************************************************************)
(* The worker before the workload (run_internal, run_root_worker).         *)
(***************************************************************************)
restOfWorker == <<clientVars, wireVars, root, canceller>>

WorkerStep(at) == worker' = [worker EXCEPT !.at = at]

\* The executor checks its descriptors and restores its environment; a
\* failure ends it without a word to the root.
run_internal ==
    /\ worker.at = "start"
    /\ \/ WorkerStep("register") /\ UNCHANGED faults
       \/ Fault /\ WorkerStep("exit")
    /\ UNCHANGED <<inbox, outbox, recordVars, restOfWorker>>

record_pre_admission_registration_error == BestEffort("registration-failed")

record_admitted_registration_unknown == BestEffort("registration-unknown")

\* The capability of the completion domain, the greeting of its owner and the
\* continuation's files: a failure of any precedes the helper.
prepare_continuation ==
    /\ worker.at = "register"
    /\ \/ WorkerStep("admit") /\ UNCHANGED <<meta, faults>>
       \/ Fault /\ WorkerStep("handshake") /\ record_pre_admission_registration_error

\* The registration helper runs.  If it was not started nothing is registered;
\* once it was, an error leaves that unknown.
register ==
    /\ worker.at = "admit"
    /\ \/ WorkerStep("prepared") /\ UNCHANGED <<meta, faults>>
       \/ Fault /\ WorkerStep("handshake") /\ record_pre_admission_registration_error
       \/ Fault /\ WorkerStep("handshake") /\ record_admitted_registration_unknown

run_root_worker ==
    /\ prepare_continuation \/ register
    /\ UNCHANGED <<inbox, outbox, marker, source, restOfWorker>>

\* Closed by the root, and nothing left to read.
Eof == ~root.alive /\ inbox = <<>>

\* The causes the worker has read before its terminal is published (history).
Told(w, byte) == [w EXCEPT !.told = IF w.recorded THEN @ ELSE @ \cup {byte}]

\* Exactly one decision is read; a lost channel is the loss of the root.
await_root_execution_grant ==
    \/ /\ worker.at = "prepared"
       /\ \/ root.alive /\ outbox' = outbox \cup {"P"} /\ WorkerStep("await")
          \/ ~root.alive /\ UNCHANGED outbox
             /\ worker' = [worker EXCEPT !.at = "nolaunch", !.cause = "F"]
       /\ UNCHANGED <<inbox, faults, recordVars, restOfWorker>>
    \/ /\ worker.at = "await" /\ inbox # <<>>
       /\ inbox' = Tail(inbox)
       /\ worker' = IF Head(inbox) = "G" THEN [worker EXCEPT !.at = "boot"]
                    ELSE Told([worker EXCEPT !.at = "nolaunch", !.cause = Head(inbox)], Head(inbox))
       /\ UNCHANGED <<outbox, faults, recordVars, restOfWorker>>
    \/ /\ worker.at = "await" /\ Eof
       /\ worker' = [worker EXCEPT !.at = "nolaunch", !.cause = "F"]
       /\ UNCHANGED <<inbox, outbox, faults, recordVars, restOfWorker>>

\* What publish_terminal_with_delivery_disposition writes: an earlier record
\* stays unless its v2 source is still missing; an accepted explicit request
\* has precedence.
Published(reason) ==
    IF terminal /\ (~env.v2 \/ source) THEN meta.reason
    ELSE IF marker THEN "C" ELSE reason

publish_terminal(reason) == meta' = [meta EXCEPT !.reason = Published(reason)]

\* Cancelled before the grant: the supervisor identity, the explicit marker,
\* the record and the source are written, each retried until it succeeds.
complete_without_launch ==
    \/ /\ worker.at = "nolaunch"
       /\ \/ meta' = [meta EXCEPT !.supervisor = TRUE] /\ WorkerStep("mark") /\ UNCHANGED faults
          \/ Fault /\ WorkerStep("handshake") /\ UNCHANGED meta
       /\ UNCHANGED <<inbox, outbox, marker, source, restOfWorker>>
    \/ /\ worker.at = "mark"
       /\ marker' = (marker \/ worker.cause = "C")
       /\ WorkerStep("publish")
       /\ UNCHANGED <<inbox, outbox, meta, source, faults, restOfWorker>>
    \/ /\ worker.at = "publish"
       /\ publish_terminal(worker.cause)
       /\ WorkerStep("source")
       /\ UNCHANGED <<inbox, outbox, marker, source, faults, restOfWorker>>
    \/ /\ worker.at = "source"
       /\ source' = env.v2
       /\ WorkerStep("handshake")
       /\ UNCHANGED <<inbox, outbox, meta, marker, faults, restOfWorker>>

\* R, then any of S, C, O or the end of the channel, then T.
root_terminal_handshake ==
    \/ /\ worker.at = "handshake"
       /\ outbox' = IF root.alive THEN outbox \cup {"R"} ELSE outbox
       /\ WorkerStep(IF root.alive THEN "settle" ELSE "exit")
       /\ UNCHANGED <<inbox, faults, recordVars, restOfWorker>>
    \/ /\ worker.at = "settle" /\ inbox # <<>>
       /\ inbox' = Tail(inbox)
       /\ WorkerStep(IF Head(inbox) \in {"S", "C", "O"} THEN "report" ELSE "settle")
       /\ UNCHANGED <<outbox, faults, recordVars, restOfWorker>>
    \/ /\ worker.at = "settle" /\ Eof
       /\ WorkerStep("report")
       /\ UNCHANGED <<inbox, outbox, faults, recordVars, restOfWorker>>
    \/ /\ worker.at = "report"
       /\ outbox' = IF root.alive THEN outbox \cup {"T"} ELSE outbox
       /\ WorkerStep("exit")
       /\ UNCHANGED <<inbox, faults, recordVars, restOfWorker>>

(***************************************************************************)
(* The worker's event loop (run_supervisor with a control socket).         *)
(***************************************************************************)

\* The supervisor identity is persisted and the workload forked behind a
\* gate.  A bootstrap failure records an error and ends the worker without a
\* byte to the root; behind a gate that stays shut nothing is executed.
run_supervisor ==
    /\ worker.at = "boot"
    /\ \/ /\ worker' = [worker EXCEPT !.at = "loop", !.launched = TRUE]
          /\ meta' = [meta EXCEPT !.supervisor = TRUE] /\ UNCHANGED faults
       \/ /\ Fault /\ \E e \in BOOLEAN : worker' = [worker EXCEPT !.at = "loop", !.error = e]
          /\ meta' = [meta EXCEPT !.supervisor = TRUE]
       \/ Fault /\ WorkerStep("exit") /\ (publish_terminal("error") \/ UNCHANGED meta)
    /\ UNCHANGED <<inbox, outbox, marker, source, restOfWorker>>

\* "X" is OutputCaptureFailure, a cause of the worker's own.
Rank(cause) ==
    CASE cause = "none" -> 0 [] cause = "F" -> 1 [] cause = "O" -> 2
      [] cause = "K" -> 3 [] cause = "X" -> 4 [] OTHER -> 5

LastCause(held, proposed) == proposed

with_precedence_over(held, proposed) ==
    IF Rank(held) >= Rank(proposed) THEN held ELSE proposed

\* The cause is provisional until it is published; the marker is observed.
request_cancellation(w, cause) ==
    [w EXCEPT !.cause =
        with_precedence_over(@, IF marker THEN "C" ELSE cause)]

InLoop == worker.at = "loop"

LostUnsettled(w) == request_cancellation([w EXCEPT !.fd = FALSE], "F")

\* The socket is closed, and with it what it still held: dropped keeps the
\* causes among that (history).
Lost(w) ==
    LET unread == {inbox[i] : i \in DOMAIN inbox} IN
    request_cancellation(
        [w EXCEPT !.fd = FALSE, !.granted = TRUE, !.dropped = unread \cap Causes], "F")

SettledByAnyByte(w, byte) == [w EXCEPT !.granted = TRUE]

EveryByteCancels(w, byte) == Told(request_cancellation(w, byte), byte)

ControlByte(w, byte) ==
    IF byte = "S" THEN [w EXCEPT !.granted = TRUE]
    ELSE Told(request_cancellation(w, byte), byte)

\* The end of the channel is seen only after all that was sent on it.
read_root_control ==
    /\ InLoop /\ worker.fd
    /\ \/ inbox # <<>> /\ inbox' = Tail(inbox) /\ worker' = ControlByte(worker, Head(inbox))
       \/ Eof /\ UNCHANGED inbox /\ worker' = Lost(worker)
    /\ UNCHANGED <<outbox, faults, recordVars, restOfWorker>>

check_explicit_cancel ==
    /\ InLoop /\ marker /\ worker.cause # "C"
    /\ worker' = request_cancellation(worker, "C")
    /\ UNCHANGED <<inbox, outbox, faults, recordVars, restOfWorker>>

\* The log cannot be written: from here on the output is not captured, no
\* sentinel is seen, and the work is cancelled to end in an error.
record_capture_failure ==
    /\ Fault /\ InLoop /\ worker.launched /\ ~worker.empty /\ ~worker.error
    /\ worker' = request_cancellation([worker EXCEPT !.error = TRUE], "X")
    /\ UNCHANGED <<inbox, outbox, recordVars, restOfWorker>>

\* The workload ends by itself or is signalled until it does, and the loop
\* has reaped it and closed its output.
TreeEmpties ==
    /\ InLoop /\ ~worker.empty
    /\ worker' = [worker EXCEPT !.empty = TRUE]
    /\ UNCHANGED <<inbox, outbox, faults, recordVars, restOfWorker>>

\* A send that fails closes the socket unread.
announce_root_local_ready(w) ==
    IF "R" \in outbox \/ ~w.fd
    THEN /\ worker' = [w EXCEPT !.granted = @ \/ (~w.fd /\ "R" \notin outbox)]
         /\ UNCHANGED outbox
    ELSE IF root.alive
         THEN worker' = w /\ outbox' = outbox \cup {"R"}
         ELSE worker' = Lost(w) /\ UNCHANGED outbox

\* A published terminal is reported (T) in the same step; a broken socket is
\* closed.
Integrate(w) ==
    IF ~w.fd THEN worker' = [w EXCEPT !.recorded = TRUE] /\ UNCHANGED outbox
    ELSE IF root.alive
         THEN worker' = [w EXCEPT !.recorded = TRUE] /\ outbox' = outbox \cup {"T"}
         ELSE /\ worker' = [w EXCEPT !.recorded = TRUE, !.fd = FALSE, !.granted = TRUE]
              /\ UNCHANGED outbox

PublishReady(w) ==
    IF marker
    THEN worker' = request_cancellation(w, "C") /\ UNCHANGED <<meta, source, outbox>>
    ELSE publish_terminal("ready") /\ source' = env.v2 /\ Integrate(w)

\* The sentinel is seen: it is published when the root has settled, deferred
\* with an announcement otherwise.
record_ready_sentinel ==
    /\ InLoop /\ worker.launched /\ ~worker.empty /\ ~worker.error
    /\ ~worker.recorded /\ ~worker.ready
    /\ \/ worker.granted /\ PublishReady(worker)
       \/ ~worker.granted /\ announce_root_local_ready([worker EXCEPT !.ready = TRUE])
          /\ UNCHANGED <<meta, source>>
    /\ UNCHANGED <<inbox, marker, faults, restOfWorker>>

retry_deferred_ready ==
    /\ InLoop /\ worker.ready /\ worker.granted
    /\ PublishReady([worker EXCEPT !.ready = FALSE])
    /\ UNCHANGED <<inbox, marker, faults, restOfWorker>>

\* Why the loop ends: a cancellation, a spawn or capture error, or the exit.
FinishReason ==
    IF worker.error THEN "error"
    ELSE IF worker.cause # "none" THEN worker.cause ELSE "exit"

\* The event of a v2 source needs the evidence of its cancellation: the
\* handle's own marker for an explicit request, the root's files otherwise.
cancellation_identity(reason) == reason = "C" => marker

ReportUnselected ==
    /\ InLoop /\ worker.empty /\ worker.granted /\ ~worker.recorded /\ ~worker.ready
    /\ publish_terminal(FinishReason)
    /\ source' = (env.v2 /\ cancellation_identity(Published(FinishReason)))
    /\ Integrate(worker)
    /\ UNCHANGED <<inbox, marker, faults, restOfWorker>>

\* The tree is gone and the root has settled: the terminal is published and
\* the event selected.  An error of the selection ends the loop at once.
FinishExit ==
    /\ InLoop /\ worker.empty /\ worker.granted /\ ~worker.recorded /\ ~worker.ready
    /\ publish_terminal(FinishReason)
    /\ IF ~env.v2 \/ cancellation_identity(Published(FinishReason))
       THEN source' = env.v2 /\ Integrate(worker)
       ELSE UNCHANGED <<source, outbox>> /\ WorkerStep("exit")
    /\ UNCHANGED <<inbox, marker, faults, restOfWorker>>

maybe_finish ==
    \/ /\ InLoop /\ worker.empty /\ ~worker.granted /\ ~worker.recorded
       /\ announce_root_local_ready(worker)
       /\ worker' # worker \/ outbox' # outbox
       /\ UNCHANGED <<inbox, faults, recordVars, restOfWorker>>
    \/ FinishExit

should_exit ==
    /\ InLoop /\ worker.recorded /\ worker.empty
    /\ ~worker.fd \/ "T" \in outbox
    /\ WorkerStep("exit")
    /\ UNCHANGED <<inbox, outbox, faults, recordVars, restOfWorker>>

\* It is killed, or an I/O error leaves the loop.
WorkerDies ==
    /\ Fault /\ worker.at # "none" /\ ~WorkerGone
    /\ WorkerStep("dead")
    /\ UNCHANGED <<inbox, outbox, recordVars, restOfWorker>>

(***************************************************************************)
(* The cancel command.  It asks for the acceptance receipt once and then   *)
(* goes to the root, or waits for a supervisor and leaves the marker.      *)
(***************************************************************************)
is_root_owned == root.accepted

restOfCancel == <<clientVars, wireVars, workerVars, meta, source, faults>>

\* A handle of a session is controlled by that session, another one by whoever
\* descends from its first caller; an answer that cannot be had is a refusal.
require_control_eligibility == BOOLEAN

cancel_command ==
    /\ canceller = "idle"
    /\ \E eligible \in require_control_eligibility :
        canceller' = IF ~eligible THEN "done" ELSE IF is_root_owned THEN "root" ELSE "local"
    /\ UNCHANGED <<root, inbox, marker, restOfCancel>>

\* The intent is read and its endpoint connected.
cancel_initiate ==
    /\ canceller = "root"
    /\ \/ root.alive /\ canceller' = "prewire"
       \/ canceller' = "done"
    /\ UNCHANGED <<root, inbox, marker, restOfCancel>>

\* The peer is authenticated in the scope of the caller's namespace.
cancel_prewire ==
    /\ canceller = "prewire"
    /\ \/ Authentic /\ canceller' = "wire"
       \/ canceller' = "done"
    /\ UNCHANGED <<root, inbox, marker, restOfCancel>>

\* The root persists the receipt or refuses, whether or not its answer comes.
cancel_wire ==
    /\ canceller = "wire"
    /\ canceller' = "done"
    /\ \/ /\ root.alive /\ root.receipt = "none" /\ ~WorkerGone
          /\ RootReceipt("C")
       \/ UNCHANGED <<root, inbox>>
    /\ UNCHANGED <<marker, restOfCancel>>

\* The identity of the supervisor appears within the wait or it does not.
wait_for_supervisor_metadata == meta.supervisor

\* The process is pinned before its identity is inspected, and is that one.
capture_cancel_supervisor == wait_for_supervisor_metadata /\ ~WorkerGone

\* The live supervisor is pinned and the marker recorded under
\* completion.lock, or nothing is requested.
request_cancel ==
    /\ canceller = "local"
    /\ canceller' = "done"
    /\ \/ /\ capture_cancel_supervisor /\ ~terminal
          /\ marker' = TRUE
       \/ UNCHANGED marker
    /\ UNCHANGED <<root, inbox, restOfCancel>>

-----------------------------------------------------------------------------
ClientNext ==
    \/ Select \/ inherited_paired_session_ring \/ WalkRead \/ has_paired_custodian_ancestor
    \/ selected \/ ReadGrant \/ PersistIntent \/ PinDescriptors \/ Connect
    \/ authenticate_control \/ send_with_fds \/ HalfClose \/ ReadResponse

RootNext == RootRejects \/ RootAccepts \/ RootReplies \/ RootDecides \/ RootSettles

\* The steps of a worker that do not wait for a workload to end by itself.
WorkerNext ==
    \/ run_internal \/ run_root_worker \/ await_root_execution_grant
    \/ complete_without_launch \/ root_terminal_handshake \/ run_supervisor
    \/ read_root_control \/ check_explicit_cancel \/ retry_deferred_ready
    \/ maybe_finish \/ should_exit
    \/ (TreeEmpties /\ (worker.cause # "none" \/ worker.error))

Next ==
    \/ ClientNext \/ AncestorEnds \/ ClientDies
    \/ RootNext \/ RootCancels \/ RootFails \/ RootDies
    \/ WorkerNext \/ TreeEmpties \/ record_ready_sentinel
    \/ record_capture_failure \/ WorkerDies
    \/ cancel_command \/ cancel_initiate \/ cancel_prewire \/ cancel_wire \/ request_cancel

Spec == Init /\ [][Next]_vars

(***************************************************************************)
(* Properties.                                                             *)
(***************************************************************************)
WorkerType ==
    [at : {"none", "start", "register", "admit", "prepared", "await", "nolaunch", "mark",
           "publish", "source", "handshake", "settle", "report", "boot", "loop",
           "exit", "dead"},
     cause : Causes \cup {"none", "X"}, told : SUBSET Causes, dropped : SUBSET Causes,
     launched : BOOLEAN, empty : BOOLEAN, ready : BOOLEAN, fd : BOOLEAN,
     granted : BOOLEAN, recorded : BOOLEAN, error : BOOLEAN]

\* Every variable has its type.
TypeOK ==
    /\ env \in Envs /\ live \subseteq {"shell", "parent"}
    /\ client \in
        [at : {"select", "ring", "walk", "examine", "route", "submit", "connect",
               "intent", "pin", "authenticate", "send", "sent", "await",
               "standalone", "failed", "unrecorded", "noreplay", "accepted", "dead"},
         pid : {"none", "shell", "parent", "guardian", "init"},
         next : {"none", "shell", "parent", "guardian", "init"}]
    /\ request \in {"none", "received", "accepted", "replied"}
    /\ reply \in {"none", "accepted", "already_accepted_no_replay",
                  "rejected_preaccept", "other", "conflict"}
    /\ root \in [alive : BOOLEAN, accepted : BOOLEAN, decided : BOOLEAN,
                 receipt : Causes \cup {"none"}, settled : BOOLEAN]
    /\ inbox \in Seq(Causes \cup {"G", "S"})
    /\ outbox \subseteq {"P", "R", "T"}
    /\ worker \in WorkerType
    /\ meta \in [reason : Causes \cup {"none", "preaccept", "registration-failed",
                     "registration-unknown", "error", "ready", "exit"},
                 supervisor : BOOLEAN]
    /\ marker \in BOOLEAN /\ source \in BOOLEAN
    /\ canceller \in {"idle", "root", "prewire", "wire", "local", "done"}
    /\ faults \in 0 .. MaxFaults

\* A run recorded as failed before acceptance was never accepted, and no
\* failure of the connection, the client or the root lets it be accepted
\* afterwards: once the frame may have arrived the client records nothing
\* (preaccept_failure, submit_response_disposition).
PreacceptIsTrue ==
    meta.reason = "preaccept" => ~root.accepted /\ request # "received"

\* A client leaves the paired tree (runs standalone) only when it carries no
\* marker, grant or paired keyring and no custodian ancestor of it is alive,
\* although its ancestors end and are replaced by their adopters while it
\* walks over them (classify_standalone).
NoEscape ==
    [][client'.at = "standalone" /\ client.at # "standalone" =>
        /\ env.grant = "absent" /\ env.marker = "absent" /\ env.ring = "other"
        /\ env.paired => "parent" \notin live /\ ~root.alive]_vars

\* The cause a cancelled work is recorded with was read from the root or left
\* by a local request, and the loss of the root relabels no cause the worker
\* has read, nor one it had still to read when the channel ended: only an R
\* that cannot be sent closes the socket on unread causes
\* (with_precedence_over, read_root_control, announce_root_local_ready).
CauseIsTrue ==
    meta.reason \in Causes =>
        /\ meta.reason \in worker.told \/ meta.reason = "F" \/ (meta.reason = "C" /\ marker)
        /\ meta.reason = "F" =>
            /\ worker.told \subseteq {"F"}
            /\ worker.dropped \subseteq {"F"} \/ "R" \notin outbox

\* The terminal of a launched workload is published only after the root has
\* settled its nested work or is lost (root_settlement_granted).
SettledFirst == worker.launched /\ terminal => root.settled \/ ~root.alive

\* When a launched work reports T, its terminal is durable and its v2 event
\* is selected (integrate_terminal_publication).
ReceiptFollowsRecord ==
    worker.launched /\ "T" \in outbox => terminal /\ (env.v2 => source)

\* The client has returned, and the worker has ended or its workload runs on
\* uncancelled.
Settled ==
    /\ ClientReturned
    /\ \/ worker.at \in {"none", "exit", "dead"}
       \/ InLoop /\ ~worker.empty /\ worker.cause = "none"

\* root-original-work-v1.md: after the grant the event loop retains completion
\* continuation and cancellation behaviour.  A cancelled work that ran to its
\* end under a live worker has a v2 event (read_root_control).
CancelledHasEvent ==
    env.v2 /\ worker.at = "exit" /\ worker.launched /\ meta.reason \in Causes => source
=============================================================================
