--------------------------- MODULE RootWork_proofs --------------------------
(***************************************************************************)
(* Proofs about paired root work, for every set of environments and every  *)
(* bound on faults.                                                        *)
(***************************************************************************)
EXTENDS RootWork, TLAPS

\* The steps of a client that has sent nothing yet.
Unsent == {"select", "ring", "walk", "examine", "route", "submit", "intent", "pin",
           "connect", "authenticate", "send"}

\* The steps of a worker that has said nothing to the root yet.
Silent == {"none", "start", "register", "admit", "prepared"}

\* What the client knows of the request, and what the root has made of it: a
\* client that has recorded a failure has no request that may be accepted, and
\* no worker exists without an acceptance.
Submission ==
    /\ client.at \in Unsent \cup {"standalone"} => request = "none"
    /\ client.at = "failed" => request \in {"none", "replied"} /\ ~root.accepted
    /\ reply # "none" => request = "replied"
    /\ reply = "rejected_preaccept" => ~root.accepted
    /\ root.accepted => request \in {"accepted", "replied"}
    /\ ~root.accepted => worker.at = "none"
    /\ meta.reason = "preaccept" => client.at = "failed"

\* What may be on the control socket: a grant is the first byte and is read
\* before the workload is started, and a settlement answers R.
Wire ==
    /\ worker.at \in Silent => outbox = {} /\ inbox = <<>> /\ ~root.decided
    /\ worker.at \in {"await", "boot"} => outbox = {"P"}
    /\ worker.at = "await" /\ ~root.decided => inbox = <<>>
    /\ "P" \in outbox /\ ~root.decided /\ root.alive =>
        worker.at \in {"await", "dead"} /\ outbox = {"P"} /\ inbox = <<>>
    /\ worker.at \in {"boot", "loop"} => root.decided
    /\ \A i \in 1 .. Len(inbox) :
        /\ inbox[i] = "G" => i = 1 /\ worker.at \notin {"boot", "loop"}
        /\ inbox[i] = "S" => root.settled
    /\ root.settled => "R" \in outbox

\* What the worker has published: nothing before it says so, and a terminal
\* that is reported is complete.
Publication ==
    /\ worker.launched => worker.at \in {"loop", "exit", "dead"}
    /\ worker.recorded => worker.at \in {"loop", "exit", "dead"}
    /\ worker.at = "none" => meta.reason \in {"none", "preaccept"}
    /\ worker.at \notin {"none", "source", "handshake", "settle", "report", "loop",
                         "exit", "dead"} => meta.reason = "none"
    /\ worker.at = "loop" =>
        /\ ~worker.recorded => meta.reason = "none" /\ "T" \notin outbox
        /\ worker.recorded => meta.reason # "none" /\ (env.v2 => source) /\ ~worker.ready
    /\ ~worker.fd => ~root.alive
    /\ worker.granted => root.settled \/ ~root.alive
    /\ worker.launched /\ meta.reason # "none" => root.settled \/ ~root.alive
    /\ worker.launched /\ "T" \in outbox => meta.reason # "none" /\ (env.v2 => source)

\* The cause the worker holds is one it was given, and outranks the others.
Cause ==
    /\ worker.at \in Silent \cup {"await", "boot"} => worker.cause = "none"
    /\ ~worker.recorded =>
        worker.cause \in worker.told \cup {"none", "F", "X"} \/ (worker.cause = "C" /\ marker)
    /\ worker.cause = "none" => worker.told = {}
    /\ worker.cause = "F" => worker.told \subseteq {"F"}
    /\ meta.reason \in Causes =>
        /\ meta.reason \in worker.told \cup {"F"} \/ (meta.reason = "C" /\ marker)
        /\ meta.reason = "F" => worker.told \subseteq {"F"}

\* What only the event loop does: it fails to capture, and closes the socket.  A
\* socket is closed on causes it has not read only when R could not be sent.
Loss ==
    /\ worker.error => worker.at \in {"loop", "exit", "dead"}
    /\ worker.cause = "X" => worker.error
    /\ ~worker.fd => worker.at \in {"loop", "exit", "dead"}
    /\ worker.dropped = {} \/ (~worker.fd /\ "R" \notin outbox)

\* The walk over the ancestors: every custodian that it has passed is dead.
Ancestry == {Chain(env)[i] : i \in 1 .. Len(Chain(env))}

Passed(p) ==
    env.paired =>
        /\ p = "guardian" => "parent" \notin live
        /\ p = "init" => "parent" \notin live /\ ~root.alive

Walk ==
    /\ client.at \notin {"select", "failed", "dead"} => env.marker # "bad"
    /\ client.at \in {"ring", "walk", "examine"} => ~required /\ env.grant = "absent"
    /\ client.at \in {"walk", "examine"} => env.ring = "other"
    /\ client.at = "walk" => client.pid \in Ancestry \cup {"init"} /\ Passed(client.pid)
    /\ client.at = "examine" =>
        /\ client.pid \in Ancestry /\ client.next \in Ancestry \cup {"init"}
        /\ client.pid = "shell" => Passed(client.next)
    /\ client.at = "route" /\ ~required /\ env.grant = "absent" =>
        env.ring = "other" /\ Passed("init")

\* The types of the records.
ClientType ==
    [at : Unsent \cup {"sent", "await", "standalone", "failed", "unrecorded", "noreplay",
                       "accepted", "dead"},
     pid : {"none", "shell", "parent", "guardian", "init"},
     next : {"none", "shell", "parent", "guardian", "init"}]

RootType ==
    [alive : BOOLEAN, accepted : BOOLEAN, decided : BOOLEAN,
     receipt : Causes \cup {"none"}, settled : BOOLEAN]

Bytes == Causes \cup {"G", "S"}

MetaType ==
    [reason : Causes \cup {"none", "preaccept", "registration-failed",
         "registration-unknown", "error", "ready", "exit"},
     supervisor : BOOLEAN]

\* The steps of the client, in full.
LEMMA ClientTypeIs ==
    ClientType =
        [at : {"select", "ring", "walk", "examine", "route", "submit", "connect",
               "intent", "pin", "authenticate", "send", "sent", "await",
               "standalone", "failed", "unrecorded", "noreplay", "accepted", "dead"},
         pid : {"none", "shell", "parent", "guardian", "init"},
         next : {"none", "shell", "parent", "guardian", "init"}]
BY DEF ClientType, Unsent

\* The type invariant, by variable.
LEMMA TypeParts ==
    TypeOK <=>
        /\ env \in Envs /\ live \subseteq {"shell", "parent"} /\ client \in ClientType
        /\ request \in {"none", "received", "accepted", "replied"}
        /\ reply \in {"none", "accepted", "already_accepted_no_replay",
                      "rejected_preaccept", "other", "conflict"}
        /\ root \in RootType /\ inbox \in Seq(Bytes) /\ outbox \subseteq {"P", "R", "T"}
        /\ worker \in WorkerType /\ meta \in MetaType
        /\ marker \in BOOLEAN /\ source \in BOOLEAN
        /\ canceller \in {"idle", "root", "prewire", "wire", "local", "done"}
        /\ faults \in 0 .. MaxFaults
BY ClientTypeIs DEF TypeOK, RootType, MetaType, Bytes

\* A fault is counted within its bound.
LEMMA FaultType ==
    ASSUME faults \in 0 .. MaxFaults, Fault \/ UNCHANGED faults
    PROVE  faults' \in 0 .. MaxFaults
BY RootWorkAssumption DEF Fault


\* The steps by the process that takes them.
ClientActs == ClientNext \/ AncestorEnds \/ ClientDies

RootActs == RootNext \/ RootCancels \/ RootFails \/ RootDies

WorkerActs ==
    \/ run_internal \/ run_root_worker \/ await_root_execution_grant
    \/ complete_without_launch \/ root_terminal_handshake \/ run_supervisor
    \/ read_root_control \/ check_explicit_cancel \/ retry_deferred_ready
    \/ maybe_finish \/ should_exit \/ TreeEmpties \/ record_ready_sentinel
    \/ record_capture_failure \/ WorkerDies

CancelActs ==
    cancel_command \/ cancel_initiate \/ cancel_prewire \/ cancel_wire \/ request_cancel

Inv == TypeOK /\ Submission /\ Wire /\ Publication /\ Cause /\ Loss /\ Walk

\* Every step is one of theirs.
LEMMA NextCases ==
    ASSUME [Next]_vars
    PROVE  ClientActs \/ RootActs \/ WorkerActs \/ CancelActs \/ UNCHANGED vars
BY DEF Next, WorkerNext, ClientActs, RootActs, WorkerActs, CancelActs

\* What a failure before acceptance changes, and what it does not.
LEMMA PreacceptFrame ==
    ASSUME TypeOK, preaccept_failure
    PROVE  /\ UNCHANGED <<env, live, request, reply, root, inbox, outbox, worker, marker,
                          source, canceller>>
           /\ client' = [client EXCEPT !.at = "failed"] /\ client'.at = "failed"
           /\ \/ meta' = meta
              \/ meta.reason = "none" /\ meta' = [meta EXCEPT !.reason = "preaccept"]
BY DEF TypeOK, preaccept_failure, record_root_preaccept_failure, BestEffort, Record,
       terminal, ClientStep, wireVars, workerVars

\* A client's step changes nothing of the root or the worker, and records only
\* that it has failed before acceptance.
LEMMA ClientFrame ==
    ASSUME TypeOK, ClientActs
    PROVE  /\ UNCHANGED <<env, root, inbox, outbox, worker, marker, source, canceller>>
           /\ live' \subseteq live /\ (Fault \/ UNCHANGED faults)
           /\ \/ meta' = meta
              \/ /\ meta.reason = "none" /\ client'.at = "failed"
                 /\ meta' = [meta EXCEPT !.reason = "preaccept"]
<1>1. CASE Select
  BY <1>1, PreacceptFrame
     DEF Select, ClientStep, Proceed, Fault, besidesClient, wireVars, workerVars, recordVars
<1>2. CASE inherited_paired_session_ring
  BY <1>2, PreacceptFrame
     DEF inherited_paired_session_ring, ClientStep, Proceed, Fault, besidesClient, wireVars,
         workerVars, recordVars
<1>3. CASE WalkRead
  BY <1>3, PreacceptFrame
     DEF WalkRead, ClientStep, Proceed, Fault, besidesClient, wireVars, workerVars,
         recordVars
<1>4. CASE has_paired_custodian_ancestor
  BY <1>4, PreacceptFrame
     DEF has_paired_custodian_ancestor, ClientStep, Proceed, Fault, besidesClient, wireVars,
         workerVars, recordVars
<1>5. CASE selected
  BY <1>5, PreacceptFrame
     DEF selected, ClientStep, Proceed, Fault, besidesClient, wireVars, workerVars,
         recordVars
<1>6. CASE ReadGrant
  BY <1>6, PreacceptFrame
     DEF ReadGrant, ClientStep, Proceed, Fault, besidesClient, wireVars, workerVars,
         recordVars
<1>7. CASE PersistIntent
  BY <1>7, PreacceptFrame
     DEF PersistIntent, ClientStep, Proceed, Fault, besidesClient, wireVars, workerVars,
         recordVars
<1>8. CASE PinDescriptors
  BY <1>8, PreacceptFrame
     DEF PinDescriptors, ClientStep, Proceed, Fault, besidesClient, wireVars, workerVars,
         recordVars
<1>9. CASE Connect
  BY <1>9, PreacceptFrame
     DEF Connect, ClientStep, Proceed, Fault, besidesClient, wireVars, workerVars,
         recordVars
<1>10. CASE authenticate_control
  BY <1>10, PreacceptFrame
     DEF authenticate_control, ClientStep, Proceed, Fault, besidesClient, wireVars,
         workerVars, recordVars, host_observed_source_fails
<1>11. CASE send_with_fds
  BY <1>11
     DEF send_with_fds, ClientStep, Proceed, Fault, besidesClient, wireVars, workerVars,
         recordVars
<1>12. CASE HalfClose
  BY <1>12
     DEF HalfClose, ClientStep, Proceed, Fault, besidesClient, wireVars, workerVars,
         recordVars
<1>13. CASE ReadResponse
  BY <1>13, PreacceptFrame
     DEF ReadResponse, ClientStep, Proceed, Fault, besidesClient, wireVars, workerVars,
         recordVars
<1>14. CASE AncestorEnds
  BY <1>14
     DEF AncestorEnds, ClientStep, Proceed, Fault, besidesClient, wireVars, workerVars,
         recordVars
<1>15. CASE ClientDies
  BY <1>15
     DEF ClientDies, ClientStep, Proceed, Fault, besidesClient, wireVars, workerVars,
         recordVars
<1>16. QED BY <1>1, <1>2, <1>3, <1>4, <1>5, <1>6, <1>7, <1>8, <1>9, <1>10, <1>11, <1>12,
       <1>13, <1>14, <1>15 DEF ClientActs, ClientNext

\* A root's step changes nothing of the client, the records or the worker's bytes.
LEMMA RootFrame ==
    ASSUME RootActs
    PROVE  /\ UNCHANGED <<env, live, client, outbox, meta, marker, source, canceller>>
           /\ Fault \/ UNCHANGED faults
<1>1. CASE RootRejects
  BY <1>1
     DEF RootRejects, RootReceipt, Fault, restOfRoot, clientVars, wireVars, workerVars
<1>2. CASE RootAccepts
  BY <1>2
     DEF RootAccepts, RootReceipt, Fault, restOfRoot, clientVars, wireVars, workerVars
<1>3. CASE RootReplies
  BY <1>3
     DEF RootReplies, RootReceipt, Fault, restOfRoot, clientVars, wireVars, workerVars
<1>4. CASE RootDecides
  BY <1>4
     DEF RootDecides, RootReceipt, Fault, restOfRoot, clientVars, wireVars, workerVars
<1>5. CASE RootSettles
  BY <1>5
     DEF RootSettles, RootReceipt, Fault, restOfRoot, clientVars, wireVars, workerVars
<1>6. CASE RootCancels
  BY <1>6
     DEF RootCancels, RootReceipt, Fault, restOfRoot, clientVars, wireVars, workerVars
<1>7. CASE RootFails
  BY <1>7
     DEF RootFails, RootReceipt, Fault, restOfRoot, clientVars, wireVars, workerVars
<1>8. CASE RootDies
  BY <1>8
     DEF RootDies, RootReceipt, Fault, restOfRoot, clientVars, wireVars, workerVars
<1>9. QED BY <1>1, <1>2, <1>3, <1>4, <1>5, <1>6, <1>7, <1>8 DEF RootActs, RootNext

\* A worker's step changes nothing of the client or the root.
LEMMA WorkerFrame ==
    ASSUME WorkerActs
    PROVE  /\ UNCHANGED <<env, live, client, request, reply, root, canceller>>
           /\ Fault \/ UNCHANGED faults
<1>1. CASE run_internal
  BY <1>1
     DEF run_internal, WorkerStep, Fault, restOfWorker, clientVars, wireVars, recordVars
<1>2. CASE run_root_worker
  BY <1>2
     DEF run_root_worker, WorkerStep, Fault, restOfWorker, clientVars, wireVars, recordVars,
         prepare_continuation, register, record_pre_admission_registration_error,
         record_admitted_registration_unknown, BestEffort, Record, terminal
<1>3. CASE await_root_execution_grant
  BY <1>3
     DEF await_root_execution_grant, WorkerStep, Fault, restOfWorker, clientVars, wireVars,
         recordVars, Eof, Told
<1>4. CASE complete_without_launch
  BY <1>4
     DEF complete_without_launch, WorkerStep, Fault, restOfWorker, clientVars, wireVars,
         recordVars, publish_terminal, Published, terminal
<1>5. CASE root_terminal_handshake
  BY <1>5
     DEF root_terminal_handshake, WorkerStep, Fault, restOfWorker, clientVars, wireVars,
         recordVars, Eof
<1>6. CASE run_supervisor
  BY <1>6
     DEF run_supervisor, WorkerStep, Fault, restOfWorker, clientVars, wireVars, recordVars,
         publish_terminal, Published, terminal
<1>7. CASE read_root_control
  BY <1>7
     DEF read_root_control, WorkerStep, Fault, restOfWorker, clientVars, wireVars,
         recordVars, InLoop, ControlByte, Told, Eof
<1>8. CASE check_explicit_cancel
  BY <1>8
     DEF check_explicit_cancel, WorkerStep, Fault, restOfWorker, clientVars, wireVars,
         recordVars, InLoop
<1>9. CASE retry_deferred_ready
  BY <1>9
     DEF retry_deferred_ready, WorkerStep, Fault, restOfWorker, clientVars, wireVars,
         recordVars, InLoop, PublishReady, Integrate, publish_terminal, Published, terminal
<1>10. CASE maybe_finish
  BY <1>10
     DEF maybe_finish, WorkerStep, Fault, restOfWorker, clientVars, wireVars, recordVars,
         InLoop, announce_root_local_ready, FinishExit, Integrate, FinishReason,
         publish_terminal, Published, terminal
<1>11. CASE should_exit
  BY <1>11
     DEF should_exit, WorkerStep, Fault, restOfWorker, clientVars, wireVars, recordVars,
         InLoop
<1>12. CASE TreeEmpties
  BY <1>12
     DEF TreeEmpties, WorkerStep, Fault, restOfWorker, clientVars, wireVars, recordVars,
         InLoop
<1>13. CASE record_ready_sentinel
  BY <1>13
     DEF record_ready_sentinel, WorkerStep, Fault, restOfWorker, clientVars, wireVars,
         recordVars, InLoop, PublishReady, Integrate, announce_root_local_ready,
         publish_terminal, Published, terminal
<1>14. CASE WorkerDies
  BY <1>14
     DEF WorkerDies, WorkerStep, Fault, restOfWorker, clientVars, wireVars, recordVars
<1>15. CASE record_capture_failure
  BY <1>15
     DEF record_capture_failure, Fault, restOfWorker, clientVars, wireVars, recordVars
<1>16. QED BY <1>1, <1>2, <1>3, <1>4, <1>5, <1>6, <1>7, <1>8, <1>9, <1>10, <1>11, <1>12,
       <1>13, <1>14, <1>15 DEF WorkerActs

\* A step of the cancel command changes only the root's receipt, the bytes it
\* sends and the marker.
LEMMA CancelFrame ==
    ASSUME CancelActs
    PROVE  UNCHANGED <<env, live, client, request, reply, worker, outbox, meta, source, faults>>
<1>1. CASE cancel_command
  BY <1>1
     DEF cancel_command, RootReceipt, restOfCancel, clientVars, wireVars, workerVars
<1>2. CASE cancel_initiate
  BY <1>2
     DEF cancel_initiate, RootReceipt, restOfCancel, clientVars, wireVars, workerVars
<1>3. CASE cancel_prewire
  BY <1>3
     DEF cancel_prewire, RootReceipt, restOfCancel, clientVars, wireVars, workerVars
<1>4. CASE cancel_wire
  BY <1>4
     DEF cancel_wire, RootReceipt, restOfCancel, clientVars, wireVars, workerVars
<1>5. CASE request_cancel
  BY <1>5
     DEF request_cancel, RootReceipt, restOfCancel, clientVars, wireVars, workerVars
<1>6. QED BY <1>1, <1>2, <1>3, <1>4, <1>5 DEF CancelActs

\* The chain of ancestors.
LEMMA ChainShape ==
    /\ env.paired => Len(Chain(env)) = 3 /\ Chain(env)[1] = "shell"
                     /\ Chain(env)[2] = "parent" /\ Chain(env)[3] = "guardian"
    /\ ~env.paired => Len(Chain(env)) = 1 /\ Chain(env)[1] = "shell"
    /\ Ancestry \subseteq {"shell", "parent", "guardian"}
    /\ DOMAIN Chain(env) = 1 .. Len(Chain(env))
<1>1. CASE env.paired
  <2>1. Chain(env) = <<"shell", "parent", "guardian">>
    BY <1>1 DEF Chain
  <2>2. QED BY <1>1, <2>1 DEF Ancestry
<1>2. CASE ~env.paired
  <2>1. Chain(env) = <<"shell">>
    BY <1>2 DEF Chain
  <2>2. QED BY <1>2, <2>1 DEF Ancestry
<1>3. QED BY <1>1, <1>2

\* The adopter of a process is the nearest ancestor above it that is alive.
LEMMA NearestAlive ==
    ASSUME NEW i \in Nat
    PROVE  \/ /\ ParentOf(i) = "init"
              /\ \A j \in (i + 1) .. Len(Chain(env)) : ~Alive(Chain(env)[j])
           \/ \E j \in (i + 1) .. Len(Chain(env)) :
                /\ ParentOf(i) = Chain(env)[j]
                /\ \A k \in (i + 1) .. Len(Chain(env)) : Alive(Chain(env)[k]) => j <= k
<1> DEFINE above == {j \in (i + 1) .. Len(Chain(env)) : Alive(Chain(env)[j])}
           m == CHOOSE j \in above : \A k \in above : j <= k
<1>1. Len(Chain(env)) \in {1, 3}
  BY ChainShape
<1>2. ParentOf(i) = IF above = {} THEN "init" ELSE Chain(env)[m]
  BY DEF ParentOf
<1>3. CASE above = {}
  <2>1. \A j \in (i + 1) .. Len(Chain(env)) : ~Alive(Chain(env)[j])
    BY <1>3
  <2>2. QED BY <1>2, <1>3, <2>1
<1>4. CASE above # {}
  <2>1. above \subseteq 1 .. 3
    BY <1>1
  <2>2. \E j \in above : \A k \in above : j <= k
    <3> HIDE DEF above
    <3>1. CASE 1 \in above
      BY <2>1, <3>1
    <3>2. CASE 1 \notin above /\ 2 \in above
      BY <2>1, <3>2
    <3>3. CASE 1 \notin above /\ 2 \notin above
      <4>1. \A k \in above : k = 3
        BY <2>1, <3>3
      <4>2. PICK k \in above : TRUE
        BY <1>4
      <4>3. QED BY <4>1, <4>2
    <3>4. QED BY <3>1, <3>2, <3>3
  <2>3. m \in above /\ \A k \in above : m <= k
    <3> HIDE DEF above
    <3>1. QED BY <2>2
  <2>4. QED
    <3> HIDE DEF m
    <3>1. m \in (i + 1) .. Len(Chain(env))
      BY <2>3
    <3>2. \A k \in (i + 1) .. Len(Chain(env)) : Alive(Chain(env)[k]) => m <= k
      BY <2>3
    <3>3. QED BY <1>2, <1>4, <3>1, <3>2
<1>5. QED BY <1>3, <1>4

\* The adopter is an ancestor or init.
LEMMA ParentKnown ==
    ASSUME NEW i \in Nat
    PROVE  ParentOf(i) \in Ancestry \cup {"init"}
BY NearestAlive, ChainShape DEF Ancestry

\* Nothing between a process of the work and its adopter is alive.
LEMMA ParentPassed ==
    ASSUME NEW i \in {0, 1}
    PROVE  Passed(ParentOf(i))
<1> SUFFICES ASSUME env.paired PROVE Passed(ParentOf(i))
  BY DEF Passed
<1>1. PICK n \in Nat : n = i
  OBVIOUS
<1>2. CASE /\ ParentOf(i) = "init"
           /\ \A j \in (i + 1) .. Len(Chain(env)) : ~Alive(Chain(env)[j])
  BY <1>2, ChainShape DEF Passed, Alive
<1>3. CASE \E j \in (i + 1) .. Len(Chain(env)) :
                /\ ParentOf(i) = Chain(env)[j]
                /\ \A k \in (i + 1) .. Len(Chain(env)) : Alive(Chain(env)[k]) => j <= k
  BY <1>3, ChainShape DEF Passed, Alive
<1>4. QED BY <1>1, <1>2, <1>3, NearestAlive

\* An ancestor's place in the chain.
LEMMA IndexKnown ==
    ASSUME NEW p \in Ancestry
    PROVE  /\ IndexOf(p) \in 1 .. Len(Chain(env)) /\ IndexOf(p) \in Nat
           /\ p = "shell" => IndexOf(p) = 1
<1>1. \E i \in DOMAIN Chain(env) : Chain(env)[i] = p
  BY ChainShape DEF Ancestry
<1>2. IndexOf(p) \in DOMAIN Chain(env) /\ Chain(env)[IndexOf(p)] = p
  BY <1>1 DEF IndexOf
<1>3. QED BY <1>2, ChainShape

\* The client's step keeps the types of the client and of its socket.
LEMMA ClientTypeStep ==
    ASSUME TypeOK, Walk, ClientActs
    PROVE  /\ client' \in ClientType
           /\ request' \in {"none", "received", "accepted", "replied"}
           /\ reply' \in {"none", "accepted", "already_accepted_no_replay",
                         "rejected_preaccept", "other", "conflict"}
<1>0. /\ client \in ClientType
      /\ request \in {"none", "received", "accepted", "replied"}
      /\ reply \in {"none", "accepted", "already_accepted_no_replay",
                    "rejected_preaccept", "other", "conflict"}
  BY TypeParts
<1>1. CASE Select
  BY <1>1, <1>0, PreacceptFrame
     DEF Select, ClientStep, Proceed, Fault, besidesClient, wireVars, workerVars,
         recordVars, ClientType, Unsent
<1>2. CASE inherited_paired_session_ring
  BY <1>2, <1>0, PreacceptFrame, ParentKnown, ChainShape
     DEF inherited_paired_session_ring, ClientStep, Proceed, Fault, besidesClient, wireVars,
         workerVars, recordVars, ClientType, Unsent
<1>3. CASE WalkRead
  BY <1>3, <1>0, PreacceptFrame, ParentKnown, IndexKnown, ChainShape
     DEF WalkRead, ClientStep, Proceed, Fault, besidesClient, wireVars, workerVars,
         recordVars, ClientType, Unsent, Walk
<1>4. CASE has_paired_custodian_ancestor
  BY <1>4, <1>0, PreacceptFrame, ChainShape
     DEF has_paired_custodian_ancestor, ClientStep, Proceed, Fault, besidesClient, wireVars,
         workerVars, recordVars, ClientType, Unsent, Walk
<1>5. CASE selected
  BY <1>5, <1>0, PreacceptFrame
     DEF selected, ClientStep, Proceed, Fault, besidesClient, wireVars, workerVars,
         recordVars, ClientType, Unsent
<1>6. CASE ReadGrant
  BY <1>6, <1>0, PreacceptFrame
     DEF ReadGrant, ClientStep, Proceed, Fault, besidesClient, wireVars, workerVars,
         recordVars, ClientType, Unsent
<1>7. CASE PersistIntent
  BY <1>7, <1>0, PreacceptFrame
     DEF PersistIntent, ClientStep, Proceed, Fault, besidesClient, wireVars, workerVars,
         recordVars, ClientType, Unsent
<1>8. CASE PinDescriptors
  BY <1>8, <1>0, PreacceptFrame
     DEF PinDescriptors, ClientStep, Proceed, Fault, besidesClient, wireVars, workerVars,
         recordVars, ClientType, Unsent
<1>9. CASE Connect
  BY <1>9, <1>0, PreacceptFrame
     DEF Connect, ClientStep, Proceed, Fault, besidesClient, wireVars, workerVars,
         recordVars, ClientType, Unsent
<1>10. CASE authenticate_control
  BY <1>10, <1>0, PreacceptFrame
     DEF authenticate_control, ClientStep, Proceed, Fault, besidesClient, wireVars,
         workerVars, recordVars, host_observed_source_fails, ClientType, Unsent
<1>11. CASE send_with_fds
  BY <1>11, <1>0
     DEF send_with_fds, ClientStep, Proceed, Fault, besidesClient, wireVars, workerVars,
         recordVars, ClientType, Unsent
<1>12. CASE HalfClose
  BY <1>12, <1>0
     DEF HalfClose, ClientStep, Proceed, Fault, besidesClient, wireVars, workerVars,
         recordVars, ClientType, Unsent
<1>13. CASE ReadResponse
  BY <1>13, <1>0, PreacceptFrame
     DEF ReadResponse, ClientStep, Proceed, Fault, besidesClient, wireVars, workerVars,
         recordVars, ClientType, Unsent, submit_response_disposition, validate_response
<1>14. CASE AncestorEnds
  BY <1>14, <1>0
     DEF AncestorEnds, ClientStep, Proceed, Fault, besidesClient, wireVars, workerVars,
         recordVars, ClientType, Unsent
<1>15. CASE ClientDies
  BY <1>15, <1>0
     DEF ClientDies, ClientStep, Proceed, Fault, besidesClient, wireVars, workerVars,
         recordVars, ClientType, Unsent
<1>16. QED BY <1>1, <1>2, <1>3, <1>4, <1>5, <1>6, <1>7, <1>8, <1>9, <1>10, <1>11, <1>12,
   <1>13, <1>14, <1>15 DEF ClientActs, ClientNext

\* A request for cancellation changes the cause alone: to the one with the
\* higher rank, an explicit request when the marker is there.
LEMMA Requested ==
    ASSUME NEW w \in WorkerType, NEW c \in Causes \cup {"X"}, NEW v,
           v = request_cancellation(w, c)
    PROVE  /\ v \in WorkerType /\ v = [w EXCEPT !.cause = v.cause]
           /\ v.cause # "none"
           /\ v.cause \in {w.cause, c} \/ (v.cause = "C" /\ marker)
           /\ v.cause = "F" => c = "F" /\ w.cause \in {"none", "F"}
           /\ v.at = w.at /\ v.told = w.told /\ v.launched = w.launched /\ v.empty = w.empty
           /\ v.ready = w.ready /\ v.fd = w.fd /\ v.granted = w.granted
           /\ v.recorded = w.recorded /\ v.error = w.error /\ v.dropped = w.dropped
<1>1. w.cause \in Causes \cup {"none", "X"}
  BY DEF WorkerType
<1>2. PICK d : d = (IF marker THEN "C" ELSE c)
  OBVIOUS
<1>3. d \in Causes \cup {"X"} /\ (d = c \/ (d = "C" /\ marker))
  BY <1>2 DEF Causes
<1>4. PICK e : e = with_precedence_over(w.cause, d)
  OBVIOUS
<1>5. /\ e \in {w.cause, d} /\ e # "none"
      /\ e = "F" => d = "F" /\ w.cause \in {"none", "F"}
  BY <1>1, <1>3, <1>4 DEF with_precedence_over, Rank, Causes
<1>6. v = [w EXCEPT !.cause = e]
  BY <1>2, <1>4 DEF request_cancellation, WorkerType
<1>7. QED BY <1>1, <1>3, <1>5, <1>6 DEF WorkerType, Causes

\* The loss of the root closes the socket, lifts the settlement and requests a
\* cancellation.
LEMMA LostRoot ==
    ASSUME NEW w \in WorkerType, NEW v, v = Lost(w)
    PROVE  /\ v \in WorkerType
           /\ v.cause # "none"
           /\ v.cause \in {w.cause, "F"} \/ (v.cause = "C" /\ marker)
           /\ v.cause = "F" => w.cause \in {"none", "F"}
           /\ v.at = w.at /\ v.told = w.told /\ v.launched = w.launched /\ v.empty = w.empty
           /\ v.ready = w.ready /\ v.fd = FALSE /\ v.granted = TRUE
           /\ v.recorded = w.recorded /\ v.error = w.error
           /\ v.dropped = {inbox[i] : i \in DOMAIN inbox} \cap Causes
<1>0. PICK d : d = {inbox[i] : i \in DOMAIN inbox} \cap Causes
  OBVIOUS
<1>1. PICK u : u = [w EXCEPT !.fd = FALSE, !.granted = TRUE, !.dropped = d]
  OBVIOUS
<1>2. /\ u \in WorkerType /\ u.fd = FALSE /\ u.granted = TRUE
      /\ u.at = w.at /\ u.told = w.told /\ u.launched = w.launched /\ u.empty = w.empty
      /\ u.ready = w.ready /\ u.recorded = w.recorded /\ u.error = w.error
      /\ u.cause = w.cause /\ u.dropped = d
  BY <1>0, <1>1 DEF WorkerType
<1>3. v = request_cancellation(u, "F")
  BY <1>0, <1>1 DEF Lost
<1>4. "F" \in Causes \cup {"X"}
  BY DEF Causes
<1>5. /\ v \in WorkerType /\ v.cause # "none"
      /\ v.cause \in {u.cause, "F"} \/ (v.cause = "C" /\ marker)
      /\ v.cause = "F" => u.cause \in {"none", "F"}
      /\ v.at = u.at /\ v.told = u.told /\ v.launched = u.launched /\ v.empty = u.empty
      /\ v.ready = u.ready /\ v.fd = u.fd /\ v.granted = u.granted
      /\ v.recorded = u.recorded /\ v.error = u.error /\ v.dropped = u.dropped
  BY <1>2, <1>3, <1>4, Requested
<1>6. QED BY <1>0, <1>2, <1>5

\* What the worker may find at the head of its socket: a cause or the grant
\* before it is decided, a cause or the settlement in the loop.
LEMMA HeadOfInbox ==
    ASSUME TypeOK, Wire, inbox # <<>>
    PROVE  /\ worker.at = "await" => Head(inbox) \in Causes \cup {"G"}
           /\ worker.at = "loop" => Head(inbox) \in Causes \cup {"S"}
           /\ Head(inbox) = inbox[1] /\ Head(inbox) \in Bytes /\ 1 \in 1 .. Len(inbox)
           /\ Tail(inbox) \in Seq(Bytes) /\ Len(Tail(inbox)) = Len(inbox) - 1
           /\ \A i \in 1 .. Len(Tail(inbox)) :
                i + 1 \in 1 .. Len(inbox) /\ Tail(inbox)[i] = inbox[i + 1]
<1>1. inbox \in Seq(Bytes)
  BY TypeParts
<1>2. /\ Head(inbox) = inbox[1] /\ Head(inbox) \in Bytes /\ 1 \in 1 .. Len(inbox)
      /\ Tail(inbox) \in Seq(Bytes) /\ Len(Tail(inbox)) = Len(inbox) - 1
      /\ \A i \in 1 .. Len(Tail(inbox)) :
            i + 1 \in 1 .. Len(inbox) /\ Tail(inbox)[i] = inbox[i + 1]
  BY <1>1
<1>3. worker.at = "await" => Head(inbox) # "S"
  BY <1>2 DEF Wire
<1>4. worker.at = "loop" => Head(inbox) # "G"
  BY <1>2 DEF Wire
<1>5. QED BY <1>2, <1>3, <1>4 DEF Bytes

\* What a cause b does to a worker w in its loop: the cause it holds becomes the
\* one of higher rank, and what it was told is kept until it has published.
Heard(w, b, v) ==
    /\ v \in WorkerType
    /\ v.at = w.at /\ v.launched = w.launched /\ v.empty = w.empty /\ v.ready = w.ready
    /\ v.fd = w.fd /\ v.recorded = w.recorded /\ v.error = w.error
    /\ v.granted = w.granted /\ v.dropped = w.dropped /\ v.cause # "none"
    /\ w.recorded => v.told = w.told
    /\ ~w.recorded => v.told = w.told \cup {b}
    /\ v.cause \in {w.cause, b} \/ (v.cause = "C" /\ marker)
    /\ v.cause = "F" => b = "F" /\ w.cause \in {"none", "F"}

\* A cause that is read is heard.
LEMMA CauseRead ==
    ASSUME NEW w \in WorkerType, NEW b \in Causes, NEW v,
           v = Told(request_cancellation(w, b), b)
    PROVE  Heard(w, b, v)
<1>1. PICK u : u = request_cancellation(w, b)
  OBVIOUS
<1>2. v = [u EXCEPT !.told = IF u.recorded THEN @ ELSE @ \cup {b}]
  BY <1>1 DEF Told
<1>3. PICK t : t = IF u.recorded THEN u.told ELSE u.told \cup {b}
  OBVIOUS
<1>4. u \in WorkerType
  BY <1>1, Requested
<1>5. t \in SUBSET Causes /\ v = [u EXCEPT !.told = t]
  BY <1>2, <1>3, <1>4 DEF WorkerType
<1>6. /\ v \in WorkerType /\ v.told = t
      /\ v.at = u.at /\ v.launched = u.launched /\ v.empty = u.empty /\ v.ready = u.ready
      /\ v.fd = u.fd /\ v.recorded = u.recorded /\ v.error = u.error
      /\ v.granted = u.granted /\ v.cause = u.cause /\ v.dropped = u.dropped
  BY <1>4, <1>5 DEF WorkerType
<1>7. /\ u.cause # "none" /\ (u.cause \in {w.cause, b} \/ (u.cause = "C" /\ marker))
      /\ u.cause = "F" => b = "F" /\ w.cause \in {"none", "F"}
      /\ u.at = w.at /\ u.told = w.told /\ u.launched = w.launched /\ u.empty = w.empty
      /\ u.ready = w.ready /\ u.fd = w.fd /\ u.granted = w.granted
      /\ u.recorded = w.recorded /\ u.error = w.error /\ u.dropped = w.dropped
  BY <1>1, Requested
<1>8. QED BY <1>3, <1>6, <1>7 DEF Heard

\* What an announcement changes: R is sent, the loss of the root is noticed, or
\* nothing but the settlement of a socket that is closed.
LEMMA Announced ==
    ASSUME NEW w \in WorkerType, announce_root_local_ready(w)
    PROVE  /\ worker' \in WorkerType
           /\ worker'.at = w.at /\ worker'.told = w.told /\ worker'.launched = w.launched
           /\ worker'.empty = w.empty /\ worker'.ready = w.ready
           /\ worker'.recorded = w.recorded /\ worker'.error = w.error
           /\ outbox' \in {outbox, outbox \cup {"R"}}
           /\ worker'.fd = FALSE => w.fd = FALSE \/ ~root.alive
           /\ worker'.granted = TRUE => w.granted = TRUE \/ w.fd = FALSE \/ ~root.alive
           /\ w.fd = FALSE => worker'.fd = FALSE /\ outbox' = outbox
           /\ \/ worker'.dropped = w.dropped /\ (w.fd = TRUE => worker'.fd = TRUE)
              \/ worker'.fd = FALSE /\ "R" \notin outbox'
           /\ \/ worker'.cause = w.cause
              \/ /\ worker'.cause # "none"
                 /\ worker'.cause = "F" \/ (worker'.cause = "C" /\ marker)
                 /\ worker'.cause = "F" => w.cause \in {"none", "F"}
<1>1. CASE "R" \in outbox \/ ~w.fd
  <2>1. PICK g \in BOOLEAN : worker' = [w EXCEPT !.granted = g]
                             /\ (g = TRUE => w.granted = TRUE \/ w.fd = FALSE)
    <3>1. worker' = [w EXCEPT !.granted = w.granted \/ (~w.fd /\ "R" \notin outbox)]
      BY <1>1 DEF announce_root_local_ready, WorkerType
    <3>2. w.granted \in BOOLEAN /\ w.fd \in BOOLEAN
      BY DEF WorkerType
    <3>3. CASE ~w.fd /\ "R" \notin outbox
      <4>1. (w.granted \/ (~w.fd /\ "R" \notin outbox)) = TRUE
        BY <3>3
      <4>2. w.fd = FALSE
        BY <3>2, <3>3
      <4>3. QED BY <3>1, <4>1, <4>2
    <3>4. CASE ~(~w.fd /\ "R" \notin outbox)
      <4>1. (w.granted \/ (~w.fd /\ "R" \notin outbox)) = w.granted
        BY <3>2, <3>4
      <4>2. QED BY <3>1, <3>2, <4>1
    <3>5. QED BY <3>3, <3>4
  <2>2. outbox' = outbox
    BY <1>1 DEF announce_root_local_ready
  <2>3. QED BY <2>1, <2>2 DEF WorkerType
<1>2. CASE ~("R" \in outbox \/ ~w.fd) /\ root.alive
  BY <1>2 DEF announce_root_local_ready, WorkerType
<1>3. CASE ~("R" \in outbox \/ ~w.fd) /\ ~root.alive
  <2>1. worker' = Lost(w) /\ outbox' = outbox
    BY <1>3 DEF announce_root_local_ready
  <2>2. PICK v : v = Lost(w)
    OBVIOUS
  <2>3. /\ v \in WorkerType /\ v.cause # "none"
        /\ v.cause \in {w.cause, "F"} \/ (v.cause = "C" /\ marker)
        /\ v.cause = "F" => w.cause \in {"none", "F"}
        /\ v.at = w.at /\ v.told = w.told /\ v.launched = w.launched /\ v.empty = w.empty
        /\ v.ready = w.ready /\ v.fd = FALSE /\ v.granted = TRUE
        /\ v.recorded = w.recorded /\ v.error = w.error
    BY <2>2, LostRoot, ZenonT(60)
  <2>4. worker' = v /\ "R" \notin outbox' /\ w.fd # FALSE
    BY <1>3, <2>1, <2>2
  <2>5. QED BY <1>3, <2>1, <2>3, <2>4
<1>4. QED BY <1>1, <1>2, <1>3

\* What the report of a published terminal changes.
LEMMA Integrated ==
    ASSUME NEW w \in WorkerType, Integrate(w)
    PROVE  /\ worker' \in WorkerType /\ worker'.recorded = TRUE
           /\ worker'.at = w.at /\ worker'.told = w.told /\ worker'.launched = w.launched
           /\ worker'.empty = w.empty /\ worker'.ready = w.ready
           /\ worker'.error = w.error /\ worker'.cause = w.cause
           /\ worker'.dropped = w.dropped /\ (w.fd = FALSE => worker'.fd = FALSE)
           /\ outbox' \in {outbox, outbox \cup {"T"}}
           /\ worker'.fd = FALSE => w.fd = FALSE \/ ~root.alive
           /\ worker'.granted = TRUE => w.granted = TRUE \/ ~root.alive
<1>1. CASE ~w.fd
  BY <1>1 DEF Integrate, WorkerType
<1>2. CASE w.fd /\ root.alive
  BY <1>2 DEF Integrate, WorkerType
<1>3. CASE w.fd /\ ~root.alive
  <2>1. worker' = [w EXCEPT !.recorded = TRUE, !.fd = FALSE, !.granted = TRUE]
    BY <1>3 DEF Integrate
  <2>2. outbox' = outbox
    BY <1>3 DEF Integrate
  <2>3. QED BY <1>3, <2>1, <2>2 DEF WorkerType
<1>4. QED BY <1>1, <1>2, <1>3

\* A terminal that is published by a worker that has published none is the one
\* it asks for, or an explicit cancellation.
LEMMA FirstPublication ==
    ASSUME TypeOK, meta.reason = "none", NEW reason, publish_terminal(reason),
           reason \in Causes \cup {"error", "ready", "exit"}
    PROVE  /\ meta' \in MetaType
           /\ meta'.reason = IF marker THEN "C" ELSE reason
<1>1. meta \in MetaType
  BY TypeParts
<1>2. meta' = [meta EXCEPT !.reason = IF marker THEN "C" ELSE reason]
  BY DEF publish_terminal, Published, terminal
<1>3. (IF marker THEN "C" ELSE reason) \in Causes \cup {"error", "ready", "exit"}
  BY DEF Causes
<1>4. QED BY <1>1, <1>2, <1>3 DEF MetaType

\* The sentinel is published, or gives way to an explicit cancellation.
LEMMA ReadyPublished ==
    ASSUME TypeOK, meta.reason = "none", NEW w \in WorkerType, PublishReady(w)
    PROVE  \/ /\ marker = TRUE /\ UNCHANGED <<meta, source, outbox>>
              /\ worker' = request_cancellation(w, "C")
           \/ /\ marker = FALSE /\ meta' \in MetaType /\ meta'.reason = "ready"
              /\ source' = env.v2 /\ Integrate(w)
<1>1. marker \in BOOLEAN
  BY TypeParts
<1>2. CASE marker
  BY <1>1, <1>2 DEF PublishReady
<1>3. CASE ~marker
  <2>1. publish_terminal("ready") /\ source' = env.v2 /\ Integrate(w)
    BY <1>3 DEF PublishReady
  <2>2. QED BY <1>1, <1>3, <2>1, FirstPublication
<1>4. QED BY <1>2, <1>3

\* A worker's step keeps the types, what may be on the socket, what is
\* published and the cause.
LEMMA WorkerKeeps ==
    ASSUME Inv, WorkerActs
    PROVE  /\ worker' \in WorkerType /\ worker.at # "none" /\ worker'.at # "none"
           /\ inbox' \in Seq(Bytes) /\ outbox' \subseteq {"P", "R", "T"}
           /\ meta' \in MetaType /\ marker' \in BOOLEAN /\ source' \in BOOLEAN
           /\ meta'.reason = "preaccept" => meta.reason = "preaccept"
           /\ Wire' /\ Publication' /\ Cause'
<1>0. /\ TypeOK /\ Submission /\ Wire /\ Publication /\ Cause /\ Loss
      /\ worker \in WorkerType /\ inbox \in Seq(Bytes) /\ outbox \subseteq {"P", "R", "T"}
      /\ meta \in MetaType /\ marker \in BOOLEAN /\ source \in BOOLEAN /\ env.v2 \in BOOLEAN
      /\ root \in RootType
  BY TypeParts, RootWorkAssumption DEF Inv, EnvType
<1>1. UNCHANGED <<env, live, client, request, reply, root, canceller>>
  BY WorkerFrame
<1>2. CASE run_internal
  <2>1. worker' \in WorkerType /\ worker.at # "none" /\ worker'.at # "none"
    BY <1>0, <1>2
       DEF run_internal, WorkerStep, Fault, restOfWorker, clientVars, wireVars, recordVars,
           WorkerType, Causes
  <2>2. inbox' \in Seq(Bytes) /\ outbox' \subseteq {"P", "R", "T"}
    BY <1>0, <1>2
       DEF run_internal, WorkerStep, Fault, restOfWorker, clientVars, wireVars, recordVars
  <2>3. /\ meta' \in MetaType /\ marker' \in BOOLEAN /\ source' \in BOOLEAN
        /\ meta'.reason = "preaccept" => meta.reason = "preaccept"
    BY <1>0, <1>2
       DEF run_internal, WorkerStep, Fault, restOfWorker, clientVars, wireVars, recordVars,
           MetaType, Causes, Publication, WorkerType
  <2>4. Wire'
    BY <1>0, <1>1, <1>2
       DEF run_internal, WorkerStep, Fault, restOfWorker, clientVars, wireVars, recordVars,
           Wire, Silent, RootType, WorkerType
  <2>5. Publication'
    BY <1>0, <1>1, <1>2
       DEF run_internal, WorkerStep, Fault, restOfWorker, clientVars, wireVars, recordVars,
           Publication, RootType, WorkerType, MetaType
  <2>6. Cause'
    BY <1>0, <1>1, <1>2
       DEF run_internal, WorkerStep, Fault, restOfWorker, clientVars, wireVars, recordVars,
           Cause, Silent, Causes, Publication, WorkerType, MetaType
  <2>7. QED BY <2>1, <2>2, <2>3, <2>4, <2>5, <2>6
<1>3. CASE run_root_worker
  <2>1. worker' \in WorkerType /\ worker.at # "none" /\ worker'.at # "none"
    BY <1>0, <1>3
       DEF run_root_worker, WorkerStep, Fault, restOfWorker, clientVars, wireVars, recordVars,
           prepare_continuation, register, record_pre_admission_registration_error,
           record_admitted_registration_unknown, BestEffort, Record, terminal, WorkerType,
           Causes
  <2>2. inbox' \in Seq(Bytes) /\ outbox' \subseteq {"P", "R", "T"}
    BY <1>0, <1>3
       DEF run_root_worker, WorkerStep, Fault, restOfWorker, clientVars, wireVars, recordVars,
           prepare_continuation, register, record_pre_admission_registration_error,
           record_admitted_registration_unknown, BestEffort, Record, terminal
  <2>3. /\ meta' \in MetaType /\ marker' \in BOOLEAN /\ source' \in BOOLEAN
        /\ meta'.reason = "preaccept" => meta.reason = "preaccept"
    BY <1>0, <1>3
       DEF run_root_worker, WorkerStep, Fault, restOfWorker, clientVars, wireVars, recordVars,
           prepare_continuation, register, record_pre_admission_registration_error,
           record_admitted_registration_unknown, BestEffort, Record, terminal, MetaType,
           Causes, Publication, WorkerType
  <2>4. Wire'
    BY <1>0, <1>1, <1>3
       DEF run_root_worker, WorkerStep, Fault, restOfWorker, clientVars, wireVars, recordVars,
           prepare_continuation, register, record_pre_admission_registration_error,
           record_admitted_registration_unknown, BestEffort, Record, terminal, Wire, Silent,
           RootType, WorkerType
  <2>5. Publication'
    BY <1>0, <1>1, <1>3
       DEF run_root_worker, WorkerStep, Fault, restOfWorker, clientVars, wireVars, recordVars,
           prepare_continuation, register, record_pre_admission_registration_error,
           record_admitted_registration_unknown, BestEffort, Record, terminal, Publication,
           RootType, WorkerType, MetaType
  <2>6. Cause'
    BY <1>0, <1>1, <1>3
       DEF run_root_worker, WorkerStep, Fault, restOfWorker, clientVars, wireVars, recordVars,
           prepare_continuation, register, record_pre_admission_registration_error,
           record_admitted_registration_unknown, BestEffort, Record, terminal, Cause, Silent,
           Causes, Publication, WorkerType, MetaType
  <2>7. QED BY <2>1, <2>2, <2>3, <2>4, <2>5, <2>6
<1>4. CASE await_root_execution_grant
  <2>1. CASE /\ worker.at = "prepared" /\ root.alive /\ outbox' = outbox \cup {"P"}
             /\ worker' = [worker EXCEPT !.at = "await"]
             /\ UNCHANGED <<inbox, meta, marker, source>>
    <3>1. worker' \in WorkerType /\ worker.at # "none" /\ worker'.at # "none"
      BY <1>0, <2>1 DEF WorkerType, Causes
    <3>2. inbox' \in Seq(Bytes) /\ outbox' \subseteq {"P", "R", "T"}
      BY <1>0, <2>1
    <3>3. /\ meta' \in MetaType /\ marker' \in BOOLEAN /\ source' \in BOOLEAN
          /\ meta'.reason = "preaccept" => meta.reason = "preaccept"
      BY <1>0, <2>1 DEF MetaType, Causes
    <3>4. Wire'
      BY <1>0, <1>1, <2>1 DEF Wire, Silent, RootType, WorkerType
    <3>5. Publication'
      BY <1>0, <1>1, <2>1 DEF Publication, RootType, WorkerType, MetaType
    <3>6. Cause'
      BY <1>0, <1>1, <2>1 DEF Cause, Silent, WorkerType, Causes
    <3>7. QED BY <3>1, <3>2, <3>3, <3>4, <3>5, <3>6
  <2>2. CASE /\ worker.at \in {"prepared", "await"} /\ ~root.alive
             /\ worker' = [worker EXCEPT !.at = "nolaunch", !.cause = "F"]
             /\ UNCHANGED <<inbox, outbox, meta, marker, source>>
    <3>1. worker' \in WorkerType /\ worker.at # "none" /\ worker'.at # "none"
      BY <1>0, <2>2 DEF WorkerType, Causes
    <3>2. inbox' \in Seq(Bytes) /\ outbox' \subseteq {"P", "R", "T"}
      BY <1>0, <2>2
    <3>3. /\ meta' \in MetaType /\ marker' \in BOOLEAN /\ source' \in BOOLEAN
          /\ meta'.reason = "preaccept" => meta.reason = "preaccept"
      BY <1>0, <2>2 DEF MetaType, Causes
    <3>4. Wire'
      BY <1>0, <1>1, <2>2 DEF Wire, Silent, RootType, WorkerType
    <3>5. Publication'
      BY <1>0, <1>1, <2>2 DEF Publication, RootType, WorkerType, MetaType
    <3>6. Cause'
      BY <1>0, <1>1, <2>2 DEF Cause, Silent, WorkerType, Causes
    <3>7. QED BY <3>1, <3>2, <3>3, <3>4, <3>5, <3>6
  <2>3. CASE /\ worker.at = "await" /\ inbox # <<>> /\ inbox' = Tail(inbox)
             /\ Head(inbox) = "G" /\ worker' = [worker EXCEPT !.at = "boot"]
             /\ UNCHANGED <<outbox, meta, marker, source>>
    <3>1. worker' \in WorkerType /\ worker.at # "none" /\ worker'.at # "none"
      BY <1>0, <2>3 DEF WorkerType, Causes
    <3>2. inbox' \in Seq(Bytes) /\ outbox' \subseteq {"P", "R", "T"}
      BY <1>0, <2>3, HeadOfInbox
    <3>3. /\ meta' \in MetaType /\ marker' \in BOOLEAN /\ source' \in BOOLEAN
          /\ meta'.reason = "preaccept" => meta.reason = "preaccept"
      BY <1>0, <2>3 DEF MetaType, Causes
    <3>4. Wire'
      BY <1>0, <1>1, <2>3, HeadOfInbox DEF Wire, Silent, RootType, WorkerType
    <3>5. Publication'
      BY <1>0, <1>1, <2>3 DEF Publication, RootType, WorkerType, MetaType
    <3>6. Cause'
      BY <1>0, <1>1, <2>3 DEF Cause, Silent, WorkerType, Causes
    <3>7. QED BY <3>1, <3>2, <3>3, <3>4, <3>5, <3>6
  <2>4. CASE /\ worker.at = "await" /\ inbox # <<>> /\ inbox' = Tail(inbox)
             /\ Head(inbox) # "G"
             /\ worker' = Told([worker EXCEPT !.at = "nolaunch", !.cause = Head(inbox)],
                               Head(inbox))
             /\ UNCHANGED <<outbox, meta, marker, source>>
    <3>0. PICK b \in Causes :
              worker' = [worker EXCEPT !.at = "nolaunch", !.cause = b, !.told = {b}]
      <4>1. PICK b : b = Head(inbox)
        OBVIOUS
      <4>2. b \in Causes
        BY <1>0, <2>4, <4>1, HeadOfInbox
      <4>3. ~worker.recorded /\ worker.told = {}
        BY <1>0, <2>4 DEF Publication, Cause
      <4>4. worker' = Told([worker EXCEPT !.at = "nolaunch", !.cause = b], b)
        BY <2>4, <4>1
      <4>5. worker' = [worker EXCEPT !.at = "nolaunch", !.cause = b, !.told = {b}]
        BY <1>0, <4>3, <4>4 DEF Told, WorkerType
      <4>6. QED BY <4>2, <4>5
    <3>10. /\ worker.at = "await" /\ meta.reason = "none" /\ inbox # <<>> /\ inbox' = Tail(inbox)
           /\ UNCHANGED <<outbox, meta, marker, source>>
      BY <1>0, <2>4 DEF Publication
    <3>1. worker' \in WorkerType /\ worker.at # "none" /\ worker'.at # "none"
      BY <1>0, <3>0, <3>10 DEF WorkerType, Causes
    <3>2. inbox' \in Seq(Bytes) /\ outbox' \subseteq {"P", "R", "T"}
      BY <1>0, <3>0, <3>10, HeadOfInbox
    <3>3. /\ meta' \in MetaType /\ marker' \in BOOLEAN /\ source' \in BOOLEAN
          /\ meta'.reason = "preaccept" => meta.reason = "preaccept"
      BY <1>0, <3>0, <3>10 DEF MetaType, Causes
    <3>4. Wire'
      BY <1>0, <1>1, <3>0, <3>10, HeadOfInbox DEF Wire, Silent, RootType, WorkerType
    <3>5. Publication'
      BY <1>0, <1>1, <3>0, <3>10 DEF Publication, RootType, WorkerType, MetaType
    <3>6. Cause'
      BY <1>0, <1>1, <3>0, <3>10 DEF Cause, Silent, WorkerType, Causes
    <3>7. QED BY <3>1, <3>2, <3>3, <3>4, <3>5, <3>6
  <2>5. QED BY <1>0, <1>4, <2>1, <2>2, <2>3, <2>4
           DEF await_root_execution_grant, WorkerStep, Eof, recordVars
<1>5. CASE complete_without_launch
  <2>0. worker.cause # "X"
    BY <1>0, <1>5 DEF complete_without_launch, Loss
  <2>1. worker' \in WorkerType /\ worker.at # "none" /\ worker'.at # "none"
    BY <1>0, <1>5
       DEF complete_without_launch, WorkerStep, Fault, restOfWorker, clientVars, wireVars,
           recordVars, publish_terminal, Published, terminal, WorkerType, Causes
  <2>2. inbox' \in Seq(Bytes) /\ outbox' \subseteq {"P", "R", "T"}
    BY <1>0, <1>5
       DEF complete_without_launch, WorkerStep, Fault, restOfWorker, clientVars, wireVars,
           recordVars, publish_terminal, Published, terminal
  <2>3. /\ meta' \in MetaType /\ marker' \in BOOLEAN /\ source' \in BOOLEAN
        /\ meta'.reason = "preaccept" => meta.reason = "preaccept"
    BY <1>0, <1>5, <2>0
       DEF complete_without_launch, WorkerStep, Fault, restOfWorker, clientVars, wireVars,
           recordVars, publish_terminal, Published, terminal, MetaType, Causes, Publication,
           WorkerType
  <2>4. Wire'
    BY <1>0, <1>1, <1>5
       DEF complete_without_launch, WorkerStep, Fault, restOfWorker, clientVars, wireVars,
           recordVars, publish_terminal, Published, terminal, Wire, Silent, RootType,
           WorkerType
  <2>5. Publication'
    BY <1>0, <1>1, <1>5
       DEF complete_without_launch, WorkerStep, Fault, restOfWorker, clientVars, wireVars,
           recordVars, publish_terminal, Published, terminal, Publication, RootType,
           WorkerType, MetaType
  <2>6. Cause'
    BY <1>0, <1>1, <1>5
       DEF complete_without_launch, WorkerStep, Fault, restOfWorker, clientVars, wireVars,
           recordVars, publish_terminal, Published, terminal, Cause, Silent, Causes,
           Publication, WorkerType, MetaType
  <2>7. QED BY <2>1, <2>2, <2>3, <2>4, <2>5, <2>6
<1>6. CASE root_terminal_handshake
  <2>1. worker' \in WorkerType /\ worker.at # "none" /\ worker'.at # "none"
    BY <1>0, <1>6, HeadOfInbox
       DEF root_terminal_handshake, WorkerStep, Fault, restOfWorker, clientVars, wireVars,
           recordVars, Eof, WorkerType, Causes
  <2>2. inbox' \in Seq(Bytes) /\ outbox' \subseteq {"P", "R", "T"}
    BY <1>0, <1>6, HeadOfInbox
       DEF root_terminal_handshake, WorkerStep, Fault, restOfWorker, clientVars, wireVars,
           recordVars, Eof
  <2>3. /\ meta' \in MetaType /\ marker' \in BOOLEAN /\ source' \in BOOLEAN
        /\ meta'.reason = "preaccept" => meta.reason = "preaccept"
    BY <1>0, <1>6
       DEF root_terminal_handshake, WorkerStep, Fault, restOfWorker, clientVars, wireVars,
           recordVars, Eof, MetaType, Causes, Publication, WorkerType
  <2>4. Wire'
    BY <1>0, <1>1, <1>6, HeadOfInbox
       DEF root_terminal_handshake, WorkerStep, Fault, restOfWorker, clientVars, wireVars,
           recordVars, Eof, Wire, Silent, RootType, WorkerType
  <2>5. Publication'
    BY <1>0, <1>1, <1>6
       DEF root_terminal_handshake, WorkerStep, Fault, restOfWorker, clientVars, wireVars,
           recordVars, Eof, Publication, RootType, WorkerType, MetaType
  <2>6. Cause'
    BY <1>0, <1>1, <1>6
       DEF root_terminal_handshake, WorkerStep, Fault, restOfWorker, clientVars, wireVars,
           recordVars, Eof, Cause, Silent, Causes, Publication, WorkerType, MetaType
  <2>7. QED BY <2>1, <2>2, <2>3, <2>4, <2>5, <2>6
<1>7. CASE run_supervisor
  <2>0. /\ worker.at = "boot" /\ meta.reason = "none" /\ outbox = {"P"}
        /\ UNCHANGED <<inbox, outbox, marker, source>>
    BY <1>0, <1>7 DEF run_supervisor, Publication, Wire
  <2>1. CASE /\ \E l, e \in BOOLEAN :
                   worker' = [worker EXCEPT !.at = "loop", !.launched = l, !.error = e]
             /\ meta' = [meta EXCEPT !.supervisor = TRUE]
    <3>0. PICK l \in BOOLEAN, e \in BOOLEAN :
              worker' = [worker EXCEPT !.at = "loop", !.launched = l, !.error = e]
      BY <2>1
    <3>1. worker' \in WorkerType /\ worker.at # "none" /\ worker'.at # "none"
      BY <1>0, <2>0, <2>1, <3>0 DEF WorkerType, Causes
    <3>2. inbox' \in Seq(Bytes) /\ outbox' \subseteq {"P", "R", "T"}
      BY <1>0, <2>0, <2>1, <3>0
    <3>3. /\ meta' \in MetaType /\ marker' \in BOOLEAN /\ source' \in BOOLEAN
          /\ meta'.reason = "preaccept" => meta.reason = "preaccept"
      BY <1>0, <2>0, <2>1, <3>0 DEF MetaType, Causes
    <3>4. Wire'
      BY <1>0, <1>1, <2>0, <2>1, <3>0 DEF Wire, Silent, RootType, WorkerType
    <3>5. Publication'
      BY <1>0, <1>1, <2>0, <2>1, <3>0 DEF Publication, RootType, WorkerType, MetaType
    <3>6. Cause'
      BY <1>0, <1>1, <2>0, <2>1, <3>0 DEF Cause, Silent, WorkerType, Causes
    <3>7. QED BY <3>1, <3>2, <3>3, <3>4, <3>5, <3>6
  <2>2. CASE worker' = [worker EXCEPT !.at = "exit"] /\ meta' \in MetaType
             /\ meta'.reason # "preaccept" /\ meta'.reason \in {"none", "C", "error"}
             /\ (meta'.reason = "C" => marker)
    <3>1. worker' \in WorkerType /\ worker.at # "none" /\ worker'.at # "none"
      BY <1>0, <2>0, <2>2 DEF WorkerType, Causes
    <3>2. inbox' \in Seq(Bytes) /\ outbox' \subseteq {"P", "R", "T"}
      BY <1>0, <2>0, <2>2
    <3>3. /\ meta' \in MetaType /\ marker' \in BOOLEAN /\ source' \in BOOLEAN
          /\ meta'.reason = "preaccept" => meta.reason = "preaccept"
      BY <1>0, <2>0, <2>2 DEF MetaType, Causes
    <3>4. Wire'
      BY <1>0, <1>1, <2>0, <2>2 DEF Wire, Silent, RootType, WorkerType
    <3>5. Publication'
      BY <1>0, <1>1, <2>0, <2>2 DEF Publication, RootType, WorkerType, MetaType
    <3>6. Cause'
      BY <1>0, <1>1, <2>0, <2>2 DEF Cause, Silent, WorkerType, Causes
    <3>7. QED BY <3>1, <3>2, <3>3, <3>4, <3>5, <3>6
  <2>3. CASE worker' = [worker EXCEPT !.at = "loop", !.launched = TRUE]
             /\ meta' = [meta EXCEPT !.supervisor = TRUE]
    <3>1. worker' = [worker EXCEPT !.at = "loop", !.launched = TRUE, !.error = worker.error]
          /\ worker.error \in BOOLEAN
      BY <1>0, <2>3 DEF WorkerType
    <3>2. QED BY <2>1, <2>3, <3>1
  <2>4. CASE (\E e \in BOOLEAN : worker' = [worker EXCEPT !.at = "loop", !.error = e])
             /\ meta' = [meta EXCEPT !.supervisor = TRUE]
    <3>1. PICK e \in BOOLEAN : worker' = [worker EXCEPT !.at = "loop", !.error = e]
      BY <2>4
    <3>2. worker' = [worker EXCEPT !.at = "loop", !.launched = worker.launched, !.error = e]
          /\ worker.launched \in BOOLEAN
      BY <1>0, <3>1 DEF WorkerType
    <3>3. QED BY <2>1, <2>4, <3>2
  <2>5. CASE WorkerStep("exit") /\ (publish_terminal("error") \/ UNCHANGED meta)
    <3>1. /\ meta' \in MetaType /\ meta'.reason \in {"none", "C", "error"}
          /\ meta'.reason = "C" => marker
      BY <1>0, <2>0, <2>5, FirstPublication
    <3>2. QED BY <2>2, <2>5, <3>1 DEF WorkerStep
  <2>6. QED BY <1>7, <2>3, <2>4, <2>5 DEF run_supervisor
<1>8. CASE read_root_control
  <2>0. worker.at = "loop" /\ UNCHANGED <<outbox, meta, marker, source>>
    BY <1>8 DEF read_root_control, InLoop, recordVars
  <2>1. CASE inbox # <<>> /\ inbox' = Tail(inbox) /\ worker' = ControlByte(worker, Head(inbox))
    <3>1. worker \in WorkerType /\ Head(inbox) \in Causes \cup {"S"}
      BY <1>0, <2>0, <2>1, HeadOfInbox
    <3>2. inbox' \in Seq(Bytes)
      BY <1>0, <2>1, HeadOfInbox
    <3>3. ASSUME worker'.at = "loop" PROVE Wire'
      <4>1. inbox' = Tail(inbox) /\ inbox # <<>>
        BY <2>1
      <4>2. QED BY <1>0, <1>1, <2>0, <3>3, <4>1, HeadOfInbox DEF Wire, Silent
    <3>4. CASE Head(inbox) = "S"
      <4>1. worker' = [worker EXCEPT !.granted = TRUE]
        BY <2>1, <3>4 DEF ControlByte
      <4>2. root.settled
        BY <1>0, <2>1, <3>4, HeadOfInbox DEF Wire
      <4>3. worker' \in WorkerType /\ worker'.at = "loop"
        BY <2>0, <3>1, <4>1 DEF WorkerType
      <4>4. Publication'
        BY <1>0, <1>1, <2>0, <4>1, <4>2 DEF Publication, WorkerType
      <4>5. Cause'
        BY <1>0, <2>0, <4>1 DEF Cause, Silent, Causes, WorkerType
      <4>6. QED BY <1>0, <2>0, <3>2, <3>3, <4>3, <4>4, <4>5
    <3>5. CASE Head(inbox) # "S"
      <4>1. PICK b \in Causes : worker' = Told(request_cancellation(worker, b), b)
        BY <2>1, <3>1, <3>5 DEF ControlByte
      <4>2. Heard(worker, b, worker')
        BY <3>1, <4>1, CauseRead
      <4>3. Publication'
        BY <1>0, <1>1, <2>0, <4>2 DEF Publication, WorkerType, Heard
      <4>4. Cause'
        <5>1. worker.recorded \/ meta.reason = "none"
          BY <1>0, <2>0 DEF Publication
        <5>2. QED BY <1>0, <2>0, <4>2, <5>1 DEF Cause, Silent, Causes, Heard
      <4>5. worker'.at = "loop" /\ worker' \in WorkerType
        BY <2>0, <4>2 DEF Heard
      <4>6. QED BY <1>0, <2>0, <3>2, <3>3, <4>3, <4>4, <4>5
    <3>6. QED BY <3>4, <3>5
  <2>2. CASE Eof /\ UNCHANGED inbox /\ worker' = Lost(worker)
    <3>1. worker \in WorkerType
      BY <1>0
    <3>2. /\ worker' \in WorkerType /\ worker'.at = worker.at
          /\ worker'.told = worker.told /\ worker'.launched = worker.launched
          /\ worker'.ready = worker.ready /\ worker'.recorded = worker.recorded
          /\ worker'.cause # "none"
          /\ worker'.cause \in {worker.cause, "F"} \/ (worker'.cause = "C" /\ marker)
          /\ worker'.cause = "F" => worker.cause \in {"none", "F"}
      <4>1. PICK v : v = Lost(worker)
        OBVIOUS
      <4>2. /\ v \in WorkerType /\ v.at = worker.at
            /\ v.told = worker.told /\ v.launched = worker.launched
            /\ v.ready = worker.ready /\ v.recorded = worker.recorded
            /\ v.cause # "none"
            /\ v.cause \in {worker.cause, "F"} \/ (v.cause = "C" /\ marker)
            /\ v.cause = "F" => worker.cause \in {"none", "F"}
        BY <3>1, <4>1, LostRoot, ZenonT(60)
      <4>3. worker' = v
        BY <2>2, <4>1
      <4>4. QED BY <4>2, <4>3
    <3>3. ~root.alive /\ UNCHANGED inbox
      BY <2>2 DEF Eof
    <3>4. Wire'
      BY <1>0, <1>1, <2>0, <3>2, <3>3 DEF Wire, Silent
    <3>5. Publication'
      BY <1>0, <1>1, <2>0, <3>2, <3>3 DEF Publication, WorkerType
    <3>6. Cause'
      BY <1>0, <2>0, <3>2 DEF Cause, Silent, Causes
    <3>7. QED BY <1>0, <2>0, <3>2, <3>3, <3>4, <3>5, <3>6
  <2>3. QED BY <1>8, <2>1, <2>2 DEF read_root_control
<1>9. CASE check_explicit_cancel
  <2>1. worker' \in WorkerType /\ worker.at # "none" /\ worker'.at # "none"
    BY <1>0, <1>9, Requested
       DEF check_explicit_cancel, WorkerStep, Fault, restOfWorker, clientVars, wireVars,
           recordVars, InLoop, WorkerType, Causes
  <2>2. inbox' \in Seq(Bytes) /\ outbox' \subseteq {"P", "R", "T"}
    BY <1>0, <1>9, Requested
       DEF check_explicit_cancel, WorkerStep, Fault, restOfWorker, clientVars, wireVars,
           recordVars, InLoop
  <2>3. /\ meta' \in MetaType /\ marker' \in BOOLEAN /\ source' \in BOOLEAN
        /\ meta'.reason = "preaccept" => meta.reason = "preaccept"
    BY <1>0, <1>9
       DEF check_explicit_cancel, WorkerStep, Fault, restOfWorker, clientVars, wireVars,
           recordVars, InLoop, MetaType, Causes, Publication, WorkerType
  <2>4. Wire'
    BY <1>0, <1>1, <1>9, Requested
       DEF check_explicit_cancel, WorkerStep, Fault, restOfWorker, clientVars, wireVars,
           recordVars, InLoop, Wire, Silent, RootType, WorkerType, Causes
  <2>5. Publication'
    BY <1>0, <1>1, <1>9, Requested
       DEF check_explicit_cancel, WorkerStep, Fault, restOfWorker, clientVars, wireVars,
           recordVars, InLoop, Publication, RootType, WorkerType, MetaType, Causes
  <2>6. Cause'
    BY <1>0, <1>1, <1>9, Requested
       DEF check_explicit_cancel, WorkerStep, Fault, restOfWorker, clientVars, wireVars,
           recordVars, InLoop, Cause, Silent, Causes, Publication, WorkerType, MetaType
  <2>7. QED BY <2>1, <2>2, <2>3, <2>4, <2>5, <2>6
<1>10. CASE retry_deferred_ready
  <2>00. PICK w : w = [worker EXCEPT !.ready = FALSE]
    OBVIOUS
  <2>0. /\ w \in WorkerType /\ w.ready = FALSE
        /\ w.at = "loop" /\ w.cause = worker.cause /\ w.told = worker.told
        /\ w.launched = worker.launched /\ w.fd = worker.fd /\ w.granted = worker.granted
        /\ w.recorded = worker.recorded /\ w.error = worker.error
        /\ worker.at = "loop" /\ worker.recorded = FALSE /\ meta.reason = "none"
        /\ worker.granted = TRUE /\ UNCHANGED <<inbox, marker>> /\ PublishReady(w)
    BY <1>0, <1>10, <2>00 DEF retry_deferred_ready, InLoop, WorkerType, Publication
  <2>1. CASE marker = TRUE /\ UNCHANGED <<meta, source, outbox>>
             /\ worker' = request_cancellation(w, "C")
    <3>1. UNCHANGED <<meta, source, outbox>> /\ worker' = request_cancellation(w, "C")
      BY <2>1
    <3>2. QED
      <4>1. "C" \in Causes
        BY DEF Causes
      <4>2. worker' \in WorkerType /\ worker'.at = "loop"
        BY <1>0, <2>0, <3>1, <4>1, Requested
      <4>3. Wire'
        BY <1>0, <1>1, <2>0, <3>1, <4>2 DEF Wire, Silent
      <4>4. Publication'
        BY <1>0, <1>1, <2>0, <3>1, <4>1, <4>2, Requested DEF Publication, WorkerType
      <4>5. Cause'
        <5>1. /\ worker'.told = worker.told /\ worker'.cause # "none"
              /\ worker'.recorded = worker.recorded
              /\ worker'.cause \in {worker.cause, "C"}
              /\ worker'.cause # "F"
          BY <1>0, <2>0, <3>1, <4>1, Requested
        <5>2. marker = TRUE
          BY <2>0, <2>1
        <5>3. UNCHANGED <<meta, marker>>
          BY <2>0, <3>1
        <5>4. QED BY <1>0, <2>0, <4>2, <5>1, <5>2, <5>3 DEF Cause, Silent, Causes
      <4>6. QED BY <1>0, <2>0, <3>1, <4>2, <4>3, <4>4, <4>5
  <2>2. CASE marker = FALSE /\ meta' \in MetaType /\ meta'.reason = "ready"
             /\ source' = env.v2 /\ Integrate(w)
    <3>1. QED
      <4>1. worker' \in WorkerType /\ worker'.at = "loop"
        BY <1>0, <2>0, <2>2, Integrated
      <4>2. outbox' \in {outbox, outbox \cup {"T"}}
        BY <1>0, <2>0, <2>2, Integrated
      <4>3. Wire'
        BY <1>0, <1>1, <2>0, <2>2, <4>1, <4>2 DEF Wire, Silent
      <4>4. Publication'
        BY <1>0, <1>1, <2>0, <2>2, <4>1, <4>2, Integrated DEF Publication, WorkerType
      <4>5. Cause'
        BY <1>0, <2>0, <2>2, <4>1, Integrated DEF Cause, Silent, Causes
      <4>6. QED BY <1>0, <2>0, <2>2, <4>1, <4>2, <4>3, <4>4, <4>5
  <2>3. QED BY <1>0, <2>0, <2>1, <2>2, ReadyPublished
<1>11. CASE maybe_finish
  <2>0. /\ worker.at = "loop" /\ worker.recorded = FALSE /\ meta.reason = "none"
        /\ UNCHANGED <<inbox, marker>>
    BY <1>0, <1>11 DEF maybe_finish, FinishExit, InLoop, WorkerType, Publication, recordVars
  <2>1. CASE announce_root_local_ready(worker) /\ UNCHANGED <<meta, source>>
    <3>1. worker' \in WorkerType /\ worker'.at = "loop"
      BY <1>0, <2>0, <2>1, Announced
    <3>2. outbox' \in {outbox, outbox \cup {"R"}}
      BY <1>0, <2>0, <2>1, Announced
    <3>3. Wire'
      BY <1>0, <1>1, <2>0, <2>1, <3>1, <3>2 DEF Wire, Silent
    <3>4. Publication'
      BY <1>0, <1>1, <2>0, <2>1, <3>1, <3>2, Announced DEF Publication, WorkerType
    <3>5. Cause'
      BY <1>0, <2>0, <2>1, <3>1, Announced DEF Cause, Silent, Causes
    <3>6. QED BY <1>0, <2>0, <2>1, <3>1, <3>2, <3>3, <3>4, <3>5
  <2>2. CASE FinishExit
    <3>1. PICK reason : reason = FinishReason
      OBVIOUS
    <3>2. /\ reason \in Causes \cup {"error", "exit"}
          /\ reason \in Causes => reason = worker.cause
      BY <1>0, <3>1 DEF FinishReason, WorkerType, Causes, Loss
    <3>3. /\ meta' \in MetaType /\ meta'.reason = IF marker THEN "C" ELSE reason
      BY <1>0, <2>0, <2>2, <3>1, <3>2, FirstPublication DEF FinishExit
    <3>4. worker.granted = TRUE /\ worker.ready = FALSE
      BY <1>0, <2>2 DEF FinishExit, WorkerType
    <3>5. meta'.reason \notin {"none", "preaccept"}
      BY <3>2, <3>3 DEF Causes
    <3>6. CASE source' = env.v2 /\ Integrate(worker)
      <4>1. worker' \in WorkerType /\ worker'.at = "loop"
        BY <1>0, <2>0, <3>2, <3>3, <3>4, <3>5, <3>6, Integrated
      <4>2. outbox' \in {outbox, outbox \cup {"T"}}
        BY <1>0, <2>0, <3>2, <3>3, <3>4, <3>5, <3>6, Integrated
      <4>3. Wire'
        BY <1>0, <1>1, <2>0, <3>2, <3>3, <3>4, <3>5, <3>6, <4>1, <4>2 DEF Wire, Silent
      <4>4. Publication'
        BY <1>0, <1>1, <2>0, <3>2, <3>3, <3>4, <3>5, <3>6, <4>1, <4>2,
           Integrated DEF Publication, WorkerType
      <4>5. Cause'
        BY <1>0, <2>0, <3>2, <3>3, <3>4, <3>5, <3>6, <4>1, Integrated DEF Cause, Silent, Causes
      <4>6. QED BY <1>0, <2>0, <3>2, <3>3, <3>4, <3>5, <3>6, <4>1, <4>2, <4>3, <4>4, <4>5
    <3>7. CASE UNCHANGED <<source, outbox>> /\ worker' = [worker EXCEPT !.at = "exit"]
      <4>1. Wire'
        BY <1>0, <1>1, <2>0, <3>7 DEF Wire, Silent, WorkerType
      <4>2. Publication'
        BY <1>0, <1>1, <2>0, <3>4, <3>5, <3>7 DEF Publication, WorkerType
      <4>3. Cause'
        BY <1>0, <2>0, <3>2, <3>3, <3>7 DEF Cause, Silent, Causes, WorkerType
      <4>4. QED BY <1>0, <2>0, <3>3, <3>5, <3>7, <4>1, <4>2, <4>3 DEF WorkerType
    <3>8. QED BY <2>2, <3>6, <3>7 DEF FinishExit, WorkerStep
  <2>3. QED BY <1>11, <2>1, <2>2 DEF maybe_finish, recordVars
<1>12. CASE should_exit
  <2>1. worker' \in WorkerType /\ worker.at # "none" /\ worker'.at # "none"
    BY <1>0, <1>12
       DEF should_exit, WorkerStep, Fault, restOfWorker, clientVars, wireVars, recordVars,
           InLoop, WorkerType, Causes
  <2>2. inbox' \in Seq(Bytes) /\ outbox' \subseteq {"P", "R", "T"}
    BY <1>0, <1>12
       DEF should_exit, WorkerStep, Fault, restOfWorker, clientVars, wireVars, recordVars,
           InLoop
  <2>3. /\ meta' \in MetaType /\ marker' \in BOOLEAN /\ source' \in BOOLEAN
        /\ meta'.reason = "preaccept" => meta.reason = "preaccept"
    BY <1>0, <1>12
       DEF should_exit, WorkerStep, Fault, restOfWorker, clientVars, wireVars, recordVars,
           InLoop, MetaType, Causes, Publication, WorkerType
  <2>4. Wire'
    BY <1>0, <1>1, <1>12
       DEF should_exit, WorkerStep, Fault, restOfWorker, clientVars, wireVars, recordVars,
           InLoop, Wire, Silent, RootType, WorkerType
  <2>5. Publication'
    BY <1>0, <1>1, <1>12
       DEF should_exit, WorkerStep, Fault, restOfWorker, clientVars, wireVars, recordVars,
           InLoop, Publication, RootType, WorkerType, MetaType
  <2>6. Cause'
    BY <1>0, <1>1, <1>12
       DEF should_exit, WorkerStep, Fault, restOfWorker, clientVars, wireVars, recordVars,
           InLoop, Cause, Silent, Causes, Publication, WorkerType, MetaType
  <2>7. QED BY <2>1, <2>2, <2>3, <2>4, <2>5, <2>6
<1>13. CASE TreeEmpties
  <2>1. worker' \in WorkerType /\ worker.at # "none" /\ worker'.at # "none"
    BY <1>0, <1>13
       DEF TreeEmpties, WorkerStep, Fault, restOfWorker, clientVars, wireVars, recordVars,
           InLoop, WorkerType, Causes
  <2>2. inbox' \in Seq(Bytes) /\ outbox' \subseteq {"P", "R", "T"}
    BY <1>0, <1>13
       DEF TreeEmpties, WorkerStep, Fault, restOfWorker, clientVars, wireVars, recordVars,
           InLoop
  <2>3. /\ meta' \in MetaType /\ marker' \in BOOLEAN /\ source' \in BOOLEAN
        /\ meta'.reason = "preaccept" => meta.reason = "preaccept"
    BY <1>0, <1>13
       DEF TreeEmpties, WorkerStep, Fault, restOfWorker, clientVars, wireVars, recordVars,
           InLoop, MetaType, Causes, Publication, WorkerType
  <2>4. Wire'
    BY <1>0, <1>1, <1>13
       DEF TreeEmpties, WorkerStep, Fault, restOfWorker, clientVars, wireVars, recordVars,
           InLoop, Wire, Silent, RootType, WorkerType
  <2>5. Publication'
    BY <1>0, <1>1, <1>13
       DEF TreeEmpties, WorkerStep, Fault, restOfWorker, clientVars, wireVars, recordVars,
           InLoop, Publication, RootType, WorkerType, MetaType
  <2>6. Cause'
    BY <1>0, <1>1, <1>13
       DEF TreeEmpties, WorkerStep, Fault, restOfWorker, clientVars, wireVars, recordVars,
           InLoop, Cause, Silent, Causes, Publication, WorkerType, MetaType
  <2>7. QED BY <2>1, <2>2, <2>3, <2>4, <2>5, <2>6
<1>14. CASE record_ready_sentinel
  <2>1. /\ worker.at = "loop" /\ worker.recorded = FALSE /\ meta.reason = "none"
        /\ worker.ready = FALSE /\ UNCHANGED <<inbox, marker>>
    BY <1>0, <1>14 DEF record_ready_sentinel, InLoop, WorkerType, Publication
  <2>2. CASE worker.granted /\ PublishReady(worker)
    <3>0. worker.granted = TRUE
      BY <1>0, <2>2 DEF WorkerType
    <3>1. CASE /\ marker = TRUE /\ UNCHANGED <<meta, source, outbox>>
               /\ worker' = request_cancellation(worker, "C")
      <4>1. "C" \in Causes
        BY DEF Causes
      <4>2. worker' \in WorkerType /\ worker'.at = "loop"
        BY <1>0, <2>1, <3>1, <4>1, Requested
      <4>3. Wire'
        BY <1>0, <1>1, <2>1, <3>1, <4>2 DEF Wire, Silent
      <4>4. Publication'
        BY <1>0, <1>1, <2>1, <3>1, <4>1, <4>2, Requested DEF Publication, WorkerType
      <4>5. Cause'
        <5>1. /\ worker'.told = worker.told /\ worker'.cause # "none"
              /\ worker'.recorded = worker.recorded
              /\ worker'.cause \in {worker.cause, "C"}
              /\ worker'.cause # "F"
          BY <1>0, <2>1, <3>1, <4>1, Requested
        <5>2. marker = TRUE
          BY <2>1, <3>1
        <5>3. UNCHANGED <<meta, marker>>
          BY <2>1, <3>1
        <5>4. QED BY <1>0, <2>1, <4>2, <5>1, <5>2, <5>3 DEF Cause, Silent, Causes
      <4>6. QED BY <1>0, <2>1, <3>1, <4>2, <4>3, <4>4, <4>5
    <3>2. CASE /\ marker = FALSE /\ meta' \in MetaType /\ meta'.reason = "ready"
               /\ source' = env.v2 /\ Integrate(worker)
      <4>1. worker' \in WorkerType /\ worker'.at = "loop"
        BY <1>0, <2>1, <3>0, <3>2, Integrated
      <4>2. outbox' \in {outbox, outbox \cup {"T"}}
        BY <1>0, <2>1, <3>0, <3>2, Integrated
      <4>3. Wire'
        BY <1>0, <1>1, <2>1, <3>0, <3>2, <4>1, <4>2 DEF Wire, Silent
      <4>4. Publication'
        BY <1>0, <1>1, <2>1, <3>0, <3>2, <4>1, <4>2, Integrated DEF Publication, WorkerType
      <4>5. Cause'
        BY <1>0, <2>1, <3>0, <3>2, <4>1, Integrated DEF Cause, Silent, Causes
      <4>6. QED BY <1>0, <2>1, <3>0, <3>2, <4>1, <4>2, <4>3, <4>4, <4>5
    <3>3. QED BY <1>0, <2>1, <2>2, <3>1, <3>2, ReadyPublished
  <2>3. CASE /\ announce_root_local_ready([worker EXCEPT !.ready = TRUE])
             /\ UNCHANGED <<meta, source>>
    <3>1. PICK w : w = [worker EXCEPT !.ready = TRUE]
      OBVIOUS
    <3>2. /\ w \in WorkerType /\ announce_root_local_ready(w) /\ UNCHANGED <<meta, source>>
          /\ w.at = "loop" /\ w.cause = worker.cause /\ w.told = worker.told
          /\ w.launched = worker.launched /\ w.fd = worker.fd /\ w.granted = worker.granted
          /\ w.recorded = worker.recorded /\ w.error = worker.error
      BY <1>0, <2>1, <2>3, <3>1 DEF WorkerType
    <3>3. QED
      <4>1. worker' \in WorkerType /\ worker'.at = "loop"
        BY <1>0, <2>1, <3>2, Announced
      <4>2. outbox' \in {outbox, outbox \cup {"R"}}
        BY <1>0, <2>1, <3>2, Announced
      <4>3. Wire'
        BY <1>0, <1>1, <2>1, <3>2, <4>1, <4>2 DEF Wire, Silent
      <4>4. Publication'
        BY <1>0, <1>1, <2>1, <3>2, <4>1, <4>2, Announced DEF Publication, WorkerType
      <4>5. Cause'
        BY <1>0, <2>1, <3>2, <4>1, Announced DEF Cause, Silent, Causes
      <4>6. QED BY <1>0, <2>1, <3>2, <4>1, <4>2, <4>3, <4>4, <4>5
  <2>4. QED BY <1>14, <2>2, <2>3 DEF record_ready_sentinel
<1>15. CASE WorkerDies
  <2>1. worker' \in WorkerType /\ worker.at # "none" /\ worker'.at # "none"
    BY <1>0, <1>15
       DEF WorkerDies, WorkerStep, Fault, restOfWorker, clientVars, wireVars, recordVars,
           WorkerType, Causes
  <2>2. inbox' \in Seq(Bytes) /\ outbox' \subseteq {"P", "R", "T"}
    BY <1>0, <1>15
       DEF WorkerDies, WorkerStep, Fault, restOfWorker, clientVars, wireVars, recordVars
  <2>3. /\ meta' \in MetaType /\ marker' \in BOOLEAN /\ source' \in BOOLEAN
        /\ meta'.reason = "preaccept" => meta.reason = "preaccept"
    BY <1>0, <1>15
       DEF WorkerDies, WorkerStep, Fault, restOfWorker, clientVars, wireVars, recordVars,
           MetaType, Causes, Publication, WorkerType
  <2>4. Wire'
    BY <1>0, <1>1, <1>15
       DEF WorkerDies, WorkerStep, Fault, restOfWorker, clientVars, wireVars, recordVars,
           Wire, Silent, RootType, WorkerType
  <2>5. Publication'
    BY <1>0, <1>1, <1>15
       DEF WorkerDies, WorkerStep, Fault, restOfWorker, clientVars, wireVars, recordVars,
           Publication, RootType, WorkerType, MetaType
  <2>6. Cause'
    BY <1>0, <1>1, <1>15
       DEF WorkerDies, WorkerStep, Fault, restOfWorker, clientVars, wireVars, recordVars,
           Cause, Silent, Causes, Publication, WorkerType, MetaType
  <2>7. QED BY <2>1, <2>2, <2>3, <2>4, <2>5, <2>6
<1>16. CASE record_capture_failure
  <2>0. PICK w : w = [worker EXCEPT !.error = TRUE]
    OBVIOUS
  <2>1. /\ w \in WorkerType /\ w.at = "loop" /\ w.cause = worker.cause
        /\ w.told = worker.told /\ w.launched = worker.launched /\ w.fd = worker.fd
        /\ w.granted = worker.granted /\ w.recorded = worker.recorded
        /\ w.ready = worker.ready
    BY <1>0, <1>16, <2>0 DEF record_capture_failure, InLoop, WorkerType
  <2>2. /\ worker.at = "loop" /\ UNCHANGED <<inbox, outbox, meta, marker, source>>
        /\ worker' = request_cancellation(w, "X") /\ "X" \in Causes \cup {"X"}
    BY <1>16, <2>0 DEF record_capture_failure, InLoop, recordVars
  <2>3. /\ worker' \in WorkerType /\ worker'.at = w.at /\ worker'.told = w.told
        /\ worker'.launched = w.launched /\ worker'.ready = w.ready /\ worker'.fd = w.fd
        /\ worker'.granted = w.granted /\ worker'.recorded = w.recorded
        /\ worker'.cause # "none" /\ worker'.cause # "F"
        /\ worker'.cause \in {w.cause, "X"} \/ (worker'.cause = "C" /\ marker)
    <3>1. PICK v : v = request_cancellation(w, "X")
      OBVIOUS
    <3>2. /\ v \in WorkerType /\ v.at = w.at /\ v.told = w.told
          /\ v.launched = w.launched /\ v.ready = w.ready /\ v.fd = w.fd
          /\ v.granted = w.granted /\ v.recorded = w.recorded
          /\ v.cause # "none" /\ (v.cause = "F" => "X" = "F")
          /\ v.cause \in {w.cause, "X"} \/ (v.cause = "C" /\ marker)
      BY <2>1, <2>2, <3>1, Requested
    <3>3. QED BY <2>2, <3>1, <3>2
  <2>4. Wire'
    BY <1>0, <1>1, <2>1, <2>2, <2>3 DEF Wire, Silent
  <2>5. Publication'
    BY <1>0, <1>1, <2>1, <2>2, <2>3 DEF Publication
  <2>6. Cause'
    BY <1>0, <2>1, <2>2, <2>3 DEF Cause, Silent, Causes
  <2>7. QED BY <1>0, <2>1, <2>2, <2>3, <2>4, <2>5, <2>6
<1>17. QED BY <1>2, <1>3, <1>4, <1>5, <1>6, <1>7, <1>8, <1>9, <1>10, <1>11, <1>12, <1>13,
   <1>14, <1>15, <1>16 DEF WorkerActs

\* A worker's step keeps what it knows of what it has lost.
LEMMA WorkerLoss ==
    ASSUME Inv, WorkerActs
    PROVE  Loss'
<1>0. /\ TypeOK /\ Loss /\ Cause /\ Publication /\ Wire /\ worker \in WorkerType
  BY TypeParts DEF Inv
<1>1. CASE run_internal
  BY <1>0, <1>1 DEF run_internal, WorkerStep, Loss, WorkerType
<1>2. CASE run_root_worker
  BY <1>0, <1>2
     DEF run_root_worker, prepare_continuation, register, WorkerStep, Loss, WorkerType
<1>3. CASE await_root_execution_grant
  <2>0. worker.at \in {"prepared", "await"} /\ worker.error = FALSE /\ worker.fd = TRUE
        /\ worker.dropped = {}
    BY <1>0, <1>3 DEF await_root_execution_grant, Loss, WorkerType
  <2>1. worker'.error = FALSE /\ worker'.fd = TRUE /\ worker'.dropped = {}
    BY <1>0, <1>3, <2>0 DEF await_root_execution_grant, WorkerStep, Told, WorkerType
  <2>2. worker'.cause # "X"
    <3>1. CASE worker.at = "await" /\ inbox # <<>>
      <4>1. Head(inbox) # "X"
        BY <1>0, <3>1, HeadOfInbox DEF Causes
      <4>2. worker.cause # "X"
        BY <1>0, <2>0 DEF Loss
      <4>3. QED BY <1>0, <1>3, <3>1, <4>1, <4>2
               DEF await_root_execution_grant, WorkerStep, Told, WorkerType, Eof
    <3>2. CASE ~(worker.at = "await" /\ inbox # <<>>)
      BY <1>0, <1>3, <2>0, <3>2 DEF await_root_execution_grant, WorkerStep, WorkerType, Loss
    <3>3. QED BY <3>1, <3>2
  <2>3. QED BY <2>1, <2>2 DEF Loss
<1>4. CASE complete_without_launch
  BY <1>0, <1>4 DEF complete_without_launch, WorkerStep, Loss, WorkerType
<1>5. CASE root_terminal_handshake
  BY <1>0, <1>5 DEF root_terminal_handshake, WorkerStep, Loss, WorkerType
<1>6. CASE run_supervisor
  BY <1>0, <1>6 DEF run_supervisor, WorkerStep, Loss, WorkerType
<1>7. CASE read_root_control
  <2>0. worker.at = "loop" /\ worker.fd = TRUE /\ UNCHANGED outbox /\ worker.dropped = {}
    BY <1>0, <1>7 DEF read_root_control, InLoop, WorkerType, Loss
  <2>1. CASE inbox # <<>> /\ worker' = ControlByte(worker, Head(inbox))
    <3>1. Head(inbox) \in Causes \cup {"S"}
      BY <1>0, <2>0, <2>1, HeadOfInbox
    <3>2. CASE Head(inbox) = "S"
      <4>1. worker' = [worker EXCEPT !.granted = TRUE]
        BY <2>1, <3>2 DEF ControlByte
      <4>2. QED BY <1>0, <2>0, <4>1 DEF Loss, WorkerType
    <3>3. CASE Head(inbox) # "S"
      <4>1. PICK b \in Causes : worker' = Told(request_cancellation(worker, b), b)
        BY <2>1, <3>1, <3>3 DEF ControlByte
      <4>2. Heard(worker, b, worker')
        BY <1>0, <4>1, CauseRead
      <4>3. QED BY <1>0, <2>0, <4>2 DEF Heard, Loss, Causes
    <3>4. QED BY <3>2, <3>3
  <2>2. CASE Eof /\ worker' = Lost(worker)
    <3>1. PICK v : v = Lost(worker)
      OBVIOUS
    <3>2. /\ v.cause \in {worker.cause, "F"} \/ (v.cause = "C" /\ marker)
          /\ v.at = worker.at /\ v.fd = FALSE /\ v.error = worker.error
          /\ v.dropped = {inbox[i] : i \in DOMAIN inbox} \cap Causes
      BY <1>0, <3>1, LostRoot, ZenonT(60)
    <3>3. {inbox[i] : i \in DOMAIN inbox} \cap Causes = {}
      BY <2>2 DEF Eof
    <3>4. QED BY <1>0, <2>0, <2>2, <3>1, <3>2, <3>3 DEF Loss
  <2>3. QED BY <1>7, <2>1, <2>2 DEF read_root_control
<1>8. CASE check_explicit_cancel
  <2>1. PICK v : v = request_cancellation(worker, "C")
    OBVIOUS
  <2>2. "C" \in Causes \cup {"X"}
    BY DEF Causes
  <2>3. /\ v.cause \in {worker.cause, "C"} \/ (v.cause = "C" /\ marker)
        /\ v.at = worker.at /\ v.fd = worker.fd /\ v.error = worker.error
        /\ v.dropped = worker.dropped
    BY <1>0, <2>1, <2>2, Requested
  <2>4. worker' = v /\ outbox' = outbox
    BY <1>8, <2>1 DEF check_explicit_cancel
  <2>5. QED BY <1>0, <2>3, <2>4 DEF Loss
<1>9. ASSUME NEW w \in WorkerType, PublishReady(w), w.at = "loop", w.cause = worker.cause,
             w.fd = worker.fd, w.error = worker.error, w.dropped = worker.dropped
      PROVE  Loss'
  <2>1. CASE marker
    <3>1. PICK v : v = request_cancellation(w, "C")
      OBVIOUS
    <3>2. "C" \in Causes \cup {"X"}
      BY DEF Causes
    <3>3. /\ v.cause \in {w.cause, "C"} \/ (v.cause = "C" /\ marker)
          /\ v.at = w.at /\ v.fd = w.fd /\ v.error = w.error /\ v.dropped = w.dropped
      BY <1>9, <3>1, <3>2, Requested
    <3>4. worker' = v /\ outbox' = outbox
      BY <1>9, <2>1, <3>1 DEF PublishReady
    <3>5. QED BY <1>0, <1>9, <3>3, <3>4 DEF Loss
  <2>2. CASE ~marker
    <3>1. Integrate(w)
      BY <1>9, <2>2 DEF PublishReady
    <3>2. /\ worker'.at = w.at /\ worker'.error = w.error /\ worker'.cause = w.cause
          /\ worker'.dropped = w.dropped /\ (w.fd = FALSE => worker'.fd = FALSE)
          /\ outbox' \in {outbox, outbox \cup {"T"}}
      BY <1>9, <3>1, Integrated
    <3>3. w.fd \in BOOLEAN
      BY <1>9 DEF WorkerType
    <3>4. QED BY <1>0, <1>9, <3>2, <3>3 DEF Loss
  <2>3. QED BY <2>1, <2>2
<1>10. ASSUME NEW w \in WorkerType, announce_root_local_ready(w), w.at = "loop",
              w.cause = worker.cause, w.fd = worker.fd, w.error = worker.error,
              w.dropped = worker.dropped
       PROVE  Loss'
  <2>1. /\ worker'.at = "loop" /\ worker'.error = w.error
        /\ w.fd = FALSE => worker'.fd = FALSE /\ outbox' = outbox
        /\ \/ worker'.dropped = w.dropped /\ (w.fd = TRUE => worker'.fd = TRUE)
           \/ worker'.fd = FALSE /\ "R" \notin outbox'
        /\ worker'.cause \in {w.cause, "F", "C"}
    BY <1>10, Announced
  <2>2. w.fd \in BOOLEAN
    BY <1>10 DEF WorkerType
  <2>3. QED BY <1>0, <1>10, <2>1, <2>2 DEF Loss
<1>11. CASE retry_deferred_ready
  <2>1. PICK w : w = [worker EXCEPT !.ready = FALSE]
    OBVIOUS
  <2>2. /\ w \in WorkerType /\ w.at = "loop" /\ w.cause = worker.cause /\ w.fd = worker.fd
        /\ w.error = worker.error /\ w.dropped = worker.dropped /\ PublishReady(w)
    BY <1>0, <1>11, <2>1 DEF retry_deferred_ready, InLoop, WorkerType
  <2>3. QED BY <1>9, <2>2
<1>12. CASE record_ready_sentinel
  <2>1. CASE PublishReady(worker)
    BY <1>0, <1>9, <1>12, <2>1 DEF record_ready_sentinel, InLoop
  <2>2. CASE announce_root_local_ready([worker EXCEPT !.ready = TRUE])
    <3>1. PICK w : w = [worker EXCEPT !.ready = TRUE]
      OBVIOUS
    <3>2. /\ w \in WorkerType /\ w.at = "loop" /\ w.cause = worker.cause
          /\ w.fd = worker.fd /\ w.error = worker.error /\ w.dropped = worker.dropped
          /\ announce_root_local_ready(w)
      BY <1>0, <1>12, <2>2, <3>1 DEF record_ready_sentinel, InLoop, WorkerType
    <3>3. QED BY <1>10, <3>2
  <2>3. QED BY <1>12, <2>1, <2>2 DEF record_ready_sentinel
<1>13. CASE maybe_finish
  <2>1. CASE announce_root_local_ready(worker)
    BY <1>0, <1>10, <1>13, <2>1 DEF maybe_finish, FinishExit, InLoop
  <2>2. CASE FinishExit
    <3>1. CASE Integrate(worker)
      <4>1. /\ worker'.at = worker.at /\ worker'.error = worker.error
            /\ worker'.cause = worker.cause /\ worker'.dropped = worker.dropped
            /\ worker.fd = FALSE => worker'.fd = FALSE
            /\ outbox' \in {outbox, outbox \cup {"T"}}
        BY <1>0, <3>1, Integrated
      <4>2. worker.at = "loop" /\ worker.fd \in BOOLEAN
        BY <1>0, <2>2 DEF FinishExit, InLoop, WorkerType
      <4>3. QED BY <1>0, <4>1, <4>2 DEF Loss
    <3>2. CASE UNCHANGED outbox /\ WorkerStep("exit")
      BY <1>0, <3>2 DEF WorkerStep, Loss, WorkerType
    <3>3. QED BY <2>2, <3>1, <3>2 DEF FinishExit
  <2>3. QED BY <1>13, <2>1, <2>2 DEF maybe_finish
<1>14. CASE should_exit
  BY <1>0, <1>14 DEF should_exit, WorkerStep, Loss, WorkerType
<1>15. CASE TreeEmpties
  BY <1>0, <1>15 DEF TreeEmpties, Loss, WorkerType
<1>16. CASE record_capture_failure
  <2>1. PICK w : w = [worker EXCEPT !.error = TRUE]
    OBVIOUS
  <2>2. /\ w \in WorkerType /\ w.at = "loop" /\ w.error = TRUE /\ w.fd = worker.fd
        /\ w.dropped = worker.dropped
    BY <1>0, <1>16, <2>1 DEF record_capture_failure, InLoop, WorkerType
  <2>3. worker' = request_cancellation(w, "X") /\ outbox' = outbox /\ "X" \in Causes \cup {"X"}
    BY <1>16, <2>1 DEF record_capture_failure
  <2>4. PICK v : v = request_cancellation(w, "X")
    OBVIOUS
  <2>5. v.at = w.at /\ v.fd = w.fd /\ v.error = w.error /\ v.dropped = w.dropped
    BY <2>2, <2>3, <2>4, Requested
  <2>6. QED BY <1>0, <2>2, <2>3, <2>4, <2>5 DEF Loss
<1>17. CASE WorkerDies
  BY <1>0, <1>17 DEF WorkerDies, WorkerStep, Loss, WorkerType
<1>18. QED BY <1>1, <1>2, <1>3, <1>4, <1>5, <1>6, <1>7, <1>8, <1>11, <1>12, <1>13, <1>14,
   <1>15, <1>16, <1>17 DEF WorkerActs

\* A client's step keeps what is known of its submission.
LEMMA ClientSubmission ==
    ASSUME Inv, ClientActs
    PROVE  Submission'
<1>0. TypeOK /\ Submission /\ client \in ClientType /\ meta \in MetaType
  BY TypeParts DEF Inv
<1>00. UNCHANGED <<root, worker>>
  BY <1>0, ClientFrame
<1>1. CASE Select
  BY <1>1, <1>0, <1>00, PreacceptFrame
     DEF Select, ClientStep, Proceed, Fault, besidesClient, wireVars, workerVars,
         recordVars, Submission, Unsent, ClientType, MetaType
<1>2. CASE inherited_paired_session_ring
  BY <1>2, <1>0, <1>00, PreacceptFrame
     DEF inherited_paired_session_ring, ClientStep, Proceed, Fault, besidesClient, wireVars,
         workerVars, recordVars, Submission, Unsent, ClientType, MetaType
<1>3. CASE WalkRead
  BY <1>3, <1>0, <1>00, PreacceptFrame
     DEF WalkRead, ClientStep, Proceed, Fault, besidesClient, wireVars, workerVars,
         recordVars, Submission, Unsent, ClientType, MetaType
<1>4. CASE has_paired_custodian_ancestor
  BY <1>4, <1>0, <1>00, PreacceptFrame
     DEF has_paired_custodian_ancestor, ClientStep, Proceed, Fault, besidesClient, wireVars,
         workerVars, recordVars, Submission, Unsent, ClientType, MetaType
<1>5. CASE selected
  BY <1>5, <1>0, <1>00, PreacceptFrame
     DEF selected, ClientStep, Proceed, Fault, besidesClient, wireVars, workerVars,
         recordVars, Submission, Unsent, ClientType, MetaType
<1>6. CASE ReadGrant
  BY <1>6, <1>0, <1>00, PreacceptFrame
     DEF ReadGrant, ClientStep, Proceed, Fault, besidesClient, wireVars, workerVars,
         recordVars, Submission, Unsent, ClientType, MetaType
<1>7. CASE PersistIntent
  BY <1>7, <1>0, <1>00, PreacceptFrame
     DEF PersistIntent, ClientStep, Proceed, Fault, besidesClient, wireVars, workerVars,
         recordVars, Submission, Unsent, ClientType, MetaType
<1>8. CASE PinDescriptors
  BY <1>8, <1>0, <1>00, PreacceptFrame
     DEF PinDescriptors, ClientStep, Proceed, Fault, besidesClient, wireVars, workerVars,
         recordVars, Submission, Unsent, ClientType, MetaType
<1>9. CASE Connect
  BY <1>9, <1>0, <1>00, PreacceptFrame
     DEF Connect, ClientStep, Proceed, Fault, besidesClient, wireVars, workerVars,
         recordVars, Submission, Unsent, ClientType, MetaType
<1>10. CASE authenticate_control
  BY <1>10, <1>0, <1>00, PreacceptFrame
     DEF authenticate_control, ClientStep, Proceed, Fault, besidesClient, wireVars,
         workerVars, recordVars, host_observed_source_fails, Submission, Unsent, ClientType,
         MetaType
<1>11. CASE send_with_fds
  BY <1>11, <1>0, <1>00
     DEF send_with_fds, ClientStep, Proceed, Fault, besidesClient, wireVars, workerVars,
         recordVars, Submission, Unsent, ClientType, MetaType
<1>12. CASE HalfClose
  BY <1>12, <1>0, <1>00
     DEF HalfClose, ClientStep, Proceed, Fault, besidesClient, wireVars, workerVars,
         recordVars, Submission, Unsent, ClientType, MetaType
<1>13. CASE ReadResponse
  BY <1>13, <1>0, <1>00, PreacceptFrame
     DEF ReadResponse, ClientStep, Proceed, Fault, besidesClient, wireVars, workerVars,
         recordVars, Submission, Unsent, ClientType, MetaType, submit_response_disposition,
         validate_response, read_response
<1>14. CASE AncestorEnds
  BY <1>14, <1>0, <1>00
     DEF AncestorEnds, ClientStep, Proceed, Fault, besidesClient, wireVars, workerVars,
         recordVars, Submission, Unsent, ClientType, MetaType
<1>15. CASE ClientDies
  BY <1>15, <1>0, <1>00
     DEF ClientDies, ClientStep, Proceed, Fault, besidesClient, wireVars, workerVars,
         recordVars, Submission, Unsent, ClientType, MetaType, ClientReturned
<1>16. QED BY <1>1, <1>2, <1>3, <1>4, <1>5, <1>6, <1>7, <1>8, <1>9, <1>10, <1>11, <1>12,
   <1>13, <1>14, <1>15 DEF ClientActs, ClientNext

\* A client's step keeps what is known of its walk: no ancestor comes alive, and
\* the walk goes on from an ancestor that is no custodian.
LEMMA ClientWalk ==
    ASSUME Inv, ClientActs
    PROVE  Walk'
<1>0. TypeOK /\ Walk /\ client \in ClientType
  BY TypeParts DEF Inv
<1>00. UNCHANGED <<env, root>> /\ live' \subseteq live /\ Ancestry' = Ancestry
  BY <1>0, ClientFrame DEF Ancestry, Chain
<1>1. CASE Select
  BY <1>1, <1>0, <1>00, PreacceptFrame
     DEF Select, ClientStep, Proceed, Fault, besidesClient, wireVars, workerVars,
         recordVars, Walk, Passed, ClientType, required
<1>2. CASE inherited_paired_session_ring
  <2>1. CASE preaccept_failure
    BY <1>0, <1>00, <2>1, PreacceptFrame DEF Walk
  <2>2. CASE ~preaccept_failure
    <3>1. /\ client.at = "ring" /\ env.ring = "other"
          /\ client' = [client EXCEPT !.at = "walk", !.pid = ParentOf(0)]
          /\ UNCHANGED live
      BY <1>2, <2>2 DEF inherited_paired_session_ring, parse_session_ring_description,
                       besidesClient
    <3>2. PICK p : p = ParentOf(0)
      OBVIOUS
    <3>3. p \in Ancestry \cup {"init"} /\ Passed(p)
      BY <3>2, ParentKnown, ParentPassed
    <3>4. client'.at = "walk" /\ client'.pid = p
      BY <1>0, <3>1, <3>2 DEF ClientType
    <3>5. QED BY <1>0, <1>00, <3>1, <3>3, <3>4 DEF Walk, Passed, required
  <2>3. QED BY <2>1, <2>2
<1>3. CASE WalkRead
  <2>1. CASE preaccept_failure
    BY <1>0, <1>00, <2>1, PreacceptFrame DEF Walk
  <2>2. CASE ~preaccept_failure /\ client.pid = "init"
    <3>1. client.at = "walk" /\ client'.at = "route" /\ UNCHANGED live
      BY <1>0, <1>3, <2>2 DEF WalkRead, besidesClient, ClientType
    <3>2. QED BY <1>0, <1>00, <2>2, <3>1 DEF Walk, Passed, required
  <2>3. CASE ~preaccept_failure /\ client.pid # "init"
    <3>1. PICK p : p = ParentOf(IndexOf(client.pid))
      OBVIOUS
    <3>2. /\ client.at = "walk" /\ UNCHANGED live
          /\ client' = [client EXCEPT !.at = "examine", !.next = p]
      BY <1>0, <1>3, <2>3, <3>1 DEF WalkRead, besidesClient
    <3>3. client'.at = "examine" /\ client'.next = p /\ client'.pid = client.pid
      BY <1>0, <3>2 DEF ClientType
    <3>4. client.pid \in Ancestry
      BY <1>0, <2>3, <3>2 DEF Walk
    <3>5. p \in Ancestry \cup {"init"}
      BY <3>1, <3>4, ParentKnown, IndexKnown
    <3>6. client.pid = "shell" => Passed(p)
      BY <3>1, <3>4, IndexKnown, ParentPassed
    <3>7. QED BY <1>0, <1>00, <3>2, <3>3, <3>4, <3>5, <3>6 DEF Walk, Passed, required
  <2>4. QED BY <2>1, <2>2, <2>3
<1>4. CASE has_paired_custodian_ancestor
  <2>1. CASE preaccept_failure
    BY <1>0, <1>00, <2>1, PreacceptFrame DEF Walk
  <2>2. CASE ~preaccept_failure
    <3>1. /\ client.at = "examine" /\ UNCHANGED live /\ ~Custodian(client.pid)
          /\ client' = [client EXCEPT !.at = "walk", !.pid = client.next]
      BY <1>4, <2>2 DEF has_paired_custodian_ancestor, besidesClient
    <3>2. client'.at = "walk" /\ client'.pid = client.next
      BY <1>0, <3>1 DEF ClientType
    <3>3. client.pid = "shell"
      BY <1>0, <3>1, ChainShape DEF Walk, Custodian, ancestor_holds_guardian_socket
    <3>4. QED BY <1>0, <1>00, <3>1, <3>2, <3>3 DEF Walk, Passed, required
  <2>3. QED BY <2>1, <2>2
<1>5. CASE selected
  BY <1>5, <1>0, <1>00, PreacceptFrame
     DEF selected, ClientStep, Proceed, Fault, besidesClient, wireVars, workerVars,
         recordVars, Walk, Passed, ClientType, required
<1>6. CASE ReadGrant
  BY <1>6, <1>0, <1>00, PreacceptFrame
     DEF ReadGrant, ClientStep, Proceed, Fault, besidesClient, wireVars, workerVars,
         recordVars, Walk, Passed, ClientType, required
<1>7. CASE PersistIntent
  BY <1>7, <1>0, <1>00, PreacceptFrame
     DEF PersistIntent, ClientStep, Proceed, Fault, besidesClient, wireVars, workerVars,
         recordVars, Walk, Passed, ClientType, required
<1>8. CASE PinDescriptors
  BY <1>8, <1>0, <1>00, PreacceptFrame
     DEF PinDescriptors, ClientStep, Proceed, Fault, besidesClient, wireVars, workerVars,
         recordVars, Walk, Passed, ClientType, required
<1>9. CASE Connect
  BY <1>9, <1>0, <1>00, PreacceptFrame
     DEF Connect, ClientStep, Proceed, Fault, besidesClient, wireVars, workerVars,
         recordVars, Walk, Passed, ClientType, required
<1>10. CASE authenticate_control
  BY <1>10, <1>0, <1>00, PreacceptFrame
     DEF authenticate_control, ClientStep, Proceed, Fault, besidesClient, wireVars,
         workerVars, recordVars, host_observed_source_fails, Walk, Passed, ClientType,
         required
<1>11. CASE send_with_fds
  BY <1>11, <1>0, <1>00
     DEF send_with_fds, ClientStep, Proceed, Fault, besidesClient, wireVars, workerVars,
         recordVars, Walk, Passed, ClientType, required
<1>12. CASE HalfClose
  BY <1>12, <1>0, <1>00
     DEF HalfClose, ClientStep, Proceed, Fault, besidesClient, wireVars, workerVars,
         recordVars, Walk, Passed, ClientType, required
<1>13. CASE ReadResponse
  BY <1>13, <1>0, <1>00, PreacceptFrame
     DEF ReadResponse, ClientStep, Proceed, Fault, besidesClient, wireVars, workerVars,
         recordVars, Walk, Passed, ClientType, required, submit_response_disposition,
         validate_response
<1>14. CASE AncestorEnds
  <2>1. UNCHANGED client
    BY <1>14 DEF AncestorEnds
  <2>2. QED BY <1>0, <1>00, <2>1 DEF Walk, Passed, required
<1>15. CASE ClientDies
  BY <1>15, <1>0, <1>00
     DEF ClientDies, ClientStep, Proceed, Fault, besidesClient, wireVars, workerVars,
         recordVars, Walk, Passed, ClientType, required
<1>16. QED BY <1>1, <1>2, <1>3, <1>4, <1>5, <1>6, <1>7, <1>8, <1>9, <1>10, <1>11, <1>12,
   <1>13, <1>14, <1>15 DEF ClientActs, ClientNext

\* A client's step keeps the invariant.
LEMMA ClientKeeps ==
    ASSUME Inv, ClientActs
    PROVE  Inv'
<1>0. TypeOK /\ Submission /\ Wire /\ Publication /\ Cause /\ Loss /\ Walk
  BY DEF Inv
<1>1. /\ UNCHANGED <<env, root, inbox, outbox, worker, marker, source, canceller>>
      /\ live' \subseteq live /\ (Fault \/ UNCHANGED faults)
      /\ \/ meta' = meta
         \/ /\ meta.reason = "none" /\ client'.at = "failed"
            /\ meta' = [meta EXCEPT !.reason = "preaccept"]
  BY <1>0, ClientFrame
<1>2. TypeOK'
  <2>1. /\ faults' \in 0 .. MaxFaults /\ meta' \in MetaType
    BY <1>0, <1>1, TypeParts, FaultType DEF MetaType
  <2>2. QED BY <1>0, <1>1, <2>1, TypeParts, ClientTypeStep, ClientTypeIs
           DEF TypeOK, RootType, MetaType, Bytes
<1>3. Submission'
  BY ClientSubmission
<1>4. Wire' /\ Cause' /\ Loss'
  <2>1. Wire'
    BY <1>0, <1>1 DEF Wire
  <2>2. meta'.reason \in Causes => meta' = meta
    BY <1>0, <1>1, TypeParts DEF MetaType, Causes
  <2>3. QED BY <1>0, <1>1, <2>1, <2>2 DEF Cause, Loss
<1>5. Publication'
  <2>1. CASE meta' = meta
    BY <1>0, <1>1, <2>1 DEF Publication
  <2>2. CASE client'.at = "failed" /\ meta' = [meta EXCEPT !.reason = "preaccept"]
    <3>1. worker.at = "none" /\ meta'.reason = "preaccept"
      BY <1>0, <1>1, <1>3, <2>2, TypeParts DEF Submission, MetaType
    <3>2. QED BY <1>0, <1>1, <3>1 DEF Publication
  <2>3. QED BY <1>1, <2>1, <2>2
<1>6. Walk'
  BY ClientWalk
<1>7. QED BY <1>2, <1>3, <1>4, <1>5, <1>6 DEF Inv

\* A step of the root loses nothing: it starts a worker at most.
LEMMA RootLoss ==
    ASSUME Inv, RootActs
    PROVE  Loss'
<1>0. Loss /\ Submission /\ worker \in WorkerType /\ root \in RootType
  BY TypeParts DEF Inv
<1>1. outbox' = outbox
  BY RootFrame
<1>2. CASE RootAccepts
  <2>1. worker' = [worker EXCEPT !.at = "start"]
    BY <1>2 DEF RootAccepts
  <2>2. worker.at = "none"
    BY <1>0, <1>2 DEF RootAccepts, Submission, RootType
  <2>3. QED BY <1>0, <1>1, <2>1, <2>2 DEF Loss, WorkerType
<1>3. CASE UNCHANGED worker
  BY <1>0, <1>1, <1>3 DEF Loss
<1>4. QED BY <1>2, <1>3
         DEF RootActs, RootNext, RootRejects, RootReplies, RootDecides, RootSettles,
             RootCancels, RootFails, RootDies, workerVars

\* A step of the root keeps what is known of the submission, the socket, the
\* publication and the cause, and the root never comes alive again.
LEMMA RootKeeps ==
    ASSUME Inv, RootActs
    PROVE  /\ root' \in RootType /\ inbox' \in Seq(Bytes) /\ worker' \in WorkerType
           /\ request' \in {"none", "received", "accepted", "replied"}
           /\ reply' \in {"none", "accepted", "already_accepted_no_replay",
                         "rejected_preaccept", "other", "conflict"}
           /\ Submission' /\ Wire' /\ Publication' /\ Cause'
           /\ root'.alive => root.alive
<1>0. Submission /\ Wire /\ Publication /\ Cause
  BY DEF Inv
<1>1. UNCHANGED <<env, live, client, outbox, meta, marker, source, canceller>>
  BY RootFrame
<1>2. /\ root \in RootType /\ inbox \in Seq(Bytes) /\ worker \in WorkerType
      /\ request \in {"none", "received", "accepted", "replied"}
      /\ reply \in {"none", "accepted", "already_accepted_no_replay",
                    "rejected_preaccept", "other", "conflict"}
  BY TypeParts DEF Inv
<1>3. CASE RootRejects
  <2>0. root' \in RootType /\ worker' \in WorkerType
    BY <1>2, <1>3
       DEF RootRejects, RootReceipt, Fault, restOfRoot, clientVars, wireVars, workerVars,
           RootType
  <2>1. /\ inbox' \in Seq(Bytes)
        /\ request' \in {"none", "received", "accepted", "replied"}
        /\ reply' \in {"none", "accepted", "already_accepted_no_replay",
                      "rejected_preaccept", "other", "conflict"}
    BY <1>0, <1>2, <1>3
       DEF RootRejects, RootReceipt, Fault, restOfRoot, clientVars, wireVars, workerVars,
           RootType, Bytes, Causes
  <2>2. Submission'
    BY <1>0, <1>1, <1>2, <1>3
       DEF RootRejects, RootReceipt, Fault, restOfRoot, clientVars, wireVars, workerVars,
           Submission, RootType, Unsent, WorkerType
  <2>3. Wire'
    BY <1>0, <1>1, <1>2, <1>3
       DEF RootRejects, RootReceipt, Fault, restOfRoot, clientVars, wireVars, workerVars,
           Wire, Silent, RootType, Submission, WorkerType, Bytes, Causes
  <2>4. Publication'
    BY <1>0, <1>1, <1>2, <1>3
       DEF RootRejects, RootReceipt, Fault, restOfRoot, clientVars, wireVars, workerVars,
           Publication, RootType, Submission, WorkerType
  <2>5. Cause'
    BY <1>0, <1>1, <1>2, <1>3
       DEF RootRejects, RootReceipt, Fault, restOfRoot, clientVars, wireVars, workerVars,
           Cause, Silent, Submission, WorkerType
  <2>6. root'.alive => root.alive
    BY <1>2, <1>3
       DEF RootRejects, RootReceipt, Fault, restOfRoot, clientVars, wireVars, workerVars,
           RootType
  <2>7. QED BY <2>0, <2>1, <2>2, <2>3, <2>4, <2>5, <2>6
<1>4. CASE RootAccepts
  <2>0. root' \in RootType /\ worker' \in WorkerType
    BY <1>2, <1>4
       DEF RootAccepts, RootReceipt, Fault, restOfRoot, clientVars, wireVars, workerVars,
           RootType, WorkerType
  <2>1. /\ inbox' \in Seq(Bytes)
        /\ request' \in {"none", "received", "accepted", "replied"}
        /\ reply' \in {"none", "accepted", "already_accepted_no_replay",
                      "rejected_preaccept", "other", "conflict"}
    BY <1>0, <1>2, <1>4
       DEF RootAccepts, RootReceipt, Fault, restOfRoot, clientVars, wireVars, workerVars,
           RootType, Bytes, Causes
  <2>2. Submission'
    BY <1>0, <1>1, <1>2, <1>4
       DEF RootAccepts, RootReceipt, Fault, restOfRoot, clientVars, wireVars, workerVars,
           Submission, RootType, Unsent, WorkerType
  <2>3. Wire'
    BY <1>0, <1>1, <1>2, <1>4
       DEF RootAccepts, RootReceipt, Fault, restOfRoot, clientVars, wireVars, workerVars,
           Wire, Silent, RootType, Submission, WorkerType, Bytes, Causes
  <2>4. Publication'
    BY <1>0, <1>1, <1>2, <1>4
       DEF RootAccepts, RootReceipt, Fault, restOfRoot, clientVars, wireVars, workerVars,
           Publication, RootType, Submission, WorkerType
  <2>5. Cause'
    BY <1>0, <1>1, <1>2, <1>4
       DEF RootAccepts, RootReceipt, Fault, restOfRoot, clientVars, wireVars, workerVars,
           Cause, Silent, Submission, WorkerType
  <2>6. root'.alive => root.alive
    BY <1>2, <1>4
       DEF RootAccepts, RootReceipt, Fault, restOfRoot, clientVars, wireVars, workerVars,
           RootType
  <2>7. QED BY <2>0, <2>1, <2>2, <2>3, <2>4, <2>5, <2>6
<1>5. CASE RootReplies
  <2>0. root' \in RootType /\ worker' \in WorkerType
    BY <1>2, <1>5
       DEF RootReplies, RootReceipt, Fault, restOfRoot, clientVars, wireVars, workerVars,
           RootType
  <2>1. /\ inbox' \in Seq(Bytes)
        /\ request' \in {"none", "received", "accepted", "replied"}
        /\ reply' \in {"none", "accepted", "already_accepted_no_replay",
                      "rejected_preaccept", "other", "conflict"}
    BY <1>0, <1>2, <1>5
       DEF RootReplies, RootReceipt, Fault, restOfRoot, clientVars, wireVars, workerVars,
           RootType, Bytes, Causes
  <2>2. Submission'
    BY <1>0, <1>1, <1>2, <1>5
       DEF RootReplies, RootReceipt, Fault, restOfRoot, clientVars, wireVars, workerVars,
           Submission, RootType, Unsent, WorkerType
  <2>3. Wire'
    BY <1>0, <1>1, <1>2, <1>5
       DEF RootReplies, RootReceipt, Fault, restOfRoot, clientVars, wireVars, workerVars,
           Wire, Silent, RootType, Submission, WorkerType, Bytes, Causes
  <2>4. Publication'
    BY <1>0, <1>1, <1>2, <1>5
       DEF RootReplies, RootReceipt, Fault, restOfRoot, clientVars, wireVars, workerVars,
           Publication, RootType, Submission, WorkerType
  <2>5. Cause'
    BY <1>0, <1>1, <1>2, <1>5
       DEF RootReplies, RootReceipt, Fault, restOfRoot, clientVars, wireVars, workerVars,
           Cause, Silent, Submission, WorkerType
  <2>6. root'.alive => root.alive
    BY <1>2, <1>5
       DEF RootReplies, RootReceipt, Fault, restOfRoot, clientVars, wireVars, workerVars,
           RootType
  <2>7. QED BY <2>0, <2>1, <2>2, <2>3, <2>4, <2>5, <2>6
<1>6. CASE RootDecides
  <2>0. root' \in RootType /\ worker' \in WorkerType
    BY <1>2, <1>6
       DEF RootDecides, RootReceipt, Fault, restOfRoot, clientVars, wireVars, workerVars,
           RootType
  <2>1. /\ inbox' \in Seq(Bytes)
        /\ request' \in {"none", "received", "accepted", "replied"}
        /\ reply' \in {"none", "accepted", "already_accepted_no_replay",
                      "rejected_preaccept", "other", "conflict"}
    BY <1>0, <1>2, <1>6
       DEF RootDecides, RootReceipt, Fault, restOfRoot, clientVars, wireVars, workerVars,
           RootType, Bytes, Causes
  <2>2. Submission'
    BY <1>0, <1>1, <1>2, <1>6
       DEF RootDecides, RootReceipt, Fault, restOfRoot, clientVars, wireVars, workerVars,
           Submission, RootType, Unsent, WorkerType
  <2>3. Wire'
    BY <1>0, <1>1, <1>2, <1>6
       DEF RootDecides, RootReceipt, Fault, restOfRoot, clientVars, wireVars, workerVars,
           Wire, Silent, RootType, Submission, WorkerType, Bytes, Causes
  <2>4. Publication'
    BY <1>0, <1>1, <1>2, <1>6
       DEF RootDecides, RootReceipt, Fault, restOfRoot, clientVars, wireVars, workerVars,
           Publication, RootType, Submission, WorkerType
  <2>5. Cause'
    BY <1>0, <1>1, <1>2, <1>6
       DEF RootDecides, RootReceipt, Fault, restOfRoot, clientVars, wireVars, workerVars,
           Cause, Silent, Submission, WorkerType
  <2>6. root'.alive => root.alive
    BY <1>2, <1>6
       DEF RootDecides, RootReceipt, Fault, restOfRoot, clientVars, wireVars, workerVars,
           RootType
  <2>7. QED BY <2>0, <2>1, <2>2, <2>3, <2>4, <2>5, <2>6
<1>7. CASE RootSettles
  <2>0. root' \in RootType /\ worker' \in WorkerType
    BY <1>2, <1>7
       DEF RootSettles, RootReceipt, Fault, restOfRoot, clientVars, wireVars, workerVars,
           RootType
  <2>1. /\ inbox' \in Seq(Bytes)
        /\ request' \in {"none", "received", "accepted", "replied"}
        /\ reply' \in {"none", "accepted", "already_accepted_no_replay",
                      "rejected_preaccept", "other", "conflict"}
    BY <1>0, <1>2, <1>7
       DEF RootSettles, RootReceipt, Fault, restOfRoot, clientVars, wireVars, workerVars,
           RootType, Bytes, Causes
  <2>2. Submission'
    BY <1>0, <1>1, <1>2, <1>7
       DEF RootSettles, RootReceipt, Fault, restOfRoot, clientVars, wireVars, workerVars,
           Submission, RootType, Unsent, WorkerType
  <2>3. Wire'
    BY <1>0, <1>1, <1>2, <1>7
       DEF RootSettles, RootReceipt, Fault, restOfRoot, clientVars, wireVars, workerVars,
           Wire, Silent, RootType, Submission, WorkerType, Bytes, Causes
  <2>4. Publication'
    BY <1>0, <1>1, <1>2, <1>7
       DEF RootSettles, RootReceipt, Fault, restOfRoot, clientVars, wireVars, workerVars,
           Publication, RootType, Submission, WorkerType
  <2>5. Cause'
    BY <1>0, <1>1, <1>2, <1>7
       DEF RootSettles, RootReceipt, Fault, restOfRoot, clientVars, wireVars, workerVars,
           Cause, Silent, Submission, WorkerType
  <2>6. root'.alive => root.alive
    BY <1>2, <1>7
       DEF RootSettles, RootReceipt, Fault, restOfRoot, clientVars, wireVars, workerVars,
           RootType
  <2>7. QED BY <2>0, <2>1, <2>2, <2>3, <2>4, <2>5, <2>6
<1>8. CASE RootCancels
  <2>0. root' \in RootType /\ worker' \in WorkerType
    BY <1>2, <1>8
       DEF RootCancels, RootReceipt, Fault, restOfRoot, clientVars, wireVars, workerVars,
           RootType, Causes
  <2>1. /\ inbox' \in Seq(Bytes)
        /\ request' \in {"none", "received", "accepted", "replied"}
        /\ reply' \in {"none", "accepted", "already_accepted_no_replay",
                      "rejected_preaccept", "other", "conflict"}
    BY <1>0, <1>2, <1>8
       DEF RootCancels, RootReceipt, Fault, restOfRoot, clientVars, wireVars, workerVars,
           RootType, Bytes, Causes
  <2>2. Submission'
    BY <1>0, <1>1, <1>2, <1>8
       DEF RootCancels, RootReceipt, Fault, restOfRoot, clientVars, wireVars, workerVars,
           Submission, RootType, Unsent, WorkerType
  <2>3. Wire'
    BY <1>0, <1>1, <1>2, <1>8
       DEF RootCancels, RootReceipt, Fault, restOfRoot, clientVars, wireVars, workerVars,
           Wire, Silent, RootType, Submission, WorkerType, Bytes, Causes
  <2>4. Publication'
    BY <1>0, <1>1, <1>2, <1>8
       DEF RootCancels, RootReceipt, Fault, restOfRoot, clientVars, wireVars, workerVars,
           Publication, RootType, Submission, WorkerType
  <2>5. Cause'
    BY <1>0, <1>1, <1>2, <1>8
       DEF RootCancels, RootReceipt, Fault, restOfRoot, clientVars, wireVars, workerVars,
           Cause, Silent, Submission, WorkerType
  <2>6. root'.alive => root.alive
    BY <1>2, <1>8
       DEF RootCancels, RootReceipt, Fault, restOfRoot, clientVars, wireVars, workerVars,
           RootType
  <2>7. QED BY <2>0, <2>1, <2>2, <2>3, <2>4, <2>5, <2>6
<1>9. CASE RootFails
  <2>0. root' \in RootType /\ worker' \in WorkerType
    BY <1>2, <1>9
       DEF RootFails, RootReceipt, Fault, restOfRoot, clientVars, wireVars, workerVars,
           RootType
  <2>1. /\ inbox' \in Seq(Bytes)
        /\ request' \in {"none", "received", "accepted", "replied"}
        /\ reply' \in {"none", "accepted", "already_accepted_no_replay",
                      "rejected_preaccept", "other", "conflict"}
    BY <1>0, <1>2, <1>9
       DEF RootFails, RootReceipt, Fault, restOfRoot, clientVars, wireVars, workerVars,
           RootType, Bytes, Causes
  <2>2. Submission'
    BY <1>0, <1>1, <1>2, <1>9
       DEF RootFails, RootReceipt, Fault, restOfRoot, clientVars, wireVars, workerVars,
           Submission, RootType, Unsent, WorkerType
  <2>3. Wire'
    BY <1>0, <1>1, <1>2, <1>9
       DEF RootFails, RootReceipt, Fault, restOfRoot, clientVars, wireVars, workerVars, Wire,
           Silent, RootType, Submission, WorkerType, Bytes, Causes
  <2>4. Publication'
    BY <1>0, <1>1, <1>2, <1>9
       DEF RootFails, RootReceipt, Fault, restOfRoot, clientVars, wireVars, workerVars,
           Publication, RootType, Submission, WorkerType
  <2>5. Cause'
    BY <1>0, <1>1, <1>2, <1>9
       DEF RootFails, RootReceipt, Fault, restOfRoot, clientVars, wireVars, workerVars, Cause,
           Silent, Submission, WorkerType
  <2>6. root'.alive => root.alive
    BY <1>2, <1>9
       DEF RootFails, RootReceipt, Fault, restOfRoot, clientVars, wireVars, workerVars,
           RootType
  <2>7. QED BY <2>0, <2>1, <2>2, <2>3, <2>4, <2>5, <2>6
<1>10. CASE RootDies
  <2>0. root' \in RootType /\ worker' \in WorkerType
    BY <1>2, <1>10
       DEF RootDies, RootReceipt, Fault, restOfRoot, clientVars, wireVars, workerVars,
           RootType
  <2>1. /\ inbox' \in Seq(Bytes)
        /\ request' \in {"none", "received", "accepted", "replied"}
        /\ reply' \in {"none", "accepted", "already_accepted_no_replay",
                      "rejected_preaccept", "other", "conflict"}
    BY <1>0, <1>2, <1>10
       DEF RootDies, RootReceipt, Fault, restOfRoot, clientVars, wireVars, workerVars,
           RootType, Bytes, Causes
  <2>2. Submission'
    BY <1>0, <1>1, <1>2, <1>10
       DEF RootDies, RootReceipt, Fault, restOfRoot, clientVars, wireVars, workerVars,
           Submission, RootType, Unsent, WorkerType
  <2>3. Wire'
    BY <1>0, <1>1, <1>2, <1>10
       DEF RootDies, RootReceipt, Fault, restOfRoot, clientVars, wireVars, workerVars, Wire,
           Silent, RootType, Submission, WorkerType, Bytes, Causes
  <2>4. Publication'
    BY <1>0, <1>1, <1>2, <1>10
       DEF RootDies, RootReceipt, Fault, restOfRoot, clientVars, wireVars, workerVars,
           Publication, RootType, Submission, WorkerType
  <2>5. Cause'
    BY <1>0, <1>1, <1>2, <1>10
       DEF RootDies, RootReceipt, Fault, restOfRoot, clientVars, wireVars, workerVars, Cause,
           Silent, Submission, WorkerType
  <2>6. root'.alive => root.alive
    BY <1>2, <1>10
       DEF RootDies, RootReceipt, Fault, restOfRoot, clientVars, wireVars, workerVars,
           RootType
  <2>7. QED BY <2>0, <2>1, <2>2, <2>3, <2>4, <2>5, <2>6
<1>11. QED BY <1>3, <1>4, <1>5, <1>6, <1>7, <1>8, <1>9, <1>10 DEF RootActs, RootNext

\* A step of the cancel command keeps the invariant.
LEMMA CancelKeeps ==
    ASSUME Inv, CancelActs
    PROVE  Inv'
<1>0. TypeOK /\ Submission /\ Wire /\ Publication /\ Cause /\ Loss /\ Walk
  BY DEF Inv
<1>1. UNCHANGED <<env, live, client, request, reply, worker, outbox, meta, source, faults>>
  BY CancelFrame
<1>2. /\ root \in RootType /\ inbox \in Seq(Bytes) /\ marker \in BOOLEAN
      /\ canceller \in {"idle", "root", "prewire", "wire", "local", "done"}
  BY <1>0, TypeParts
<1>3. /\ canceller' \in {"idle", "root", "prewire", "wire", "local", "done"}
      /\ \/ UNCHANGED <<root, inbox, marker>>
         \/ /\ UNCHANGED marker /\ root' = [root EXCEPT !.receipt = "C"]
            /\ inbox' = IF root.decided THEN Append(inbox, "C") ELSE inbox
         \/ UNCHANGED <<root, inbox>> /\ marker' = TRUE
  <2>1. CASE cancel_command
    BY <2>1, <1>2
       DEF cancel_command, RootReceipt, restOfCancel, clientVars, wireVars, workerVars
  <2>2. CASE cancel_initiate
    BY <2>2, <1>2
       DEF cancel_initiate, RootReceipt, restOfCancel, clientVars, wireVars, workerVars
  <2>3. CASE cancel_prewire
    BY <2>3, <1>2
       DEF cancel_prewire, RootReceipt, restOfCancel, clientVars, wireVars, workerVars
  <2>4. CASE cancel_wire
    BY <2>4, <1>2 DEF cancel_wire, RootReceipt, restOfCancel, clientVars, wireVars, workerVars
  <2>5. CASE request_cancel
    BY <2>5, <1>2
       DEF request_cancel, RootReceipt, restOfCancel, clientVars, wireVars, workerVars
  <2>6. QED BY <2>1, <2>2, <2>3, <2>4, <2>5 DEF CancelActs
<1>4. CASE UNCHANGED <<root, inbox, marker>>
  <2>1. TypeOK'
    BY <1>0, <1>1, <1>3, <1>4 DEF TypeOK
  <2>2. QED BY <1>0, <1>1, <1>4, <2>1
           DEF Inv, Submission, Wire, Publication, Cause, Loss, Walk, Passed, Ancestry, required
<1>5. CASE UNCHANGED <<root, inbox>> /\ marker' = TRUE
  <2>1. TypeOK'
    BY <1>0, <1>1, <1>3, <1>5 DEF TypeOK
  <2>2. Submission' /\ Wire' /\ Publication' /\ Walk'
    BY <1>0, <1>1, <1>5
       DEF Submission, Wire, Publication, Walk, Passed, Ancestry, required
  <2>3. Cause' /\ Loss'
    BY <1>0, <1>1, <1>5 DEF Cause, Loss
  <2>4. QED BY <2>1, <2>2, <2>3 DEF Inv
<1>6. CASE /\ UNCHANGED marker /\ root' = [root EXCEPT !.receipt = "C"]
           /\ inbox' = IF root.decided THEN Append(inbox, "C") ELSE inbox
  <2>1. /\ root' \in RootType /\ root'.alive = root.alive /\ root'.accepted = root.accepted
        /\ root'.decided = root.decided /\ root'.settled = root.settled
    BY <1>2, <1>6 DEF RootType, Causes
  <2>2. inbox' \in Seq(Bytes)
    BY <1>2, <1>6 DEF Bytes, Causes
  <2>3. TypeOK'
    BY <1>0, <1>1, <1>3, <1>6, <2>1, <2>2 DEF TypeOK, RootType, Bytes
  <2>4. Submission' /\ Publication' /\ Cause' /\ Loss'
    BY <1>0, <1>1, <1>6, <2>1 DEF Submission, Publication, Cause, Loss
  <2>5. Walk'
    BY <1>0, <1>1, <2>1 DEF Walk, Passed, Ancestry, required
  <2>6. Wire'
    BY <1>0, <1>1, <1>2, <1>6, <2>1 DEF Wire, Silent, Bytes, Causes
  <2>7. QED BY <2>3, <2>4, <2>5, <2>6 DEF Inv
<1>7. QED BY <1>3, <1>4, <1>5, <1>6

\* The invariant holds at first.
LEMMA InitInv ==
    ASSUME Init
    PROVE  Inv
<1>1. TypeOK
  <2>1. /\ client \in ClientType /\ root \in RootType /\ meta \in MetaType
        /\ inbox \in Seq(Bytes) /\ faults \in 0 .. MaxFaults
    BY RootWorkAssumption DEF Init, ClientType, RootType, MetaType, Unsent
  <2>2. worker \in WorkerType
    BY DEF Init, WorkerType
  <2>3. QED BY <2>1, <2>2, TypeParts DEF Init
<1>2. Submission /\ Wire /\ Publication /\ Cause /\ Loss /\ Walk
  BY DEF Init, Submission, Wire, Publication, Cause, Loss, Causes, Walk, Unsent, Silent
<1>3. QED BY <1>1, <1>2 DEF Inv

\* Every step keeps the invariant.
LEMMA NextInv ==
    ASSUME Inv, [Next]_vars
    PROVE  Inv'
<1>0. TypeOK /\ Submission /\ Wire /\ Publication /\ Cause /\ Loss /\ Walk
  BY DEF Inv
<1>1. CASE ClientActs
  BY <1>1, ClientKeeps
<1>2. CASE RootActs
  <2>1. /\ UNCHANGED <<env, live, client, outbox, meta, marker, source, canceller>>
        /\ faults' \in 0 .. MaxFaults
    BY <1>0, <1>2, RootFrame, FaultType, TypeParts
  <2>2. TypeOK'
    BY <1>0, <1>2, <2>1, RootKeeps DEF TypeOK, RootType, Bytes
  <2>3. Walk'
    BY <1>0, <1>2, <2>1, RootKeeps DEF Walk, Passed, Ancestry, required
  <2>4. QED BY <1>2, <2>2, <2>3, RootKeeps, RootLoss DEF Inv
<1>3. CASE WorkerActs
  <2>1. /\ UNCHANGED <<env, live, client, request, reply, root, canceller>>
        /\ faults' \in 0 .. MaxFaults
    BY <1>0, <1>3, WorkerFrame, FaultType, TypeParts
  <2>2. TypeOK'
    BY <1>0, <1>3, <2>1, WorkerKeeps DEF TypeOK, Bytes, MetaType
  <2>3. Submission'
    BY <1>0, <1>3, <2>1, WorkerKeeps DEF Submission
  <2>4. Walk'
    BY <1>0, <2>1 DEF Walk, Passed, Ancestry, required
  <2>5. QED BY <1>3, <2>2, <2>3, <2>4, WorkerKeeps, WorkerLoss DEF Inv
<1>4. CASE CancelActs
  BY <1>4, CancelKeeps
<1>5. CASE UNCHANGED vars
  BY <1>0, <1>5 DEF vars, Inv, TypeOK, Submission, Wire, Publication, Cause, Loss, Walk,
                    Passed, Ancestry, required
<1>6. QED BY <1>1, <1>2, <1>3, <1>4, <1>5, NextCases

\* The invariant holds in every behaviour.
LEMMA WorkInvariant ==
    Spec => []Inv
<1>1. Init => Inv
  BY InitInv
<1>2. Inv /\ [Next]_vars => Inv'
  BY NextInv
<1>3. QED BY <1>1, <1>2, PTL DEF Spec

\* What the invariant says of the states of a work.
LEMMA InvImplies ==
    Inv => TypeOK /\ PreacceptIsTrue /\ CauseIsTrue /\ SettledFirst /\ ReceiptFollowsRecord
<1> SUFFICES ASSUME Inv
             PROVE  TypeOK /\ PreacceptIsTrue /\ CauseIsTrue /\ SettledFirst
                    /\ ReceiptFollowsRecord
  OBVIOUS
<1>0. TypeOK /\ Submission /\ Publication /\ Cause /\ Loss
  BY DEF Inv
<1>1. PreacceptIsTrue
  BY <1>0 DEF PreacceptIsTrue, Submission
<1>2. CauseIsTrue
  BY <1>0 DEF CauseIsTrue, Cause, Causes, Loss
<1>3. SettledFirst /\ ReceiptFollowsRecord
  BY <1>0 DEF SettledFirst, ReceiptFollowsRecord, Publication, terminal
<1>4. QED BY <1>0, <1>1, <1>2, <1>3

\* A standalone run leaves the last step of the selection, behind a walk that
\* has found every custodian dead.
LEMMA StandaloneStep ==
    ASSUME Inv, [Next]_vars, client'.at = "standalone", client.at # "standalone"
    PROVE  /\ env.grant = "absent" /\ env.marker = "absent" /\ env.ring = "other"
           /\ env.paired => "parent" \notin live /\ ~root.alive
<1>0. TypeOK /\ Walk /\ client \in ClientType /\ env \in EnvType
  BY TypeParts, RootWorkAssumption DEF Inv
<1>1. CASE ClientActs
  <2>1. client.at = "route" /\ ~required /\ env.grant = "absent"
    <3>1. CASE Select
      BY <3>1, <1>0, PreacceptFrame
         DEF Select, ClientStep, Proceed, Fault, besidesClient, wireVars, workerVars,
             recordVars, ClientType
    <3>2. CASE inherited_paired_session_ring
      BY <3>2, <1>0, PreacceptFrame
         DEF inherited_paired_session_ring, ClientStep, Proceed, Fault, besidesClient,
             wireVars, workerVars, recordVars, ClientType
    <3>3. CASE WalkRead
      BY <3>3, <1>0, PreacceptFrame
         DEF WalkRead, ClientStep, Proceed, Fault, besidesClient, wireVars, workerVars,
             recordVars, ClientType
    <3>4. CASE has_paired_custodian_ancestor
      BY <3>4, <1>0, PreacceptFrame
         DEF has_paired_custodian_ancestor, ClientStep, Proceed, Fault, besidesClient,
             wireVars, workerVars, recordVars, ClientType
    <3>5. CASE selected
      BY <3>5, <1>0, PreacceptFrame
         DEF selected, ClientStep, Proceed, Fault, besidesClient, wireVars, workerVars,
             recordVars, ClientType
    <3>6. CASE ReadGrant
      BY <3>6, <1>0, PreacceptFrame
         DEF ReadGrant, ClientStep, Proceed, Fault, besidesClient, wireVars, workerVars,
             recordVars, ClientType
    <3>7. CASE PersistIntent
      BY <3>7, <1>0, PreacceptFrame
         DEF PersistIntent, ClientStep, Proceed, Fault, besidesClient, wireVars, workerVars,
             recordVars, ClientType
    <3>8. CASE PinDescriptors
      BY <3>8, <1>0, PreacceptFrame
         DEF PinDescriptors, ClientStep, Proceed, Fault, besidesClient, wireVars,
             workerVars, recordVars, ClientType
    <3>9. CASE Connect
      BY <3>9, <1>0, PreacceptFrame
         DEF Connect, ClientStep, Proceed, Fault, besidesClient, wireVars, workerVars,
             recordVars, ClientType
    <3>10. CASE authenticate_control
      BY <3>10, <1>0, PreacceptFrame
         DEF authenticate_control, ClientStep, Proceed, Fault, besidesClient, wireVars,
             workerVars, recordVars, host_observed_source_fails, ClientType
    <3>11. CASE send_with_fds
      BY <3>11, <1>0
         DEF send_with_fds, ClientStep, Proceed, Fault, besidesClient, wireVars, workerVars,
             recordVars, ClientType
    <3>12. CASE HalfClose
      BY <3>12, <1>0
         DEF HalfClose, ClientStep, Proceed, Fault, besidesClient, wireVars, workerVars,
             recordVars, ClientType
    <3>13. CASE ReadResponse
      BY <3>13, <1>0, PreacceptFrame
         DEF ReadResponse, ClientStep, Proceed, Fault, besidesClient, wireVars, workerVars,
             recordVars, ClientType, submit_response_disposition, validate_response
    <3>14. CASE AncestorEnds
      BY <3>14, <1>0
         DEF AncestorEnds, ClientStep, Proceed, Fault, besidesClient, wireVars, workerVars,
             recordVars, ClientType
    <3>15. CASE ClientDies
      BY <3>15, <1>0
         DEF ClientDies, ClientStep, Proceed, Fault, besidesClient, wireVars, workerVars,
             recordVars, ClientType
    <3>16. QED BY <1>1, <3>1, <3>2, <3>3, <3>4, <3>5, <3>6, <3>7, <3>8, <3>9, <3>10, <3>11,
       <3>12, <3>13, <3>14, <3>15 DEF ClientActs, ClientNext
  <2>2. env.ring = "other" /\ Passed("init") /\ env.marker # "bad"
    BY <1>0, <2>1 DEF Walk
  <2>3. env.marker = "absent"
    BY <1>0, <2>1, <2>2 DEF required, EnvType
  <2>4. QED BY <2>1, <2>2, <2>3 DEF Passed
<1>2. CASE RootActs
  BY <1>2, RootFrame
<1>3. CASE WorkerActs
  BY <1>3, WorkerFrame
<1>4. CASE CancelActs
  BY <1>4, CancelFrame
<1>5. CASE UNCHANGED vars
  BY <1>5 DEF vars
<1>6. QED BY <1>1, <1>2, <1>3, <1>4, <1>5, NextCases

\* Paired root work keeps its types: in particular no grant and no settlement is
\* ever taken for the cause of a cancellation (await_root_execution_grant,
\* read_root_control).
THEOREM WorkTypeCorrect ==
    Spec => []TypeOK
BY WorkInvariant, InvImplies, PTL

\* A run recorded as failed before acceptance is not accepted and never will be,
\* whatever is lost and whoever dies (preaccept_failure).
THEOREM WorkPreacceptIsTrue ==
    Spec => []PreacceptIsTrue
BY WorkInvariant, InvImplies, PTL

\* The recorded cause of a cancellation was read or left by a local request, and
\* the loss of the root relabels none that was read, nor one still unread unless
\* R could not be sent (with_precedence_over, announce_root_local_ready).
THEOREM WorkCauseIsTrue ==
    Spec => []CauseIsTrue
BY WorkInvariant, InvImplies, PTL

\* The terminal of a launched workload follows the root's settlement or its
\* loss (root_settlement_granted).
THEOREM WorkSettledFirst ==
    Spec => []SettledFirst
BY WorkInvariant, InvImplies, PTL

\* T follows the durable terminal and the selected event
\* (integrate_terminal_publication).
THEOREM WorkReceiptFollowsRecord ==
    Spec => []ReceiptFollowsRecord
BY WorkInvariant, InvImplies, PTL

\* No client leaves the paired tree while a custodian ancestor of it lives
\* (classify_standalone).
THEOREM WorkNoEscape ==
    Spec => NoEscape
<1>1. Inv /\ [Next]_vars =>
        [client'.at = "standalone" /\ client.at # "standalone" =>
            /\ env.grant = "absent" /\ env.marker = "absent" /\ env.ring = "other"
            /\ env.paired => "parent" \notin live /\ ~root.alive]_vars
  BY StandaloneStep
<1>2. QED BY <1>1, WorkInvariant, PTL DEF Spec, NoEscape
=============================================================================
