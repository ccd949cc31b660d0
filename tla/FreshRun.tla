------------------------------ MODULE FreshRun ------------------------------
(***************************************************************************)
(* The fresh route of a run (fresh_run.rs).  The broker selects the parent *)
(* and executes the workload; the client only sends it frames, each on a   *)
(* connection of its own with a deadline of ten seconds:                   *)
(*                                                                         *)
(*    ?  is this process a child of a released root?                       *)
(*    X  admit the child (C);         c  read the admission back           *)
(*    ^  consume the grant (K);       9  read the execution back (Q)       *)
(*    %  accept the source (W), sent again when its reply is lost          *)
(*    v  begin the publication;       u  read the publication back         *)
(*                                                                         *)
(* X, ^, % and v have effects.  Any frame may be lost, its reply may be    *)
(* lost, and a frame whose deadline has passed may be served later.  The   *)
(* broker is external; it serves every frame it gets, so that nothing but  *)
(* the client keeps an effect from happening twice.                        *)
(***************************************************************************)
EXTENDS Naturals

CONSTANT MaxLosses  \* bound on lost frames, lost replies and late frames

VARIABLES
    fresh,   \* the client: its step, the error of ^, what it returns
    broker,  \* children admitted, executions begun and their phase, source
             \* accepted, publications begun
    late,    \* frames that were given up and may still be served
    losses

vars == <<fresh, broker, late, losses>>

Start == [at |-> "start", error |-> "none", result |-> "none"]

Init ==
    /\ fresh = Start
    /\ broker = [children |-> 0, executions |-> 0, phase |-> "absent",
                 source |-> FALSE, begun |-> 0]
    /\ late = {}
    /\ losses = 0

Step(at) == fresh' = [fresh EXCEPT !.at = at]

Return(result) == fresh' = [fresh EXCEPT !.at = "write", !.result = result]

Steps(at) == UNCHANGED <<broker, late, losses>> /\ Step(at)

(***************************************************************************)
(* The broker (external).                                                  *)
(***************************************************************************)
Serve(b, frame) ==
    CASE frame = "X" -> [b EXCEPT !.children = @ + 1]
      [] frame = "^" -> [b EXCEPT !.executions = @ + 1, !.phase = "pending"]
      [] frame = "%" -> [b EXCEPT !.source = TRUE]
      [] frame = "v" -> [b EXCEPT !.begun = @ + 1]
      [] OTHER -> b

Servable(b, frame) ==
    CASE frame = "c" -> b.children > 0
      [] frame = "^" -> b.children > 0
      [] frame = "9" -> b.phase # "absent"
      [] frame = "%" -> b.phase = "drained"
      [] frame = "v" -> b.source
      [] frame = "u" -> b.begun > 0
      [] OTHER -> TRUE

\* A frame that was given up is served after all.
BrokerServesLate ==
    /\ \E frame \in late :
        /\ late' = late \ {frame}
        /\ \/ Servable(broker, frame) /\ broker' = Serve(broker, frame)
           \/ UNCHANGED broker
    /\ UNCHANGED <<fresh, losses>>

\* The execution exits and its tree drains, or the broker loses track of it.
BrokerObserves ==
    /\ \/ broker.phase = "pending" /\ broker' = [broker EXCEPT !.phase = "exited"]
       \/ broker.phase = "exited" /\ broker' = [broker EXCEPT !.phase = "drained"]
       \/ broker.phase \in {"pending", "exited"} /\ broker' = [broker EXCEPT !.phase = "unknown"]
    /\ UNCHANGED <<fresh, late, losses>>

(***************************************************************************)
(* One frame on a connection of its own (request_frame): the broker is     *)
(* connected and is host root, its challenge is echoed, and one bounded    *)
(* line is read.  It is answered, or refused with an error, or fails.      *)
(***************************************************************************)
Answered(frame) ==
    /\ Servable(broker, frame)
    /\ broker' = Serve(broker, frame)
    /\ UNCHANGED <<late, losses>>

Refused(frame) == UNCHANGED <<broker, late, losses>>

Failed(frame) ==
    /\ losses < MaxLosses /\ losses' = losses + 1
    /\ \/ Servable(broker, frame) /\ broker' = Serve(broker, frame) /\ UNCHANGED late
       \/ UNCHANGED <<broker, late>>
       \/ frame \in {"X", "^", "%", "v"} /\ late' = late \cup {frame} /\ UNCHANGED broker

Error(frame) == Refused(frame) \/ Failed(frame)

(***************************************************************************)
(* The client (register_ordinary_run).                                     *)
(***************************************************************************)

\* Without the broker's socket there is no fresh route.
broker_socket == fresh.at = "start" /\ (Steps("probe") \/ Steps("none"))

\* Only the broker's word that the process is outside every released root
\* leaves the fresh route.
ProbeParent ==
    /\ fresh.at = "probe"
    /\ \/ Answered("?") /\ (Step("command") \/ Step("error"))
       \/ Refused("?") /\ (Step("none") \/ Step("error"))
       \/ Failed("?") /\ Step("error")

\* What becomes of a part of the command: it is built, refused with a text
\* that says "unavailable before K", or fails with another.
workload_environment == {"built", "error"}

\* A program that is present but not executable is kept, to be refused by the
\* exec after K.
resolve_execvp_program == {"built", "unavailable", "error"}

\* The descriptor is bounded, written and sealed.
sealed_command_file == {"built", "unavailable", "error"}

random_uuid == {"built", "error"}

\* Completion scope, sentinel and owner lease are refused as unavailable, and
\* the command is built, before anything with an effect is asked.
BuildCommand ==
    /\ fresh.at = "command"
    /\ \/ Steps("unavailable")
       \/ \E outcome \in random_uuid \cup workload_environment
                          \cup resolve_execvp_program \cup sealed_command_file :
            Steps(IF outcome = "built" THEN "register" ELSE outcome)

FallBackOnError ==
    /\ fresh.at = "register"
    /\ \/ Answered("X") /\ Step("readback")
       \/ Error("X") /\ Step("none")

\* X is sent once; when it fails the admission is only read back.
register_child ==
    /\ fresh.at = "register"
    /\ \/ Answered("X") /\ Step("readback")
       \/ Error("X") /\ Step("recover")

RecoverChild ==
    /\ fresh.at = "recover"
    /\ \/ Answered("c") /\ Step("readback")
       \/ Error("c") /\ Step("error")

\* The admission is read again and must be the same, for the probed parent.
ReadChild ==
    /\ fresh.at = "readback"
    /\ \/ Answered("c") /\ (Step("consume") \/ Step("error"))
       \/ Error("c") /\ Step("error")

\* K is sent once with the digest of the command as it is now.  The broker
\* refuses a drift of argv, cwd or environment since C by that name.
ConsumeGrant ==
    /\ fresh.at = "consume"
    /\ \/ Answered("^") /\ Step("consumed")
       \/ Refused("^") /\ \E e \in {"drift", "other"} :
            fresh' = [fresh EXCEPT !.at = "readK", !.error = e]
       \/ Failed("^") /\ fresh' = [fresh EXCEPT !.at = "readK", !.error = "other"]
       \/ \E outcome \in (workload_environment \cup sealed_command_file) \ {"built"} :
            Steps(outcome)

AbsentIsUnavailable ==
    /\ fresh.at = "readK"
    /\ \/ Answered("9") /\ Step(IF broker.phase = "unknown" THEN "error" ELSE "consumed")
       \/ Refused("9") /\ Step(IF broker.phase = "absent" THEN "unavailable" ELSE "error")
       \/ Failed("9") /\ Step("error")

\* A failed K is only read back.  It is known not to have happened when it was
\* refused for drift and the broker has no execution; else it is unknown.
ReadExecution ==
    /\ fresh.at = "readK"
    /\ \/ Answered("9") /\ Step(IF broker.phase = "unknown" THEN "error" ELSE "consumed")
       \/ /\ Refused("9")
          /\ Step(IF fresh.error = "drift" /\ broker.phase = "absent"
                  THEN "unavailable" ELSE "error")
       \/ Failed("9") /\ Step("error")

\* An asynchronous run returns here.
Dispatch ==
    /\ fresh.at = "consumed"
    /\ \/ UNCHANGED <<broker, late, losses>> /\ Return("dispatch")
       \/ Steps("query")

AwaitDrained ==
    /\ fresh.at = "query"
    /\ \/ /\ Answered("9")
          /\ Step(CASE broker.phase = "drained" -> "accept"
                    [] broker.phase = "unknown" -> "error"
                    [] OTHER -> "query")
       \/ Error("9") /\ Step("error")

\* W names the same event however often it is sent.
AcceptSource ==
    \/ /\ fresh.at = "accept"
       /\ \/ Answered("%") /\ (Step("begin") \/ Step("error"))
          \/ Error("%") /\ Step("accept again")
    \/ /\ fresh.at = "accept again"
       /\ \/ Answered("%") /\ (Step("begin") \/ Step("error"))
          \/ Error("%") /\ Step("error")

\* The first begin carries the streams; a repeated one only says unknown.
request_sync_begin ==
    /\ fresh.at = "begin"
    /\ \/ Answered("v") /\ IF broker.begun = 0 THEN Step("verify") ELSE Return("unknown")
       \/ Error("v") /\ Step("read publication")

ReadPublication ==
    /\ fresh.at = "read publication"
    /\ \/ Answered("u") /\ (Return("unknown") \/ Step("error"))
       \/ Error("u") /\ Step("error")

\* A stream has the length and the digest of the accepted source, or not.
verify_sync_file == {"verified", "changed"}

\* Both streams are verified before they are handed out.
VerifyStreams ==
    /\ fresh.at = "verify"
    /\ UNCHANGED <<broker, late, losses>>
    /\ \E stdout, stderr \in verify_sync_file :
        IF {stdout, stderr} = {"verified"} THEN Return("streams") ELSE Step("error")

\* The result is written; the digests are checked again while it is.
write_result == fresh.at = "write" /\ (Steps("done") \/ Steps("error"))

FreshReturned == fresh.at \in {"none", "done", "unavailable", "error"}

ClientNext ==
    \/ broker_socket \/ ProbeParent \/ BuildCommand
    \/ register_child \/ RecoverChild \/ ReadChild
    \/ ConsumeGrant \/ ReadExecution \/ Dispatch
    \/ AwaitDrained \/ AcceptSource \/ request_sync_begin \/ ReadPublication
    \/ VerifyStreams \/ write_result

Next == ClientNext \/ BrokerServesLate \/ BrokerObserves

Spec == Init /\ [][Next]_vars

(***************************************************************************)
(* Properties.                                                             *)
(***************************************************************************)
FreshType ==
    /\ fresh \in
        [at : {"start", "none", "probe", "command", "register", "recover", "readback",
               "consume", "readK", "consumed", "query", "accept", "accept again",
               "begin", "read publication", "verify", "write", "done",
               "unavailable", "error"},
         error : {"none", "drift", "other"},
         result : {"none", "dispatch", "unknown", "streams"}]
    /\ broker \in
        [children : Nat, executions : Nat,
         phase : {"absent", "pending", "exited", "drained", "unknown"},
         source : BOOLEAN, begun : Nat]
    /\ late \subseteq {"X", "^", "%", "v"}
    /\ losses \in 0 .. MaxLosses

\* What the client reports is so, whatever was lost or is served late.  A run
\* reported as unavailable (EX_UNAVAILABLE, which invites the caller to run
\* the command elsewhere) has not been executed and never will be; a reported
\* result is that of the one execution, and its streams are handed out only
\* by the one begin of a drained source (fresh_run_error, write_result).
ReportIsTrue ==
    /\ fresh.at = "unavailable" => broker.executions = 0 /\ "^" \notin late
    /\ fresh.at \in {"write", "done"} =>
        /\ broker.executions = 1
        /\ fresh.result = "streams" =>
            broker.begun = 1 /\ "v" \notin late /\ broker.phase = "drained"
=============================================================================
