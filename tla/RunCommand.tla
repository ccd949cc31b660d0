----------------------------- MODULE RunCommand -----------------------------
(***************************************************************************)
(* The run command (run_command in main.rs).  It composes the routes a run *)
(* may take: the broker's fresh route first (FreshRun); if there is none,  *)
(* the owner is resolved, and an owner of a fresh session goes back to the *)
(* broker; every other run gets a handle and is selected for paired or     *)
(* standalone execution (RootWork).                                        *)
(***************************************************************************)
EXTENDS RootWork

CONSTANT MaxLosses

VARIABLES
    command,  \* the step of run_command
    handle,   \* the handle's state directory: none, created, removed
    fresh, broker, late, losses

F == INSTANCE FreshRun

freshVars == <<fresh, broker, late, losses>>
allVars == <<vars, freshVars, command, handle>>

ASSUME RunCommandAssumption == MaxLosses \in Nat

RunInit == Init /\ F!Init /\ command = "fresh" /\ handle = "none"

Command(at) == command' = at /\ UNCHANGED vars

\* register_ordinary_run is called, the second time for a fresh owner.
CallFresh ==
    /\ command \in {"fresh", "fresh owner"}
    /\ F!ClientNext
    /\ UNCHANGED <<vars, command, handle>>

\* A result or an error of the fresh route ends the run.  Only its absence
\* continues, and not for a fresh owner.
FreshReturns ==
    /\ command \in {"fresh", "fresh owner"} /\ F!FreshReturned
    /\ Command(IF command = "fresh" /\ fresh.at = "none" THEN "caller" ELSE "returned")
    /\ UNCHANGED <<handle, freshVars>>

\* The configuration, the caller chain and the owner whose exit cancels are
\* resolved, the last as a live ancestor, and the delivery helper is prepared.
resolve_cancel_owner ==
    /\ command = "caller"
    /\ Command("owner") \/ Command("returned")
    /\ UNCHANGED <<handle, freshVars>>

\* One question to the helper: whose session is the process?  A pending one
\* is asked again until a deadline.
resolve_owner_for_pid == {"v30", "legacy", "pending", "none", "error"}

wait_for_pending_owner_binding == resolve_owner_for_pid \ {"pending"}

\* The live callers are asked in turn, the nearest first; the one that is
\* pending is waited for and decides.
resolve_owner_binding ==
    (resolve_owner_for_pid \ {"pending"}) \cup wait_for_pending_owner_binding

\* The owner of the completion: an explicit one must be complete, be the
\* parent invocation and be attested; without either nobody owns it.  An owner
\* whose session is v30 has no other route than the broker's.
owner_context ==
    /\ command = "owner"
    /\ \E explicit \in {"none", "torn", "whole"}, parent \in BOOLEAN,
          found \in resolve_owner_binding :
        LET asked == parent /\ explicit # "torn"
            refused == \/ explicit = "torn"
                       \/ explicit = "whole" /\ ~parent
                       \/ asked /\ found = "error"
                       \/ asked /\ explicit = "whole" /\ found = "none"
        IN \/ refused /\ Command("returned") /\ UNCHANGED freshVars
           \/ /\ ~refused /\ asked /\ found = "v30" /\ Command("fresh owner")
              /\ fresh' = F!Start /\ UNCHANGED <<broker, late, losses>>
           \/ ~refused /\ ~(asked /\ found = "v30") /\ Command("handle") /\ UNCHANGED freshVars
    /\ UNCHANGED handle

\* A failure to bind the helper removes the directory; a failure to create
\* the log leaves it.
create_run_state ==
    /\ command = "handle"
    /\ \/ Command("persist") /\ handle' = "created"
       \/ Command("returned") /\ handle' \in {"none", "created", "removed"}
    /\ UNCHANGED freshVars

\* Mode, metadata and owner are written and the caller's guard is checked
\* again; its failure removes the directory.
persist_initial_meta ==
    /\ command = "persist"
    /\ \/ Command("route") /\ UNCHANGED handle
       \/ Command("returned") /\ handle' \in {"created", "removed"}
    /\ UNCHANGED freshVars

Routed(A) == command = "route" /\ A /\ UNCHANGED <<command, handle, freshVars>>

CommandNext ==
    \/ CallFresh \/ FreshReturns \/ resolve_cancel_owner \/ owner_context
    \/ create_run_state \/ persist_initial_meta

RunNext ==
    \/ CommandNext
    \/ Routed(Next)
    \/ (F!BrokerServesLate \/ F!BrokerObserves) /\ UNCHANGED <<vars, command, handle>>

(***************************************************************************)
(* Fairness.  Each process goes on while it can.  A workload need not end, *)
(* unless it is cancelled: the escalation reaches SIGKILL.  The root is    *)
(* taken to answer, decide and settle while it lives.                      *)
(***************************************************************************)
RunSpec ==
    /\ RunInit /\ [][RunNext]_allVars
    /\ WF_allVars(CommandNext) /\ WF_allVars(Routed(ClientNext))
    /\ WF_allVars(Routed(RootNext)) /\ WF_allVars(Routed(WorkerNext))

(***************************************************************************)
(* Properties.                                                             *)
(***************************************************************************)

\* Every variable has its type.
RunTypeOK ==
    /\ TypeOK /\ F!FreshType
    /\ command \in {"fresh", "caller", "owner", "fresh owner", "handle", "persist", "route", "returned"}
    /\ handle \in {"none", "created", "removed"}

\* A fresh run reported as unavailable is never executed; one that reports a
\* result was executed once, and hands its streams out by the one begin of its
\* drained source (FreshRun).
ReportIsTrue == F!ReportIsTrue

\* The three routes exclude each other: a run is admitted at most once, by
\* the broker, by the root or as a standalone handle, and a run that the
\* broker may have admitted, now or late, never gets a handle that an
\* observer could mistake for it (run_command, register_child).
OneAdmission ==
    /\ broker.children + (IF "X" \in late THEN 1 ELSE 0) <= 1
    /\ broker.children > 0 \/ "X" \in late =>
        handle = "none" /\ ~root.accepted /\ client.at # "standalone"
    /\ ~(root.accepted /\ client.at = "standalone")

\* The run command returns and leaves no process waiting: no lost frame or
\* reply and no loss of the root, at whichever of the phases P, G, R, S and
\* T, keeps the client or the worker; only a workload that is neither
\* cancelled nor ended does.
RunEnds ==
    <>[](\/ command = "returned"
         \/ command \in {"fresh", "fresh owner"} /\ fresh.at = "query"
            /\ broker.phase \in {"pending", "exited"}
         \/ command = "route" /\ Settled)
=============================================================================
