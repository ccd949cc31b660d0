------------------------- MODULE Supervision_proofs -------------------------
(***************************************************************************)
(* Proofs about Supervision, for every finite workload, every set of       *)
(* commands, both modes and whatever may be killed.                        *)
(*                                                                         *)
(* The record: a publisher between its rc and its meta.json holds          *)
(* completion.lock, so it is alone, the record is still running, and no    *)
(* command is accepting a cancellation (CompletionLocked).  The evidence:  *)
(* an empty tree stays empty, because only a live process forks and the    *)
(* root is spawned once (EmptyIsTrue).  Discharge: custody of an exit-mode *)
(* handle ends only after its record (DischargedIsTerminal).               *)
(***************************************************************************)
EXTENDS Supervision, TLAPS

\* Who is publishing, and from where in its own code (the callers of
\* publish_terminal_with_delivery_disposition); only the event loop proposes a
\* sentinel.
PublisherPlaced ==
    /\ pub["supervisor"] # "off" => sup \in {"error", "finish", "sentinel"}
    /\ pub["guardian"] # "off" => guard = "reconcile"
    /\ \A k \in Commands : pub[k] # "off" => command[k] \in {"reconcile", "list"}
    /\ \A p \in Publishers : pub[p] # "off" => proposal[p] \in Reasons
    /\ \A p \in Publishers :
          proposal[p] = "ready-sentinel" => p = "supervisor" /\ sup = "sentinel"

ProcStates == {"unborn", "gated", "running", "detached", "zombie", "reaped"}

\* The steps of each actor apart from its terminal publication
SupervisorOwn ==
    \/ StartsUp \/ SpawnsWorkload \/ PersistsIdentity \/ StartupFails \/ StartupExits
    \/ TopOfLoop \/ MaybeFinish \/ MarksDrained \/ DrivesDelivery \/ LeavesLoop
    \/ ReadsSentinel \/ CaptureFails \/ ReadsOutput \/ Dispatches
GuardianOwn ==
    \/ GuardianTakesOver \/ GuardianSweeps \/ GuardianDischarges \/ GuardianSettles
    \/ GuardianReconciles \/ GuardianDelivers
CommandCall(k) ==
    \/ StatusReconciles(k) \/ ListReconciles(k) \/ CancelReads(k)
    \/ CancelCaptures(k) \/ CancelAccepts(k) \/ CancelWakes(k)
    \/ CancelTerminal(k) \/ CommandReconciles(k) \/ CommandDelivers(k) \/ KillCommand(k)
ProcessStep(p) == Detaches(p) \/ Exits(p) \/ \E q \in Workload : Forks(p, q)

\* Every step is a publication, another step of one actor, or a stutter.
LEMMA NextCases ==
    ASSUME [Next]_vars
    PROVE  \/ \E p \in Publishers : Publish(p)
           \/ SupervisorOwn \/ GuardianOwn \/ \E k \in Commands : CommandCall(k)
           \/ RootExecs \/ OrphansReaped \/ \E p \in Workload : ProcessStep(p)
           \/ \E o \in Owners : GraceElapses(o)
           \/ KillSupervisor \/ KillGuardian \/ TransferExits \/ UNCHANGED vars
<1>1. ASSUME SupervisorStep PROVE SupervisorOwn \/ \E p \in Publishers : Publish(p)
  BY <1>1 DEF SupervisorStep, SupervisorOwn, Publishers, Owners
<1>2. ASSUME GuardianStep PROVE GuardianOwn \/ \E p \in Publishers : Publish(p)
  BY <1>2 DEF GuardianStep, GuardianOwn, Publishers, Owners
<1>3. ASSUME NEW k \in Commands, CommandStep(k)
      PROVE  CommandCall(k) \/ \E p \in Publishers : Publish(p)
  BY <1>3 DEF CommandStep, CommandCall, Publishers
<1>4. ASSUME WorkloadStep
      PROVE  RootExecs \/ OrphansReaped \/ \E p \in Workload : ProcessStep(p)
  BY <1>4 DEF WorkloadStep, ProcessStep
<1>5. QED BY <1>1, <1>2, <1>3, <1>4 DEF Next, CommandCall

-----------------------------------------------------------------------------
(* Process trees *)

\* reap_children and the sweeps change only the state of processes: the dead are
\* reaped, and a sweep at most turns a live process into a zombie.
LEMMA ReapedFacts ==
    ASSUME NEW procs \in [Workload -> ProcStates]
    PROVE  /\ Reaped(procs) \in [Workload -> ProcStates]
           /\ \A p \in Workload : procs[p] \in {"unborn", "reaped"} => Reaped(procs)[p] = procs[p]
  BY DEF Reaped, ProcStates

\* Whatever a sweep may leave, nobody is born of it and nobody reaped comes back.
LEMMA SweepFacts ==
    ASSUME NEW procs \in [Workload -> ProcStates], NEW signal,
           NEW swept \in Sweep(procs, signal)
    PROVE  /\ swept \in [Workload -> ProcStates]
           /\ \A p \in Workload : procs[p] \in {"unborn", "reaped"} => swept[p] = procs[p]
<1> DEFINE caught == {p \in Workload : procs[p] \in {"gated", "running", "detached"}}
<1>1. CASE swept = procs
  BY <1>1
<1>2. CASE \E killed \in SUBSET caught :
              swept = [p \in Workload |-> IF p \in killed THEN "zombie" ELSE procs[p]]
  BY <1>2 DEF ProcStates
<1>3. QED BY <1>1, <1>2 DEF Sweep

-----------------------------------------------------------------------------
(* Type correctness *)

\* The locals of every actor, and the files, keep their types.
LEMMA TypeStep ==
    ASSUME TypeOK, PublisherPlaced, [Next]_vars
    PROVE  TypeOK'
<1> USE DEF TypeOK
<1>1. ASSUME NEW p \in Publishers, Publish(p) PROVE TypeOK'
  <2>1. CASE PublishDefers(p)
    BY <2>1
       DEF PublishDefers, files, tree, guarding, RequestCancellation, with_precedence_over,
           Causes, Owners, Publishers
  <2>2. CASE PublishBegins(p)
    <3>1. CASE terminal
      BY <2>2, <3>1 DEF PublishBegins, PublisherPlaced, Published, LiveLoop, tree, guarding,
                        Owners,
         Publishers
    <3>2. CASE ~terminal
      <4>1. Finalized(p) \in Reasons
        BY <2>2 DEF PublishBegins, PublisherPlaced, Finalized, Reasons, Cancellations, Causes
      <4>2. /\ pub' \in [Publishers -> {"off", "begin", "rc", "meta"}]
            /\ proposal' \in [Publishers -> Reasons \cup {"none"}]
        BY <2>2, <3>2, <4>1 DEF PublishBegins
      <4>3. drained' \in BOOLEAN
        BY <2>2, <3>2 DEF PublishBegins
      <4>4. QED BY <2>2, <3>2, <4>2, <4>3 DEF PublishBegins, tree, guarding
    <3>3. QED BY <3>1, <3>2
  <2>3. CASE PublishRc(p)
    BY <2>3
       DEF PublishRc, tree, loop, guarding, PublisherPlaced, TerminalStatus, Reasons,
           Cancellations, Causes
  <2>4. CASE PublishMeta(p)
    BY <2>4
       DEF PublishMeta, tree, guarding, Published, PublisherPlaced, LiveLoop, Owners,
           Publishers
  <2>5. QED BY <1>1, <2>1, <2>2, <2>3, <2>4 DEF Publish
<1>2. ASSUME SupervisorOwn PROVE TypeOK'
  <2>1. CASE StartsUp
    BY <2>1 DEF StartsUp, tree, loop, guarding, Owners, Publishers
  <2>2. CASE SpawnsWorkload
    BY <2>2 DEF SpawnsWorkload, files, loop, guarding, Workload
  <2>3. CASE PersistsIdentity
    BY <2>3 DEF PersistsIdentity, tree, loop, guarding, Owners, Publishers
  <2>4. CASE StartupFails
    BY <2>4
       DEF StartupFails, files, tree, loop, guarding, Propose, Reasons, Owners, Publishers
  <2>5. CASE StartupExits
    BY <2>5 DEF StartupExits, tree, loop, guarding, ClaimsDelivery, Owners, Publishers
  <2>6. CASE TopOfLoop
    BY <2>6, SweepFacts DEF TopOfLoop, files, guarding, ProcStates, Causes, Owners
  <2>7. CASE MaybeFinish
    <3>0. finish_decision # "none" => finish_decision \in Reasons
      BY DEF finish_decision, exit_completion_reason, Reasons, Cancellations
    <3>1. CASE UNCHANGED <<pub, proposal>>
      BY <2>7, <3>1 DEF MaybeFinish, files, tree, loop, guarding
    <3>2. CASE finish_decision \in Reasons /\ Propose("supervisor",
    finish_decision) /\ UNCHANGED sup
      <4>1. /\ pub' \in [Publishers -> {"off", "begin", "rc", "meta"}]
            /\ proposal' \in [Publishers -> Reasons \cup {"none"}]
        BY <3>2 DEF Propose
      <4>2. QED BY <2>7, <3>2, <4>1 DEF MaybeFinish, files, tree, loop, guarding
    <3>3. QED BY <2>7, <3>0, <3>1, <3>2 DEF MaybeFinish
  <2>8. CASE MarksDrained
    BY <2>8 DEF MarksDrained, tree, loop, guarding, Owners, Publishers
  <2>9. CASE DrivesDelivery
    <3>1. /\ delivery' \in {"unclaimed", "running", "settled", "unknown"}
          /\ transfer' \in {"none", "running", "exited"}
          /\ tree_empty' \in BOOLEAN /\ settled' \in BOOLEAN
      BY <2>9 DEF DrivesDelivery
    <3>2. root_status' \in {"none", "pending", "flushed"}
      BY <2>9 DEF DrivesDelivery
    <3>3. QED BY <2>9, <3>1, <3>2 DEF DrivesDelivery, guarding
  <2>10. CASE LeavesLoop
    <3>1. CASE should_exit
      <4>0. SupervisorForgets
        BY <2>10, <3>1 DEF LeavesLoop
      <4>1. /\ escalation' \in [Owners -> {"none", "term", "kill"}]
            /\ pub' \in [Publishers -> {"off", "begin", "rc", "meta"}]
            /\ proposal' \in [Publishers -> Reasons \cup {"none"}]
        BY <4>0 DEF SupervisorForgets, Owners, Publishers
      <4>2. /\ cause' \in Causes /\ root_status' \in {"none", "pending", "flushed"}
            /\ tree_empty' \in BOOLEAN /\ closed' \in BOOLEAN /\ recorded' \in BOOLEAN
            /\ settled' \in BOOLEAN /\ capture_error' \in BOOLEAN
        BY <4>0 DEF SupervisorForgets, Causes
      <4>3. custody' \in BOOLEAN /\ drained' \in BOOLEAN
        BY <2>10 DEF LeavesLoop, EndPhysicalCustody
      <4>4. QED BY <2>10, <3>1, <4>1, <4>2, <4>3 DEF LeavesLoop, tree, guarding
    <3>2. CASE ~should_exit
      BY <2>10, <3>2 DEF LeavesLoop, tree, loop, guarding
    <3>3. QED BY <3>1, <3>2
  <2>11. CASE ReadsSentinel
    BY <2>11
       DEF ReadsSentinel, files, tree, loop, guarding, Propose, Reasons, Owners, Publishers
  <2>12. CASE CaptureFails
    BY <2>12
       DEF CaptureFails, files, tree, guarding, RequestCancellation, with_precedence_over,
           Causes, Owners, Publishers
  <2>13. CASE ReadsOutput
    BY <2>13 DEF ReadsOutput, files, tree, loop, guarding, Owners, Publishers
  <2>14. CASE Dispatches
    BY <2>14, ReapedFacts DEF Dispatches, files, guarding, ProcStates, NoChild
  <2>15. QED BY <1>2, <2>1, <2>2, <2>3, <2>4, <2>5, <2>6, <2>7, <2>8, <2>9, <2>10, <2>11,
         <2>12, <2>13, <2>14 DEF SupervisorOwn
<1>3. ASSUME GuardianOwn PROVE TypeOK'
  <2>1. CASE GuardianTakesOver
    BY <2>1 DEF GuardianTakesOver, files, tree, loop, Owners, Publishers
  <2>2. CASE GuardianSweeps
    BY <2>2, ReapedFacts, SweepFacts
       DEF GuardianSweeps, files, loop, ProcStates, NoChild, Owners
  <2>3. CASE GuardianDischarges
    <3>1. /\ escalation' \in [Owners -> {"none", "term", "kill"}]
          /\ pub' \in [Publishers -> {"off", "begin", "rc", "meta"}]
          /\ proposal' \in [Publishers -> Reasons \cup {"none"}]
      BY <2>3 DEF GuardianDischarges, GuardianForgets, Owners, Publishers
    <3>2. /\ cancelling' \in BOOLEAN /\ empty' \in BOOLEAN /\ seen' \in BOOLEAN
          /\ reconciled' \in BOOLEAN
      BY <2>3 DEF GuardianDischarges, GuardianForgets
    <3>3. custody' \in BOOLEAN /\ drained' \in BOOLEAN
      BY <2>3 DEF GuardianDischarges, EndPhysicalCustody
    <3>4. QED BY <2>3, <3>1, <3>2, <3>3 DEF GuardianDischarges, tree, loop
  <2>4. CASE GuardianSettles
    BY <2>4 DEF GuardianSettles, tree, loop, guarding, Owners, Publishers
  <2>5. CASE GuardianReconciles
    <3>1. /\ pub' \in [Publishers -> {"off", "begin", "rc", "meta"}]
          /\ proposal' \in [Publishers -> Reasons \cup {"none"}]
      BY <2>5 DEF GuardianReconciles, Propose, Reasons, Owners, Publishers
    <3>2. QED BY <2>5, <3>1 DEF GuardianReconciles, files, tree, loop, guarding
  <2>6. CASE GuardianDelivers
    <3>1. /\ delivery' \in {"unclaimed", "running", "settled", "unknown"}
          /\ transfer' \in {"none", "running", "exited"} /\ reconciled' \in BOOLEAN
      BY <2>6 DEF GuardianDelivers
    <3>2. QED BY <2>6, <3>1 DEF GuardianDelivers, loop
  <2>7. QED BY <1>3, <2>1, <2>2, <2>3, <2>4, <2>5, <2>6 DEF GuardianOwn
<1>4. ASSUME NEW k \in Commands, CommandCall(k) PROVE TypeOK'
  <2>1. CASE StatusReconciles(k)
    BY <2>1 DEF StatusReconciles, CommandFrame, tree, loop, guarding, Owners, Publishers
  <2>2. CASE ListReconciles(k)
    BY <2>2 DEF ListReconciles, CommandFrame, tree, loop, guarding, Owners, Publishers
  <2>3. CASE CancelReads(k)
    BY <2>3 DEF CancelReads, CommandFrame, tree, loop, guarding, Owners, Publishers
  <2>4. CASE CancelCaptures(k)
    BY <2>4 DEF CancelCaptures, CommandFrame, tree, loop, guarding, Owners, Publishers
  <2>5. CASE CancelAccepts(k)
    BY <2>5 DEF CancelAccepts, CommandFrame, tree, loop, guarding, Owners, Publishers
  <2>6. CASE CancelWakes(k)
    BY <2>6 DEF CancelWakes, CommandFrame, tree, loop, guarding, Owners, Publishers
  <2>7. CASE CancelTerminal(k)
    BY <2>7 DEF CancelTerminal, CommandFrame, tree, loop, guarding, Owners, Publishers
  <2>8. CASE CommandReconciles(k)
    <3>1. /\ pub' \in [Publishers -> {"off", "begin", "rc", "meta"}]
          /\ proposal' \in [Publishers -> Reasons \cup {"none"}]
      BY <2>8 DEF CommandReconciles, Propose, Reasons, Owners, Publishers
    <3>2. QED BY <2>8, <3>1 DEF CommandReconciles, CommandFrame, tree, loop, guarding
  <2>9. CASE CommandDelivers(k)
    BY <2>9
       DEF CommandDelivers, CommandFrame, tree, loop, guarding, ClaimsDelivery, Owners,
           Publishers
  <2>10. CASE KillCommand(k)
    BY <2>10 DEF KillCommand, CommandFrame, tree, loop, guarding, Owners, Publishers
  <2>11. QED BY <1>4, <2>1, <2>2, <2>3, <2>4, <2>5, <2>6, <2>7, <2>8, <2>9,
  <2>10 DEF CommandCall
<1>5. CASE RootExecs
  <2>0. Root \in Workload
    BY DEF Workload
  <2>1. proc' \in [Workload -> ProcStates]
    BY <1>5, <2>0 DEF RootExecs, ProcStates
  <2>2. exec_failed' \in BOOLEAN
    BY <1>5 DEF RootExecs
  <2>3. QED BY <1>5, <2>1, <2>2 DEF RootExecs, ProcStates, WorkloadFrame, files, loop, guarding
<1>6. CASE OrphansReaped
  BY <1>6, ReapedFacts DEF OrphansReaped, WorkloadFrame, files, loop, guarding, ProcStates
<1>7. ASSUME NEW p \in Workload, ProcessStep(p) PROVE TypeOK'
  <2>1. CASE Detaches(p)
    BY <2>1 DEF Detaches, WorkloadFrame, files, loop, guarding, Owners, Publishers
  <2>2. CASE Exits(p)
    BY <2>2 DEF Exits, Alive, WorkloadFrame, files, loop, guarding, Owners, Publishers
  <2>3. CASE \E q \in Workload : Forks(p, q)
    BY <2>3 DEF Forks, WorkloadFrame, files, loop, guarding, Owners, Publishers
  <2>4. QED BY <1>7, <2>1, <2>2, <2>3 DEF ProcessStep
<1>8. ASSUME NEW o \in Owners, GraceElapses(o) PROVE TypeOK'
  <2>1. CASE GraceElapses(o)
    BY <2>1 DEF GraceElapses, files, tree, loop, guarding, Owners, Publishers
  <2>2. QED BY <1>8, <2>1 DEF GraceElapses
<1>9. CASE KillSupervisor
  <2>1. /\ escalation' \in [Owners -> {"none", "term", "kill"}]
        /\ pub' \in [Publishers -> {"off", "begin", "rc", "meta"}]
        /\ proposal' \in [Publishers -> Reasons \cup {"none"}]
    BY <1>9 DEF KillSupervisor, SupervisorForgets, Owners, Publishers
  <2>2. /\ cause' \in Causes /\ root_status' \in {"none", "pending", "flushed"}
        /\ tree_empty' \in BOOLEAN /\ closed' \in BOOLEAN /\ recorded' \in BOOLEAN
        /\ settled' \in BOOLEAN /\ capture_error' \in BOOLEAN
    BY <1>9 DEF KillSupervisor, SupervisorForgets, Causes
  <2>3. QED BY <1>9, <2>1, <2>2 DEF KillSupervisor, files, tree, guarding
<1>10. CASE KillGuardian
  <2>1. /\ escalation' \in [Owners -> {"none", "term", "kill"}]
        /\ pub' \in [Publishers -> {"off", "begin", "rc", "meta"}]
        /\ proposal' \in [Publishers -> Reasons \cup {"none"}]
    BY <1>10 DEF KillGuardian, GuardianForgets, Owners, Publishers
  <2>2. /\ cancelling' \in BOOLEAN /\ empty' \in BOOLEAN /\ seen' \in BOOLEAN
        /\ reconciled' \in BOOLEAN
    BY <1>10 DEF KillGuardian, GuardianForgets
  <2>3. QED BY <1>10, <2>1, <2>2 DEF KillGuardian, files, tree, loop
<1>11. CASE TransferExits
  BY <1>11 DEF TransferExits, loop, guarding, Owners, Publishers
<1>12. CASE UNCHANGED vars
  BY <1>12 DEF vars, files, tree, loop, guarding, Owners, Publishers
<1>13. QED BY <1>1, <1>2, <1>3, <1>4, <1>5, <1>6, <1>7, <1>8, <1>9, <1>10, <1>11, <1>12,
NextCases

-----------------------------------------------------------------------------
(* Terminal publication *)

\* Every action keeps publishers where their code is.
LEMMA PublisherPlacedStep ==
    ASSUME TypeOK, PublisherPlaced, [Next]_vars
    PROVE  PublisherPlaced'
<1>0. /\ pub \in [Publishers -> {"off", "begin", "rc", "meta"}]
      /\ proposal \in [Publishers -> Reasons \cup {"none"}]
      /\ command \in [Commands -> {"idle", "lock", "captured", "accepted", "terminal",
                                   "progress", "list", "reconcile", "deliver"}]
      /\ cause \in Causes
      /\ Publishers = {"supervisor", "guardian"} \cup Commands
      /\ "supervisor" \notin Commands /\ "guardian" \notin Commands
      /\ {"cancel-request", "supervisor-error", "supervisor-lost", "ready-sentinel"} \subseteq Reasons
      /\ "none" \notin Reasons
  BY CommandsAssumption
     DEF TypeOK, Publishers, Owners, Reasons, Cancellations, Causes
<1> USE DEF PublisherPlaced
<1>1. ASSUME NEW p \in Publishers, Publish(p) PROVE PublisherPlaced'
  <2>1. CASE PublishDefers(p)
    <3>1. p = "supervisor"
      BY <1>0, <2>1 DEF PublishDefers, Deferred, LiveLoop
    <3>2. QED BY <1>0, <2>1, <3>1 DEF PublishDefers
  <2>2. CASE PublishBegins(p)
    <3>1. Finalized(p) \in Reasons
          /\ (Finalized(p) = "ready-sentinel" => proposal[p] = "ready-sentinel")
      BY <1>0, <2>2 DEF PublishBegins, Finalized
    <3>2. CASE terminal
      BY <1>0, <2>2, <3>2 DEF PublishBegins, Published
    <3>3. CASE ~terminal
      <4>1. /\ proposal' = [proposal EXCEPT ![p] = Finalized(p)]
            /\ pub' = [pub EXCEPT ![p] = "rc"] /\ pub[p] = "begin"
            /\ UNCHANGED <<sup, guard, command>>
        BY <2>2, <3>3 DEF PublishBegins
      <4>2. QED BY <1>0, <3>1, <4>1
    <3>4. QED BY <3>2, <3>3
  <2>3. CASE PublishRc(p)
    BY <1>0, <2>3 DEF PublishRc
  <2>4. CASE PublishMeta(p)
    BY <1>0, <2>4 DEF PublishMeta, Published
  <2>5. QED BY <1>1, <2>1, <2>2, <2>3, <2>4 DEF Publish
<1>2. ASSUME SupervisorOwn PROVE PublisherPlaced'
  <2>1. CASE StartsUp
    BY <1>0, <2>1 DEF StartsUp
  <2>2. CASE SpawnsWorkload
    BY <1>0, <2>2 DEF SpawnsWorkload
  <2>3. CASE PersistsIdentity
    BY <1>0, <2>3 DEF PersistsIdentity
  <2>4. CASE StartupFails
    BY <1>0, <2>4 DEF StartupFails, Propose
  <2>5. CASE StartupExits
    BY <1>0, <2>5 DEF StartupExits
  <2>6. CASE TopOfLoop
    BY <1>0, <2>6 DEF TopOfLoop
  <2>7. CASE MaybeFinish
    <3>1. finish_decision # "none" =>
             finish_decision \in Reasons /\ finish_decision # "ready-sentinel"
      BY <1>0 DEF finish_decision, exit_completion_reason, Reasons, Cancellations, Causes
    <3>2. QED BY <1>0, <2>7, <3>1 DEF MaybeFinish, Propose
  <2>8. CASE MarksDrained
    BY <1>0, <2>8 DEF MarksDrained
  <2>9. CASE DrivesDelivery
    BY <1>0, <2>9 DEF DrivesDelivery
  <2>10. CASE LeavesLoop
    BY <1>0, <2>10 DEF LeavesLoop, SupervisorForgets
  <2>11. CASE ReadsSentinel
    BY <1>0, <2>11 DEF ReadsSentinel, Propose
  <2>12. CASE CaptureFails
    BY <1>0, <2>12 DEF CaptureFails
  <2>13. CASE ReadsOutput
    BY <1>0, <2>13 DEF ReadsOutput
  <2>14. CASE Dispatches
    BY <1>0, <2>14 DEF Dispatches
  <2>15. QED BY <1>2, <2>1, <2>2, <2>3, <2>4, <2>5, <2>6, <2>7, <2>8, <2>9, <2>10, <2>11,
         <2>12, <2>13, <2>14 DEF SupervisorOwn
<1>3. ASSUME GuardianOwn PROVE PublisherPlaced'
  <2>1. CASE GuardianTakesOver
    BY <1>0, <2>1 DEF GuardianTakesOver
  <2>2. CASE GuardianSweeps
    BY <1>0, <2>2 DEF GuardianSweeps
  <2>3. CASE GuardianDischarges
    BY <1>0, <2>3 DEF GuardianDischarges, GuardianForgets
  <2>4. CASE GuardianSettles
    BY <1>0, <2>4 DEF GuardianSettles
  <2>5. CASE GuardianReconciles
    <3>1. CASE Propose("guardian", "supervisor-lost") /\ UNCHANGED guard
      <4>1. guard = "reconcile" /\ UNCHANGED <<sup, command>>
        BY <2>5 DEF GuardianReconciles
      <4>2. QED BY <1>0, <3>1, <4>1 DEF Propose
    <3>2. CASE UNCHANGED <<pub, proposal>>
      BY <1>0, <2>5, <3>2 DEF GuardianReconciles
    <3>3. QED BY <2>5, <3>1, <3>2 DEF GuardianReconciles
  <2>6. CASE GuardianDelivers
    BY <1>0, <2>6 DEF GuardianDelivers
  <2>7. QED BY <1>3, <2>1, <2>2, <2>3, <2>4, <2>5, <2>6 DEF GuardianOwn
<1>4. ASSUME NEW k \in Commands, CommandCall(k) PROVE PublisherPlaced'
  <2>1. CASE StatusReconciles(k)
    BY <1>0, <2>1 DEF StatusReconciles, CommandFrame
  <2>2. CASE ListReconciles(k)
    BY <1>0, <2>2 DEF ListReconciles, CommandFrame
  <2>3. CASE CancelReads(k)
    BY <1>0, <2>3 DEF CancelReads, CommandFrame
  <2>4. CASE CancelCaptures(k)
    BY <1>0, <2>4 DEF CancelCaptures, CommandFrame
  <2>5. CASE CancelAccepts(k)
    BY <1>0, <2>5 DEF CancelAccepts, CommandFrame
  <2>6. CASE CancelWakes(k)
    BY <1>0, <2>6 DEF CancelWakes, CommandFrame
  <2>7. CASE CancelTerminal(k)
    BY <1>0, <2>7 DEF CancelTerminal, CommandFrame
  <2>8. CASE CommandReconciles(k)
    <3>1. CASE CommandFrame(k, command[k]) /\ Propose(k, "supervisor-lost")
      <4>1. command[k] \in {"reconcile", "list"}
        BY <2>8 DEF CommandReconciles
      <4>2. QED BY <1>0, <3>1, <4>1 DEF Propose, CommandFrame
    <3>2. CASE UNCHANGED <<pub, proposal>>
      BY <1>0, <2>8, <3>2 DEF CommandReconciles, CommandFrame
    <3>3. QED BY <2>8, <3>1, <3>2 DEF CommandReconciles
  <2>9. CASE CommandDelivers(k)
    BY <1>0, <2>9 DEF CommandDelivers, CommandFrame
  <2>10. CASE KillCommand(k)
    BY <1>0, <2>10 DEF KillCommand, CommandFrame
  <2>11. QED BY <1>4, <2>1, <2>2, <2>3, <2>4, <2>5, <2>6, <2>7, <2>8, <2>9,
  <2>10 DEF CommandCall
<1>5. CASE RootExecs
  BY <1>0, <1>5 DEF RootExecs, WorkloadFrame
<1>6. CASE OrphansReaped
  BY <1>0, <1>6 DEF OrphansReaped, WorkloadFrame
<1>7. ASSUME NEW p \in Workload, ProcessStep(p) PROVE PublisherPlaced'
  <2>1. CASE Detaches(p)
    BY <1>0, <2>1 DEF Detaches, WorkloadFrame
  <2>2. CASE Exits(p)
    BY <1>0, <2>2 DEF Exits, WorkloadFrame
  <2>3. CASE \E q \in Workload : Forks(p, q)
    BY <1>0, <2>3 DEF Forks, WorkloadFrame
  <2>4. QED BY <1>7, <2>1, <2>2, <2>3 DEF ProcessStep
<1>8. ASSUME NEW o \in Owners, GraceElapses(o) PROVE PublisherPlaced'
  <2>1. CASE GraceElapses(o)
    BY <1>0, <2>1 DEF GraceElapses
  <2>2. QED BY <1>8, <2>1 DEF GraceElapses
<1>9. CASE KillSupervisor
  BY <1>0, <1>9 DEF KillSupervisor, SupervisorForgets
<1>10. CASE KillGuardian
  BY <1>0, <1>10 DEF KillGuardian, GuardianForgets
<1>11. CASE TransferExits
  BY <1>0, <1>11 DEF TransferExits
<1>12. CASE UNCHANGED vars
  BY <1>0, <1>12 DEF vars
<1>13. QED BY <1>1, <1>2, <1>3, <1>4, <1>5, <1>6, <1>7, <1>8, <1>9, <1>10, <1>11, <1>12,
NextCases

Publishing(p) == pub[p] \in {"rc", "meta"}

\* completion.lock: one publisher at a time has decided its reason, the record is
\* still running, no cancellation is accepted behind its back, and what it wrote to
\* rc is what it will write to meta.json.
DecidedOf(p) ==
    Publishing(p) =>
        /\ ~terminal
        /\ accepted => proposal[p] = "cancel-request"
        /\ \A k \in Commands : command[k] \notin {"captured", "accepted"}
        /\ pub[p] = "meta" => rc = TerminalStatus(proposal[p])

CompletionLocked ==
    /\ \A p, q \in Publishers : Publishing(p) /\ Publishing(q) => p = q
    /\ \A p \in Publishers : DecidedOf(p)
    /\ \A k \in Commands : command[k] \in {"captured", "accepted"} => ~terminal
    /\ \A k \in Commands : command[k] = "terminal" => terminal
    /\ RcMatchesRecord

\* A step that touches neither the record, the marker nor a decided publication,
\* and moves no command under the lock
LEMMA LockedQuiet ==
    ASSUME CompletionLocked, UNCHANGED <<record, rc, accepted>>,
           \A p \in Publishers :
              \/ pub'[p] = pub[p] /\ proposal'[p] = proposal[p]
              \/ pub'[p] \in {"off", "begin"},
           \A k \in Commands :
              \/ command'[k] = command[k]
              \/ command'[k] = "accepted" /\ command[k] = "captured"
              \/ command'[k] \notin {"captured", "accepted", "terminal"}
    PROVE  CompletionLocked'
<1>1. \A p \in Publishers : Publishing(p)' => Publishing(p)
  BY DEF Publishing
<1>2. ASSUME NEW p \in Publishers PROVE DecidedOf(p)'
  BY <1>1 DEF CompletionLocked, DecidedOf, Publishing, terminal
<1>3. QED BY <1>1, <1>2 DEF CompletionLocked, terminal, RcMatchesRecord

\* Every action keeps completion.lock's promise.
LEMMA CompletionLockedStep ==
    ASSUME TypeOK, PublisherPlaced, CompletionLocked, [Next]_vars
    PROVE  CompletionLocked'
<1>0. /\ pub \in [Publishers -> {"off", "begin", "rc", "meta"}]
      /\ proposal \in [Publishers -> Reasons \cup {"none"}]
      /\ command \in [Commands -> {"idle", "lock", "captured", "accepted", "terminal",
                                   "progress", "list", "reconcile", "deliver"}]
      /\ Publishers = {"supervisor", "guardian"} \cup Commands
      /\ "supervisor" \notin Commands /\ "guardian" \notin Commands
      /\ "running" \notin Reasons
  BY CommandsAssumption
     DEF TypeOK, Publishers, Owners, Reasons, Cancellations, Causes
<1>1. ASSUME NEW p \in Publishers, Publish(p) PROVE CompletionLocked'
  <2>1. CASE PublishDefers(p)
    BY <1>0, <2>1, LockedQuiet DEF PublishDefers, files
  <2>2. CASE PublishBegins(p)
    <3>1. CASE terminal
      BY <1>0, <2>2, <3>1, LockedQuiet DEF PublishBegins, Published
    <3>2. CASE ~terminal
      <4>1. /\ proposal' = [proposal EXCEPT ![p] = Finalized(p)]
            /\ pub' = [pub EXCEPT ![p] = "rc"]
            /\ UNCHANGED <<record, rc, accepted, command>>
        BY <2>2, <3>2 DEF PublishBegins
      <4>2. /\ \A q \in Publishers : ~Publishing(q)
            /\ \A k \in Commands : command[k] \notin {"captured", "accepted"}
        BY <1>0, <2>2 DEF PublishBegins, CompletionLockFree, Publishing
      <4>3. accepted => Finalized(p) = "cancel-request"
        BY DEF Finalized
      <4>4. \A q \in Publishers : q # p => ~Publishing(q)'
        BY <1>0, <4>1, <4>2 DEF Publishing
      <4>5. DecidedOf(p)'
        BY <1>0, <3>2, <4>1, <4>2, <4>3 DEF DecidedOf, Publishing, terminal
      <4>6. QED BY <4>1, <4>4, <4>5 DEF CompletionLocked, DecidedOf, terminal, RcMatchesRecord
    <3>3. QED BY <3>1, <3>2
  <2>3. CASE PublishRc(p)
    <3>1. /\ pub[p] = "rc" /\ pub' = [pub EXCEPT ![p] = "meta"]
          /\ rc' = TerminalStatus(proposal[p])
          /\ UNCHANGED <<record, accepted, command, proposal>>
      BY <2>3 DEF PublishRc
    <3>2. /\ Publishing(p) /\ ~terminal
          /\ \A q \in Publishers : q # p => ~Publishing(q)'
      BY <1>0, <3>1 DEF CompletionLocked, DecidedOf, Publishing
    <3>3. DecidedOf(p)'
      BY <1>0, <3>1, <3>2 DEF CompletionLocked, DecidedOf, Publishing, terminal
    <3>4. QED BY <3>1, <3>2, <3>3 DEF CompletionLocked, DecidedOf, terminal, RcMatchesRecord
  <2>4. CASE PublishMeta(p)
    <3>1. /\ pub[p] = "meta" /\ pub' = [pub EXCEPT ![p] = "off"]
          /\ record' = proposal[p] /\ UNCHANGED <<rc, accepted>>
          /\ command' = [k \in Commands |-> IF p = k THEN "deliver" ELSE command[k]]
      BY <2>4 DEF PublishMeta, Published
    <3>2. /\ Publishing(p) /\ rc = TerminalStatus(proposal[p]) /\ terminal'
          /\ \A k \in Commands : command[k] \notin {"captured", "accepted"}
          /\ \A q \in Publishers : ~Publishing(q)'
      BY <1>0, <3>1
         DEF CompletionLocked, DecidedOf, PublisherPlaced, Publishing, terminal
    <3>3. QED BY <3>1, <3>2 DEF CompletionLocked, DecidedOf, RcMatchesRecord
  <2>5. QED BY <1>1, <2>1, <2>2, <2>3, <2>4 DEF Publish
<1>2. ASSUME SupervisorOwn PROVE CompletionLocked'
  <2>1. CASE StartsUp
    BY <1>0, <2>1, LockedQuiet DEF StartsUp
  <2>2. CASE SpawnsWorkload
    BY <1>0, <2>2, LockedQuiet DEF SpawnsWorkload, files
  <2>3. CASE PersistsIdentity
    BY <1>0, <2>3, LockedQuiet DEF PersistsIdentity
  <2>4. CASE StartupFails
    BY <1>0, <2>4, LockedQuiet DEF StartupFails, files, Propose
  <2>5. CASE StartupExits
    BY <1>0, <2>5, LockedQuiet DEF StartupExits, ClaimsDelivery
  <2>6. CASE TopOfLoop
    BY <1>0, <2>6, LockedQuiet DEF TopOfLoop, files
  <2>7. CASE MaybeFinish
    BY <1>0, <2>7, LockedQuiet DEF MaybeFinish, files, Propose
  <2>8. CASE MarksDrained
    BY <1>0, <2>8, LockedQuiet DEF MarksDrained
  <2>9. CASE DrivesDelivery
    BY <1>0, <2>9, LockedQuiet DEF DrivesDelivery
  <2>10. CASE LeavesLoop
    BY <1>0, <2>10, LockedQuiet DEF LeavesLoop, SupervisorForgets
  <2>11. CASE ReadsSentinel
    BY <1>0, <2>11, LockedQuiet DEF ReadsSentinel, files, Propose
  <2>12. CASE CaptureFails
    BY <1>0, <2>12, LockedQuiet DEF CaptureFails, files
  <2>13. CASE ReadsOutput
    BY <1>0, <2>13, LockedQuiet DEF ReadsOutput, files
  <2>14. CASE Dispatches
    BY <1>0, <2>14, LockedQuiet DEF Dispatches, files
  <2>15. QED BY <1>2, <2>1, <2>2, <2>3, <2>4, <2>5, <2>6, <2>7, <2>8, <2>9, <2>10, <2>11,
         <2>12, <2>13, <2>14 DEF SupervisorOwn
<1>3. ASSUME GuardianOwn PROVE CompletionLocked'
  <2>1. CASE GuardianTakesOver
    BY <1>0, <2>1, LockedQuiet DEF GuardianTakesOver, files
  <2>2. CASE GuardianSweeps
    BY <1>0, <2>2, LockedQuiet DEF GuardianSweeps, files
  <2>3. CASE GuardianDischarges
    BY <1>0, <2>3, LockedQuiet DEF GuardianDischarges, GuardianForgets
  <2>4. CASE GuardianSettles
    BY <1>0, <2>4, LockedQuiet DEF GuardianSettles
  <2>5. CASE GuardianReconciles
    <3>1. CASE Propose("guardian", "supervisor-lost")
      BY <1>0, <2>5, <3>1, LockedQuiet DEF GuardianReconciles, Propose, files
    <3>2. CASE UNCHANGED <<pub, proposal>>
      BY <1>0, <2>5, <3>2, LockedQuiet DEF GuardianReconciles, files
    <3>3. QED BY <2>5, <3>1, <3>2 DEF GuardianReconciles
  <2>6. CASE GuardianDelivers
    BY <1>0, <2>6, LockedQuiet DEF GuardianDelivers
  <2>7. QED BY <1>3, <2>1, <2>2, <2>3, <2>4, <2>5, <2>6 DEF GuardianOwn
<1>4. ASSUME NEW k \in Commands, CommandCall(k) PROVE CompletionLocked'
  <2>1. CASE StatusReconciles(k)
    BY <1>0, <2>1, LockedQuiet DEF StatusReconciles, CommandFrame
  <2>2. CASE ListReconciles(k)
    BY <1>0, <2>2, LockedQuiet DEF ListReconciles, CommandFrame
  <2>3. CASE CancelReads(k)
    <3>1. CASE terminal
      <4>1. /\ UNCHANGED <<record, rc, accepted, pub, proposal>>
            /\ command' = [command EXCEPT ![k] = "terminal"]
        BY <2>3, <3>1 DEF CancelReads, CommandFrame
      <4>2. QED BY <1>0, <3>1, <4>1
                DEF CompletionLocked, DecidedOf, Publishing, terminal, RcMatchesRecord
    <3>2. CASE ~terminal
      BY <1>0, <2>3, <3>2, LockedQuiet DEF CancelReads, CommandFrame
    <3>3. QED BY <3>1, <3>2
  <2>4. CASE CancelCaptures(k)
    <3>1. /\ UNCHANGED <<record, rc, accepted, pub, proposal>>
          /\ \A p \in Publishers : ~Publishing(p)
      BY <1>0, <2>4 DEF CancelCaptures, CommandFrame, CompletionLockFree, Publishing
    <3>2. /\ \A q \in Commands : q # k => command'[q] = command[q]
          /\ command'[k] \in {"captured", "accepted"} => ~terminal
          /\ command'[k] = "terminal" => terminal
      BY <1>0, <2>4 DEF CancelCaptures, CommandFrame
    <3>3. QED BY <3>1, <3>2
              DEF CompletionLocked, DecidedOf, Publishing, terminal, RcMatchesRecord
  <2>5. CASE CancelAccepts(k)
    <3>1. \A p \in Publishers : ~Publishing(p)
      BY <2>5 DEF CancelAccepts, CompletionLocked, DecidedOf
    <3>2. /\ UNCHANGED <<record, rc, pub, proposal>>
          /\ command' = [command EXCEPT ![k] = "accepted"] /\ command[k] = "captured"
      BY <2>5 DEF CancelAccepts, CommandFrame
    <3>3. QED BY <1>0, <3>1, <3>2
              DEF CompletionLocked, DecidedOf, Publishing, terminal, RcMatchesRecord
  <2>6. CASE CancelWakes(k)
    BY <1>0, <2>6, LockedQuiet DEF CancelWakes, CommandFrame
  <2>7. CASE CancelTerminal(k)
    <3>1. /\ UNCHANGED <<record, rc, pub, proposal>>
          /\ command' = [command EXCEPT ![k] = "idle"] /\ command[k] = "terminal"
      BY <2>7 DEF CancelTerminal, CommandFrame
    <3>2. terminal /\ \A p \in Publishers : ~Publishing(p)
      BY <3>1 DEF CompletionLocked, DecidedOf
    <3>3. QED BY <1>0, <3>1, <3>2
              DEF CompletionLocked, DecidedOf, Publishing, terminal, RcMatchesRecord
  <2>8. CASE CommandReconciles(k)
    <3>1. CASE CommandFrame(k, command[k]) /\ Propose(k, "supervisor-lost")
      BY <1>0, <2>8, <3>1, LockedQuiet DEF CommandReconciles, Propose, CommandFrame
    <3>2. CASE UNCHANGED <<pub, proposal>>
      BY <1>0, <2>8, <3>2, LockedQuiet DEF CommandReconciles, CommandFrame
    <3>3. QED BY <2>8, <3>1, <3>2 DEF CommandReconciles
  <2>9. CASE CommandDelivers(k)
    BY <1>0, <2>9, LockedQuiet DEF CommandDelivers, CommandFrame, ClaimsDelivery
  <2>10. CASE KillCommand(k)
    BY <1>0, <2>10, LockedQuiet DEF KillCommand, CommandFrame
  <2>11. QED BY <1>4, <2>1, <2>2, <2>3, <2>4, <2>5, <2>6, <2>7, <2>8, <2>9,
  <2>10 DEF CommandCall
<1>5. CASE RootExecs
  BY <1>0, <1>5, LockedQuiet DEF RootExecs, WorkloadFrame, files
<1>6. CASE OrphansReaped
  BY <1>0, <1>6, LockedQuiet DEF OrphansReaped, WorkloadFrame, files
<1>7. ASSUME NEW p \in Workload, ProcessStep(p) PROVE CompletionLocked'
  <2>1. CASE Detaches(p)
    BY <1>0, <2>1, LockedQuiet DEF Detaches, WorkloadFrame, files
  <2>2. CASE Exits(p)
    BY <1>0, <2>2, LockedQuiet DEF Exits, WorkloadFrame, files
  <2>3. CASE \E q \in Workload : Forks(p, q)
    BY <1>0, <2>3, LockedQuiet DEF Forks, WorkloadFrame, files
  <2>4. QED BY <1>7, <2>1, <2>2, <2>3 DEF ProcessStep
<1>8. ASSUME NEW o \in Owners, GraceElapses(o) PROVE CompletionLocked'
  <2>1. CASE GraceElapses(o)
    BY <1>0, <2>1, LockedQuiet DEF GraceElapses, files
  <2>2. QED BY <1>8, <2>1 DEF GraceElapses
<1>9. CASE KillSupervisor
  BY <1>0, <1>9, LockedQuiet DEF KillSupervisor, files, SupervisorForgets
<1>10. CASE KillGuardian
  BY <1>0, <1>10, LockedQuiet DEF KillGuardian, files, GuardianForgets
<1>11. CASE TransferExits
  BY <1>0, <1>11, LockedQuiet DEF TransferExits
<1>12. CASE UNCHANGED vars
  BY <1>0, <1>12, LockedQuiet DEF vars, files
<1>13. QED BY <1>1, <1>2, <1>3, <1>4, <1>5, <1>6, <1>7, <1>8, <1>9, <1>10, <1>11, <1>12,
NextCases

-----------------------------------------------------------------------------
(* The evidence of an empty tree *)

Quiet == \A p \in Workload : proc[p] \in {"unborn", "reaped"}

\* What either owner concludes from ECHILD stays true: nothing is marked before the
\* root is spawned, the guardian looks only after the supervisor's death, and a
\* workload without a process never has one again.
EmptyIsTrue ==
    /\ sup \in {"starting", "spawning"} =>
          ~drained /\ custody /\ ~tree_empty /\ ~empty /\ Quiet
    /\ guard = "waiting" => ~empty
    /\ guard \in {"sweep", "settle", "reconcile", "deliver", "returned"} => ~SupervisorAlive
    /\ tree_empty \/ empty \/ drained \/ ~custody => Quiet

\* Every action keeps the evidence true.
LEMMA EmptyIsTrueStep ==
    ASSUME TypeOK, PublisherPlaced, EmptyIsTrue, [Next]_vars
    PROVE  EmptyIsTrue'
<1>0. /\ proc \in [Workload -> ProcStates] /\ Root \in Workload
      /\ Publishers = {"supervisor", "guardian"} \cup Commands
      /\ "supervisor" \notin Commands /\ "guardian" \notin Commands
  BY CommandsAssumption DEF TypeOK, ProcStates, Workload, Publishers, Owners
<1> USE DEF EmptyIsTrue, SupervisorAlive
<1>1. ASSUME NEW p \in Publishers, Publish(p) PROVE EmptyIsTrue'
  <2>1. CASE PublishDefers(p)
    <3>1. p = "supervisor" /\ sup \in {"finish", "sentinel"}
      BY <1>0, <2>1 DEF PublishDefers, Deferred, LiveLoop, PublisherPlaced
    <3>2. QED BY <2>1, <3>1 DEF PublishDefers, files, tree, guarding, Quiet
  <2>2. CASE PublishBegins(p)
    <3>0. /\ UNCHANGED <<proc, tree_empty, empty, custody>>
          /\ p = "supervisor" => sup \in {"error", "finish", "sentinel"}
          /\ guard' \in {guard, "deliver"} /\ (guard' # guard => guard = "reconcile")
      BY <1>0, <2>2 DEF PublishBegins, Published, PublisherPlaced, tree, guarding
    <3>1. CASE terminal
      <4>1. UNCHANGED drained /\ (sup' = sup \/ sup' \in {"claiming", "mark", "dispatch"})
        BY <1>0, <2>2, <3>0, <3>1 DEF PublishBegins, Published
      <4>2. sup' # sup => SupervisorAlive
        BY <1>0, <2>2, <3>0, <3>1 DEF PublishBegins, Published
      <4>3. QED BY <3>0, <4>1, <4>2 DEF Quiet
    <3>2. CASE ~terminal
      <4>1. UNCHANGED <<sup, guard>>
        BY <2>2, <3>2 DEF PublishBegins
      <4>2. drained' => drained \/ (tree_empty /\ p = "supervisor")
        BY <2>2, <3>2 DEF PublishBegins, LiveLoop
      <4>3. QED BY <3>0, <4>1, <4>2 DEF Quiet
    <3>3. QED BY <3>1, <3>2
  <2>3. CASE PublishRc(p)
    BY <1>0, <2>3 DEF PublishRc, tree, loop, guarding, Quiet
  <2>4. CASE PublishMeta(p)
    <3>0. /\ UNCHANGED <<proc, tree_empty, empty, custody>>
          /\ p = "supervisor" => sup \in {"error", "finish", "sentinel"}
          /\ guard' \in {guard, "deliver"} /\ (guard' # guard => guard = "reconcile")
      BY <1>0, <2>4 DEF PublishMeta, Published, PublisherPlaced, tree, guarding
    <3>1. UNCHANGED drained /\ (sup' = sup \/ sup' \in {"claiming", "mark", "dispatch"})
      BY <1>0, <2>4, <3>0 DEF PublishMeta, Published
    <3>2. sup' # sup => SupervisorAlive
      BY <1>0, <2>4, <3>0 DEF PublishMeta, Published
    <3>3. QED BY <3>0, <3>1, <3>2 DEF Quiet
  <2>5. QED BY <1>1, <2>1, <2>2, <2>3, <2>4 DEF Publish
<1>2. ASSUME SupervisorOwn PROVE EmptyIsTrue'
  <2>1. CASE StartsUp
    BY <1>0, <2>1 DEF StartsUp, tree, loop, guarding, Quiet
  <2>2. CASE SpawnsWorkload
    BY <1>0, <2>2 DEF SpawnsWorkload, files, loop, guarding, Quiet
  <2>3. CASE PersistsIdentity
    BY <1>0, <2>3 DEF PersistsIdentity, tree, loop, guarding, Quiet
  <2>4. CASE StartupFails
    BY <1>0, <2>4 DEF StartupFails, files, tree, loop, guarding, Quiet
  <2>5. CASE StartupExits
    BY <1>0, <2>5 DEF StartupExits, tree, loop, guarding, Quiet
  <2>6. CASE TopOfLoop
    <3>1. /\ sup' = "finish" /\ sup = "top"
          /\ UNCHANGED <<drained, custody, tree_empty, empty, guard>>
      BY <2>6 DEF TopOfLoop, files, guarding
    <3>2. \A p \in Workload : proc[p] \in {"unborn", "reaped"} => proc'[p] = proc[p]
      BY <1>0, <2>6, SweepFacts DEF TopOfLoop
    <3>3. QED BY <3>1, <3>2 DEF Quiet
  <2>7. CASE MaybeFinish
    BY <1>0, <2>7 DEF MaybeFinish, files, tree, loop, guarding, Quiet
  <2>8. CASE MarksDrained
    BY <1>0, <2>8 DEF MarksDrained, tree, loop, guarding, Quiet
  <2>9. CASE DrivesDelivery
    BY <1>0, <2>9 DEF DrivesDelivery, guarding, Quiet
  <2>10. CASE LeavesLoop
    BY <1>0, <2>10
       DEF LeavesLoop, tree, loop, guarding, EndPhysicalCustody, SupervisorForgets, Quiet
  <2>11. CASE ReadsSentinel
    BY <1>0, <2>11 DEF ReadsSentinel, files, tree, loop, guarding, Quiet
  <2>12. CASE CaptureFails
    BY <1>0, <2>12 DEF CaptureFails, files, tree, guarding, Quiet
  <2>13. CASE ReadsOutput
    BY <1>0, <2>13 DEF ReadsOutput, files, tree, loop, guarding, Quiet
  <2>14. CASE Dispatches
    <3>1. /\ sup' = "top" /\ sup = "dispatch"
          /\ UNCHANGED <<drained, custody, empty, guard>>
          /\ proc' = Reaped(proc) /\ tree_empty' = NoChild(proc', transfer')
      BY <2>14 DEF Dispatches, files, guarding
    <3>2. \A p \in Workload : proc[p] \in {"unborn", "reaped"} => proc'[p] = proc[p]
      BY <1>0, <3>1, ReapedFacts
    <3>3. QED BY <3>1, <3>2 DEF Quiet, NoChild
  <2>15. QED BY <1>2, <2>1, <2>2, <2>3, <2>4, <2>5, <2>6, <2>7, <2>8, <2>9, <2>10, <2>11,
         <2>12, <2>13, <2>14 DEF SupervisorOwn
<1>3. ASSUME GuardianOwn PROVE EmptyIsTrue'
  <2>1. CASE GuardianTakesOver
    BY <1>0, <2>1 DEF GuardianTakesOver, files, tree, loop, Quiet
  <2>2. CASE GuardianSweeps
    <3>1. /\ guard' = "settle" /\ guard = "sweep"
          /\ UNCHANGED <<drained, custody, tree_empty, sup>>
          /\ empty' = NoChild(proc', transfer')
      BY <2>2 DEF GuardianSweeps, files, loop
    <3>2. PICK swept \in Sweep(proc, IF cancelling' THEN escalation'["guardian"] ELSE "none") :
             proc' = Reaped(swept)
      BY <2>2 DEF GuardianSweeps
    <3>3. \A p \in Workload : proc[p] \in {"unborn", "reaped"} => proc'[p] = proc[p]
      BY <1>0, <3>2, SweepFacts, ReapedFacts
    <3>4. QED BY <3>1, <3>3 DEF Quiet, NoChild
  <2>3. CASE GuardianDischarges
    BY <1>0, <2>3
       DEF GuardianDischarges, tree, loop, EndPhysicalCustody, GuardianForgets, Quiet
  <2>4. CASE GuardianSettles
    BY <1>0, <2>4 DEF GuardianSettles, tree, loop, guarding, Quiet
  <2>5. CASE GuardianReconciles
    BY <1>0, <2>5 DEF GuardianReconciles, files, tree, loop, guarding, Quiet
  <2>6. CASE GuardianDelivers
    BY <1>0, <2>6 DEF GuardianDelivers, loop, Quiet
  <2>7. QED BY <1>3, <2>1, <2>2, <2>3, <2>4, <2>5, <2>6 DEF GuardianOwn
<1>4. ASSUME NEW k \in Commands, CommandCall(k) PROVE EmptyIsTrue'
  <2>1. CASE StatusReconciles(k)
    BY <1>0, <2>1 DEF StatusReconciles, CommandFrame, tree, loop, guarding, Quiet
  <2>2. CASE ListReconciles(k)
    BY <1>0, <2>2 DEF ListReconciles, CommandFrame, tree, loop, guarding, Quiet
  <2>3. CASE CancelReads(k)
    BY <1>0, <2>3 DEF CancelReads, CommandFrame, tree, loop, guarding, Quiet
  <2>4. CASE CancelCaptures(k)
    BY <1>0, <2>4 DEF CancelCaptures, CommandFrame, tree, loop, guarding, Quiet
  <2>5. CASE CancelAccepts(k)
    BY <1>0, <2>5 DEF CancelAccepts, CommandFrame, tree, loop, guarding, Quiet
  <2>6. CASE CancelWakes(k)
    BY <1>0, <2>6 DEF CancelWakes, CommandFrame, tree, loop, guarding, Quiet
  <2>7. CASE CancelTerminal(k)
    BY <1>0, <2>7 DEF CancelTerminal, CommandFrame, tree, loop, guarding, Quiet
  <2>8. CASE CommandReconciles(k)
    BY <1>0, <2>8 DEF CommandReconciles, CommandFrame, tree, loop, guarding, Quiet
  <2>9. CASE CommandDelivers(k)
    BY <1>0, <2>9 DEF CommandDelivers, CommandFrame, tree, loop, guarding, Quiet
  <2>10. CASE KillCommand(k)
    BY <1>0, <2>10 DEF KillCommand, CommandFrame, tree, loop, guarding, Quiet
  <2>11. QED BY <1>4, <2>1, <2>2, <2>3, <2>4, <2>5, <2>6, <2>7, <2>8, <2>9,
  <2>10 DEF CommandCall
<1>5. CASE RootExecs
  <2>1. ~Quiet /\ UNCHANGED <<drained, custody, tree_empty, empty, sup, guard>>
    BY <1>0, <1>5 DEF RootExecs, Alive, WorkloadFrame, files, loop, guarding, Quiet
  <2>2. QED BY <2>1
<1>6. CASE OrphansReaped
  <2>1. /\ UNCHANGED <<drained, custody, tree_empty, empty, sup, guard>>
        /\ proc' = Reaped(proc) /\ ~SupervisorAlive
    BY <1>6 DEF OrphansReaped, WorkloadFrame, files, loop, guarding
  <2>2. \A p \in Workload : proc[p] \in {"unborn", "reaped"} => proc'[p] = proc[p]
    BY <1>0, <2>1, ReapedFacts
  <2>3. QED BY <2>1, <2>2 DEF Quiet
<1>7. ASSUME NEW p \in Workload, ProcessStep(p) PROVE EmptyIsTrue'
  <2>1. CASE Detaches(p)
    <3>1. ~Quiet /\ UNCHANGED <<drained, custody, tree_empty, empty, sup, guard>>
      BY <1>0, <2>1 DEF Detaches, Alive, WorkloadFrame, files, loop, guarding, Quiet
    <3>2. QED BY <3>1
  <2>2. CASE Exits(p)
    <3>1. ~Quiet /\ UNCHANGED <<drained, custody, tree_empty, empty, sup, guard>>
      BY <1>0, <2>2 DEF Exits, Alive, WorkloadFrame, files, loop, guarding, Quiet
    <3>2. QED BY <3>1
  <2>3. CASE \E q \in Workload : Forks(p, q)
    <3>1. ~Quiet /\ UNCHANGED <<drained, custody, tree_empty, empty, sup, guard>>
      BY <1>0, <2>3 DEF Forks, WorkloadFrame, files, loop, guarding, Quiet
    <3>2. QED BY <3>1
  <2>4. QED BY <1>7, <2>1, <2>2, <2>3 DEF ProcessStep
<1>8. ASSUME NEW o \in Owners, GraceElapses(o) PROVE EmptyIsTrue'
  <2>1. CASE GraceElapses(o)
    BY <1>0, <2>1 DEF GraceElapses, files, tree, loop, guarding, Quiet
  <2>2. QED BY <1>8, <2>1 DEF GraceElapses
<1>9. CASE KillSupervisor
  BY <1>0, <1>9 DEF KillSupervisor, files, tree, guarding, SupervisorForgets, Quiet
<1>10. CASE KillGuardian
  BY <1>0, <1>10 DEF KillGuardian, files, tree, loop, GuardianForgets, Quiet
<1>11. CASE TransferExits
  BY <1>0, <1>11 DEF TransferExits, loop, guarding, Quiet
<1>12. CASE UNCHANGED vars
  BY <1>0, <1>12 DEF vars, files, tree, loop, guarding, Quiet
<1>13. QED BY <1>1, <1>2, <1>3, <1>4, <1>5, <1>6, <1>7, <1>8, <1>9, <1>10, <1>11, <1>12,
NextCases

-----------------------------------------------------------------------------
(* Discharge follows the record *)

\* The event loop remembers only a record that is on disk, the supervisor exits
\* cleanly only after it, and an exit-mode handle is reconciled or discharged only
\* once it is terminal.
DischargedIsTerminal ==
    /\ recorded \/ sup = "exited" => terminal
    /\ mode = "exit" /\ (guard = "deliver" \/ reconciled \/ ~custody) => terminal

\* Every action keeps discharge behind the record.
LEMMA DischargedStep ==
    ASSUME TypeOK, PublisherPlaced, CompletionLocked, EmptyIsTrue, DischargedIsTerminal,
           [Next]_vars
    PROVE  DischargedIsTerminal'
<1>0. /\ Publishers = {"supervisor", "guardian"} \cup Commands
      /\ "supervisor" \notin Commands /\ "guardian" \notin Commands
      /\ "running" \notin Reasons
  BY CommandsAssumption DEF Publishers, Owners, Reasons, Cancellations, Causes
<1>00. \A p \in Publishers : Publishing(p) => ~terminal
  BY DEF CompletionLocked, DecidedOf
<1> USE DEF DischargedIsTerminal, terminal
<1>1. ASSUME NEW p \in Publishers, Publish(p) PROVE DischargedIsTerminal'
  <2>1. CASE PublishDefers(p)
    <3>1. p = "supervisor" /\ sup \in {"finish", "sentinel"}
      BY <1>0, <2>1 DEF PublishDefers, Deferred, LiveLoop, PublisherPlaced
    <3>2. QED BY <2>1, <3>1 DEF PublishDefers, files, guarding
  <2>2. CASE PublishBegins(p)
    <3>1. CASE terminal
      BY <1>0, <2>2, <3>1 DEF PublishBegins, Published, PublisherPlaced, guarding
    <3>2. CASE ~terminal
      BY <1>0, <2>2, <3>2 DEF PublishBegins, guarding
    <3>3. QED BY <3>1, <3>2
  <2>3. CASE PublishRc(p)
    BY <1>0, <2>3 DEF PublishRc, loop, guarding
  <2>4. CASE PublishMeta(p)
    <3>1. terminal'
      BY <1>0, <2>4 DEF PublishMeta, PublisherPlaced
    <3>2. QED BY <3>1
  <2>5. QED BY <1>1, <2>1, <2>2, <2>3, <2>4 DEF Publish
<1>2. ASSUME SupervisorOwn PROVE DischargedIsTerminal'
  <2>1. CASE StartsUp
    BY <1>0, <2>1 DEF StartsUp, loop, guarding
  <2>2. CASE SpawnsWorkload
    BY <1>0, <2>2 DEF SpawnsWorkload, files, loop, guarding
  <2>3. CASE PersistsIdentity
    BY <1>0, <2>3 DEF PersistsIdentity, loop, guarding
  <2>4. CASE StartupFails
    BY <1>0, <2>4 DEF StartupFails, files, loop, guarding
  <2>5. CASE StartupExits
    BY <1>0, <2>5 DEF StartupExits, loop, guarding
  <2>6. CASE TopOfLoop
    BY <1>0, <2>6 DEF TopOfLoop, files, guarding
  <2>7. CASE MaybeFinish
    BY <1>0, <2>7 DEF MaybeFinish, files, loop, guarding
  <2>8. CASE MarksDrained
    BY <1>0, <2>8 DEF MarksDrained, loop, guarding
  <2>9. CASE DrivesDelivery
    BY <1>0, <2>9 DEF DrivesDelivery, guarding
  <2>10. CASE LeavesLoop
    BY <1>0, <2>10
       DEF LeavesLoop, loop, guarding, EndPhysicalCustody, SupervisorForgets, should_exit
  <2>11. CASE ReadsSentinel
    BY <1>0, <2>11 DEF ReadsSentinel, files, loop, guarding
  <2>12. CASE CaptureFails
    BY <1>0, <2>12 DEF CaptureFails, files, guarding
  <2>13. CASE ReadsOutput
    BY <1>0, <2>13 DEF ReadsOutput, files, loop, guarding
  <2>14. CASE Dispatches
    BY <1>0, <2>14 DEF Dispatches, files, guarding
  <2>15. QED BY <1>2, <2>1, <2>2, <2>3, <2>4, <2>5, <2>6, <2>7, <2>8, <2>9, <2>10, <2>11,
         <2>12, <2>13, <2>14 DEF SupervisorOwn
<1>3. ASSUME GuardianOwn PROVE DischargedIsTerminal'
  <2>1. CASE GuardianTakesOver
    BY <1>0, <2>1 DEF GuardianTakesOver, files, loop
  <2>2. CASE GuardianSweeps
    BY <1>0, <2>2 DEF GuardianSweeps, files, loop
  <2>3. CASE GuardianDischarges
    BY <1>0, <2>3 DEF GuardianDischarges, loop, EndPhysicalCustody, GuardianForgets
  <2>4. CASE GuardianSettles
    BY <1>0, <2>4 DEF GuardianSettles, loop, guarding
  <2>5. CASE GuardianReconciles
    BY <1>0, <2>5 DEF GuardianReconciles, files, loop, guarding
  <2>6. CASE GuardianDelivers
    BY <1>0, <2>6 DEF GuardianDelivers, loop
  <2>7. QED BY <1>3, <2>1, <2>2, <2>3, <2>4, <2>5, <2>6 DEF GuardianOwn
<1>4. ASSUME NEW k \in Commands, CommandCall(k) PROVE DischargedIsTerminal'
  <2>1. CASE StatusReconciles(k)
    BY <1>0, <2>1 DEF StatusReconciles, CommandFrame, loop, guarding
  <2>2. CASE ListReconciles(k)
    BY <1>0, <2>2 DEF ListReconciles, CommandFrame, loop, guarding
  <2>3. CASE CancelReads(k)
    BY <1>0, <2>3 DEF CancelReads, CommandFrame, loop, guarding
  <2>4. CASE CancelCaptures(k)
    BY <1>0, <2>4 DEF CancelCaptures, CommandFrame, loop, guarding
  <2>5. CASE CancelAccepts(k)
    BY <1>0, <2>5 DEF CancelAccepts, CommandFrame, loop, guarding
  <2>6. CASE CancelWakes(k)
    BY <1>0, <2>6 DEF CancelWakes, CommandFrame, loop, guarding
  <2>7. CASE CancelTerminal(k)
    BY <1>0, <2>7 DEF CancelTerminal, CommandFrame, loop, guarding
  <2>8. CASE CommandReconciles(k)
    BY <1>0, <2>8 DEF CommandReconciles, CommandFrame, loop, guarding
  <2>9. CASE CommandDelivers(k)
    BY <1>0, <2>9 DEF CommandDelivers, CommandFrame, loop, guarding
  <2>10. CASE KillCommand(k)
    BY <1>0, <2>10 DEF KillCommand, CommandFrame, loop, guarding
  <2>11. QED BY <1>4, <2>1, <2>2, <2>3, <2>4, <2>5, <2>6, <2>7, <2>8, <2>9,
  <2>10 DEF CommandCall
<1>5. CASE RootExecs
  BY <1>0, <1>5 DEF RootExecs, WorkloadFrame, files, loop, guarding
<1>6. CASE OrphansReaped
  BY <1>0, <1>6 DEF OrphansReaped, WorkloadFrame, files, loop, guarding
<1>7. ASSUME NEW p \in Workload, ProcessStep(p) PROVE DischargedIsTerminal'
  <2>1. CASE Detaches(p)
    BY <1>0, <2>1 DEF Detaches, WorkloadFrame, files, loop, guarding
  <2>2. CASE Exits(p)
    BY <1>0, <2>2 DEF Exits, WorkloadFrame, files, loop, guarding
  <2>3. CASE \E q \in Workload : Forks(p, q)
    BY <1>0, <2>3 DEF Forks, WorkloadFrame, files, loop, guarding
  <2>4. QED BY <1>7, <2>1, <2>2, <2>3 DEF ProcessStep
<1>8. ASSUME NEW o \in Owners, GraceElapses(o) PROVE DischargedIsTerminal'
  <2>1. CASE GraceElapses(o)
    BY <1>0, <2>1 DEF GraceElapses, files, loop, guarding
  <2>2. QED BY <1>8, <2>1 DEF GraceElapses
<1>9. CASE KillSupervisor
  BY <1>0, <1>9 DEF KillSupervisor, files, guarding, SupervisorForgets
<1>10. CASE KillGuardian
  BY <1>0, <1>10 DEF KillGuardian, files, loop, GuardianForgets
<1>11. CASE TransferExits
  BY <1>0, <1>11 DEF TransferExits, loop, guarding
<1>12. CASE UNCHANGED vars
  BY <1>0, <1>12 DEF vars, files, loop, guarding
<1>13. QED BY <1>1, <1>2, <1>3, <1>4, <1>5, <1>6, <1>7, <1>8, <1>9, <1>10, <1>11, <1>12,
NextCases

-----------------------------------------------------------------------------
(* Theorems *)

SupervisionInv ==
    /\ TypeOK /\ PublisherPlaced /\ CompletionLocked
    /\ EmptyIsTrue /\ DischargedIsTerminal

\* The inductive invariant holds at the start ...
LEMMA SupervisionInit == Init => SupervisionInv
<1> SUFFICES ASSUME Init PROVE SupervisionInv
  OBVIOUS
<1>1. TypeOK
  BY DEF Init, TypeOK, Causes
<1>2. PublisherPlaced
  BY DEF Init, PublisherPlaced, Publishers, Owners
<1>3. CompletionLocked
  BY DEF Init, CompletionLocked, DecidedOf, Publishing, terminal, RcMatchesRecord
<1>4. EmptyIsTrue
  BY DEF Init, EmptyIsTrue, Quiet
<1>5. DischargedIsTerminal
  BY DEF Init, DischargedIsTerminal
<1>6. QED BY <1>1, <1>2, <1>3, <1>4, <1>5 DEF SupervisionInv

\* ... and every step keeps it.
LEMMA SupervisionStep == SupervisionInv /\ [Next]_vars => SupervisionInv'
  BY TypeStep, PublisherPlacedStep, CompletionLockedStep, EmptyIsTrueStep, DischargedStep
     DEF SupervisionInv

\* The invariant of supervision, for every set of workload processes and commands.
LEMMA SupervisionHolds == Spec => []SupervisionInv
  BY SupervisionInit, SupervisionStep, PTL DEF Spec

\* Type correctness of supervision, whatever may be killed.
THEOREM SupervisionTypeCorrect == Spec => []TypeOK
<1>1. SupervisionInv => TypeOK
  BY DEF SupervisionInv
<1>2. QED BY <1>1, SupervisionHolds, PTL

\* A terminal record and the rc file agree although a crash may fall between the
\* two writes of publish_terminal_with_delivery_disposition.
THEOREM RcAgrees == Spec => []RcMatchesRecord
<1>1. SupervisionInv => RcMatchesRecord
  BY DEF SupervisionInv, CompletionLocked
<1>2. QED BY <1>1, SupervisionHolds, PTL

\* cancellation-drained and the discharged custody marker are true evidence: no
\* process of the workload is left (mark_cancellation_drained, end_physical_custody).
THEOREM DrainEvidence == Spec => []DrainedIsTrue
<1>1. SupervisionInv => DrainedIsTrue
  BY DEF SupervisionInv, EmptyIsTrue, Quiet, DrainedIsTrue
<1>2. QED BY <1>1, SupervisionHolds, PTL

\* While a process of the workload lives the custody marker is on disk, however the
\* owners die.
THEOREM CustodyCovers == Spec => []CustodyCoversTree
<1>1. SupervisionInv => CustodyCoversTree
  BY DEF SupervisionInv, EmptyIsTrue, Quiet, CustodyCoversTree, Alive
<1>2. QED BY <1>1, SupervisionHolds, PTL

\* Only the publication writes the record (publish_terminal_with_delivery_disposition).
LEMMA RecordWrittenOnce ==
    ASSUME SupervisionInv, [Next]_vars, record' # record
    PROVE  ~terminal /\ (accepted => record' = "cancel-request")
<1>1. ASSUME NEW p \in Publishers, Publish(p)
      PROVE  ~terminal /\ (accepted => record' = "cancel-request")
  <2>1. CASE PublishDefers(p)
    BY <2>1 DEF PublishDefers, files
  <2>2. CASE PublishBegins(p)
    BY <2>2 DEF PublishBegins
  <2>3. CASE PublishRc(p)
    BY <2>3 DEF PublishRc
  <2>4. CASE PublishMeta(p)
    BY <2>4 DEF PublishMeta, SupervisionInv, CompletionLocked, DecidedOf, Publishing
  <2>5. QED BY <1>1, <2>1, <2>2, <2>3, <2>4 DEF Publish
<1>2. ASSUME SupervisorOwn PROVE ~terminal /\ (accepted => record' = "cancel-request")
  <2>1. CASE StartsUp
    BY <2>1 DEF StartsUp
  <2>2. CASE SpawnsWorkload
    BY <2>2 DEF SpawnsWorkload, files
  <2>3. CASE PersistsIdentity
    BY <2>3 DEF PersistsIdentity
  <2>4. CASE StartupFails
    BY <2>4 DEF StartupFails, files
  <2>5. CASE StartupExits
    BY <2>5 DEF StartupExits
  <2>6. CASE TopOfLoop
    BY <2>6 DEF TopOfLoop, files
  <2>7. CASE MaybeFinish
    BY <2>7 DEF MaybeFinish, files
  <2>8. CASE MarksDrained
    BY <2>8 DEF MarksDrained
  <2>9. CASE DrivesDelivery
    BY <2>9 DEF DrivesDelivery
  <2>10. CASE LeavesLoop
    BY <2>10 DEF LeavesLoop
  <2>11. CASE ReadsSentinel
    BY <2>11 DEF ReadsSentinel, files
  <2>12. CASE CaptureFails
    BY <2>12 DEF CaptureFails, files
  <2>13. CASE ReadsOutput
    BY <2>13 DEF ReadsOutput, files
  <2>14. CASE Dispatches
    BY <2>14 DEF Dispatches, files
  <2>15. QED BY <1>2, <2>1, <2>2, <2>3, <2>4, <2>5, <2>6, <2>7, <2>8, <2>9, <2>10, <2>11,
         <2>12, <2>13, <2>14 DEF SupervisorOwn
<1>3. ASSUME GuardianOwn PROVE ~terminal /\ (accepted => record' = "cancel-request")
  <2>1. CASE GuardianTakesOver
    BY <2>1 DEF GuardianTakesOver, files
  <2>2. CASE GuardianSweeps
    BY <2>2 DEF GuardianSweeps, files
  <2>3. CASE GuardianDischarges
    BY <2>3 DEF GuardianDischarges
  <2>4. CASE GuardianSettles
    BY <2>4 DEF GuardianSettles
  <2>5. CASE GuardianReconciles
    BY <2>5 DEF GuardianReconciles, files
  <2>6. CASE GuardianDelivers
    BY <2>6 DEF GuardianDelivers
  <2>7. QED BY <1>3, <2>1, <2>2, <2>3, <2>4, <2>5, <2>6 DEF GuardianOwn
<1>4. ASSUME NEW k \in Commands, CommandCall(k)
      PROVE  ~terminal /\ (accepted => record' = "cancel-request")
  <2>1. CASE StatusReconciles(k)
    BY <2>1 DEF StatusReconciles, CommandFrame
  <2>2. CASE ListReconciles(k)
    BY <2>2 DEF ListReconciles, CommandFrame
  <2>3. CASE CancelReads(k)
    BY <2>3 DEF CancelReads, CommandFrame
  <2>4. CASE CancelCaptures(k)
    BY <2>4 DEF CancelCaptures, CommandFrame
  <2>5. CASE CancelAccepts(k)
    BY <2>5 DEF CancelAccepts, CommandFrame
  <2>6. CASE CancelWakes(k)
    BY <2>6 DEF CancelWakes, CommandFrame
  <2>7. CASE CancelTerminal(k)
    BY <2>7 DEF CancelTerminal, CommandFrame
  <2>8. CASE CommandReconciles(k)
    BY <2>8 DEF CommandReconciles, CommandFrame
  <2>9. CASE CommandDelivers(k)
    BY <2>9 DEF CommandDelivers, CommandFrame
  <2>10. CASE KillCommand(k)
    BY <2>10 DEF KillCommand, CommandFrame
  <2>11. QED BY <1>4, <2>1, <2>2, <2>3, <2>4, <2>5, <2>6, <2>7, <2>8, <2>9,
  <2>10 DEF CommandCall
<1>5. CASE RootExecs
  BY <1>5 DEF RootExecs, WorkloadFrame, files
<1>6. CASE OrphansReaped
  BY <1>6 DEF OrphansReaped, WorkloadFrame, files
<1>7. ASSUME NEW p \in Workload, ProcessStep(p)
      PROVE  ~terminal /\ (accepted => record' = "cancel-request")
  <2>1. CASE Detaches(p)
    BY <2>1 DEF Detaches, WorkloadFrame, files
  <2>2. CASE Exits(p)
    BY <2>2 DEF Exits, WorkloadFrame, files
  <2>3. CASE \E q \in Workload : Forks(p, q)
    BY <2>3 DEF Forks, WorkloadFrame, files
  <2>4. QED BY <1>7, <2>1, <2>2, <2>3 DEF ProcessStep
<1>8. ASSUME NEW o \in Owners, GraceElapses(o)
      PROVE  ~terminal /\ (accepted => record' = "cancel-request")
  <2>1. CASE GraceElapses(o)
    BY <2>1 DEF GraceElapses, files
  <2>2. QED BY <1>8, <2>1 DEF GraceElapses
<1>9. CASE KillSupervisor
  BY <1>9 DEF KillSupervisor, files
<1>10. CASE KillGuardian
  BY <1>10 DEF KillGuardian, files
<1>11. CASE TransferExits
  BY <1>11 DEF TransferExits
<1>12. CASE UNCHANGED vars
  BY <1>12 DEF vars, files
<1>13. QED BY <1>1, <1>2, <1>3, <1>4, <1>5, <1>6, <1>7, <1>8, <1>9, <1>10, <1>11, <1>12,
NextCases

\* A terminal record is never rewritten, whichever of supervisor, guardian and
\* commands publish from what they read before completion.lock.
THEOREM TerminalRecordIsFinal == Spec => TerminalIsFinal
<1>1. SupervisionInv /\ [Next]_vars => [record # "running" => record' = record]_vars
  BY RecordWrittenOnce DEF terminal
<1>2. QED BY <1>1, SupervisionHolds, PTL DEF Spec, TerminalIsFinal

\* A record that becomes terminal after an accepted cancellation says so, whoever
\* publishes it (finalize_terminal_proposal).
THEOREM CancelWins == Spec => CancelPrecedence
<1>1. SupervisionInv /\ [Next]_vars =>
         [~terminal /\ record' # record /\ accepted => record' = "cancel-request"]_vars
  BY RecordWrittenOnce
<1>2. QED BY <1>1, SupervisionHolds, PTL DEF Spec, CancelPrecedence

\* Only a cancel command that holds completion.lock on a running record, or finds
\* the custody marker of a finished one, accepts (record_explicit_cancel_acceptance,
\* accept_terminal_custody_cancel).
LEMMA AcceptanceWritten ==
    ASSUME [Next]_vars, ~accepted, accepted'
    PROVE  \E c \in Commands : command[c] = "captured" \/ (command[c] = "terminal" /\ custody)
<1>1. ASSUME NEW p \in Publishers, Publish(p)
      PROVE  \E c \in Commands : command[c] = "captured" \/ (command[c] = "terminal" /\ custody)
  <2>1. CASE PublishDefers(p)
    BY <2>1 DEF PublishDefers, files
  <2>2. CASE PublishBegins(p)
    BY <2>2 DEF PublishBegins
  <2>3. CASE PublishRc(p)
    BY <2>3 DEF PublishRc
  <2>4. CASE PublishMeta(p)
    BY <2>4 DEF PublishMeta
  <2>5. QED BY <1>1, <2>1, <2>2, <2>3, <2>4 DEF Publish
<1>2. ASSUME SupervisorOwn
      PROVE  \E c \in Commands : command[c] = "captured" \/ (command[c] = "terminal" /\ custody)
  <2>1. CASE StartsUp
    BY <2>1 DEF StartsUp
  <2>2. CASE SpawnsWorkload
    BY <2>2 DEF SpawnsWorkload, files
  <2>3. CASE PersistsIdentity
    BY <2>3 DEF PersistsIdentity
  <2>4. CASE StartupFails
    BY <2>4 DEF StartupFails, files
  <2>5. CASE StartupExits
    BY <2>5 DEF StartupExits
  <2>6. CASE TopOfLoop
    BY <2>6 DEF TopOfLoop, files
  <2>7. CASE MaybeFinish
    BY <2>7 DEF MaybeFinish, files
  <2>8. CASE MarksDrained
    BY <2>8 DEF MarksDrained
  <2>9. CASE DrivesDelivery
    BY <2>9 DEF DrivesDelivery
  <2>10. CASE LeavesLoop
    BY <2>10 DEF LeavesLoop
  <2>11. CASE ReadsSentinel
    BY <2>11 DEF ReadsSentinel, files
  <2>12. CASE CaptureFails
    BY <2>12 DEF CaptureFails, files
  <2>13. CASE ReadsOutput
    BY <2>13 DEF ReadsOutput, files
  <2>14. CASE Dispatches
    BY <2>14 DEF Dispatches, files
  <2>15. QED BY <1>2, <2>1, <2>2, <2>3, <2>4, <2>5, <2>6, <2>7, <2>8, <2>9, <2>10, <2>11,
         <2>12, <2>13, <2>14 DEF SupervisorOwn
<1>3. ASSUME GuardianOwn
      PROVE  \E c \in Commands : command[c] = "captured" \/ (command[c] = "terminal" /\ custody)
  <2>1. CASE GuardianTakesOver
    BY <2>1 DEF GuardianTakesOver, files
  <2>2. CASE GuardianSweeps
    BY <2>2 DEF GuardianSweeps, files
  <2>3. CASE GuardianDischarges
    BY <2>3 DEF GuardianDischarges
  <2>4. CASE GuardianSettles
    BY <2>4 DEF GuardianSettles
  <2>5. CASE GuardianReconciles
    BY <2>5 DEF GuardianReconciles, files
  <2>6. CASE GuardianDelivers
    BY <2>6 DEF GuardianDelivers
  <2>7. QED BY <1>3, <2>1, <2>2, <2>3, <2>4, <2>5, <2>6 DEF GuardianOwn
<1>4. ASSUME NEW k \in Commands, CommandCall(k)
      PROVE  \E c \in Commands : command[c] = "captured" \/ (command[c] = "terminal" /\ custody)
  <2>1. CASE StatusReconciles(k)
    BY <2>1 DEF StatusReconciles, CommandFrame
  <2>2. CASE ListReconciles(k)
    BY <2>2 DEF ListReconciles, CommandFrame
  <2>3. CASE CancelReads(k)
    BY <2>3 DEF CancelReads, CommandFrame
  <2>4. CASE CancelCaptures(k)
    BY <2>4 DEF CancelCaptures, CommandFrame
  <2>5. CASE CancelAccepts(k)
    BY <2>5 DEF CancelAccepts, CommandFrame
  <2>6. CASE CancelWakes(k)
    BY <2>6 DEF CancelWakes, CommandFrame
  <2>7. CASE CancelTerminal(k)
    BY <2>7 DEF CancelTerminal, CommandFrame
  <2>8. CASE CommandReconciles(k)
    BY <2>8 DEF CommandReconciles, CommandFrame
  <2>9. CASE CommandDelivers(k)
    BY <2>9 DEF CommandDelivers, CommandFrame
  <2>10. CASE KillCommand(k)
    BY <2>10 DEF KillCommand, CommandFrame
  <2>11. QED BY <1>4, <2>1, <2>2, <2>3, <2>4, <2>5, <2>6, <2>7, <2>8, <2>9,
  <2>10 DEF CommandCall
<1>5. CASE RootExecs
  BY <1>5 DEF RootExecs, WorkloadFrame, files
<1>6. CASE OrphansReaped
  BY <1>6 DEF OrphansReaped, WorkloadFrame, files
<1>7. ASSUME NEW p \in Workload, ProcessStep(p)
      PROVE  \E c \in Commands : command[c] = "captured" \/ (command[c] = "terminal" /\ custody)
  <2>1. CASE Detaches(p)
    BY <2>1 DEF Detaches, WorkloadFrame, files
  <2>2. CASE Exits(p)
    BY <2>2 DEF Exits, WorkloadFrame, files
  <2>3. CASE \E q \in Workload : Forks(p, q)
    BY <2>3 DEF Forks, WorkloadFrame, files
  <2>4. QED BY <1>7, <2>1, <2>2, <2>3 DEF ProcessStep
<1>8. ASSUME NEW o \in Owners, GraceElapses(o)
      PROVE  \E c \in Commands : command[c] = "captured" \/ (command[c] = "terminal" /\ custody)
  <2>1. CASE GraceElapses(o)
    BY <2>1 DEF GraceElapses, files
  <2>2. QED BY <1>8, <2>1 DEF GraceElapses
<1>9. CASE KillSupervisor
  BY <1>9 DEF KillSupervisor, files
<1>10. CASE KillGuardian
  BY <1>10 DEF KillGuardian, files
<1>11. CASE TransferExits
  BY <1>11 DEF TransferExits
<1>12. CASE UNCHANGED vars
  BY <1>12 DEF vars, files
<1>13. QED BY <1>1, <1>2, <1>3, <1>4, <1>5, <1>6, <1>7, <1>8, <1>9, <1>10, <1>11, <1>12,
NextCases

\* Once custody of an exit-mode handle is discharged no cancellation is accepted
\* any more, however far its command had come before.
THEOREM LateAcceptanceRefused == Spec => NoLateAcceptance
<1>1. ASSUME SupervisionInv, [Next]_vars, mode = "exit", ~custody, ~accepted, accepted'
      PROVE  FALSE
  <2>1. terminal
    BY <1>1 DEF SupervisionInv, DischargedIsTerminal
  <2>2. \A k \in Commands : command[k] # "captured"
    BY <1>1, <2>1 DEF SupervisionInv, CompletionLocked
  <2>3. QED BY <1>1, <2>2, AcceptanceWritten
<1>2. SupervisionInv /\ [Next]_vars =>
         [mode = "exit" /\ ~custody /\ ~accepted => ~accepted']_vars
  BY <1>1
<1>3. QED BY <1>2, SupervisionHolds, PTL DEF Spec, NoLateAcceptance
=============================================================================
