------------------------- MODULE Activation_proofs --------------------------
(***************************************************************************)
(* Proofs about Activation, for every set of commands, any process killed  *)
(* anywhere and any bound on the retries.                                  *)
(*                                                                         *)
(* One command or its worker holds delivery.lock (LockInv), so what it has *)
(* read of the four files stays true until it writes (WorkerKnows,         *)
(* CommandKnows).  An admitted helper is kept under any write fault        *)
(* (AdmissionInv).  What is reported, and the order of the rollback, need  *)
(* writes that report an error only when they had no effect: without that  *)
(* a failed mode write can leave async with no claim (ReportInv).          *)
(***************************************************************************)
EXTENDS Activation, TLAPS

SettleSteps == {"off", "mode", "mirror", "outcome", "attempt", "unknown"}

\* How settle_orphaned_activation ends: its worker exits with an error, or its command
\* goes on to a label.
WorkerEnds(p) ==
    /\ worker[p] = "settling"
    /\ worker' = [worker EXCEPT ![p] = "exited"] /\ failed' = [failed EXCEPT ![p] = TRUE]
    /\ UNCHANGED <<caller, result>>
CommandGoes(p, label) ==
    /\ worker[p] # "settling"
    /\ caller' = [caller EXCEPT ![p] = label]
    /\ IF label = "returned" THEN result' = [result EXCEPT ![p] = "error"] ELSE UNCHANGED result
    /\ UNCHANGED <<worker, failed>>
SettleEnded(p) ==
    \/ WorkerEnds(p)
    \/ caller[p] = "settling" /\ CommandGoes(p, "decide")
    \/ caller[p] # "settling" /\ CommandGoes(p, "final")

\* A settlement that returns ends in one of those ways.
LEMMA SettleReturnsCases ==
    ASSUME NEW p, SettleReturns(p)
    PROVE  SettleEnded(p)
<1>1. CASE worker[p] = "settling"
  BY <1>1 DEF SettleReturns, SettleEnded, WorkerEnds
<1>2. CASE worker[p] # "settling" /\ caller[p] = "settling"
  BY <1>2 DEF SettleReturns, SettleEnded, CommandGoes
<1>3. CASE worker[p] # "settling" /\ caller[p] # "settling"
  BY <1>3 DEF SettleReturns, SettleEnded, CommandGoes
<1>4. QED BY <1>1, <1>2, <1>3

\* A rollback step goes on to the next one, ends the settlement, or fails.
LEMMA SettleStepCases ==
    ASSUME NEW p, NEW at, NEW next, NEW w, SettleStep(p, at, next, w)
    PROVE  /\ Settling(p) /\ settle[p] = at
           /\ UNCHANGED <<v2, committed, invocations, startup, publisher, op, helper>>
           /\ \/ /\ w = "done" /\ next # "off"
                 /\ settle' = [settle EXCEPT ![p] = next]
                 /\ UNCHANGED <<caller, worker, failed, result>>
              \/ /\ settle' = [settle EXCEPT ![p] = "off"]
                 /\ \/ w = "done" /\ next = "off" /\ SettleEnded(p)
                    \/ w # "done" /\ (WorkerEnds(p) \/ CommandGoes(p, "returned"))
<1>1. ASSUME SettleFails(p) PROVE WorkerEnds(p) \/ CommandGoes(p, "returned")
  BY <1>1 DEF SettleFails, WorkerEnds, CommandGoes
<1>2. QED BY <1>1, SettleReturnsCases DEF SettleStep, SettleFrame

\* The same for its first read of the files.
LEMMA SettleReadsCases ==
    ASSUME TypeOK, NEW p, SettleReads(p)
    PROVE  /\ Settling(p) /\ settle[p] = "off"
           /\ UNCHANGED <<v2, committed, invocations, startup, publisher, op, helper>>
           /\ UNCHANGED records
           /\ \/ /\ outcome = "pending" /\ settle' = [settle EXCEPT ![p] = "unknown"]
                 /\ UNCHANGED <<caller, worker, failed, result>>
              \/ /\ outcome = "pre_admission_failed" \/ (outcome = "none" /\ attempted)
                 /\ settle' = [settle EXCEPT ![p] = "mode"]
                 /\ UNCHANGED <<caller, worker, failed, result>>
              \/ /\ outcome \notin {"pending", "pre_admission_failed"}
                 /\ outcome = "none" => ~attempted
                 /\ UNCHANGED settle /\ SettleEnded(p)
<1> DEFINE o == TransferOutcome(attempted, outcome)
<1>1. /\ o = "pending" => outcome = "pending"
      /\ o \in {"claimed", "pre_admission_failed"} =>
            outcome = "pre_admission_failed" \/ (outcome = "none" /\ attempted)
      /\ o \notin {"claimed", "pre_admission_failed", "pending"} =>
            /\ outcome \notin {"pending", "pre_admission_failed"}
            /\ outcome = "none" => ~attempted
  BY DEF TransferOutcome, TypeOK, Outcomes
<1>2. QED BY <1>1, SettleReturnsCases DEF SettleReads, SettleFrame, records

ProcessTypes ==
    /\ caller \in [Detachers -> CallerStates] /\ settle \in [Detachers -> SettleSteps]
    /\ worker \in [Detachers -> WorkerStates] /\ failed \in [Detachers -> BOOLEAN]
    /\ result \in [Detachers -> {"none", "async", "sync", "error"}]

\* A settlement step, in any of its endings, keeps the types of the processes.
LEMMA SettleTyped ==
    ASSUME TypeOK, NEW p \in Detachers,
           \/ UNCHANGED <<caller, worker, failed, result>>
           \/ SettleEnded(p) \/ WorkerEnds(p) \/ CommandGoes(p, "returned"),
           \/ UNCHANGED settle
           \/ \E step \in SettleSteps : settle' = [settle EXCEPT ![p] = step]
    PROVE  ProcessTypes'
<1>1. settle' \in [Detachers -> SettleSteps]
  BY DEF TypeOK, SettleSteps
<1>2. CASE UNCHANGED <<caller, worker, failed, result>>
  BY <1>1, <1>2 DEF TypeOK, ProcessTypes
<1>3. CASE WorkerEnds(p)
  BY <1>1, <1>3 DEF WorkerEnds, TypeOK, ProcessTypes, WorkerStates
<1>4. ASSUME NEW label \in {"decide", "final", "returned"}, CommandGoes(p, label)
      PROVE  ProcessTypes'
  <2>1. result' \in [Detachers -> {"none", "async", "sync", "error"}]
    BY <1>4 DEF CommandGoes, TypeOK
  <2>2. caller' \in [Detachers -> CallerStates]
    BY <1>4 DEF CommandGoes, TypeOK, CallerStates
  <2>3. QED BY <1>1, <1>4, <2>1, <2>2 DEF CommandGoes, TypeOK, ProcessTypes
<1>5. QED BY <1>2, <1>3, <1>4 DEF SettleEnded

\* A worker that goes on or exits keeps its types.
LEMMA WorkerGoesTyped ==
    ASSUME TypeOK, NEW p \in Detachers, NEW w, NEW to \in WorkerStates, WorkerGoes(p, w, to)
    PROVE  worker' \in [Detachers -> WorkerStates] /\ failed' \in [Detachers -> BOOLEAN]
<1>1. CASE w = "done"
  BY <1>1 DEF WorkerGoes, TypeOK
<1>2. CASE w # "done"
  <2>1. "exited" \in WorkerStates
    BY DEF WorkerStates
  <2>2. QED BY <1>2, <2>1 DEF WorkerGoes, TypeOK
<1>3. QED BY <1>1, <1>2

\* The other writers of meta.json touch nothing else.
LEMMA RewriteMetaCases ==
    ASSUME TypeOK, RewriteMeta
    PROVE  /\ MetaFrame
           /\ mirror' \in [mode : {"sync", "async"}, late : BOOLEAN]
           /\ startup' \in {"idle", "sync", "async", "over"}
           /\ publisher' \in {"idle", "sync", "async", "done"}
<1>1. CASE StartupReads
  BY <1>1 DEF StartupReads, TypeOK
<1>2. CASE StartupWrites
  <2>1. [mode |-> startup, late |-> startup # mode] \in [mode : {"sync", "async"}, late : BOOLEAN]
    BY <1>2 DEF StartupWrites
  <2>2. QED BY <1>2, <2>1 DEF StartupWrites, Left, TypeOK
<1>3. CASE StartupEnds
  BY <1>3 DEF StartupEnds, TypeOK
<1>4. CASE DeliveryWrites
  BY <1>4 DEF DeliveryWrites, Meta, TypeOK
<1>5. CASE PublishReads
  BY <1>5 DEF PublishReads, TypeOK
<1>6. CASE PublishWrites
  BY <1>6 DEF PublishWrites, Meta, TypeOK
<1>7. QED BY <1>1, <1>2, <1>3, <1>4, <1>5, <1>6 DEF RewriteMeta

\* Every step keeps the types.
LEMMA TypeStep ==
    ASSUME TypeOK, [Next]_vars
    PROVE  TypeOK'
<1> USE FaultsAssumption, MaxInvocationsAssumption
<1>1. ASSUME NEW p \in Detachers, Settle(p) PROVE TypeOK'
  <2>1. CASE SettleReads(p)
    <3>1. ProcessTypes'
      BY <2>1, SettleReadsCases, SettleTyped DEF SettleSteps
    <3>2. QED BY <2>1, <3>1, SettleReadsCases DEF TypeOK, ProcessTypes, SettleSteps, records
  <2>2. CASE SettleMode(p)
    <3>1. PICK w \in WriteResults : SettleStep(p, "mode", "mirror", w)
      BY <2>2 DEF SettleMode
    <3>2. ProcessTypes'
      BY <3>1, SettleStepCases, SettleTyped DEF SettleSteps
    <3>3. mode' \in {"sync", "async"} /\ UNCHANGED <<mirror, attempted, outcome>>
      BY <2>2 DEF SettleMode, TypeOK, Left
    <3>4. UNCHANGED <<v2, committed, invocations, startup, publisher, op, helper>>
      BY <3>1, SettleStepCases
    <3>5. QED BY <3>2, <3>3, <3>4 DEF TypeOK, ProcessTypes, SettleSteps
  <2>3. CASE SettleOutcome(p)
    <3>1. PICK w \in WriteResults : SettleStep(p, "outcome", "attempt", w)
      BY <2>3 DEF SettleOutcome
    <3>2. ProcessTypes'
      BY <3>1, SettleStepCases, SettleTyped DEF SettleSteps
    <3>3. outcome' \in Outcomes /\ UNCHANGED <<mode, mirror, attempted>>
      BY <2>3 DEF SettleOutcome, TypeOK, Left, Outcomes
    <3>4. UNCHANGED <<v2, committed, invocations, startup, publisher, op, helper>>
      BY <3>1, SettleStepCases
    <3>5. QED BY <3>2, <3>3, <3>4 DEF TypeOK, ProcessTypes, SettleSteps
  <2>4. CASE SettleAttempt(p)
    <3>1. PICK w \in WriteResults : SettleStep(p, "attempt", "off", w)
      BY <2>4 DEF SettleAttempt
    <3>2. ProcessTypes'
      BY <3>1, SettleStepCases, SettleTyped DEF SettleSteps
    <3>3. attempted' \in BOOLEAN /\ UNCHANGED <<mode, mirror, outcome>>
      BY <2>4 DEF SettleAttempt, TypeOK, Left
    <3>4. UNCHANGED <<v2, committed, invocations, startup, publisher, op, helper>>
      BY <3>1, SettleStepCases
    <3>5. QED BY <3>2, <3>3, <3>4 DEF TypeOK, ProcessTypes, SettleSteps
  <2>5. CASE SettleUnknown(p)
    <3>1. PICK w \in WriteResults : SettleStep(p, "unknown", "off", w)
      BY <2>5 DEF SettleUnknown
    <3>2. ProcessTypes'
      BY <3>1, SettleStepCases, SettleTyped DEF SettleSteps
    <3>3. outcome' \in Outcomes /\ UNCHANGED <<mode, mirror, attempted>>
      BY <2>5 DEF SettleUnknown, TypeOK, Left, Outcomes
    <3>4. UNCHANGED <<v2, committed, invocations, startup, publisher, op, helper>>
      BY <3>1, SettleStepCases
    <3>5. QED BY <3>2, <3>3, <3>4 DEF TypeOK, ProcessTypes, SettleSteps
  <2>6. CASE SettleMirror(p)
    <3>1. PICK w \in WriteResults : SettleStep(p, "mirror", "outcome", w)
      BY <2>6 DEF SettleMirror
    <3>2. ProcessTypes'
      BY <3>1, SettleStepCases, SettleTyped DEF SettleSteps
    <3>3. mirror' \in [mode : {"sync", "async"}, late : BOOLEAN] /\ UNCHANGED <<mode, attempted, outcome>>
      BY <2>6 DEF SettleMirror, TypeOK, Left, Repairs, Meta
    <3>4. UNCHANGED <<v2, committed, invocations, startup, publisher, op, helper>>
      BY <3>1, SettleStepCases
    <3>5. QED BY <3>2, <3>3, <3>4 DEF TypeOK, ProcessTypes, SettleSteps
  <2>7. QED BY <1>1, <2>1, <2>2, <2>3, <2>4, <2>5, <2>6 DEF Settle
<1>2. ASSUME NEW p \in Detachers, Command(p) PROVE TypeOK'
  <2>1. CASE ReportMode(p)
    BY <2>1
       DEF ReportMode, CallerFrame, Returns, records, TypeOK, CallerStates, WorkerStates,
           Outcomes
  <2>2. CASE DetachAgain(p)
    BY <2>2
       DEF DetachAgain, CallerFrame, Returns, records, TypeOK, CallerStates, WorkerStates,
           Outcomes
  <2>3. CASE DetachRefused(p)
    BY <2>3
       DEF DetachRefused, CallerFrame, Returns, records, TypeOK, CallerStates, WorkerStates,
           Outcomes
  <2>4. CASE DetachRetries(p)
    BY <2>4
       DEF DetachRetries, CallerFrame, Returns, records, TypeOK, CallerStates, WorkerStates,
           Outcomes
  <2>5. CASE DetachForks(p)
    BY <2>5
       DEF DetachForks, CallerFrame, Returns, records, TypeOK, CallerStates, WorkerStates,
           Outcomes
  <2>6. CASE DetachForkFails(p)
    BY <2>6
       DEF DetachForkFails, CallerFrame, Returns, records, TypeOK, CallerStates,
           WorkerStates, Outcomes
  <2>7. CASE ReapWorker(p)
    BY <2>7
       DEF ReapWorker, CallerFrame, Returns, records, TypeOK, CallerStates, WorkerStates,
           Outcomes
  <2>8. CASE FinishDetach(p)
    BY <2>8
       DEF FinishDetach, CallerFrame, Returns, records, TypeOK, CallerStates, WorkerStates,
           Outcomes
  <2>9. CASE RepairMirror(p)
    BY <2>9
       DEF RepairMirror, CallerFrame, Returns, WriteResults, Left, Repairs, Meta, CompletionFree,
           records, TypeOK, CallerStates, WorkerStates, Outcomes
  <2>10. QED BY <1>2, <2>1, <2>2, <2>3, <2>4, <2>5, <2>6, <2>7, <2>8, <2>9 DEF Command
<1>3. ASSUME NEW p \in Detachers, Work(p) PROVE TypeOK'
  <2>1. CASE WorkerAttempts(p)
    <3>1. worker' \in [Detachers -> WorkerStates] /\ failed' \in [Detachers -> BOOLEAN]
      BY <2>1, WorkerGoesTyped DEF WorkerAttempts, WorkerStates
    <3>2. attempted' \in BOOLEAN
      BY <2>1 DEF WorkerAttempts, TypeOK, WriteResults
    <3>3. QED BY <2>1, <3>1, <3>2 DEF WorkerAttempts, WorkerFrame, TypeOK
  <2>2. CASE WorkerSetsMode(p)
    <3>1. worker' \in [Detachers -> WorkerStates] /\ failed' \in [Detachers -> BOOLEAN]
      BY <2>2, WorkerGoesTyped DEF WorkerSetsMode, WorkerStates
    <3>2. QED BY <2>2, <3>1 DEF WorkerSetsMode, WorkerFrame, TypeOK, Left
  <2>3. CASE WorkerWritesPending(p)
    BY <2>3
       DEF WorkerWritesPending, WorkerFrame, WorkerGoes, WriteResults, Left, records,
           TypeOK, CallerStates, WorkerStates, Outcomes
  <2>4. CASE WorkerSpawnFails(p)
    BY <2>4
       DEF WorkerSpawnFails, WorkerFrame, WorkerGoes, WriteResults, Left, records, TypeOK,
           CallerStates, WorkerStates, Outcomes
  <2>5. CASE WorkerSpawns(p)
    BY <2>5
       DEF WorkerSpawns, WorkerFrame, WorkerGoes, WriteResults, Left, records, TypeOK,
           CallerStates, WorkerStates, Outcomes
  <2>6. CASE WorkerWaits(p)
    BY <2>6
       DEF WorkerWaits, WorkerFrame, WorkerGoes, WriteResults, Left, records, TypeOK,
           CallerStates, WorkerStates, Outcomes
  <2>7. CASE WorkerRecords(p)
    <3>1. worker' \in [Detachers -> WorkerStates] /\ failed' \in [Detachers -> BOOLEAN]
      BY <2>7, WorkerGoesTyped DEF WorkerRecords, WorkerStates
    <3>2. QED BY <2>7, <3>1 DEF WorkerRecords, WorkerFrame, TypeOK, Left, Outcomes
  <2>8. CASE WorkerRollsBack(p)
    <3>1. worker' \in [Detachers -> WorkerStates] /\ failed' \in [Detachers -> BOOLEAN]
      BY <2>8, WorkerGoesTyped DEF WorkerRollsBack, WorkerStates
    <3>2. QED BY <2>8, <3>1 DEF WorkerRollsBack, WorkerFrame, TypeOK, Left, Outcomes
  <2>9. CASE WorkerReadsBack(p)
    <3>1. worker' \in [Detachers -> WorkerStates] /\ failed' \in [Detachers -> BOOLEAN]
      BY <2>9, WorkerGoesTyped DEF WorkerReadsBack, WorkerStates
    <3>2. QED BY <2>9, <3>1 DEF WorkerReadsBack, WorkerFrame, TypeOK, records
  <2>10. CASE WorkerCommits(p)
    BY <2>10
       DEF WorkerCommits, WorkerFrame, WorkerGoes, WriteResults, Left, records, TypeOK,
           CallerStates, WorkerStates, Outcomes
  <2>11. CASE WorkerMirrors(p)
    BY <2>11
       DEF WorkerMirrors, WorkerFrame, WriteResults, Left, Repairs, Meta, CompletionFree, records,
           TypeOK, CallerStates, WorkerStates, Outcomes
  <2>12. QED BY <1>3, <2>1, <2>2, <2>3, <2>4, <2>5, <2>6, <2>7, <2>8, <2>9, <2>10,
  <2>11 DEF Work
<1>4. ASSUME NEW p \in Detachers,
             AcquireLock(p) \/ KillCaller(p) \/ KillWorker(p) \/ HelperExits(p)
      PROVE  TypeOK'
  <2>1. CASE AcquireLock(p)
    BY <2>1 DEF AcquireLock, records, TypeOK, CallerStates, WorkerStates, Outcomes
  <2>2. CASE KillCaller(p)
    BY <2>2 DEF KillCaller, records, TypeOK, CallerStates, WorkerStates, Outcomes
  <2>3. CASE KillWorker(p)
    BY <2>3 DEF KillWorker, records, TypeOK, CallerStates, WorkerStates, Outcomes
  <2>4. CASE HelperExits(p)
    BY <2>4 DEF HelperExits, records, TypeOK, CallerStates, WorkerStates, Outcomes
  <2>5. QED BY <1>4, <2>1, <2>2, <2>3, <2>4
<1>5. CASE RewriteMeta
  BY <1>5, RewriteMetaCases DEF MetaFrame, TypeOK
<1>6. CASE UNCHANGED vars
  BY <1>6 DEF vars, records, TypeOK, CallerStates, WorkerStates, Outcomes
<1>7. QED BY <1>1, <1>2, <1>3, <1>4, <1>5, <1>6 DEF Next

-----------------------------------------------------------------------------
(* delivery.lock *)

Holds(p) == Commanding(p) \/ WorkerAlive(p)

\* Where a command and its worker can be together, and who settles.
Together(p) ==
    /\ WorkerAlive(p) => caller[p] \in {"waiting", "gone"} /\ op[p] \in {"detach", "retry"}
    /\ caller[p] = "waiting" => op[p] \in {"detach", "retry"}
    /\ caller[p] \in {"closing", "final"} => op[p] = "detach"
    /\ settle[p] # "off" => Settling(p)

\* One command, or the worker it left behind, holds the lock.
LockInv ==
    /\ \A p, q \in Detachers : Holds(p) /\ Holds(q) => p = q
    /\ \A p \in Detachers : Together(p)

\* A step of the holder p that keeps the others as they were.
LEMMA LockKept ==
    ASSUME LockInv, NEW p \in Detachers, Holds(p), Together(p)',
           \A q \in Detachers : q # p => /\ caller'[q] = caller[q] /\ worker'[q] = worker[q]
                                         /\ op'[q] = op[q] /\ settle'[q] = settle[q]
    PROVE  LockInv'
<1>1. \A q \in Detachers : q # p => (Holds(q)' <=> Holds(q)) /\ (Together(q)' <=> Together(q))
  BY DEF Holds, Together, Commanding, WorkerAlive, Settling
<1>2. QED BY <1>1 DEF LockInv

\* The settlement's steps, whoever runs it.
LEMMA LockSettles ==
    ASSUME TypeOK, LockInv, NEW p \in Detachers, Settling(p), UNCHANGED op,
           \/ /\ UNCHANGED <<caller, worker>>
              /\ \E step \in SettleSteps : settle' = [settle EXCEPT ![p] = step]
           \/ /\ settle' = [settle EXCEPT ![p] = "off"]
              /\ SettleEnded(p) \/ WorkerEnds(p) \/ CommandGoes(p, "returned")
    PROVE  LockInv'
<1>0. Holds(p) /\ Together(p)
  BY DEF Settling, Holds, WorkerAlive, Commanding, LockInv
<1>1. CASE /\ UNCHANGED <<caller, worker>>
           /\ \E step \in SettleSteps : settle' = [settle EXCEPT ![p] = step]
  <2>1. Together(p)'
    BY <1>0, <1>1 DEF Together, Settling, WorkerAlive
  <2>2. QED BY <1>0, <1>1, <2>1, LockKept DEF TypeOK
<1>2. CASE settle' = [settle EXCEPT ![p] = "off"] /\ WorkerEnds(p)
  <2>1. Together(p)'
    BY <1>0, <1>2 DEF Together, WorkerEnds, WorkerAlive, TypeOK
  <2>2. QED BY <1>0, <1>2, <2>1, LockKept DEF TypeOK, WorkerEnds
<1>3. ASSUME settle' = [settle EXCEPT ![p] = "off"],
             NEW label \in {"decide", "final", "returned"}, CommandGoes(p, label),
             label = "final" => caller[p] # "settling"
      PROVE  LockInv'
  <2>1. caller[p] \in {"settling", "closing"} /\ ~WorkerAlive(p)
    BY <1>3 DEF CommandGoes, Settling
  <2>2. Together(p)'
    BY <1>0, <1>3, <2>1 DEF Together, CommandGoes, WorkerAlive, TypeOK
  <2>3. QED BY <1>0, <1>3, <2>2, LockKept DEF TypeOK, CommandGoes
<1>4. QED BY <1>1, <1>2, <1>3 DEF SettleEnded

\* Every step keeps one holder: a command forks its worker before it can go, and a new
\* command finds the lock free.
LEMMA LockStep ==
    ASSUME TypeOK, LockInv, [Next]_vars
    PROVE  LockInv'
<1>1. ASSUME NEW p \in Detachers, Settle(p) PROVE LockInv'
  <2>1. CASE SettleReads(p)
    <3>1. UNCHANGED settle => settle' = [settle EXCEPT ![p] = "off"]
      BY <2>1, SettleReadsCases DEF TypeOK
    <3>2. QED BY <2>1, <3>1, SettleReadsCases, LockSettles DEF SettleSteps
  <2>2. CASE SettleMode(p)
    <3>1. PICK w \in WriteResults : SettleStep(p, "mode", "mirror", w)
      BY <2>2 DEF SettleMode
    <3>2. QED BY <3>1, SettleStepCases, LockSettles DEF SettleSteps
  <2>3. CASE SettleOutcome(p)
    <3>1. PICK w \in WriteResults : SettleStep(p, "outcome", "attempt", w)
      BY <2>3 DEF SettleOutcome
    <3>2. QED BY <3>1, SettleStepCases, LockSettles DEF SettleSteps
  <2>4. CASE SettleAttempt(p)
    <3>1. PICK w \in WriteResults : SettleStep(p, "attempt", "off", w)
      BY <2>4 DEF SettleAttempt
    <3>2. QED BY <3>1, SettleStepCases, LockSettles DEF SettleSteps
  <2>5. CASE SettleUnknown(p)
    <3>1. PICK w \in WriteResults : SettleStep(p, "unknown", "off", w)
      BY <2>5 DEF SettleUnknown
    <3>2. QED BY <3>1, SettleStepCases, LockSettles DEF SettleSteps
  <2>6. CASE SettleMirror(p)
    <3>1. PICK w \in WriteResults : SettleStep(p, "mirror", "outcome", w)
      BY <2>6 DEF SettleMirror
    <3>2. QED BY <3>1, SettleStepCases, LockSettles DEF SettleSteps
  <2>7. QED BY <1>1, <2>1, <2>2, <2>3, <2>4, <2>5, <2>6 DEF Settle
<1>2. ASSUME NEW p \in Detachers, Command(p) PROVE LockInv'
  <2>1. CASE ReportMode(p)
    <3>1. Holds(p) /\ Together(p)
      BY <2>1 DEF ReportMode, LockInv, Holds, Commanding, WorkerAlive
    <3>2. Together(p)'
      BY <2>1, <3>1 DEF ReportMode, CallerFrame, Returns, Together, WorkerAlive, Settling,
                        TypeOK
    <3>3. QED BY <2>1, <3>1, <3>2, LockKept DEF ReportMode, CallerFrame, Returns, TypeOK
  <2>2. CASE DetachAgain(p)
    <3>1. Holds(p) /\ Together(p)
      BY <2>2 DEF DetachAgain, LockInv, Holds, Commanding, WorkerAlive
    <3>2. Together(p)'
      BY <2>2, <3>1 DEF DetachAgain, CallerFrame, Returns, Together, WorkerAlive, Settling,
                        TypeOK
    <3>3. QED BY <2>2, <3>1, <3>2, LockKept DEF DetachAgain, CallerFrame, Returns, TypeOK
  <2>3. CASE DetachRefused(p)
    <3>1. Holds(p) /\ Together(p)
      BY <2>3 DEF DetachRefused, LockInv, Holds, Commanding, WorkerAlive
    <3>2. Together(p)'
      BY <2>3, <3>1 DEF DetachRefused, CallerFrame, Returns, Together, WorkerAlive, Settling,
                        TypeOK
    <3>3. QED BY <2>3, <3>1, <3>2, LockKept DEF DetachRefused, CallerFrame, Returns, TypeOK
  <2>4. CASE DetachRetries(p)
    <3>1. Holds(p) /\ Together(p)
      BY <2>4 DEF DetachRetries, LockInv, Holds, Commanding, WorkerAlive
    <3>2. Together(p)'
      BY <2>4, <3>1 DEF DetachRetries, CallerFrame, Returns, Together, WorkerAlive, Settling,
                        TypeOK
    <3>3. QED BY <2>4, <3>1, <3>2, LockKept DEF DetachRetries, CallerFrame, Returns, TypeOK
  <2>5. CASE DetachForks(p)
    <3>1. Holds(p) /\ Together(p)
      BY <2>5 DEF DetachForks, LockInv, Holds, Commanding, WorkerAlive
    <3>2. Together(p)'
      BY <2>5, <3>1 DEF DetachForks, CallerFrame, Returns, Together, WorkerAlive, Settling,
                        TypeOK
    <3>3. QED BY <2>5, <3>1, <3>2, LockKept DEF DetachForks, CallerFrame, Returns, TypeOK
  <2>6. CASE DetachForkFails(p)
    <3>1. Holds(p) /\ Together(p)
      BY <2>6 DEF DetachForkFails, LockInv, Holds, Commanding, WorkerAlive
    <3>2. Together(p)'
      BY <2>6, <3>1 DEF DetachForkFails, CallerFrame, Returns, Together, WorkerAlive,
                        Settling, TypeOK
    <3>3. QED BY <2>6, <3>1, <3>2, LockKept DEF DetachForkFails, CallerFrame, Returns, TypeOK
  <2>7. CASE ReapWorker(p)
    <3>1. Holds(p) /\ Together(p)
      BY <2>7 DEF ReapWorker, LockInv, Holds, Commanding, WorkerAlive
    <3>2. Together(p)'
      BY <2>7, <3>1 DEF ReapWorker, CallerFrame, Returns, Together, WorkerAlive, Settling,
                        TypeOK
    <3>3. QED BY <2>7, <3>1, <3>2, LockKept DEF ReapWorker, CallerFrame, Returns, TypeOK
  <2>8. CASE FinishDetach(p)
    <3>1. Holds(p) /\ Together(p)
      BY <2>8 DEF FinishDetach, LockInv, Holds, Commanding, WorkerAlive
    <3>2. Together(p)'
      BY <2>8, <3>1 DEF FinishDetach, CallerFrame, Returns, Together, WorkerAlive, Settling,
                        TypeOK
    <3>3. QED BY <2>8, <3>1, <3>2, LockKept DEF FinishDetach, CallerFrame, Returns, TypeOK
  <2>9. CASE RepairMirror(p)
    <3>1. Holds(p) /\ Together(p)
      BY <2>9 DEF RepairMirror, LockInv, Holds, Commanding, WorkerAlive
    <3>2. Together(p)'
      BY <2>9, <3>1 DEF RepairMirror, CallerFrame, Returns, Together, WorkerAlive, Settling,
                        TypeOK
    <3>3. QED BY <2>9, <3>1, <3>2, LockKept DEF RepairMirror, CallerFrame, Returns, TypeOK
  <2>10. QED BY <1>2, <2>1, <2>2, <2>3, <2>4, <2>5, <2>6, <2>7, <2>8, <2>9 DEF Command
<1>3. ASSUME NEW p \in Detachers, Work(p) PROVE LockInv'
  <2>1. CASE WorkerAttempts(p)
    <3>1. Holds(p) /\ Together(p)
      BY <2>1 DEF WorkerAttempts, LockInv, Holds, Commanding, WorkerAlive
    <3>2. Together(p)'
      BY <2>1, <3>1 DEF WorkerAttempts, WorkerFrame, WorkerGoes, Together, WorkerAlive,
                        Settling, TypeOK
    <3>3. QED BY <2>1, <3>1, <3>2, LockKept DEF WorkerAttempts, WorkerFrame, WorkerGoes, TypeOK
  <2>2. CASE WorkerSetsMode(p)
    <3>1. Holds(p) /\ Together(p)
      BY <2>2 DEF WorkerSetsMode, LockInv, Holds, Commanding, WorkerAlive
    <3>2. Together(p)'
      BY <2>2, <3>1 DEF WorkerSetsMode, WorkerFrame, WorkerGoes, Together, WorkerAlive,
                        Settling, TypeOK
    <3>3. QED BY <2>2, <3>1, <3>2, LockKept DEF WorkerSetsMode, WorkerFrame, WorkerGoes, TypeOK
  <2>3. CASE WorkerWritesPending(p)
    <3>1. Holds(p) /\ Together(p)
      BY <2>3 DEF WorkerWritesPending, LockInv, Holds, Commanding, WorkerAlive
    <3>2. Together(p)'
      BY <2>3, <3>1 DEF WorkerWritesPending, WorkerFrame, WorkerGoes, Together, WorkerAlive,
                        Settling, TypeOK
    <3>3. QED BY <2>3, <3>1, <3>2, LockKept DEF WorkerWritesPending, WorkerFrame, WorkerGoes,
    TypeOK
  <2>4. CASE WorkerSpawnFails(p)
    <3>1. Holds(p) /\ Together(p)
      BY <2>4 DEF WorkerSpawnFails, LockInv, Holds, Commanding, WorkerAlive
    <3>2. Together(p)'
      BY <2>4, <3>1 DEF WorkerSpawnFails, WorkerFrame, WorkerGoes, Together, WorkerAlive,
                        Settling, TypeOK
    <3>3. QED BY <2>4, <3>1, <3>2, LockKept DEF WorkerSpawnFails, WorkerFrame, WorkerGoes,
    TypeOK
  <2>5. CASE WorkerSpawns(p)
    <3>1. Holds(p) /\ Together(p)
      BY <2>5 DEF WorkerSpawns, LockInv, Holds, Commanding, WorkerAlive
    <3>2. Together(p)'
      BY <2>5, <3>1 DEF WorkerSpawns, WorkerFrame, WorkerGoes, Together, WorkerAlive,
                        Settling, TypeOK
    <3>3. QED BY <2>5, <3>1, <3>2, LockKept DEF WorkerSpawns, WorkerFrame, WorkerGoes, TypeOK
  <2>6. CASE WorkerWaits(p)
    <3>1. Holds(p) /\ Together(p)
      BY <2>6 DEF WorkerWaits, LockInv, Holds, Commanding, WorkerAlive
    <3>2. Together(p)'
      BY <2>6, <3>1 DEF WorkerWaits, WorkerFrame, WorkerGoes, Together, WorkerAlive,
                        Settling, TypeOK
    <3>3. QED BY <2>6, <3>1, <3>2, LockKept DEF WorkerWaits, WorkerFrame, WorkerGoes, TypeOK
  <2>7. CASE WorkerRecords(p)
    <3>1. Holds(p) /\ Together(p)
      BY <2>7 DEF WorkerRecords, LockInv, Holds, Commanding, WorkerAlive
    <3>2. Together(p)'
      BY <2>7, <3>1 DEF WorkerRecords, WorkerFrame, WorkerGoes, Together, WorkerAlive,
                        Settling, TypeOK
    <3>3. QED BY <2>7, <3>1, <3>2, LockKept DEF WorkerRecords, WorkerFrame, WorkerGoes, TypeOK
  <2>8. CASE WorkerRollsBack(p)
    <3>1. Holds(p) /\ Together(p)
      BY <2>8 DEF WorkerRollsBack, LockInv, Holds, Commanding, WorkerAlive
    <3>2. Together(p)'
      BY <2>8, <3>1 DEF WorkerRollsBack, WorkerFrame, WorkerGoes, Together, WorkerAlive,
                        Settling, TypeOK
    <3>3. QED BY <2>8, <3>1, <3>2, LockKept DEF WorkerRollsBack, WorkerFrame, WorkerGoes, TypeOK
  <2>9. CASE WorkerReadsBack(p)
    <3>1. Holds(p) /\ Together(p)
      BY <2>9 DEF WorkerReadsBack, LockInv, Holds, Commanding, WorkerAlive
    <3>2. Together(p)'
      BY <2>9, <3>1 DEF WorkerReadsBack, WorkerFrame, WorkerGoes, Together, WorkerAlive,
                        Settling, TypeOK
    <3>3. QED BY <2>9, <3>1, <3>2, LockKept DEF WorkerReadsBack, WorkerFrame, WorkerGoes, TypeOK
  <2>10. CASE WorkerCommits(p)
    <3>1. Holds(p) /\ Together(p)
      BY <2>10 DEF WorkerCommits, LockInv, Holds, Commanding, WorkerAlive
    <3>2. Together(p)'
      BY <2>10, <3>1 DEF WorkerCommits, WorkerFrame, WorkerGoes, Together, WorkerAlive,
                         Settling, TypeOK
    <3>3. QED BY <2>10, <3>1, <3>2, LockKept DEF WorkerCommits, WorkerFrame, WorkerGoes, TypeOK
  <2>11. CASE WorkerMirrors(p)
    <3>1. Holds(p) /\ Together(p)
      BY <2>11 DEF WorkerMirrors, LockInv, Holds, Commanding, WorkerAlive
    <3>2. Together(p)'
      BY <2>11, <3>1 DEF WorkerMirrors, WorkerFrame, WorkerGoes, Together, WorkerAlive,
                         Settling, TypeOK
    <3>3. QED BY <2>11, <3>1, <3>2, LockKept DEF WorkerMirrors, WorkerFrame, WorkerGoes, TypeOK
  <2>12. QED BY <1>3, <2>1, <2>2, <2>3, <2>4, <2>5, <2>6, <2>7, <2>8, <2>9, <2>10,
  <2>11 DEF Work
<1>4. ASSUME NEW p \in Detachers,
             AcquireLock(p) \/ KillCaller(p) \/ KillWorker(p) \/ HelperExits(p)
      PROVE  LockInv'
  <2>1. CASE AcquireLock(p)
    <3>1. \A q \in Detachers : ~Holds(q)
      BY <2>1 DEF AcquireLock, LockFree, Holds
    <3>2. ASSUME NEW q \in Detachers PROVE Together(q)' /\ (q # p => ~Holds(q)')
      <4>1. Together(q) /\ settle[q] = "off"
        BY <3>1 DEF LockInv, Together, Settling, Holds, WorkerAlive, Commanding
      <4>2. QED BY <2>1, <3>1, <4>1 DEF AcquireLock, Together, Settling, Holds, WorkerAlive,
                    Commanding, TypeOK
    <3>3. QED BY <3>2 DEF LockInv
  <2>2. CASE KillCaller(p)
    <3>1. Holds(p) /\ Together(p)
      BY <2>2 DEF KillCaller, LockInv, Holds
    <3>2. Together(p)'
      BY <2>2, <3>1 DEF KillCaller, Together, Commanding, WorkerAlive, Settling, TypeOK
    <3>3. QED BY <2>2, <3>1, <3>2, LockKept DEF KillCaller, TypeOK
  <2>3. CASE KillWorker(p)
    <3>1. Holds(p) /\ Together(p)
      BY <2>3 DEF KillWorker, LockInv, Holds
    <3>2. Together(p)'
      BY <2>3, <3>1 DEF KillWorker, Together, Commanding, WorkerAlive, Settling, TypeOK
    <3>3. QED BY <2>3, <3>1, <3>2, LockKept DEF KillWorker, TypeOK
  <2>4. CASE HelperExits(p)
    BY <2>4 DEF HelperExits, LockInv, Holds, Together, Commanding, WorkerAlive, Settling
  <2>5. QED BY <1>4, <2>1, <2>2, <2>3, <2>4
<1>5. CASE RewriteMeta
  BY <1>5, RewriteMetaCases
     DEF MetaFrame, LockInv, Holds, Together, Commanding, WorkerAlive, Settling
<1>6. CASE UNCHANGED vars
  BY <1>6 DEF vars, LockInv, Holds, Together, Commanding, WorkerAlive, Settling
<1>7. QED BY <1>1, <1>2, <1>3, <1>4, <1>5, <1>6 DEF Next

\* While one command or its worker takes a step under the lock, nobody else holds it.
LEMMA HolderAlone ==
    ASSUME TypeOK, LockInv, NEW p \in Detachers,
           Settle(p) \/ Command(p) \/ Work(p) \/ AcquireLock(p) \/ KillCaller(p) \/ KillWorker(p)
    PROVE  \A q \in Detachers : q # p => ~Holds(q)' /\ settle'[q] = "off"
<1> DEFINE Others == \A q \in Detachers : q # p => /\ caller'[q] = caller[q]
                                                   /\ worker'[q] = worker[q]
                                                   /\ settle'[q] = settle[q]
<1>1. (Holds(p) \/ LockFree) /\ Others
  <2>1. CASE Settle(p)
    <3>1. Holds(p)
      BY <2>1, SettleReadsCases DEF Settle, SettleReads, SettleMode, SettleMirror,
                                    SettleOutcome,
         SettleAttempt, SettleUnknown, SettleStep, Settling, Holds, Commanding, WorkerAlive
    <3>2. SettleReads(p) \/ \E at, next, w : SettleStep(p, at, next, w)
      BY <2>1 DEF Settle, SettleMode, SettleMirror, SettleOutcome, SettleAttempt, SettleUnknown
    <3>3. \/ UNCHANGED <<caller, worker>> \/ WorkerEnds(p)
          \/ \E label : CommandGoes(p, label)
      BY <3>2, SettleReadsCases, SettleStepCases DEF SettleEnded
    <3>4. UNCHANGED settle \/ \E step : settle' = [settle EXCEPT ![p] = step]
      BY <3>2, SettleReadsCases, SettleStepCases
    <3>5. QED BY <3>1, <3>3, <3>4 DEF TypeOK, WorkerEnds, CommandGoes
  <2>2. CASE Command(p)
    BY <2>2 DEF Command, ReportMode, DetachAgain, DetachRefused, DetachRetries, DetachForks,
       DetachForkFails, ReapWorker, RepairMirror, FinishDetach, CallerFrame, Returns, TypeOK,
       Holds, Commanding
  <2>3. CASE Work(p)
    BY <2>3 DEF Work, WorkerAttempts, WorkerSetsMode, WorkerWritesPending, WorkerSpawnFails,
       WorkerSpawns, WorkerWaits, WorkerRecords, WorkerMirrors, WorkerRollsBack,
       WorkerReadsBack, WorkerCommits, WorkerGoes, WorkerFrame, TypeOK, Holds, WorkerAlive
  <2>4. CASE AcquireLock(p)
    BY <2>4 DEF AcquireLock, TypeOK
  <2>5. CASE KillCaller(p) \/ KillWorker(p)
    BY <2>5 DEF KillCaller, KillWorker, TypeOK, Holds
  <2>6. QED BY <2>1, <2>2, <2>3, <2>4, <2>5
<1>2. \A q \in Detachers : q # p => ~Holds(q)
  BY <1>1 DEF LockInv, LockFree, Holds
<1>3. \A q \in Detachers : q # p => settle[q] = "off"
  BY <1>2 DEF LockInv, Together, Settling, Holds, WorkerAlive, Commanding
<1>4. QED BY <1>1, <1>2, <1>3 DEF Holds, WorkerAlive, Commanding

-----------------------------------------------------------------------------
(* Admission *)

\* What a worker knows of the files, from its own writes under the lock.
WorkerKnows(p) ==
    /\ worker[p] \in {"attempt", "mode", "pending"} => outcome = "none" /\ op[p] = "detach"
    /\ worker[p] = "pending" => mode = "async"
    /\ worker[p] \in {"not_started", "failure", "success"} =>
          outcome = "pending" /\ op[p] = "detach"
    /\ worker[p] \in {"spawn", "helping"} =>
          IF op[p] = "retry" THEN v2 /\ outcome \in {"failed",
          "unknown"} ELSE outcome = "pending"
    /\ worker[p] = "not_started" \/ (worker[p] = "spawn" /\ op[p] = "detach") => invocations = 0
    /\ worker[p] \in {"readback", "commit"} =>
          v2 /\ outcome \in {"failed", "unknown"} /\ op[p] = "retry"

\* What a command knows after, and a settlement in the middle of, its rollback.
CommandKnows(p) ==
    /\ caller[p] = "decide" => outcome \notin {"pending", "pre_admission_failed"}
    /\ settle[p] \in {"mode", "mirror", "outcome"} => outcome \in {"none", "pre_admission_failed"}
    /\ settle[p] = "attempt" => outcome = "none"
    /\ settle[p] \in {"mirror", "outcome", "attempt"} => mode = "sync"
    /\ settle[p] = "unknown" => outcome = "pending"

\* An admitted invocation is kept, and an outcome of one belongs to the async mode.
FilesKept ==
    /\ AdmittedActivationKept
    /\ outcome \in {"pending", "succeeded", "failed", "unknown"} => mode = "async"

AdmissionInv ==
    /\ FilesKept
    /\ \A p \in Detachers : WorkerKnows(p) /\ CommandKnows(p)

\* A process that does not hold the lock relies on nothing.
LEMMA AdmissionKept ==
    ASSUME NEW p \in Detachers, FilesKept', WorkerKnows(p)', CommandKnows(p)',
           \A q \in Detachers : q # p => ~Holds(q)' /\ settle'[q] = "off"
    PROVE  AdmissionInv'
<1>1. ASSUME NEW q \in Detachers, q # p PROVE WorkerKnows(q)' /\ CommandKnows(q)'
  BY <1>1 DEF WorkerKnows, CommandKnows, Holds, Commanding, WorkerAlive
<1>2. QED BY <1>1 DEF AdmissionInv

\* Every step keeps an admitted invocation, whatever dies and whichever write fails.
LEMMA AdmissionStep ==
    ASSUME TypeOK, LockInv, AdmissionInv, [Next]_vars
    PROVE  AdmissionInv'
<1> USE MaxInvocationsAssumption
<1>1. ASSUME NEW p \in Detachers, Settle(p) PROVE AdmissionInv'
  <2>1. CASE SettleReads(p)
    <3>1. FilesKept'
      BY <2>1, SettleReadsCases DEF AdmissionInv, FilesKept, AdmittedActivationKept, records
    <3>2. WorkerKnows(p)' /\ CommandKnows(p)'
      BY <2>1, SettleReadsCases DEF AdmissionInv, WorkerKnows, CommandKnows, TypeOK, records,
                                    SettleEnded, WorkerEnds, CommandGoes
    <3>3. QED BY <1>1, <3>1, <3>2, HolderAlone, AdmissionKept
  <2>2. CASE SettleMode(p)
    <3>1. PICK w \in WriteResults :
             SettleStep(p, "mode", "mirror", w) /\ mode' = Left(w, mode, "sync")
      BY <2>2 DEF SettleMode
    <3>2. CommandKnows(p) /\ FilesKept /\ Settling(p) /\ settle[p] = "mode"
      BY <3>1, SettleStepCases DEF AdmissionInv
    <3>3. FilesKept'
      BY <2>2, <3>1, <3>2, SettleStepCases DEF SettleMode, FilesKept, AdmittedActivationKept,
         CommandKnows, TypeOK, Left
    <3>4. WorkerKnows(p)' /\ CommandKnows(p)'
      BY <2>2, <3>1, <3>2, SettleStepCases DEF SettleMode, WorkerKnows, CommandKnows, TypeOK,
         Left, SettleEnded, WorkerEnds, CommandGoes, Settling, WorkerAlive
    <3>5. QED BY <1>1, <3>3, <3>4, HolderAlone, AdmissionKept
  <2>3. CASE SettleOutcome(p)
    <3>1. PICK w \in WriteResults :
             SettleStep(p, "outcome", "attempt", w) /\ outcome' = Left(w, outcome, "none")
      BY <2>3 DEF SettleOutcome
    <3>2. CommandKnows(p) /\ FilesKept /\ Settling(p) /\ settle[p] = "outcome"
      BY <3>1, SettleStepCases DEF AdmissionInv
    <3>3. FilesKept'
      BY <2>3, <3>1, <3>2, SettleStepCases DEF SettleOutcome, FilesKept,
         AdmittedActivationKept, CommandKnows, TypeOK, Left
    <3>4. WorkerKnows(p)' /\ CommandKnows(p)'
      BY <2>3, <3>1, <3>2, SettleStepCases DEF SettleOutcome, WorkerKnows, CommandKnows,
         TypeOK, Left, SettleEnded, WorkerEnds, CommandGoes, Settling, WorkerAlive
    <3>5. QED BY <1>1, <3>3, <3>4, HolderAlone, AdmissionKept
  <2>4. CASE SettleAttempt(p)
    <3>1. PICK w \in WriteResults :
             SettleStep(p, "attempt", "off", w) /\ attempted' = Left(w, attempted, FALSE)
      BY <2>4 DEF SettleAttempt
    <3>2. CommandKnows(p) /\ FilesKept /\ Settling(p) /\ settle[p] = "attempt"
      BY <3>1, SettleStepCases DEF AdmissionInv
    <3>3. FilesKept'
      BY <2>4, <3>1, <3>2, SettleStepCases DEF SettleAttempt, FilesKept,
         AdmittedActivationKept, CommandKnows, TypeOK, Left
    <3>4. WorkerKnows(p)' /\ CommandKnows(p)'
      BY <2>4, <3>1, <3>2, SettleStepCases DEF SettleAttempt, WorkerKnows, CommandKnows,
         TypeOK, Left, SettleEnded, WorkerEnds, CommandGoes, Settling, WorkerAlive
    <3>5. QED BY <1>1, <3>3, <3>4, HolderAlone, AdmissionKept
  <2>5. CASE SettleUnknown(p)
    <3>1. PICK w \in WriteResults :
             SettleStep(p, "unknown", "off", w) /\ outcome' = Left(w, outcome, "unknown")
      BY <2>5 DEF SettleUnknown
    <3>2. CommandKnows(p) /\ FilesKept /\ Settling(p) /\ settle[p] = "unknown"
      BY <3>1, SettleStepCases DEF AdmissionInv
    <3>3. FilesKept'
      BY <2>5, <3>1, <3>2, SettleStepCases DEF SettleUnknown, FilesKept,
         AdmittedActivationKept, CommandKnows, TypeOK, Left
    <3>4. WorkerKnows(p)' /\ CommandKnows(p)'
      BY <2>5, <3>1, <3>2, SettleStepCases DEF SettleUnknown, WorkerKnows, CommandKnows,
         TypeOK, Left, SettleEnded, WorkerEnds, CommandGoes, Settling, WorkerAlive
    <3>5. QED BY <1>1, <3>3, <3>4, HolderAlone, AdmissionKept
  <2>6. CASE SettleMirror(p)
    <3>1. PICK w \in WriteResults :
             SettleStep(p, "mirror", "outcome", w) /\ Repairs(w, "sync")
      BY <2>6 DEF SettleMirror
    <3>2. CommandKnows(p) /\ FilesKept /\ Settling(p) /\ settle[p] = "mirror"
      BY <3>1, SettleStepCases DEF AdmissionInv
    <3>3. FilesKept'
      BY <2>6, <3>1, <3>2, SettleStepCases DEF SettleMirror, FilesKept,
         AdmittedActivationKept, CommandKnows, TypeOK, Left
    <3>4. WorkerKnows(p)' /\ CommandKnows(p)'
      BY <2>6, <3>1, <3>2, SettleStepCases DEF SettleMirror, WorkerKnows, CommandKnows,
         TypeOK, Left, SettleEnded, WorkerEnds, CommandGoes, Settling, WorkerAlive
    <3>5. QED BY <1>1, <3>3, <3>4, HolderAlone, AdmissionKept
  <2>7. QED BY <1>1, <2>1, <2>2, <2>3, <2>4, <2>5, <2>6 DEF Settle
<1>2. ASSUME NEW p \in Detachers, Command(p) PROVE AdmissionInv'
  <2>1. CASE ReportMode(p)
    <3>1. WorkerKnows(p) /\ CommandKnows(p) /\ FilesKept /\ Together(p)
      BY DEF AdmissionInv, LockInv
    <3>2. FilesKept'
      BY <2>1, <3>1 DEF ReportMode, CallerFrame, Returns, records, FilesKept,
                        AdmittedActivationKept, WorkerKnows, TypeOK
    <3>3. WorkerKnows(p)' /\ CommandKnows(p)'
      BY <2>1, <3>1 DEF ReportMode, CallerFrame, Returns, records, FilesKept,
                        AdmittedActivationKept, WorkerKnows, CommandKnows, Together,
                        WorkerAlive, Settling, TypeOK
    <3>4. QED BY <1>2, <3>2, <3>3, HolderAlone, AdmissionKept
  <2>2. CASE DetachAgain(p)
    <3>1. WorkerKnows(p) /\ CommandKnows(p) /\ FilesKept /\ Together(p)
      BY DEF AdmissionInv, LockInv
    <3>2. FilesKept'
      BY <2>2, <3>1 DEF DetachAgain, CallerFrame, Returns, records, FilesKept,
                        AdmittedActivationKept, WorkerKnows, TypeOK
    <3>3. WorkerKnows(p)' /\ CommandKnows(p)'
      BY <2>2, <3>1 DEF DetachAgain, CallerFrame, Returns, records, FilesKept,
                        AdmittedActivationKept, WorkerKnows, CommandKnows, Together,
                        WorkerAlive, Settling, TypeOK
    <3>4. QED BY <1>2, <3>2, <3>3, HolderAlone, AdmissionKept
  <2>3. CASE DetachRefused(p)
    <3>1. WorkerKnows(p) /\ CommandKnows(p) /\ FilesKept /\ Together(p)
      BY DEF AdmissionInv, LockInv
    <3>2. FilesKept'
      BY <2>3, <3>1 DEF DetachRefused, CallerFrame, Returns, records, FilesKept,
                        AdmittedActivationKept, WorkerKnows, TypeOK
    <3>3. WorkerKnows(p)' /\ CommandKnows(p)'
      BY <2>3, <3>1 DEF DetachRefused, CallerFrame, Returns, records, FilesKept,
                        AdmittedActivationKept, WorkerKnows, CommandKnows, Together,
                        WorkerAlive, Settling, TypeOK
    <3>4. QED BY <1>2, <3>2, <3>3, HolderAlone, AdmissionKept
  <2>4. CASE DetachRetries(p)
    <3>1. WorkerKnows(p) /\ CommandKnows(p) /\ FilesKept /\ Together(p)
      BY DEF AdmissionInv, LockInv
    <3>2. FilesKept'
      BY <2>4, <3>1 DEF DetachRetries, CallerFrame, Returns, records, FilesKept,
                        AdmittedActivationKept, WorkerKnows, TypeOK
    <3>3. WorkerKnows(p)' /\ CommandKnows(p)'
      BY <2>4, <3>1 DEF DetachRetries, CallerFrame, Returns, records, FilesKept,
                        AdmittedActivationKept, WorkerKnows, CommandKnows, Together,
                        WorkerAlive, Settling, TypeOK, Uncertain
    <3>4. QED BY <1>2, <3>2, <3>3, HolderAlone, AdmissionKept
  <2>5. CASE DetachForks(p)
    <3>1. WorkerKnows(p) /\ CommandKnows(p) /\ FilesKept /\ Together(p)
      BY DEF AdmissionInv, LockInv
    <3>2. FilesKept'
      BY <2>5, <3>1 DEF DetachForks, CallerFrame, Returns, records, FilesKept,
                        AdmittedActivationKept, WorkerKnows, TypeOK
    <3>3. WorkerKnows(p)' /\ CommandKnows(p)'
      BY <2>5, <3>1 DEF DetachForks, CallerFrame, Returns, records, FilesKept,
                        AdmittedActivationKept, WorkerKnows, CommandKnows, Together,
                        WorkerAlive, Settling, TypeOK, Outcomes
    <3>4. QED BY <1>2, <3>2, <3>3, HolderAlone, AdmissionKept
  <2>6. CASE DetachForkFails(p)
    <3>1. WorkerKnows(p) /\ CommandKnows(p) /\ FilesKept /\ Together(p)
      BY DEF AdmissionInv, LockInv
    <3>2. FilesKept'
      BY <2>6, <3>1 DEF DetachForkFails, CallerFrame, Returns, records, FilesKept,
                        AdmittedActivationKept, WorkerKnows, TypeOK
    <3>3. WorkerKnows(p)' /\ CommandKnows(p)'
      BY <2>6, <3>1 DEF DetachForkFails, CallerFrame, Returns, records, FilesKept,
                        AdmittedActivationKept, WorkerKnows, CommandKnows, Together,
                        WorkerAlive, Settling, TypeOK
    <3>4. QED BY <1>2, <3>2, <3>3, HolderAlone, AdmissionKept
  <2>7. CASE ReapWorker(p)
    <3>1. WorkerKnows(p) /\ CommandKnows(p) /\ FilesKept /\ Together(p)
      BY DEF AdmissionInv, LockInv
    <3>2. FilesKept'
      BY <2>7, <3>1 DEF ReapWorker, CallerFrame, Returns, records, FilesKept,
                        AdmittedActivationKept, WorkerKnows, TypeOK
    <3>3. WorkerKnows(p)' /\ CommandKnows(p)'
      BY <2>7, <3>1 DEF ReapWorker, CallerFrame, Returns, records, FilesKept,
                        AdmittedActivationKept, WorkerKnows, CommandKnows, Together,
                        WorkerAlive, Settling, TypeOK
    <3>4. QED BY <1>2, <3>2, <3>3, HolderAlone, AdmissionKept
  <2>8. CASE FinishDetach(p)
    <3>1. WorkerKnows(p) /\ CommandKnows(p) /\ FilesKept /\ Together(p)
      BY DEF AdmissionInv, LockInv
    <3>2. FilesKept'
      BY <2>8, <3>1 DEF FinishDetach, CallerFrame, Returns, records, FilesKept,
                        AdmittedActivationKept, WorkerKnows, TypeOK
    <3>3. WorkerKnows(p)' /\ CommandKnows(p)'
      BY <2>8, <3>1 DEF FinishDetach, CallerFrame, Returns, records, FilesKept,
                        AdmittedActivationKept, WorkerKnows, CommandKnows, Together,
                        WorkerAlive, Settling, TypeOK
    <3>4. QED BY <1>2, <3>2, <3>3, HolderAlone, AdmissionKept
  <2>9. CASE RepairMirror(p)
    <3>1. WorkerKnows(p) /\ CommandKnows(p) /\ FilesKept /\ Together(p)
      BY DEF AdmissionInv, LockInv
    <3>2. FilesKept'
      BY <2>9, <3>1 DEF RepairMirror, CallerFrame, Returns, records, FilesKept,
                        AdmittedActivationKept, WorkerKnows, TypeOK
    <3>3. WorkerKnows(p)' /\ CommandKnows(p)'
      BY <2>9, <3>1 DEF RepairMirror, CallerFrame, Returns, records, FilesKept,
                        AdmittedActivationKept, WorkerKnows, CommandKnows, Together,
                        WorkerAlive, Settling, TypeOK
    <3>4. QED BY <1>2, <3>2, <3>3, HolderAlone, AdmissionKept
  <2>10. QED BY <1>2, <2>1, <2>2, <2>3, <2>4, <2>5, <2>6, <2>7, <2>8, <2>9 DEF Command
<1>3. ASSUME NEW p \in Detachers, Work(p) PROVE AdmissionInv'
  <2>1. CASE WorkerAttempts(p)
    <3>1. WorkerKnows(p) /\ CommandKnows(p) /\ FilesKept /\ Together(p)
      BY DEF AdmissionInv, LockInv
    <3>2. FilesKept'
      BY <2>1, <3>1 DEF WorkerAttempts, WorkerFrame, WorkerGoes, Left, records, FilesKept,
                        AdmittedActivationKept, WorkerKnows, TypeOK
    <3>3. WorkerKnows(p)' /\ CommandKnows(p)'
      BY <2>1, <3>1 DEF WorkerAttempts, WorkerFrame, WorkerGoes, Left, records, FilesKept,
                        AdmittedActivationKept, WorkerKnows, CommandKnows, Together,
                        WorkerAlive, Settling, TypeOK
    <3>4. QED BY <1>3, <3>2, <3>3, HolderAlone, AdmissionKept
  <2>2. CASE WorkerSetsMode(p)
    <3>1. WorkerKnows(p) /\ CommandKnows(p) /\ FilesKept /\ Together(p)
      BY DEF AdmissionInv, LockInv
    <3>2. FilesKept'
      BY <2>2, <3>1 DEF WorkerSetsMode, WorkerFrame, WorkerGoes, Left, records, FilesKept,
                        AdmittedActivationKept, WorkerKnows, TypeOK
    <3>3. WorkerKnows(p)' /\ CommandKnows(p)'
      BY <2>2, <3>1 DEF WorkerSetsMode, WorkerFrame, WorkerGoes, Left, records, FilesKept,
                        AdmittedActivationKept, WorkerKnows, CommandKnows, Together,
                        WorkerAlive, Settling, TypeOK
    <3>4. QED BY <1>3, <3>2, <3>3, HolderAlone, AdmissionKept
  <2>3. CASE WorkerWritesPending(p)
    <3>1. WorkerKnows(p) /\ CommandKnows(p) /\ FilesKept /\ Together(p)
      BY DEF AdmissionInv, LockInv
    <3>2. FilesKept'
      BY <2>3, <3>1 DEF WorkerWritesPending, WorkerFrame, WorkerGoes, Left, records,
                        FilesKept, AdmittedActivationKept, WorkerKnows, TypeOK
    <3>3. WorkerKnows(p)' /\ CommandKnows(p)'
      BY <2>3, <3>1 DEF WorkerWritesPending, WorkerFrame, WorkerGoes, Left, records,
                        FilesKept, AdmittedActivationKept, WorkerKnows, CommandKnows,
                        Together, WorkerAlive, Settling, TypeOK
    <3>4. QED BY <1>3, <3>2, <3>3, HolderAlone, AdmissionKept
  <2>4. CASE WorkerSpawnFails(p)
    <3>1. WorkerKnows(p) /\ CommandKnows(p) /\ FilesKept /\ Together(p)
      BY DEF AdmissionInv, LockInv
    <3>2. FilesKept'
      BY <2>4, <3>1 DEF WorkerSpawnFails, WorkerFrame, WorkerGoes, Left, records, FilesKept,
                        AdmittedActivationKept, WorkerKnows, TypeOK
    <3>3. WorkerKnows(p)' /\ CommandKnows(p)'
      BY <2>4, <3>1 DEF WorkerSpawnFails, WorkerFrame, WorkerGoes, Left, records, FilesKept,
                        AdmittedActivationKept, WorkerKnows, CommandKnows, Together,
                        WorkerAlive, Settling, TypeOK
    <3>4. QED BY <1>3, <3>2, <3>3, HolderAlone, AdmissionKept
  <2>5. CASE WorkerSpawns(p)
    <3>1. WorkerKnows(p) /\ CommandKnows(p) /\ FilesKept /\ Together(p)
      BY DEF AdmissionInv, LockInv
    <3>2. FilesKept'
      BY <2>5, <3>1 DEF WorkerSpawns, WorkerFrame, WorkerGoes, Left, records, FilesKept,
                        AdmittedActivationKept, WorkerKnows, TypeOK, Together, WorkerAlive
    <3>3. WorkerKnows(p)' /\ CommandKnows(p)'
      BY <2>5, <3>1 DEF WorkerSpawns, WorkerFrame, WorkerGoes, Left, records, FilesKept,
                        AdmittedActivationKept, WorkerKnows, CommandKnows, Together,
                        WorkerAlive, Settling, TypeOK
    <3>4. QED BY <1>3, <3>2, <3>3, HolderAlone, AdmissionKept
  <2>6. CASE WorkerWaits(p)
    <3>1. WorkerKnows(p) /\ CommandKnows(p) /\ FilesKept /\ Together(p)
      BY DEF AdmissionInv, LockInv
    <3>2. FilesKept'
      BY <2>6, <3>1 DEF WorkerWaits, WorkerFrame, records, FilesKept, AdmittedActivationKept
    <3>3. /\ UNCHANGED <<v2, outcome, mode, op, invocations, caller, settle>>
          /\ IF op[p] = "retry" THEN worker'[p] \in {"commit", "readback"}
             ELSE worker'[p] \in {"none", "failure", "success"}
      BY <2>6 DEF WorkerWaits, WorkerFrame, records, TypeOK
    <3>4. op[p] # "retry" => op[p] = "detach"
      BY <2>6, <3>1 DEF WorkerWaits, Together, WorkerAlive
    <3>5. WorkerKnows(p)' /\ CommandKnows(p)'
      BY <2>6, <3>1, <3>3, <3>4 DEF WorkerWaits, WorkerKnows, CommandKnows
    <3>6. QED BY <1>3, <3>2, <3>5, HolderAlone, AdmissionKept
  <2>7. CASE WorkerRecords(p)
    <3>1. WorkerKnows(p) /\ CommandKnows(p) /\ FilesKept /\ Together(p)
      BY DEF AdmissionInv, LockInv
    <3>2. FilesKept'
      BY <2>7, <3>1 DEF WorkerRecords, WorkerFrame, WorkerGoes, Left, records, FilesKept,
                        AdmittedActivationKept, WorkerKnows, TypeOK
    <3>3. WorkerKnows(p)' /\ CommandKnows(p)'
      BY <2>7, <3>1 DEF WorkerRecords, WorkerFrame, WorkerGoes, Left, records, FilesKept,
                        AdmittedActivationKept, WorkerKnows, CommandKnows, Together,
                        WorkerAlive, Settling, TypeOK
    <3>4. QED BY <1>3, <3>2, <3>3, HolderAlone, AdmissionKept
  <2>8. CASE WorkerRollsBack(p)
    <3>1. WorkerKnows(p) /\ CommandKnows(p) /\ FilesKept /\ Together(p)
      BY DEF AdmissionInv, LockInv
    <3>2. FilesKept'
      BY <2>8, <3>1 DEF WorkerRollsBack, WorkerFrame, WorkerGoes, Left, records, FilesKept,
                        AdmittedActivationKept, WorkerKnows, TypeOK
    <3>3. WorkerKnows(p)' /\ CommandKnows(p)'
      BY <2>8, <3>1 DEF WorkerRollsBack, WorkerFrame, WorkerGoes, Left, records, FilesKept,
                        AdmittedActivationKept, WorkerKnows, CommandKnows, Together,
                        WorkerAlive, Settling, TypeOK
    <3>4. QED BY <1>3, <3>2, <3>3, HolderAlone, AdmissionKept
  <2>9. CASE WorkerReadsBack(p)
    <3>1. WorkerKnows(p) /\ CommandKnows(p) /\ FilesKept /\ Together(p)
      BY DEF AdmissionInv, LockInv
    <3>2. FilesKept'
      BY <2>9, <3>1 DEF WorkerReadsBack, WorkerFrame, WorkerGoes, Left, records, FilesKept,
                        AdmittedActivationKept, WorkerKnows, TypeOK
    <3>3. WorkerKnows(p)' /\ CommandKnows(p)'
      BY <2>9, <3>1 DEF WorkerReadsBack, WorkerFrame, WorkerGoes, Left, records, FilesKept,
                        AdmittedActivationKept, WorkerKnows, CommandKnows, Together,
                        WorkerAlive, Settling, TypeOK
    <3>4. QED BY <1>3, <3>2, <3>3, HolderAlone, AdmissionKept
  <2>10. CASE WorkerCommits(p)
    <3>1. WorkerKnows(p) /\ CommandKnows(p) /\ FilesKept /\ Together(p)
      BY DEF AdmissionInv, LockInv
    <3>2. FilesKept'
      BY <2>10, <3>1 DEF WorkerCommits, WorkerFrame, WorkerGoes, Left, records, FilesKept,
                         AdmittedActivationKept, WorkerKnows, TypeOK
    <3>3. WorkerKnows(p)' /\ CommandKnows(p)'
      BY <2>10, <3>1 DEF WorkerCommits, WorkerFrame, WorkerGoes, Left, records, FilesKept,
                         AdmittedActivationKept, WorkerKnows, CommandKnows, Together,
                         WorkerAlive, Settling, TypeOK
    <3>4. QED BY <1>3, <3>2, <3>3, HolderAlone, AdmissionKept
  <2>11. CASE WorkerMirrors(p)
    <3>1. WorkerKnows(p) /\ CommandKnows(p) /\ FilesKept /\ Together(p)
      BY DEF AdmissionInv, LockInv
    <3>2. FilesKept'
      BY <2>11, <3>1 DEF WorkerMirrors, WorkerFrame, WorkerGoes, Left, records, FilesKept,
                         AdmittedActivationKept, WorkerKnows, TypeOK
    <3>3. WorkerKnows(p)' /\ CommandKnows(p)'
      BY <2>11, <3>1 DEF WorkerMirrors, WorkerFrame, WorkerGoes, Left, records, FilesKept,
                         AdmittedActivationKept, WorkerKnows, CommandKnows, Together,
                         WorkerAlive, Settling, TypeOK
    <3>4. QED BY <1>3, <3>2, <3>3, HolderAlone, AdmissionKept
  <2>12. QED BY <1>3, <2>1, <2>2, <2>3, <2>4, <2>5, <2>6, <2>7, <2>8, <2>9, <2>10,
  <2>11 DEF Work
<1>4. ASSUME NEW p \in Detachers,
             AcquireLock(p) \/ KillCaller(p) \/ KillWorker(p) \/ HelperExits(p)
      PROVE  AdmissionInv'
  <2>1. CASE AcquireLock(p)
    <3>1. WorkerKnows(p) /\ CommandKnows(p) /\ FilesKept /\ Together(p)
      BY DEF AdmissionInv, LockInv
    <3>2. FilesKept'
      BY <2>1, <3>1 DEF AcquireLock, records, FilesKept, AdmittedActivationKept
    <3>3. WorkerKnows(p)' /\ CommandKnows(p)'
      BY <2>1, <3>1 DEF AcquireLock, records, WorkerKnows, CommandKnows, Together, Settling,
                        WorkerAlive, LockFree, Commanding, TypeOK
    <3>4. QED BY <2>1, <3>2, <3>3, HolderAlone, AdmissionKept
  <2>2. CASE KillCaller(p)
    <3>1. WorkerKnows(p) /\ CommandKnows(p) /\ FilesKept /\ Together(p)
      BY DEF AdmissionInv, LockInv
    <3>2. FilesKept'
      BY <2>2, <3>1 DEF KillCaller, records, FilesKept, AdmittedActivationKept
    <3>3. WorkerKnows(p)' /\ CommandKnows(p)'
      BY <2>2, <3>1 DEF KillCaller, records, WorkerKnows, CommandKnows, Together, Settling,
                        WorkerAlive, LockFree, Commanding, TypeOK
    <3>4. QED BY <2>2, <3>2, <3>3, HolderAlone, AdmissionKept
  <2>3. CASE KillWorker(p)
    <3>1. WorkerKnows(p) /\ CommandKnows(p) /\ FilesKept /\ Together(p)
      BY DEF AdmissionInv, LockInv
    <3>2. FilesKept'
      BY <2>3, <3>1 DEF KillWorker, records, FilesKept, AdmittedActivationKept
    <3>3. WorkerKnows(p)' /\ CommandKnows(p)'
      BY <2>3, <3>1 DEF KillWorker, records, WorkerKnows, CommandKnows, Together, Settling,
                        WorkerAlive, LockFree, Commanding, TypeOK
    <3>4. QED BY <2>3, <3>2, <3>3, HolderAlone, AdmissionKept
  <2>4. CASE HelperExits(p)
    BY <2>4
       DEF HelperExits, records, AdmissionInv, FilesKept, AdmittedActivationKept,
           WorkerKnows, CommandKnows
  <2>5. QED BY <1>4, <2>1, <2>2, <2>3, <2>4
<1>5. CASE RewriteMeta
  BY <1>5, RewriteMetaCases
     DEF MetaFrame, AdmissionInv, FilesKept, AdmittedActivationKept, WorkerKnows, CommandKnows
<1>6. CASE UNCHANGED vars
  BY <1>6
     DEF vars, records, AdmissionInv, FilesKept, AdmittedActivationKept, WorkerKnows,
         CommandKnows
<1>7. QED BY <1>1, <1>2, <1>3, <1>4, <1>5, <1>6 DEF Next

-----------------------------------------------------------------------------
(* Reports *)

\* The settled states of the four files, against a terminal publication in flight and
\* a start-up rewrite that comes late.
Detached ==
    /\ outcome = "succeeded"
    /\ mirror.mode = "async" \/ (mirror.late /\ publisher # "done")
    /\ publisher # "sync"
Attached ==
    /\ mode = "sync"
    /\ mirror.mode = "sync" \/ mirror.late
    /\ publisher # "async"

\* What a command and its worker may say, and when.
ReportOf(p) ==
    /\ helper[p] = "success" \/ worker[p] \in {"success", "commit"} => committed
    /\ worker[p] \in {"attempt", "mode"} => Attached
    /\ worker[p] \in {"mode", "pending"} => attempted
    /\ worker[p] = "mirror_success" => outcome = "succeeded"
    /\ settle[p] \in {"outcome", "attempt"} => Attached
    /\ settle[p] \in {"mode", "mirror", "outcome", "attempt"} => attempted
    /\ caller[p] = "decide" /\ outcome = "none" => ~attempted
    /\ caller[p] = "repair" => outcome = "succeeded"
    /\ op[p] = "detach" /\ ~failed[p]
          /\ (caller[p] \in {"closing", "final"} \/ worker[p] = "exited") => Detached
    /\ ~failed[p] /\ worker[p] = "exited" => outcome = "succeeded"
    /\ result[p] = "async" => outcome = "succeeded" /\ (op[p] # "mode" => Detached)

\* The files of a handle whose mode is async carry a claim or an outcome, and the files
\* of one that was rolled back are those of one never detached.  Publication follows
\* the start-up.
FilesReported ==
    /\ outcome = "succeeded" => committed
    /\ mode = "async" \/ outcome # "none" => attempted
    /\ mode = "sync" /\ ~attempted => Attached
    /\ publisher # "idle" => startup = "over"

ReportInv == FilesReported /\ \A p \in Detachers : ReportOf(p)

\* A settled activation stays settled.
SettledStays ==
    /\ committed => committed'
    /\ outcome = "succeeded" => outcome' = "succeeded"
    /\ Detached => Detached'

\* What a command that has ended reported stays true.
LEMMA ReportKept ==
    ASSUME ReportInv, NEW p \in Detachers, FilesReported', SettledStays, ReportOf(p)',
           \A q \in Detachers : q # p => ~Holds(q)' /\ settle'[q] = "off",
           \A q \in Detachers : q # p =>
              /\ caller'[q] = caller[q] /\ worker'[q] = worker[q] /\ op'[q] = op[q]
              /\ failed'[q] = failed[q] /\ helper'[q] = helper[q] /\ result'[q] = result[q]
    PROVE  ReportInv'
<1>1. ASSUME NEW q \in Detachers, q # p PROVE ReportOf(q)'
  <2>1. ReportOf(q) /\ ~Holds(q)' /\ settle'[q] = "off"
    BY <1>1 DEF ReportInv
  <2>2. QED BY <1>1, <2>1 DEF ReportOf, SettledStays, Holds, Commanding, WorkerAlive
<1>2. QED BY <1>1 DEF ReportInv

\* The other writers of meta.json leave a settled mirror, or a late one.
LEMMA ReportRewritten ==
    ASSUME TypeOK, AdmissionInv, ReportInv, RewriteMeta
    PROVE  ReportInv'
<1>1. MetaFrame
  BY RewriteMetaCases
<1>2. FilesReported /\ FilesKept
  BY DEF ReportInv, AdmissionInv
<1>3. /\ Detached => Detached'
      /\ Attached => Attached'
      /\ publisher' # "idle" => startup' = "over"
  <2>1. CASE StartupReads \/ StartupEnds
    BY <1>2, <2>1 DEF StartupReads, StartupEnds, MetaFrame, FilesReported, Detached, Attached,
                      TypeOK
  <2>2. CASE StartupWrites
    <3>1. PICK w \in WriteResults :
             mirror' = Left(w, mirror, [mode |-> startup, late |-> startup # mode])
      BY <2>2 DEF StartupWrites
    <3>2. startup \in {"sync", "async"} /\ startup' = "idle" /\ publisher' = publisher
      BY <2>2 DEF StartupWrites
    <3>3. publisher = "idle"
      BY <1>2, <3>2 DEF FilesReported
    <3>4. \/ mirror' = mirror
          \/ mirror'.mode = startup /\ mirror'.late = (startup # mode)
      BY <3>1 DEF Left
    <3>5. Detached => mode = "async"
      BY <1>2 DEF FilesKept, Detached
    <3>6. QED BY <1>1, <3>2, <3>3, <3>4, <3>5 DEF MetaFrame, Detached, Attached
  <2>3. CASE DeliveryWrites
    BY <1>2, <2>3 DEF DeliveryWrites, Meta, MetaFrame, FilesReported, FilesKept, Detached,
                      Attached
  <2>4. CASE PublishReads
    BY <1>2, <2>4 DEF PublishReads, MetaFrame, FilesReported, FilesKept, Detached, Attached,
                      TypeOK
  <2>5. CASE PublishWrites
    BY <1>2, <2>5 DEF PublishWrites, Meta, MetaFrame, FilesReported, Detached, Attached
  <2>6. QED BY <2>1, <2>2, <2>3, <2>4, <2>5 DEF RewriteMeta
<1>4. FilesReported'
  BY <1>1, <1>2, <1>3 DEF MetaFrame, FilesReported
<1>5. ASSUME NEW p \in Detachers PROVE ReportOf(p)'
  <2>1. ReportOf(p)
    BY DEF ReportInv
  <2>2. QED BY <1>1, <1>3, <2>1 DEF MetaFrame, ReportOf
<1>6. QED BY <1>4, <1>5 DEF ReportInv

\* Every step keeps the reports true, when a write that reports an error had no effect.
LEMMA ReportStep ==
    ASSUME "sync" \notin Faults, TypeOK, LockInv, AdmissionInv, ReportInv, [Next]_vars
    PROVE  ReportInv'
<1> USE FaultsAssumption
<1>0. WriteResults \subseteq {"done", "write"}
  BY DEF WriteResults
<1>1. ASSUME NEW p \in Detachers, Settle(p) PROVE ReportInv'
  <2>1. CASE SettleReads(p)
    <3>1. WorkerKnows(p) /\ CommandKnows(p) /\ FilesKept /\ Together(p) /\
          ReportOf(p) /\ FilesReported
      BY DEF AdmissionInv, LockInv, ReportInv
    <3>2. SettledStays /\ FilesReported'
      BY <2>1, <3>1, SettleReadsCases DEF records, SettledStays, FilesReported, Detached,
                                          Attached
    <3>3. ReportOf(p)'
      <4>1. CASE UNCHANGED <<caller, worker, failed, result>>
        <5>1. settle'[p] \in {"mode", "mirror", "outcome",
        "attempt"} => settle'[p] = "mode" /\ attempted
          BY <2>1, <3>1, <4>1 DEF SettleReads, TransferOutcome, SettleReturns, FilesReported,
                                  Settling, TypeOK
        <5>2. QED BY <2>1, <3>1, <4>1, <5>1, SettleReadsCases DEF records, ReportOf,
        Detached, Attached, TypeOK
      <4>2. CASE WorkerEnds(p)
        BY <2>1, <3>1, <4>2, SettleReadsCases DEF records, ReportOf, WorkerEnds, Together,
           WorkerAlive, Detached, Attached, TypeOK
      <4>3. ASSUME NEW label \in {"decide", "final"}, CommandGoes(p, label),
      outcome = "none" => ~attempted,
                   label = "final" => caller[p] # "settling"
            PROVE  ReportOf(p)'
        BY <2>1, <3>1, <4>3, SettleReadsCases DEF records, ReportOf, CommandGoes, Settling,
           Together, WorkerAlive, Detached, Attached, TypeOK
      <4>4. QED BY <2>1, <4>1, <4>2, <4>3, SettleReadsCases DEF SettleEnded
    <3>4. \A q \in Detachers : q # p => /\ caller'[q] = caller[q] /\ worker'[q] = worker[q]
                                        /\ failed'[q] = failed[q] /\ result'[q] = result[q]
      BY <2>1, SettleReadsCases DEF SettleEnded, WorkerEnds, CommandGoes, TypeOK
    <3>5. QED BY <1>1, <2>1, <3>2, <3>3, <3>4, SettleReadsCases, HolderAlone, ReportKept
  <2>2. CASE SettleMode(p)
    <3>1. WorkerKnows(p) /\ CommandKnows(p) /\ FilesKept /\ Together(p) /\
          ReportOf(p) /\ FilesReported
      BY DEF AdmissionInv, LockInv, ReportInv
    <3>2. PICK w \in {"done", "write"} : /\ SettleStep(p, "mode", "mirror", w)
                                         /\ mode' = Left(w, mode, "sync")
                                         /\ UNCHANGED <<mirror, attempted, outcome>>
      BY <1>0, <2>2 DEF SettleMode
    <3>3. /\ UNCHANGED <<v2, committed, invocations, startup, publisher, op, helper>>
          /\ Settling(p) /\ settle[p] = "mode"
      BY <3>2, SettleStepCases
    <3>4. SettledStays /\ FilesReported'
      BY <3>1, <3>2, <3>3 DEF Left, SettledStays, FilesReported, FilesKept, CommandKnows,
                              ReportOf, Detached, Attached, TypeOK
    <3>5. ReportOf(p)'
      <4>1. CASE w = "done" /\ UNCHANGED <<caller, worker, failed,
      result>> /\ settle' = [settle EXCEPT ![p] = "mirror"]
        BY <3>1, <3>2, <3>3, <4>1 DEF Left, ReportOf, FilesKept, CommandKnows, Settling,
                                      WorkerAlive, Detached, Attached, TypeOK
      <4>2. CASE WorkerEnds(p) /\ settle' = [settle EXCEPT ![p] = "off"]
        BY <3>1, <3>2, <3>3, <4>2 DEF Left, ReportOf, CommandKnows, FilesKept, WorkerEnds,
                                      Settling, Together, WorkerAlive, Detached, Attached,
                                      TypeOK
      <4>3. ASSUME NEW label \in {"decide", "final", "returned"}, CommandGoes(p, label),
      settle' = [settle EXCEPT ![p] = "off"],
                   label = "decide" => w = "done" /\ "mirror" = "off",
                   label = "final" => caller[p] # "settling"
            PROVE  ReportOf(p)'
        BY <3>1, <3>2, <3>3, <4>3 DEF Left, ReportOf, CommandKnows, FilesKept, CommandGoes,
                                      Settling, Together, WorkerAlive, Detached, Attached,
                                      TypeOK
      <4>4. QED BY <3>2, <4>1, <4>2, <4>3, SettleStepCases DEF SettleEnded
    <3>6. \A q \in Detachers : q # p => /\ caller'[q] = caller[q] /\ worker'[q] = worker[q]
                                        /\ failed'[q] = failed[q] /\ result'[q] = result[q]
      BY <3>2, SettleStepCases DEF SettleEnded, WorkerEnds, CommandGoes, TypeOK
    <3>7. QED BY <1>1, <3>3, <3>4, <3>5, <3>6, HolderAlone, ReportKept
  <2>3. CASE SettleOutcome(p)
    <3>1. WorkerKnows(p) /\ CommandKnows(p) /\ FilesKept /\ Together(p) /\
          ReportOf(p) /\ FilesReported
      BY DEF AdmissionInv, LockInv, ReportInv
    <3>2. PICK w \in {"done", "write"} : /\ SettleStep(p, "outcome", "attempt", w)
                                         /\ outcome' = Left(w, outcome, "none")
                                         /\ UNCHANGED <<mode, mirror, attempted>>
      BY <1>0, <2>3 DEF SettleOutcome
    <3>3. /\ UNCHANGED <<v2, committed, invocations, startup, publisher, op, helper>>
          /\ Settling(p) /\ settle[p] = "outcome"
      BY <3>2, SettleStepCases
    <3>4. SettledStays /\ FilesReported'
      BY <3>1, <3>2, <3>3 DEF Left, SettledStays, FilesReported, FilesKept, CommandKnows,
                              ReportOf, Detached, Attached, TypeOK
    <3>5. ReportOf(p)'
      <4>1. CASE w = "done" /\ UNCHANGED <<caller, worker, failed,
      result>> /\ settle' = [settle EXCEPT ![p] = "attempt"]
        BY <3>1, <3>2, <3>3, <4>1 DEF Left, ReportOf, FilesKept, CommandKnows, Settling,
                                      WorkerAlive, Detached, Attached, TypeOK
      <4>2. CASE WorkerEnds(p) /\ settle' = [settle EXCEPT ![p] = "off"]
        BY <3>1, <3>2, <3>3, <4>2 DEF Left, ReportOf, CommandKnows, FilesKept, WorkerEnds,
                                      Settling, Together, WorkerAlive, Detached, Attached,
                                      TypeOK
      <4>3. ASSUME NEW label \in {"decide", "final", "returned"}, CommandGoes(p, label),
      settle' = [settle EXCEPT ![p] = "off"],
                   label = "decide" => w = "done" /\ "attempt" = "off",
                   label = "final" => caller[p] # "settling"
            PROVE  ReportOf(p)'
        BY <3>1, <3>2, <3>3, <4>3 DEF Left, ReportOf, CommandKnows, FilesKept, CommandGoes,
                                      Settling, Together, WorkerAlive, Detached, Attached,
                                      TypeOK
      <4>4. QED BY <3>2, <4>1, <4>2, <4>3, SettleStepCases DEF SettleEnded
    <3>6. \A q \in Detachers : q # p => /\ caller'[q] = caller[q] /\ worker'[q] = worker[q]
                                        /\ failed'[q] = failed[q] /\ result'[q] = result[q]
      BY <3>2, SettleStepCases DEF SettleEnded, WorkerEnds, CommandGoes, TypeOK
    <3>7. QED BY <1>1, <3>3, <3>4, <3>5, <3>6, HolderAlone, ReportKept
  <2>4. CASE SettleAttempt(p)
    <3>1. WorkerKnows(p) /\ CommandKnows(p) /\ FilesKept /\ Together(p) /\
          ReportOf(p) /\ FilesReported
      BY DEF AdmissionInv, LockInv, ReportInv
    <3>2. PICK w \in {"done", "write"} : /\ SettleStep(p, "attempt", "off", w)
                                         /\ attempted' = Left(w, attempted, FALSE)
                                         /\ UNCHANGED <<mode, mirror, outcome>>
      BY <1>0, <2>4 DEF SettleAttempt
    <3>3. /\ UNCHANGED <<v2, committed, invocations, startup, publisher, op, helper>>
          /\ Settling(p) /\ settle[p] = "attempt"
      BY <3>2, SettleStepCases
    <3>4. SettledStays /\ FilesReported'
      BY <3>1, <3>2, <3>3 DEF Left, SettledStays, FilesReported, FilesKept, CommandKnows,
                              ReportOf, Detached, Attached, TypeOK
    <3>5. ReportOf(p)'
      <4>1. CASE w = "done" /\ UNCHANGED <<caller, worker, failed,
      result>> /\ settle' = [settle EXCEPT ![p] = "off"]
        BY <3>1, <3>2, <3>3, <4>1 DEF Left, ReportOf, FilesKept, CommandKnows, Settling,
                                      WorkerAlive, Detached, Attached, TypeOK
      <4>2. CASE WorkerEnds(p) /\ settle' = [settle EXCEPT ![p] = "off"]
        BY <3>1, <3>2, <3>3, <4>2 DEF Left, ReportOf, CommandKnows, FilesKept, WorkerEnds,
                                      Settling, Together, WorkerAlive, Detached, Attached,
                                      TypeOK
      <4>3. ASSUME NEW label \in {"decide", "final", "returned"}, CommandGoes(p, label),
      settle' = [settle EXCEPT ![p] = "off"],
                   label = "decide" => w = "done" /\ "off" = "off",
                   label = "final" => caller[p] # "settling"
            PROVE  ReportOf(p)'
        BY <3>1, <3>2, <3>3, <4>3 DEF Left, ReportOf, CommandKnows, FilesKept, CommandGoes,
                                      Settling, Together, WorkerAlive, Detached, Attached,
                                      TypeOK
      <4>4. QED BY <3>2, <4>1, <4>2, <4>3, SettleStepCases DEF SettleEnded
    <3>6. \A q \in Detachers : q # p => /\ caller'[q] = caller[q] /\ worker'[q] = worker[q]
                                        /\ failed'[q] = failed[q] /\ result'[q] = result[q]
      BY <3>2, SettleStepCases DEF SettleEnded, WorkerEnds, CommandGoes, TypeOK
    <3>7. QED BY <1>1, <3>3, <3>4, <3>5, <3>6, HolderAlone, ReportKept
  <2>5. CASE SettleUnknown(p)
    <3>1. WorkerKnows(p) /\ CommandKnows(p) /\ FilesKept /\ Together(p) /\
          ReportOf(p) /\ FilesReported
      BY DEF AdmissionInv, LockInv, ReportInv
    <3>2. PICK w \in {"done", "write"} : /\ SettleStep(p, "unknown", "off", w)
                                         /\ outcome' = Left(w, outcome, "unknown")
                                         /\ UNCHANGED <<mode, mirror, attempted>>
      BY <1>0, <2>5 DEF SettleUnknown
    <3>3. /\ UNCHANGED <<v2, committed, invocations, startup, publisher, op, helper>>
          /\ Settling(p) /\ settle[p] = "unknown"
      BY <3>2, SettleStepCases
    <3>4. SettledStays /\ FilesReported'
      BY <3>1, <3>2, <3>3 DEF Left, SettledStays, FilesReported, FilesKept, CommandKnows,
                              ReportOf, Detached, Attached, TypeOK
    <3>5. ReportOf(p)'
      <4>1. CASE w = "done" /\ UNCHANGED <<caller, worker, failed,
      result>> /\ settle' = [settle EXCEPT ![p] = "off"]
        BY <3>1, <3>2, <3>3, <4>1 DEF Left, ReportOf, FilesKept, CommandKnows, Settling,
                                      WorkerAlive, Detached, Attached, TypeOK
      <4>2. CASE WorkerEnds(p) /\ settle' = [settle EXCEPT ![p] = "off"]
        BY <3>1, <3>2, <3>3, <4>2 DEF Left, ReportOf, CommandKnows, FilesKept, WorkerEnds,
                                      Settling, Together, WorkerAlive, Detached, Attached,
                                      TypeOK
      <4>3. ASSUME NEW label \in {"decide", "final", "returned"}, CommandGoes(p, label),
      settle' = [settle EXCEPT ![p] = "off"],
                   label = "decide" => w = "done" /\ "off" = "off",
                   label = "final" => caller[p] # "settling"
            PROVE  ReportOf(p)'
        BY <3>1, <3>2, <3>3, <4>3 DEF Left, ReportOf, CommandKnows, FilesKept, CommandGoes,
                                      Settling, Together, WorkerAlive, Detached, Attached,
                                      TypeOK
      <4>4. QED BY <3>2, <4>1, <4>2, <4>3, SettleStepCases DEF SettleEnded
    <3>6. \A q \in Detachers : q # p => /\ caller'[q] = caller[q] /\ worker'[q] = worker[q]
                                        /\ failed'[q] = failed[q] /\ result'[q] = result[q]
      BY <3>2, SettleStepCases DEF SettleEnded, WorkerEnds, CommandGoes, TypeOK
    <3>7. QED BY <1>1, <3>3, <3>4, <3>5, <3>6, HolderAlone, ReportKept
  <2>6. CASE SettleMirror(p)
    <3>1. WorkerKnows(p) /\ CommandKnows(p) /\ FilesKept /\ Together(p) /\
          ReportOf(p) /\ FilesReported
      BY DEF AdmissionInv, LockInv, ReportInv
    <3>2. PICK w \in {"done", "write"} : /\ SettleStep(p, "mirror", "outcome", w)
                                         /\ Repairs(w, "sync")
                                         /\ UNCHANGED <<mode, attempted, outcome>>
      BY <1>0, <2>6 DEF SettleMirror
    <3>3. /\ UNCHANGED <<v2, committed, invocations, startup, publisher, op, helper>>
          /\ Settling(p) /\ settle[p] = "mirror"
      BY <3>2, SettleStepCases
    <3>4. SettledStays /\ FilesReported'
      BY <3>1, <3>2, <3>3 DEF Left, Repairs, Meta, CompletionFree, SettledStays, FilesReported,
                              FilesKept, CommandKnows, ReportOf, Detached, Attached, TypeOK
    <3>5. ReportOf(p)'
      <4>1. CASE w = "done" /\ UNCHANGED <<caller, worker, failed,
      result>> /\ settle' = [settle EXCEPT ![p] = "outcome"]
        BY <3>1, <3>2, <3>3, <4>1 DEF Left, Repairs, Meta, CompletionFree, ReportOf, FilesKept,
                                      CommandKnows, Settling, WorkerAlive, Detached,
                                      Attached, TypeOK
      <4>2. CASE WorkerEnds(p) /\ settle' = [settle EXCEPT ![p] = "off"]
        BY <3>1, <3>2, <3>3, <4>2 DEF Left, Repairs, Meta, CompletionFree, ReportOf, CommandKnows,
                                      FilesKept, WorkerEnds, Settling, Together, WorkerAlive,
                                      Detached, Attached, TypeOK
      <4>3. ASSUME NEW label \in {"decide", "final", "returned"}, CommandGoes(p, label),
      settle' = [settle EXCEPT ![p] = "off"],
                   label = "decide" => w = "done" /\ "outcome" = "off",
                   label = "final" => caller[p] # "settling"
            PROVE  ReportOf(p)'
        BY <3>1, <3>2, <3>3, <4>3 DEF Left, Repairs, Meta, CompletionFree, ReportOf, CommandKnows,
                                      FilesKept, CommandGoes, Settling, Together,
                                      WorkerAlive, Detached, Attached, TypeOK
      <4>4. QED BY <3>2, <4>1, <4>2, <4>3, SettleStepCases DEF SettleEnded
    <3>6. \A q \in Detachers : q # p => /\ caller'[q] = caller[q] /\ worker'[q] = worker[q]
                                        /\ failed'[q] = failed[q] /\ result'[q] = result[q]
      BY <3>2, SettleStepCases DEF SettleEnded, WorkerEnds, CommandGoes, TypeOK
    <3>7. QED BY <1>1, <3>3, <3>4, <3>5, <3>6, HolderAlone, ReportKept
  <2>7. QED BY <1>1, <2>1, <2>2, <2>3, <2>4, <2>5, <2>6 DEF Settle
<1>2. ASSUME NEW p \in Detachers, Command(p) PROVE ReportInv'
  <2>1. CASE ReportMode(p)
    <3>1. WorkerKnows(p) /\ CommandKnows(p) /\ FilesKept /\ Together(p) /\
          ReportOf(p) /\ FilesReported
      BY DEF AdmissionInv, LockInv, ReportInv
    <3>2. SettledStays /\ FilesReported'
      BY <1>0, <2>1, <3>1 DEF ReportMode, CallerFrame, Returns, Left, records, SettledStays,
                              FilesReported, FilesKept, WorkerKnows, CommandKnows, ReportOf,
                              Detached, Attached, TypeOK
    <3>3. ReportOf(p)'
      BY <1>0, <2>1, <3>1 DEF ReportMode, CallerFrame, Returns, Left, Settled,
                              TransferOutcome, Outcomes, records, ReportOf, FilesReported,
                              FilesKept, WorkerKnows, CommandKnows, Together, WorkerAlive,
                              Settling, Detached, Attached, TypeOK
    <3>4. QED BY <1>2, <2>1, <3>2, <3>3, HolderAlone, ReportKept DEF ReportMode, CallerFrame,
    Returns, Left, TypeOK
  <2>2. CASE DetachAgain(p)
    <3>1. WorkerKnows(p) /\ CommandKnows(p) /\ FilesKept /\ Together(p) /\
          ReportOf(p) /\ FilesReported
      BY DEF AdmissionInv, LockInv, ReportInv
    <3>2. SettledStays /\ FilesReported'
      BY <1>0, <2>2, <3>1 DEF DetachAgain, CallerFrame, Returns, Left, records, SettledStays,
                              FilesReported, FilesKept, WorkerKnows, CommandKnows, ReportOf,
                              Detached, Attached, TypeOK
    <3>3. ReportOf(p)'
      BY <1>0, <2>2, <3>1 DEF DetachAgain, CallerFrame, Returns, Left, Settled,
                              TransferOutcome, Outcomes, records, ReportOf, FilesReported,
                              FilesKept, WorkerKnows, CommandKnows, Together, WorkerAlive,
                              Settling, Detached, Attached, TypeOK
    <3>4. QED BY <1>2, <2>2, <3>2, <3>3, HolderAlone, ReportKept DEF DetachAgain,
    CallerFrame, Returns, Left, TypeOK
  <2>3. CASE DetachRefused(p)
    <3>1. WorkerKnows(p) /\ CommandKnows(p) /\ FilesKept /\ Together(p) /\
          ReportOf(p) /\ FilesReported
      BY DEF AdmissionInv, LockInv, ReportInv
    <3>2. SettledStays /\ FilesReported'
      BY <1>0, <2>3, <3>1 DEF DetachRefused, CallerFrame, Returns, Left, records,
                              SettledStays, FilesReported, FilesKept, WorkerKnows,
                              CommandKnows, ReportOf, Detached, Attached, TypeOK
    <3>3. ReportOf(p)'
      BY <1>0, <2>3, <3>1 DEF DetachRefused, CallerFrame, Returns, Left, records, ReportOf,
                              FilesReported, FilesKept, WorkerKnows, CommandKnows, Together,
                              WorkerAlive, Settling, Detached, Attached, TypeOK
    <3>4. QED BY <1>2, <2>3, <3>2, <3>3, HolderAlone, ReportKept DEF DetachRefused,
    CallerFrame, Returns, Left, TypeOK
  <2>4. CASE DetachRetries(p)
    <3>1. WorkerKnows(p) /\ CommandKnows(p) /\ FilesKept /\ Together(p) /\
          ReportOf(p) /\ FilesReported
      BY DEF AdmissionInv, LockInv, ReportInv
    <3>2. SettledStays /\ FilesReported'
      BY <1>0, <2>4, <3>1 DEF DetachRetries, CallerFrame, Returns, Left, records,
                              SettledStays, FilesReported, FilesKept, WorkerKnows,
                              CommandKnows, ReportOf, Detached, Attached, TypeOK
    <3>3. ReportOf(p)'
      BY <1>0, <2>4, <3>1 DEF DetachRetries, CallerFrame, Returns, Left, records, ReportOf,
                              FilesReported, FilesKept, WorkerKnows, CommandKnows, Together,
                              WorkerAlive, Settling, Detached, Attached, TypeOK
    <3>4. QED BY <1>2, <2>4, <3>2, <3>3, HolderAlone, ReportKept DEF DetachRetries,
    CallerFrame, Returns, Left, TypeOK
  <2>5. CASE DetachForks(p)
    <3>1. WorkerKnows(p) /\ CommandKnows(p) /\ FilesKept /\ Together(p) /\
          ReportOf(p) /\ FilesReported
      BY DEF AdmissionInv, LockInv, ReportInv
    <3>2. SettledStays /\ FilesReported'
      BY <1>0, <2>5, <3>1 DEF DetachForks, CallerFrame, Returns, Left, records, SettledStays,
                              FilesReported, FilesKept, WorkerKnows, CommandKnows, ReportOf,
                              Detached, Attached, TypeOK
    <3>3. ReportOf(p)'
      BY <1>0, <2>5, <3>1 DEF DetachForks, CallerFrame, Returns, Left, Settled,
                              TransferOutcome, Outcomes, records, ReportOf, FilesReported,
                              FilesKept, WorkerKnows, CommandKnows, Together, WorkerAlive,
                              Settling, Detached, Attached, TypeOK
    <3>4. QED BY <1>2, <2>5, <3>2, <3>3, HolderAlone, ReportKept DEF DetachForks,
    CallerFrame, Returns, Left, TypeOK
  <2>6. CASE DetachForkFails(p)
    <3>1. WorkerKnows(p) /\ CommandKnows(p) /\ FilesKept /\ Together(p) /\
          ReportOf(p) /\ FilesReported
      BY DEF AdmissionInv, LockInv, ReportInv
    <3>2. SettledStays /\ FilesReported'
      BY <1>0, <2>6, <3>1 DEF DetachForkFails, CallerFrame, Returns, Left, records,
                              SettledStays, FilesReported, FilesKept, WorkerKnows,
                              CommandKnows, ReportOf, Detached, Attached, TypeOK
    <3>3. ReportOf(p)'
      BY <1>0, <2>6, <3>1 DEF DetachForkFails, CallerFrame, Returns, Left, records, ReportOf,
                              FilesReported, FilesKept, WorkerKnows, CommandKnows, Together,
                              WorkerAlive, Settling, Detached, Attached, TypeOK
    <3>4. QED BY <1>2, <2>6, <3>2, <3>3, HolderAlone, ReportKept DEF DetachForkFails,
    CallerFrame, Returns, Left, TypeOK
  <2>7. CASE ReapWorker(p)
    <3>1. WorkerKnows(p) /\ CommandKnows(p) /\ FilesKept /\ Together(p) /\
          ReportOf(p) /\ FilesReported
      BY DEF AdmissionInv, LockInv, ReportInv
    <3>2. SettledStays /\ FilesReported'
      BY <1>0, <2>7, <3>1 DEF ReapWorker, CallerFrame, Returns, Left, records, SettledStays,
                              FilesReported, FilesKept, WorkerKnows, CommandKnows, ReportOf,
                              Detached, Attached, TypeOK
    <3>3. ReportOf(p)'
      <4>1. CASE caller'[p] = "closing"
        BY <2>7, <3>1, <4>1 DEF ReapWorker, CallerFrame, Returns, Settled, TransferOutcome,
                                Outcomes, records, ReportOf, FilesReported, FilesKept,
                                WorkerKnows, CommandKnows, Together, WorkerAlive, Settling,
                                Detached, Attached, TypeOK
      <4>2. CASE caller'[p] = "repair"
        BY <2>7, <3>1, <4>2 DEF ReapWorker, CallerFrame, Returns, Settled, TransferOutcome,
                                Outcomes, records, ReportOf, FilesReported, FilesKept,
                                WorkerKnows, CommandKnows, Together, WorkerAlive, Settling,
                                Detached, Attached, TypeOK
      <4>3. CASE caller'[p] = "returned" /\ result'[p] = "error"
        BY <2>7, <3>1, <4>3 DEF ReapWorker, CallerFrame, Returns, Settled, TransferOutcome,
                                Outcomes, records, ReportOf, FilesReported, FilesKept,
                                WorkerKnows, CommandKnows, Together, WorkerAlive, Settling,
                                Detached, Attached, TypeOK
      <4>4. QED BY <2>7, <4>1, <4>2, <4>3 DEF TypeOK, ReapWorker, Returns
    <3>4. QED BY <1>2, <2>7, <3>2, <3>3, HolderAlone, ReportKept DEF ReapWorker, CallerFrame,
    Returns, Left, TypeOK
  <2>8. CASE FinishDetach(p)
    <3>1. WorkerKnows(p) /\ CommandKnows(p) /\ FilesKept /\ Together(p) /\
          ReportOf(p) /\ FilesReported
      BY DEF AdmissionInv, LockInv, ReportInv
    <3>2. SettledStays /\ FilesReported'
      BY <1>0, <2>8, <3>1 DEF FinishDetach, CallerFrame, Returns, Left, records,
                              SettledStays, FilesReported, FilesKept, WorkerKnows,
                              CommandKnows, ReportOf, Detached, Attached, TypeOK
    <3>3. ReportOf(p)'
      BY <1>0, <2>8, <3>1 DEF FinishDetach, CallerFrame, Returns, Left, Settled,
                              TransferOutcome, Outcomes, records, ReportOf, FilesReported,
                              FilesKept, WorkerKnows, CommandKnows, Together, WorkerAlive,
                              Settling, Detached, Attached, TypeOK
    <3>4. QED BY <1>2, <2>8, <3>2, <3>3, HolderAlone, ReportKept DEF FinishDetach,
    CallerFrame, Returns, Left, TypeOK
  <2>9. CASE RepairMirror(p)
    <3>1. WorkerKnows(p) /\ CommandKnows(p) /\ FilesKept /\ Together(p) /\
          ReportOf(p) /\ FilesReported
      BY DEF AdmissionInv, LockInv, ReportInv
    <3>2. SettledStays /\ FilesReported'
      BY <1>0, <2>9, <3>1 DEF RepairMirror, CallerFrame, Returns, Left, Repairs, Meta,
                              CompletionFree, records, SettledStays, FilesReported,
                              FilesKept, WorkerKnows, CommandKnows, ReportOf, Detached,
                              Attached, TypeOK
    <3>3. ReportOf(p)'
      BY <1>0, <2>9, <3>1 DEF RepairMirror, CallerFrame, Returns, Left, Repairs, Meta,
                              CompletionFree, records, ReportOf, FilesReported, FilesKept,
                              WorkerKnows, CommandKnows, Together, WorkerAlive, Settling,
                              Detached, Attached, TypeOK
    <3>4. QED BY <1>2, <2>9, <3>2, <3>3, HolderAlone, ReportKept DEF RepairMirror,
    CallerFrame, Returns, Left, TypeOK
  <2>10. QED BY <1>2, <2>1, <2>2, <2>3, <2>4, <2>5, <2>6, <2>7, <2>8, <2>9 DEF Command
<1>3. ASSUME NEW p \in Detachers, Work(p) PROVE ReportInv'
  <2>1. CASE WorkerAttempts(p)
    <3>1. WorkerKnows(p) /\ CommandKnows(p) /\ FilesKept /\ Together(p) /\
          ReportOf(p) /\ FilesReported
      BY DEF AdmissionInv, LockInv, ReportInv
    <3>2. SettledStays /\ FilesReported'
      BY <1>0, <2>1, <3>1 DEF WorkerAttempts, WorkerFrame, WorkerGoes, Left, records,
                              SettledStays, FilesReported, FilesKept, WorkerKnows,
                              CommandKnows, ReportOf, Detached, Attached, TypeOK
    <3>3. ReportOf(p)'
      <4>1. Attached' = Attached /\ worker[p] = "attempt" /\ settle'[p] = settle[p]
        BY <2>1 DEF WorkerAttempts, WorkerFrame, Attached
      <4>2. settle[p] = "off" /\ outcome = "none"
        BY <3>1, <4>1 DEF WorkerKnows, Together, Settling, WorkerAlive
      <4>3. \/ worker'[p] = "exited" /\ failed'[p]
            \/ worker'[p] = "mode" /\ attempted'
        BY <1>0, <2>1, <3>1, <4>1 DEF WorkerAttempts, WorkerGoes, ReportOf, TypeOK
      <4>4. /\ caller'[p] = caller[p] /\ result'[p] = result[p] /\ op'[p] = op[p]
            /\ helper'[p] = helper[p] /\ committed' = committed /\ outcome' = outcome
            /\ caller[p] \in {"waiting", "gone"}
        BY <2>1, <3>1, <4>1 DEF WorkerAttempts, WorkerFrame, Together, WorkerAlive
      <4>5. QED BY <3>1, <4>1, <4>2, <4>3, <4>4 DEF ReportOf
    <3>4. QED BY <1>3, <2>1, <3>2, <3>3, HolderAlone, ReportKept DEF WorkerAttempts,
    WorkerFrame, WorkerGoes, Left, TypeOK
  <2>2. CASE WorkerSetsMode(p)
    <3>1. WorkerKnows(p) /\ CommandKnows(p) /\ FilesKept /\ Together(p) /\
          ReportOf(p) /\ FilesReported
      BY DEF AdmissionInv, LockInv, ReportInv
    <3>2. SettledStays /\ FilesReported'
      BY <1>0, <2>2, <3>1 DEF WorkerSetsMode, WorkerFrame, WorkerGoes, Left, records,
                              SettledStays, FilesReported, FilesKept, WorkerKnows,
                              CommandKnows, ReportOf, Detached, Attached, TypeOK
    <3>3. ReportOf(p)'
      <4>1. worker[p] = "mode" /\ settle'[p] = settle[p]
        BY <2>2 DEF WorkerSetsMode, WorkerFrame
      <4>2. settle[p] = "off" /\ outcome = "none"
        BY <3>1, <4>1 DEF WorkerKnows, Together, Settling, WorkerAlive
      <4>3. \/ worker'[p] = "exited" /\ failed'[p]
            \/ worker'[p] = "pending" /\ attempted'
        BY <1>0, <2>2, <3>1, <4>1 DEF WorkerSetsMode, WorkerGoes, ReportOf, TypeOK
      <4>4. /\ caller'[p] = caller[p] /\ result'[p] = result[p] /\ op'[p] = op[p]
            /\ helper'[p] = helper[p] /\ committed' = committed /\ outcome' = outcome
            /\ caller[p] \in {"waiting", "gone"}
        BY <2>2, <3>1, <4>1 DEF WorkerSetsMode, WorkerFrame, Together, WorkerAlive
      <4>5. QED BY <3>1, <4>1, <4>2, <4>3, <4>4 DEF ReportOf
    <3>4. QED BY <1>3, <2>2, <3>2, <3>3, HolderAlone, ReportKept DEF WorkerSetsMode,
    WorkerFrame, WorkerGoes, Left, TypeOK
  <2>3. CASE WorkerWritesPending(p)
    <3>1. WorkerKnows(p) /\ CommandKnows(p) /\ FilesKept /\ Together(p) /\
          ReportOf(p) /\ FilesReported
      BY DEF AdmissionInv, LockInv, ReportInv
    <3>2. SettledStays /\ FilesReported'
      BY <1>0, <2>3, <3>1 DEF WorkerWritesPending, WorkerFrame, WorkerGoes, Left, records,
                              SettledStays, FilesReported, FilesKept, WorkerKnows,
                              CommandKnows, ReportOf, Detached, Attached, TypeOK
    <3>3. ReportOf(p)'
      BY <1>0, <2>3, <3>1 DEF WorkerWritesPending, WorkerFrame, WorkerGoes, Left, records,
                              ReportOf, FilesReported, FilesKept, WorkerKnows, CommandKnows,
                              Together, WorkerAlive, Settling, Detached, Attached, TypeOK
    <3>4. QED BY <1>3, <2>3, <3>2, <3>3, HolderAlone, ReportKept DEF WorkerWritesPending,
    WorkerFrame, WorkerGoes, Left, TypeOK
  <2>4. CASE WorkerSpawnFails(p)
    <3>1. WorkerKnows(p) /\ CommandKnows(p) /\ FilesKept /\ Together(p) /\
          ReportOf(p) /\ FilesReported
      BY DEF AdmissionInv, LockInv, ReportInv
    <3>2. SettledStays /\ FilesReported'
      BY <1>0, <2>4, <3>1 DEF WorkerSpawnFails, WorkerFrame, WorkerGoes, Left, records,
                              SettledStays, FilesReported, FilesKept, WorkerKnows,
                              CommandKnows, ReportOf, Detached, Attached, TypeOK
    <3>3. ReportOf(p)'
      BY <1>0, <2>4, <3>1 DEF WorkerSpawnFails, WorkerFrame, WorkerGoes, Left, records,
                              ReportOf, FilesReported, FilesKept, WorkerKnows, CommandKnows,
                              Together, WorkerAlive, Settling, Detached, Attached, TypeOK
    <3>4. QED BY <1>3, <2>4, <3>2, <3>3, HolderAlone, ReportKept DEF WorkerSpawnFails,
    WorkerFrame, WorkerGoes, Left, TypeOK
  <2>5. CASE WorkerSpawns(p)
    <3>1. WorkerKnows(p) /\ CommandKnows(p) /\ FilesKept /\ Together(p) /\
          ReportOf(p) /\ FilesReported
      BY DEF AdmissionInv, LockInv, ReportInv
    <3>2. SettledStays /\ FilesReported'
      BY <1>0, <2>5, <3>1 DEF WorkerSpawns, WorkerFrame, WorkerGoes, Left, records,
                              SettledStays, FilesReported, FilesKept, WorkerKnows,
                              CommandKnows, ReportOf, Detached, Attached, TypeOK
    <3>3. ReportOf(p)'
      BY <1>0, <2>5, <3>1 DEF WorkerSpawns, WorkerFrame, WorkerGoes, Left, records, ReportOf,
                              FilesReported, FilesKept, WorkerKnows, CommandKnows, Together,
                              WorkerAlive, Settling, Detached, Attached, TypeOK
    <3>4. QED BY <1>3, <2>5, <3>2, <3>3, HolderAlone, ReportKept DEF WorkerSpawns,
    WorkerFrame, WorkerGoes, Left, TypeOK
  <2>6. CASE WorkerWaits(p)
    <3>1. WorkerKnows(p) /\ CommandKnows(p) /\ FilesKept /\ Together(p) /\
          ReportOf(p) /\ FilesReported
      BY DEF AdmissionInv, LockInv, ReportInv
    <3>2. SettledStays /\ FilesReported'
      BY <1>0, <2>6, <3>1 DEF WorkerWaits, WorkerFrame, WorkerGoes, Left, records,
                              SettledStays, FilesReported, FilesKept, WorkerKnows,
                              CommandKnows, ReportOf, Detached, Attached, TypeOK
    <3>3. ReportOf(p)'
      BY <1>0, <2>6, <3>1 DEF WorkerWaits, WorkerFrame, WorkerGoes, Left, records, ReportOf,
                              FilesReported, FilesKept, WorkerKnows, CommandKnows, Together,
                              WorkerAlive, Settling, Detached, Attached, TypeOK
    <3>4. QED BY <1>3, <2>6, <3>2, <3>3, HolderAlone, ReportKept DEF WorkerWaits,
    WorkerFrame, WorkerGoes, Left, TypeOK
  <2>7. CASE WorkerRecords(p)
    <3>1. WorkerKnows(p) /\ CommandKnows(p) /\ FilesKept /\ Together(p) /\
          ReportOf(p) /\ FilesReported
      BY DEF AdmissionInv, LockInv, ReportInv
    <3>2. SettledStays /\ FilesReported'
      BY <1>0, <2>7, <3>1 DEF WorkerRecords, WorkerFrame, WorkerGoes, Left, records,
                              SettledStays, FilesReported, FilesKept, WorkerKnows,
                              CommandKnows, ReportOf, Detached, Attached, TypeOK
    <3>3. ReportOf(p)'
      BY <1>0, <2>7, <3>1 DEF WorkerRecords, WorkerFrame, WorkerGoes, Left, records,
                              ReportOf, FilesReported, FilesKept, WorkerKnows, CommandKnows,
                              Together, WorkerAlive, Settling, Detached, Attached, TypeOK
    <3>4. QED BY <1>3, <2>7, <3>2, <3>3, HolderAlone, ReportKept DEF WorkerRecords,
    WorkerFrame, WorkerGoes, Left, TypeOK
  <2>8. CASE WorkerRollsBack(p)
    <3>1. WorkerKnows(p) /\ CommandKnows(p) /\ FilesKept /\ Together(p) /\
          ReportOf(p) /\ FilesReported
      BY DEF AdmissionInv, LockInv, ReportInv
    <3>2. SettledStays /\ FilesReported'
      BY <1>0, <2>8, <3>1 DEF WorkerRollsBack, WorkerFrame, WorkerGoes, Left, records,
                              SettledStays, FilesReported, FilesKept, WorkerKnows,
                              CommandKnows, ReportOf, Detached, Attached, TypeOK
    <3>3. ReportOf(p)'
      BY <1>0, <2>8, <3>1 DEF WorkerRollsBack, WorkerFrame, WorkerGoes, Left, records,
                              ReportOf, FilesReported, FilesKept, WorkerKnows, CommandKnows,
                              Together, WorkerAlive, Settling, Detached, Attached, TypeOK
    <3>4. QED BY <1>3, <2>8, <3>2, <3>3, HolderAlone, ReportKept DEF WorkerRollsBack,
    WorkerFrame, WorkerGoes, Left, TypeOK
  <2>9. CASE WorkerReadsBack(p)
    <3>1. WorkerKnows(p) /\ CommandKnows(p) /\ FilesKept /\ Together(p) /\
          ReportOf(p) /\ FilesReported
      BY DEF AdmissionInv, LockInv, ReportInv
    <3>2. SettledStays /\ FilesReported'
      BY <1>0, <2>9, <3>1 DEF WorkerReadsBack, WorkerFrame, WorkerGoes, Left, records,
                              SettledStays, FilesReported, FilesKept, WorkerKnows,
                              CommandKnows, ReportOf, Detached, Attached, TypeOK
    <3>3. ReportOf(p)'
      <4>1. CASE committed /\ worker' = [worker EXCEPT ![p] = "commit"] /\ UNCHANGED failed
        BY <2>9, <3>1, <4>1 DEF WorkerReadsBack, WorkerFrame, records, ReportOf,
                                FilesReported, FilesKept, WorkerKnows, CommandKnows,
                                Together, WorkerAlive, Settling, Detached, Attached, TypeOK
      <4>2. CASE worker' = [worker EXCEPT ![p] = "exited"] /\ failed' = [failed EXCEPT ![p] = TRUE]
        <5>1. worker'[p] = "exited" /\ failed'[p] = TRUE
          BY <4>2 DEF TypeOK
        <5>2. UNCHANGED <<records, committed, publisher, helper, caller, op, settle, result>>
          BY <2>9 DEF WorkerReadsBack, WorkerFrame
        <5>3. QED BY <3>1, <5>1, <5>2 DEF records, ReportOf, Detached, Attached
      <4>3. PICK confirmed \in BOOLEAN :
                  /\ confirmed => committed
                  /\ WorkerGoes(p, IF confirmed THEN "done" ELSE "uncommitted", "commit")
        BY <2>9 DEF WorkerReadsBack
      <4>4. CASE confirmed
        BY <4>1, <4>3, <4>4 DEF WorkerGoes
      <4>5. CASE ~confirmed
        BY <4>2, <4>3, <4>5 DEF WorkerGoes
      <4>6. QED BY <4>4, <4>5
    <3>4. QED BY <1>3, <2>9, <3>2, <3>3, HolderAlone, ReportKept DEF WorkerReadsBack,
    WorkerFrame, WorkerGoes, Left, TypeOK
  <2>10. CASE WorkerCommits(p)
    <3>1. WorkerKnows(p) /\ CommandKnows(p) /\ FilesKept /\ Together(p) /\
          ReportOf(p) /\ FilesReported
      BY DEF AdmissionInv, LockInv, ReportInv
    <3>2. SettledStays /\ FilesReported'
      BY <1>0, <2>10, <3>1 DEF WorkerCommits, WorkerFrame, WorkerGoes, Left, records,
                               SettledStays, FilesReported, FilesKept, WorkerKnows,
                               CommandKnows, ReportOf, Detached, Attached, TypeOK
    <3>3. ReportOf(p)'
      BY <1>0, <2>10, <3>1 DEF WorkerCommits, WorkerFrame, WorkerGoes, Left, records,
                               ReportOf, FilesReported, FilesKept, WorkerKnows, CommandKnows,
                               Together, WorkerAlive, Settling, Detached, Attached, TypeOK
    <3>4. QED BY <1>3, <2>10, <3>2, <3>3, HolderAlone, ReportKept DEF WorkerCommits,
    WorkerFrame, WorkerGoes, Left, TypeOK
  <2>11. CASE WorkerMirrors(p)
    <3>1. WorkerKnows(p) /\ CommandKnows(p) /\ FilesKept /\ Together(p) /\
          ReportOf(p) /\ FilesReported
      BY DEF AdmissionInv, LockInv, ReportInv
    <3>2. SettledStays /\ FilesReported'
      BY <1>0, <2>11, <3>1 DEF WorkerMirrors, WorkerFrame, WorkerGoes, Left, Repairs, Meta,
                               CompletionFree, records, SettledStays, FilesReported,
                               FilesKept, WorkerKnows, CommandKnows, ReportOf, Detached,
                               Attached, TypeOK
    <3>3. ReportOf(p)'
      <4>1. PICK w \in {"done", "write"} :
               /\ Repairs(w, "async")
               /\ failed' = [failed EXCEPT ![p] = w # "done" \/ worker[p] = "mirror_failure"]
        BY <1>0, <2>11 DEF WorkerMirrors
      <4>2. outcome = "succeeded" => mode = "async"
        BY <3>1 DEF FilesKept
      <4>3. worker[p] = "mirror_success" /\ w = "done" => Detached'
        BY <2>11, <3>1, <4>1, <4>2 DEF WorkerMirrors, WorkerFrame, Left, Repairs, Meta,
                                       CompletionFree, ReportOf, Detached
      <4>4. worker[p] \in {"mirror_failure", "mirror_success"} /\ settle[p] = "off"
        BY <2>11, <3>1 DEF WorkerMirrors, Together, Settling, WorkerAlive
      <4>5. failed'[p] \/ Detached'
        BY <4>1, <4>3, <4>4 DEF TypeOK
      <4>6. /\ caller'[p] = caller[p] /\ result'[p] = result[p] /\ op'[p] = op[p]
            /\ helper'[p] = helper[p] /\ committed' = committed /\ outcome' = outcome
            /\ settle'[p] = settle[p] /\ worker'[p] = "exited"
            /\ caller[p] \in {"waiting", "gone"}
        BY <2>11, <3>1, <4>4 DEF WorkerMirrors, WorkerFrame, Together, WorkerAlive, TypeOK
      <4>7. Detached => Detached'
        BY <3>2 DEF SettledStays
      <4>8. QED BY <3>1, <4>4, <4>5, <4>6, <4>7 DEF ReportOf, Detached
    <3>4. QED BY <1>3, <2>11, <3>2, <3>3, HolderAlone, ReportKept DEF WorkerMirrors,
    WorkerFrame, WorkerGoes, Left, TypeOK
  <2>12. QED BY <1>3, <2>1, <2>2, <2>3, <2>4, <2>5, <2>6, <2>7, <2>8, <2>9, <2>10,
  <2>11 DEF Work
<1>4. ASSUME NEW p \in Detachers,
             AcquireLock(p) \/ KillCaller(p) \/ KillWorker(p) \/ HelperExits(p)
      PROVE  ReportInv'
  <2>1. CASE AcquireLock(p)
    <3>1. WorkerKnows(p) /\ CommandKnows(p) /\ FilesKept /\ Together(p) /\
          ReportOf(p) /\ FilesReported
      BY DEF AdmissionInv, LockInv, ReportInv
    <3>2. SettledStays /\ FilesReported'
      BY <1>0, <2>1, <3>1 DEF AcquireLock, Commanding, records, SettledStays, FilesReported,
                              FilesKept, WorkerKnows, CommandKnows, ReportOf, Detached,
                              Attached, TypeOK
    <3>3. ReportOf(p)'
      BY <1>0, <2>1, <3>1 DEF AcquireLock, Commanding, records, ReportOf, FilesReported,
                              FilesKept, WorkerKnows, CommandKnows, Together, WorkerAlive,
                              Settling, Detached, Attached, TypeOK
    <3>4. QED BY <2>1, <3>2, <3>3, HolderAlone, ReportKept DEF AcquireLock, Commanding, TypeOK
  <2>2. CASE KillCaller(p)
    <3>1. WorkerKnows(p) /\ CommandKnows(p) /\ FilesKept /\ Together(p) /\
          ReportOf(p) /\ FilesReported
      BY DEF AdmissionInv, LockInv, ReportInv
    <3>2. SettledStays /\ FilesReported'
      BY <1>0, <2>2, <3>1 DEF KillCaller, Commanding, records, SettledStays, FilesReported,
                              FilesKept, WorkerKnows, CommandKnows, ReportOf, Detached,
                              Attached, TypeOK
    <3>3. ReportOf(p)'
      BY <1>0, <2>2, <3>1 DEF KillCaller, Commanding, records, ReportOf, FilesReported,
                              FilesKept, WorkerKnows, CommandKnows, Together, WorkerAlive,
                              Settling, Detached, Attached, TypeOK
    <3>4. QED BY <2>2, <3>2, <3>3, HolderAlone, ReportKept DEF KillCaller, Commanding, TypeOK
  <2>3. CASE KillWorker(p)
    <3>1. WorkerKnows(p) /\ CommandKnows(p) /\ FilesKept /\ Together(p) /\
          ReportOf(p) /\ FilesReported
      BY DEF AdmissionInv, LockInv, ReportInv
    <3>2. SettledStays /\ FilesReported'
      BY <1>0, <2>3, <3>1 DEF KillWorker, Commanding, records, SettledStays, FilesReported,
                              FilesKept, WorkerKnows, CommandKnows, ReportOf, Detached,
                              Attached, TypeOK
    <3>3. ReportOf(p)'
      BY <1>0, <2>3, <3>1 DEF KillWorker, Commanding, records, ReportOf, FilesReported,
                              FilesKept, WorkerKnows, CommandKnows, Together, WorkerAlive,
                              Settling, Detached, Attached, TypeOK
    <3>4. QED BY <2>3, <3>2, <3>3, HolderAlone, ReportKept DEF KillWorker, Commanding, TypeOK
  <2>4. CASE HelperExits(p)
    BY <2>4
       DEF HelperExits, records, ReportInv, ReportOf, FilesReported, Detached, Attached,
           TypeOK
  <2>5. QED BY <1>4, <2>1, <2>2, <2>3, <2>4
<1>5. CASE RewriteMeta
  BY <1>5, ReportRewritten
<1>6. CASE UNCHANGED vars
  BY <1>6 DEF vars, records, ReportInv, ReportOf, FilesReported, Detached, Attached
<1>7. QED BY <1>1, <1>2, <1>3, <1>4, <1>5, <1>6 DEF Next

-----------------------------------------------------------------------------
(* Theorems *)

\* What holds whatever a failed write left behind.
ActivationInv == TypeOK /\ LockInv /\ AdmissionInv

\* A handle that was never detached.
LEMMA ActivationInit == Init => ActivationInv /\ ReportInv
<1> SUFFICES ASSUME Init PROVE ActivationInv /\ ReportInv
  OBVIOUS
<1> USE MaxInvocationsAssumption DEF Init
<1>1. TypeOK
  <2>1. invocations \in 0 .. MaxInvocations
    OBVIOUS
  <2>2. /\ caller \in [Detachers -> CallerStates] /\ worker \in [Detachers -> WorkerStates]
        /\ op \in [Detachers -> {"detach", "retry", "mode"}]
        /\ settle \in [Detachers -> {"off", "mode", "mirror", "outcome", "attempt", "unknown"}]
        /\ failed \in [Detachers -> BOOLEAN]
        /\ helper \in [Detachers -> {"none", "running", "success", "failure"}]
        /\ result \in [Detachers -> {"none", "async", "sync", "error"}]
    BY DEF CallerStates, WorkerStates
  <2>3. /\ v2 \in BOOLEAN /\ attempted \in BOOLEAN /\ committed \in BOOLEAN
        /\ mode \in {"sync", "async"} /\ mirror \in [mode : {"sync", "async"}, late : BOOLEAN]
        /\ outcome \in Outcomes /\ publisher \in {"idle", "sync", "async", "done"}
        /\ startup \in {"idle", "sync", "async", "over"}
    BY DEF Outcomes
  <2>4. QED BY <2>1, <2>2, <2>3 DEF TypeOK
<1>2. LockInv
  BY DEF LockInv, Together, Holds, Commanding, WorkerAlive
<1>3. AdmissionInv
  BY DEF AdmissionInv, FilesKept, AdmittedActivationKept, WorkerKnows, CommandKnows
<1>4. ReportInv
  BY DEF ReportInv, FilesReported, ReportOf, Detached, Attached
<1>5. QED BY <1>1, <1>2, <1>3, <1>4 DEF ActivationInv

\* The invariant of detach, for any number of commands, kills and failed writes.
LEMMA ActivationHolds == Spec => []ActivationInv
<1>1. Init => ActivationInv
  BY ActivationInit
<1>2. ActivationInv /\ [Next]_vars => ActivationInv'
  BY TypeStep, LockStep, AdmissionStep DEF ActivationInv
<1>3. QED BY <1>1, <1>2, PTL DEF Spec

\* The same with the reports, when a write that reports an error left no trace.
LEMMA ReportsHold ==
    ASSUME "sync" \notin Faults
    PROVE  Spec => [](ActivationInv /\ ReportInv)
<1>1. Init => ActivationInv /\ ReportInv
  BY ActivationInit
<1>2. ActivationInv /\ ReportInv /\ [Next]_vars => (ActivationInv /\ ReportInv)'
  BY TypeStep, LockStep, AdmissionStep, ReportStep DEF ActivationInv
<1>3. QED BY <1>1, <1>2, PTL DEF Spec

\* Type correctness: every command, worker and file is in a state the code names.
THEOREM ActivationTypeCorrect == Spec => []TypeOK
<1>1. ActivationInv => TypeOK
  BY DEF ActivationInv
<1>2. QED BY <1>1, ActivationHolds, PTL

\* An admitted activation is never erased and, on a legacy handle, never repeated,
\* whichever processes die and whichever writes fail, before or after their rename
\* (run_activation_worker, settle_orphaned_activation, retry_uncertain_activation).
THEOREM AdmittedKept == Spec => []AdmittedActivationKept
<1>1. ActivationInv => AdmittedActivationKept
  BY DEF ActivationInv, AdmissionInv, FilesKept
<1>2. QED BY <1>1, ActivationHolds, PTL

\* A command that reports async reports an applied activation that mode and mirror agree
\* on, against the other writers of meta.json, kills and failed writes, up to a start-up
\* rewrite that comes late and is not yet followed by terminal publication (detach,
\* settled_delivery_mode, repair_delivery_mode_mirror).
THEOREM AsyncReportHolds ==
    ASSUME "sync" \notin Faults
    PROVE  Spec => []AsyncReportIsTrue
<1>1. ActivationInv /\ ReportInv => AsyncReportIsTrue
  <2> SUFFICES ASSUME ActivationInv, ReportInv, NEW p \in Detachers, result[p] = "async"
               PROVE  committed /\ mode = "async" /\ (op[p] # "mode" =>
                         mirror.mode = "async" \/ (mirror.late /\ publisher # "done"))
    BY DEF AsyncReportIsTrue
  <2>1. ReportOf(p) /\ FilesReported /\ FilesKept
    BY DEF ActivationInv, AdmissionInv, ReportInv
  <2>2. QED BY <2>1 DEF ReportOf, FilesReported, FilesKept, Detached
<1>2. QED BY <1>1, ReportsHold, PTL

\* What releasing the attempt marker leaves.
Restored == mode = "sync" /\ outcome = "none" /\ (mirror.mode = "sync" \/ mirror.late)

\* A step that removes the attempt marker leaves the files of a handle never detached.
LEMMA ClaimReleased ==
    ASSUME "sync" \notin Faults, ActivationInv, ReportInv, [Next]_vars, attempted, ~attempted'
    PROVE  Restored'
<1> USE DEF records
<1>0. WriteResults \subseteq {"done", "write"} /\ TypeOK
  BY FaultsAssumption DEF WriteResults, ActivationInv
<1>1. ASSUME NEW p \in Detachers, Settle(p)
      PROVE  Restored'
  <2>1. CASE SettleReads(p)
    BY <2>1, <1>0, SettleReadsCases
       DEF SettleReads, SettleStep, SettleReturns, SettleFails, SettleFrame, WriteResults,
           Left, records
  <2>2. CASE SettleMode(p)
    BY <2>2
       DEF SettleMode, SettleStep, SettleReturns, SettleFails, SettleFrame, WriteResults,
           Left, records
  <2>3. CASE SettleOutcome(p)
    BY <2>3
       DEF SettleOutcome, SettleStep, SettleReturns, SettleFails, SettleFrame, WriteResults,
           Left, records
  <2>4. CASE SettleAttempt(p)
    <3>1. PICK w \in WriteResults : /\ settle[p] = "attempt"
                                    /\ UNCHANGED <<mode, mirror, outcome>>
      BY <2>4 DEF SettleAttempt, SettleStep
    <3>2. CommandKnows(p) /\ ReportOf(p)
      BY DEF ActivationInv, AdmissionInv, ReportInv
    <3>3. QED BY <3>1, <3>2 DEF CommandKnows, ReportOf, Attached, Restored
  <2>5. CASE SettleUnknown(p)
    BY <2>5
       DEF SettleUnknown, SettleStep, SettleReturns, SettleFails, SettleFrame, WriteResults,
           Left, records
  <2>6. CASE SettleMirror(p)
    BY <2>6
       DEF SettleMirror, SettleStep, SettleReturns, SettleFails, SettleFrame, WriteResults,
           Left, records, Repairs, CompletionFree
  <2>7. QED BY <1>1, <2>1, <2>2, <2>3, <2>4, <2>5, <2>6 DEF Settle
<1>2. ASSUME NEW p \in Detachers, Command(p)
      PROVE  Restored'
  <2>1. CASE ReportMode(p)
    BY <2>1 DEF ReportMode, CallerFrame, Returns, records
  <2>2. CASE DetachAgain(p)
    BY <2>2 DEF DetachAgain, CallerFrame, Returns, records
  <2>3. CASE DetachRefused(p)
    BY <2>3 DEF DetachRefused, CallerFrame, Returns, records
  <2>4. CASE DetachRetries(p)
    BY <2>4 DEF DetachRetries, CallerFrame, Returns, records
  <2>5. CASE DetachForks(p)
    BY <2>5 DEF DetachForks, CallerFrame, Returns, records
  <2>6. CASE DetachForkFails(p)
    BY <2>6 DEF DetachForkFails, CallerFrame, Returns, records
  <2>7. CASE ReapWorker(p)
    BY <2>7 DEF ReapWorker, CallerFrame, Returns, records
  <2>8. CASE FinishDetach(p)
    BY <2>8 DEF FinishDetach, CallerFrame, Returns, records
  <2>9. CASE RepairMirror(p)
    BY <2>9
       DEF RepairMirror, CallerFrame, Returns, WriteResults, Left, Repairs, Meta, CompletionFree,
           records
  <2>10. QED BY <1>2, <2>1, <2>2, <2>3, <2>4, <2>5, <2>6, <2>7, <2>8, <2>9 DEF Command
<1>3. ASSUME NEW p \in Detachers, Work(p)
      PROVE  Restored'
  <2>1. CASE WorkerAttempts(p)
    BY <2>1, <1>0 DEF WorkerAttempts, WorkerFrame, WorkerGoes, WriteResults, Left, records
  <2>2. CASE WorkerSetsMode(p)
    <3>1. PICK w \in WriteResults : /\ worker[p] = "mode" /\ mode' = Left(w, mode, "async")
                                    /\ w = "done" => attempted' = attempted
                                    /\ UNCHANGED <<mirror, outcome>>
      BY <2>2 DEF WorkerSetsMode
    <3>2. WorkerKnows(p) /\ ReportOf(p)
      BY DEF ActivationInv, AdmissionInv, ReportInv
    <3>3. attempted' # attempted
      OBVIOUS
    <3>4. w = "write"
      BY <1>0, <3>1, <3>3
    <3>5. QED BY <3>1, <3>2, <3>4 DEF Left, WorkerKnows, ReportOf, Attached, Restored
  <2>3. CASE WorkerWritesPending(p)
    BY <2>3 DEF WorkerWritesPending, WorkerFrame, WorkerGoes, WriteResults, Left, records
  <2>4. CASE WorkerSpawnFails(p)
    BY <2>4 DEF WorkerSpawnFails, WorkerFrame, WorkerGoes, WriteResults, Left, records
  <2>5. CASE WorkerSpawns(p)
    BY <2>5 DEF WorkerSpawns, WorkerFrame, WorkerGoes, WriteResults, Left, records
  <2>6. CASE WorkerWaits(p)
    BY <2>6 DEF WorkerWaits, WorkerFrame, WorkerGoes, WriteResults, Left, records
  <2>7. CASE WorkerRecords(p)
    BY <2>7 DEF WorkerRecords, WorkerFrame, WorkerGoes, WriteResults, Left, records
  <2>8. CASE WorkerRollsBack(p)
    BY <2>8 DEF WorkerRollsBack, WorkerFrame, WorkerGoes, WriteResults, Left, records
  <2>9. CASE WorkerReadsBack(p)
    BY <2>9 DEF WorkerReadsBack, WorkerFrame, WorkerGoes, WriteResults, Left, records
  <2>10. CASE WorkerCommits(p)
    BY <2>10 DEF WorkerCommits, WorkerFrame, WorkerGoes, WriteResults, Left, records
  <2>11. CASE WorkerMirrors(p)
    BY <2>11
       DEF WorkerMirrors, WorkerFrame, WriteResults, Left, Repairs, Meta, CompletionFree, records
  <2>12. QED BY <1>3, <2>1, <2>2, <2>3, <2>4, <2>5, <2>6, <2>7, <2>8, <2>9, <2>10,
  <2>11 DEF Work
<1>4. ASSUME NEW p \in Detachers,
             AcquireLock(p) \/ KillCaller(p) \/ KillWorker(p) \/ HelperExits(p)
      PROVE  Restored'
  <2>1. CASE AcquireLock(p)
    BY <2>1 DEF AcquireLock, records
  <2>2. CASE KillCaller(p)
    BY <2>2 DEF KillCaller, records
  <2>3. CASE KillWorker(p)
    BY <2>3 DEF KillWorker, records
  <2>4. CASE HelperExits(p)
    BY <2>4 DEF HelperExits, records
  <2>5. QED BY <1>4, <2>1, <2>2, <2>3, <2>4
<1>5. CASE RewriteMeta
  BY <1>0, <1>5, RewriteMetaCases DEF MetaFrame
<1>6. CASE UNCHANGED vars
  BY <1>6 DEF vars, records
<1>7. QED BY <1>1, <1>2, <1>3, <1>4, <1>5, <1>6 DEF Next

\* DESIGN.md's rollback rule: the claim is released last, over restored files
\* (settle_orphaned_activation, record_activation_attempt).
THEOREM RollbackKeepsClaim ==
    ASSUME "sync" \notin Faults
    PROVE  Spec => RollbackRetainsClaim
<1>1. ActivationInv /\ ReportInv /\ [Next]_vars =>
         [attempted /\ ~attempted' => /\ mode' = "sync" /\ outcome' = "none"
                                      /\ mirror'.mode = "sync" \/ mirror'.late
           ]_attempted
  BY ClaimReleased DEF Restored
<1>2. QED BY <1>1, ReportsHold, PTL DEF Spec, RollbackRetainsClaim
=============================================================================
