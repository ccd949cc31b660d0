------------------------ MODULE Continuation_proofs -------------------------
(***************************************************************************)
(* Proofs about Continuation, for every set of recoveries, every length of *)
(* the log and any number of deaths, storage losses and failed copies.     *)
(*                                                                         *)
(* The fence: only the registering worker opens it and only the supervisor *)
(* it forks spends it, so a revoked fence belongs to a worker that is gone *)
(* and a supervisor that was never forked (FenceInv).  The files: what a   *)
(* process has read before it writes stays true while it is descheduled,   *)
(* because every file it relies on is immutable (KnowsOf).  The copy: the  *)
(* capture lease covers the named copy and the record of a loss alike      *)
(* (CaptureOf).                                                            *)
(***************************************************************************)
EXTENDS Continuation, TLAPS

\* The steps of each process apart from the shared publication
GuardianOwn ==
    \/ Prepare \/ PrepareFence \/ PrepareLocal \/ Register \/ Confirm
    \/ ConfirmFence \/ ConfirmLocal \/ Abandon \/ Fork
    \/ GuardianRetires \/ GuardianPublishes \/ GuardianRecords
SupervisorOwn == Spawn \/ Launched \/ Release \/ SupervisorObserves \/ SupervisorExits
RecoveryOwn(r) ==
    RecoverFence(r) \/ Serialize(r) \/ Recover(r) \/ Inventory(r) \/ RecoveryAnswers(r)

\* Every step is a publication step, another step of one process, a fault or a stutter.
LEMMA NextCases ==
    ASSUME [Next]_vars
    PROVE  \/ GuardianOwn \/ SupervisorOwn \/ \E r \in Recoveries : RecoveryOwn(r)
           \/ \E a \in Actors : PublicationStep(a)
           \/ \E a \in Actors : CopyFails(a) \/ Kill(a)
           \/ BrokerCommits \/ Append \/ WorkloadExits \/ AcceptCancel \/ StorageLoss
           \/ UNCHANGED vars
<1>1. ASSUME GuardianStep PROVE GuardianOwn \/ \E a \in Actors : PublicationStep(a)
  BY <1>1 DEF GuardianStep, GuardianOwn, Actors
<1>2. ASSUME SupervisorStep PROVE SupervisorOwn \/ \E a \in Actors : PublicationStep(a)
  BY <1>2 DEF SupervisorStep, SupervisorOwn, Actors
<1>3. ASSUME NEW r \in Recoveries, RecoveryStep(r)
      PROVE  RecoveryOwn(r) \/ \E a \in Actors : PublicationStep(a)
  BY <1>3 DEF RecoveryStep, RecoveryOwn, Actors
<1>4. QED BY <1>1, <1>2, <1>3 DEF Next

-----------------------------------------------------------------------------
(* Publication moves *)

\* An error sends the live loop back to publish or settles it, the guardian back to its
\* watch, and a recovery back to the runner.
LEMMA FailedMoves ==
    ASSUME NEW a \in Actors, Failed(a)
    PROVE  /\ \/ a = "supervisor" /\ Goto(a, "publish")
              \/ a = "supervisor" /\ Goto(a, "settled")
              \/ a = "guardian" /\ Goto(a, "watch")
              \/ a \in Recoveries /\ Goto(a, "idle")
           /\ capture' \in {capture, "noone"} /\ serial' \in {serial, "noone"}
           /\ recovering' = recovering \ {a}
           /\ capture' # a
<1> USE ContinuationAssumption
<1>1. /\ capture' \in {capture, "noone"} /\ serial' \in {serial, "noone"}
      /\ recovering' = recovering \ {a}
      /\ capture' # a
  BY DEF Failed, Without, Actors
<1>2. CASE a = "supervisor"
  <2>1. Goto(a, "publish") \/ Goto(a, "settled")
    BY <1>2 DEF Failed
  <2>2. QED BY <1>1, <1>2, <2>1
<1>3. CASE a = "guardian"
  <2>1. Goto(a, "watch")
    BY <1>3 DEF Failed
  <2>2. QED BY <1>1, <1>3, <2>1
<1>4. CASE a \in Recoveries
  <2>1. Goto(a, "idle")
    BY <1>4 DEF Failed
  <2>2. QED BY <1>1, <1>4, <2>1
<1>5. QED BY <1>2, <1>3, <1>4 DEF Actors


-----------------------------------------------------------------------------
(* Type correctness *)

Sightings == [kind : Kinds \ {"never_launched"}, trusted : BOOLEAN]

\* A supervisor that publishes has seen an event, and only it and the guardian enter
\* publication at its head.
Placed ==
    /\ pc["supervisor"] \in Publishing => seen \in Sightings
    /\ \A r \in Recoveries : pc[r] \notin {"publish", "settled", "watch", "unborn", "gone"}

\* The files a process goes on from are there: they are immutable, so they stay.
KnowsOf(a) ==
    /\ pc[a] = "header" => selection # NoFile
    /\ pc[a] \in {"freeze", "bundle", "missing", "inventory"} => header # NoFile
    /\ pc[a] = "bundle" => output # NoFile
    /\ pc[a] = "missing" => proof
    /\ pc[a] \in {"outcome", "snapshot"} => bundle # NoFile
    /\ pc[a] = "snapshot" => outcome # NoFile
    /\ pc[a] = "inventory" => output = NoFile /\ capture = a

\* The capturer, under source-capture.lock, and the named copy it is making.
Capturing == {"body", "copy", "complete", "link", "anonymous"}
CaptureOf(a) ==
    /\ pc[a] \in Capturing => /\ capture = a /\ output = NoFile /\ ~proof
                              /\ header # NoFile /\ selection.len # Missing
    /\ pc[a] = "body" => slot = "body"
    /\ pc[a] = "copy" => slot = "incomplete"
    /\ pc[a] = "complete" => slot = "full"
    /\ pc[a] = "link" => slot = "complete"

\* The files agree, and an output or a copy is of a selected prefix.
FilesInv ==
    /\ OneEvent /\ LossIsFinal
    /\ output # NoFile => header # NoFile /\ output = selection.len
    /\ bundle # NoFile /\ bundle.output # Missing => output # NoFile
    /\ slot # "free" => header # NoFile /\ selection.len # Missing
    /\ \A a \in Actors : KnowsOf(a) /\ CaptureOf(a)

\* The types that an attempt's end changes.
LEMMA GotoTyped ==
    ASSUME TypeOK, NEW a \in Actors, NEW label \in PCs, Goto(a, label)
    PROVE  pc' \in [Actors -> PCs]
  BY DEF TypeOK, Goto

LocalTypes ==
    /\ pc \in [Actors -> PCs]
    /\ {capture, serial} \subseteq Actors \cup {"noone"} /\ recovering \subseteq Recoveries

\* A process that fails is left at a label.
LEMMA FailedTyped ==
    ASSUME TypeOK, NEW a \in Actors, Failed(a)
    PROVE  LocalTypes'
<1>1. pc' \in [Actors -> PCs]
  BY FailedMoves, GotoTyped DEF PCs, Publishing
<1>2. QED BY <1>1, FailedMoves DEF TypeOK, LocalTypes

\* So is one whose freeze fails.
LEMMA FreezeFailsTyped ==
    ASSUME TypeOK, NEW a \in Actors, FreezeFails(a)
    PROVE  LocalTypes'
<1>1. CASE a \in recovering
  <2>1. pc' \in [Actors -> PCs]
    BY <1>1, GotoTyped DEF FreezeFails, PCs
  <2>2. QED BY <1>1, <2>1 DEF FreezeFails, TypeOK, LocalTypes
<1>2. CASE a \notin recovering
  BY <1>2, FailedTyped DEF FreezeFails
<1>3. QED BY <1>1, <1>2

\* The event a process selects.
LEMMA EventTyped ==
    ASSUME Placed, NEW a \in Actors, pc[a] \in Publishing
    PROVE  /\ EventOf(a) \in Events
           /\ a \in Recoveries <=> EventOf(a).kind = "never_launched"
<1> USE ContinuationAssumption
<1>1. CASE a = "supervisor"
  <2>1. EventOf(a) = [kind |-> seen.kind, observer |-> a] /\ seen \in Sightings
    BY <1>1 DEF EventOf, Placed
  <2>2. QED BY <1>1, <2>1 DEF Sightings, Events, Kinds, Actors
<1>2. CASE a = "guardian"
  <2>1. EventOf(a) = [kind |-> IF cancel THEN "cancelled" ELSE "ceased_status_unknown",
                      observer |-> a]
    BY <1>2 DEF EventOf
  <2>2. QED BY <1>2, <2>1 DEF Events, Kinds, Actors
<1>3. CASE a \in Recoveries
  <2>1. EventOf(a) = [kind |-> "never_launched", observer |-> a]
    BY <1>3 DEF EventOf
  <2>2. QED BY <1>3, <2>1 DEF Events, Kinds, Actors
<1>4. QED BY <1>1, <1>2, <1>3 DEF Actors

\* Every step keeps the types: the labels of the processes, the event a process
\* selects and the length it publishes.
LEMMA TypeStep ==
    ASSUME TypeOK, Placed, FilesInv, [Next]_vars
    PROVE  TypeOK'
<1> USE ContinuationAssumption, NoFileAssumption
<1>0. /\ "supervisor" \in Actors /\ "guardian" \in Actors /\ Recoveries \subseteq Actors
  BY DEF Actors
<1>1. ASSUME GuardianOwn PROVE TypeOK'
  <2>1. CASE Prepare
    BY <1>0, <2>1
       DEF Prepare, Goto, fences, storage, files, locks, Free, TypeOK, PCs, Registering,
           Publishing
  <2>2. CASE PrepareFence
    BY <1>0, <2>2
       DEF PrepareFence, Goto, fences, storage, files, locks, Free, TypeOK, PCs,
           Registering, Publishing
  <2>3. CASE PrepareLocal
    BY <1>0, <2>3
       DEF PrepareLocal, Goto, fences, storage, files, locks, Free, TypeOK, PCs,
           Registering, Publishing
  <2>4. CASE Register
    BY <1>0, <2>4
       DEF Register, Goto, fences, storage, files, locks, Free, TypeOK, PCs, Registering,
           Publishing
  <2>5. CASE Confirm
    BY <1>0, <2>5
       DEF Confirm, Goto, fences, storage, files, locks, Free, TypeOK, PCs, Registering,
           Publishing
  <2>6. CASE ConfirmFence
    BY <1>0, <2>6
       DEF ConfirmFence, Goto, fences, storage, files, locks, Free, TypeOK, PCs,
           Registering, Publishing
  <2>7. CASE ConfirmLocal
    BY <1>0, <2>7
       DEF ConfirmLocal, Goto, fences, storage, files, locks, Free, TypeOK, PCs,
           Registering, Publishing
  <2>8. CASE Abandon
    BY <1>0, <2>8
       DEF Abandon, Goto, fences, storage, files, locks, Free, TypeOK, PCs, Registering,
           Publishing
  <2>9. CASE Fork
    BY <1>0, <2>9
       DEF Fork, Goto, fences, storage, files, locks, Free, TypeOK, PCs, Registering,
           Publishing
  <2>10. CASE GuardianRetires
    BY <1>0, <2>10
       DEF GuardianRetires, Goto, fences, storage, files, locks, Free, TypeOK, PCs,
           Registering, Publishing
  <2>11. CASE GuardianPublishes
    BY <1>0, <2>11
       DEF GuardianPublishes, Goto, fences, storage, files, locks, Free, TypeOK, PCs,
           Registering, Publishing
  <2>12. CASE GuardianRecords
    BY <1>0, <2>12
       DEF GuardianRecords, Goto, fences, storage, files, locks, Free, TypeOK, PCs,
           Registering, Publishing
  <2>13. QED BY <1>1, <2>1, <2>2, <2>3, <2>4, <2>5, <2>6, <2>7, <2>8, <2>9, <2>10, <2>11,
         <2>12 DEF GuardianOwn
<1>2. ASSUME SupervisorOwn PROVE TypeOK'
  <2>1. CASE Spawn
    BY <1>0, <2>1
       DEF Spawn, Goto, fences, storage, files, locks, Free, TypeOK, PCs, Registering,
           Publishing
  <2>2. CASE Launched
    BY <1>0, <2>2
       DEF Launched, Goto, fences, storage, files, locks, Free, TypeOK, PCs, Registering,
           Publishing
  <2>3. CASE Release
    BY <1>0, <2>3
       DEF Release, Goto, fences, storage, files, locks, Free, TypeOK, PCs, Registering,
           Publishing
  <2>4. CASE SupervisorExits
    BY <1>0, <2>4
       DEF SupervisorExits, Goto, fences, storage, files, locks, Free, TypeOK, PCs,
           Registering, Publishing
  <2>5. CASE SupervisorObserves
    BY <1>0, <2>5
       DEF SupervisorObserves, Observe, Goto, fences, storage, files, locks, TypeOK, PCs,
           Registering, Publishing
  <2>6. QED BY <1>2, <2>1, <2>2, <2>3, <2>4, <2>5 DEF SupervisorOwn
<1>3. ASSUME NEW r \in Recoveries, RecoveryOwn(r) PROVE TypeOK'
  <2>1. CASE RecoverFence(r)
    BY <1>0, <2>1
       DEF RecoverFence, Goto, fences, storage, files, locks, Free, Without, TypeOK, PCs,
           Registering, Publishing
  <2>2. CASE Serialize(r)
    BY <1>0, <2>2
       DEF Serialize, Goto, fences, storage, files, locks, Free, Without, TypeOK, PCs,
           Registering, Publishing
  <2>3. CASE Recover(r)
    <3>1. NextRecovery \in PCs
      BY DEF NextRecovery, PCs, Publishing
    <3>2. pc' \in [Actors -> PCs]
      BY <1>0, <2>3, <3>1, GotoTyped DEF Recover
    <3>3. QED BY <1>0, <2>3, <3>2 DEF Recover, fences, storage, files, locks, TypeOK
  <2>4. CASE Inventory(r)
    <3>1. LocalTypes'
      <4>1. CASE Failed(r)
        BY <1>0, <4>1, FailedTyped
      <4>2. CASE Goto(r, "missing") /\ UNCHANGED <<capture, serial, recovering>>
        <5>1. pc' \in [Actors -> PCs]
          BY <1>0, <4>2, GotoTyped DEF PCs, Publishing
        <5>2. QED BY <4>2, <5>1 DEF LocalTypes, TypeOK
      <4>3. QED BY <2>4, <4>1, <4>2 DEF Inventory
    <3>2. proof' \in BOOLEAN
      BY <2>4 DEF Inventory, TypeOK
    <3>3. QED BY <2>4, <3>1, <3>2 DEF Inventory, LocalTypes, fences, storage, files, locks,
                                      TypeOK
  <2>5. CASE RecoveryAnswers(r)
    BY <1>0, <2>5
       DEF RecoveryAnswers, Goto, fences, storage, files, locks, Free, Without, TypeOK, PCs,
           Registering, Publishing
  <2>6. QED BY <1>3, <2>1, <2>2, <2>3, <2>4, <2>5 DEF RecoveryOwn
<1>4. ASSUME NEW a \in Actors, PublicationStep(a) PROVE TypeOK'
  <2>1. CASE Publish(a)
    BY <1>0, <2>1
       DEF Publish, Goto, fences, storage, files, locks, TypeOK, PCs, Registering,
           Publishing
  <2>2. CASE Pin(a)
    <3>1. pc' \in [Actors -> PCs]
      BY <2>2, GotoTyped DEF Pin, PCs, Publishing
    <3>2. names' \subseteq {"log", "pin"}
      BY <2>2 DEF Pin, TypeOK
    <3>3. mark' \in [Actors -> Lengths]
      <4>1. log \in Lengths /\ Missing \in Lengths
        BY DEF TypeOK, Lengths, Missing
      <4>2. \E len \in Lengths : mark' = [mark EXCEPT ![a] = len]
        BY <2>2, <4>1 DEF Pin
      <4>3. QED BY <4>2 DEF TypeOK
    <3>4. QED BY <2>2, <3>1, <3>2, <3>3 DEF Pin, fences, storage, files, locks, TypeOK
  <2>3. CASE Select(a)
    <3>1. LocalTypes'
      <4>1. CASE Failed(a)
        BY <4>1, FailedTyped
      <4>2. CASE Goto(a, "header") /\ UNCHANGED <<capture, serial, recovering>>
        <5>1. pc' \in [Actors -> PCs]
          BY <4>2, GotoTyped DEF PCs, Publishing
        <5>2. QED BY <4>2, <5>1 DEF LocalTypes, TypeOK
      <4>3. QED BY <2>3, <4>1, <4>2 DEF Select
    <3>2. selection' \in [event : Events, len : Lengths] \cup {NoFile}
      <4>1. [event |-> EventOf(a), len |-> mark[a]] \in [event : Events, len : Lengths]
        BY <2>3, EventTyped DEF Select, TypeOK, Publishing
      <4>2. QED BY <2>3, <4>1 DEF Select, TypeOK
    <3>3. QED BY <2>3, <3>1, <3>2 DEF Select, LocalTypes, fences, storage, files, locks, TypeOK
  <2>4. CASE Header(a)
    <3>1. pc' \in [Actors -> PCs]
      BY <2>4, GotoTyped DEF Header, PCs, Publishing
    <3>2. header' \in Events
      BY <2>4 DEF Header, FilesInv, KnowsOf, TypeOK
    <3>3. QED BY <2>4, <3>1, <3>2 DEF Header, fences, storage, files, locks, TypeOK
  <2>5. CASE Freeze(a)
    <3>1. /\ selection # NoFile /\ selection \in [event : Events, len : Lengths]
          /\ slot = "complete" \/ selected_file => selection.len \in 0 .. MaxLog
      BY <2>5 DEF Freeze, FilesInv, KnowsOf, OneEvent, TypeOK, selected_file, Lengths, Missing
    <3>2. CASE Failed(a) /\ UNCHANGED <<slot, output>>
      BY <2>5, <3>2, FailedTyped DEF Freeze, LocalTypes, fences, storage, files, locks, TypeOK
    <3>3. CASE FreezeFails(a) /\ UNCHANGED <<slot, output>>
      BY <2>5, <3>3, FreezeFailsTyped DEF Freeze, LocalTypes, fences, storage, files, locks,
                                          TypeOK
    <3>4. ASSUME Goto(a, "bundle"), UNCHANGED <<capture, serial, recovering, slot>>,
                 output' = output \/ (slot = "complete" /\ output' = selection.len)
          PROVE  TypeOK'
      <4>1. pc' \in [Actors -> PCs]
        BY <3>4, GotoTyped DEF PCs, Publishing
      <4>2. QED BY <2>5, <3>1, <3>4, <4>1 DEF Freeze, fences, storage, files, locks, TypeOK
    <3>5. ASSUME capture' = a, slot' \in {slot, "body"}, UNCHANGED <<serial, recovering,
    output>>,
                 Goto(a, "body") \/ Goto(a, "anonymous")
          PROVE  TypeOK'
      <4>1. pc' \in [Actors -> PCs]
        BY <3>5, GotoTyped DEF PCs, Publishing
      <4>2. QED BY <2>5, <3>5, <4>1 DEF Freeze, fences, storage, files, locks, TypeOK
    <3>6. QED BY <2>5, <3>2, <3>3, <3>4, <3>5 DEF Freeze
  <2>6. CASE CopyReceipt(a)
    BY <1>0, <2>6
       DEF CopyReceipt, Goto, fences, storage, files, locks, TypeOK, PCs, Registering,
           Publishing
  <2>7. CASE CopyBytes(a)
    BY <1>0, <2>7
       DEF CopyBytes, Goto, fences, storage, files, locks, TypeOK, PCs, Registering,
           Publishing
  <2>8. CASE CopyComplete(a)
    BY <1>0, <2>8
       DEF CopyComplete, Goto, fences, storage, files, locks, TypeOK, PCs, Registering,
           Publishing
  <2>9. CASE CopyLink(a)
    <3>1. pc' \in [Actors -> PCs]
      BY <2>9, GotoTyped DEF CopyLink, PCs, Publishing
    <3>2. output' \in 0 .. MaxLog
      BY <2>9 DEF CopyLink, FilesInv, CaptureOf, Capturing, OneEvent, TypeOK, Lengths, Missing
    <3>3. QED BY <2>9, <3>1, <3>2 DEF CopyLink, fences, storage, files, locks, TypeOK
  <2>10. CASE CopyAnonymous(a)
    <3>1. pc' \in [Actors -> PCs]
      BY <2>10, GotoTyped DEF CopyAnonymous, PCs, Publishing
    <3>2. output' \in 0 .. MaxLog
      BY <2>10 DEF CopyAnonymous, FilesInv, CaptureOf, Capturing, OneEvent, TypeOK, Lengths,
                   Missing
    <3>3. QED BY <2>10, <3>1, <3>2 DEF CopyAnonymous, fences, storage, files, locks, TypeOK
  <2>11. CASE Bundle(a)
    <3>1. LocalTypes'
      <4>1. CASE Failed(a)
        BY <4>1, FailedTyped
      <4>2. CASE Goto(a, "outcome") /\ UNCHANGED <<capture, serial, recovering>>
        <5>1. pc' \in [Actors -> PCs]
          BY <4>2, GotoTyped DEF PCs, Publishing
        <5>2. QED BY <4>2, <5>1 DEF LocalTypes, TypeOK
      <4>3. QED BY <2>11, <4>1, <4>2 DEF Bundle
    <3>2. bundle' \in [event : Events, output : Lengths] \cup {NoFile}
      <4>1. header \in Events
        BY <2>11 DEF Bundle, FilesInv, KnowsOf, TypeOK
      <4>2. pc[a] # "missing" => output \in 0 .. MaxLog
        BY <2>11 DEF Bundle, FilesInv, KnowsOf, TypeOK
      <4>3. [event |-> header, output |-> IF pc[a] = "missing" THEN Missing ELSE output]
               \in [event : Events, output : Lengths]
        BY <4>1, <4>2 DEF Lengths, Missing
      <4>4. QED BY <2>11, <4>3 DEF Bundle, TypeOK
    <3>3. QED BY <2>11, <3>1, <3>2 DEF Bundle, LocalTypes, fences, storage, files, locks, TypeOK
  <2>12. CASE Outcome(a)
    <3>1. LocalTypes'
      <4>1. CASE Failed(a)
        BY <4>1, FailedTyped
      <4>2. CASE Goto(a, "snapshot") /\ UNCHANGED <<capture, serial, recovering>>
        <5>1. pc' \in [Actors -> PCs]
          BY <4>2, GotoTyped DEF PCs, Publishing
        <5>2. QED BY <4>2, <5>1 DEF LocalTypes, TypeOK
      <4>3. QED BY <2>12, <4>1, <4>2 DEF Outcome
    <3>2. outcome' \in Events \cup {NoFile}
      <4>1. bundle.event \in Events
        BY <2>12 DEF Outcome, FilesInv, KnowsOf, TypeOK
      <4>2. QED BY <2>12, <4>1 DEF Outcome, TypeOK
    <3>3. QED BY <2>12, <3>1, <3>2 DEF Outcome, LocalTypes, fences, storage, files, locks,
                                       TypeOK
  <2>13. CASE Snapshot(a)
    <3>1. LocalTypes'
      <4>1. CASE Failed(a)
        BY <4>1, FailedTyped
      <4>2. CASE Goto(a, "published") /\ UNCHANGED <<capture, serial, recovering>>
        <5>1. pc' \in [Actors -> PCs]
          BY <4>2, GotoTyped DEF PCs, Publishing
        <5>2. QED BY <4>2, <5>1 DEF LocalTypes, TypeOK
      <4>3. QED BY <2>13, <4>1, <4>2 DEF Snapshot
    <3>2. snapshot' = NoFile \/ snapshot'.status \in
                    {"ready", "completed", "error", "original_output_unavailable"}
      <4>1. status(bundle.event, bundle.output) \in
               {"ready", "completed", "error", "original_output_unavailable"}
        BY DEF status
      <4>2. QED BY <2>13, <4>1 DEF Snapshot, TypeOK
    <3>3. QED BY <2>13, <3>1, <3>2 DEF Snapshot, LocalTypes, fences, storage, files, locks,
                                       TypeOK
  <2>14. QED BY <1>4, <2>1, <2>2, <2>3, <2>4, <2>5, <2>6, <2>7, <2>8, <2>9, <2>10, <2>11,
         <2>12, <2>13 DEF PublicationStep
<1>5. ASSUME NEW a \in Actors, CopyFails(a) \/ Kill(a) PROVE TypeOK'
  <2>1. CASE CopyFails(a)
    <3>1. LocalTypes'
      BY <2>1, FreezeFailsTyped DEF CopyFails
    <3>2. faults' \in 0 .. MaxFaults
      BY <2>1 DEF CopyFails, TypeOK
    <3>3. QED BY <2>1, <3>1, <3>2 DEF CopyFails, LocalTypes, fences, storage, files, locks,
                                      TypeOK
  <2>2. CASE Kill(a)
    BY <1>0, <2>2
       DEF Kill, Goto, fences, storage, files, locks, Without, TypeOK, PCs, Registering,
           Publishing
  <2>3. QED BY <1>5, <2>1, <2>2
<1>6. CASE BrokerCommits
  BY <1>0, <1>6
     DEF BrokerCommits, Goto, fences, storage, files, locks, TypeOK, PCs, Registering,
         Publishing
<1>7. CASE Append
  BY <1>0, <1>7
     DEF Append, Goto, fences, storage, files, locks, TypeOK, PCs, Registering, Publishing
<1>8. CASE WorkloadExits
  BY <1>0, <1>8
     DEF WorkloadExits, Goto, fences, storage, files, locks, TypeOK, PCs, Registering,
         Publishing
<1>9. CASE AcceptCancel
  BY <1>0, <1>9
     DEF AcceptCancel, Goto, fences, storage, files, locks, TypeOK, PCs, Registering,
         Publishing
<1>10. CASE StorageLoss
  <2>1. faults' \in 0 .. MaxFaults
    BY <1>10 DEF StorageLoss, TypeOK
  <2>2. names' \subseteq {"log", "pin"} /\ whole' \in BOOLEAN
    BY <1>10 DEF StorageLoss, TypeOK
  <2>3. QED BY <1>10, <2>1, <2>2 DEF StorageLoss, fences, storage, files, locks, TypeOK
<1>11. CASE UNCHANGED vars
  BY <1>0, <1>11 DEF vars, fences, storage, files, locks, TypeOK, PCs, Registering, Publishing
<1>12. QED BY <1>1, <1>2, <1>3, <1>4, <1>5, <1>6, <1>7, <1>8, <1>9, <1>10, <1>11, NextCases

\* A publication step belongs to a process that is publishing, and leaves the fence, the
\* workload and the launch lock alone; only the supervisor and the guardian enter at the
\* head, and a recovery goes back to recover, to its inventory or to the runner.
LEMMA PublicationMoves ==
    ASSUME TypeOK, NEW a \in Actors, PublicationStep(a) \/ CopyFails(a)
    PROVE  /\ UNCHANGED <<fence, workload, launch, seen>>
           /\ pc[a] \in Publishing /\ pc[a] # "published"
           /\ \E label \in PCs :
                 /\ Goto(a, label)
                 /\ \/ label \in Publishing \ {"publish", "pin", "select"}
                    \/ label = "pin" /\ pc[a] = "publish"
                    \/ label = "select" /\ pc[a] = "pin"
                    \/ a = "supervisor" /\ label \in {"publish", "settled"}
                    \/ a = "guardian" /\ label = "watch"
                    \/ a \in Recoveries /\ label \in {"idle", "recover", "inventory"}
<1> DEFINE Good(label) ==
       /\ Goto(a, label)
       /\ \/ label \in Publishing \ {"publish", "pin", "select"}
          \/ label = "pin" /\ pc[a] = "publish"
          \/ label = "select" /\ pc[a] = "pin"
          \/ a = "supervisor" /\ label \in {"publish", "settled"}
          \/ a = "guardian" /\ label = "watch"
          \/ a \in Recoveries /\ label \in {"idle", "recover", "inventory"}
       Kept == /\ UNCHANGED <<fence, workload, launch, seen>>
               /\ pc[a] \in Publishing /\ pc[a] # "published"
<1> SUFFICES Kept /\ \E label \in PCs : Good(label)
  OBVIOUS
<1>1. ASSUME Failed(a) PROVE \E label \in PCs : Good(label)
  BY <1>1, FailedMoves DEF PCs, Publishing
<1>2. ASSUME FreezeFails(a) PROVE \E label \in PCs : Good(label)
  BY <1>1, <1>2 DEF FreezeFails, TypeOK, PCs
<1>3. CASE Publish(a)
  <2>1. Kept
    BY <1>3 DEF Publish, fences, locks, Publishing
  <2>2. \E label \in PCs : Good(label)
    BY <1>3 DEF Publish, PCs, Publishing
  <2>3. QED BY <2>1, <2>2
<1>4. CASE Pin(a)
  <2>1. Kept
    BY <1>4 DEF Pin, fences, locks, Publishing
  <2>2. \E label \in PCs : Good(label)
    BY <1>4 DEF Pin, PCs, Publishing
  <2>3. QED BY <2>1, <2>2
<1>5. CASE Select(a)
  <2>1. Kept
    BY <1>5 DEF Select, fences, locks, Publishing
  <2>2. \E label \in PCs : Good(label)
    BY <1>5, <1>1 DEF Select, PCs, Publishing
  <2>3. QED BY <2>1, <2>2
<1>6. CASE Header(a)
  <2>1. Kept
    BY <1>6 DEF Header, fences, locks, Publishing
  <2>2. \E label \in PCs : Good(label)
    BY <1>6 DEF Header, PCs, Publishing, TypeOK
  <2>3. QED BY <2>1, <2>2
<1>7. CASE Freeze(a)
  <2>1. Kept
    BY <1>7 DEF Freeze, fences, locks, Publishing
  <2>2. \E label \in PCs : Good(label)
    BY <1>7, <1>1, <1>2 DEF Freeze, PCs, Publishing
  <2>3. QED BY <2>1, <2>2
<1>8. CASE CopyReceipt(a)
  <2>1. Kept
    BY <1>8 DEF CopyReceipt, fences, locks, Publishing
  <2>2. \E label \in PCs : Good(label)
    BY <1>8 DEF CopyReceipt, PCs, Publishing
  <2>3. QED BY <2>1, <2>2
<1>9. CASE CopyBytes(a)
  <2>1. Kept
    BY <1>9 DEF CopyBytes, fences, locks, Publishing
  <2>2. \E label \in PCs : Good(label)
    BY <1>9 DEF CopyBytes, PCs, Publishing
  <2>3. QED BY <2>1, <2>2
<1>10. CASE CopyComplete(a)
  <2>1. Kept
    BY <1>10 DEF CopyComplete, fences, locks, Publishing
  <2>2. \E label \in PCs : Good(label)
    BY <1>10 DEF CopyComplete, PCs, Publishing
  <2>3. QED BY <2>1, <2>2
<1>11. CASE CopyLink(a)
  <2>1. Kept
    BY <1>11 DEF CopyLink, fences, locks, Publishing
  <2>2. \E label \in PCs : Good(label)
    BY <1>11 DEF CopyLink, PCs, Publishing
  <2>3. QED BY <2>1, <2>2
<1>12. CASE CopyAnonymous(a)
  <2>1. Kept
    BY <1>12 DEF CopyAnonymous, fences, locks, Publishing
  <2>2. \E label \in PCs : Good(label)
    BY <1>12 DEF CopyAnonymous, PCs, Publishing
  <2>3. QED BY <2>1, <2>2
<1>13. CASE Bundle(a)
  <2>1. Kept
    BY <1>13 DEF Bundle, fences, locks, Publishing
  <2>2. \E label \in PCs : Good(label)
    BY <1>13, <1>1 DEF Bundle, PCs, Publishing
  <2>3. QED BY <2>1, <2>2
<1>14. CASE Outcome(a)
  <2>1. Kept
    BY <1>14 DEF Outcome, fences, locks, Publishing
  <2>2. \E label \in PCs : Good(label)
    BY <1>14, <1>1 DEF Outcome, PCs, Publishing
  <2>3. QED BY <2>1, <2>2
<1>15. CASE Snapshot(a)
  <2>1. Kept
    BY <1>15 DEF Snapshot, fences, locks, Publishing
  <2>2. \E label \in PCs : Good(label)
    BY <1>15, <1>1 DEF Snapshot, PCs, Publishing
  <2>3. QED BY <2>1, <2>2
<1>16. CASE CopyFails(a)
  <2>1. Kept
    BY <1>16 DEF CopyFails, fences, locks, Publishing
  <2>2. \E label \in PCs : Good(label)
    BY <1>16, <1>2 DEF CopyFails, PCs, Publishing
  <2>3. QED BY <2>1, <2>2
<1>17. QED BY <1>3, <1>4, <1>5, <1>6, <1>7, <1>8, <1>9, <1>10, <1>11, <1>12, <1>13, <1>14,
       <1>15, <1>16 DEF PublicationStep

\* A supervisor that publishes has seen an event; the recoveries keep to their part.
LEMMA PlacedStep ==
    ASSUME TypeOK, Placed, [Next]_vars
    PROVE  Placed'
<1> USE ContinuationAssumption
<1>1. ASSUME GuardianOwn PROVE Placed'
  <2>1. CASE Prepare
    BY <2>1 DEF Prepare, Goto, Free, TypeOK, Placed, Publishing, Actors
  <2>2. CASE PrepareFence
    BY <2>2 DEF PrepareFence, Goto, Free, TypeOK, Placed, Publishing, Actors
  <2>3. CASE PrepareLocal
    BY <2>3 DEF PrepareLocal, Goto, Free, TypeOK, Placed, Publishing, Actors
  <2>4. CASE Register
    BY <2>4 DEF Register, Goto, Free, TypeOK, Placed, Publishing, Actors
  <2>5. CASE Confirm
    BY <2>5 DEF Confirm, Goto, Free, TypeOK, Placed, Publishing, Actors
  <2>6. CASE ConfirmFence
    BY <2>6 DEF ConfirmFence, Goto, Free, TypeOK, Placed, Publishing, Actors
  <2>7. CASE ConfirmLocal
    BY <2>7 DEF ConfirmLocal, Goto, Free, TypeOK, Placed, Publishing, Actors
  <2>8. CASE Abandon
    BY <2>8 DEF Abandon, Goto, Free, TypeOK, Placed, Publishing, Actors
  <2>9. CASE Fork
    BY <2>9 DEF Fork, Goto, Free, TypeOK, Placed, Publishing, Actors
  <2>10. CASE GuardianRetires
    BY <2>10 DEF GuardianRetires, Goto, Free, TypeOK, Placed, Publishing, Actors
  <2>11. CASE GuardianPublishes
    BY <2>11 DEF GuardianPublishes, Goto, Free, TypeOK, Placed, Publishing, Actors
  <2>12. CASE GuardianRecords
    BY <2>12 DEF GuardianRecords, Goto, Free, TypeOK, Placed, Publishing, Actors
  <2>13. QED BY <1>1, <2>1, <2>2, <2>3, <2>4, <2>5, <2>6, <2>7, <2>8, <2>9, <2>10, <2>11,
         <2>12 DEF GuardianOwn
<1>2. ASSUME SupervisorOwn PROVE Placed'
  <2>1. CASE Spawn
    BY <2>1 DEF Spawn, Goto, Free, TypeOK, Placed, Publishing, Actors
  <2>2. CASE Launched
    BY <2>2 DEF Launched, Goto, Free, TypeOK, Placed, Publishing, Actors
  <2>3. CASE Release
    BY <2>3 DEF Release, Goto, Free, TypeOK, Placed, Publishing, Actors
  <2>4. CASE SupervisorExits
    BY <2>4 DEF SupervisorExits, Goto, Free, TypeOK, Placed, Publishing, Actors
  <2>5. CASE SupervisorObserves
    BY <2>5
       DEF SupervisorObserves, Observe, Goto, TypeOK, Placed, Publishing, Actors, Sightings,
           Kinds
  <2>6. QED BY <1>2, <2>1, <2>2, <2>3, <2>4, <2>5 DEF SupervisorOwn
<1>3. ASSUME NEW r \in Recoveries, RecoveryOwn(r) PROVE Placed'
  <2>1. CASE RecoverFence(r)
    BY <2>1 DEF RecoverFence, Goto, Free, Without, TypeOK, Placed, Publishing, Actors
  <2>2. CASE Serialize(r)
    BY <2>2 DEF Serialize, Goto, Free, Without, TypeOK, Placed, Publishing, Actors
  <2>3. CASE Recover(r)
    BY <2>3 DEF Recover, Goto, Free, Without, TypeOK, Placed, Publishing, Actors, NextRecovery
  <2>4. CASE Inventory(r)
    <3>1. Goto(r, "missing") \/ Goto(r, "idle")
      BY <2>4, FailedMoves DEF Inventory, Actors
    <3>2. QED BY <2>4, <3>1 DEF Inventory, TypeOK, Placed, Goto, Actors
  <2>5. CASE RecoveryAnswers(r)
    BY <2>5 DEF RecoveryAnswers, Goto, Free, Without, TypeOK, Placed, Publishing, Actors
  <2>6. QED BY <1>3, <2>1, <2>2, <2>3, <2>4, <2>5 DEF RecoveryOwn
<1>4. ASSUME NEW a \in Actors, PublicationStep(a) PROVE Placed'
  <2>1. /\ UNCHANGED seen /\ pc[a] \in Publishing
        /\ \E label \in PCs :
              /\ Goto(a, label)
              /\ a \in Recoveries =>
                    label \notin {"publish", "settled", "watch", "unborn", "gone"}
    BY <1>4, PublicationMoves DEF Publishing, Actors, Placed
  <2>2. QED BY <2>1 DEF TypeOK, Placed, Goto, Actors
<1>5. ASSUME NEW a \in Actors, CopyFails(a) \/ Kill(a) PROVE Placed'
  <2>1. CASE CopyFails(a)
    <3>1. /\ UNCHANGED seen /\ pc[a] \in Publishing
          /\ \E label \in PCs :
                /\ Goto(a, label)
                /\ a \in Recoveries =>
                      label \notin {"publish", "settled", "watch", "unborn", "gone"}
      BY <2>1, PublicationMoves DEF Publishing, Actors, Placed
    <3>2. QED BY <3>1 DEF TypeOK, Placed, Goto, Actors
  <2>2. CASE Kill(a)
    BY <2>2 DEF Kill, Goto, Without, TypeOK, Placed, Publishing, Actors
  <2>3. QED BY <1>5, <2>1, <2>2
<1>6. CASE BrokerCommits
  BY <1>6 DEF BrokerCommits, Goto, TypeOK, Placed, Publishing, Actors
<1>7. CASE Append
  BY <1>7 DEF Append, Goto, TypeOK, Placed, Publishing, Actors
<1>8. CASE WorkloadExits
  BY <1>8 DEF WorkloadExits, Goto, TypeOK, Placed, Publishing, Actors
<1>9. CASE AcceptCancel
  BY <1>9 DEF AcceptCancel, Goto, TypeOK, Placed, Publishing, Actors
<1>10. CASE StorageLoss
  BY <1>10 DEF StorageLoss, Goto, TypeOK, Placed, Publishing, Actors
<1>11. CASE UNCHANGED vars
  BY <1>11 DEF vars, TypeOK, Placed, Publishing, Actors
<1>12. QED BY <1>1, <1>2, <1>3, <1>4, <1>5, <1>6, <1>7, <1>8, <1>9, <1>10, <1>11, NextCases

-----------------------------------------------------------------------------
(* The launch fence *)

\* Only the registering worker moves the fence up to may_launch, under launch.lock, and
\* only its supervisor spends it: a revoked fence belongs to a worker that is gone and to
\* a supervisor that was never forked.
FenceInv ==
    /\ pc["guardian"] \in {"prepare", "prepareFence"} => fence = "none"
    /\ pc["guardian"] \in {"prepareLocal", "register", "confirm", "confirmFence", "abandon"}
          => fence = "unreleased"
    /\ pc["guardian"] \in {"confirmLocal", "fork"} => fence = "may_launch"
    /\ pc["guardian"] \in Registering => pc["supervisor"] = "unborn"
    /\ pc["guardian"] \notin Registering \cup {"gone"} => pc["supervisor"] # "unborn"
    /\ pc["supervisor"] \in {"spawn", "launch"} => fence = "may_launch"
    /\ pc["supervisor"] = "release" => fence = "launched"
    /\ pc["supervisor"] # "unborn" => fence \in {"may_launch", "launched"}
    /\ workload \in {"running", "exited"} => fence = "launched"
    /\ fence = "revoked_never_launched" => pc["guardian"] = "gone"
    /\ selection # NoFile /\ selection.event.kind = "never_launched"
          => fence = "revoked_never_launched"
    /\ \A r \in Recoveries : pc[r] \in {"pin", "select"} => fence = "revoked_never_launched"

\* A publication step neither moves the fence nor selects "never launched" without it.
LEMMA FencePublication ==
    ASSUME TypeOK, Placed, FenceInv, NEW a \in Actors, PublicationStep(a) \/ CopyFails(a)
    PROVE  FenceInv'
<1> USE ContinuationAssumption, NoFileAssumption
<1>1. PICK label \in PCs :
         /\ Goto(a, label)
         /\ \/ label \in Publishing \ {"publish", "pin", "select"}
            \/ label = "pin" /\ pc[a] = "publish"
            \/ label = "select" /\ pc[a] = "pin"
            \/ a = "supervisor" /\ label \in {"publish", "settled"}
            \/ a = "guardian" /\ label = "watch"
            \/ a \in Recoveries /\ label \in {"idle", "recover", "inventory"}
  BY PublicationMoves
<1>2. UNCHANGED <<fence, workload>> /\ pc[a] \in Publishing
  BY PublicationMoves
<1>3. \/ selection' = selection
      \/ (pc[a] = "select" /\ selection' = [event |-> EventOf(a), len |-> mark[a]])
  BY DEF PublicationStep, CopyFails, Publish, Pin, Select, Header, Freeze, CopyReceipt,
         CopyBytes, CopyComplete, CopyLink, CopyAnonymous, Bundle, Outcome, Snapshot, files
<1>4. selection' # NoFile /\ selection'.event.kind = "never_launched"
         => fence = "revoked_never_launched"
  <2>1. CASE selection' = selection
    BY <2>1 DEF FenceInv
  <2>2. CASE pc[a] = "select" /\ selection' = [event |-> EventOf(a), len |-> mark[a]]
    BY <2>2, EventTyped DEF FenceInv, Publishing
  <2>3. QED BY <1>3, <2>1, <2>2
<1>5. CASE a = "guardian"
  BY <1>1, <1>2, <1>4, <1>5 DEF FenceInv, TypeOK, Goto, Publishing, Registering, Actors
<1>6. CASE a = "supervisor"
  BY <1>1, <1>2, <1>4, <1>6 DEF FenceInv, TypeOK, Goto, Publishing, Registering, Actors
<1>7. CASE a \in Recoveries
  BY <1>1, <1>2, <1>4, <1>7 DEF FenceInv, Placed, TypeOK, Goto, Publishing, Actors
<1>8. QED BY <1>5, <1>6, <1>7 DEF Actors

\* Every step keeps the fence single-use, whoever dies between its writes.
LEMMA FenceStep ==
    ASSUME TypeOK, Placed, FenceInv, [Next]_vars
    PROVE  FenceInv'
<1> USE ContinuationAssumption, NoFileAssumption
<1>1. ASSUME GuardianOwn PROVE FenceInv'
  <2>1. CASE Prepare
    BY <2>1
       DEF Prepare, Goto, fences, files, Free, TypeOK, FenceInv, Registering, Publishing,
           Actors
  <2>2. CASE PrepareFence
    BY <2>2
       DEF PrepareFence, Goto, fences, files, Free, TypeOK, FenceInv, Registering,
           Publishing, Actors
  <2>3. CASE PrepareLocal
    BY <2>3
       DEF PrepareLocal, Goto, fences, files, Free, TypeOK, FenceInv, Registering,
           Publishing, Actors
  <2>4. CASE Register
    BY <2>4
       DEF Register, Goto, fences, files, Free, TypeOK, FenceInv, Registering, Publishing,
           Actors
  <2>5. CASE Confirm
    BY <2>5
       DEF Confirm, Goto, fences, files, Free, TypeOK, FenceInv, Registering, Publishing,
           Actors
  <2>6. CASE ConfirmFence
    BY <2>6
       DEF ConfirmFence, Goto, fences, files, Free, TypeOK, FenceInv, Registering,
           Publishing, Actors
  <2>7. CASE ConfirmLocal
    BY <2>7
       DEF ConfirmLocal, Goto, fences, files, Free, TypeOK, FenceInv, Registering,
           Publishing, Actors
  <2>8. CASE Abandon
    BY <2>8
       DEF Abandon, Goto, fences, files, Free, TypeOK, FenceInv, Registering, Publishing,
           Actors
  <2>9. CASE Fork
    BY <2>9
       DEF Fork, Goto, fences, files, Free, TypeOK, FenceInv, Registering, Publishing,
           Actors
  <2>10. CASE GuardianRetires
    BY <2>10
       DEF GuardianRetires, Goto, fences, files, Free, TypeOK, FenceInv, Registering,
           Publishing, Actors
  <2>11. CASE GuardianPublishes
    BY <2>11
       DEF GuardianPublishes, Goto, fences, files, Free, TypeOK, FenceInv, Registering,
           Publishing, Actors
  <2>12. CASE GuardianRecords
    BY <2>12
       DEF GuardianRecords, Goto, fences, files, Free, TypeOK, FenceInv, Registering,
           Publishing, Actors
  <2>13. QED BY <1>1, <2>1, <2>2, <2>3, <2>4, <2>5, <2>6, <2>7, <2>8, <2>9, <2>10, <2>11,
         <2>12 DEF GuardianOwn
<1>2. ASSUME SupervisorOwn PROVE FenceInv'
  <2>1. CASE Spawn
    BY <2>1
       DEF Spawn, Goto, fences, files, Free, TypeOK, FenceInv, Registering, Publishing,
           Actors
  <2>2. CASE Launched
    BY <2>2
       DEF Launched, Goto, fences, files, Free, TypeOK, FenceInv, Registering, Publishing,
           Actors
  <2>3. CASE Release
    BY <2>3
       DEF Release, Goto, fences, files, Free, TypeOK, FenceInv, Registering, Publishing,
           Actors
  <2>4. CASE SupervisorExits
    BY <2>4
       DEF SupervisorExits, Goto, fences, files, Free, TypeOK, FenceInv, Registering,
           Publishing, Actors
  <2>5. CASE SupervisorObserves
    BY <2>5
       DEF SupervisorObserves, Observe, Goto, fences, files, TypeOK, FenceInv, Registering,
           Publishing, Actors
  <2>6. QED BY <1>2, <2>1, <2>2, <2>3, <2>4, <2>5 DEF SupervisorOwn
<1>3. ASSUME NEW r \in Recoveries, RecoveryOwn(r) PROVE FenceInv'
  <2>1. CASE RecoverFence(r)
    BY <2>1
       DEF RecoverFence, Goto, fences, files, Free, Without, TypeOK, FenceInv, Registering,
           Publishing, Actors, Alive
  <2>2. CASE Serialize(r)
    BY <2>2
       DEF Serialize, Goto, fences, files, Free, Without, TypeOK, FenceInv, Registering,
           Publishing, Actors
  <2>3. CASE Recover(r)
    BY <2>3
       DEF Recover, Goto, fences, files, Free, Without, TypeOK, FenceInv, Registering,
           Publishing, Actors, NextRecovery
  <2>4. CASE Inventory(r)
    <3>1. Goto(r, "missing") \/ Goto(r, "idle")
      BY <2>4, FailedMoves DEF Inventory, Actors
    <3>2. QED BY <2>4, <3>1 DEF Inventory, FenceInv, TypeOK, Goto, Actors, fences
  <2>5. CASE RecoveryAnswers(r)
    BY <2>5
       DEF RecoveryAnswers, Goto, fences, files, Free, Without, TypeOK, FenceInv,
           Registering, Publishing, Actors
  <2>6. QED BY <1>3, <2>1, <2>2, <2>3, <2>4, <2>5 DEF RecoveryOwn
<1>4. ASSUME NEW a \in Actors, PublicationStep(a) PROVE FenceInv'
  BY <1>4, FencePublication
<1>5. ASSUME NEW a \in Actors, CopyFails(a) \/ Kill(a) PROVE FenceInv'
  <2>1. CASE CopyFails(a)
    BY <2>1, FencePublication
  <2>2. CASE Kill(a)
    BY <2>2
       DEF Kill, Goto, fences, files, Without, TypeOK, FenceInv, Registering, Publishing,
           Actors
  <2>3. QED BY <1>5, <2>1, <2>2
<1>6. CASE BrokerCommits
  BY <1>6
     DEF BrokerCommits, Goto, fences, files, TypeOK, FenceInv, Registering, Publishing,
         Actors
<1>7. CASE Append
  BY <1>7 DEF Append, Goto, fences, files, TypeOK, FenceInv, Registering, Publishing, Actors
<1>8. CASE WorkloadExits
  BY <1>8
     DEF WorkloadExits, Goto, fences, files, TypeOK, FenceInv, Registering, Publishing,
         Actors
<1>9. CASE AcceptCancel
  BY <1>9
     DEF AcceptCancel, Goto, fences, files, TypeOK, FenceInv, Registering, Publishing,
         Actors
<1>10. CASE StorageLoss
  BY <1>10
     DEF StorageLoss, Goto, fences, files, TypeOK, FenceInv, Registering, Publishing, Actors
<1>11. CASE UNCHANGED vars
  BY <1>11 DEF vars, fences, files, TypeOK, FenceInv, Registering, Publishing, Actors
<1>12. QED BY <1>1, <1>2, <1>3, <1>4, <1>5, <1>6, <1>7, <1>8, <1>9, <1>10, <1>11, NextCases

-----------------------------------------------------------------------------
(* The files *)

\* What FilesInv says of the files alone.
FilesAgree ==
    /\ OneEvent /\ LossIsFinal
    /\ output # NoFile => header # NoFile /\ output = selection.len
    /\ bundle # NoFile /\ bundle.output # Missing => output # NoFile
    /\ slot # "free" => header # NoFile /\ selection.len # Missing

\* The labels from which a process relies on a file, or holds the capture lease.
Relying == {"header", "freeze", "bundle", "missing", "outcome", "snapshot", "inventory"}
           \cup Capturing

\* Immutable files only appear.
FilesGrow ==
    /\ selection # NoFile => selection' = selection
    /\ header # NoFile => header' = header
    /\ output # NoFile => output' = output
    /\ bundle # NoFile => bundle' = bundle
    /\ outcome # NoFile => outcome' = outcome
    /\ proof => proof'

\* What a process that does not move knows stays true: the files it read are immutable,
\* and under its lease nobody else touches the copy or records a loss.
LEMMA Bystander ==
    ASSUME FilesAgree, NEW b \in Actors, KnowsOf(b), CaptureOf(b), FilesGrow, pc'[b] = pc[b],
           capture = b => UNCHANGED <<capture, output, slot, proof>>
    PROVE  KnowsOf(b)' /\ CaptureOf(b)'
<1>1. KnowsOf(b)'
  BY DEF KnowsOf, FilesGrow
<1>2. CaptureOf(b)'
  BY DEF CaptureOf, FilesGrow, Capturing, FilesAgree, OneEvent
<1>3. QED BY <1>1, <1>2

\* A step that writes no file and moves processes to labels that rely on nothing.
LEMMA FilesQuiet ==
    ASSUME FilesInv, UNCHANGED files,
           \A b \in Actors : \/ pc'[b] \notin Relying
                             \/ pc'[b] = pc[b] /\ (capture = b => capture' = b)
    PROVE  FilesInv'
<1>1. FilesAgree /\ FilesAgree' /\ FilesGrow
  BY DEF FilesInv, FilesAgree, FilesGrow, files, OneEvent, LossIsFinal
<1>2. ASSUME NEW b \in Actors PROVE KnowsOf(b)' /\ CaptureOf(b)'
  <2>1. CASE pc'[b] \notin Relying
    BY <2>1 DEF KnowsOf, CaptureOf, Relying, Capturing
  <2>2. CASE pc'[b] = pc[b] /\ (capture = b => capture' = b)
    BY <1>1, <2>2, Bystander DEF FilesInv, files
  <2>3. QED BY <2>1, <2>2, <1>2 DEF FilesInv
<1>3. QED BY <1>1, <1>2 DEF FilesInv, FilesAgree

\* A step of one process that moves it where what it relies on is there.
LEMMA FilesMove ==
    ASSUME FilesInv, TypeOK, NEW a \in Actors, NEW label, Goto(a, label),
           FilesAgree', FilesGrow, KnowsOf(a)', CaptureOf(a)',
           capture \in {a, "noone"} \/ UNCHANGED <<capture, output, slot, proof>>
    PROVE  FilesInv'
<1> USE ContinuationAssumption
<1>1. ASSUME NEW b \in Actors, b # a PROVE KnowsOf(b)' /\ CaptureOf(b)'
  <2>1. pc'[b] = pc[b]
    BY <1>1 DEF Goto, TypeOK
  <2>2. FilesAgree /\ KnowsOf(b) /\ CaptureOf(b)
    BY DEF FilesInv, FilesAgree
  <2>3. capture = b => UNCHANGED <<capture, output, slot, proof>>
    BY <1>1 DEF Actors
  <2>4. QED BY <2>1, <2>2, <2>3, Bystander
<1>2. QED BY <1>1 DEF FilesInv, FilesAgree

\* The end of an attempt gives up the lease, and nothing is relied on any more.
LEMMA FilesFailed ==
    ASSUME FilesInv, TypeOK, NEW a \in Actors, Failed(a), UNCHANGED files
    PROVE  FilesInv'
<1>1. /\ pc' = [pc EXCEPT ![a] = pc'[a]] /\ pc'[a] \notin Relying
      /\ capture' = capture \/ capture = a
  BY FailedMoves DEF TypeOK, Failed, Without, Goto, Relying, Capturing
<1>2. QED BY <1>1, FilesQuiet DEF TypeOK

\* A failed freeze or copy ends the attempt, or hands a recovery that restores the output
\* over to the inventory under the same lease.
LEMMA FilesFreezeFails ==
    ASSUME FilesInv, TypeOK, NEW a \in Actors, FreezeFails(a), capture \in {a, "noone"},
           header # NoFile, output = NoFile, UNCHANGED <<selection, header, output, proof,
           bundle, outcome, snapshot>>,
           slot' \in {slot, "free"}
    PROVE  FilesInv'
<1>1. FilesAgree' /\ FilesGrow
  BY DEF FilesInv, FilesAgree, FilesGrow, OneEvent, LossIsFinal
<1>2. CASE a \in recovering
  <2>1. Goto(a, "inventory") /\ capture' = a
    BY <1>2 DEF FreezeFails
  <2>2. KnowsOf(a)' /\ CaptureOf(a)'
    BY <2>1 DEF Goto, TypeOK, KnowsOf, CaptureOf, Capturing
  <2>3. QED BY <1>1, <2>1, <2>2, FilesMove
<1>3. CASE a \notin recovering
  <2>1. PICK label \in {"publish", "settled", "watch", "idle"} : Goto(a, label)
    BY <1>3, FailedMoves DEF FreezeFails
  <2>2. KnowsOf(a)' /\ CaptureOf(a)'
    BY <2>1 DEF Goto, TypeOK, KnowsOf, CaptureOf, Capturing
  <2>3. QED BY <1>1, <2>1, <2>2, FilesMove
<1>4. QED BY <1>2, <1>3

\* Every step keeps the files projections of one event, and every process's knowledge.
LEMMA FilesStep ==
    ASSUME TypeOK, Placed, FilesInv, [Next]_vars
    PROVE  FilesInv'
<1> USE ContinuationAssumption, NoFileAssumption
<1>1. ASSUME GuardianOwn PROVE FilesInv'
  <2>1. CASE Prepare
    BY <2>1, FilesQuiet
       DEF Prepare, Goto, fences, storage, files, locks, Free, TypeOK, Relying, Capturing,
           Actors
  <2>2. CASE PrepareFence
    BY <2>2, FilesQuiet
       DEF PrepareFence, Goto, fences, storage, files, locks, Free, TypeOK, Relying,
           Capturing, Actors
  <2>3. CASE PrepareLocal
    BY <2>3, FilesQuiet
       DEF PrepareLocal, Goto, fences, storage, files, locks, Free, TypeOK, Relying,
           Capturing, Actors
  <2>4. CASE Register
    BY <2>4, FilesQuiet
       DEF Register, Goto, fences, storage, files, locks, Free, TypeOK, Relying, Capturing,
           Actors
  <2>5. CASE Confirm
    BY <2>5, FilesQuiet
       DEF Confirm, Goto, fences, storage, files, locks, Free, TypeOK, Relying, Capturing,
           Actors
  <2>6. CASE ConfirmFence
    BY <2>6, FilesQuiet
       DEF ConfirmFence, Goto, fences, storage, files, locks, Free, TypeOK, Relying,
           Capturing, Actors
  <2>7. CASE ConfirmLocal
    BY <2>7, FilesQuiet
       DEF ConfirmLocal, Goto, fences, storage, files, locks, Free, TypeOK, Relying,
           Capturing, Actors
  <2>8. CASE Abandon
    BY <2>8, FilesQuiet
       DEF Abandon, Goto, fences, storage, files, locks, Free, TypeOK, Relying, Capturing,
           Actors
  <2>9. CASE Fork
    <3>1. UNCHANGED <<files,
    capture>> /\ \A b \in Actors : pc'[b] = pc[b] \/ pc'[b] \in {"watch", "spawn"}
      BY <2>9 DEF Fork, TypeOK, locks
    <3>2. QED BY <2>9, <3>1, FilesQuiet DEF Relying, Capturing
  <2>10. CASE GuardianRetires
    BY <2>10, FilesQuiet
       DEF GuardianRetires, Goto, fences, storage, files, locks, Free, TypeOK, Relying,
           Capturing, Actors
  <2>11. CASE GuardianPublishes
    BY <2>11, FilesQuiet
       DEF GuardianPublishes, Goto, fences, storage, files, locks, Free, TypeOK, Relying,
           Capturing, Actors
  <2>12. CASE GuardianRecords
    BY <2>12, FilesQuiet
       DEF GuardianRecords, Goto, fences, storage, files, locks, Free, TypeOK, Relying,
           Capturing, Actors
  <2>13. QED BY <1>1, <2>1, <2>2, <2>3, <2>4, <2>5, <2>6, <2>7, <2>8, <2>9, <2>10, <2>11,
         <2>12 DEF GuardianOwn
<1>2. ASSUME SupervisorOwn PROVE FilesInv'
  <2>1. CASE Spawn
    BY <2>1, FilesQuiet
       DEF Spawn, Goto, fences, storage, files, locks, Free, TypeOK, Relying, Capturing,
           Actors
  <2>2. CASE Launched
    BY <2>2, FilesQuiet
       DEF Launched, Goto, fences, storage, files, locks, Free, TypeOK, Relying, Capturing,
           Actors
  <2>3. CASE Release
    BY <2>3, FilesQuiet
       DEF Release, Goto, fences, storage, files, locks, Free, TypeOK, Relying, Capturing,
           Actors
  <2>4. CASE SupervisorExits
    BY <2>4, FilesQuiet
       DEF SupervisorExits, Goto, fences, storage, files, locks, Free, TypeOK, Relying,
           Capturing, Actors
  <2>5. CASE SupervisorObserves
    BY <2>5, FilesQuiet
       DEF SupervisorObserves, Observe, Goto, fences, storage, files, locks, TypeOK,
           Relying, Capturing, Actors
  <2>6. QED BY <1>2, <2>1, <2>2, <2>3, <2>4, <2>5 DEF SupervisorOwn
<1>3. ASSUME NEW r \in Recoveries, RecoveryOwn(r) PROVE FilesInv'
  <2>1. CASE RecoverFence(r)
    BY <2>1, FilesQuiet
       DEF RecoverFence, Goto, fences, storage, files, locks, Free, Without, TypeOK,
           Relying, Capturing, Actors
  <2>2. CASE Serialize(r)
    BY <2>2, FilesQuiet
       DEF Serialize, Goto, fences, storage, files, locks, Free, Without, TypeOK, Relying,
           Capturing, Actors
  <2>3. CASE Recover(r)
    <3>1. r \in Actors
      BY DEF Actors
    <3>2. FilesAgree' /\ FilesGrow
      BY <2>3 DEF Recover, files, FilesInv, FilesAgree, FilesGrow, OneEvent, LossIsFinal
    <3>3. KnowsOf(r)' /\ CaptureOf(r)'
      BY <2>3, <3>1 DEF Recover, NextRecovery, files, Goto, TypeOK, KnowsOf, CaptureOf,
                        Capturing
    <3>4. QED BY <2>3, <3>1, <3>2, <3>3, FilesMove DEF Recover, files
  <2>4. CASE Inventory(r)
    <3>1. r \in Actors
      BY DEF Actors
    <3>2. CASE Failed(r) /\ UNCHANGED proof
      BY <2>4, <3>1, <3>2, FilesFailed DEF Inventory, files
    <3>3. CASE proof' /\ Goto(r, "missing") /\ UNCHANGED capture
      <4>1. output = NoFile /\ capture = r /\ header # NoFile
        BY <2>4, <3>1 DEF Inventory, FilesInv, KnowsOf
      <4>2. FilesAgree' /\ FilesGrow
        BY <2>4, <3>3, <4>1 DEF Inventory, FilesInv, FilesAgree, FilesGrow, OneEvent,
                                LossIsFinal
      <4>3. KnowsOf(r)' /\ CaptureOf(r)'
        BY <2>4, <3>1, <3>3, <4>1 DEF Inventory, Goto, TypeOK, KnowsOf, CaptureOf, Capturing
      <4>4. QED BY <2>4, <3>1, <3>3, <4>1, <4>2, <4>3, FilesMove
    <3>4. QED BY <2>4, <3>2, <3>3 DEF Inventory
  <2>5. CASE RecoveryAnswers(r)
    BY <2>5, FilesQuiet
       DEF RecoveryAnswers, Goto, fences, storage, files, locks, Free, Without, TypeOK,
           Relying, Capturing, Actors
  <2>6. QED BY <1>3, <2>1, <2>2, <2>3, <2>4, <2>5 DEF RecoveryOwn
<1>4. ASSUME NEW a \in Actors, PublicationStep(a) PROVE FilesInv'
  <2>1. CASE Publish(a)
    <3>1. PICK label : Goto(a, label) /\ label = (IF bundle # NoFile THEN "outcome"
                   ELSE IF header # NoFile THEN IF output = NoFile THEN "freeze" ELSE "bundle"
                   ELSE IF selection # NoFile THEN "header" ELSE "pin")
      BY <2>1 DEF Publish
    <3>2. FilesAgree' /\ FilesGrow
      BY <2>1 DEF Publish, files, FilesInv, FilesAgree, FilesGrow, OneEvent, LossIsFinal
    <3>3. KnowsOf(a)' /\ CaptureOf(a)'
      BY <2>1, <3>1 DEF Publish, files, Goto, TypeOK, KnowsOf, CaptureOf, Capturing
    <3>4. QED BY <2>1, <3>1, <3>2, <3>3, FilesMove DEF Publish, files, locks
  <2>2. CASE Pin(a)
    BY <2>2, FilesQuiet
       DEF Pin, Goto, fences, storage, files, locks, TypeOK, Relying, Capturing, Actors
  <2>3. CASE Select(a)
    <3>1. CASE Failed(a) /\ UNCHANGED selection
      BY <2>3, <3>1, FilesFailed DEF Select, files
    <3>2. CASE /\ Goto(a, "header") /\ UNCHANGED capture
               /\ Agrees(selection, [event |-> EventOf(a), len |-> mark[a]])
               /\ selection' = [event |-> EventOf(a), len |-> mark[a]]
      <4>0. [event |-> EventOf(a), len |-> mark[a]] \in [event : Events, len : Int]
        BY <2>3, <3>2, EventTyped DEF Select, TypeOK, Publishing, Lengths, Missing
      <4>1. FilesAgree' /\ FilesGrow
        BY <2>3, <3>2, <4>0 DEF Select, FilesInv, FilesAgree, FilesGrow, KnowsOf, Agrees,
                                OneEvent, LossIsFinal, TypeOK, Lengths, Missing
      <4>2. KnowsOf(a)' /\ CaptureOf(a)'
        BY <2>3, <3>2, <4>0 DEF Select, Goto, TypeOK, FilesInv, KnowsOf, CaptureOf, Capturing
      <4>3. QED BY <2>3, <3>2, <4>1, <4>2, FilesMove DEF Select
    <3>3. QED BY <2>3, <3>1, <3>2 DEF Select
  <2>4. CASE Header(a)
    <3>1. PICK label \in {"recover", "freeze", "bundle"} :
             Goto(a, label) /\ (label = "bundle" => output # NoFile)
      BY <2>4 DEF Header
    <3>2. selection # NoFile /\ header' = selection.event /\ header' \in Events /\ header' # NoFile
      BY <2>4 DEF Header, FilesInv, KnowsOf, TypeOK
    <3>3. FilesAgree' /\ FilesGrow
      BY <2>4, <3>2 DEF Header, FilesInv, FilesAgree, FilesGrow, OneEvent, LossIsFinal
    <3>4. KnowsOf(a)' /\ CaptureOf(a)'
      BY <2>4, <3>1, <3>2 DEF Header, Goto, TypeOK, KnowsOf, CaptureOf, Capturing
    <3>5. QED BY <2>4, <3>1, <3>3, <3>4, FilesMove DEF Header, locks
  <2>5. CASE Freeze(a)
    <3>1. header # NoFile /\ selection # NoFile /\ selection \in [event : Events, len : Lengths]
      BY <2>5 DEF Freeze, FilesInv, KnowsOf, OneEvent, TypeOK
    <3>2. CASE Failed(a) /\ UNCHANGED <<slot, output>>
      BY <2>5, <3>2, FilesFailed DEF Freeze, files
    <3>3. CASE capture = "noone" /\ output = NoFile /\ FreezeFails(a) /\ UNCHANGED <<slot,
    output>>
      BY <2>5, <3>1, <3>3, FilesFreezeFails DEF Freeze
    <3>4. ASSUME Goto(a, "bundle"), UNCHANGED <<capture, slot>>, capture = "noone",
                 \/ output # NoFile /\ output' = output
                 \/ output = NoFile /\ ~proof /\ slot = "complete" /\ output' = selection.len
          PROVE  FilesInv'
      <4>1. output' # NoFile /\ output' = selection.len
        BY <3>1, <3>4 DEF FilesInv, TypeOK, Lengths, Missing
      <4>2. FilesAgree' /\ FilesGrow
        BY <2>5, <3>1, <3>4, <4>1 DEF Freeze, FilesInv, FilesAgree, FilesGrow, OneEvent,
                                      LossIsFinal
      <4>3. KnowsOf(a)' /\ CaptureOf(a)'
        BY <2>5, <3>1, <3>4, <4>1 DEF Freeze, Goto, TypeOK, KnowsOf, CaptureOf, Capturing
      <4>4. QED BY <2>5, <3>4, <4>2, <4>3, FilesMove
    <3>5. ASSUME capture = "noone", capture' = a, output = NoFile, UNCHANGED output, ~proof,
                 slot # "complete", selected_file,
                 slot' = (IF slot = "free" THEN "body" ELSE slot),
                 Goto(a, IF slot = "free" THEN "body" ELSE "anonymous")
          PROVE  FilesInv'
      <4>1. FilesAgree' /\ FilesGrow
        BY <2>5, <3>1, <3>5 DEF Freeze, FilesInv, FilesAgree, FilesGrow, OneEvent, LossIsFinal,
           selected_file
      <4>2. KnowsOf(a)' /\ CaptureOf(a)'
        BY <2>5, <3>1, <3>5 DEF Freeze, Goto, TypeOK, KnowsOf, CaptureOf, Capturing,
                                selected_file
      <4>3. QED BY <2>5, <3>5, <4>1, <4>2, FilesMove
    <3>6. QED BY <2>5, <3>2, <3>3, <3>4, <3>5 DEF Freeze, CaptureBusy, Free
  <2>6. CASE CopyReceipt(a)
    <3>1. FilesAgree' /\ FilesGrow
      BY <2>6 DEF CopyReceipt, FilesInv, FilesAgree, FilesGrow, CaptureOf, Capturing,
                  OneEvent, LossIsFinal
    <3>2. KnowsOf(a)' /\ CaptureOf(a)'
      BY <2>6 DEF CopyReceipt, Goto, TypeOK, FilesInv, KnowsOf, CaptureOf, Capturing, locks
    <3>3. QED BY <2>6, <3>1, <3>2, FilesMove DEF CopyReceipt, FilesInv, CaptureOf, Capturing
  <2>7. CASE CopyBytes(a)
    <3>1. FilesAgree' /\ FilesGrow
      BY <2>7 DEF CopyBytes, FilesInv, FilesAgree, FilesGrow, CaptureOf, Capturing, OneEvent,
                  LossIsFinal
    <3>2. KnowsOf(a)' /\ CaptureOf(a)'
      BY <2>7 DEF CopyBytes, Goto, TypeOK, FilesInv, KnowsOf, CaptureOf, Capturing, locks
    <3>3. QED BY <2>7, <3>1, <3>2, FilesMove DEF CopyBytes, FilesInv, CaptureOf, Capturing
  <2>8. CASE CopyComplete(a)
    <3>1. FilesAgree' /\ FilesGrow
      BY <2>8 DEF CopyComplete, FilesInv, FilesAgree, FilesGrow, CaptureOf, Capturing,
                  OneEvent, LossIsFinal
    <3>2. KnowsOf(a)' /\ CaptureOf(a)'
      BY <2>8 DEF CopyComplete, Goto, TypeOK, FilesInv, KnowsOf, CaptureOf, Capturing, locks
    <3>3. QED BY <2>8, <3>1, <3>2, FilesMove DEF CopyComplete, FilesInv, CaptureOf, Capturing
  <2>9. CASE CopyLink(a)
    <3>1. /\ selection \in [event : Events, len : Lengths] /\ header # NoFile /\ ~proof
          /\ selection.len # Missing /\ output' = selection.len /\ output' # NoFile /\ capture = a
      BY <2>9 DEF CopyLink, FilesInv, CaptureOf, Capturing, OneEvent, TypeOK, Lengths, Missing
    <3>2. FilesAgree' /\ FilesGrow
      BY <2>9, <3>1 DEF CopyLink, FilesInv, FilesAgree, FilesGrow, CaptureOf, Capturing,
                        OneEvent, LossIsFinal
    <3>3. KnowsOf(a)' /\ CaptureOf(a)'
      BY <2>9, <3>1 DEF CopyLink, Goto, TypeOK, KnowsOf, CaptureOf, Capturing
    <3>4. QED BY <2>9, <3>1, <3>2, <3>3, FilesMove DEF CopyLink
  <2>10. CASE CopyAnonymous(a)
    <3>1. /\ selection \in [event : Events, len : Lengths] /\ header # NoFile /\ ~proof
          /\ selection.len # Missing /\ output' = selection.len /\ output' # NoFile /\ capture = a
      BY <2>10 DEF CopyAnonymous, FilesInv, CaptureOf, Capturing, OneEvent, TypeOK, Lengths,
                   Missing
    <3>2. FilesAgree' /\ FilesGrow
      BY <2>10, <3>1 DEF CopyAnonymous, FilesInv, FilesAgree, FilesGrow, CaptureOf,
                         Capturing, OneEvent, LossIsFinal
    <3>3. KnowsOf(a)' /\ CaptureOf(a)'
      BY <2>10, <3>1 DEF CopyAnonymous, Goto, TypeOK, KnowsOf, CaptureOf, Capturing
    <3>4. QED BY <2>10, <3>1, <3>2, <3>3, FilesMove DEF CopyAnonymous
  <2>11. CASE Bundle(a)
    <3> DEFINE made == [event |-> header,
    output |-> IF pc[a] = "missing" THEN Missing ELSE output]
    <3>1. CASE Failed(a) /\ UNCHANGED bundle
      BY <2>11, <3>1, FilesFailed DEF Bundle, files
    <3>2. CASE Goto(a, "outcome") /\ UNCHANGED capture /\ Agrees(bundle, made) /\ bundle' = made
      <4>1. /\ header \in Events /\ header # NoFile
            /\ pc[a] = "missing" => proof
            /\ pc[a] # "missing" => output \in 0 .. MaxLog /\ output # NoFile
        BY <2>11 DEF Bundle, FilesInv, KnowsOf, TypeOK
      <4>2. made \in [event : Events, output : Int] /\ made # NoFile
        BY <4>1 DEF Missing
      <4>3. made.event = selection.event /\ made.output \in {selection.len, Missing}
        BY <4>1 DEF FilesInv, OneEvent
      <4>4. made.output = Missing <=> proof
        BY <4>1 DEF FilesInv, LossIsFinal, Missing
      <4>5. OneEvent' /\ FilesGrow
        BY <2>11, <3>2, <4>1, <4>2, <4>3 DEF Bundle, FilesInv, FilesGrow, OneEvent, Agrees
      <4>6. LossIsFinal' /\ (made.output # Missing => output # NoFile)
        BY <2>11, <3>2, <4>1, <4>2, <4>4 DEF Bundle, FilesInv, LossIsFinal, Agrees
      <4>7. FilesAgree'
        BY <2>11, <3>2, <4>5, <4>6 DEF Bundle, FilesInv, FilesAgree
      <4>8. KnowsOf(a)' /\ CaptureOf(a)'
        BY <2>11, <3>2, <4>2 DEF Bundle, Goto, TypeOK, KnowsOf, CaptureOf, Capturing
      <4>9. QED BY <2>11, <3>2, <4>5, <4>7, <4>8, FilesMove DEF Bundle
    <3>3. QED BY <2>11, <3>1, <3>2 DEF Bundle
  <2>12. CASE Outcome(a)
    <3>1. CASE Failed(a) /\ UNCHANGED outcome
      BY <2>12, <3>1, FilesFailed DEF Outcome, files
    <3>2. CASE Goto(a, "snapshot") /\ UNCHANGED capture /\ Agrees(outcome,
    bundle.event) /\ outcome' = bundle.event
      <4>0. bundle # NoFile /\ bundle.event \in Events /\ bundle.event # NoFile
        BY <2>12, <3>2 DEF Outcome, FilesInv, KnowsOf, TypeOK
      <4>1. FilesAgree' /\ FilesGrow
        BY <2>12, <3>2, <4>0 DEF Outcome, FilesInv, FilesAgree, FilesGrow, KnowsOf, Agrees,
                                 OneEvent, LossIsFinal, TypeOK, Lengths
      <4>2. KnowsOf(a)' /\ CaptureOf(a)'
        BY <2>12, <3>2, <4>0 DEF Outcome, Goto, TypeOK, FilesInv, KnowsOf, CaptureOf, Capturing
      <4>3. QED BY <2>12, <3>2, <4>1, <4>2, FilesMove DEF Outcome
    <3>3. QED BY <2>12, <3>1, <3>2 DEF Outcome
  <2>13. CASE Snapshot(a)
    <3> DEFINE made == [event |-> bundle.event, output |-> bundle.output,
                        status |-> status(bundle.event, bundle.output)]
    <3>1. CASE Failed(a) /\ UNCHANGED snapshot
      BY <2>13, <3>1, FilesFailed DEF Snapshot, files
    <3>2. CASE Goto(a, "published") /\ UNCHANGED capture /\ Agrees(snapshot,
    made) /\ snapshot' = made
      <4>0. bundle # NoFile /\ outcome # NoFile /\ outcome = bundle.event
        BY <2>13, <3>2 DEF Snapshot, FilesInv, KnowsOf, OneEvent
      <4>1. FilesAgree' /\ FilesGrow
        BY <2>13, <3>2, <4>0 DEF Snapshot, FilesInv, FilesAgree, FilesGrow, KnowsOf, Agrees,
                                 OneEvent, LossIsFinal, TypeOK, Lengths
      <4>2. KnowsOf(a)' /\ CaptureOf(a)'
        BY <2>13, <3>2, <4>0 DEF Snapshot, Goto, TypeOK, FilesInv, KnowsOf, CaptureOf, Capturing
      <4>3. QED BY <2>13, <3>2, <4>1, <4>2, FilesMove DEF Snapshot
    <3>3. QED BY <2>13, <3>1, <3>2 DEF Snapshot
  <2>14. QED BY <1>4, <2>1, <2>2, <2>3, <2>4, <2>5, <2>6, <2>7, <2>8, <2>9, <2>10, <2>11,
         <2>12, <2>13 DEF PublicationStep
<1>5. ASSUME NEW a \in Actors, CopyFails(a) \/ Kill(a) PROVE FilesInv'
  <2>1. CASE CopyFails(a)
    <3>1. /\ capture = a /\ header # NoFile /\ output = NoFile /\ slot' \in {slot, "free"}
      BY <2>1 DEF CopyFails, FilesInv, CaptureOf, Capturing
    <3>2. QED BY <2>1, <3>1, FilesFreezeFails DEF CopyFails
  <2>2. CASE Kill(a)
    BY <2>2, FilesQuiet
       DEF Kill, Goto, fences, storage, files, locks, Without, TypeOK, Relying, Capturing,
           Actors
  <2>3. QED BY <1>5, <2>1, <2>2
<1>6. CASE BrokerCommits
  BY <1>6, FilesQuiet
     DEF BrokerCommits, Goto, fences, storage, files, locks, TypeOK, Relying, Capturing,
         Actors
<1>7. CASE Append
  BY <1>7, FilesQuiet
     DEF Append, Goto, fences, storage, files, locks, TypeOK, Relying, Capturing, Actors
<1>8. CASE WorkloadExits
  BY <1>8, FilesQuiet
     DEF WorkloadExits, Goto, fences, storage, files, locks, TypeOK, Relying, Capturing,
         Actors
<1>9. CASE AcceptCancel
  BY <1>9, FilesQuiet
     DEF AcceptCancel, Goto, fences, storage, files, locks, TypeOK, Relying, Capturing,
         Actors
<1>10. CASE StorageLoss
  BY <1>10, FilesQuiet
     DEF StorageLoss, Goto, fences, storage, files, locks, TypeOK, Relying, Capturing,
         Actors
<1>11. CASE UNCHANGED vars
  BY <1>11, FilesQuiet
     DEF vars, fences, storage, files, locks, TypeOK, Relying, Capturing, Actors
<1>12. QED BY <1>1, <1>2, <1>3, <1>4, <1>5, <1>6, <1>7, <1>8, <1>9, <1>10, <1>11, NextCases

-----------------------------------------------------------------------------
(* Theorems *)

ContinuationInv == TypeOK /\ Placed /\ FenceInv /\ FilesInv

\* The inductive invariant holds at the start ...
LEMMA ContinuationInit == Init => ContinuationInv
<1> SUFFICES ASSUME Init PROVE ContinuationInv
  OBVIOUS
<1> USE ContinuationAssumption, NoFileAssumption
<1>1. \A a \in Actors : pc[a] \in {"prepare", "unborn", "idle"}
  BY DEF Init, Actors
<1>2. /\ pc["guardian"] = "prepare" /\ pc["supervisor"] = "unborn"
      /\ \A r \in Recoveries : pc[r] = "idle"
  BY DEF Init, Actors
<1>3. TypeOK
  <2>1. pc \in [Actors -> PCs] /\ mark \in [Actors -> Lengths]
    <3>1. pc \in [Actors -> PCs]
      BY <1>1 DEF Init, PCs, Registering
    <3>2. Missing \in Lengths
      BY DEF Lengths, Missing
    <3>3. QED BY <3>1, <3>2 DEF Init
  <2>2. names \subseteq {"log", "pin"} /\ recovering \subseteq Recoveries
    BY DEF Init
  <2>3. {launch, capture, serial} \subseteq Actors \cup {"noone"}
    BY DEF Init
  <2>4. log \in 0 .. MaxLog /\ faults \in 0 .. MaxFaults
    BY DEF Init
  <2>5. QED BY <2>1, <2>2, <2>3, <2>4 DEF Init, TypeOK
<1>4. Placed
  BY <1>2 DEF Placed, Publishing
<1>5. FenceInv
  BY <1>2 DEF Init, FenceInv, Registering
<1>6. FilesInv
  <2>1. \A a \in Actors : KnowsOf(a) /\ CaptureOf(a)
    BY <1>1 DEF KnowsOf, CaptureOf, Capturing
  <2>2. QED BY <2>1 DEF Init, FilesInv, OneEvent, LossIsFinal
<1>7. QED BY <1>3, <1>4, <1>5, <1>6 DEF ContinuationInv

\* ... and every step keeps it.
LEMMA ContinuationStep == ContinuationInv /\ [Next]_vars => ContinuationInv'
  BY TypeStep, PlacedStep, FenceStep, FilesStep DEF ContinuationInv

\* The invariant of the source side, for any number of recoveries and faults.
LEMMA ContinuationHolds == Spec => []ContinuationInv
  BY ContinuationInit, ContinuationStep, PTL DEF Spec

\* Type correctness: every label, event and length a process works with is one.
THEOREM ContinuationTypeCorrect == Spec => []TypeOK
<1>1. ContinuationInv => TypeOK
  BY DEF ContinuationInv
<1>2. QED BY <1>1, ContinuationHolds, PTL

\* Whoever publishes, and wherever a process died, header, bundle, outcome and snapshot
\* are projections of the one selected event (select_event_output, restore_selected_event,
\* finish_observation_with_output, finish_snapshot).
THEOREM OneEventPublished == Spec => []OneEvent
<1>1. ContinuationInv => OneEvent
  BY DEF ContinuationInv, FilesInv
<1>2. QED BY <1>1, ContinuationHolds, PTL

\* A source that says "never launched" is true and stays true: nothing ran, and neither
\* the worker nor a supervisor can still launch it (confirm_launch, launched, reconcile).
THEOREM NeverLaunchedHolds == Spec => []NeverLaunchedIsTrue
<1>1. ContinuationInv => NeverLaunchedIsTrue
  BY DEF ContinuationInv, FenceInv, NeverLaunchedIsTrue
<1>2. QED BY <1>1, ContinuationHolds, PTL

\* A recorded loss is final and exact (missing_output::observe, capture::freeze).
THEOREM LossFinal == Spec => []LossIsFinal
<1>1. ContinuationInv => LossIsFinal
  BY DEF ContinuationInv, FilesInv
<1>2. QED BY <1>1, ContinuationHolds, PTL

\* No step of a process takes away the last whole copy of the selected bytes: the named
\* copy goes only when the output is linked or the original can still be read.
LEMMA CopyStep ==
    ASSUME ContinuationInv, [Next]_vars, selection # NoFile, Recoverable, UNCHANGED storage
    PROVE  Recoverable'
<1> USE ContinuationAssumption, NoFileAssumption DEF Recoverable, selected_file
<1>1. ASSUME GuardianOwn PROVE Recoverable'
  <2>1. CASE Prepare
    BY <2>1 DEF Prepare, storage, files
  <2>2. CASE PrepareFence
    BY <2>2 DEF PrepareFence, storage, files
  <2>3. CASE PrepareLocal
    BY <2>3 DEF PrepareLocal, storage, files
  <2>4. CASE Register
    BY <2>4 DEF Register, storage, files
  <2>5. CASE Confirm
    BY <2>5 DEF Confirm, storage, files
  <2>6. CASE ConfirmFence
    BY <2>6 DEF ConfirmFence, storage, files
  <2>7. CASE ConfirmLocal
    BY <2>7 DEF ConfirmLocal, storage, files
  <2>8. CASE Abandon
    BY <2>8 DEF Abandon, storage, files
  <2>9. CASE Fork
    BY <2>9 DEF Fork, storage, files
  <2>10. CASE GuardianRetires
    BY <2>10 DEF GuardianRetires, storage, files
  <2>11. CASE GuardianPublishes
    BY <2>11 DEF GuardianPublishes, storage, files
  <2>12. CASE GuardianRecords
    BY <2>12 DEF GuardianRecords, storage, files
  <2>13. QED BY <1>1, <2>1, <2>2, <2>3, <2>4, <2>5, <2>6, <2>7, <2>8, <2>9, <2>10, <2>11,
         <2>12 DEF GuardianOwn
<1>2. ASSUME SupervisorOwn PROVE Recoverable'
  <2>1. CASE Spawn
    BY <2>1 DEF Spawn, storage, files
  <2>2. CASE Launched
    BY <2>2 DEF Launched, storage, files
  <2>3. CASE Release
    BY <2>3 DEF Release, storage, files
  <2>4. CASE SupervisorExits
    BY <2>4 DEF SupervisorExits, storage, files
  <2>5. CASE SupervisorObserves
    BY <2>5 DEF SupervisorObserves, Observe, storage, files
  <2>6. QED BY <1>2, <2>1, <2>2, <2>3, <2>4, <2>5 DEF SupervisorOwn
<1>3. ASSUME NEW r \in Recoveries, RecoveryOwn(r) PROVE Recoverable'
  <2>1. CASE RecoverFence(r)
    BY <2>1 DEF RecoverFence, storage, files
  <2>2. CASE Serialize(r)
    BY <2>2 DEF Serialize, storage, files
  <2>3. CASE Recover(r)
    BY <2>3 DEF Recover, storage, files
  <2>4. CASE Inventory(r)
    BY <2>4 DEF Inventory, storage, files
  <2>5. CASE RecoveryAnswers(r)
    BY <2>5 DEF RecoveryAnswers, storage, files
  <2>6. QED BY <1>3, <2>1, <2>2, <2>3, <2>4, <2>5 DEF RecoveryOwn
<1>4. ASSUME NEW a \in Actors, PublicationStep(a) PROVE Recoverable'
  <2>1. CASE Publish(a)
    BY <2>1 DEF Publish, storage, files
  <2>2. CASE Pin(a)
    BY <2>2 DEF Pin, storage, files
  <2>3. CASE Select(a)
    BY <2>3 DEF Select, storage, files, Agrees
  <2>4. CASE Header(a)
    BY <2>4 DEF Header, storage, files
  <2>5. CASE Freeze(a)
    <3>1. slot' = slot \/ (slot = "free" /\ slot' = "body")
      BY <2>5 DEF Freeze
    <3>2. output' = output \/ (slot = "complete" /\ slot' = slot)
      BY <2>5 DEF Freeze
    <3>3. QED BY <2>5, <3>1, <3>2 DEF Freeze, storage
  <2>6. CASE CopyReceipt(a)
    BY <2>6 DEF CopyReceipt, storage, files, ContinuationInv, FilesInv, CaptureOf
  <2>7. CASE CopyBytes(a)
    BY <2>7 DEF CopyBytes, storage, files, ContinuationInv, FilesInv, CaptureOf
  <2>8. CASE CopyComplete(a)
    BY <2>8 DEF CopyComplete, storage, files, ContinuationInv, FilesInv, CaptureOf
  <2>9. CASE CopyLink(a)
    <3>1. output' = selection.len /\ selection.len \in Int
      BY <2>9 DEF CopyLink, ContinuationInv, FilesInv, CaptureOf, Capturing, OneEvent,
                  TypeOK, Lengths
    <3>2. QED BY <3>1
  <2>10. CASE CopyAnonymous(a)
    <3>1. output' = selection.len /\ selection.len \in Int
      BY <2>10 DEF CopyAnonymous, ContinuationInv, FilesInv, CaptureOf, Capturing, OneEvent,
                   TypeOK, Lengths
    <3>2. QED BY <3>1
  <2>11. CASE Bundle(a)
    BY <2>11 DEF Bundle, storage, files
  <2>12. CASE Outcome(a)
    BY <2>12 DEF Outcome, storage, files
  <2>13. CASE Snapshot(a)
    BY <2>13 DEF Snapshot, storage, files
  <2>14. QED BY <1>4, <2>1, <2>2, <2>3, <2>4, <2>5, <2>6, <2>7, <2>8, <2>9, <2>10, <2>11,
         <2>12, <2>13 DEF PublicationStep
<1>5. ASSUME NEW a \in Actors, CopyFails(a) \/ Kill(a) PROVE Recoverable'
  <2>1. CASE CopyFails(a)
    BY <2>1 DEF CopyFails, storage, files, disposable
  <2>2. CASE Kill(a)
    BY <2>2 DEF Kill, storage, files
  <2>3. QED BY <1>5, <2>1, <2>2
<1>6. CASE BrokerCommits
  BY <1>6 DEF BrokerCommits, storage, files
<1>7. CASE Append
  BY <1>7 DEF Append, storage, files
<1>8. CASE WorkloadExits
  BY <1>8 DEF WorkloadExits, storage, files
<1>9. CASE AcceptCancel
  BY <1>9 DEF AcceptCancel, storage, files
<1>10. CASE StorageLoss
  BY <1>10 DEF StorageLoss, storage, files
<1>11. CASE UNCHANGED vars
  BY <1>11 DEF vars, storage, files
<1>12. QED BY <1>1, <1>2, <1>3, <1>4, <1>5, <1>6, <1>7, <1>8, <1>9, <1>10, <1>11, NextCases

\* Only a loss of storage loses the selected bytes (Attempt::disposable).
THEOREM LastCopySurvives == Spec => LastCopyKept
<1>1. ContinuationInv /\ [Next]_vars =>
         [(selection # NoFile /\ Recoverable /\ UNCHANGED storage) => Recoverable']_vars
  BY CopyStep
<1>2. QED BY <1>1, ContinuationHolds, PTL DEF Spec, LastCopyKept
=============================================================================
