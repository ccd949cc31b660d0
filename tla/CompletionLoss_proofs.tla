----------------------- MODULE CompletionLoss_proofs ------------------------
(***************************************************************************)
(* What completion delivery keeps when every process may be lost, the role *)
(* custodian included: proofs for every set of callers and every Killable. *)
(*                                                                         *)
(* Without its custodian an attempt has two writers, the worker that still *)
(* runs and the claimant that integrates the lost transfer, so the record  *)
(* no longer tracks the worker (AdmissionInv fails).  What is left is the  *)
(* order in which an attempt forks its processes (ForkOrder), the role     *)
(* slot that covers them (RoleInv), and the retry count, which bounds the  *)
(* invocations (ReplayInv).                                                *)
(***************************************************************************)
EXTENDS CompletionDelivery_proofs

\* Nothing is forked before the claimant forks, nor past a closed gate; a caller
\* has no custodian; a worker is forked by its custodian and reaped before the
\* custodian integrates; a helper is spawned after the write-ahead claim.
ForkOrderOf(c) ==
    /\ claim[c] \in {"guarding", "idle", "locked"} =>
          custodian[c] = "none" /\ worker[c] = "none"
    /\ claim[c] \in {"guarding", "idle", "locked", "forked", "published"} =>
          ~gate[c] /\ custodian[c] \notin {"supervising", "integrated"}
    /\ c \in Callers => custodian[c] = "none"
    /\ c \in Owners /\ custodian[c] \in {"none", "gate"} => worker[c] = "none"
    /\ custodian[c] = "integrated" => worker[c] = "reaped"
    /\ worker[c] \in {"none", "gate", "request", "provisional", "custody"} =>
          helper[c] = "none"

ForkOrder == \A c \in Claimants : ForkOrderOf(c)

\* Every action keeps the order of forks, whatever may be killed.
LEMMA ForkOrderStep ==
    ASSUME TypeOK, ForkOrder, [Next]_vars
    PROVE  ForkOrder'
<1> SUFFICES ASSUME NEW d \in Claimants PROVE ForkOrderOf(d)'
  BY DEF ForkOrder
<1>0. /\ claim \in [Claimants -> ClaimStates]
      /\ gate \in [Claimants -> BOOLEAN]
      /\ custodian \in [Claimants -> CustodianStates]
      /\ worker \in [Claimants -> WorkerStates]
      /\ helper \in [Claimants -> {"none", "running", "exited"}]
      /\ ForkOrderOf(d)
      /\ d \in Callers => d \notin Owners
  BY CallersAssumption DEF TypeOK, ForkOrder
<1> USE DEF ForkOrderOf
<1>1. ASSUME NEW c \in Claimants, ClaimantStep(c) PROVE ForkOrderOf(d)'
  <2>1. CASE AcquireLock(c)
    BY <1>0, <2>1 DEF AcquireLock, chain
  <2>2. CASE StartBusy(c)
    BY <1>0, <2>2 DEF StartBusy, chain
  <2>3. CASE StartSettled(c)
    BY <1>0, <2>3 DEF StartSettled, SettledAs, chain
  <2>4. CASE StartForkFails(c)
    BY <1>0, <2>4 DEF StartForkFails, chain
  <2>5. CASE StartFork(c)
    BY <1>0, <2>5 DEF StartFork, IsOwner, Claimants
  <2>6. CASE PublishRole(c)
    BY <1>0, <2>6 DEF PublishRole, IsOwner, chain
  <2>7. CASE OpenGate(c)
    BY <1>0, <2>7 DEF OpenGate, IsOwner, chain
  <2>8. CASE ReapCustodian(c)
    BY <1>0, <2>8 DEF ReapCustodian, IsOwner
  <2>9. CASE ReapTransferWorker(c)
    BY <1>0, <2>9 DEF ReapTransferWorker, IsOwner
  <2>10. CASE IntegrateRead(c)
    BY <1>0, <2>10 DEF IntegrateRead, SettledAs, chain
  <2>11. CASE IntegrateWrite(c)
    BY <1>0, <2>11 DEF IntegrateWrite, SettledAs, chain
  <2>12. QED BY <1>1, <2>1, <2>2, <2>3, <2>4, <2>5, <2>6, <2>7, <2>8, <2>9, <2>10,
  <2>11 DEF ClaimantStep
<1>2. ASSUME NEW c \in Claimants, CustodianStep(c) PROVE ForkOrderOf(d)'
  <2>1. CASE CustodianRefuses(c)
    BY <1>0, <2>1 DEF CustodianRefuses
  <2>2. CASE CustodianForksWorker(c)
    BY <1>0, <2>2 DEF CustodianForksWorker, Claimants
  <2>3. CASE CustodianReapsWorker(c)
    BY <1>0, <2>3 DEF CustodianReapsWorker
  <2>4. CASE CustodianDrains(c)
    BY <1>0, <2>4 DEF CustodianDrains
  <2>5. QED BY <1>2, <2>1, <2>2, <2>3, <2>4 DEF CustodianStep
<1>3. ASSUME NEW c \in Claimants, WorkerStep(c) PROVE ForkOrderOf(d)'
  <2>1. CASE WorkerPassesGate(c)
    BY <1>0, <2>1 DEF WorkerPassesGate, WorkerMoves
  <2>2. CASE WorkerRefuses(c)
    BY <1>0, <2>2 DEF WorkerRefuses, WorkerMoves
  <2>3. CASE WorkerRequestFails(c)
    BY <1>0, <2>3 DEF WorkerRequestFails, WorkerMoves
  <2>4. CASE ContinuationRequestFails(c)
    BY <1>0, <2>4 DEF ContinuationRequestFails, WorkerMoves
  <2>5. CASE WorkerClaims(c)
    BY <1>0, <2>5 DEF WorkerClaims, WorkerMoves
  <2>6. CASE WorkerBeginsCustody(c)
    BY <1>0, <2>6 DEF WorkerBeginsCustody, IsOwner, WorkerMoves
  <2>7. CASE WorkerSpawnFails(c)
    BY <1>0, <2>7 DEF WorkerSpawnFails, WorkerMoves, ReadyToSpawn, IsOwner
  <2>8. CASE WorkerSpawns(c)
    BY <1>0, <2>8 DEF WorkerSpawns, WorkerMoves, ReadyToSpawn, IsOwner
  <2>9. CASE WorkerWaits(c)
    BY <1>0, <2>9 DEF WorkerWaits, WorkerMoves
  <2>10. CASE WorkerWaitFails(c)
    BY <1>0, <2>10 DEF WorkerWaitFails, WorkerMoves
  <2>11. CASE WorkerRecords(c)
    BY <1>0, <2>11 DEF WorkerRecords, WorkerMoves
  <2>12. CASE WorkerExits(c)
    BY <1>0, <2>12 DEF WorkerExits, WorkerMoves
  <2>13. CASE ReapOrphanWorker(c)
    BY <1>0, <2>13 DEF ReapOrphanWorker, WorkerMoves
  <2>14. QED BY <1>3, <2>1, <2>2, <2>3, <2>4, <2>5, <2>6, <2>7, <2>8, <2>9, <2>10, <2>11,
         <2>12, <2>13 DEF WorkerStep
<1>4. ASSUME NEW c \in Claimants, Kill(c) PROVE ForkOrderOf(d)'
  <2>1. CASE KillClaimant(c)
    BY <1>0, <2>1 DEF KillClaimant, chain
  <2>2. CASE KillCustodian(c)
    BY <1>0, <2>2 DEF KillCustodian, CustodianAlive
  <2>3. CASE WorkerFails(c)
    BY <1>0, <2>3 DEF WorkerFails, WorkerMoves, WorkerAlive
  <2>4. QED BY <1>4, <2>1, <2>2, <2>3 DEF Kill
<1>5. ASSUME NEW c \in Claimants, HelperExits(c) PROVE ForkOrderOf(d)'
  BY <1>0, <1>5 DEF HelperExits
<1>6. CASE GuardianTakesOver
  BY <1>0, <1>6 DEF GuardianTakesOver, chain
<1>7. CASE SupervisorExits
  BY <1>0, <1>7 DEF SupervisorExits, chain
<1>8. CASE GuardianTreeDrained
  BY <1>0, <1>8 DEF GuardianTreeDrained, chain
<1>9. CASE PublishSource
  BY <1>0, <1>9 DEF PublishSource, chain
<1>10. CASE UNCHANGED vars
  BY <1>0, <1>10 DEF vars, chain
<1>11. QED BY <1>1, <1>2, <1>3, <1>4, <1>5, <1>6, <1>7, <1>8, <1>9, <1>10 DEF Next

-----------------------------------------------------------------------------
(* The role slot covers execution *)

\* From publication to certification the slot names the custodian: it is published
\* before the gate opens, and only the custodian's own exit changes it.
RoleOf(c) ==
    /\ claim[c] = "published" => slot = LiveSlot(c)
    /\ gate[c] /\ CustodianAlive(c) => slot = LiveSlot(c)
    /\ WorkerAlive(c) \/ helper[c] = "running" => slot \in {LiveSlot(c), UnknownSlot}

RoleInv == \A c \in Owners : RoleOf(c)

\* The values of delivery_role::Role.pid are told apart.
LEMMA SlotsDiffer ==
    /\ EmptySlot # UnknownSlot
    /\ \A c : LiveSlot(c) # EmptySlot /\ LiveSlot(c) # UnknownSlot
    /\ \A c, d : LiveSlot(c) # CertifiedSlot(d)
    /\ \A c, d : LiveSlot(c) = LiveSlot(d) => c = d
    /\ \A c : CertifiedSlot(c) # UnknownSlot
  BY DEF EmptySlot, UnknownSlot, LiveSlot, CertifiedSlot

\* Every action keeps the execution of an owner's attempt covered by the slot.
LEMMA RoleStep ==
    ASSUME TypeOK, ForkOrder, RoleInv, [Next]_vars
    PROVE  RoleInv'
<1> SUFFICES ASSUME NEW d \in Owners PROVE RoleOf(d)'
  BY DEF RoleInv
<1>0. /\ claim \in [Claimants -> ClaimStates]
      /\ gate \in [Claimants -> BOOLEAN]
      /\ custodian \in [Claimants -> CustodianStates]
      /\ worker \in [Claimants -> WorkerStates]
      /\ helper \in [Claimants -> {"none", "running", "exited"}]
      /\ d \in Claimants /\ ForkOrderOf(d) /\ RoleOf(d)
  BY DEF TypeOK, ForkOrder, RoleInv, Claimants
<1> USE DEF RoleOf, CustodianAlive, WorkerAlive
<1>1. ASSUME NEW c \in Claimants, ClaimantStep(c) PROVE RoleOf(d)'
  <2>1. CASE AcquireLock(c)
    BY <1>0, <2>1 DEF AcquireLock, chain
  <2>2. CASE StartBusy(c)
    BY <1>0, <2>2 DEF StartBusy, chain
  <2>3. CASE StartSettled(c)
    BY <1>0, <2>3 DEF StartSettled, SettledAs, chain
  <2>4. CASE StartForkFails(c)
    BY <1>0, <2>4 DEF StartForkFails, chain
  <2>5. CASE StartFork(c)
    BY <1>0, <2>5 DEF StartFork, IsOwner, ForkOrderOf
  <2>6. CASE PublishRole(c)
    BY <1>0, <2>6, SlotsDiffer DEF PublishRole, IsOwner, ForkOrderOf, chain
  <2>7. CASE OpenGate(c)
    BY <1>0, <2>7 DEF OpenGate, IsOwner, chain
  <2>8. CASE ReapCustodian(c)
    <3>1. slot' = slot \/ (slot = LiveSlot(c) /\ slot' = UnknownSlot)
          \/ slot = CertifiedSlot(c)
      BY <2>8 DEF ReapCustodian, RetiredSlot
    <3>2. claim'[d] = "published" => claim[d] = "published" /\ (c = d => FALSE)
      BY <1>0, <2>8 DEF ReapCustodian, IsOwner, ReaperReady, Alive
    <3>3. QED BY <1>0, <2>8, <3>1, <3>2, SlotsDiffer DEF ReapCustodian
  <2>9. CASE ReapTransferWorker(c)
    BY <1>0, <2>9, CallersAssumption DEF ReapTransferWorker, IsOwner
  <2>10. CASE IntegrateRead(c)
    BY <1>0, <2>10 DEF IntegrateRead, SettledAs, chain
  <2>11. CASE IntegrateWrite(c)
    BY <1>0, <2>11 DEF IntegrateWrite, SettledAs, chain
  <2>12. QED BY <1>1, <2>1, <2>2, <2>3, <2>4, <2>5, <2>6, <2>7, <2>8, <2>9, <2>10,
  <2>11 DEF ClaimantStep
<1>2. ASSUME NEW c \in Claimants, CustodianStep(c) PROVE RoleOf(d)'
  <2>1. CASE CustodianRefuses(c)
    <3>1. slot' = slot \/ slot = LiveSlot(c)
      BY <2>1 DEF CustodianRefuses, DrainedSlot
    <3>2. c # d => RoleOf(d)'
      BY <1>0, <2>1, <3>1, SlotsDiffer DEF CustodianRefuses
    <3>3. c = d => RoleOf(d)'
      BY <1>0, <2>1 DEF CustodianRefuses, ForkOrderOf
    <3>4. QED BY <3>2, <3>3
  <2>2. CASE CustodianForksWorker(c)
    BY <1>0, <2>2 DEF CustodianForksWorker
  <2>3. CASE CustodianReapsWorker(c)
    BY <1>0, <2>3 DEF CustodianReapsWorker
  <2>4. CASE CustodianDrains(c)
    <3>1. slot' = slot \/ slot = LiveSlot(c)
      BY <2>4 DEF CustodianDrains, DrainedSlot
    <3>2. c # d => RoleOf(d)'
      BY <1>0, <2>4, <3>1, SlotsDiffer DEF CustodianDrains
    <3>3. c = d => RoleOf(d)'
      BY <1>0, <2>4 DEF CustodianDrains, ForkOrderOf
    <3>4. QED BY <3>2, <3>3
  <2>5. QED BY <1>2, <2>1, <2>2, <2>3, <2>4 DEF CustodianStep
<1>3. ASSUME NEW c \in Claimants, WorkerStep(c) PROVE RoleOf(d)'
  <2>1. CASE WorkerPassesGate(c)
    BY <1>0, <2>1 DEF WorkerPassesGate, WorkerMoves
  <2>2. CASE WorkerRefuses(c)
    BY <1>0, <2>2 DEF WorkerRefuses, WorkerMoves
  <2>3. CASE WorkerRequestFails(c)
    BY <1>0, <2>3 DEF WorkerRequestFails, WorkerMoves
  <2>4. CASE ContinuationRequestFails(c)
    BY <1>0, <2>4 DEF ContinuationRequestFails, WorkerMoves
  <2>5. CASE WorkerClaims(c)
    BY <1>0, <2>5 DEF WorkerClaims, WorkerMoves
  <2>6. CASE WorkerBeginsCustody(c)
    BY <1>0, <2>6 DEF WorkerBeginsCustody, IsOwner, WorkerMoves
  <2>7. CASE WorkerSpawnFails(c)
    BY <1>0, <2>7 DEF WorkerSpawnFails, WorkerMoves, ReadyToSpawn, IsOwner
  <2>8. CASE WorkerSpawns(c)
    BY <1>0, <2>8 DEF WorkerSpawns, WorkerMoves, ReadyToSpawn, IsOwner
  <2>9. CASE WorkerWaits(c)
    BY <1>0, <2>9 DEF WorkerWaits, WorkerMoves
  <2>10. CASE WorkerWaitFails(c)
    BY <1>0, <2>10 DEF WorkerWaitFails, WorkerMoves
  <2>11. CASE WorkerRecords(c)
    BY <1>0, <2>11 DEF WorkerRecords, WorkerMoves
  <2>12. CASE WorkerExits(c)
    BY <1>0, <2>12 DEF WorkerExits, WorkerMoves
  <2>13. CASE ReapOrphanWorker(c)
    BY <1>0, <2>13 DEF ReapOrphanWorker, WorkerMoves
  <2>14. QED BY <1>3, <2>1, <2>2, <2>3, <2>4, <2>5, <2>6, <2>7, <2>8, <2>9, <2>10, <2>11,
         <2>12, <2>13 DEF WorkerStep
<1>4. ASSUME NEW c \in Claimants, Kill(c) PROVE RoleOf(d)'
  <2>1. CASE KillClaimant(c)
    BY <1>0, <2>1 DEF KillClaimant, chain
  <2>2. CASE KillCustodian(c)
    BY <1>0, <2>2 DEF KillCustodian
  <2>3. CASE WorkerFails(c)
    BY <1>0, <2>3 DEF WorkerFails, WorkerMoves
  <2>4. QED BY <1>4, <2>1, <2>2, <2>3 DEF Kill
<1>5. ASSUME NEW c \in Claimants, HelperExits(c) PROVE RoleOf(d)'
  BY <1>0, <1>5 DEF HelperExits
<1>6. CASE GuardianTakesOver
  BY <1>0, <1>6 DEF GuardianTakesOver, chain
<1>7. CASE SupervisorExits
  BY <1>0, <1>7 DEF SupervisorExits, chain
<1>8. CASE GuardianTreeDrained
  BY <1>0, <1>8, SlotsDiffer
     DEF GuardianTreeDrained, TreeEmpty, ChainUnreaped, chain
<1>9. CASE PublishSource
  BY <1>0, <1>9 DEF PublishSource, chain
<1>10. CASE UNCHANGED vars
  BY <1>0, <1>10 DEF vars, chain
<1>11. QED BY <1>1, <1>2, <1>3, <1>4, <1>5, <1>6, <1>7, <1>8, <1>9, <1>10 DEF Next

-----------------------------------------------------------------------------
(* The retry count bounds the invocations *)

\* c's attempt has not spawned its helper yet and still may.
Unspawned(c) ==
    worker[c] \in {"gate", "request", "provisional", "custody"} \/ custodian[c] = "gate"
PastClaim(c) == worker[c] \in {"provisional", "custody"}

\* An attempt that counts n retries has at most n invocations before its own; once
\* it has claimed, the record does not offer the retry it is.
ReplayOf(c) ==
    /\ retry_count[c] \in {0, 1}
    /\ Unspawned(c) => invocations <= retry_count[c]
    /\ Attempting(c) => invocations <= retry_count[c] + 1
    /\ PastClaim(c) => completion_lifecycle(delivery) # "Unclaimed"
    /\ PastClaim(c) /\ retry_count[c] = 1 => ~permits_attempt(delivery)

\* A record that permits an attempt has one invocation at most, and none if it
\* never left Unclaimed.
RecordBound ==
    /\ invocations \in 0 .. 2
    /\ delivery.retry_count \in {0, 1}
    /\ permits_attempt(delivery) => invocations <= 1 /\ delivery.retry_count = 0
    /\ completion_lifecycle(delivery) = "Unclaimed" => invocations = 0

ReplayInv == RecordBound /\ \A c \in Claimants : ReplayOf(c)

\* The records an attempt with n retries counted may write: none of them is
\* unclaimed, and only a first attempt's failure permits another.
LEMMA AttemptWrites ==
    ASSUME NEW n \in {0, 1},
           NEW d \in {LaunchErrorMeta(n), InvalidHelperMeta(n), UnknownTransferMeta(n),
                      ProvisionalMeta, AdmittedMeta}
    PROVE  /\ completion_lifecycle(d) # "Unclaimed"
           /\ d.retry_count \in {0, 1}
           /\ permits_attempt(d) => n = 0 /\ d.retry_count = 0
<1>1. n \in RetryCounts
  BY DEF RetryCounts
<1>2. d.retry_count \in {0, n}
  BY DEF LaunchErrorMeta, InvalidHelperMeta, UnknownTransferMeta, ProvisionalMeta, AdmittedMeta
<1>3. completion_lifecycle(d) # "Unclaimed"
  BY <1>1, ClassOfMeta
<1>4. permits_attempt(d) => n = 0
  BY <1>1, ClassOfMeta DEF permits_attempt
<1>5. QED BY <1>2, <1>3, <1>4

\* Nobody but the attempt that holds the lock is bounded by the record.
LEMMA OthersSpent ==
    ASSUME OneChain, NEW c \in Claimants, Holding(c), NEW d \in Claimants, d # c,
           claim'[d] = claim[d], custodian'[d] = custodian[d], worker'[d] = worker[d]
    PROVE  ~Unspawned(d)' /\ ~Attempting(d)' /\ ~PastClaim(d)'
<1>1. ~Holding(d)
  BY DEF OneChain
<1>2. QED BY <1>1 DEF Unspawned, Attempting, PastClaim, Holding, ClaimantHolds, CustodianAlive,
                      WorkerAlive

\* A write of a record that keeps to the bound, by the attempt that holds the lock
LEMMA ReplayWrite ==
    ASSUME TypeOK, OneChain, ReplayInv, NEW c \in Claimants, Holding(c),
           UNCHANGED <<retry_count, invocations>>,
           \A d \in Claimants : d # c => /\ claim'[d] = claim[d]
                                         /\ custodian'[d] = custodian[d]
                                         /\ worker'[d] = worker[d],
           Attempting(c)' => Attempting(c), Unspawned(c)' => Unspawned(c),
           completion_lifecycle(delivery') # "Unclaimed",
           delivery'.retry_count \in {0, 1},
           permits_attempt(delivery') => invocations <= 1 /\ delivery'.retry_count = 0,
           PastClaim(c)' /\ retry_count[c] = 1 => ~permits_attempt(delivery')
    PROVE  ReplayInv'
<1>1. RecordBound'
  BY DEF ReplayInv, RecordBound
<1>2. ASSUME NEW d \in Claimants, d # c PROVE ReplayOf(d)'
  BY <1>2, OthersSpent DEF ReplayInv, ReplayOf
<1>3. ReplayOf(c)'
  BY DEF ReplayInv, ReplayOf
<1>4. QED BY <1>1, <1>2, <1>3 DEF ReplayInv

\* What an attempt past its fork may write keeps to the bound.
LEMMA AttemptReplayWrite ==
    ASSUME TypeOK, OneChain, ReplayInv, NEW c \in Claimants, Attempting(c),
           UNCHANGED <<retry_count, invocations>>,
           \A d \in Claimants : d # c => /\ claim'[d] = claim[d]
                                         /\ custodian'[d] = custodian[d]
                                         /\ worker'[d] = worker[d],
           Unspawned(c)' => Unspawned(c),
           delivery' \in {LaunchErrorMeta(retry_count[c]), InvalidHelperMeta(retry_count[c]),
                          UnknownTransferMeta(retry_count[c]), ProvisionalMeta, AdmittedMeta}
    PROVE  ReplayInv'
<1>1. Holding(c)
  BY DEF Attempting, Holding, ClaimantHolds
<1>2. retry_count[c] \in {0, 1}
  BY DEF ReplayInv, ReplayOf
<1>3. /\ completion_lifecycle(delivery') # "Unclaimed"
      /\ delivery'.retry_count \in {0, 1}
      /\ permits_attempt(delivery') => retry_count[c] = 0 /\ delivery'.retry_count = 0
  BY <1>2, AttemptWrites
<1>4. retry_count[c] = 0 => invocations <= 1
  BY DEF ReplayInv, ReplayOf
<1>5. QED BY <1>1, <1>3, <1>4, ReplayWrite

\* A step that writes neither the record nor a count, starts no attempt and lets
\* none claim
LEMMA ReplayQuiet ==
    ASSUME ReplayInv, UNCHANGED <<delivery, retry_count, invocations>>,
           \A d \in Claimants : /\ Attempting(d)' => Attempting(d)
                                /\ Unspawned(d)' => Unspawned(d)
                                /\ PastClaim(d)' => PastClaim(d)
    PROVE  ReplayInv'
<1>1. RecordBound'
  BY DEF ReplayInv, RecordBound
<1>2. ASSUME NEW d \in Claimants PROVE ReplayOf(d)'
  BY DEF ReplayInv, ReplayOf
<1>3. QED BY <1>1, <1>2 DEF ReplayInv

\* Every action keeps the bound, whatever may be killed.
LEMMA ReplayStep ==
    ASSUME TypeOK, OneChain, ForkOrder, ReplayInv, [Next]_vars
    PROVE  ReplayInv'
<1>0. /\ claim \in [Claimants -> ClaimStates]
      /\ custodian \in [Claimants -> CustodianStates]
      /\ worker \in [Claimants -> WorkerStates]
      /\ retry_count \in [Claimants -> RetryCounts]
      /\ delivery \in CompletionDeliveryMeta
      /\ invocations \in Nat
      /\ \A c \in Claimants : ForkOrderOf(c) /\ ReplayOf(c)
      /\ RecordBound
  BY DEF TypeOK, ForkOrder, ReplayInv
<1>1. ASSUME NEW c \in Claimants, ClaimantStep(c) PROVE ReplayInv'
  <2>1. CASE AcquireLock(c)
    BY <1>0, <2>1, ReplayQuiet DEF AcquireLock, chain, Attempting, Unspawned, PastClaim,
         CustodianAlive, WorkerAlive
  <2>2. CASE StartBusy(c)
    BY <1>0, <2>2, ReplayQuiet DEF StartBusy, chain, Attempting, Unspawned, PastClaim,
         CustodianAlive, WorkerAlive
  <2>3. CASE StartSettled(c)
    <3>1. CASE completion_lifecycle(delivery) = "ProvisionalTransfer"
      <4>1. /\ Holding(c) /\ UNCHANGED <<retry_count, invocations>>
            /\ \A d \in Claimants : d # c => /\ claim'[d] = claim[d]
                                             /\ custodian'[d] = custodian[d]
                                             /\ worker'[d] = worker[d]
            /\ ~Attempting(c)' /\ ~Unspawned(c)' /\ ~PastClaim(c)'
        BY <1>0, <2>3 DEF StartSettled, SettledAs, chain, Holding, ClaimantHolds,
                          ForkOrderOf, Attempting, Unspawned, PastClaim, CustodianAlive,
                          WorkerAlive
      <4>2. /\ completion_lifecycle(delivery') # "Unclaimed"
            /\ delivery'.retry_count \in {0, 1}
            /\ permits_attempt(delivery') => invocations <= 1 /\ delivery'.retry_count = 0
        <5>1. delivery' = UnknownTransferMeta(delivery.retry_count)
          BY <2>3, <3>1 DEF StartSettled
        <5>2. ~permits_attempt(delivery')
          BY <1>0, <5>1, MetaFacts, RetryCountType
        <5>3. QED BY <1>0, <5>1, <5>2, AttemptWrites DEF RecordBound
      <4>3. QED BY <4>1, <4>2, ReplayWrite
    <3>2. CASE completion_lifecycle(delivery) # "ProvisionalTransfer"
      BY <1>0, <2>3, <3>2, ReplayQuiet
         DEF StartSettled, SettledAs, chain, Attempting, Unspawned, PastClaim,
             CustodianAlive, WorkerAlive
    <3>3. QED BY <3>1, <3>2
  <2>4. CASE StartForkFails(c)
    <3>1. /\ Holding(c) /\ UNCHANGED <<retry_count, invocations>>
          /\ \A d \in Claimants : d # c => /\ claim'[d] = claim[d]
                                           /\ custodian'[d] = custodian[d]
                                           /\ worker'[d] = worker[d]
          /\ ~Attempting(c)' /\ ~Unspawned(c)' /\ ~PastClaim(c)'
      BY <1>0, <2>4 DEF StartForkFails, chain, Holding, ClaimantHolds, ForkOrderOf,
                        Attempting, Unspawned, PastClaim, CustodianAlive, WorkerAlive
    <3>2. /\ completion_lifecycle(delivery') # "Unclaimed"
          /\ delivery'.retry_count \in {0, 1}
          /\ permits_attempt(delivery') => invocations <= 1 /\ delivery'.retry_count = 0
      <4>1. /\ AttemptRetryCount(delivery) \in {0, 1}
            /\ AttemptRetryCount(delivery) = 0 => invocations = 0
        BY <2>4 DEF StartForkFails, permits_attempt, RecordBound, AttemptRetryCount, ReplayInv
      <4>2. QED BY <2>4, <4>1, AttemptWrites DEF StartForkFails
    <3>3. QED BY <3>1, <3>2, ReplayWrite
  <2>5. CASE StartFork(c)
    <3>1. /\ permits_attempt(delivery) /\ UNCHANGED <<delivery, invocations>>
          /\ retry_count' = [retry_count EXCEPT ![c] = AttemptRetryCount(delivery)]
      BY <2>5 DEF StartFork
    <3>2. /\ AttemptRetryCount(delivery) \in {0, 1}
          /\ invocations <= AttemptRetryCount(delivery)
      BY <1>0, <3>1 DEF permits_attempt, RecordBound, AttemptRetryCount
    <3>3. /\ Holding(c) /\ ~PastClaim(c)'
          /\ \A d \in Claimants : d # c => /\ claim'[d] = claim[d]
                                           /\ custodian'[d] = custodian[d]
                                           /\ worker'[d] = worker[d]
      BY <1>0, <2>5 DEF StartFork, Holding, ClaimantHolds, PastClaim, ForkOrderOf
    <3>4. ReplayOf(c)'
      BY <1>0, <3>1, <3>2, <3>3 DEF ReplayOf
    <3>5. ASSUME NEW d \in Claimants, d # c PROVE ReplayOf(d)'
      BY <1>0, <3>1, <3>3, <3>5, OthersSpent DEF ReplayOf
    <3>6. RecordBound'
      BY <1>0, <3>1 DEF RecordBound
    <3>7. QED BY <3>4, <3>5, <3>6 DEF ReplayInv
  <2>6. CASE PublishRole(c)
    BY <1>0, <2>6, ReplayQuiet DEF PublishRole, IsOwner, chain, Attempting, Unspawned,
         PastClaim, CustodianAlive, WorkerAlive
  <2>7. CASE OpenGate(c)
    BY <1>0, <2>7, ReplayQuiet DEF OpenGate, IsOwner, chain, Attempting, Unspawned,
         PastClaim, CustodianAlive, WorkerAlive
  <2>8. CASE ReapCustodian(c)
    BY <1>0, <2>8, ReplayQuiet DEF ReapCustodian, IsOwner, Attempting, Unspawned, PastClaim,
         CustodianAlive, WorkerAlive
  <2>9. CASE ReapTransferWorker(c)
    BY <1>0, <2>9, ReplayQuiet DEF ReapTransferWorker, IsOwner, Attempting, Unspawned,
         PastClaim, CustodianAlive, WorkerAlive
  <2>10. CASE IntegrateRead(c)
    BY <1>0, <2>10, ReplayQuiet DEF IntegrateRead, SettledAs, chain, Attempting, Unspawned,
         PastClaim, CustodianAlive, WorkerAlive
  <2>11. CASE IntegrateWrite(c)
    <3>1. /\ Attempting(c) /\ UNCHANGED <<retry_count, invocations>>
          /\ \A d \in Claimants : d # c => /\ claim'[d] = claim[d]
                                           /\ custodian'[d] = custodian[d]
                                           /\ worker'[d] = worker[d]
          /\ Unspawned(c)' => Unspawned(c)
      BY <1>0, <2>11 DEF IntegrateWrite, SettledAs, chain, Attempting, Unspawned,
                         CustodianAlive, WorkerAlive
    <3>2. delivery' \in {LaunchErrorMeta(retry_count[c]), InvalidHelperMeta(retry_count[c]),
                         UnknownTransferMeta(retry_count[c]), ProvisionalMeta, AdmittedMeta}
      BY <2>11 DEF IntegrateWrite, LostTransferMeta
    <3>3. QED BY <3>1, <3>2, AttemptReplayWrite
  <2>12. QED BY <1>1, <2>1, <2>2, <2>3, <2>4, <2>5, <2>6, <2>7, <2>8, <2>9, <2>10,
  <2>11 DEF ClaimantStep
<1>2. ASSUME NEW c \in Claimants, CustodianStep(c) PROVE ReplayInv'
  <2>1. CASE CustodianRefuses(c)
    BY <1>0, <2>1, ReplayQuiet DEF CustodianRefuses, Attempting, Unspawned, PastClaim,
         CustodianAlive, WorkerAlive
  <2>2. CASE CustodianForksWorker(c)
    BY <1>0, <2>2, ReplayQuiet DEF CustodianForksWorker, Attempting, Unspawned, PastClaim,
         CustodianAlive, WorkerAlive
  <2>3. CASE CustodianReapsWorker(c)
    <3>1. CASE UNCHANGED delivery
      BY <1>0, <2>3, <3>1, ReplayQuiet DEF CustodianReapsWorker, Attempting, Unspawned,
                                           PastClaim, CustodianAlive, WorkerAlive
    <3>2. CASE ~UNCHANGED delivery
      <4>1. /\ Attempting(c) /\ UNCHANGED <<retry_count, invocations>>
            /\ \A d \in Claimants : d # c => /\ claim'[d] = claim[d]
                                             /\ custodian'[d] = custodian[d]
                                             /\ worker'[d] = worker[d]
            /\ Unspawned(c)' => Unspawned(c)
        BY <1>0, <2>3 DEF CustodianReapsWorker, Attempting, Unspawned, CustodianAlive,
                          WorkerAlive
      <4>2. delivery' \in {LaunchErrorMeta(retry_count[c]), InvalidHelperMeta(retry_count[c]),
                           UnknownTransferMeta(retry_count[c]), ProvisionalMeta, AdmittedMeta}
        BY <2>3, <3>2 DEF CustodianReapsWorker, LostTransferMeta
      <4>3. QED BY <4>1, <4>2, AttemptReplayWrite
    <3>3. QED BY <3>1, <3>2
  <2>4. CASE CustodianDrains(c)
    BY <1>0, <2>4, ReplayQuiet DEF CustodianDrains, Attempting, Unspawned, PastClaim,
         CustodianAlive, WorkerAlive
  <2>5. QED BY <1>2, <2>1, <2>2, <2>3, <2>4 DEF CustodianStep
<1>3. ASSUME NEW c \in Claimants, WorkerStep(c) PROVE ReplayInv'
  <2>1. CASE WorkerPassesGate(c)
    BY <1>0, <2>1, ReplayQuiet DEF WorkerPassesGate, WorkerMoves, Attempting, Unspawned,
         PastClaim, CustodianAlive, WorkerAlive
  <2>2. CASE WorkerRefuses(c)
    BY <1>0, <2>2, ReplayQuiet DEF WorkerRefuses, WorkerMoves, Attempting, Unspawned,
         PastClaim, CustodianAlive, WorkerAlive
  <2>3. CASE WorkerRequestFails(c)
    <3>1. /\ Attempting(c) /\ UNCHANGED <<retry_count, invocations>>
          /\ \A d \in Claimants : d # c => /\ claim'[d] = claim[d]
                                           /\ custodian'[d] = custodian[d]
                                           /\ worker'[d] = worker[d]
          /\ Unspawned(c)' => Unspawned(c)
      BY <1>0, <2>3 DEF WorkerRequestFails, WorkerMoves, Attempting, Unspawned,
                        CustodianAlive, WorkerAlive
    <3>2. delivery' \in {LaunchErrorMeta(retry_count[c]), InvalidHelperMeta(retry_count[c]),
                         UnknownTransferMeta(retry_count[c]), ProvisionalMeta, AdmittedMeta}
      BY <2>3 DEF WorkerRequestFails, HelperErrorMeta
    <3>3. QED BY <3>1, <3>2, AttemptReplayWrite
  <2>4. CASE ContinuationRequestFails(c)
    BY <1>0, <2>4, ReplayQuiet DEF ContinuationRequestFails, WorkerMoves, Attempting,
         Unspawned, PastClaim, CustodianAlive, WorkerAlive
  <2>5. CASE WorkerClaims(c)
    <3>1. /\ Attempting(c) /\ UNCHANGED <<retry_count, invocations>>
          /\ \A d \in Claimants : d # c => /\ claim'[d] = claim[d]
                                           /\ custodian'[d] = custodian[d]
                                           /\ worker'[d] = worker[d]
          /\ Unspawned(c)' => Unspawned(c)
      BY <1>0, <2>5 DEF WorkerClaims, WorkerMoves, Attempting, Unspawned, CustodianAlive,
                        WorkerAlive
    <3>2. delivery' \in {LaunchErrorMeta(retry_count[c]), InvalidHelperMeta(retry_count[c]),
                         UnknownTransferMeta(retry_count[c]), ProvisionalMeta, AdmittedMeta}
      BY <2>5 DEF WorkerClaims
    <3>3. QED BY <3>1, <3>2, AttemptReplayWrite
  <2>6. CASE WorkerBeginsCustody(c)
    BY <1>0, <2>6, ReplayQuiet DEF WorkerBeginsCustody, IsOwner, WorkerMoves, Attempting,
         Unspawned, PastClaim, CustodianAlive, WorkerAlive
  <2>7. CASE WorkerSpawnFails(c)
    BY <1>0, <2>7, ReplayQuiet DEF WorkerSpawnFails, WorkerMoves, ReadyToSpawn, IsOwner,
         Attempting, Unspawned, PastClaim, CustodianAlive, WorkerAlive
  <2>8. CASE WorkerSpawns(c)
    <3>1. /\ Holding(c) /\ Attempting(c) /\ Unspawned(c) /\ PastClaim(c)
      BY <2>8 DEF WorkerSpawns, ReadyToSpawn, IsOwner, Holding, Attempting, Unspawned,
                  PastClaim, CustodianAlive, WorkerAlive
    <3>2. /\ UNCHANGED <<delivery, retry_count>> /\ invocations' = invocations + 1
          /\ ~Unspawned(c)' /\ ~PastClaim(c)'
          /\ \A d \in Claimants : d # c => /\ claim'[d] = claim[d]
                                           /\ custodian'[d] = custodian[d]
                                           /\ worker'[d] = worker[d]
      BY <1>0, <2>8, <3>1, CallersAssumption
         DEF WorkerSpawns, WorkerMoves, Unspawned, PastClaim, ForkOrderOf, Claimants
    <3>3. /\ invocations <= retry_count[c] /\ retry_count[c] \in {0, 1}
          /\ completion_lifecycle(delivery) # "Unclaimed"
          /\ retry_count[c] = 1 => ~permits_attempt(delivery)
      BY <1>0, <3>1 DEF ReplayOf
    <3>4. RecordBound'
      BY <1>0, <3>2, <3>3 DEF RecordBound
    <3>5. ReplayOf(c)'
      BY <1>0, <3>2, <3>3 DEF ReplayOf
    <3>6. ASSUME NEW d \in Claimants, d # c PROVE ReplayOf(d)'
      BY <1>0, <3>1, <3>2, <3>6, OthersSpent DEF ReplayOf
    <3>7. QED BY <3>4, <3>5, <3>6 DEF ReplayInv
  <2>9. CASE WorkerWaits(c)
    BY <1>0, <2>9, ReplayQuiet DEF WorkerWaits, WorkerMoves, Attempting, Unspawned,
         PastClaim, CustodianAlive, WorkerAlive
  <2>10. CASE WorkerWaitFails(c)
    BY <1>0, <2>10, ReplayQuiet DEF WorkerWaitFails, WorkerMoves, Attempting, Unspawned,
         PastClaim, CustodianAlive, WorkerAlive
  <2>11. CASE WorkerRecords(c)
    <3>1. /\ Attempting(c) /\ UNCHANGED <<retry_count, invocations>>
          /\ \A d \in Claimants : d # c => /\ claim'[d] = claim[d]
                                           /\ custodian'[d] = custodian[d]
                                           /\ worker'[d] = worker[d]
          /\ Unspawned(c)' => Unspawned(c)
      BY <1>0, <2>11 DEF WorkerRecords, WorkerMoves, Attempting, Unspawned, CustodianAlive,
                         WorkerAlive
    <3>2. delivery' \in {LaunchErrorMeta(retry_count[c]), InvalidHelperMeta(retry_count[c]),
                         UnknownTransferMeta(retry_count[c]), ProvisionalMeta, AdmittedMeta}
      BY <2>11 DEF WorkerRecords
    <3>3. QED BY <3>1, <3>2, AttemptReplayWrite
  <2>12. CASE WorkerExits(c)
    BY <1>0, <2>12, ReplayQuiet DEF WorkerExits, WorkerMoves, Attempting, Unspawned,
         PastClaim, CustodianAlive, WorkerAlive
  <2>13. CASE ReapOrphanWorker(c)
    BY <1>0, <2>13, ReplayQuiet DEF ReapOrphanWorker, WorkerMoves, Attempting, Unspawned,
         PastClaim, CustodianAlive, WorkerAlive
  <2>14. QED BY <1>3, <2>1, <2>2, <2>3, <2>4, <2>5, <2>6, <2>7, <2>8, <2>9, <2>10, <2>11,
         <2>12, <2>13 DEF WorkerStep
<1>4. ASSUME NEW c \in Claimants, Kill(c) PROVE ReplayInv'
  <2>1. CASE KillClaimant(c)
    BY <1>0, <2>1, ReplayQuiet DEF KillClaimant, chain, Attempting, Unspawned, PastClaim,
         CustodianAlive, WorkerAlive
  <2>2. CASE KillCustodian(c)
    BY <1>0, <2>2, ReplayQuiet DEF KillCustodian, Attempting, Unspawned, PastClaim,
         CustodianAlive, WorkerAlive
  <2>3. CASE WorkerFails(c)
    BY <1>0, <2>3, ReplayQuiet DEF WorkerFails, WorkerMoves, Attempting, Unspawned,
         PastClaim, CustodianAlive, WorkerAlive
  <2>4. QED BY <1>4, <2>1, <2>2, <2>3 DEF Kill
<1>5. ASSUME NEW c \in Claimants, HelperExits(c) PROVE ReplayInv'
  BY <1>5, ReplayQuiet DEF HelperExits, Attempting, Unspawned, PastClaim, CustodianAlive,
                           WorkerAlive
<1>6. CASE GuardianTakesOver
  BY <1>0, <1>6, ReplayQuiet DEF GuardianTakesOver, chain, Attempting, Unspawned, PastClaim,
       CustodianAlive, WorkerAlive
<1>7. CASE SupervisorExits
  BY <1>0, <1>7, ReplayQuiet DEF SupervisorExits, chain, Attempting, Unspawned, PastClaim,
       CustodianAlive, WorkerAlive
<1>8. CASE GuardianTreeDrained
  BY <1>0, <1>8, ReplayQuiet DEF GuardianTreeDrained, chain, Attempting, Unspawned,
       PastClaim, CustodianAlive, WorkerAlive
<1>9. CASE PublishSource
  BY <1>0, <1>9, ReplayQuiet DEF PublishSource, chain, Attempting, Unspawned, PastClaim,
       CustodianAlive, WorkerAlive
<1>10. CASE UNCHANGED vars
  BY <1>0, <1>10, ReplayQuiet DEF vars, chain, Attempting, Unspawned, PastClaim,
       CustodianAlive, WorkerAlive
<1>11. QED BY <1>1, <1>2, <1>3, <1>4, <1>5, <1>6, <1>7, <1>8, <1>9, <1>10 DEF Next

-----------------------------------------------------------------------------
(* Theorems *)

\* While a worker or a helper of an owner's attempt lives, the slot names its
\* custodian or is unknown, so signal_descendants spares it: for every set of
\* callers and whatever is killed, the custodian included (delivery_role).
THEOREM RoleCovers == Spec => []RoleCoversExecution
<1>1. Init => ForkOrder /\ RoleInv
  BY DEF Init, ForkOrder, ForkOrderOf, RoleInv, RoleOf, CustodianAlive, WorkerAlive, Claimants
<1>2. TypeOK /\ ForkOrder /\ RoleInv /\ [Next]_vars => (TypeOK /\ ForkOrder /\ RoleInv)'
  BY TypeStep, ForkOrderStep, RoleStep
<1>3. RoleInv => RoleCoversExecution
  BY DEF RoleInv, RoleOf, RoleCoversExecution
<1>4. QED BY TypeInit, <1>1, <1>2, <1>3, PTL DEF Spec

\* Even with lost custodians the retry count bounds the replay: never a third
\* invocation, never a second retry (launch_error's retryable flag,
\* start_completion_delivery's saturating count), for every set of callers.
THEOREM ReplayIsBounded == Spec => []ReplayBounded
<1>1. Init => OneChain /\ ForkOrder /\ ReplayInv
  <2> SUFFICES ASSUME Init PROVE OneChain /\ ForkOrder /\ ReplayInv
    OBVIOUS
  <2>1. OneChain
    BY AdmissionInit DEF AdmissionInv
  <2>2. ForkOrder
    BY DEF Init, ForkOrder, ForkOrderOf
  <2>3. RecordBound
    BY DEF Init, RecordBound, UnclaimedMeta, LegacySkippedMeta
  <2>4. \A c \in Claimants : ReplayOf(c)
    BY DEF Init, ReplayOf, Unspawned, Attempting, PastClaim, CustodianAlive, WorkerAlive
  <2>5. QED BY <2>1, <2>2, <2>3, <2>4 DEF ReplayInv
<1>2. TypeOK /\ OneChain /\ ForkOrder /\ ReplayInv /\ [Next]_vars =>
         (TypeOK /\ OneChain /\ ForkOrder /\ ReplayInv)'
  BY TypeStep, OneChainStep, ForkOrderStep, ReplayStep
<1>3. ReplayInv => ReplayBounded
  BY DEF ReplayInv, RecordBound, ReplayBounded
<1>4. QED BY TypeInit, <1>1, <1>2, <1>3, PTL DEF Spec
=============================================================================
