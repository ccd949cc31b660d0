--------------------- MODULE CompletionDelivery_proofs ----------------------
(***************************************************************************)
(* Proofs about CompletionDelivery for every set of callers.               *)
(*                                                                         *)
(* AtMostOnceAdmission is not inductive.  AdmissionInv adds what the       *)
(* argument rests on: only one attempt holds delivery.lock (OneChain), the *)
(* processes of an attempt live inside one another (ChainShape), and the   *)
(* record says how far the attempt that holds the lock has come            *)
(* (RecordTracksWorker).  It needs the role custodian to survive: the      *)
(* assumption "custodian" \notin Killable is exactly what the run         *)
(* delivery_custodian_replay drops.                                        *)
(***************************************************************************)
EXTENDS CompletionDelivery, TLAPS

OneChain == \A c, d \in Claimants : Holding(c) /\ Holding(d) => c = d

\* Before an attempt nothing has been forked; a caller has no custodian; an
\* owner's worker lives below its custodian; whoever reaps the transfer child
\* finds no process of the attempt left that could write the record.
ShapeOf(c) ==
    /\ claim[c] \in {"guarding", "idle", "locked"} =>
          custodian[c] = "none" /\ worker[c] = "none"
    /\ c \in Callers => custodian[c] = "none"
    /\ c \in Owners /\ custodian[c] \in {"none", "gate"} => worker[c] = "none"
    /\ c \in Owners /\ worker[c] \notin {"none", "reaped"} => custodian[c] = "supervising"
    /\ claim[c] \in {"reaped", "merging"} => ~CustodianAlive(c) /\ ~WorkerAlive(c)

ChainShape == \A c \in Claimants : ShapeOf(c)

\* How far the attempt of c has come, read off the record
RecordOf(c) ==
    /\ worker[c] \in {"gate", "request"} \/ custodian[c] = "gate" =>
          permits_attempt(delivery) /\ invocations = 0
    /\ worker[c] \in {"provisional", "custody"} =>
          delivery = ProvisionalMeta /\ invocations = 0
    /\ worker[c] \in {"waiting", "record"} => delivery = ProvisionalMeta
    /\ worker[c] = "record" /\ launch[c] = "not_started" => invocations = 0
    /\ claim[c] = "merging" => observed[c] = delivery /\ needs_progress(delivery)

RecordTracksWorker == \A c \in Claimants : RecordOf(c)

\* An admitted invocation closes the record for good.
AdmissionCloses ==
    /\ invocations \in {0, 1}
    /\ invocations = 1 => ~permits_attempt(delivery)

AdmissionInv == OneChain /\ ChainShape /\ RecordTracksWorker /\ AdmissionCloses

-----------------------------------------------------------------------------
(* The record constructors and the classifier *)

\* Every record the protocol writes is a record, and its class is decided by the
\* constructor that wrote it (completion_lifecycle, permits_attempt).
LEMMA MetaFacts ==
    /\ UnclaimedMeta \in CompletionDeliveryMeta
    /\ LegacySkippedMeta \in CompletionDeliveryMeta
    /\ ProvisionalMeta \in CompletionDeliveryMeta /\ ~permits_attempt(ProvisionalMeta)
    /\ AdmittedMeta \in CompletionDeliveryMeta /\ ~permits_attempt(AdmittedMeta)
    /\ \A n \in RetryCounts :
          /\ UnknownTransferMeta(n) \in CompletionDeliveryMeta
          /\ ~permits_attempt(UnknownTransferMeta(n))
          /\ LaunchErrorMeta(n) \in CompletionDeliveryMeta
          /\ InvalidHelperMeta(n) \in CompletionDeliveryMeta
<1> USE DEF CompletionDeliveryMeta, ErrorCodes, RetryCounts
<1>1. /\ UnclaimedMeta \in CompletionDeliveryMeta
      /\ LegacySkippedMeta \in CompletionDeliveryMeta
  BY DEF UnclaimedMeta, LegacySkippedMeta
<1>2. ProvisionalMeta \in CompletionDeliveryMeta /\ AdmittedMeta \in CompletionDeliveryMeta
  BY DEF ProvisionalMeta, AdmittedMeta
<1>3. ASSUME NEW n \in RetryCounts
      PROVE  /\ UnknownTransferMeta(n) \in CompletionDeliveryMeta
             /\ LaunchErrorMeta(n) \in CompletionDeliveryMeta
             /\ InvalidHelperMeta(n) \in CompletionDeliveryMeta
  BY <1>3 DEF UnknownTransferMeta, LaunchErrorMeta, InvalidHelperMeta
<1>4. ~permits_attempt(ProvisionalMeta)
  BY DEF ProvisionalMeta, permits_attempt, completion_lifecycle
<1>5. ~permits_attempt(AdmittedMeta)
  BY DEF AdmittedMeta, permits_attempt, completion_lifecycle
<1>6. ASSUME NEW n \in RetryCounts PROVE ~permits_attempt(UnknownTransferMeta(n))
  BY DEF UnknownTransferMeta, permits_attempt, completion_lifecycle
<1>7. QED BY <1>1, <1>2, <1>3, <1>4, <1>5, <1>6

\* The saturating retry count stays a u8.
LEMMA RetryCountType ==
    ASSUME NEW d \in CompletionDeliveryMeta
    PROVE  d.retry_count \in RetryCounts /\ AttemptRetryCount(d) \in RetryCounts
  BY DEF CompletionDeliveryMeta, AttemptRetryCount, RetryCounts

\* What integrate_completion_transfer writes is a record whatever it read.
LEMMA LostTransferType ==
    ASSUME NEW d, NEW n \in RetryCounts
    PROVE  /\ LostTransferMeta(d, n) \in CompletionDeliveryMeta
           /\ ~permits_attempt(d) => ~permits_attempt(LostTransferMeta(d, n))
  BY MetaFacts DEF LostTransferMeta

-----------------------------------------------------------------------------
(* Type correctness *)

\* The initial states are typed.
LEMMA TypeInit == Init => TypeOK
<1> SUFFICES ASSUME Init PROVE TypeOK
  OBVIOUS
<1>1. delivery \in CompletionDeliveryMeta /\ observed \in [Claimants -> CompletionDeliveryMeta]
  BY MetaFacts DEF Init
<1>2. slot \in SlotValues
  BY DEF Init, SlotValues, EmptySlot
<1>3. /\ claim \in [Claimants -> ClaimStates]
      /\ custodian \in [Claimants -> CustodianStates]
      /\ worker \in [Claimants -> WorkerStates]
      /\ launch \in [Claimants -> HelperResults]
  BY DEF Init, ClaimStates, CustodianStates, WorkerStates, HelperResults
<1>4. /\ gate \in [Claimants -> BOOLEAN] /\ failed \in [Claimants -> BOOLEAN]
      /\ helper \in [Claimants -> {"none", "running", "exited"}]
  BY DEF Init
<1>5. retry_count \in [Claimants -> RetryCounts]
  BY DEF Init, RetryCounts
<1>6. QED BY <1>1, <1>2, <1>3, <1>4, <1>5 DEF Init, TypeOK

\* Every action keeps the types.
LEMMA TypeStep == TypeOK /\ [Next]_vars => TypeOK'
<1> SUFFICES ASSUME TypeOK, [Next]_vars PROVE TypeOK'
  OBVIOUS
<1> USE MetaFacts, RetryCountType, LostTransferType DEF TypeOK
<1>1. ASSUME NEW c \in Claimants, ClaimantStep(c) PROVE TypeOK'
  <2> USE DEF ClaimStates, CustodianStates, WorkerStates
  <2>1. CASE AcquireLock(c)
    BY <2>1 DEF AcquireLock, files, chain
  <2>2. CASE StartBusy(c)
    BY <2>2 DEF StartBusy, files, chain
  <2>3. CASE StartSettled(c)
    BY <2>3 DEF StartSettled, SettledAs, files, chain
  <2>4. CASE StartForkFails(c)
    BY <2>4 DEF StartForkFails, files, chain
  <2>5. CASE StartFork(c)
    BY <2>5 DEF StartFork, files
  <2>6. CASE PublishRole(c)
    BY <2>6 DEF PublishRole, IsOwner, SlotValues, LiveSlot, files, chain
  <2>7. CASE OpenGate(c)
    BY <2>7 DEF OpenGate, files, chain
  <2>8. CASE ReapCustodian(c)
    <3>1. slot' \in SlotValues
      BY <2>8 DEF ReapCustodian, RetiredSlot, SlotValues, EmptySlot, UnknownSlot, LiveSlot,
                  CertifiedSlot
    <3>2. QED BY <2>8, <3>1 DEF ReapCustodian, files
  <2>9. CASE ReapTransferWorker(c)
    BY <2>9 DEF ReapTransferWorker, files
  <2>10. CASE IntegrateRead(c)
    BY <2>10 DEF IntegrateRead, SettledAs, files, chain
  <2>11. CASE IntegrateWrite(c)
    BY <2>11 DEF IntegrateWrite, SettledAs, files, chain
  <2>12. QED BY <1>1, <2>1, <2>2, <2>3, <2>4, <2>5, <2>6, <2>7, <2>8, <2>9, <2>10, <2>11
             DEF ClaimantStep
<1>2. ASSUME NEW c \in Claimants, CustodianStep(c) PROVE TypeOK'
  <2> USE DEF CustodianStates, WorkerStates
  <2>0. DrainedSlot(c) \in SlotValues
    <3>1. ASSUME slot = LiveSlot(c) PROVE c \in Owners
      <4>1. PICK d \in Owners : LiveSlot(c) = LiveSlot(d)
        BY <3>1 DEF SlotValues, EmptySlot, UnknownSlot, LiveSlot, CertifiedSlot
      <4>2. QED BY <4>1 DEF LiveSlot
    <3>2. QED BY <3>1 DEF DrainedSlot, SlotValues
  <2>1. CASE CustodianRefuses(c)
    BY <2>0, <2>1 DEF CustodianRefuses, files
  <2>2. CASE CustodianForksWorker(c)
    BY <2>2 DEF CustodianForksWorker, files
  <2>3. CASE CustodianReapsWorker(c)
    BY <2>3 DEF CustodianReapsWorker, files
  <2>4. CASE CustodianDrains(c)
    BY <2>0, <2>4 DEF CustodianDrains, files
  <2>5. QED BY <1>2, <2>1, <2>2, <2>3, <2>4 DEF CustodianStep
<1>3. ASSUME NEW c \in Claimants, WorkerStep(c) PROVE TypeOK'
  <2> USE DEF WorkerMoves, WorkerStates, HelperResults
  <2>1. CASE WorkerPassesGate(c)
    BY <2>1 DEF WorkerPassesGate
  <2>2. CASE WorkerRefuses(c)
    BY <2>2 DEF WorkerRefuses
  <2>3. CASE WorkerRequestFails(c)
    BY <2>3 DEF WorkerRequestFails, HelperErrorMeta
  <2>4. CASE WorkerClaims(c)
    BY <2>4 DEF WorkerClaims
  <2>5. CASE WorkerBeginsCustody(c)
    BY <2>5 DEF WorkerBeginsCustody, IsOwner, Claimants
  <2>6. CASE WorkerSpawnFails(c)
    BY <2>6 DEF WorkerSpawnFails, EndsExternalCustody
  <2>7. CASE WorkerSpawns(c)
    <3>1. invocations' \in Nat
      BY <2>7 DEF WorkerSpawns
    <3>2. QED BY <2>7, <3>1 DEF WorkerSpawns
  <2>8. CASE WorkerWaits(c)
    BY <2>8 DEF WorkerWaits, EndsExternalCustody
  <2>9. CASE WorkerWaitFails(c)
    BY <2>9 DEF WorkerWaitFails
  <2>10. CASE WorkerRecords(c)
    BY <2>10 DEF WorkerRecords
  <2>11. CASE WorkerExits(c)
    BY <2>11 DEF WorkerExits
  <2>12. CASE ReapOrphanWorker(c)
    BY <2>12 DEF ReapOrphanWorker
  <2>13. CASE ContinuationRequestFails(c)
    BY <2>13 DEF ContinuationRequestFails, WorkerMoves
  <2>14. QED BY <1>3, <2>1, <2>2, <2>3, <2>4, <2>5, <2>6, <2>7, <2>8, <2>9, <2>10, <2>11,
                <2>12, <2>13
             DEF WorkerStep
<1>4. ASSUME NEW c \in Claimants, HelperExits(c) PROVE TypeOK'
  BY <1>4 DEF HelperExits, files
<1>5. ASSUME NEW c \in Claimants, Kill(c) PROVE TypeOK'
  <2> USE DEF ClaimStates, CustodianStates, WorkerStates
  <2>1. CASE KillClaimant(c)
    BY <2>1 DEF KillClaimant, files, chain
  <2>2. CASE KillCustodian(c)
    BY <2>2 DEF KillCustodian, files
  <2>3. CASE WorkerFails(c)
    BY <2>3 DEF WorkerFails, WorkerMoves
  <2>4. QED BY <1>5, <2>1, <2>2, <2>3 DEF Kill
<1>6. CASE GuardianTakesOver
  BY <1>6 DEF GuardianTakesOver, ClaimStates, files, chain
<1>7. CASE SupervisorExits
  BY <1>7 DEF SupervisorExits, ClaimStates, files, chain
<1>8. CASE GuardianTreeDrained
  BY <1>8 DEF GuardianTreeDrained, SlotValues, EmptySlot, files, chain
<1>9. CASE PublishSource
  BY <1>9 DEF PublishSource, chain
<1>10. CASE UNCHANGED vars
  BY <1>10 DEF vars, files, chain
<1>11. QED BY <1>1, <1>2, <1>3, <1>4, <1>5, <1>6, <1>7, <1>8, <1>9, <1>10 DEF Next

-----------------------------------------------------------------------------
(* At-most-once admission *)

\* Nothing is admitted initially.
LEMMA AdmissionInit == Init => AdmissionInv
<1> SUFFICES ASSUME Init PROVE AdmissionInv
  OBVIOUS
<1>1. \A c \in Claimants : ~Holding(c)
  BY DEF Init, Holding, ClaimantHolds, CustodianAlive, WorkerAlive
<1>2. ChainShape
  BY DEF Init, ChainShape, ShapeOf, CustodianAlive, WorkerAlive
<1>3. RecordTracksWorker
  BY DEF Init, RecordTracksWorker, RecordOf
<1>4. AdmissionCloses
  BY DEF Init, AdmissionCloses
<1>5. QED BY <1>1, <1>2, <1>3, <1>4 DEF AdmissionInv, OneChain

\* Only a process that takes the free lock, and the children forked while it is
\* held, ever hold the lock's file description.
LEMMA HoldingStep ==
    ASSUME TypeOK, [Next]_vars,
           ~ \E c \in Claimants : AcquireLock(c)
    PROVE  \A d \in Claimants : Holding(d)' => Holding(d)
<1> SUFFICES ASSUME NEW d \in Claimants, Holding(d)' PROVE Holding(d)
  OBVIOUS
<1>0. /\ claim \in [Claimants -> ClaimStates]
      /\ custodian \in [Claimants -> CustodianStates]
      /\ worker \in [Claimants -> WorkerStates]
  BY DEF TypeOK
<1> USE <1>0 DEF Holding, ClaimantHolds, CustodianAlive, WorkerAlive
<1>1. ASSUME NEW c \in Claimants, ClaimantStep(c) PROVE Holding(d)
  <2>1. CASE AcquireLock(c)
    BY <2>1
  <2>2. CASE StartBusy(c)
    BY <2>2 DEF StartBusy, chain
  <2>3. CASE StartSettled(c)
    BY <2>3 DEF StartSettled, chain, SettledAs
  <2>4. CASE StartForkFails(c)
    BY <2>4 DEF StartForkFails, chain
  <2>5. CASE StartFork(c)
    BY <2>5 DEF StartFork, IsOwner
  <2>6. CASE PublishRole(c)
    BY <2>6 DEF PublishRole, chain, IsOwner
  <2>7. CASE OpenGate(c)
    BY <2>7 DEF OpenGate, chain, IsOwner
  <2>8. CASE ReapCustodian(c)
    BY <2>8 DEF ReapCustodian
  <2>9. CASE ReapTransferWorker(c)
    BY <2>9 DEF ReapTransferWorker
  <2>10. CASE IntegrateRead(c)
    BY <2>10 DEF IntegrateRead, chain, SettledAs
  <2>11. CASE IntegrateWrite(c)
    BY <2>11 DEF IntegrateWrite, chain, SettledAs
  <2>12. QED BY <1>1, <2>1, <2>2, <2>3, <2>4, <2>5, <2>6, <2>7, <2>8, <2>9, <2>10,
  <2>11 DEF ClaimantStep
<1>2. ASSUME NEW c \in Claimants, CustodianStep(c) PROVE Holding(d)
  <2>1. CASE CustodianRefuses(c)
    BY <2>1 DEF CustodianRefuses
  <2>2. CASE CustodianForksWorker(c)
    BY <2>2 DEF CustodianForksWorker
  <2>3. CASE CustodianReapsWorker(c)
    BY <2>3 DEF CustodianReapsWorker
  <2>4. CASE CustodianDrains(c)
    BY <2>4 DEF CustodianDrains
  <2>5. QED BY <1>2, <2>1, <2>2, <2>3, <2>4 DEF CustodianStep
<1>3. ASSUME NEW c \in Claimants, WorkerStep(c) PROVE Holding(d)
  <2>1. CASE WorkerPassesGate(c)
    BY <2>1 DEF WorkerPassesGate, WorkerMoves
  <2>2. CASE WorkerRefuses(c)
    BY <2>2 DEF WorkerRefuses, WorkerMoves
  <2>3. CASE WorkerRequestFails(c)
    BY <2>3 DEF WorkerRequestFails, WorkerMoves
  <2>4. CASE ContinuationRequestFails(c)
    BY <2>4 DEF ContinuationRequestFails, WorkerMoves
  <2>5. CASE WorkerClaims(c)
    BY <2>5 DEF WorkerClaims, WorkerMoves
  <2>6. CASE WorkerBeginsCustody(c)
    BY <2>6 DEF WorkerBeginsCustody, WorkerMoves
  <2>7. CASE WorkerSpawnFails(c)
    BY <2>7 DEF WorkerSpawnFails, WorkerMoves, ReadyToSpawn, IsOwner
  <2>8. CASE WorkerSpawns(c)
    BY <2>8 DEF WorkerSpawns, WorkerMoves, ReadyToSpawn, IsOwner
  <2>9. CASE WorkerWaits(c)
    BY <2>9 DEF WorkerWaits, WorkerMoves
  <2>10. CASE WorkerWaitFails(c)
    BY <2>10 DEF WorkerWaitFails, WorkerMoves
  <2>11. CASE WorkerRecords(c)
    BY <2>11 DEF WorkerRecords, WorkerMoves
  <2>12. CASE WorkerExits(c)
    BY <2>12 DEF WorkerExits, WorkerMoves
  <2>13. CASE ReapOrphanWorker(c)
    BY <2>13 DEF ReapOrphanWorker, WorkerMoves
  <2>14. QED BY <1>3, <2>1, <2>2, <2>3, <2>4, <2>5, <2>6, <2>7, <2>8, <2>9, <2>10, <2>11,
  <2>12, <2>13 DEF WorkerStep
<1>4. ASSUME NEW c \in Claimants, Kill(c) PROVE Holding(d)
  <2>1. CASE KillClaimant(c)
    BY <2>1 DEF KillClaimant, chain
  <2>2. CASE KillCustodian(c)
    BY <2>2 DEF KillCustodian
  <2>3. CASE WorkerFails(c)
    BY <2>3 DEF WorkerFails, WorkerMoves
  <2>4. QED BY <1>4, <2>1, <2>2, <2>3 DEF Kill
<1>5. ASSUME NEW c \in Claimants, HelperExits(c) PROVE Holding(d)
  BY <1>5 DEF HelperExits
<1>6. CASE GuardianTakesOver
  BY <1>6 DEF GuardianTakesOver, chain
<1>7. CASE SupervisorExits
  BY <1>7 DEF SupervisorExits, chain
<1>8. CASE GuardianTreeDrained \/ PublishSource
  BY <1>8 DEF GuardianTreeDrained, PublishSource, chain
<1>9. CASE UNCHANGED vars
  BY <1>9 DEF vars, chain
<1>10. QED BY <1>1, <1>2, <1>3, <1>4, <1>5, <1>6, <1>7, <1>8, <1>9 DEF Next

\* delivery.lock serves one attempt at a time.
LEMMA OneChainStep ==
    ASSUME TypeOK, OneChain, [Next]_vars
    PROVE  OneChain'
<1>1. CASE \E c \in Claimants : AcquireLock(c)
  <2>1. PICK c \in Claimants : AcquireLock(c)
    BY <1>1
  <2>2. \A d \in Claimants : ~Holding(d)
    BY <2>1 DEF AcquireLock, LockFree
  <2>3. \A d \in Claimants : d # c => ~Holding(d)'
    BY <2>1, <2>2 DEF AcquireLock, chain, TypeOK, Holding, ClaimantHolds, CustodianAlive,
       WorkerAlive
  <2>4. QED BY <2>3 DEF OneChain
<1>2. CASE ~ \E c \in Claimants : AcquireLock(c)
  BY <1>2, HoldingStep DEF OneChain
<1>3. QED BY <1>1, <1>2

\* The processes of an attempt stay nested while custodians survive.
LEMMA ChainShapeStep ==
    ASSUME "custodian" \notin Killable,
           TypeOK, ChainShape, [Next]_vars
    PROVE  ChainShape'
<1> SUFFICES ASSUME NEW d \in Claimants PROVE ShapeOf(d)'
  BY DEF ChainShape
<1>0. /\ claim \in [Claimants -> ClaimStates]
      /\ custodian \in [Claimants -> CustodianStates]
      /\ worker \in [Claimants -> WorkerStates]
      /\ ShapeOf(d)
  BY DEF TypeOK, ChainShape
<1> USE <1>0, CallersAssumption DEF ShapeOf, CustodianAlive, WorkerAlive, IsOwner, Claimants
<1>1. ASSUME NEW c \in Claimants, ClaimantStep(c) PROVE ShapeOf(d)'
  <2>1. CASE AcquireLock(c)
    BY <2>1 DEF AcquireLock, chain
  <2>2. CASE StartBusy(c)
    BY <2>2 DEF StartBusy, chain
  <2>3. CASE StartSettled(c)
    BY <2>3 DEF StartSettled, chain, SettledAs
  <2>4. CASE StartForkFails(c)
    BY <2>4 DEF StartForkFails, chain
  <2>5. CASE StartFork(c)
    BY <2>5 DEF StartFork, IsOwner
  <2>6. CASE PublishRole(c)
    BY <2>6 DEF PublishRole, chain, IsOwner
  <2>7. CASE OpenGate(c)
    BY <2>7 DEF OpenGate, chain, IsOwner
  <2>8. CASE ReapCustodian(c)
    BY <2>8 DEF ReapCustodian
  <2>9. CASE ReapTransferWorker(c)
    BY <2>9 DEF ReapTransferWorker
  <2>10. CASE IntegrateRead(c)
    BY <2>10 DEF IntegrateRead, chain, SettledAs
  <2>11. CASE IntegrateWrite(c)
    BY <2>11 DEF IntegrateWrite, chain, SettledAs
  <2>12. QED BY <1>1, <2>1, <2>2, <2>3, <2>4, <2>5, <2>6, <2>7, <2>8, <2>9, <2>10,
  <2>11 DEF ClaimantStep
<1>2. ASSUME NEW c \in Claimants, CustodianStep(c) PROVE ShapeOf(d)'
  <2>1. CASE CustodianRefuses(c)
    BY <2>1 DEF CustodianRefuses
  <2>2. CASE CustodianForksWorker(c)
    BY <2>2 DEF CustodianForksWorker
  <2>3. CASE CustodianReapsWorker(c)
    BY <2>3 DEF CustodianReapsWorker
  <2>4. CASE CustodianDrains(c)
    BY <2>4 DEF CustodianDrains
  <2>5. QED BY <1>2, <2>1, <2>2, <2>3, <2>4 DEF CustodianStep
<1>3. ASSUME NEW c \in Claimants, WorkerStep(c) PROVE ShapeOf(d)'
  <2>1. CASE WorkerPassesGate(c)
    BY <2>1 DEF WorkerPassesGate, WorkerMoves
  <2>2. CASE WorkerRefuses(c)
    BY <2>2 DEF WorkerRefuses, WorkerMoves
  <2>3. CASE WorkerRequestFails(c)
    BY <2>3 DEF WorkerRequestFails, WorkerMoves
  <2>4. CASE ContinuationRequestFails(c)
    BY <2>4 DEF ContinuationRequestFails, WorkerMoves
  <2>5. CASE WorkerClaims(c)
    BY <2>5 DEF WorkerClaims, WorkerMoves
  <2>6. CASE WorkerBeginsCustody(c)
    BY <2>6 DEF WorkerBeginsCustody, WorkerMoves
  <2>7. CASE WorkerSpawnFails(c)
    BY <2>7 DEF WorkerSpawnFails, WorkerMoves, ReadyToSpawn, IsOwner
  <2>8. CASE WorkerSpawns(c)
    BY <2>8 DEF WorkerSpawns, WorkerMoves, ReadyToSpawn, IsOwner
  <2>9. CASE WorkerWaits(c)
    BY <2>9 DEF WorkerWaits, WorkerMoves
  <2>10. CASE WorkerWaitFails(c)
    BY <2>10 DEF WorkerWaitFails, WorkerMoves
  <2>11. CASE WorkerRecords(c)
    BY <2>11 DEF WorkerRecords, WorkerMoves
  <2>12. CASE WorkerExits(c)
    BY <2>12 DEF WorkerExits, WorkerMoves
  <2>13. CASE ReapOrphanWorker(c)
    BY <2>13 DEF ReapOrphanWorker, WorkerMoves
  <2>14. QED BY <1>3, <2>1, <2>2, <2>3, <2>4, <2>5, <2>6, <2>7, <2>8, <2>9, <2>10, <2>11,
  <2>12, <2>13 DEF WorkerStep
<1>4. ASSUME NEW c \in Claimants, Kill(c) PROVE ShapeOf(d)'
  <2>1. CASE KillClaimant(c)
    BY <2>1 DEF KillClaimant, chain
  <2>2. CASE KillCustodian(c)
    BY <2>2 DEF KillCustodian
  <2>3. CASE WorkerFails(c)
    BY <2>3 DEF WorkerFails, WorkerMoves
  <2>4. QED BY <1>4, <2>1, <2>2, <2>3 DEF Kill
<1>5. ASSUME NEW c \in Claimants, HelperExits(c) PROVE ShapeOf(d)'
  BY <1>5 DEF HelperExits
<1>6. CASE GuardianTakesOver
  BY <1>6 DEF GuardianTakesOver, chain
<1>7. CASE SupervisorExits
  BY <1>7 DEF SupervisorExits, chain
<1>8. CASE GuardianTreeDrained \/ PublishSource
  BY <1>8 DEF GuardianTreeDrained, PublishSource, chain
<1>9. CASE UNCHANGED vars
  BY <1>9 DEF vars, chain
<1>10. QED BY <1>1, <1>2, <1>3, <1>4, <1>5, <1>6, <1>7, <1>8, <1>9 DEF Next

\* While c's attempt holds the lock the record says nothing about anyone else.
LEMMA OthersIdle ==
    ASSUME OneChain, NEW c \in Claimants, Holding(c), NEW d \in Claimants, d # c,
           claim'[d] = claim[d], custodian'[d] = custodian[d], worker'[d] = worker[d]
    PROVE  RecordOf(d)'
<1>1. ~Holding(d)
  BY DEF OneChain
<1>2. QED BY <1>1 DEF RecordOf, Holding, ClaimantHolds, CustodianAlive, WorkerAlive

\* A step that leaves the record, the count and what was read alone, and moves no
\* process into a state the record speaks of
LEMMA QuietStep ==
    ASSUME RecordTracksWorker, AdmissionCloses,
           UNCHANGED <<delivery, invocations, launch, observed>>,
           \A d \in Claimants :
              /\ claim'[d] = claim[d] \/ claim'[d] # "merging"
              /\ custodian'[d] = custodian[d] \/ custodian'[d] # "gate"
              /\ worker'[d] = worker[d] \/ worker'[d] \in {"leaving", "exited", "reaped"}
    PROVE  (RecordTracksWorker /\ AdmissionCloses)'
<1>1. AdmissionCloses'
  BY DEF AdmissionCloses
<1>2. ASSUME NEW d \in Claimants PROVE RecordOf(d)'
  BY <1>2 DEF RecordTracksWorker, RecordOf
<1>3. QED BY <1>1, <1>2 DEF RecordTracksWorker

\* The record keeps tracking the attempt, and an admitted one closes it.
LEMMA RecordStep ==
    ASSUME "custodian" \notin Killable,
           TypeOK, OneChain, ChainShape, RecordTracksWorker, AdmissionCloses, [Next]_vars
    PROVE  (RecordTracksWorker /\ AdmissionCloses)'
<1>0. /\ claim \in [Claimants -> ClaimStates]
      /\ custodian \in [Claimants -> CustodianStates]
      /\ worker \in [Claimants -> WorkerStates]
      /\ launch \in [Claimants -> HelperResults]
      /\ observed \in [Claimants -> CompletionDeliveryMeta]
      /\ retry_count \in [Claimants -> RetryCounts]
      /\ delivery \in CompletionDeliveryMeta
      /\ \A c \in Claimants : ShapeOf(c) /\ RecordOf(c)
  BY DEF TypeOK, ChainShape, RecordTracksWorker
<1>00. ASSUME NEW c \in Claimants, Holding(c),
              \A d \in Claimants : d # c => /\ claim'[d] = claim[d]
                                            /\ custodian'[d] = custodian[d]
                                            /\ worker'[d] = worker[d],
              RecordOf(c)', AdmissionCloses'
       PROVE  (RecordTracksWorker /\ AdmissionCloses)'
  BY <1>00, OthersIdle DEF RecordTracksWorker
<1>1. ASSUME NEW c \in Claimants, ClaimantStep(c) PROVE (RecordTracksWorker /\ AdmissionCloses)'
  <2>1. CASE AcquireLock(c)
    BY <1>0, <2>1, QuietStep DEF AcquireLock, chain
  <2>2. CASE StartBusy(c)
    BY <1>0, <2>2, QuietStep DEF StartBusy, chain
  <2>3. CASE StartSettled(c)
    <3>1. Holding(c)
      BY <1>0, <2>3 DEF StartSettled, Holding, ClaimantHolds, CustodianAlive, WorkerAlive
    <3>2. \A d \in Claimants : d # c => /\ claim'[d] = claim[d]
                                        /\ custodian'[d] = custodian[d]
                                        /\ worker'[d] = worker[d]
      BY <1>0, <2>3 DEF StartSettled, SettledAs, chain
    <3>3. RecordOf(c)' /\ AdmissionCloses'
      <4>1. ~permits_attempt(delivery')
        BY <1>0, <2>3, MetaFacts, RetryCountType DEF StartSettled
      <4>2. invocations' = invocations /\ custodian'[c] = "none" /\ worker'[c] = "none"
            /\ claim'[c] # "merging"
        BY <1>0, <2>3 DEF StartSettled, SettledAs, ShapeOf, chain
      <4>3. QED BY <4>1, <4>2 DEF RecordOf, AdmissionCloses
    <3>4. QED BY <1>00, <3>1, <3>2, <3>3
  <2>4. CASE StartForkFails(c)
    <3>1. Holding(c)
      BY <1>0, <2>4 DEF StartForkFails, Holding, ClaimantHolds, CustodianAlive, WorkerAlive
    <3>2. \A d \in Claimants : d # c => /\ claim'[d] = claim[d]
                                        /\ custodian'[d] = custodian[d]
                                        /\ worker'[d] = worker[d]
      BY <1>0, <2>4 DEF StartForkFails, chain
    <3>3. RecordOf(c)' /\ AdmissionCloses'
      <4>1. invocations = 0
        BY <2>4 DEF StartForkFails, AdmissionCloses
      <4>2. invocations' = 0 /\ custodian'[c] = "none" /\ worker'[c] = "none"
            /\ claim'[c] # "merging"
        BY <1>0, <2>4, <4>1 DEF StartForkFails, ShapeOf, chain
      <4>3. QED BY <4>2 DEF RecordOf, AdmissionCloses
    <3>4. QED BY <1>00, <3>1, <3>2, <3>3
  <2>5. CASE StartFork(c)
    <3>1. Holding(c)
      BY <1>0, <2>5 DEF StartFork, Holding, ClaimantHolds, CustodianAlive, WorkerAlive
    <3>2. \A d \in Claimants : d # c => /\ claim'[d] = claim[d]
                                        /\ custodian'[d] = custodian[d]
                                        /\ worker'[d] = worker[d]
      BY <1>0, <2>5 DEF StartFork, IsOwner
    <3>3. RecordOf(c)' /\ AdmissionCloses'
      <4>1. permits_attempt(delivery') /\ invocations' = 0
        BY <2>5 DEF StartFork, AdmissionCloses
      <4>2. worker'[c] \in {"none", "gate"} /\ claim'[c] # "merging"
        BY <1>0, <2>5 DEF StartFork, ShapeOf
      <4>3. QED BY <4>1, <4>2 DEF RecordOf, AdmissionCloses
    <3>4. QED BY <1>00, <3>1, <3>2, <3>3
  <2>6. CASE PublishRole(c)
    BY <1>0, <2>6, QuietStep DEF PublishRole, chain
  <2>7. CASE OpenGate(c)
    BY <1>0, <2>7, QuietStep DEF OpenGate, chain
  <2>8. CASE ReapCustodian(c)
    BY <1>0, <2>8, QuietStep DEF ReapCustodian
  <2>9. CASE ReapTransferWorker(c)
    BY <1>0, <2>9, QuietStep DEF ReapTransferWorker
  <2>10. CASE IntegrateRead(c)
    <3>1. Holding(c)
      BY <1>0, <2>10 DEF IntegrateRead, Holding, ClaimantHolds, CustodianAlive, WorkerAlive
    <3>2. \A d \in Claimants : d # c => /\ claim'[d] = claim[d]
                                        /\ custodian'[d] = custodian[d]
                                        /\ worker'[d] = worker[d]
      BY <1>0, <2>10 DEF IntegrateRead, SettledAs, chain
    <3>3. RecordOf(c)' /\ AdmissionCloses'
      <4>1. /\ ~CustodianAlive(c) /\ ~WorkerAlive(c)
            /\ custodian'[c] = custodian[c] /\ worker'[c] = worker[c]
            /\ observed'[c] = delivery' /\ UNCHANGED <<delivery, invocations>>
            /\ claim'[c] = "merging" => needs_progress(delivery)
        BY <1>0, <2>10 DEF IntegrateRead, ShapeOf, SettledAs, chain
      <4>2. QED BY <4>1 DEF RecordOf, AdmissionCloses, CustodianAlive, WorkerAlive
    <3>4. QED BY <1>00, <3>1, <3>2, <3>3
  <2>11. CASE IntegrateWrite(c)
    <3>1. Holding(c)
      BY <1>0, <2>11 DEF IntegrateWrite, Holding, ClaimantHolds, CustodianAlive, WorkerAlive
    <3>2. \A d \in Claimants : d # c => /\ claim'[d] = claim[d]
                                        /\ custodian'[d] = custodian[d]
                                        /\ worker'[d] = worker[d]
      BY <1>0, <2>11 DEF IntegrateWrite, SettledAs, chain
    <3>3. RecordOf(c)' /\ AdmissionCloses'
      <4>1. /\ ~CustodianAlive(c) /\ ~WorkerAlive(c)
            /\ custodian'[c] = custodian[c] /\ worker'[c] = worker[c]
            /\ claim'[c] # "merging" /\ invocations' = invocations
        BY <1>0, <2>11 DEF IntegrateWrite, ShapeOf, SettledAs, chain
      <4>2. invocations = 1 => ~permits_attempt(delivery')
        <5>1. observed[c] = delivery
          BY <1>0, <2>11 DEF IntegrateWrite, RecordOf
        <5>2. QED BY <1>0, <2>11, <5>1, LostTransferType DEF IntegrateWrite, AdmissionCloses
      <4>3. QED BY <4>1, <4>2 DEF RecordOf, AdmissionCloses, CustodianAlive, WorkerAlive
    <3>4. QED BY <1>00, <3>1, <3>2, <3>3
  <2>12. QED BY <1>1, <2>1, <2>2, <2>3, <2>4, <2>5, <2>6, <2>7, <2>8, <2>9, <2>10, <2>11
             DEF ClaimantStep
<1>2. ASSUME NEW c \in Claimants, CustodianStep(c)
      PROVE  (RecordTracksWorker /\ AdmissionCloses)'
  <2>1. CASE CustodianRefuses(c)
    BY <1>0, <2>1, QuietStep DEF CustodianRefuses
  <2>2. CASE CustodianForksWorker(c)
    <3>1. Holding(c)
      BY <1>0, <2>2 DEF CustodianForksWorker, Holding, ClaimantHolds, CustodianAlive,
                        WorkerAlive
    <3>2. \A d \in Claimants : d # c => /\ claim'[d] = claim[d]
                                        /\ custodian'[d] = custodian[d]
                                        /\ worker'[d] = worker[d]
      BY <1>0, <2>2 DEF CustodianForksWorker
    <3>3. RecordOf(c)' /\ AdmissionCloses'
      <4>1. /\ worker'[c] = "request" /\ custodian[c] = "gate" /\ claim'[c] = claim[c]
            /\ UNCHANGED <<delivery, invocations, observed>>
        BY <1>0, <2>2 DEF CustodianForksWorker
      <4>2. QED BY <1>0, <4>1 DEF RecordOf, AdmissionCloses
    <3>4. QED BY <1>00, <3>1, <3>2, <3>3
  <2>3. CASE CustodianReapsWorker(c)
    <3>1. Holding(c)
      BY <1>0, <2>3 DEF CustodianReapsWorker, Holding, ClaimantHolds, CustodianAlive,
                        WorkerAlive
    <3>2. \A d \in Claimants : d # c => /\ claim'[d] = claim[d]
                                        /\ custodian'[d] = custodian[d]
                                        /\ worker'[d] = worker[d]
      BY <1>0, <2>3 DEF CustodianReapsWorker
    <3>3. RecordOf(c)' /\ AdmissionCloses'
      <4>1. /\ worker'[c] = "reaped" /\ custodian'[c] = "integrated"
            /\ claim'[c] # "merging" /\ invocations' = invocations
        BY <1>0, <2>3 DEF CustodianReapsWorker, ShapeOf, CustodianAlive
      <4>2. invocations = 1 => ~permits_attempt(delivery')
        BY <1>0, <2>3, LostTransferType DEF CustodianReapsWorker, AdmissionCloses
      <4>3. QED BY <4>1, <4>2 DEF RecordOf, AdmissionCloses
    <3>4. QED BY <1>00, <3>1, <3>2, <3>3
  <2>4. CASE CustodianDrains(c)
    BY <1>0, <2>4, QuietStep DEF CustodianDrains
  <2>5. QED BY <1>2, <2>1, <2>2, <2>3, <2>4 DEF CustodianStep
<1>3. ASSUME NEW c \in Claimants, WorkerStep(c) PROVE (RecordTracksWorker /\ AdmissionCloses)'
  <2>0. worker[c] \notin {"none", "exited", "reaped"} =>
           custodian[c] # "gate" /\ claim[c] # "merging"
    BY <1>0, CallersAssumption DEF ShapeOf, WorkerAlive, WorkerStates, Claimants
  <2>1. CASE WorkerPassesGate(c)
    <3>1. Holding(c)
      BY <1>0, <2>1 DEF WorkerPassesGate, Holding, ClaimantHolds, CustodianAlive, WorkerAlive
    <3>2. \A d \in Claimants : d # c => /\ claim'[d] = claim[d]
                                        /\ custodian'[d] = custodian[d]
                                        /\ worker'[d] = worker[d]
      BY <1>0, <2>1 DEF WorkerPassesGate, WorkerMoves
    <3>3. RecordOf(c)' /\ AdmissionCloses'
      BY <1>0, <2>0, <2>1 DEF WorkerPassesGate, WorkerMoves, RecordOf, AdmissionCloses
    <3>4. QED BY <1>00, <3>1, <3>2, <3>3
  <2>2. CASE WorkerRefuses(c)
    BY <1>0, <2>2, QuietStep DEF WorkerRefuses, WorkerMoves
  <2>3. CASE WorkerRequestFails(c)
    <3>1. Holding(c)
      BY <1>0, <2>3 DEF WorkerRequestFails, Holding, ClaimantHolds, CustodianAlive, WorkerAlive
    <3>2. \A d \in Claimants : d # c => /\ claim'[d] = claim[d]
                                        /\ custodian'[d] = custodian[d]
                                        /\ worker'[d] = worker[d]
      BY <1>0, <2>3 DEF WorkerRequestFails, WorkerMoves
    <3>3. RecordOf(c)' /\ AdmissionCloses'
      <4>1. invocations' = 0
        BY <1>0, <2>3 DEF WorkerRequestFails, RecordOf
      <4>2. worker'[c] = "leaving" /\ custodian'[c] # "gate" /\ claim'[c] # "merging"
        BY <1>0, <2>0, <2>3 DEF WorkerRequestFails, WorkerMoves
      <4>3. QED BY <4>1, <4>2 DEF RecordOf, AdmissionCloses
    <3>4. QED BY <1>00, <3>1, <3>2, <3>3
  <2>4. CASE ContinuationRequestFails(c)
    BY <1>0, <2>4, QuietStep DEF ContinuationRequestFails, WorkerMoves
  <2>5. CASE WorkerClaims(c)
    <3>1. Holding(c)
      BY <1>0, <2>5 DEF WorkerClaims, Holding, ClaimantHolds, CustodianAlive, WorkerAlive
    <3>2. \A d \in Claimants : d # c => /\ claim'[d] = claim[d]
                                        /\ custodian'[d] = custodian[d]
                                        /\ worker'[d] = worker[d]
      BY <1>0, <2>5 DEF WorkerClaims, WorkerMoves
    <3>3. RecordOf(c)' /\ AdmissionCloses'
      <4>1. invocations' = 0 /\ delivery' = ProvisionalMeta
        BY <1>0, <2>5 DEF WorkerClaims, RecordOf
      <4>2. worker'[c] = "provisional" /\ custodian'[c] # "gate" /\ claim'[c] # "merging"
        BY <1>0, <2>0, <2>5 DEF WorkerClaims, WorkerMoves
      <4>3. QED BY <4>1, <4>2 DEF RecordOf, AdmissionCloses
    <3>4. QED BY <1>00, <3>1, <3>2, <3>3
  <2>6. CASE WorkerBeginsCustody(c)
    <3>1. Holding(c)
      BY <1>0, <2>6 DEF WorkerBeginsCustody, Holding, ClaimantHolds, CustodianAlive, WorkerAlive
    <3>2. \A d \in Claimants : d # c => /\ claim'[d] = claim[d]
                                        /\ custodian'[d] = custodian[d]
                                        /\ worker'[d] = worker[d]
      BY <1>0, <2>6 DEF WorkerBeginsCustody, WorkerMoves
    <3>3. RecordOf(c)' /\ AdmissionCloses'
      <4>1. invocations' = 0 /\ delivery' = ProvisionalMeta
        BY <1>0, <2>6 DEF WorkerBeginsCustody, RecordOf
      <4>2. worker'[c] = "custody" /\ custodian'[c] # "gate" /\ claim'[c] # "merging"
        BY <1>0, <2>0, <2>6 DEF WorkerBeginsCustody, WorkerMoves
      <4>3. QED BY <4>1, <4>2 DEF RecordOf, AdmissionCloses
    <3>4. QED BY <1>00, <3>1, <3>2, <3>3
  <2>7. CASE WorkerSpawnFails(c)
    <3>1. Holding(c)
      BY <1>0, <2>7 DEF WorkerSpawnFails, ReadyToSpawn, IsOwner, Holding, ClaimantHolds,
                        CustodianAlive, WorkerAlive
    <3>2. \A d \in Claimants : d # c => /\ claim'[d] = claim[d]
                                        /\ custodian'[d] = custodian[d]
                                        /\ worker'[d] = worker[d]
      BY <1>0, <2>7 DEF WorkerSpawnFails, WorkerMoves
    <3>3. RecordOf(c)' /\ AdmissionCloses'
      <4>1. worker[c] \in {"provisional", "custody"}
        BY <2>7 DEF WorkerSpawnFails, ReadyToSpawn, IsOwner
      <4>2. invocations' = 0 /\ delivery' = ProvisionalMeta
        BY <1>0, <2>7, <4>1 DEF WorkerSpawnFails, RecordOf
      <4>3. worker'[c] = "record" /\ custodian'[c] # "gate" /\ claim'[c] # "merging"
        BY <1>0, <2>0, <2>7, <4>1 DEF WorkerSpawnFails, WorkerMoves
      <4>4. QED BY <4>2, <4>3 DEF RecordOf, AdmissionCloses
    <3>4. QED BY <1>00, <3>1, <3>2, <3>3
  <2>8. CASE WorkerSpawns(c)
    <3>1. Holding(c)
      BY <1>0, <2>8 DEF WorkerSpawns, ReadyToSpawn, IsOwner, Holding, ClaimantHolds,
                        CustodianAlive, WorkerAlive
    <3>2. \A d \in Claimants : d # c => /\ claim'[d] = claim[d]
                                        /\ custodian'[d] = custodian[d]
                                        /\ worker'[d] = worker[d]
      BY <1>0, <2>8 DEF WorkerSpawns, WorkerMoves
    <3>3. RecordOf(c)' /\ AdmissionCloses'
      <4>1. worker[c] \in {"provisional", "custody"}
        BY <2>8 DEF WorkerSpawns, ReadyToSpawn, IsOwner
      <4>2. invocations = 0 /\ delivery' = ProvisionalMeta
        BY <1>0, <2>8, <4>1 DEF WorkerSpawns, RecordOf
      <4>3. invocations' = 1
        BY <2>8, <4>2 DEF WorkerSpawns
      <4>4. worker'[c] = "waiting" /\ custodian'[c] # "gate" /\ claim'[c] # "merging"
        BY <1>0, <2>0, <2>8, <4>1 DEF WorkerSpawns, WorkerMoves
      <4>5. QED BY <4>2, <4>3, <4>4, MetaFacts DEF RecordOf, AdmissionCloses
    <3>4. QED BY <1>00, <3>1, <3>2, <3>3
  <2>9. CASE WorkerWaits(c)
    <3>1. Holding(c)
      BY <1>0, <2>9 DEF WorkerWaits, Holding, ClaimantHolds, CustodianAlive, WorkerAlive
    <3>2. \A d \in Claimants : d # c => /\ claim'[d] = claim[d]
                                        /\ custodian'[d] = custodian[d]
                                        /\ worker'[d] = worker[d]
      BY <1>0, <2>9 DEF WorkerWaits, WorkerMoves
    <3>3. RecordOf(c)' /\ AdmissionCloses'
      <4>1. UNCHANGED <<delivery, invocations>> /\ delivery = ProvisionalMeta
        BY <1>0, <2>9 DEF WorkerWaits, RecordOf
      <4>2. /\ worker'[c] = "record" /\ launch'[c] # "not_started"
            /\ custodian'[c] # "gate" /\ claim'[c] # "merging"
        BY <1>0, <2>0, <2>9 DEF WorkerWaits, WorkerMoves
      <4>3. QED BY <4>1, <4>2 DEF RecordOf, AdmissionCloses
    <3>4. QED BY <1>00, <3>1, <3>2, <3>3
  <2>10. CASE WorkerWaitFails(c)
    <3>1. Holding(c)
      BY <1>0, <2>10 DEF WorkerWaitFails, Holding, ClaimantHolds, CustodianAlive, WorkerAlive
    <3>2. \A d \in Claimants : d # c => /\ claim'[d] = claim[d]
                                        /\ custodian'[d] = custodian[d]
                                        /\ worker'[d] = worker[d]
      BY <1>0, <2>10 DEF WorkerWaitFails, WorkerMoves
    <3>3. RecordOf(c)' /\ AdmissionCloses'
      <4>1. UNCHANGED <<delivery, invocations>> /\ delivery = ProvisionalMeta
        BY <1>0, <2>10 DEF WorkerWaitFails, RecordOf
      <4>2. /\ worker'[c] = "record" /\ launch'[c] # "not_started"
            /\ custodian'[c] # "gate" /\ claim'[c] # "merging"
        BY <1>0, <2>0, <2>10 DEF WorkerWaitFails, WorkerMoves
      <4>3. QED BY <4>1, <4>2 DEF RecordOf, AdmissionCloses
    <3>4. QED BY <1>00, <3>1, <3>2, <3>3
  <2>11. CASE WorkerRecords(c)
    <3>1. Holding(c)
      BY <1>0, <2>11 DEF WorkerRecords, Holding, ClaimantHolds, CustodianAlive, WorkerAlive
    <3>2. \A d \in Claimants : d # c => /\ claim'[d] = claim[d]
                                        /\ custodian'[d] = custodian[d]
                                        /\ worker'[d] = worker[d]
      BY <1>0, <2>11 DEF WorkerRecords, WorkerMoves
    <3>3. RecordOf(c)' /\ AdmissionCloses'
      <4>1. worker'[c] = "leaving" /\ custodian'[c] # "gate" /\ claim'[c] # "merging"
        BY <1>0, <2>0, <2>11 DEF WorkerRecords, WorkerMoves
      <4>2. CASE launch[c] = "not_started"
        <5>1. invocations' = 0
          BY <1>0, <2>11, <4>2 DEF WorkerRecords, RecordOf
        <5>2. QED BY <4>1, <5>1 DEF RecordOf, AdmissionCloses
      <4>3. CASE launch[c] # "not_started"
        <5>1. delivery' = AdmittedMeta /\ invocations' = invocations
          BY <2>11, <4>3 DEF WorkerRecords
        <5>2. QED BY <4>1, <5>1, MetaFacts DEF RecordOf, AdmissionCloses
      <4>4. QED BY <4>2, <4>3
    <3>4. QED BY <1>00, <3>1, <3>2, <3>3
  <2>12. CASE WorkerExits(c)
    BY <1>0, <2>12, QuietStep DEF WorkerExits, WorkerMoves
  <2>13. CASE ReapOrphanWorker(c)
    BY <1>0, <2>13, QuietStep DEF ReapOrphanWorker, WorkerMoves
  <2>14. QED BY <1>3, <2>1, <2>2, <2>3, <2>4, <2>5, <2>6, <2>7, <2>8, <2>9, <2>10, <2>11,
                <2>12, <2>13
             DEF WorkerStep
<1>4. ASSUME NEW c \in Claimants, Kill(c) PROVE (RecordTracksWorker /\ AdmissionCloses)'
  <2>1. CASE KillClaimant(c)
    BY <1>0, <2>1, QuietStep DEF KillClaimant, chain
  <2>2. CASE KillCustodian(c)
    BY <1>0, <2>2, QuietStep DEF KillCustodian
  <2>3. CASE WorkerFails(c)
    BY <1>0, <2>3, QuietStep DEF WorkerFails, WorkerMoves
  <2>4. QED BY <1>4, <2>1, <2>2, <2>3 DEF Kill
<1>5. ASSUME NEW c \in Claimants, HelperExits(c)
      PROVE  (RecordTracksWorker /\ AdmissionCloses)'
  BY <1>5, QuietStep DEF HelperExits
<1>6. CASE GuardianTakesOver
  BY <1>0, <1>6, QuietStep DEF GuardianTakesOver, chain
<1>7. CASE SupervisorExits
  BY <1>0, <1>7, QuietStep DEF SupervisorExits, chain
<1>8. CASE GuardianTreeDrained \/ PublishSource
  BY <1>8, QuietStep DEF GuardianTreeDrained, PublishSource, chain
<1>9. CASE UNCHANGED vars
  BY <1>9, QuietStep DEF vars, chain
<1>10. QED BY <1>1, <1>2, <1>3, <1>4, <1>5, <1>6, <1>7, <1>8, <1>9 DEF Next

\* AdmissionInv is inductive together with the types.
LEMMA AdmissionStep ==
    ASSUME "custodian" \notin Killable
    PROVE  TypeOK /\ AdmissionInv /\ [Next]_vars => (TypeOK /\ AdmissionInv)'
  BY TypeStep, OneChainStep, ChainShapeStep, RecordStep DEF AdmissionInv

-----------------------------------------------------------------------------
(* A recorded outcome is final *)

\* Whoever writes the record found it without an outcome: the claimant that holds
\* the lock checked it, the worker's own claim is what it overwrites, and nobody
\* else of the attempt is left when integrate_completion_transfer writes.
LEMMA OnlyOpenRecordsWritten ==
    ASSUME TypeOK, AdmissionInv, [Next]_vars, delivery' # delivery
    PROVE  needs_progress(delivery)
<1>0. /\ \A c \in Claimants : RecordOf(c)
      /\ needs_progress(ProvisionalMeta)
  BY DEF AdmissionInv, RecordTracksWorker, needs_progress, ProvisionalMeta,
         completion_lifecycle
<1>1. ASSUME NEW c \in Claimants, ClaimantStep(c) PROVE needs_progress(delivery)
  <2>1. CASE AcquireLock(c)
    BY <2>1 DEF AcquireLock, files, chain
  <2>2. CASE StartBusy(c)
    BY <2>2 DEF StartBusy, files, chain
  <2>3. CASE StartSettled(c)
    BY <2>3 DEF StartSettled, needs_progress
  <2>4. CASE StartForkFails(c)
    BY <2>4 DEF StartForkFails, needs_progress
  <2>5. CASE StartFork(c)
    BY <2>5 DEF StartFork, IsOwner, files
  <2>6. CASE PublishRole(c)
    BY <2>6 DEF PublishRole, IsOwner, files, chain
  <2>7. CASE OpenGate(c)
    BY <2>7 DEF OpenGate, IsOwner, files, chain
  <2>8. CASE ReapCustodian(c)
    BY <2>8 DEF ReapCustodian, IsOwner, files
  <2>9. CASE ReapTransferWorker(c)
    BY <2>9 DEF ReapTransferWorker, IsOwner, files
  <2>10. CASE IntegrateRead(c)
    BY <2>10 DEF IntegrateRead, SettledAs, files, chain
  <2>11. CASE IntegrateWrite(c)
    BY <1>0, <2>11 DEF IntegrateWrite, RecordOf
  <2>12. QED BY <1>1, <2>1, <2>2, <2>3, <2>4, <2>5, <2>6, <2>7, <2>8, <2>9, <2>10,
  <2>11 DEF ClaimantStep
<1>2. ASSUME NEW c \in Claimants, CustodianStep(c) PROVE needs_progress(delivery)
  <2>1. CASE CustodianRefuses(c)
    BY <2>1 DEF CustodianRefuses, files
  <2>2. CASE CustodianForksWorker(c)
    BY <2>2 DEF CustodianForksWorker, files
  <2>3. CASE CustodianReapsWorker(c)
    BY <2>3 DEF CustodianReapsWorker
  <2>4. CASE CustodianDrains(c)
    BY <2>4 DEF CustodianDrains, files
  <2>5. QED BY <1>2, <2>1, <2>2, <2>3, <2>4 DEF CustodianStep
<1>3. ASSUME NEW c \in Claimants, WorkerStep(c) PROVE needs_progress(delivery)
  <2>1. CASE WorkerPassesGate(c)
    BY <2>1 DEF WorkerPassesGate, WorkerMoves
  <2>2. CASE WorkerRefuses(c)
    BY <2>2 DEF WorkerRefuses, WorkerMoves
  <2>3. CASE WorkerRequestFails(c)
    BY <1>0, <2>3 DEF WorkerRequestFails, RecordOf, needs_progress
  <2>4. CASE ContinuationRequestFails(c)
    BY <2>4 DEF ContinuationRequestFails, WorkerMoves
  <2>5. CASE WorkerClaims(c)
    BY <1>0, <2>5 DEF WorkerClaims, RecordOf, needs_progress
  <2>6. CASE WorkerBeginsCustody(c)
    BY <2>6 DEF WorkerBeginsCustody, IsOwner, WorkerMoves
  <2>7. CASE WorkerSpawnFails(c)
    BY <2>7 DEF WorkerSpawnFails, WorkerMoves, ReadyToSpawn, IsOwner, EndsExternalCustody
  <2>8. CASE WorkerSpawns(c)
    BY <2>8 DEF WorkerSpawns, WorkerMoves, ReadyToSpawn, IsOwner
  <2>9. CASE WorkerWaits(c)
    BY <2>9 DEF WorkerWaits, WorkerMoves, EndsExternalCustody
  <2>10. CASE WorkerWaitFails(c)
    BY <2>10 DEF WorkerWaitFails, WorkerMoves
  <2>11. CASE WorkerRecords(c)
    BY <1>0, <2>11 DEF WorkerRecords, RecordOf
  <2>12. CASE WorkerExits(c)
    BY <2>12 DEF WorkerExits, WorkerMoves
  <2>13. CASE ReapOrphanWorker(c)
    BY <2>13 DEF ReapOrphanWorker, WorkerMoves
  <2>14. QED BY <1>3, <2>1, <2>2, <2>3, <2>4, <2>5, <2>6, <2>7, <2>8, <2>9, <2>10, <2>11,
         <2>12, <2>13 DEF WorkerStep
<1>4. ASSUME NEW c \in Claimants, Kill(c) PROVE needs_progress(delivery)
  <2>1. CASE KillClaimant(c)
    BY <2>1 DEF KillClaimant, files, chain
  <2>2. CASE KillCustodian(c)
    BY <2>2 DEF KillCustodian, files
  <2>3. CASE WorkerFails(c)
    BY <2>3 DEF WorkerFails, WorkerMoves
  <2>4. QED BY <1>4, <2>1, <2>2, <2>3 DEF Kill
<1>5. ASSUME NEW c \in Claimants, HelperExits(c) PROVE needs_progress(delivery)
  BY <1>5 DEF HelperExits
<1>6. CASE GuardianTakesOver
  BY <1>6 DEF GuardianTakesOver, files, chain
<1>7. CASE SupervisorExits
  BY <1>7 DEF SupervisorExits, files, chain
<1>8. CASE GuardianTreeDrained
  BY <1>8 DEF GuardianTreeDrained, files, chain
<1>9. CASE PublishSource
  BY <1>9 DEF PublishSource, chain
<1>10. CASE UNCHANGED vars
  BY <1>10 DEF vars, files, chain
<1>11. QED BY <1>1, <1>2, <1>3, <1>4, <1>5, <1>6, <1>7, <1>8, <1>9, <1>10 DEF Next

-----------------------------------------------------------------------------
(* The custody marker covers a caller's helper *)

\* At most one helper is ever spawned, and a caller's worker spawns only under a
\* marker (begin_external_transfer_custody); OneHelper is what keeps a second
\* attempt from discharging the marker of the first one's helper.
OneHelper ==
    /\ \A c \in Claimants : helper[c] # "none" => invocations # 0
    /\ \A c, d \in Claimants : helper[c] # "none" /\ helper[d] # "none" => c = d

CustodyMarked == \A c \in Callers : worker[c] = "custody" => external # "none"

HelperInv == OneHelper /\ CustodyMarked /\ ExternalHelperCovered

\* Every action keeps one helper, under its marker.
LEMMA HelperStep ==
    ASSUME TypeOK, AdmissionInv, HelperInv, [Next]_vars
    PROVE  HelperInv'
<1>0. /\ worker \in [Claimants -> WorkerStates]
      /\ helper \in [Claimants -> {"none", "running", "exited"}]
      /\ invocations \in Nat
      /\ \A c \in Callers : c # "none" /\ c \in Claimants /\ c \notin Owners
      /\ \A c \in Claimants : worker[c] \in {"provisional", "custody"} => invocations = 0
      /\ \A c, d \in Claimants : WorkerAlive(c) /\ WorkerAlive(d) => c = d
  BY CallersAssumption DEF TypeOK, AdmissionInv, OneChain, Holding, RecordTracksWorker,
                           RecordOf,
     Claimants
<1> USE DEF HelperInv, OneHelper, CustodyMarked, ExternalHelperCovered
<1>1. ASSUME NEW c \in Claimants, ClaimantStep(c) PROVE HelperInv'
  <2>1. CASE AcquireLock(c)
    BY <1>0, <2>1 DEF AcquireLock, files, chain
  <2>2. CASE StartBusy(c)
    BY <1>0, <2>2 DEF StartBusy, files, chain
  <2>3. CASE StartSettled(c)
    BY <1>0, <2>3 DEF StartSettled, files, chain
  <2>4. CASE StartForkFails(c)
    BY <1>0, <2>4 DEF StartForkFails, files, chain
  <2>5. CASE StartFork(c)
    BY <1>0, <2>5 DEF StartFork, IsOwner, files
  <2>6. CASE PublishRole(c)
    BY <1>0, <2>6 DEF PublishRole, IsOwner, files, chain
  <2>7. CASE OpenGate(c)
    BY <1>0, <2>7 DEF OpenGate, IsOwner, files, chain
  <2>8. CASE ReapCustodian(c)
    BY <1>0, <2>8 DEF ReapCustodian, IsOwner, files
  <2>9. CASE ReapTransferWorker(c)
    BY <1>0, <2>9 DEF ReapTransferWorker, IsOwner, files
  <2>10. CASE IntegrateRead(c)
    BY <1>0, <2>10 DEF IntegrateRead, files, chain
  <2>11. CASE IntegrateWrite(c)
    BY <1>0, <2>11 DEF IntegrateWrite, files, chain
  <2>12. QED BY <1>1, <2>1, <2>2, <2>3, <2>4, <2>5, <2>6, <2>7, <2>8, <2>9, <2>10,
  <2>11 DEF ClaimantStep
<1>2. ASSUME NEW c \in Claimants, CustodianStep(c) PROVE HelperInv'
  <2>1. CASE CustodianRefuses(c)
    BY <1>0, <2>1 DEF CustodianRefuses, files
  <2>2. CASE CustodianForksWorker(c)
    BY <1>0, <2>2 DEF CustodianForksWorker, files
  <2>3. CASE CustodianReapsWorker(c)
    BY <1>0, <2>3 DEF CustodianReapsWorker, files
  <2>4. CASE CustodianDrains(c)
    BY <1>0, <2>4 DEF CustodianDrains, files
  <2>5. QED BY <1>2, <2>1, <2>2, <2>3, <2>4 DEF CustodianStep
<1>3. ASSUME NEW c \in Claimants, WorkerStep(c) PROVE HelperInv'
  <2>1. CASE WorkerPassesGate(c)
    BY <1>0, <2>1 DEF WorkerPassesGate, WorkerMoves
  <2>2. CASE WorkerRefuses(c)
    BY <1>0, <2>2 DEF WorkerRefuses, WorkerMoves
  <2>3. CASE WorkerRequestFails(c)
    BY <1>0, <2>3 DEF WorkerRequestFails, WorkerMoves
  <2>4. CASE ContinuationRequestFails(c)
    BY <1>0, <2>4 DEF ContinuationRequestFails, WorkerMoves
  <2>5. CASE WorkerClaims(c)
    BY <1>0, <2>5 DEF WorkerClaims, WorkerMoves
  <2>6. CASE WorkerBeginsCustody(c)
    BY <1>0, <2>6 DEF WorkerBeginsCustody, IsOwner, WorkerMoves, Claimants
  <2>7. CASE WorkerSpawnFails(c)
    BY <1>0, <2>7
       DEF WorkerSpawnFails, WorkerMoves, ReadyToSpawn, IsOwner, EndsExternalCustody,
           WorkerAlive
  <2>8. CASE WorkerSpawns(c)
    BY <1>0, <2>8 DEF WorkerSpawns, WorkerMoves, ReadyToSpawn, IsOwner, WorkerAlive
  <2>9. CASE WorkerWaits(c)
    BY <1>0, <2>9 DEF WorkerWaits, WorkerMoves, EndsExternalCustody, WorkerAlive
  <2>10. CASE WorkerWaitFails(c)
    BY <1>0, <2>10 DEF WorkerWaitFails, WorkerMoves
  <2>11. CASE WorkerRecords(c)
    BY <1>0, <2>11 DEF WorkerRecords, WorkerMoves
  <2>12. CASE WorkerExits(c)
    BY <1>0, <2>12 DEF WorkerExits, WorkerMoves
  <2>13. CASE ReapOrphanWorker(c)
    BY <1>0, <2>13 DEF ReapOrphanWorker, WorkerMoves
  <2>14. QED BY <1>3, <2>1, <2>2, <2>3, <2>4, <2>5, <2>6, <2>7, <2>8, <2>9, <2>10, <2>11,
         <2>12, <2>13 DEF WorkerStep
<1>4. ASSUME NEW c \in Claimants, Kill(c) PROVE HelperInv'
  <2>1. CASE KillClaimant(c)
    BY <1>0, <2>1 DEF KillClaimant, files, chain
  <2>2. CASE KillCustodian(c)
    BY <1>0, <2>2 DEF KillCustodian, files
  <2>3. CASE WorkerFails(c)
    BY <1>0, <2>3 DEF WorkerFails, WorkerMoves
  <2>4. QED BY <1>4, <2>1, <2>2, <2>3 DEF Kill
<1>5. ASSUME NEW c \in Claimants, HelperExits(c) PROVE HelperInv'
  BY <1>0, <1>5 DEF HelperExits, files
<1>6. CASE GuardianTakesOver
  BY <1>0, <1>6 DEF GuardianTakesOver, files, chain
<1>7. CASE SupervisorExits
  BY <1>0, <1>7 DEF SupervisorExits, files, chain
<1>8. CASE GuardianTreeDrained
  BY <1>0, <1>8 DEF GuardianTreeDrained, files, chain
<1>9. CASE PublishSource
  BY <1>0, <1>9 DEF PublishSource, chain
<1>10. CASE UNCHANGED vars
  BY <1>0, <1>10 DEF vars, files, chain
<1>11. QED BY <1>1, <1>2, <1>3, <1>4, <1>5, <1>6, <1>7, <1>8, <1>9, <1>10 DEF Next

-----------------------------------------------------------------------------
(* The protocol implements AtMostOnceDelivery *)

\* Some attempt runs with the retry counted.
Retried == \E c \in Claimants : retry_count[c] > 0

\* A process of c's attempt can still write the record.
Attempting(c) ==
    \/ claim[c] \in {"forked", "published", "waiting", "reaped", "merging"}
    \/ CustodianAlive(c) \/ WorkerAlive(c)

BeforeClaim(c) == worker[c] \in {"gate", "request"} \/ custodian[c] = "gate"

Retryable == completion_lifecycle(delivery) = "RetryablePreAdmissionFailure"

\* How the retry is accounted for.  The first three parts say what the record
\* knows of the retry, the last two what an attempt in progress may assume.
RetryInv ==
    /\ \A c \in Claimants : retry_count[c] \in {0, 1}
    /\ completion_lifecycle(delivery) = "Unclaimed" => ~Retried /\ delivery.retry_count = 0
    /\ Retryable => delivery = LaunchErrorMeta(0)
    /\ \A c \in Claimants : Attempting(c) /\ retry_count[c] = 0 => ~Retried
    /\ \A c \in Claimants : BeforeClaim(c) /\ Retryable => retry_count[c] = 1

\* The class completion_lifecycle gives to each record the protocol writes.
LEMMA ClassOfMeta ==
    /\ completion_lifecycle(UnclaimedMeta) = "Unclaimed"
    /\ completion_lifecycle(LegacySkippedMeta) = "LegacySkipped"
    /\ completion_lifecycle(ProvisionalMeta) = "ProvisionalTransfer"
    /\ completion_lifecycle(AdmittedMeta) = "AdmittedOutcome"
    /\ \A n \in RetryCounts :
          /\ completion_lifecycle(UnknownTransferMeta(n)) = "NonReplayableUnknownTransfer"
          /\ completion_lifecycle(InvalidHelperMeta(n)) = "ClosedPreAdmissionFailure"
          /\ completion_lifecycle(LaunchErrorMeta(n)) =
                IF n = 0 THEN "RetryablePreAdmissionFailure" ELSE "ClosedPreAdmissionFailure"
<1> USE DEF completion_lifecycle, RetryCounts
<1>1. /\ completion_lifecycle(UnclaimedMeta) = "Unclaimed"
      /\ completion_lifecycle(LegacySkippedMeta) = "LegacySkipped"
  BY DEF UnclaimedMeta, LegacySkippedMeta
<1>2. /\ completion_lifecycle(ProvisionalMeta) = "ProvisionalTransfer"
      /\ completion_lifecycle(AdmittedMeta) = "AdmittedOutcome"
  BY DEF ProvisionalMeta, AdmittedMeta
<1>3. ASSUME NEW n \in RetryCounts
      PROVE  completion_lifecycle(UnknownTransferMeta(n)) = "NonReplayableUnknownTransfer"
  BY DEF UnknownTransferMeta
<1>4. ASSUME NEW n \in RetryCounts
      PROVE  completion_lifecycle(InvalidHelperMeta(n)) = "ClosedPreAdmissionFailure"
  BY DEF InvalidHelperMeta
<1>5. ASSUME NEW n \in RetryCounts
      PROVE  completion_lifecycle(LaunchErrorMeta(n)) =
                IF n = 0 THEN "RetryablePreAdmissionFailure" ELSE "ClosedPreAdmissionFailure"
  BY DEF LaunchErrorMeta
<1>6. QED BY <1>1, <1>2, <1>3, <1>4, <1>5

\* A write by c's attempt, which no process waiting for its claim survives, keeps
\* the accounting as long as the record stays classified by what c counted.
LEMMA RetryWrite ==
    ASSUME TypeOK, OneChain, RetryInv, NEW c \in Claimants, Holding(c),
           UNCHANGED retry_count,
           \A d \in Claimants : d # c => /\ claim'[d] = claim[d]
                                         /\ custodian'[d] = custodian[d]
                                         /\ worker'[d] = worker[d],
           Attempting(c)' => Attempting(c),
           ~BeforeClaim(c)',
           completion_lifecycle(delivery') # "Unclaimed",
           Retryable' => delivery' = LaunchErrorMeta(0)
    PROVE  RetryInv'
<1>1. \A d \in Claimants : d # c => ~Holding(d)
  BY DEF OneChain
<1>2. \A d \in Claimants : d # c => ~Attempting(d)' /\ ~BeforeClaim(d)'
  BY <1>1 DEF Holding, ClaimantHolds, Attempting, BeforeClaim, CustodianAlive, WorkerAlive
<1>3. Retried' = Retried
  BY DEF Retried
<1>4. QED BY <1>2, <1>3 DEF RetryInv

\* A step that writes neither the record nor a count, and starts no attempt
LEMMA RetryQuiet ==
    ASSUME RetryInv, UNCHANGED <<delivery, retry_count>>,
           \A d \in Claimants : /\ Attempting(d)' => Attempting(d)
                                /\ BeforeClaim(d)' => BeforeClaim(d)
    PROVE  RetryInv'
<1>1. Retried' = Retried /\ Retryable' = Retryable
  BY DEF Retried, Retryable
<1>2. QED BY <1>1 DEF RetryInv

\* Every action keeps the retry accounted for.
LEMMA RetryStep ==
    ASSUME TypeOK, AdmissionInv, RetryInv, [Next]_vars
    PROVE  RetryInv'
<1>0. /\ claim \in [Claimants -> ClaimStates]
      /\ custodian \in [Claimants -> CustodianStates]
      /\ worker \in [Claimants -> WorkerStates]
      /\ retry_count \in [Claimants -> RetryCounts]
      /\ delivery \in CompletionDeliveryMeta
      /\ \A c \in Claimants : ShapeOf(c) /\ RecordOf(c)
      /\ OneChain
  BY DEF TypeOK, AdmissionInv, ChainShape, RecordTracksWorker
<1>1. ASSUME NEW c \in Claimants, ClaimantStep(c) PROVE RetryInv'
  <2>1. CASE AcquireLock(c)
    BY <1>0, <2>1, RetryQuiet DEF AcquireLock, chain, Attempting, BeforeClaim,
         CustodianAlive, WorkerAlive
  <2>2. CASE StartBusy(c)
    BY <1>0, <2>2, RetryQuiet DEF StartBusy, chain, Attempting, BeforeClaim, CustodianAlive,
         WorkerAlive
  <2>3. CASE StartSettled(c)
    <3>1. /\ Holding(c) /\ UNCHANGED retry_count
          /\ \A d \in Claimants : d # c => /\ claim'[d] = claim[d]
                                           /\ custodian'[d] = custodian[d]
                                           /\ worker'[d] = worker[d]
          /\ Attempting(c)' => Attempting(c)
      BY <1>0, <2>3
         DEF StartSettled, SettledAs, chain, Holding, ClaimantHolds, Attempting,
             CustodianAlive, WorkerAlive
    <3>2. ~BeforeClaim(c)'
      BY <1>0, <2>3, CallersAssumption
         DEF StartSettled, SettledAs, chain, BeforeClaim, ShapeOf, CustodianAlive,
             WorkerAlive, Claimants
    <3>3. /\ completion_lifecycle(delivery') # "Unclaimed"
          /\ Retryable' => delivery' = LaunchErrorMeta(0)
      BY <1>0, <2>3, ClassOfMeta, RetryCountType
         DEF StartSettled, Retryable, permits_attempt
    <3>4. QED BY <1>0, <3>1, <3>2, <3>3, RetryWrite
  <2>4. CASE StartForkFails(c)
    <3>1. /\ Holding(c) /\ UNCHANGED retry_count
          /\ \A d \in Claimants : d # c => /\ claim'[d] = claim[d]
                                           /\ custodian'[d] = custodian[d]
                                           /\ worker'[d] = worker[d]
          /\ Attempting(c)' => Attempting(c)
      BY <1>0, <2>4
         DEF StartForkFails, chain, Holding, ClaimantHolds, Attempting, CustodianAlive,
             WorkerAlive
    <3>2. ~BeforeClaim(c)'
      BY <1>0, <2>4, CallersAssumption
         DEF StartForkFails, chain, BeforeClaim, ShapeOf, CustodianAlive, WorkerAlive, Claimants
    <3>3. /\ completion_lifecycle(delivery') # "Unclaimed"
          /\ Retryable' => delivery' = LaunchErrorMeta(0)
      BY <1>0, <2>4, ClassOfMeta, RetryCountType DEF StartForkFails, Retryable
    <3>4. QED BY <1>0, <3>1, <3>2, <3>3, RetryWrite
  <2>5. CASE StartFork(c)
    <3>1. \A d \in Claimants : d # c => ~Attempting(d)' /\ ~BeforeClaim(d)'
      <4>1. \A d \in Claimants : d # c => ~Holding(d)
        BY <1>0, <2>5 DEF StartFork, OneChain, Holding, ClaimantHolds
      <4>2. QED BY <1>0, <2>5, <4>1
                DEF StartFork, Holding, ClaimantHolds, Attempting, BeforeClaim,
                    CustodianAlive, WorkerAlive
    <3>2. /\ UNCHANGED delivery
          /\ retry_count' = [retry_count EXCEPT ![c] = AttemptRetryCount(delivery)]
      BY <2>5 DEF StartFork
    <3>3. CASE Retryable
      <4>1. AttemptRetryCount(delivery) = 1
        <5>1. delivery.retry_count = 0
          BY <3>3 DEF RetryInv, LaunchErrorMeta
        <5>2. QED BY <3>3, <5>1 DEF Retryable, AttemptRetryCount
      <4>2. QED BY <1>0, <3>1, <3>2, <3>3, <4>1 DEF RetryInv, Retryable, Retried
    <3>4. CASE ~Retryable
      <4>1. completion_lifecycle(delivery) = "Unclaimed"
        BY <3>4, <2>5 DEF StartFork, permits_attempt, Retryable
      <4>2. AttemptRetryCount(delivery) = 0 /\ ~Retried
        BY <3>4, <4>1 DEF RetryInv, AttemptRetryCount, Retryable
      <4>3. ~Retried'
        BY <1>0, <3>2, <4>2 DEF Retried
      <4>4. QED BY <1>0, <3>1, <3>2, <3>4, <4>1, <4>2, <4>3 DEF RetryInv, Retryable
    <3>5. QED BY <3>3, <3>4
  <2>6. CASE PublishRole(c)
    BY <1>0, <2>6, RetryQuiet DEF PublishRole, IsOwner, chain, Attempting, BeforeClaim,
         CustodianAlive, WorkerAlive
  <2>7. CASE OpenGate(c)
    BY <1>0, <2>7, RetryQuiet DEF OpenGate, IsOwner, chain, Attempting, BeforeClaim,
         CustodianAlive, WorkerAlive
  <2>8. CASE ReapCustodian(c)
    BY <1>0, <2>8, RetryQuiet DEF ReapCustodian, IsOwner, Attempting, BeforeClaim,
         CustodianAlive, WorkerAlive
  <2>9. CASE ReapTransferWorker(c)
    BY <1>0, <2>9, RetryQuiet DEF ReapTransferWorker, IsOwner, Attempting, BeforeClaim,
         CustodianAlive, WorkerAlive
  <2>10. CASE IntegrateRead(c)
    BY <1>0, <2>10, RetryQuiet DEF IntegrateRead, SettledAs, chain, Attempting, BeforeClaim,
         CustodianAlive, WorkerAlive
  <2>11. CASE IntegrateWrite(c)
    <3>1. /\ Holding(c) /\ UNCHANGED retry_count
          /\ \A d \in Claimants : d # c => /\ claim'[d] = claim[d]
                                           /\ custodian'[d] = custodian[d]
                                           /\ worker'[d] = worker[d]
          /\ Attempting(c)' => Attempting(c)
      BY <1>0, <2>11
         DEF IntegrateWrite, SettledAs, chain, Holding, ClaimantHolds, Attempting,
             CustodianAlive, WorkerAlive
    <3>2. ~BeforeClaim(c)'
      BY <1>0, <2>11, CallersAssumption
         DEF IntegrateWrite, SettledAs, chain, BeforeClaim, ShapeOf, CustodianAlive,
             WorkerAlive, Claimants
    <3>3. /\ completion_lifecycle(delivery') # "Unclaimed"
          /\ Retryable' => delivery' = LaunchErrorMeta(0)
      BY <1>0, <2>11, ClassOfMeta DEF IntegrateWrite, LostTransferMeta, Retryable
    <3>4. QED BY <1>0, <3>1, <3>2, <3>3, RetryWrite
  <2>12. QED BY <1>1, <2>1, <2>2, <2>3, <2>4, <2>5, <2>6, <2>7, <2>8, <2>9, <2>10,
  <2>11 DEF ClaimantStep
<1>2. ASSUME NEW c \in Claimants, CustodianStep(c) PROVE RetryInv'
  <2>1. CASE CustodianRefuses(c)
    BY <1>0, <2>1, RetryQuiet DEF CustodianRefuses, Attempting, BeforeClaim, CustodianAlive,
         WorkerAlive
  <2>2. CASE CustodianForksWorker(c)
    BY <1>0, <2>2, RetryQuiet DEF CustodianForksWorker, Attempting, BeforeClaim,
         CustodianAlive, WorkerAlive
  <2>3. CASE CustodianReapsWorker(c)
    <3>1. CASE UNCHANGED delivery
      BY <1>0, <2>3, <3>1, RetryQuiet
         DEF CustodianReapsWorker, Attempting, BeforeClaim, CustodianAlive, WorkerAlive
    <3>2. CASE delivery' = LostTransferMeta(delivery, retry_count[c])
      <4>1. /\ Holding(c) /\ UNCHANGED retry_count
            /\ \A d \in Claimants : d # c => /\ claim'[d] = claim[d]
                                             /\ custodian'[d] = custodian[d]
                                             /\ worker'[d] = worker[d]
            /\ Attempting(c)' => Attempting(c)
        BY <1>0, <2>3
           DEF CustodianReapsWorker, Holding, ClaimantHolds, Attempting, CustodianAlive,
               WorkerAlive
      <4>2. ~BeforeClaim(c)'
        BY <1>0, <2>3, CallersAssumption
           DEF CustodianReapsWorker, BeforeClaim, ShapeOf, CustodianAlive, WorkerAlive,
               Claimants
      <4>3. /\ completion_lifecycle(delivery') # "Unclaimed"
            /\ Retryable' => delivery' = LaunchErrorMeta(0)
        BY <1>0, <3>2, ClassOfMeta DEF LostTransferMeta, Retryable
      <4>4. QED BY <1>0, <4>1, <4>2, <4>3, RetryWrite
    <3>3. QED BY <3>1, <3>2, <2>3 DEF CustodianReapsWorker
  <2>4. CASE CustodianDrains(c)
    BY <1>0, <2>4, RetryQuiet DEF CustodianDrains, Attempting, BeforeClaim, CustodianAlive,
         WorkerAlive
  <2>5. QED BY <1>2, <2>1, <2>2, <2>3, <2>4 DEF CustodianStep
<1>3. ASSUME NEW c \in Claimants, WorkerStep(c) PROVE RetryInv'
  <2>1. CASE WorkerPassesGate(c)
    BY <1>0, <2>1, RetryQuiet DEF WorkerPassesGate, WorkerMoves, Attempting, BeforeClaim,
         CustodianAlive, WorkerAlive
  <2>2. CASE WorkerRefuses(c)
    BY <1>0, <2>2, RetryQuiet DEF WorkerRefuses, WorkerMoves, Attempting, BeforeClaim,
         CustodianAlive, WorkerAlive
  <2>3. CASE WorkerRequestFails(c)
    <3>1. /\ Holding(c) /\ UNCHANGED retry_count
          /\ \A d \in Claimants : d # c => /\ claim'[d] = claim[d]
                                           /\ custodian'[d] = custodian[d]
                                           /\ worker'[d] = worker[d]
          /\ Attempting(c)' => Attempting(c)
      BY <1>0, <2>3
         DEF WorkerRequestFails, WorkerMoves, Holding, ClaimantHolds, Attempting,
             CustodianAlive, WorkerAlive
    <3>2. ~BeforeClaim(c)'
      BY <1>0, <2>3, CallersAssumption
         DEF WorkerRequestFails, WorkerMoves, BeforeClaim, ShapeOf, CustodianAlive,
             WorkerAlive, Claimants
    <3>3. /\ completion_lifecycle(delivery') # "Unclaimed"
          /\ Retryable' => delivery' = LaunchErrorMeta(0)
      BY <1>0, <2>3, ClassOfMeta
         DEF WorkerRequestFails, HelperErrorMeta, Retryable
    <3>4. QED BY <1>0, <3>1, <3>2, <3>3, RetryWrite
  <2>4. CASE ContinuationRequestFails(c)
    BY <1>0, <2>4, RetryQuiet DEF ContinuationRequestFails, WorkerMoves, Attempting,
         BeforeClaim, CustodianAlive, WorkerAlive
  <2>5. CASE WorkerClaims(c)
    <3>1. /\ Holding(c) /\ UNCHANGED retry_count
          /\ \A d \in Claimants : d # c => /\ claim'[d] = claim[d]
                                           /\ custodian'[d] = custodian[d]
                                           /\ worker'[d] = worker[d]
          /\ Attempting(c)' => Attempting(c)
      BY <1>0, <2>5
         DEF WorkerClaims, WorkerMoves, Holding, ClaimantHolds, Attempting, CustodianAlive,
             WorkerAlive
    <3>2. ~BeforeClaim(c)'
      BY <1>0, <2>5, CallersAssumption
         DEF WorkerClaims, WorkerMoves, BeforeClaim, ShapeOf, CustodianAlive, WorkerAlive,
             Claimants
    <3>3. /\ completion_lifecycle(delivery') # "Unclaimed"
          /\ Retryable' => delivery' = LaunchErrorMeta(0)
      BY <2>5, ClassOfMeta DEF WorkerClaims, Retryable
    <3>4. QED BY <1>0, <3>1, <3>2, <3>3, RetryWrite
  <2>6. CASE WorkerBeginsCustody(c)
    BY <1>0, <2>6, RetryQuiet DEF WorkerBeginsCustody, IsOwner, WorkerMoves, Attempting,
         BeforeClaim, CustodianAlive, WorkerAlive
  <2>7. CASE WorkerSpawnFails(c)
    BY <1>0, <2>7, RetryQuiet DEF WorkerSpawnFails, WorkerMoves, ReadyToSpawn, IsOwner,
         Attempting, BeforeClaim, CustodianAlive, WorkerAlive
  <2>8. CASE WorkerSpawns(c)
    BY <1>0, <2>8, RetryQuiet DEF WorkerSpawns, WorkerMoves, ReadyToSpawn, IsOwner,
         Attempting, BeforeClaim, CustodianAlive, WorkerAlive
  <2>9. CASE WorkerWaits(c)
    BY <1>0, <2>9, RetryQuiet DEF WorkerWaits, WorkerMoves, Attempting, BeforeClaim,
         CustodianAlive, WorkerAlive
  <2>10. CASE WorkerWaitFails(c)
    BY <1>0, <2>10, RetryQuiet DEF WorkerWaitFails, WorkerMoves, Attempting, BeforeClaim,
         CustodianAlive, WorkerAlive
  <2>11. CASE WorkerRecords(c)
    <3>1. /\ Holding(c) /\ UNCHANGED retry_count
          /\ \A d \in Claimants : d # c => /\ claim'[d] = claim[d]
                                           /\ custodian'[d] = custodian[d]
                                           /\ worker'[d] = worker[d]
          /\ Attempting(c)' => Attempting(c)
      BY <1>0, <2>11
         DEF WorkerRecords, WorkerMoves, Holding, ClaimantHolds, Attempting, CustodianAlive,
             WorkerAlive
    <3>2. ~BeforeClaim(c)'
      BY <1>0, <2>11, CallersAssumption
         DEF WorkerRecords, WorkerMoves, BeforeClaim, ShapeOf, CustodianAlive, WorkerAlive,
             Claimants
    <3>3. /\ completion_lifecycle(delivery') # "Unclaimed"
          /\ Retryable' => delivery' = LaunchErrorMeta(0)
      BY <1>0, <2>11, ClassOfMeta DEF WorkerRecords, Retryable
    <3>4. QED BY <1>0, <3>1, <3>2, <3>3, RetryWrite
  <2>12. CASE WorkerExits(c)
    BY <1>0, <2>12, RetryQuiet DEF WorkerExits, WorkerMoves, Attempting, BeforeClaim,
         CustodianAlive, WorkerAlive
  <2>13. CASE ReapOrphanWorker(c)
    BY <1>0, <2>13, RetryQuiet DEF ReapOrphanWorker, WorkerMoves, Attempting, BeforeClaim,
         CustodianAlive, WorkerAlive
  <2>14. QED BY <1>3, <2>1, <2>2, <2>3, <2>4, <2>5, <2>6, <2>7, <2>8, <2>9, <2>10, <2>11,
         <2>12, <2>13 DEF WorkerStep
<1>4. ASSUME NEW c \in Claimants, Kill(c) PROVE RetryInv'
  <2>1. CASE KillClaimant(c)
    BY <1>0, <2>1, RetryQuiet DEF KillClaimant, chain, Attempting, BeforeClaim,
         CustodianAlive, WorkerAlive
  <2>2. CASE KillCustodian(c)
    BY <1>0, <2>2, RetryQuiet DEF KillCustodian, Attempting, BeforeClaim, CustodianAlive,
         WorkerAlive
  <2>3. CASE WorkerFails(c)
    BY <1>0, <2>3, RetryQuiet DEF WorkerFails, WorkerMoves, Attempting, BeforeClaim,
         CustodianAlive, WorkerAlive
  <2>4. QED BY <1>4, <2>1, <2>2, <2>3 DEF Kill
<1>5. ASSUME NEW c \in Claimants, HelperExits(c) PROVE RetryInv'
  BY <1>5, RetryQuiet DEF HelperExits, Attempting, BeforeClaim, CustodianAlive, WorkerAlive
<1>6. CASE GuardianTakesOver
  BY <1>0, <1>6, RetryQuiet DEF GuardianTakesOver, chain, Attempting, BeforeClaim,
                                CustodianAlive, WorkerAlive
<1>7. CASE SupervisorExits
  BY <1>0, <1>7, RetryQuiet DEF SupervisorExits, chain, Attempting, BeforeClaim,
                                CustodianAlive, WorkerAlive
<1>8. CASE GuardianTreeDrained
  BY <1>8, RetryQuiet DEF GuardianTreeDrained, chain, Attempting, BeforeClaim,
                          CustodianAlive, WorkerAlive
<1>9. CASE PublishSource
  BY <1>9, RetryQuiet DEF PublishSource, chain, Attempting, BeforeClaim, CustodianAlive,
                          WorkerAlive
<1>10. CASE UNCHANGED vars
  BY <1>10, RetryQuiet DEF vars, chain, Attempting, BeforeClaim, CustodianAlive, WorkerAlive
<1>11. QED BY <1>1, <1>2, <1>3, <1>4, <1>5, <1>6, <1>7, <1>8, <1>9, <1>10 DEF Next

\* A step that changes neither the record, nor a count, nor the invocations is a
\* stutter of the promise.
LEMMA PromiseStutters ==
    ASSUME UNCHANGED <<delivery, retry_count, invocations>>
    PROVE  UNCHANGED Promise!avars
  BY DEF Promise!avars, RecordState

\* A record that is closed while it still needed progress is the promise's Close.
LEMMA PromiseCloses ==
    ASSUME needs_progress(delivery), UNCHANGED <<retry_count, invocations>>,
           completion_lifecycle(delivery') \in
              {"NonReplayableUnknownTransfer", "AdmittedOutcome", "ClosedPreAdmissionFailure"}
    PROVE  Promise!Close
<1>1. RecordState # "closed" /\ RecordState' = "closed"
  BY DEF RecordState, needs_progress, permits_attempt
<1>2. QED BY <1>1 DEF Promise!Close

\* A failure known to precede admission reopens the record the first time and
\* closes it the second.
LEMMA PromiseReopens ==
    ASSUME TypeOK, RetryInv, NEW c \in Claimants, Attempting(c),
           needs_progress(delivery), invocations = 0,
           UNCHANGED <<retry_count, invocations>>,
           delivery' = LaunchErrorMeta(retry_count[c])
    PROVE  [Promise!ANext]_(Promise!avars)
<1>0. retry_count[c] \in {0, 1} /\ retry_count[c] \in RetryCounts
  BY DEF RetryInv, TypeOK
<1>1. CASE retry_count[c] = 0 /\ ~Retryable
  <2>1. completion_lifecycle(delivery) \in {"Unclaimed", "ProvisionalTransfer"}
    BY <1>1 DEF needs_progress, permits_attempt, Retryable
  <2>2. RecordState \in {"fresh", "claimed"}
    BY <2>1 DEF RecordState
  <2>3. completion_lifecycle(delivery') = "RetryablePreAdmissionFailure"
    BY <1>0, <1>1, ClassOfMeta
  <2>4. RecordState' = "retryable"
    BY <2>3 DEF RecordState
  <2>5. ~Retried
    BY <1>1 DEF RetryInv
  <2>6. Promise!Reopen
    BY <2>2, <2>4, <2>5 DEF Promise!Reopen, Retried
  <2>7. QED BY <2>6 DEF Promise!ANext
<1>2. CASE retry_count[c] = 0 /\ Retryable
  BY <1>2, PromiseStutters DEF RetryInv
<1>3. CASE retry_count[c] = 1
  <2>1. completion_lifecycle(delivery') = "ClosedPreAdmissionFailure"
    BY <1>0, <1>3, ClassOfMeta
  <2>2. QED BY <2>1, PromiseCloses DEF Promise!ANext
<1>4. QED BY <1>0, <1>1, <1>2, <1>3

\* What integrate_completion_transfer writes of a record that still needs progress
\* is a step of the promise.
LEMMA PromiseIntegrates ==
    ASSUME TypeOK, AdmissionCloses, RetryInv, NEW c \in Claimants, Attempting(c),
           needs_progress(delivery), UNCHANGED <<retry_count, invocations>>,
           delivery' = LostTransferMeta(delivery, retry_count[c])
    PROVE  [Promise!ANext]_(Promise!avars)
<1>1. CASE permits_attempt(delivery)
  BY <1>1, PromiseReopens DEF LostTransferMeta, AdmissionCloses
<1>2. CASE ~permits_attempt(delivery)
  <2>1. completion_lifecycle(delivery') = "NonReplayableUnknownTransfer"
    BY <1>2, ClassOfMeta DEF LostTransferMeta, TypeOK
  <2>2. QED BY <2>1, PromiseCloses DEF Promise!ANext
<1>3. QED BY <1>1, <1>2

\* Every step of the protocol is a step of the promise or a stutter.
LEMMA PromiseStep ==
    ASSUME TypeOK, AdmissionInv, RetryInv, [Next]_vars
    PROVE  [Promise!ANext]_(Promise!avars)
<1>0. /\ claim \in [Claimants -> ClaimStates]
      /\ retry_count \in [Claimants -> RetryCounts]
      /\ delivery \in CompletionDeliveryMeta
      /\ \A c \in Claimants : ShapeOf(c) /\ RecordOf(c)
      /\ AdmissionCloses
  BY DEF TypeOK, AdmissionInv, ChainShape, RecordTracksWorker
<1>1. ASSUME NEW c \in Claimants, ClaimantStep(c) PROVE [Promise!ANext]_(Promise!avars)
  <2>1. CASE AcquireLock(c)
    BY <2>1, PromiseStutters DEF AcquireLock, chain
  <2>2. CASE StartBusy(c)
    BY <2>2, PromiseStutters DEF StartBusy, chain
  <2>3. CASE StartSettled(c)
    <3>1. CASE completion_lifecycle(delivery) = "ProvisionalTransfer"
      <4>1. /\ needs_progress(delivery) /\ UNCHANGED <<retry_count, invocations>>
            /\ delivery' = UnknownTransferMeta(delivery.retry_count)
        BY <2>3, <3>1 DEF StartSettled, needs_progress, chain
      <4>2. completion_lifecycle(delivery') = "NonReplayableUnknownTransfer"
        BY <1>0, <4>1, ClassOfMeta, RetryCountType
      <4>3. QED BY <4>1, <4>2, PromiseCloses DEF Promise!ANext
    <3>2. CASE completion_lifecycle(delivery) # "ProvisionalTransfer"
      BY <2>3, <3>2, PromiseStutters DEF StartSettled, chain
    <3>3. QED BY <3>1, <3>2
  <2>4. CASE StartForkFails(c)
    <3>1. /\ permits_attempt(delivery) /\ needs_progress(delivery) /\ invocations = 0
          /\ UNCHANGED <<retry_count, invocations>>
          /\ delivery' = LaunchErrorMeta(AttemptRetryCount(delivery))
      BY <1>0, <2>4 DEF StartForkFails, needs_progress, AdmissionCloses, chain
    <3>2. CASE Retryable
      <4>1. AttemptRetryCount(delivery) = 1
        BY <3>2 DEF RetryInv, LaunchErrorMeta, Retryable, AttemptRetryCount
      <4>2. completion_lifecycle(delivery') = "ClosedPreAdmissionFailure"
        BY <1>0, <3>1, <4>1, ClassOfMeta, RetryCountType
      <4>3. QED BY <3>1, <4>2, PromiseCloses DEF Promise!ANext
    <3>3. CASE ~Retryable
      <4>1. completion_lifecycle(delivery) = "Unclaimed"
        BY <3>1, <3>3 DEF permits_attempt, Retryable
      <4>2. AttemptRetryCount(delivery) = 0 /\ ~Retried
        BY <4>1 DEF RetryInv, AttemptRetryCount
      <4>3. completion_lifecycle(delivery') = "RetryablePreAdmissionFailure"
        BY <1>0, <3>1, <4>2, ClassOfMeta, RetryCountType
      <4>4. Promise!Reopen
        BY <3>1, <4>1, <4>2, <4>3 DEF Promise!Reopen, RecordState, Retried
      <4>5. QED BY <4>4 DEF Promise!ANext
    <3>4. QED BY <3>2, <3>3
  <2>5. CASE StartFork(c)
    <3>1. /\ permits_attempt(delivery) /\ UNCHANGED <<delivery, invocations>>
          /\ retry_count' = [retry_count EXCEPT ![c] = AttemptRetryCount(delivery)]
      BY <2>5 DEF StartFork
    <3>2. RecordState' = RecordState
      BY <3>1 DEF RecordState
    <3>3. CASE Retryable
      <4>1. AttemptRetryCount(delivery) = 1
        BY <3>3 DEF RetryInv, LaunchErrorMeta, Retryable, AttemptRetryCount
      <4>2. Retried'
        BY <1>0, <3>1, <4>1 DEF Retried
      <4>3. RecordState = "retryable"
        BY <3>3 DEF RecordState, Retryable
      <4>4. Promise!SpendRetry
        BY <3>1, <3>2, <4>2, <4>3 DEF Promise!SpendRetry, Retried
      <4>5. QED BY <4>4 DEF Promise!ANext
    <3>4. CASE ~Retryable
      <4>1. completion_lifecycle(delivery) = "Unclaimed"
        BY <3>1, <3>4 DEF permits_attempt, Retryable
      <4>2. AttemptRetryCount(delivery) = 0 /\ ~Retried
        BY <4>1 DEF RetryInv, AttemptRetryCount
      <4>3. ~Retried'
        BY <1>0, <3>1, <4>2 DEF Retried
      <4>4. QED BY <3>1, <3>2, <4>2, <4>3 DEF Promise!avars, Retried
    <3>5. QED BY <3>3, <3>4
  <2>6. CASE PublishRole(c)
    BY <2>6, PromiseStutters DEF PublishRole, chain
  <2>7. CASE OpenGate(c)
    BY <2>7, PromiseStutters DEF OpenGate, chain
  <2>8. CASE ReapCustodian(c)
    BY <2>8, PromiseStutters DEF ReapCustodian
  <2>9. CASE ReapTransferWorker(c)
    BY <2>9, PromiseStutters DEF ReapTransferWorker
  <2>10. CASE IntegrateRead(c)
    BY <2>10, PromiseStutters DEF IntegrateRead, chain
  <2>11. CASE IntegrateWrite(c)
    BY <1>0, <2>11, PromiseIntegrates DEF IntegrateWrite, RecordOf, Attempting, chain
  <2>12. QED BY <1>1, <2>1, <2>2, <2>3, <2>4, <2>5, <2>6, <2>7, <2>8, <2>9, <2>10,
  <2>11 DEF ClaimantStep
<1>2. ASSUME NEW c \in Claimants, CustodianStep(c) PROVE [Promise!ANext]_(Promise!avars)
  <2>1. CASE CustodianRefuses(c)
    BY <2>1, PromiseStutters DEF CustodianRefuses
  <2>2. CASE CustodianForksWorker(c)
    BY <2>2, PromiseStutters DEF CustodianForksWorker
  <2>3. CASE CustodianReapsWorker(c)
    <3>1. UNCHANGED <<retry_count, invocations>> /\ Attempting(c)
      BY <2>3 DEF CustodianReapsWorker, Attempting, CustodianAlive
    <3>2. QED BY <1>0, <2>3, <3>1, PromiseIntegrates, PromiseStutters DEF CustodianReapsWorker
  <2>4. CASE CustodianDrains(c)
    BY <2>4, PromiseStutters DEF CustodianDrains
  <2>5. QED BY <1>2, <2>1, <2>2, <2>3, <2>4 DEF CustodianStep
<1>3. ASSUME NEW c \in Claimants, WorkerStep(c) PROVE [Promise!ANext]_(Promise!avars)
  <2>1. CASE WorkerPassesGate(c)
    BY <2>1, PromiseStutters DEF WorkerPassesGate, WorkerMoves
  <2>2. CASE WorkerRefuses(c)
    BY <2>2, PromiseStutters DEF WorkerRefuses, WorkerMoves
  <2>3. CASE WorkerRequestFails(c)
    <3>1. /\ needs_progress(delivery) /\ invocations = 0 /\ Attempting(c)
          /\ UNCHANGED <<retry_count, invocations>>
      BY <1>0, <2>3
         DEF WorkerRequestFails, WorkerMoves, RecordOf, needs_progress, Attempting, WorkerAlive
    <3>2. CASE delivery' = LaunchErrorMeta(retry_count[c])
      BY <3>1, <3>2, PromiseReopens
    <3>3. CASE delivery' = InvalidHelperMeta(retry_count[c])
      <4>1. completion_lifecycle(delivery') = "ClosedPreAdmissionFailure"
        BY <1>0, <3>3, ClassOfMeta
      <4>2. QED BY <3>1, <4>1, PromiseCloses DEF Promise!ANext
    <3>4. QED BY <2>3, <3>2, <3>3 DEF WorkerRequestFails, HelperErrorMeta
  <2>4. CASE ContinuationRequestFails(c)
    BY <2>4, PromiseStutters DEF ContinuationRequestFails, WorkerMoves
  <2>5. CASE WorkerClaims(c)
    <3>1. /\ permits_attempt(delivery) /\ Attempting(c) /\ BeforeClaim(c)
          /\ UNCHANGED <<retry_count, invocations>> /\ delivery' = ProvisionalMeta
      BY <1>0, <2>5
         DEF WorkerClaims, WorkerMoves, RecordOf, Attempting, BeforeClaim, WorkerAlive
    <3>2. RecordState' = "claimed"
      BY <3>1, ClassOfMeta DEF RecordState
    <3>3. CASE Retryable
      <4>1. RecordState = "retryable" /\ Retried
        BY <3>1, <3>3 DEF RetryInv, Retried, RecordState, Retryable
      <4>2. Promise!Claim
        BY <3>1, <3>2, <4>1 DEF Promise!Claim, Retried
      <4>3. QED BY <4>2 DEF Promise!ANext
    <3>4. CASE ~Retryable
      <4>1. RecordState = "fresh" /\ ~Retried
        BY <3>1, <3>4 DEF RetryInv, RecordState, permits_attempt, Retryable
      <4>2. Promise!Claim
        BY <3>1, <3>2, <4>1 DEF Promise!Claim, Retried
      <4>3. QED BY <4>2 DEF Promise!ANext
    <3>5. QED BY <3>3, <3>4
  <2>6. CASE WorkerBeginsCustody(c)
    BY <2>6, PromiseStutters DEF WorkerBeginsCustody, WorkerMoves
  <2>7. CASE WorkerSpawnFails(c)
    BY <2>7, PromiseStutters DEF WorkerSpawnFails, WorkerMoves
  <2>8. CASE WorkerSpawns(c)
    <3>1. worker[c] \in {"provisional", "custody"}
      BY <2>8 DEF WorkerSpawns, ReadyToSpawn, IsOwner
    <3>2. /\ delivery = ProvisionalMeta /\ invocations = 0 /\ invocations' = 1
          /\ UNCHANGED <<delivery, retry_count>>
      BY <1>0, <2>8, <3>1 DEF WorkerSpawns, WorkerMoves, RecordOf
    <3>3. RecordState = "claimed" /\ RecordState' = RecordState
      BY <3>2, ClassOfMeta DEF RecordState
    <3>4. Promise!Admit
      BY <3>2, <3>3 DEF Promise!Admit
    <3>5. QED BY <3>4 DEF Promise!ANext
  <2>9. CASE WorkerWaits(c)
    BY <2>9, PromiseStutters DEF WorkerWaits, WorkerMoves
  <2>10. CASE WorkerWaitFails(c)
    BY <2>10, PromiseStutters DEF WorkerWaitFails, WorkerMoves
  <2>11. CASE WorkerRecords(c)
    <3>1. /\ delivery = ProvisionalMeta /\ Attempting(c)
          /\ UNCHANGED <<retry_count, invocations>>
      BY <1>0, <2>11 DEF WorkerRecords, WorkerMoves, RecordOf, Attempting, WorkerAlive
    <3>2. needs_progress(delivery)
      BY <3>1, ClassOfMeta DEF needs_progress
    <3>3. CASE delivery' = AdmittedMeta
      BY <3>1, <3>2, <3>3, ClassOfMeta, PromiseCloses DEF Promise!ANext
    <3>4. CASE launch[c] = "not_started" /\ delivery' = LaunchErrorMeta(retry_count[c])
      BY <1>0, <2>11, <3>1, <3>2, <3>4, PromiseReopens DEF WorkerRecords, RecordOf
    <3>5. QED BY <2>11, <3>3, <3>4 DEF WorkerRecords
  <2>12. CASE WorkerExits(c)
    BY <2>12, PromiseStutters DEF WorkerExits, WorkerMoves
  <2>13. CASE ReapOrphanWorker(c)
    BY <2>13, PromiseStutters DEF ReapOrphanWorker, WorkerMoves
  <2>14. QED BY <1>3, <2>1, <2>2, <2>3, <2>4, <2>5, <2>6, <2>7, <2>8, <2>9, <2>10, <2>11,
         <2>12, <2>13 DEF WorkerStep
<1>4. ASSUME NEW c \in Claimants, Kill(c) PROVE [Promise!ANext]_(Promise!avars)
  <2>1. CASE KillClaimant(c)
    BY <2>1, PromiseStutters DEF KillClaimant, chain
  <2>2. CASE KillCustodian(c)
    BY <2>2, PromiseStutters DEF KillCustodian
  <2>3. CASE WorkerFails(c)
    BY <2>3, PromiseStutters DEF WorkerFails, WorkerMoves
  <2>4. QED BY <1>4, <2>1, <2>2, <2>3 DEF Kill
<1>5. ASSUME NEW c \in Claimants, HelperExits(c) PROVE [Promise!ANext]_(Promise!avars)
  BY <1>5, PromiseStutters DEF HelperExits
<1>6. CASE GuardianTakesOver
  BY <1>6, PromiseStutters DEF GuardianTakesOver, chain
<1>7. CASE SupervisorExits
  BY <1>7, PromiseStutters DEF SupervisorExits, chain
<1>8. CASE GuardianTreeDrained
  BY <1>8, PromiseStutters DEF GuardianTreeDrained, chain
<1>9. CASE PublishSource
  BY <1>9, PromiseStutters DEF PublishSource, chain
<1>10. CASE UNCHANGED vars
  BY <1>10, PromiseStutters DEF vars, chain
<1>11. QED BY <1>1, <1>2, <1>3, <1>4, <1>5, <1>6, <1>7, <1>8, <1>9, <1>10 DEF Next

-----------------------------------------------------------------------------
(* Theorems *)

\* Type correctness of the delivery protocol, for every set of callers and
\* whatever may be killed.
THEOREM TypeCorrect == Spec => []TypeOK
<1>1. QED BY TypeInit, TypeStep, PTL DEF Spec

\* However claimants, custodians, workers and their deaths interleave, the
\* completion helper is admitted at most once per handle, provided custodians
\* are not killed (start_completion_delivery, execute_completion_transfer).
THEOREM AtMostOnce ==
    ASSUME "custodian" \notin Killable
    PROVE  Spec => []AtMostOnceAdmission
<1>1. TypeOK /\ AdmissionInv /\ [Next]_vars => (TypeOK /\ AdmissionInv)'
  BY AdmissionStep
<1>2. AdmissionInv => AtMostOnceAdmission
  BY DEF AdmissionInv, AdmissionCloses, AtMostOnceAdmission
<1>3. QED BY TypeInit, AdmissionInit, <1>1, <1>2, PTL DEF Spec

\* A recorded delivery outcome survives the abnormal exit of the execution role
\* and every later claimant, provided custodians are not killed
\* (integrate_completion_transfer, start_completion_delivery).
THEOREM OutcomeSurvives ==
    ASSUME "custodian" \notin Killable
    PROVE  Spec => RecordedOutcomeSurvives
<1>1. TypeOK /\ AdmissionInv /\ [Next]_vars => (TypeOK /\ AdmissionInv)'
  BY AdmissionStep
<1>2. TypeOK /\ AdmissionInv /\ [Next]_vars =>
         [completion_lifecycle(delivery) = "AdmittedOutcome" => delivery' = delivery]_delivery
  BY OnlyOpenRecordsWritten DEF needs_progress, permits_attempt
<1>3. QED BY TypeInit, AdmissionInit, <1>1, <1>2, PTL DEF Spec, RecordedOutcomeSurvives

\* A caller's helper never runs without a custody marker on disk to veto the
\* reaper, whichever worker dies and whichever wait fails, provided custodians are
\* not killed (begin_external_transfer_custody, end_external_transfer_custody).
THEOREM HelperCovered ==
    ASSUME "custodian" \notin Killable
    PROVE  Spec => []ExternalHelperCovered
<1>1. Init => HelperInv
  BY DEF Init, HelperInv, OneHelper, CustodyMarked, ExternalHelperCovered, Claimants
<1>2. TypeOK /\ AdmissionInv /\ [Next]_vars => (TypeOK /\ AdmissionInv)'
  BY AdmissionStep
<1>3. TypeOK /\ AdmissionInv /\ HelperInv /\ [Next]_vars => HelperInv'
  BY HelperStep
<1>4. HelperInv => ExternalHelperCovered
  BY DEF HelperInv
<1>5. QED BY TypeInit, AdmissionInit, <1>1, <1>2, <1>3, <1>4, PTL DEF Spec

\* The delivery protocol, with its processes, locks and deaths, implements the
\* promise of AtMostOnceDelivery: an invocation only under a claim, a claim that
\* admitted one never reopens, one retry (start_completion_delivery,
\* execute_completion_transfer, integrate_completion_transfer), provided
\* custodians are not killed.
THEOREM DeliveryRefinesPromise ==
    ASSUME "custodian" \notin Killable
    PROVE  Spec => ImplementsPromise
<1>1. Init => RetryInv
  <2> SUFFICES ASSUME Init PROVE RetryInv
    OBVIOUS
  <2>1. /\ \A c \in Claimants : retry_count[c] = 0 /\ ~BeforeClaim(c)
        /\ delivery \in {UnclaimedMeta, LegacySkippedMeta}
    BY DEF Init, BeforeClaim
  <2>2. ~Retried
    BY <2>1 DEF Retried
  <2>3. delivery.retry_count = 0
    BY <2>1 DEF UnclaimedMeta, LegacySkippedMeta
  <2>4. ~Retryable
    BY <2>1, ClassOfMeta DEF Retryable
  <2>5. QED BY <2>1, <2>2, <2>3, <2>4 DEF RetryInv
<1>2. TypeOK /\ AdmissionInv /\ [Next]_vars => (TypeOK /\ AdmissionInv)'
  BY AdmissionStep
<1>3. TypeOK /\ AdmissionInv /\ RetryInv /\ [Next]_vars => RetryInv'
  BY RetryStep
<1>4. Init => Promise!AInit
  <2> SUFFICES ASSUME Init PROVE Promise!AInit
    OBVIOUS
  <2>1. RecordState \in {"fresh", "closed"}
    BY ClassOfMeta DEF Init, RecordState
  <2>2. ~Retried /\ invocations = 0
    BY DEF Init, Retried
  <2>3. QED BY <2>1, <2>2 DEF Promise!AInit, Retried
<1>5. TypeOK /\ AdmissionInv /\ RetryInv /\ [Next]_vars => [Promise!ANext]_(Promise!avars)
  BY PromiseStep
<1>6. QED BY TypeInit, AdmissionInit, <1>1, <1>2, <1>3, <1>4, <1>5, PTL
          DEF Spec, ImplementsPromise, Promise!ASpec
=============================================================================
