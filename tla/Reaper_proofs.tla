--------------------------- MODULE Reaper_proofs ----------------------------
(***************************************************************************)
(* Proofs about Reaper, for every forest of runs, any number of reap       *)
(* passes, readers, deaths and reboots.                                    *)
(*                                                                         *)
(* No lock is part of the argument: what keeps a removal quiet is what a   *)
(* run leaves on disk before it goes on (Story: custody before the         *)
(* supervisor, its identity before the workload), and what keeps the       *)
(* causal evidence is that acceptance precedes the supervisor and a        *)
(* removed parent never returns (Kin).                                     *)
(***************************************************************************)
EXTENDS Reaper, TLAPS

MetaType == [state : {"RUNNING", "DONE"}, supervisor : BOOLEAN, workload : BOOLEAN,
             boot : Boots, ready : BOOLEAN, pending : BOOLEAN]
OwnerStates == {"none", "created", "register", "daemonize", "start", "spawn", "run", "gone"}
PassType == [at : {"idle", "cursor", "scan", "remove"},
             shard : 0 .. Shards - 1, todo : SUBSET Handles, scanned : 0 .. MaxScan,
             reaped : 0 .. MaxDirs, h : Handles \cup {None}]
LockType == [Locks -> Reapers \cup {"noone", "reader", "client"}]

\* The types of what is on disk, of the runs, and of the other processes.
DiskTypes ==
    /\ dir \in [Handles -> {"absent", "present", "removed"}]
    /\ files \in [Handles -> SUBSET Names] /\ fresh \in [Handles -> BOOLEAN]
    /\ meta \in [Handles -> MetaType] /\ expired \in [Handles -> BOOLEAN]
    /\ custody \in [Handles -> Boots] /\ transfer \in [Handles -> Boots]
RunTypes ==
    /\ owner \in [Handles -> OwnerStates]
    /\ guardian \in [Handles -> BOOLEAN] /\ tree \in [Handles -> BOOLEAN]
    /\ helper \in [Handles -> BOOLEAN]
ProcessTypes ==
    /\ lock \in [Handles -> LockType]
    /\ cursor \in 0 .. Shards - 1
    /\ reaper \in [Reapers -> PassType]
    /\ reader \in [at : {"idle", "opened", "stale", "read"}, h : Handles \cup {None}]
    /\ client \in [at : {"idle", "write", "deliver", "helping"}, h : Handles \cup {None}]
    /\ commands \in 0 .. MaxCommands /\ faults \in 0 .. MaxFaults

\* TypeOK is these three.
LEMMA TypeParts == TypeOK <=> DiskTypes /\ RunTypes /\ ProcessTypes
<1>1. /\ {custody, transfer} \subseteq [Handles -> Boots] <=>
            custody \in [Handles -> Boots] /\ transfer \in [Handles -> Boots]
      /\ {guardian, tree, helper} \subseteq [Handles -> BOOLEAN] <=>
            /\ guardian \in [Handles -> BOOLEAN] /\ tree \in [Handles -> BOOLEAN]
            /\ helper \in [Handles -> BOOLEAN]
  OBVIOUS
<1>2. QED BY <1>1 DEF TypeOK, DiskTypes, RunTypes, ProcessTypes, MetaType, OwnerStates,
                      PassType, LockType

\* A process that works on a handle works on one of the handles.
Busy ==
    /\ \A r \in Reapers :
          reaper[r].at = "remove" => reaper[r].h \in Handles /\ reaper[r].reaped < MaxDirs
    /\ reader.at # "idle" => reader.h \in Handles
    /\ client.at # "idle" => client.h \in Handles

\* Names are added to a directory.
LEMMA AddTyped ==
    ASSUME DiskTypes, NEW h \in Handles, NEW names \in SUBSET Names, Add(h, names)
    PROVE  files' \in [Handles -> SUBSET Names] /\ fresh' \in [Handles -> BOOLEAN]
  BY DEF DiskTypes, Add

\* The records a run and its clients write.
LEMMA RecordTyped ==
    ASSUME NEW m \in MetaType, NEW bool \in BOOLEAN
    PROVE  /\ [m EXCEPT !.state = "DONE"] \in MetaType
           /\ [m EXCEPT !.supervisor = TRUE, !.boot = "current"] \in MetaType
           /\ [m EXCEPT !.workload = TRUE] \in MetaType
           /\ [m EXCEPT !.state = "DONE", !.ready = bool] \in MetaType
           /\ [m EXCEPT !.pending = FALSE] \in MetaType
           /\ \A some \in Boots : [m EXCEPT !.boot = some] \in MetaType
<1>1. [m EXCEPT !.state = "DONE"] \in MetaType
  BY DEF MetaType
<1>2. [m EXCEPT !.supervisor = TRUE, !.boot = "current"] \in MetaType
  BY DEF MetaType, Boots
<1>3. [m EXCEPT !.workload = TRUE] \in MetaType
  BY DEF MetaType
<1>4. [m EXCEPT !.state = "DONE", !.ready = bool] \in MetaType
  BY DEF MetaType
<1>5. [m EXCEPT !.pending = FALSE] \in MetaType
  BY DEF MetaType
<1>6. \A some \in Boots : [m EXCEPT !.boot = some] \in MetaType
  BY DEF MetaType, Boots
<1>7. QED BY <1>1, <1>2, <1>3, <1>4, <1>5, <1>6

\* The updates of a pass (ReadCursor, WriteCursor, Scan, Leave, RemoveDir).
LEMMA PassTyped ==
    ASSUME NEW m \in PassType
    PROVE  /\ \A current \in 0 .. Shards - 1, some \in SUBSET Handles :
                 [m EXCEPT !.at = "cursor", !.shard = current, !.todo = some,
                           !.scanned = 0, !.reaped = 0] \in PassType
           /\ \A some \in SUBSET Handles :
                 [m EXCEPT !.at = "scan", !.todo = some] \in PassType
           /\ [m EXCEPT !.at = "scan", !.h = None] \in PassType
           /\ \A some \in SUBSET Handles, n \in 0 .. MaxScan, at \in {"scan", "remove"},
                 g \in Handles \cup {None} :
                 [m EXCEPT !.at = at, !.todo = some, !.h = g, !.scanned = n] \in PassType
           /\ \A n \in 0 .. MaxDirs :
                 [m EXCEPT !.at = "scan", !.h = None, !.reaped = n] \in PassType
<1>0. MaxScan \in Nat /\ MaxDirs \in Nat
  BY ReaperAssumption
<1>1. 0 \in 0 .. MaxScan /\ 0 \in 0 .. MaxDirs
  BY <1>0
<1>2. ASSUME NEW current \in 0 .. Shards - 1, NEW some \in SUBSET Handles
      PROVE  [m EXCEPT !.at = "cursor", !.shard = current, !.todo = some,
                       !.scanned = 0, !.reaped = 0] \in PassType
  BY <1>1, Zenon DEF PassType
<1>3. ASSUME NEW some \in SUBSET Handles
      PROVE  [m EXCEPT !.at = "scan", !.todo = some] \in PassType
  BY DEF PassType
<1>4. [m EXCEPT !.at = "scan", !.h = None] \in PassType
  BY DEF PassType
<1>5. ASSUME NEW some \in SUBSET Handles, NEW n \in 0 .. MaxScan, NEW at \in {"scan", "remove"},
             NEW g \in Handles \cup {None}
      PROVE  [m EXCEPT !.at = at, !.todo = some, !.h = g, !.scanned = n] \in PassType
  BY <1>5 DEF PassType
<1>6. ASSUME NEW n \in 0 .. MaxDirs
      PROVE  [m EXCEPT !.at = "scan", !.h = None, !.reaped = n] \in PassType
  BY <1>6 DEF PassType
<1>7. QED BY <1>2, <1>3, <1>4, <1>5, <1>6

\* A metadata record is written.
LEMMA WriteMetaTyped ==
    ASSUME DiskTypes, NEW h \in Handles, NEW record \in MetaType, WriteMeta(h, record)
    PROVE  /\ files' \in [Handles -> SUBSET Names] /\ fresh' \in [Handles -> BOOLEAN]
           /\ meta' \in [Handles -> MetaType] /\ expired' \in [Handles -> BOOLEAN]
<1>1. {"meta"} \in SUBSET Names
  BY DEF Names
<1>2. QED BY <1>1, AddTyped DEF DiskTypes, WriteMeta

\* A pass at rest, and the locks a process takes or releases.
LEMMA RestingTyped == Resting \in PassType
<1>1. MaxScan \in Nat /\ MaxDirs \in Nat /\ Shards \in Nat \ {0}
  BY ReaperAssumption
<1>2. QED BY <1>1 DEF Resting, PassType

\* A lock changes hands.
LEMMA HoldsTyped ==
    ASSUME ProcessTypes, NEW h \in Handles, NEW l \in Locks,
           NEW who \in Reapers \cup {"noone", "reader", "client"},
           lock' = [lock EXCEPT ![h] = [@ EXCEPT ![l] = who]]
    PROVE  lock' \in [Handles -> LockType]
<1>1. lock[h] \in LockType
  BY DEF ProcessTypes
<1>2. [lock[h] EXCEPT ![l] = who] \in LockType
  BY <1>1 DEF LockType
<1>3. QED BY <1>2 DEF ProcessTypes

\* A reaper lets go of a handle.
LEMMA ReleasedTyped ==
    ASSUME ProcessTypes, NEW r
    PROVE  \A h \in Handles : Released(r, h) \in LockType
<1>1. \A h \in Handles : lock[h] \in LockType
  BY DEF ProcessTypes
<1>2. QED BY <1>1 DEF Released, LockType

\* What is on disk keeps its type.
LEMMA DiskStep ==
    ASSUME TypeOK, Busy, [Next]_vars
    PROVE  DiskTypes'
<1> USE ReaperAssumption
<1>0. DiskTypes /\ RunTypes /\ ProcessTypes
  BY TypeParts
<1>1. ASSUME NEW h \in Handles, OwnerNext(h) PROVE DiskTypes'
  <2>1. CASE Create(h)
    <3>1. {"log"} \cup Locks \in SUBSET Names
      BY DEF Names, Locks, Evidence
    <3>2. QED BY <1>0, <2>1, <3>1, AddTyped DEF Create, DiskTypes, runs, evidence, clients,
    Boots
  <2>2. CASE InitialMeta(h)
    <3>1. meta[h] \in MetaType /\ tree[h] \in BOOLEAN
      BY <1>0 DEF DiskTypes, RunTypes
    <3>2. NewMeta \in MetaType
      BY <3>1, RecordTyped DEF MetaType, NewMeta, Boots
    <3>3. QED BY <1>0, <2>2, <3>2, WriteMetaTyped DEF InitialMeta, DiskTypes, runs, evidence,
    clients
  <2>3. CASE Unwind(h)
    BY <1>0, <2>3 DEF Unwind, Add, WriteMeta, Open, runs, evidence, clients, DiskTypes, Boots
  <2>4. CASE Register(h)
    <3>1. Evidence(h) \in SUBSET Names
      BY DEF Names, Locks, Evidence
    <3>2. QED BY <1>0, <2>4, <3>1, AddTyped DEF Register, DiskTypes, runs, evidence, clients,
    Boots
  <2>5. CASE RegisterFails(h)
    <3>1. meta[h] \in MetaType /\ tree[h] \in BOOLEAN
      BY <1>0 DEF DiskTypes, RunTypes
    <3>2. [meta[h] EXCEPT !.state = "DONE"] \in MetaType
      BY <3>1, RecordTyped
    <3>3. QED BY <1>0, <2>5, <3>2, WriteMetaTyped DEF RegisterFails, DiskTypes, runs,
    evidence, clients
  <2>6. CASE Daemonize(h)
    BY <1>0, <2>6
       DEF Daemonize, Add, WriteMeta, Open, runs, evidence, clients, DiskTypes, Boots
  <2>7. CASE Start(h)
    <3>1. meta[h] \in MetaType /\ tree[h] \in BOOLEAN
      BY <1>0 DEF DiskTypes, RunTypes
    <3>2. [meta[h] EXCEPT !.supervisor = TRUE, !.boot = "current"] \in MetaType
      BY <3>1, RecordTyped
    <3>3. QED BY <1>0, <2>7, <3>2, WriteMetaTyped DEF Start, DiskTypes, runs, evidence, clients
  <2>8. CASE Spawn(h)
    <3>1. meta[h] \in MetaType /\ tree[h] \in BOOLEAN
      BY <1>0 DEF DiskTypes, RunTypes
    <3>2. [meta[h] EXCEPT !.workload = TRUE] \in MetaType
      BY <3>1, RecordTyped
    <3>3. QED BY <1>0, <2>8, <3>2, WriteMetaTyped DEF Spawn, DiskTypes, runs, evidence, clients
  <2>9. CASE TreeExits(h)
    BY <1>0, <2>9
       DEF TreeExits, Add, WriteMeta, Open, runs, evidence, clients, DiskTypes, Boots
  <2>10. CASE Complete(h)
    <3>1. meta[h] \in MetaType /\ tree[h] \in BOOLEAN
      BY <1>0 DEF DiskTypes, RunTypes
    <3>2. [meta[h] EXCEPT !.state = "DONE", !.ready = tree[h]] \in MetaType
      BY <3>1, RecordTyped
    <3>3. QED BY <1>0, <2>10, <3>2, WriteMetaTyped DEF Complete, DiskTypes, runs, evidence,
    clients
  <2>11. CASE Deliver(h)
    <3>1. meta[h] \in MetaType /\ tree[h] \in BOOLEAN
      BY <1>0 DEF DiskTypes, RunTypes
    <3>2. [meta[h] EXCEPT !.pending = FALSE] \in MetaType
      BY <3>1, RecordTyped
    <3>3. QED BY <1>0, <2>11, <3>2, WriteMetaTyped DEF Deliver, DiskTypes, runs, evidence,
    clients
  <2>12. CASE end_physical_custody(h)
    <3>1. {"custody"} \in SUBSET Names
      BY DEF Names, Locks, Evidence
    <3>2. QED BY <1>0, <2>12, <3>1, AddTyped DEF end_physical_custody, DiskTypes, runs,
    evidence, clients, Boots
  <2>13. CASE OwnerExits(h)
    BY <1>0, <2>13
       DEF OwnerExits, Add, WriteMeta, Open, runs, evidence, clients, DiskTypes, Boots
  <2>14. CASE GuardianExits(h)
    <3>1. {"custody"} \in SUBSET Names
      BY DEF Names
    <3>2. QED BY <1>0, <2>14, <3>1, AddTyped DEF GuardianExits, DiskTypes, runs, evidence,
    clients, Boots
  <2>15. QED BY <1>1, <2>1, <2>2, <2>3, <2>4, <2>5, <2>6, <2>7, <2>8, <2>9, <2>10, <2>11,
         <2>12, <2>13, <2>14 DEF OwnerNext
<1>2. ASSUME NEW h \in Handles,
             \/ RunnerResults(h) \/ BrokerReleases(h) \/ Expire(h)
             \/ ReaderOpens(h) \/ ClientReads(h) \/ Die(h)
      PROVE DiskTypes'
  <2>1. CASE RunnerResults(h)
    <3>1. {"result"} \in SUBSET Names
      BY DEF Names, Locks, Evidence
    <3>2. QED BY <1>0, <2>1, <3>1, AddTyped DEF RunnerResults, DiskTypes, runs, evidence,
    clients, Boots
  <2>2. CASE BrokerReleases(h)
    <3>1. {"release"} \in SUBSET Names
      BY DEF Names, Locks, Evidence
    <3>2. QED BY <1>0, <2>2, <3>1, AddTyped DEF BrokerReleases, DiskTypes, runs, evidence,
    clients, Boots
  <2>3. CASE Expire(h)
    BY <1>0, <2>3 DEF Expire, Add, WriteMeta, Open, runs, evidence, clients, DiskTypes, Boots
  <2>4. CASE ReaderOpens(h)
    <3>1. {"output"} \in SUBSET Names
      BY DEF Names, Locks, Evidence
    <3>2. QED BY <1>0, <2>4, <3>1, AddTyped DEF ReaderOpens, DiskTypes, runs, evidence,
    clients, Boots
  <2>5. CASE ClientReads(h)
    BY <1>0, <2>5
       DEF ClientReads, Add, WriteMeta, Open, runs, evidence, clients, DiskTypes, Boots
  <2>6. CASE Die(h)
    BY <1>0, <2>6 DEF Die, Add, WriteMeta, Open, runs, evidence, clients, DiskTypes, Boots
  <2>7. QED BY <1>2, <2>1, <2>2, <2>3, <2>4, <2>5, <2>6
<1>3. ASSUME NEW r \in Reapers, ReapNext(r) \/ ReaperDies(r) PROVE DiskTypes'
  <2>1. CASE ReadCursor(r)
    BY <1>0, <2>1 DEF ReadCursor, runs, evidence, clients, DiskTypes, Boots
  <2>2. CASE WriteCursor(r)
    BY <1>0, <2>2 DEF WriteCursor, runs, evidence, clients, DiskTypes, Boots
  <2>3. CASE Visit(r)
    <3>1. PICK h \in reaper[r].todo :
             \/ /\ files' = [files EXCEPT ![h] = @ \cup Locks]
                /\ fresh' = [fresh EXCEPT ![h] = FALSE]
             \/ Add(h, {"delivery"})
             \/ UNCHANGED <<files, fresh>>
      BY <2>3 DEF Visit
    <3>2. h \in Handles /\ {"delivery"} \in SUBSET Names /\ Locks \subseteq Names
      BY <1>0, <3>1 DEF ProcessTypes, PassType, Names, Locks
    <3>3. files' \in [Handles -> SUBSET Names] /\ fresh' \in [Handles -> BOOLEAN]
      <4>1. CASE files' = [files EXCEPT ![h] = @ \cup Locks] /\ fresh' = [fresh EXCEPT ![h] = FALSE]
        BY <1>0, <3>2, <4>1 DEF DiskTypes
      <4>2. CASE Add(h, {"delivery"})
        BY <1>0, <3>2, <4>2, AddTyped
      <4>3. QED BY <1>0, <3>1, <4>1, <4>2 DEF DiskTypes
    <3>4. QED BY <1>0, <2>3, <3>3 DEF Visit, DiskTypes
  <2>4. CASE RemoveNames(r)
    <3>1. reaper[r].h \in Handles
      BY <2>4 DEF RemoveNames, Busy
    <3>2. files' \in [Handles -> SUBSET Names]
      BY <1>0, <2>4, <3>1 DEF RemoveNames, DiskTypes
    <3>3. custody' \in [Handles -> Boots] /\ transfer' \in [Handles -> Boots]
      BY <1>0, <2>4, <3>1 DEF RemoveNames, DiskTypes, Boots
    <3>4. QED BY <1>0, <2>4, <3>2, <3>3 DEF RemoveNames, DiskTypes
  <2>5. CASE RemoveDir(r)
    BY <1>0, <2>5 DEF RemoveDir, runs, evidence, clients, DiskTypes, Boots
  <2>6. CASE RemoveFails(r)
    BY <1>0, <2>6 DEF RemoveFails, runs, evidence, clients, DiskTypes, Boots
  <2>7. CASE EndPass(r)
    BY <1>0, <2>7 DEF EndPass, runs, evidence, clients, DiskTypes, Boots
  <2>8. CASE ReaperDies(r)
    BY <1>0, <2>8 DEF ReaperDies, runs, evidence, clients, DiskTypes, Boots
  <2>9. QED BY <1>3, <2>1, <2>2, <2>3, <2>4, <2>5, <2>6, <2>7, <2>8 DEF ReapNext
<1>4. CASE ReaderLocks
  BY <1>0, <1>4
     DEF ReaderLocks, Add, WriteMeta, Open, Holds, runs, evidence, clients, DiskTypes, Boots
<1>5. CASE ReaderReads
  <2>1. {"receipt"} \in SUBSET Names /\ reader.h \in Handles
    BY <1>5 DEF Names, ReaderReads, Busy
  <2>2. QED BY <1>0, <1>5, <2>1, AddTyped DEF ReaderReads, DiskTypes, runs, evidence, clients
<1>6. CASE ClientWrites
  <2>1. client.h \in Handles
    BY <1>6 DEF ClientWrites, Busy
  <2>2. [meta[client.h] EXCEPT !.state = "DONE"] \in MetaType
    BY <1>0, <2>1, RecordTyped DEF DiskTypes
  <2>3. QED BY <1>0, <1>6, <2>1, <2>2, WriteMetaTyped DEF ClientWrites, DiskTypes, runs,
  evidence, clients
<1>7. CASE ClientDelivers
  <2>1. client.h \in Handles /\ {"delivery"} \in SUBSET Names
    BY <1>7 DEF ClientDelivers, Busy, Names
  <2>2. QED BY <1>0, <1>7, <2>1, AddTyped DEF ClientDelivers, DiskTypes, runs, evidence,
  clients, Boots
<1>8. CASE ClientEnds
  <2>1. client.h \in Handles
    BY <1>8 DEF ClientEnds, Busy
  <2>2. [meta[client.h] EXCEPT !.pending = FALSE] \in MetaType
    BY <1>0, <2>1, RecordTyped DEF DiskTypes
  <2>3. QED BY <1>0, <1>8, <2>1, <2>2, WriteMetaTyped DEF ClientEnds, DiskTypes, runs,
  evidence, clients, Boots
<1>9. CASE Reboot
  <2> DEFINE Former(marker) == IF marker = "current" THEN "previous" ELSE marker
  <2>1. \A b \in Boots : Former(b) \in Boots
    BY DEF Boots
  <2>2. ASSUME NEW h \in Handles PROVE [meta[h] EXCEPT !.boot = Former(@)] \in MetaType
    <3>1. meta[h] \in MetaType /\ meta[h].boot \in Boots
      BY <1>0 DEF DiskTypes, MetaType
    <3>2. QED BY <2>1, <3>1, RecordTyped
  <2>3. meta' = [h \in Handles |-> [meta[h] EXCEPT !.boot = Former(@)]]
    BY <1>9 DEF Reboot
  <2>4. meta' \in [Handles -> MetaType]
    BY <2>2, <2>3
  <2>5. custody' \in [Handles -> Boots] /\ transfer' \in [Handles -> Boots]
    BY <1>0, <1>9, <2>1 DEF Reboot, DiskTypes
  <2>6. QED BY <1>0, <1>9, <2>4, <2>5 DEF Reboot, DiskTypes
<1>10. CASE UNCHANGED vars
  BY <1>0, <1>10 DEF vars, runs, evidence, clients, DiskTypes, Boots
<1>11. QED BY <1>1, <1>2, <1>3, <1>4, <1>5, <1>6, <1>7, <1>8, <1>9, <1>10 DEF Next,
ReaderNext, ClientNext

\* The runs keep theirs.
LEMMA RunStep ==
    ASSUME TypeOK, Busy, [Next]_vars
    PROVE  RunTypes'
<1>0. RunTypes
  BY TypeParts
<1>1. ASSUME NEW h \in Handles, OwnerNext(h) PROVE RunTypes'
  <2>1. CASE Create(h)
    BY <1>0, <2>1 DEF Create, runs, evidence, clients, RunTypes, OwnerStates
  <2>2. CASE InitialMeta(h)
    BY <1>0, <2>2 DEF InitialMeta, runs, evidence, clients, RunTypes, OwnerStates
  <2>3. CASE Unwind(h)
    BY <1>0, <2>3 DEF Unwind, runs, evidence, clients, RunTypes, OwnerStates
  <2>4. CASE Register(h)
    BY <1>0, <2>4 DEF Register, runs, evidence, clients, RunTypes, OwnerStates
  <2>5. CASE RegisterFails(h)
    BY <1>0, <2>5 DEF RegisterFails, runs, evidence, clients, RunTypes, OwnerStates
  <2>6. CASE Daemonize(h)
    BY <1>0, <2>6 DEF Daemonize, runs, evidence, clients, RunTypes, OwnerStates
  <2>7. CASE Start(h)
    BY <1>0, <2>7 DEF Start, runs, evidence, clients, RunTypes, OwnerStates
  <2>8. CASE Spawn(h)
    BY <1>0, <2>8 DEF Spawn, runs, evidence, clients, RunTypes, OwnerStates
  <2>9. CASE TreeExits(h)
    BY <1>0, <2>9 DEF TreeExits, runs, evidence, clients, RunTypes, OwnerStates
  <2>10. CASE Complete(h)
    BY <1>0, <2>10 DEF Complete, runs, evidence, clients, RunTypes, OwnerStates
  <2>11. CASE Deliver(h)
    BY <1>0, <2>11 DEF Deliver, runs, evidence, clients, RunTypes, OwnerStates
  <2>12. CASE end_physical_custody(h)
    BY <1>0, <2>12 DEF end_physical_custody, runs, evidence, clients, RunTypes, OwnerStates
  <2>13. CASE OwnerExits(h)
    BY <1>0, <2>13 DEF OwnerExits, runs, evidence, clients, RunTypes, OwnerStates
  <2>14. CASE GuardianExits(h)
    BY <1>0, <2>14 DEF GuardianExits, runs, evidence, clients, RunTypes, OwnerStates
  <2>15. QED BY <1>1, <2>1, <2>2, <2>3, <2>4, <2>5, <2>6, <2>7, <2>8, <2>9, <2>10, <2>11,
         <2>12, <2>13, <2>14 DEF OwnerNext
<1>2. ASSUME NEW h \in Handles,
             \/ RunnerResults(h) \/ BrokerReleases(h) \/ Expire(h)
             \/ ReaderOpens(h) \/ ClientReads(h) \/ Die(h)
      PROVE RunTypes'
  <2>1. CASE RunnerResults(h)
    BY <1>0, <2>1 DEF RunnerResults, runs, evidence, clients, RunTypes, OwnerStates
  <2>2. CASE BrokerReleases(h)
    BY <1>0, <2>2 DEF BrokerReleases, runs, evidence, clients, RunTypes, OwnerStates
  <2>3. CASE Expire(h)
    BY <1>0, <2>3 DEF Expire, runs, evidence, clients, RunTypes, OwnerStates
  <2>4. CASE ReaderOpens(h)
    BY <1>0, <2>4 DEF ReaderOpens, runs, evidence, clients, RunTypes, OwnerStates
  <2>5. CASE ClientReads(h)
    BY <1>0, <2>5 DEF ClientReads, runs, evidence, clients, RunTypes, OwnerStates
  <2>6. CASE Die(h)
    BY <1>0, <2>6 DEF Die, runs, evidence, clients, RunTypes, OwnerStates
  <2>7. QED BY <1>2, <2>1, <2>2, <2>3, <2>4, <2>5, <2>6
<1>3. ASSUME NEW r \in Reapers, ReapNext(r) \/ ReaperDies(r) PROVE RunTypes'
  <2>1. CASE ReadCursor(r)
    BY <1>0, <2>1 DEF ReadCursor, runs, evidence, clients, RunTypes, OwnerStates
  <2>2. CASE WriteCursor(r)
    BY <1>0, <2>2 DEF WriteCursor, runs, evidence, clients, RunTypes, OwnerStates
  <2>3. CASE Visit(r)
    BY <1>0, <2>3 DEF Visit, runs, evidence, clients, RunTypes, OwnerStates
  <2>4. CASE RemoveNames(r)
    BY <1>0, <2>4 DEF RemoveNames, runs, evidence, clients, RunTypes, OwnerStates
  <2>5. CASE RemoveDir(r)
    BY <1>0, <2>5 DEF RemoveDir, runs, evidence, clients, RunTypes, OwnerStates
  <2>6. CASE RemoveFails(r)
    BY <1>0, <2>6 DEF RemoveFails, runs, evidence, clients, RunTypes, OwnerStates
  <2>7. CASE EndPass(r)
    BY <1>0, <2>7 DEF EndPass, runs, evidence, clients, RunTypes, OwnerStates
  <2>8. CASE ReaperDies(r)
    BY <1>0, <2>8 DEF ReaperDies, runs, evidence, clients, RunTypes, OwnerStates
  <2>9. QED BY <1>3, <2>1, <2>2, <2>3, <2>4, <2>5, <2>6, <2>7, <2>8 DEF ReapNext
<1>4. CASE ReaderLocks
  BY <1>0, <1>4 DEF ReaderLocks, runs, evidence, clients, RunTypes, OwnerStates
<1>5. CASE ReaderReads
  BY <1>0, <1>5 DEF ReaderReads, runs, evidence, clients, RunTypes, OwnerStates
<1>6. CASE ClientWrites
  BY <1>0, <1>6 DEF ClientWrites, runs, evidence, clients, RunTypes, OwnerStates
<1>7. CASE ClientDelivers
  BY <1>0, <1>7 DEF ClientDelivers, runs, evidence, clients, RunTypes, OwnerStates
<1>8. CASE ClientEnds
  BY <1>0, <1>8 DEF ClientEnds, runs, evidence, clients, RunTypes, OwnerStates
<1>9. CASE Reboot
  BY <1>0, <1>9 DEF Reboot, runs, evidence, clients, RunTypes, OwnerStates
<1>10. CASE UNCHANGED vars
  BY <1>0, <1>10 DEF vars, runs, evidence, clients, RunTypes, OwnerStates
<1>11. QED BY <1>1, <1>2, <1>3, <1>4, <1>5, <1>6, <1>7, <1>8, <1>9, <1>10 DEF Next,
ReaderNext, ClientNext

\* So do locks, passes and clients.
LEMMA ProcessStep ==
    ASSUME TypeOK, Busy, [Next]_vars
    PROVE  ProcessTypes'
<1>0. ProcessTypes /\ RunTypes /\ DiskTypes
  BY TypeParts
<1>1. ASSUME NEW h \in Handles, OwnerNext(h) PROVE ProcessTypes'
  <2>1. CASE Create(h)
    BY <1>0, <2>1 DEF Create, Open, runs, evidence, clients, ProcessTypes
  <2>2. CASE InitialMeta(h)
    BY <1>0, <2>2 DEF InitialMeta, Open, runs, evidence, clients, ProcessTypes
  <2>3. CASE Unwind(h)
    BY <1>0, <2>3 DEF Unwind, Open, runs, evidence, clients, ProcessTypes
  <2>4. CASE Register(h)
    BY <1>0, <2>4 DEF Register, Open, runs, evidence, clients, ProcessTypes
  <2>5. CASE RegisterFails(h)
    BY <1>0, <2>5 DEF RegisterFails, Open, runs, evidence, clients, ProcessTypes
  <2>6. CASE Daemonize(h)
    BY <1>0, <2>6 DEF Daemonize, Open, runs, evidence, clients, ProcessTypes
  <2>7. CASE Start(h)
    BY <1>0, <2>7 DEF Start, Open, runs, evidence, clients, ProcessTypes
  <2>8. CASE Spawn(h)
    BY <1>0, <2>8 DEF Spawn, Open, runs, evidence, clients, ProcessTypes
  <2>9. CASE TreeExits(h)
    BY <1>0, <2>9 DEF TreeExits, Open, runs, evidence, clients, ProcessTypes
  <2>10. CASE Complete(h)
    BY <1>0, <2>10 DEF Complete, Open, runs, evidence, clients, ProcessTypes
  <2>11. CASE Deliver(h)
    BY <1>0, <2>11 DEF Deliver, Open, runs, evidence, clients, ProcessTypes
  <2>12. CASE end_physical_custody(h)
    BY <1>0, <2>12 DEF end_physical_custody, Open, runs, evidence, clients, ProcessTypes
  <2>13. CASE OwnerExits(h)
    BY <1>0, <2>13 DEF OwnerExits, Open, runs, evidence, clients, ProcessTypes
  <2>14. CASE GuardianExits(h)
    BY <1>0, <2>14 DEF GuardianExits, Open, runs, evidence, clients, ProcessTypes
  <2>15. QED BY <1>1, <2>1, <2>2, <2>3, <2>4, <2>5, <2>6, <2>7, <2>8, <2>9, <2>10, <2>11,
         <2>12, <2>13, <2>14 DEF OwnerNext
<1>2. ASSUME NEW h \in Handles,
             \/ RunnerResults(h) \/ BrokerReleases(h) \/ Expire(h)
             \/ ReaderOpens(h) \/ ClientReads(h) \/ Die(h)
      PROVE ProcessTypes'
  <2>1. CASE RunnerResults(h)
    BY <1>0, <2>1 DEF RunnerResults, Open, runs, evidence, clients, ProcessTypes
  <2>2. CASE BrokerReleases(h)
    BY <1>0, <2>2 DEF BrokerReleases, Open, runs, evidence, clients, ProcessTypes
  <2>3. CASE Expire(h)
    BY <1>0, <2>3 DEF Expire, Open, runs, evidence, clients, ProcessTypes
  <2>4. CASE ReaderOpens(h)
    <3>1. "output" \in Locks
      BY DEF Locks
    <3>2. lock' \in [Handles -> LockType]
      BY <1>0, <2>4, <3>1, HoldsTyped DEF ReaderOpens, Holds, ProcessTypes
    <3>3. commands' \in 0 .. MaxCommands
      <4>1. MaxCommands \in Nat
        BY ReaperAssumption
      <4>2. QED BY <1>0, <2>4, <4>1 DEF ReaderOpens, ProcessTypes
    <3>4. reader' \in [at : {"idle", "opened", "stale", "read"}, h : Handles \cup {None}]
      BY <2>4 DEF ReaderOpens
    <3>5. QED BY <1>0, <2>4, <3>2, <3>3, <3>4 DEF ReaderOpens, ProcessTypes, runs, evidence,
    clients
  <2>5. CASE ClientReads(h)
    <3>1. MaxCommands \in Nat
      BY ReaperAssumption
    <3>2. commands' \in 0 .. MaxCommands
      BY <1>0, <2>5, <3>1 DEF ClientReads, ProcessTypes
    <3>3. QED BY <1>0, <2>5, <3>2 DEF ClientReads, ProcessTypes, runs, evidence, clients
  <2>6. CASE Die(h)
    <3>1. MaxFaults \in Nat
      BY ReaperAssumption
    <3>2. faults' \in 0 .. MaxFaults
      BY <1>0, <2>6, <3>1 DEF Die, ProcessTypes
    <3>3. QED BY <1>0, <2>6, <3>2 DEF Die, ProcessTypes, runs, evidence, clients
  <2>7. QED BY <1>2, <2>1, <2>2, <2>3, <2>4, <2>5, <2>6
<1>3. ASSUME NEW r \in Reapers, ReapNext(r) \/ ReaperDies(r) PROVE ProcessTypes'
  <2>1. CASE ReadCursor(r)
    <3>1. PICK current \in {cursor, 0} :
               reaper' = [reaper EXCEPT ![r] = [@ EXCEPT
                   !.at = "cursor", !.shard = current,
                   !.todo = {h \in Handles : dir[h] = "present"}, !.scanned = 0, !.reaped = 0]]
      BY <2>1 DEF ReadCursor
    <3>2. current \in 0 .. Shards - 1
      <4>1. Shards \in Nat \ {0}
        BY ReaperAssumption
      <4>2. QED BY <1>0, <3>1, <4>1 DEF ProcessTypes
    <3>3. reaper' \in [Reapers -> PassType]
      <4> DEFINE some == {h \in Handles : dir[h] = "present"}
      <4>1. /\ reaper[r] \in PassType
            /\ reaper[r].todo \in SUBSET Handles
            /\ reaper \in [Reapers -> PassType]
        BY <1>0 DEF ProcessTypes, PassType
      <4>2. some \in SUBSET Handles
        OBVIOUS
      <4>3. [reaper[r] EXCEPT !.at = "cursor", !.shard = current, !.todo = some,
                              !.scanned = 0, !.reaped = 0] \in PassType
        <5> HIDE DEF some
        <5> QED BY <3>2, <4>1, <4>2, PassTyped
      <4>4. QED BY <3>1, <4>1, <4>3
    <3>4. commands' \in 0 .. MaxCommands
      <4>1. MaxCommands \in Nat
        BY ReaperAssumption
      <4>2. QED BY <1>0, <2>1, <4>1 DEF ReadCursor, ProcessTypes
    <3>5. QED BY <1>0, <2>1, <3>3, <3>4 DEF ReadCursor, ProcessTypes, runs, evidence, clients
  <2>2. CASE WriteCursor(r)
    <3>1. reaper' \in [Reapers -> PassType]
      <4> DEFINE some == {h \in reaper[r].todo : Shard[h] = reaper[r].shard}
      <4>1. /\ reaper[r] \in PassType
            /\ reaper[r].todo \in SUBSET Handles
            /\ reaper \in [Reapers -> PassType]
        BY <1>0 DEF ProcessTypes, PassType
      <4>2. some \in SUBSET Handles
        BY <4>1
      <4>3. [reaper[r] EXCEPT !.at = "scan", !.todo = some] \in PassType
        <5> HIDE DEF some
        <5> QED BY <4>1, <4>2, PassTyped
      <4>4. reaper' = [reaper EXCEPT ![r] = [reaper[r] EXCEPT !.at = "scan", !.todo = some]]
        BY <2>2, Zenon DEF WriteCursor
      <4> HIDE DEF some
      <4>5. QED BY <4>1, <4>3, <4>4
    <3>2. cursor' \in 0 .. Shards - 1
      <4>1. Shards \in Nat \ {0}
        BY ReaperAssumption
      <4>2. reaper[r].shard \in 0 .. Shards - 1
        BY <1>0 DEF ProcessTypes, PassType
      <4>3. QED BY <2>2, <4>1, <4>2 DEF WriteCursor
    <3>3. QED BY <1>0, <2>2, <3>1, <3>2 DEF WriteCursor, ProcessTypes, runs, evidence, clients
  <2>3. CASE Visit(r)
    <3>1. PICK h \in reaper[r].todo :
             \/ lock' = [lock EXCEPT ![h] = [l \in Locks |-> r]] /\ Scan(r, h, "remove")
             \/ UNCHANGED lock /\ Scan(r, h, "scan")
      BY <2>3 DEF Visit
    <3>2. /\ reaper[r] \in PassType
          /\ reaper[r].todo \in SUBSET Handles
          /\ reaper \in [Reapers -> PassType]
      BY <1>0 DEF ProcessTypes, PassType
    <3>3. h \in Handles /\ reaper[r].scanned < MaxScan
      BY <3>1, <3>2, <2>3, ReaperAssumption DEF Visit, reap_limits_reached, PassType
    <3>4. lock' \in [Handles -> LockType]
      BY <1>0, <3>1, <3>3 DEF ProcessTypes, LockType
    <3>5. reaper' \in [Reapers -> PassType]
      <4>1. ASSUME NEW at \in {"scan", "remove"}, Scan(r, h,
      at) PROVE reaper' \in [Reapers -> PassType]
        <5> DEFINE some == reaper[r].todo \ {h}
                   g == IF at = "scan" THEN None ELSE h
                   n == reaper[r].scanned + 1
        <5>1. n \in 0 .. MaxScan /\ some \in SUBSET Handles /\ g \in Handles \cup {None}
          BY <3>2, <3>3, ReaperAssumption DEF PassType
        <5>2. [reaper[r] EXCEPT !.at = at, !.todo = some, !.h = g, !.scanned = n] \in PassType
          <6> HIDE DEF some, g, n
          <6> QED BY <3>2, <5>1, PassTyped
        <5>3. reaper' = [reaper EXCEPT ![r] =
                           [reaper[r] EXCEPT !.at = at, !.todo = some, !.h = g, !.scanned = n]]
          BY <4>1, Zenon DEF Scan
        <5> HIDE DEF some, g, n
        <5>4. QED BY <3>2, <5>2, <5>3
      <4>2. QED BY <3>1, <4>1
    <3>6. QED BY <1>0, <2>3, <3>4, <3>5 DEF Visit, ProcessTypes, runs, evidence, clients
  <2>4. CASE RemoveNames(r)
    <3>1. reaper[r].h \in Handles
      BY <2>4 DEF RemoveNames, Busy
    <3>2. lock' \in [Handles -> LockType]
      BY <1>0, <2>4, <3>1 DEF RemoveNames, ProcessTypes, LockType
    <3>3. reader' \in [at : {"idle", "opened", "stale", "read"}, h : Handles \cup {None}]
      BY <1>0, <2>4 DEF RemoveNames, ProcessTypes
    <3>4. QED BY <1>0, <2>4, <3>2, <3>3 DEF RemoveNames, ProcessTypes, runs, evidence, clients
  <2>5. CASE RemoveDir(r)
    <3>1. reaper[r].h \in Handles /\ reaper[r].reaped < MaxDirs
      BY <2>5 DEF RemoveDir, Busy
    <3>2. lock' \in [Handles -> LockType]
      BY <1>0, <2>5, <3>1 DEF RemoveDir, ProcessTypes, LockType, Unlocked
    <3>3. reaper' \in [Reapers -> PassType]
      <4>1. /\ reaper[r] \in PassType
            /\ reaper[r].todo \in SUBSET Handles
            /\ reaper \in [Reapers -> PassType]
        BY <1>0 DEF ProcessTypes, PassType
      <4> DEFINE n == IF dir[reaper[r].h] = "present" THEN reaper[r].reaped + 1 ELSE reaper[r].reaped
      <4>2. n \in 0 .. MaxDirs
        BY <3>1, <4>1, ReaperAssumption DEF PassType
      <4>3. [reaper[r] EXCEPT !.at = "scan", !.h = None, !.reaped = n] \in PassType
        <5> HIDE DEF n
        <5> QED BY <4>1, <4>2, PassTyped
      <4>4. reaper' = [reaper EXCEPT ![r] = [reaper[r] EXCEPT !.at = "scan", !.h = None,
      !.reaped = n]]
        BY <2>5, Zenon DEF RemoveDir
      <4> HIDE DEF n
      <4>5. QED BY <4>1, <4>3, <4>4
    <3>4. QED BY <1>0, <2>5, <3>2, <3>3 DEF RemoveDir, ProcessTypes, runs, evidence, clients
  <2>6. CASE RemoveFails(r)
    <3>1. reaper[r].h \in Handles
      BY <2>6 DEF RemoveFails, Busy
    <3>2. lock' \in [Handles -> LockType]
      BY <1>0, <2>6, <3>1, ReleasedTyped DEF RemoveFails, Leave, ProcessTypes
    <3>3. reaper' \in [Reapers -> PassType]
      <4>1. /\ reaper[r] \in PassType
            /\ reaper[r].todo \in SUBSET Handles
            /\ reaper \in [Reapers -> PassType]
        BY <1>0 DEF ProcessTypes, PassType
      <4>2. [reaper[r] EXCEPT !.at = "scan", !.h = None] \in PassType
        BY <3>1, <4>1, PassTyped
      <4>3. QED BY <2>6, <4>1, <4>2 DEF RemoveFails, Leave
    <3>4. QED BY <1>0, <2>6, <3>2, <3>3 DEF RemoveFails, Leave, ProcessTypes, runs, evidence,
    clients
  <2>7. CASE EndPass(r)
    <3>1. reaper' \in [Reapers -> PassType]
      BY <1>0, <2>7, RestingTyped DEF EndPass, ProcessTypes
    <3>2. QED BY <1>0, <2>7, <3>1 DEF EndPass, ProcessTypes, runs, evidence, clients
  <2>8. CASE ReaperDies(r)
    <3>1. lock' \in [Handles -> LockType]
      BY <1>0, <2>8, ReleasedTyped DEF ReaperDies
    <3>2. reaper' \in [Reapers -> PassType]
      BY <1>0, <2>8, RestingTyped DEF ReaperDies, ProcessTypes
    <3>3. faults' \in 0 .. MaxFaults
      <4>1. MaxFaults \in Nat
        BY ReaperAssumption
      <4>2. QED BY <1>0, <2>8, <4>1 DEF ReaperDies, ProcessTypes
    <3>4. QED BY <1>0, <2>8, <3>1, <3>2, <3>3 DEF ReaperDies, ProcessTypes, runs, evidence,
    clients
  <2>9. QED BY <1>3, <2>1, <2>2, <2>3, <2>4, <2>5, <2>6, <2>7, <2>8 DEF ReapNext
<1>4. CASE ReaderLocks
  <2>1. reader.h \in Handles /\ "output" \in Locks
    BY <1>4 DEF ReaderLocks, Busy, Locks
  <2>2. lock' \in [Handles -> LockType]
    BY <1>0, <1>4, <2>1, HoldsTyped DEF ReaderLocks, Holds, ProcessTypes
  <2>3. QED BY <1>0, <1>4, <2>2 DEF ReaderLocks, ProcessTypes, runs, evidence, clients
<1>5. CASE ReaderReads
  <2>1. reader.h \in Handles /\ "output" \in Locks
    BY <1>5 DEF ReaderReads, Busy, Locks
  <2>2. lock' \in [Handles -> LockType]
    BY <1>0, <1>5, <2>1, HoldsTyped DEF ReaderReads, ReaderUnlocks, ProcessTypes
  <2>3. QED BY <1>0, <1>5, <2>2 DEF ReaderReads, ProcessTypes, runs, evidence, clients
<1>6. CASE ClientWrites
  BY <1>0, <1>6 DEF ClientWrites, Open, Holds, runs, evidence, clients, ProcessTypes
<1>7. CASE ClientDelivers
  <2>1. client.h \in Handles /\ "delivery" \in Locks
    BY <1>7 DEF ClientDelivers, Busy, Locks
  <2>2. lock' \in [Handles -> LockType]
    BY <1>0, <1>7, <2>1, HoldsTyped DEF ClientDelivers, Holds, ProcessTypes
  <2>3. client' \in [at : {"idle", "write", "deliver", "helping"}, h : Handles \cup {None}]
    BY <1>0, <1>7 DEF ClientDelivers, ProcessTypes
  <2>4. QED BY <1>0, <1>7, <2>2, <2>3 DEF ClientDelivers, ProcessTypes, runs, evidence, clients
<1>8. CASE ClientEnds
  <2>1. client.h \in Handles /\ "delivery" \in Locks
    BY <1>8 DEF ClientEnds, Busy, Locks
  <2>2. lock' \in [Handles -> LockType]
    BY <1>0, <1>8, <2>1, HoldsTyped DEF ClientEnds, ProcessTypes
  <2>3. QED BY <1>0, <1>8, <2>2 DEF ClientEnds, ProcessTypes, runs, evidence, clients
<1>9. CASE Reboot
  <2>1. lock' \in [Handles -> LockType]
    BY <1>9 DEF Reboot, Unlocked, LockType
  <2>2. reaper' \in [Reapers -> PassType]
    BY <1>9, RestingTyped DEF Reboot
  <2>3. faults' \in 0 .. MaxFaults
    <3>1. MaxFaults \in Nat
      BY ReaperAssumption
    <3>2. QED BY <1>0, <1>9, <3>1 DEF Reboot, ProcessTypes
  <2>4. QED BY <1>0, <1>9, <2>1, <2>2, <2>3 DEF Reboot, ProcessTypes
<1>10. CASE UNCHANGED vars
  BY <1>0, <1>10 DEF vars, runs, evidence, clients, ProcessTypes
<1>11. QED BY <1>1, <1>2, <1>3, <1>4, <1>5, <1>6, <1>7, <1>8, <1>9, <1>10 DEF Next,
ReaderNext, ClientNext

\* A process is given a handle before it works on one.
LEMMA BusyStep ==
    ASSUME TypeOK, Busy, [Next]_vars
    PROVE  Busy'
<1>0. ProcessTypes
  BY TypeParts
<1>1. ASSUME NEW h \in Handles, OwnerNext(h) PROVE Busy'
  <2>1. CASE Create(h)
    BY <2>1 DEF Create, runs, evidence, clients, Busy
  <2>2. CASE InitialMeta(h)
    BY <2>2 DEF InitialMeta, runs, evidence, clients, Busy
  <2>3. CASE Unwind(h)
    BY <2>3 DEF Unwind, runs, evidence, clients, Busy
  <2>4. CASE Register(h)
    BY <2>4 DEF Register, runs, evidence, clients, Busy
  <2>5. CASE RegisterFails(h)
    BY <2>5 DEF RegisterFails, runs, evidence, clients, Busy
  <2>6. CASE Daemonize(h)
    BY <2>6 DEF Daemonize, runs, evidence, clients, Busy
  <2>7. CASE Start(h)
    BY <2>7 DEF Start, runs, evidence, clients, Busy
  <2>8. CASE Spawn(h)
    BY <2>8 DEF Spawn, runs, evidence, clients, Busy
  <2>9. CASE TreeExits(h)
    BY <2>9 DEF TreeExits, runs, evidence, clients, Busy
  <2>10. CASE Complete(h)
    BY <2>10 DEF Complete, runs, evidence, clients, Busy
  <2>11. CASE Deliver(h)
    BY <2>11 DEF Deliver, runs, evidence, clients, Busy
  <2>12. CASE end_physical_custody(h)
    BY <2>12 DEF end_physical_custody, runs, evidence, clients, Busy
  <2>13. CASE OwnerExits(h)
    BY <2>13 DEF OwnerExits, runs, evidence, clients, Busy
  <2>14. CASE GuardianExits(h)
    BY <2>14 DEF GuardianExits, runs, evidence, clients, Busy
  <2>15. QED BY <1>1, <2>1, <2>2, <2>3, <2>4, <2>5, <2>6, <2>7, <2>8, <2>9, <2>10, <2>11,
         <2>12, <2>13, <2>14 DEF OwnerNext
<1>2. ASSUME NEW h \in Handles,
             \/ RunnerResults(h) \/ BrokerReleases(h) \/ Expire(h)
             \/ ReaderOpens(h) \/ ClientReads(h) \/ Die(h)
      PROVE Busy'
  <2>1. CASE RunnerResults(h)
    BY <2>1 DEF RunnerResults, runs, evidence, clients, Busy
  <2>2. CASE BrokerReleases(h)
    BY <2>2 DEF BrokerReleases, runs, evidence, clients, Busy
  <2>3. CASE Expire(h)
    BY <2>3 DEF Expire, runs, evidence, clients, Busy
  <2>4. CASE ReaderOpens(h)
    BY <2>4 DEF ReaderOpens, runs, evidence, clients, Busy
  <2>5. CASE ClientReads(h)
    BY <2>5 DEF ClientReads, runs, evidence, clients, Busy
  <2>6. CASE Die(h)
    BY <2>6 DEF Die, runs, evidence, clients, Busy
  <2>7. QED BY <1>2, <2>1, <2>2, <2>3, <2>4, <2>5, <2>6
<1>3. ASSUME NEW r \in Reapers, ReapNext(r) \/ ReaperDies(r) PROVE Busy'
  <2>1. CASE ReadCursor(r)
    <3>1. reaper \in [Reapers -> PassType] /\ reaper[r] \in PassType
      BY <1>0 DEF ProcessTypes
    <3>2. reaper'[r].at = "cursor" /\ \A q \in Reapers : q # r => reaper'[q] = reaper[q]
      BY <2>1, <3>1 DEF ReadCursor, PassType
    <3>3. QED BY <2>1, <3>2 DEF ReadCursor, Busy, runs, evidence, clients
  <2>2. CASE WriteCursor(r)
    <3>1. reaper \in [Reapers -> PassType] /\ reaper[r] \in PassType
      BY <1>0 DEF ProcessTypes
    <3>2. reaper'[r].at = "scan" /\ \A q \in Reapers : q # r => reaper'[q] = reaper[q]
      BY <2>2, <3>1 DEF WriteCursor, PassType
    <3>3. QED BY <2>2, <3>2 DEF WriteCursor, Busy, runs, evidence, clients
  <2>3. CASE Visit(r)
    <3>1. reaper \in [Reapers -> PassType] /\ reaper[r] \in PassType
      BY <1>0 DEF ProcessTypes
    <3>2. PICK h \in reaper[r].todo, at \in {"scan", "remove"} : Scan(r, h, at)
      BY <2>3 DEF Visit
    <3>3. h \in Handles /\ reaper[r].reaped < MaxDirs
      BY <3>1, <3>2, <2>3, ReaperAssumption DEF Visit, reap_limits_reached, PassType
    <3>4. /\ \A q \in Reapers : q # r => reaper'[q] = reaper[q]
          /\ reaper'[r].at = "remove" => reaper'[r].h = h
          /\ reaper'[r].reaped = reaper[r].reaped
      BY <3>1, <3>2 DEF Scan, PassType
    <3>5. QED BY <2>3, <3>3, <3>4 DEF Visit, Busy, runs, evidence, clients
  <2>4. CASE RemoveNames(r)
    <3>1. reader'.at # "idle" => reader.at # "idle" /\ reader'.h = reader.h
      BY <1>0, <2>4 DEF RemoveNames, ProcessTypes
    <3>2. QED BY <2>4, <3>1 DEF RemoveNames, Busy
  <2>5. CASE RemoveDir(r)
    <3>1. reaper \in [Reapers -> PassType] /\ reaper[r] \in PassType
      BY <1>0 DEF ProcessTypes
    <3>2. reaper'[r].at = "scan" /\ \A q \in Reapers : q # r => reaper'[q] = reaper[q]
      BY <2>5, <3>1 DEF RemoveDir, PassType
    <3>3. QED BY <2>5, <3>2 DEF RemoveDir, Busy, runs, evidence, clients
  <2>6. CASE RemoveFails(r)
    <3>1. reaper \in [Reapers -> PassType] /\ reaper[r] \in PassType
      BY <1>0 DEF ProcessTypes
    <3>2. reaper'[r].at = "scan" /\ \A q \in Reapers : q # r => reaper'[q] = reaper[q]
      BY <2>6, <3>1 DEF RemoveFails, PassType, Leave
    <3>3. QED BY <2>6, <3>2 DEF RemoveFails, Busy, runs, evidence, clients
  <2>7. CASE EndPass(r)
    <3>1. reaper \in [Reapers -> PassType] /\ reaper[r] \in PassType
      BY <1>0 DEF ProcessTypes
    <3>2. reaper'[r].at = "idle" /\ \A q \in Reapers : q # r => reaper'[q] = reaper[q]
      BY <2>7, <3>1 DEF EndPass, PassType, Resting
    <3>3. QED BY <2>7, <3>2 DEF EndPass, Busy, runs, evidence, clients
  <2>8. CASE ReaperDies(r)
    <3>1. reaper \in [Reapers -> PassType] /\ reaper[r] \in PassType
      BY <1>0 DEF ProcessTypes
    <3>2. reaper'[r].at = "idle" /\ \A q \in Reapers : q # r => reaper'[q] = reaper[q]
      BY <2>8, <3>1 DEF ReaperDies, PassType, Resting
    <3>3. QED BY <2>8, <3>2 DEF ReaperDies, Busy, runs, evidence, clients
  <2>9. QED BY <1>3, <2>1, <2>2, <2>3, <2>4, <2>5, <2>6, <2>7, <2>8 DEF ReapNext
<1>4. CASE ReaderLocks
  <2>1. reader'.at # "idle" => reader.at # "idle" /\ reader'.h = reader.h
    BY <1>0, <1>4 DEF ReaderLocks, ProcessTypes
  <2>2. QED BY <1>4, <2>1 DEF ReaderLocks, Busy, runs, evidence, clients
<1>5. CASE ReaderReads
  BY <1>5 DEF ReaderReads, runs, evidence, clients, Busy
<1>6. CASE ClientWrites
  <2>1. client'.at # "idle" => client.at # "idle" /\ client'.h = client.h
    BY <1>0, <1>6 DEF ClientWrites, ProcessTypes
  <2>2. QED BY <1>6, <2>1 DEF ClientWrites, Busy, runs, evidence, clients
<1>7. CASE ClientDelivers
  <2>1. client'.at # "idle" => client.at # "idle" /\ client'.h = client.h
    BY <1>0, <1>7 DEF ClientDelivers, ProcessTypes
  <2>2. QED BY <1>7, <2>1 DEF ClientDelivers, Busy, runs, evidence, clients
<1>8. CASE ClientEnds
  BY <1>8 DEF ClientEnds, runs, evidence, clients, Busy
<1>9. CASE Reboot
  BY <1>9 DEF Reboot, runs, evidence, clients, Busy, Resting
<1>10. CASE UNCHANGED vars
  BY <1>10 DEF vars, runs, evidence, clients, Busy
<1>11. QED BY <1>1, <1>2, <1>3, <1>4, <1>5, <1>6, <1>7, <1>8, <1>9, <1>10 DEF Next,
ReaderNext, ClientNext
\* Every step keeps the types.
LEMMA TypeStep ==
    ASSUME TypeOK, Busy, [Next]_vars
    PROVE  TypeOK' /\ Busy'
<1>1. DiskTypes' /\ RunTypes' /\ ProcessTypes'
  BY DiskStep, RunStep, ProcessStep
<1>2. (DiskTypes /\ RunTypes /\ ProcessTypes)' => TypeOK'
  BY TypeParts, PTL
<1>3. QED BY <1>1, <1>2, BusyStep

-----------------------------------------------------------------------------
(* The story of a run *)

Unstarted == {"none", "created", "register", "daemonize", "start"}

\* What a run has left on disk when it gets to a point, and that no removal begins
\* before it is over.
Story(h) ==
    /\ dir[h] = "absent" <=> owner[h] = "none"
    /\ owner[h] \in {"none", "created"} => "meta" \notin files[h]
    /\ owner[h] \in Unstarted => meta[h].state = "RUNNING" /\ meta[h].supervisor = FALSE
    /\ owner[h] = "spawn" => meta[h].state = "RUNNING"
    /\ owner[h] \in {"start", "spawn"} => custody[h] = "current"
    /\ owner[h] \in {"spawn", "run"} => meta[h].supervisor = TRUE /\ meta[h].boot = "current"
    /\ tree[h] = TRUE => owner[h] \in {"run", "gone"} /\ custody[h] = "current"
    /\ Removing(h) \/ dir[h] = "removed" => tree[h] = FALSE /\ owner[h] = "gone"

\* Nested work: its parent came first, and its acceptance is on disk as long as the
\* parent is.
Kin(h) ==
    Parent[h] # None =>
        /\ owner[h] # "none" => dir[Parent[h]] # "absent"
        /\ owner[h] \in {"daemonize", "start"} \/ meta[h].supervisor = TRUE =>
              "accepted" \in files[h] \/ dir[Parent[h]] # "present"
        /\ (Removing(h) \/ dir[h] = "removed") /\ meta[h].supervisor = TRUE =>
              dir[Parent[h]] # "present"

\* A client works on a run that was started.
ClientInv == client.at # "idle" => owner[client.h] \in {"run", "gone"}

RunInv == ClientInv /\ \A h \in Handles : Story(h) /\ Kin(h)

\* A directory appears once and disappears once.
Forward ==
    \A g \in Handles : \/ dir'[g] = dir[g]
                       \/ dir[g] = "absent" /\ dir'[g] = "present"
                       \/ dir'[g] = "removed"

\* A step that neither moves the run g nor takes from its directory.
Same(g) ==
    /\ dir'[g] = dir[g] /\ meta'[g] = meta[g] /\ custody'[g] = custody[g]
    /\ owner'[g] = owner[g] /\ tree'[g] = tree[g]
    /\ "meta" \in files'[g] => "meta" \in files[g]
    /\ "accepted" \in files[g] => "accepted" \in files'[g]
    /\ Removing(g)' => Removing(g)

\* Such a run keeps its story.
LEMMA SameKept ==
    ASSUME TypeOK, NEW g \in Handles, Story(g), Kin(g), Same(g), Forward
    PROVE  Story(g)' /\ Kin(g)'
<1>1. Story(g)'
  BY DEF Story, Same
<1>2. Parent[g] \in Handles \cup {None}
  BY ReaperAssumption
<1>3. CASE Parent[g] \in Handles
  <2>1. dir'[Parent[g]] = "absent" => dir[Parent[g]] = "absent"
    BY <1>3 DEF Forward
  <2>2. dir'[Parent[g]] = "present" => dir[Parent[g]] \in {"absent", "present"}
    BY <1>3 DEF Forward
  <2>3. owner[g] = "none" => meta[g].supervisor # TRUE /\ dir[g] = "absent"
    BY DEF Story, Unstarted
  <2>4. QED BY <2>1, <2>2, <2>3 DEF Kin, Same, Story
<1>4. CASE Parent[g] = None
  BY <1>1, <1>4 DEF Kin
<1>5. QED BY <1>1, <1>2, <1>3, <1>4

\* A step that leaves every run alone.
LEMMA AllSame ==
    ASSUME TypeOK, RunInv, ClientInv', Forward, \A g \in Handles : Same(g)
    PROVE  RunInv'
  BY SameKept DEF RunInv

\* A step of one run.
LEMMA OthersSame ==
    ASSUME TypeOK, RunInv, ClientInv', Forward, NEW h \in Handles, Story(h)', Kin(h)',
           \A g \in Handles : g # h => Same(g)
    PROVE  RunInv'
<1>1. ASSUME NEW g \in Handles, g # h PROVE Story(g)' /\ Kin(g)'
  BY <1>1, SameKept DEF RunInv
<1>2. QED BY <1>1 DEF RunInv

\* What the records of a run and its clients keep.
LEMMA RecordFields ==
    ASSUME NEW m \in MetaType, NEW bool \in BOOLEAN
    PROVE  /\ LET n == [m EXCEPT !.state = "DONE"] IN
              n.state = "DONE" /\ n.supervisor = m.supervisor /\ n.boot = m.boot
           /\ LET n == [m EXCEPT !.supervisor = TRUE, !.boot = "current"] IN
              n.state = m.state /\ n.supervisor = TRUE /\ n.boot = "current"
           /\ LET n == [m EXCEPT !.workload = TRUE] IN
              n.state = m.state /\ n.supervisor = m.supervisor /\ n.boot = m.boot
           /\ LET n == [m EXCEPT !.state = "DONE", !.ready = bool] IN
              n.state = "DONE" /\ n.supervisor = m.supervisor /\ n.boot = m.boot
           /\ LET n == [m EXCEPT !.pending = FALSE] IN
              n.state = m.state /\ n.supervisor = m.supervisor /\ n.boot = m.boot
  BY DEF MetaType

\* An eligible directory belongs to a run that is over and whose tree is gone; nested
\* work is eligible when its parent's directory is (state_dir_reap_eligible).
LEMMA EligibleIsOver ==
    ASSUME TypeOK, NEW h \in Handles, Story(h), Kin(h), dir[h] = "present",
           state_dir_reap_eligible(h)
    PROVE  /\ tree[h] = FALSE /\ owner[h] = "gone"
           /\ Parent[h] # None /\ meta[h].supervisor = TRUE => dir[Parent[h]] # "present"
<1>0. /\ owner[h] \in OwnerStates /\ meta[h] \in MetaType /\ tree[h] \in BOOLEAN
  BY TypeParts DEF DiskTypes, RunTypes
<1>1. custody[h] # "current" /\ "meta" \in files[h] /\ ~causal_parent_retains(h)
  BY DEF state_dir_reap_eligible, physical_custody_may_remain
<1>2. ~supervisor_may_run(h) /\ settled_or_lost(h)
  BY DEF state_dir_reap_eligible
<1>3. owner[h] \notin {"spawn", "run"}
  BY <1>2 DEF supervisor_may_run, process_is_gone, SupervisorAlive, Story
<1>4. owner[h] \notin {"register", "daemonize"}
  BY <1>2 DEF settled_or_lost, meta_is_reap_terminal, meta_processes_are_gone, process_is_gone,
              Story, Unstarted
<1>5. owner[h] = "gone"
  BY <1>0, <1>1, <1>3, <1>4 DEF Story, OwnerStates
<1>6. tree[h] = FALSE
  BY <1>0, <1>1 DEF Story
<1>7. QED BY <1>1, <1>5, <1>6 DEF Kin, causal_parent_retains

\* Every step keeps the story of every run.
LEMMA RunInvStep ==
    ASSUME TypeOK, Busy, RunInv, [Next]_vars
    PROVE  RunInv'
<1>0. DiskTypes /\ RunTypes /\ ProcessTypes
  BY TypeParts
<1>1. ASSUME NEW h \in Handles, OwnerNext(h) PROVE RunInv'
  <2>1. CASE Create(h)
    <3>1. Forward
      BY <1>0, <2>1 DEF Create, Forward, runs, evidence, clients, DiskTypes
    <3>2. /\ Story(h) /\ Kin(h) /\ owner[h] \in OwnerStates /\ meta[h] \in MetaType
          /\ tree[h] \in BOOLEAN /\ Parent[h] \in Handles \cup {None}
      BY <1>0, ReaperAssumption DEF RunInv, RunTypes, DiskTypes
    <3>3. ClientInv'
      BY <1>0, <2>1, <3>2 DEF Create, Story, ClientInv, RunInv, Busy, RunTypes, runs,
                              evidence, clients
    <3>4. \A g \in Handles : g # h => Same(g)
      BY <1>0, <2>1 DEF Create, Same, Removing, DiskTypes, RunTypes, Add, runs, evidence,
                        clients
    <3>5. Removing(h)' <=> Removing(h)
      BY <2>1 DEF Create, Removing, runs, evidence, clients
    <3>6. Story(h)'
      BY <1>0, <2>1, <3>2, <3>5 DEF Create, Story, Unstarted, RunTypes, DiskTypes, runs,
                                    evidence, clients, Add, Locks
    <3>7. Kin(h)'
      BY <1>0, <2>1, <3>2, <3>5 DEF Create, Story, Kin, Unstarted, RunTypes, DiskTypes, runs,
                                    evidence, clients, Add, Locks
    <3>8. QED BY <3>1, <3>3, <3>4, <3>6, <3>7, OthersSame
  <2>2. CASE InitialMeta(h)
    <3>1. Forward
      BY <1>0, <2>2 DEF InitialMeta, Forward, runs, evidence, clients, WriteMeta, Add,
                        NewMeta, DiskTypes
    <3>2. /\ Story(h) /\ Kin(h) /\ owner[h] \in OwnerStates /\ meta[h] \in MetaType
          /\ tree[h] \in BOOLEAN /\ Parent[h] \in Handles \cup {None}
      BY <1>0, ReaperAssumption DEF RunInv, RunTypes, DiskTypes
    <3>3. ClientInv'
      BY <1>0, <2>2, <3>2 DEF InitialMeta, Story, ClientInv, RunInv, Busy, RunTypes, runs,
                              evidence, clients
    <3>4. \A g \in Handles : g # h => Same(g)
      BY <1>0, <2>2 DEF InitialMeta, Same, Removing, DiskTypes, RunTypes, Add, runs,
                        evidence, clients, WriteMeta, Add, NewMeta
    <3>5. Removing(h)' <=> Removing(h)
      BY <2>2 DEF InitialMeta, Removing, runs, evidence, clients
    <3>6. /\ meta'[h] = NewMeta
          /\ dir[h] = "present"
          /\ files'[h] = files[h] \cup {"meta"}
      BY <1>0, <2>2 DEF InitialMeta, WriteMeta, Add, DiskTypes
    <3>7. Story(h)'
      BY <1>0, <2>2, <3>2, <3>5, <3>6 DEF InitialMeta, Story, Unstarted, RunTypes, DiskTypes,
                                          runs, evidence, clients, NewMeta
    <3>8. Kin(h)'
      BY <1>0, <2>2, <3>2, <3>5, <3>6 DEF InitialMeta, Story, Kin, Unstarted, RunTypes,
                                          DiskTypes, runs, evidence, clients, NewMeta
    <3>9. QED BY <3>1, <3>3, <3>4, <3>7, <3>8, OthersSame
  <2>3. CASE Unwind(h)
    <3>1. Forward
      BY <1>0, <2>3 DEF Unwind, Forward, runs, evidence, clients, DiskTypes
    <3>2. /\ Story(h) /\ Kin(h) /\ owner[h] \in OwnerStates /\ meta[h] \in MetaType
          /\ tree[h] \in BOOLEAN /\ Parent[h] \in Handles \cup {None}
      BY <1>0, ReaperAssumption DEF RunInv, RunTypes, DiskTypes
    <3>3. ClientInv'
      BY <1>0, <2>3, <3>2 DEF Unwind, Story, ClientInv, RunInv, Busy, RunTypes, runs,
                              evidence, clients
    <3>4. \A g \in Handles : g # h => Same(g)
      BY <1>0, <2>3 DEF Unwind, Same, Removing, DiskTypes, RunTypes, Add, runs, evidence,
                        clients
    <3>5. Removing(h)' <=> Removing(h)
      BY <2>3 DEF Unwind, Removing, runs, evidence, clients
    <3>6. Story(h)'
      BY <1>0, <2>3, <3>2, <3>5 DEF Unwind, Story, Unstarted, RunTypes, DiskTypes, runs,
                                    evidence, clients
    <3>7. Kin(h)'
      BY <1>0, <2>3, <3>2, <3>5 DEF Unwind, Story, Kin, Unstarted, RunTypes, DiskTypes, runs,
                                    evidence, clients
    <3>8. QED BY <3>1, <3>3, <3>4, <3>6, <3>7, OthersSame
  <2>4. CASE Register(h)
    <3>1. Forward
      BY <1>0, <2>4 DEF Register, Forward, runs, evidence, clients, DiskTypes
    <3>2. /\ Story(h) /\ Kin(h) /\ owner[h] \in OwnerStates /\ meta[h] \in MetaType
          /\ tree[h] \in BOOLEAN /\ Parent[h] \in Handles \cup {None}
      BY <1>0, ReaperAssumption DEF RunInv, RunTypes, DiskTypes
    <3>3. ClientInv'
      BY <1>0, <2>4, <3>2 DEF Register, Story, ClientInv, RunInv, Busy, RunTypes, runs,
                              evidence, clients
    <3>4. \A g \in Handles : g # h => Same(g)
      BY <1>0, <2>4 DEF Register, Same, Removing, DiskTypes, RunTypes, Add, runs, evidence,
                        clients
    <3>5. Removing(h)' <=> Removing(h)
      BY <2>4 DEF Register, Removing, runs, evidence, clients
    <3>6. Story(h)'
      BY <1>0, <2>4, <3>2, <3>5 DEF Register, Story, Unstarted, RunTypes, DiskTypes, runs,
                                    evidence, clients, Add, Evidence
    <3>7. Kin(h)'
      BY <1>0, <2>4, <3>2, <3>5, ReaperAssumption DEF Register, Story, Kin, Unstarted,
         RunTypes, DiskTypes, runs, evidence, clients, Add, Evidence
    <3>8. QED BY <3>1, <3>3, <3>4, <3>6, <3>7, OthersSame
  <2>5. CASE RegisterFails(h)
    <3>1. Forward
      BY <1>0, <2>5 DEF RegisterFails, Forward, runs, evidence, clients, WriteMeta, Add,
                        NewMeta, DiskTypes
    <3>2. /\ Story(h) /\ Kin(h) /\ owner[h] \in OwnerStates /\ meta[h] \in MetaType
          /\ tree[h] \in BOOLEAN /\ Parent[h] \in Handles \cup {None}
      BY <1>0, ReaperAssumption DEF RunInv, RunTypes, DiskTypes
    <3>3. ClientInv'
      BY <1>0, <2>5, <3>2 DEF RegisterFails, Story, ClientInv, RunInv, Busy, RunTypes, runs,
                              evidence, clients
    <3>4. \A g \in Handles : g # h => Same(g)
      BY <1>0, <2>5 DEF RegisterFails, Same, Removing, DiskTypes, RunTypes, Add, runs,
                        evidence, clients, WriteMeta, Add, NewMeta
    <3>5. Removing(h)' <=> Removing(h)
      BY <2>5 DEF RegisterFails, Removing, runs, evidence, clients
    <3>6. /\ meta'[h] = [meta[h] EXCEPT !.state = "DONE"]
          /\ dir[h] = "present"
          /\ files'[h] = files[h] \cup {"meta"}
      BY <1>0, <2>5 DEF RegisterFails, WriteMeta, Add, DiskTypes
    <3>7. Story(h)'
      BY <1>0, <2>5, <3>2, <3>5, <3>6, RecordFields DEF RegisterFails, Story, Unstarted,
         RunTypes, DiskTypes, runs, evidence, clients
    <3>8. Kin(h)'
      BY <1>0, <2>5, <3>2, <3>5, <3>6, RecordFields DEF RegisterFails, Story, Kin, Unstarted,
         RunTypes, DiskTypes, runs, evidence, clients
    <3>9. QED BY <3>1, <3>3, <3>4, <3>7, <3>8, OthersSame
  <2>6. CASE Daemonize(h)
    <3>1. Forward
      BY <1>0, <2>6 DEF Daemonize, Forward, runs, evidence, clients, DiskTypes
    <3>2. /\ Story(h) /\ Kin(h) /\ owner[h] \in OwnerStates /\ meta[h] \in MetaType
          /\ tree[h] \in BOOLEAN /\ Parent[h] \in Handles \cup {None}
      BY <1>0, ReaperAssumption DEF RunInv, RunTypes, DiskTypes
    <3>3. ClientInv'
      BY <1>0, <2>6, <3>2 DEF Daemonize, Story, ClientInv, RunInv, Busy, RunTypes, runs,
                              evidence, clients
    <3>4. \A g \in Handles : g # h => Same(g)
      BY <1>0, <2>6 DEF Daemonize, Same, Removing, DiskTypes, RunTypes, Add, runs, evidence,
                        clients
    <3>5. Removing(h)' <=> Removing(h)
      BY <2>6 DEF Daemonize, Removing, runs, evidence, clients
    <3>6. Story(h)'
      BY <1>0, <2>6, <3>2, <3>5 DEF Daemonize, Story, Unstarted, RunTypes, DiskTypes, runs,
                                    evidence, clients
    <3>7. Kin(h)'
      BY <1>0, <2>6, <3>2, <3>5 DEF Daemonize, Story, Kin, Unstarted, RunTypes, DiskTypes,
                                    runs, evidence, clients
    <3>8. QED BY <3>1, <3>3, <3>4, <3>6, <3>7, OthersSame
  <2>7. CASE Start(h)
    <3>1. Forward
      BY <1>0, <2>7 DEF Start, Forward, runs, evidence, clients, WriteMeta, Add, NewMeta,
                        DiskTypes
    <3>2. /\ Story(h) /\ Kin(h) /\ owner[h] \in OwnerStates /\ meta[h] \in MetaType
          /\ tree[h] \in BOOLEAN /\ Parent[h] \in Handles \cup {None}
      BY <1>0, ReaperAssumption DEF RunInv, RunTypes, DiskTypes
    <3>3. ClientInv'
      BY <1>0, <2>7, <3>2 DEF Start, Story, ClientInv, RunInv, Busy, RunTypes, runs,
                              evidence, clients
    <3>4. \A g \in Handles : g # h => Same(g)
      BY <1>0, <2>7 DEF Start, Same, Removing, DiskTypes, RunTypes, Add, runs, evidence,
                        clients, WriteMeta, Add, NewMeta
    <3>5. Removing(h)' <=> Removing(h)
      BY <2>7 DEF Start, Removing, runs, evidence, clients
    <3>6. /\ meta'[h] = [meta[h] EXCEPT !.supervisor = TRUE, !.boot = "current"]
          /\ dir[h] = "present"
          /\ files'[h] = files[h] \cup {"meta"}
      BY <1>0, <2>7 DEF Start, WriteMeta, Add, DiskTypes
    <3>7. Story(h)'
      BY <1>0, <2>7, <3>2, <3>5, <3>6, RecordFields DEF Start, Story, Unstarted, RunTypes,
         DiskTypes, runs, evidence, clients
    <3>8. Kin(h)'
      BY <1>0, <2>7, <3>2, <3>5, <3>6, RecordFields DEF Start, Story, Kin, Unstarted,
         RunTypes, DiskTypes, runs, evidence, clients
    <3>9. QED BY <3>1, <3>3, <3>4, <3>7, <3>8, OthersSame
  <2>8. CASE Spawn(h)
    <3>1. Forward
      BY <1>0, <2>8 DEF Spawn, Forward, runs, evidence, clients, WriteMeta, Add, NewMeta,
                        DiskTypes
    <3>2. /\ Story(h) /\ Kin(h) /\ owner[h] \in OwnerStates /\ meta[h] \in MetaType
          /\ tree[h] \in BOOLEAN /\ Parent[h] \in Handles \cup {None}
      BY <1>0, ReaperAssumption DEF RunInv, RunTypes, DiskTypes
    <3>3. ClientInv'
      BY <1>0, <2>8, <3>2 DEF Spawn, Story, ClientInv, RunInv, Busy, RunTypes, runs,
                              evidence, clients
    <3>4. \A g \in Handles : g # h => Same(g)
      BY <1>0, <2>8 DEF Spawn, Same, Removing, DiskTypes, RunTypes, Add, runs, evidence,
                        clients, WriteMeta, Add, NewMeta
    <3>5. Removing(h)' <=> Removing(h)
      BY <2>8 DEF Spawn, Removing, runs, evidence, clients
    <3>6. /\ meta'[h] = [meta[h] EXCEPT !.workload = TRUE]
          /\ dir[h] = "present"
          /\ files'[h] = files[h] \cup {"meta"}
      BY <1>0, <2>8 DEF Spawn, WriteMeta, Add, DiskTypes
    <3>7. Story(h)'
      BY <1>0, <2>8, <3>2, <3>5, <3>6, RecordFields DEF Spawn, Story, Unstarted, RunTypes,
         DiskTypes, runs, evidence, clients
    <3>8. Kin(h)'
      BY <1>0, <2>8, <3>2, <3>5, <3>6, RecordFields DEF Spawn, Story, Kin, Unstarted,
         RunTypes, DiskTypes, runs, evidence, clients
    <3>9. QED BY <3>1, <3>3, <3>4, <3>7, <3>8, OthersSame
  <2>9. CASE TreeExits(h)
    <3>1. Forward
      BY <1>0, <2>9 DEF TreeExits, Forward, runs, evidence, clients, DiskTypes
    <3>2. /\ Story(h) /\ Kin(h) /\ owner[h] \in OwnerStates /\ meta[h] \in MetaType
          /\ tree[h] \in BOOLEAN /\ Parent[h] \in Handles \cup {None}
      BY <1>0, ReaperAssumption DEF RunInv, RunTypes, DiskTypes
    <3>3. ClientInv'
      BY <1>0, <2>9, <3>2 DEF TreeExits, Story, ClientInv, RunInv, Busy, RunTypes, runs,
                              evidence, clients
    <3>4. \A g \in Handles : g # h => Same(g)
      BY <1>0, <2>9 DEF TreeExits, Same, Removing, DiskTypes, RunTypes, Add, runs, evidence,
                        clients
    <3>5. Removing(h)' <=> Removing(h)
      BY <2>9 DEF TreeExits, Removing, runs, evidence, clients
    <3>6. Story(h)'
      BY <1>0, <2>9, <3>2, <3>5 DEF TreeExits, Story, Unstarted, RunTypes, DiskTypes, runs,
                                    evidence, clients
    <3>7. Kin(h)'
      BY <1>0, <2>9, <3>2, <3>5 DEF TreeExits, Story, Kin, Unstarted, RunTypes, DiskTypes,
                                    runs, evidence, clients
    <3>8. QED BY <3>1, <3>3, <3>4, <3>6, <3>7, OthersSame
  <2>10. CASE Complete(h)
    <3>1. Forward
      BY <1>0, <2>10 DEF Complete, Forward, runs, evidence, clients, WriteMeta, Add, NewMeta,
                         DiskTypes
    <3>2. /\ Story(h) /\ Kin(h) /\ owner[h] \in OwnerStates /\ meta[h] \in MetaType
          /\ tree[h] \in BOOLEAN /\ Parent[h] \in Handles \cup {None}
      BY <1>0, ReaperAssumption DEF RunInv, RunTypes, DiskTypes
    <3>3. ClientInv'
      BY <1>0, <2>10, <3>2 DEF Complete, Story, ClientInv, RunInv, Busy, RunTypes, runs,
                               evidence, clients
    <3>4. \A g \in Handles : g # h => Same(g)
      BY <1>0, <2>10 DEF Complete, Same, Removing, DiskTypes, RunTypes, Add, runs, evidence,
                         clients, WriteMeta, Add, NewMeta
    <3>5. Removing(h)' <=> Removing(h)
      BY <2>10 DEF Complete, Removing, runs, evidence, clients
    <3>6. /\ meta'[h] = [meta[h] EXCEPT !.state = "DONE", !.ready = tree[h]]
          /\ dir[h] = "present"
          /\ files'[h] = files[h] \cup {"meta"}
      BY <1>0, <2>10 DEF Complete, WriteMeta, Add, DiskTypes
    <3>7. Story(h)'
      BY <1>0, <2>10, <3>2, <3>5, <3>6, RecordFields DEF Complete, Story, Unstarted,
         RunTypes, DiskTypes, runs, evidence, clients, Responsible
    <3>8. Kin(h)'
      BY <1>0, <2>10, <3>2, <3>5, <3>6, RecordFields DEF Complete, Story, Kin, Unstarted,
         RunTypes, DiskTypes, runs, evidence, clients, Responsible
    <3>9. QED BY <3>1, <3>3, <3>4, <3>7, <3>8, OthersSame
  <2>11. CASE Deliver(h)
    <3>1. Forward
      BY <1>0, <2>11 DEF Deliver, Forward, runs, evidence, clients, WriteMeta, Add, NewMeta,
                         DiskTypes
    <3>2. /\ Story(h) /\ Kin(h) /\ owner[h] \in OwnerStates /\ meta[h] \in MetaType
          /\ tree[h] \in BOOLEAN /\ Parent[h] \in Handles \cup {None}
      BY <1>0, ReaperAssumption DEF RunInv, RunTypes, DiskTypes
    <3>3. ClientInv'
      BY <1>0, <2>11, <3>2 DEF Deliver, Story, ClientInv, RunInv, Busy, RunTypes, runs,
                               evidence, clients
    <3>4. \A g \in Handles : g # h => Same(g)
      BY <1>0, <2>11 DEF Deliver, Same, Removing, DiskTypes, RunTypes, Add, runs, evidence,
                         clients, WriteMeta, Add, NewMeta
    <3>5. Removing(h)' <=> Removing(h)
      BY <2>11 DEF Deliver, Removing, runs, evidence, clients
    <3>6. /\ meta'[h] = [meta[h] EXCEPT !.pending = FALSE]
          /\ dir[h] = "present"
          /\ files'[h] = files[h] \cup {"meta"}
      BY <1>0, <2>11 DEF Deliver, WriteMeta, Add, DiskTypes
    <3>7. Story(h)'
      BY <1>0, <2>11, <3>2, <3>5, <3>6, RecordFields DEF Deliver, Story, Unstarted, RunTypes,
         DiskTypes, runs, evidence, clients, Responsible
    <3>8. Kin(h)'
      BY <1>0, <2>11, <3>2, <3>5, <3>6, RecordFields DEF Deliver, Story, Kin, Unstarted,
         RunTypes, DiskTypes, runs, evidence, clients, Responsible
    <3>9. QED BY <3>1, <3>3, <3>4, <3>7, <3>8, OthersSame
  <2>12. CASE end_physical_custody(h)
    <3>1. Forward
      BY <1>0, <2>12 DEF end_physical_custody, Forward, runs, evidence, clients, DiskTypes
    <3>2. /\ Story(h) /\ Kin(h) /\ owner[h] \in OwnerStates /\ meta[h] \in MetaType
          /\ tree[h] \in BOOLEAN /\ Parent[h] \in Handles \cup {None}
      BY <1>0, ReaperAssumption DEF RunInv, RunTypes, DiskTypes
    <3>3. ClientInv'
      BY <1>0, <2>12, <3>2 DEF end_physical_custody, Story, ClientInv, RunInv, Busy,
                               RunTypes, runs, evidence, clients
    <3>4. \A g \in Handles : g # h => Same(g)
      BY <1>0, <2>12 DEF end_physical_custody, Same, Removing, DiskTypes, RunTypes, Add,
                         runs, evidence, clients
    <3>5. Removing(h)' <=> Removing(h)
      BY <2>12 DEF end_physical_custody, Removing, runs, evidence, clients
    <3>6. Story(h)'
      BY <1>0, <2>12, <3>2, <3>5 DEF end_physical_custody, Story, Unstarted, RunTypes,
                                     DiskTypes, runs, evidence, clients, Add, Responsible
    <3>7. Kin(h)'
      BY <1>0, <2>12, <3>2, <3>5 DEF end_physical_custody, Story, Kin, Unstarted, RunTypes,
                                     DiskTypes, runs, evidence, clients, Add, Responsible
    <3>8. QED BY <3>1, <3>3, <3>4, <3>6, <3>7, OthersSame
  <2>13. CASE OwnerExits(h)
    <3>1. Forward
      BY <1>0, <2>13 DEF OwnerExits, Forward, runs, evidence, clients, DiskTypes
    <3>2. /\ Story(h) /\ Kin(h) /\ owner[h] \in OwnerStates /\ meta[h] \in MetaType
          /\ tree[h] \in BOOLEAN /\ Parent[h] \in Handles \cup {None}
      BY <1>0, ReaperAssumption DEF RunInv, RunTypes, DiskTypes
    <3>3. ClientInv'
      BY <1>0, <2>13, <3>2 DEF OwnerExits, Story, ClientInv, RunInv, Busy, RunTypes, runs,
                               evidence, clients
    <3>4. \A g \in Handles : g # h => Same(g)
      BY <1>0, <2>13 DEF OwnerExits, Same, Removing, DiskTypes, RunTypes, Add, runs,
                         evidence, clients
    <3>5. Removing(h)' <=> Removing(h)
      BY <2>13 DEF OwnerExits, Removing, runs, evidence, clients
    <3>6. Story(h)'
      BY <1>0, <2>13, <3>2, <3>5 DEF OwnerExits, Story, Unstarted, RunTypes, DiskTypes, runs,
                                     evidence, clients
    <3>7. Kin(h)'
      BY <1>0, <2>13, <3>2, <3>5 DEF OwnerExits, Story, Kin, Unstarted, RunTypes, DiskTypes,
                                     runs, evidence, clients
    <3>8. QED BY <3>1, <3>3, <3>4, <3>6, <3>7, OthersSame
  <2>14. CASE GuardianExits(h)
    <3>1. Forward /\ ClientInv'
      BY <2>14 DEF GuardianExits, Forward, RunInv, ClientInv, runs, evidence, clients, Add
    <3>2. \A g \in Handles : Same(g)
      BY <1>0, <2>14 DEF GuardianExits, Same, Removing, DiskTypes, runs, evidence, clients, Add
    <3>3. QED BY <3>1, <3>2, AllSame
  <2>15. QED BY <1>1, <2>1, <2>2, <2>3, <2>4, <2>5, <2>6, <2>7, <2>8, <2>9, <2>10, <2>11,
         <2>12, <2>13, <2>14 DEF OwnerNext
<1>2. ASSUME NEW h \in Handles,
             \/ RunnerResults(h) \/ BrokerReleases(h) \/ Expire(h)
             \/ ReaderOpens(h) \/ ClientReads(h) \/ Die(h)
      PROVE RunInv'
  <2>1. CASE RunnerResults(h)
    <3>1. Forward /\ ClientInv'
      BY <2>1 DEF RunnerResults, Forward, RunInv, ClientInv, runs, evidence, clients, Add
    <3>2. \A g \in Handles : Same(g)
      BY <1>0, <2>1 DEF RunnerResults, Same, Removing, DiskTypes, runs, evidence, clients, Add
    <3>3. QED BY <3>1, <3>2, AllSame
  <2>2. CASE BrokerReleases(h)
    <3>1. Forward /\ ClientInv'
      BY <2>2 DEF BrokerReleases, Forward, RunInv, ClientInv, runs, evidence, clients, Add
    <3>2. \A g \in Handles : Same(g)
      BY <1>0, <2>2 DEF BrokerReleases, Same, Removing, DiskTypes, runs, evidence, clients, Add
    <3>3. QED BY <3>1, <3>2, AllSame
  <2>3. CASE Expire(h)
    <3>1. Forward /\ ClientInv'
      BY <2>3 DEF Expire, Forward, RunInv, ClientInv, runs, evidence, clients
    <3>2. \A g \in Handles : Same(g)
      BY <1>0, <2>3 DEF Expire, Same, Removing, DiskTypes, runs, evidence, clients
    <3>3. QED BY <3>1, <3>2, AllSame
  <2>4. CASE ReaderOpens(h)
    <3>1. Forward /\ ClientInv'
      BY <2>4 DEF ReaderOpens, Forward, RunInv, ClientInv, runs, evidence, clients, Add
    <3>2. \A g \in Handles : Same(g)
      BY <1>0, <2>4 DEF ReaderOpens, Same, Removing, DiskTypes, runs, evidence, clients, Add
    <3>3. QED BY <3>1, <3>2, AllSame
  <2>5. CASE ClientReads(h)
    <3>1. Forward /\ \A g \in Handles : Same(g)
      BY <2>5 DEF ClientReads, Forward, Same, Removing, runs, evidence
    <3>2. Story(h) /\ owner[h] \in OwnerStates /\ meta[h] \in MetaType
      BY <1>0 DEF RunInv, RunTypes, DiskTypes
    <3>3. owner[h] \in {"run", "gone"}
      <4>1. "meta" \in files[h]
        BY <2>5 DEF ClientReads
      <4>2. CASE meta[h].state = "RUNNING" /\ process_is_gone(meta[h].supervisor,
      meta[h].boot, SupervisorAlive(h))
        BY <3>2, <4>1, <4>2 DEF process_is_gone, SupervisorAlive, Story, Unstarted, OwnerStates
      <4>3. CASE meta[h].state = "DONE"
        BY <3>2, <4>1, <4>3 DEF Story, Unstarted, OwnerStates
      <4>4. QED BY <2>5, <4>2, <4>3 DEF ClientReads
    <3>4. ClientInv'
      BY <2>5, <3>3 DEF ClientReads, ClientInv, runs
    <3>5. QED BY <3>1, <3>4, AllSame
  <2>6. CASE Die(h)
    <3>1. Forward
      BY <1>0, <2>6 DEF Die, Forward, runs, evidence, clients, DiskTypes
    <3>2. /\ Story(h) /\ Kin(h) /\ owner[h] \in OwnerStates /\ meta[h] \in MetaType
          /\ tree[h] \in BOOLEAN /\ Parent[h] \in Handles \cup {None}
      BY <1>0, ReaperAssumption DEF RunInv, RunTypes, DiskTypes
    <3>3. ClientInv'
      BY <1>0, <2>6, <3>2 DEF Die, Story, ClientInv, RunInv, Busy, RunTypes, runs, evidence,
                              clients
    <3>4. \A g \in Handles : g # h => Same(g)
      BY <1>0, <2>6 DEF Die, Same, Removing, DiskTypes, RunTypes, Add, runs, evidence, clients
    <3>5. Removing(h)' <=> Removing(h)
      BY <2>6 DEF Die, Removing, runs, evidence, clients
    <3>6. Story(h)'
      BY <1>0, <2>6, <3>2, <3>5 DEF Die, Story, Unstarted, RunTypes, DiskTypes, runs,
                                    evidence, clients
    <3>7. Kin(h)'
      BY <1>0, <2>6, <3>2, <3>5 DEF Die, Story, Kin, Unstarted, RunTypes, DiskTypes, runs,
                                    evidence, clients
    <3>8. QED BY <3>1, <3>3, <3>4, <3>6, <3>7, OthersSame
  <2>7. QED BY <1>2, <2>1, <2>2, <2>3, <2>4, <2>5, <2>6
<1>3. ASSUME NEW r \in Reapers, ReapNext(r) \/ ReaperDies(r) PROVE RunInv'
  <2>1. CASE ReadCursor(r)
    <3>1. Forward /\ ClientInv'
      BY <2>1 DEF ReadCursor, Forward, RunInv, ClientInv, runs, evidence, clients
    <3>2. reaper'[r].at = "cursor" /\ \A q \in Reapers : q # r => reaper'[q] = reaper[q]
      BY <1>0, <2>1 DEF ReadCursor, ProcessTypes, PassType
    <3>3. \A g \in Handles : Removing(g)' => Removing(g)
      BY <3>2 DEF Removing
    <3>4. \A g \in Handles : Same(g)
      BY <2>1, <3>3 DEF ReadCursor, Same, runs, evidence, clients
    <3>5. QED BY <3>1, <3>4, AllSame
  <2>2. CASE WriteCursor(r)
    <3>1. Forward /\ ClientInv'
      BY <2>2 DEF WriteCursor, Forward, RunInv, ClientInv, runs, evidence, clients
    <3>2. reaper'[r].at = "scan" /\ \A q \in Reapers : q # r => reaper'[q] = reaper[q]
      BY <1>0, <2>2 DEF WriteCursor, ProcessTypes, PassType
    <3>3. \A g \in Handles : Removing(g)' => Removing(g)
      BY <3>2 DEF Removing
    <3>4. \A g \in Handles : Same(g)
      BY <2>2, <3>3 DEF WriteCursor, Same, runs, evidence, clients
    <3>5. QED BY <3>1, <3>4, AllSame
  <2>3. CASE Visit(r)
    <3>1. Forward /\ ClientInv'
      BY <2>3 DEF Visit, Forward, ClientInv, RunInv, runs, clients
    <3>2. PICK h \in reaper[r].todo, at \in {"scan", "remove"} :
             /\ Scan(r, h, at)
             /\ at = "remove" => dir[h] = "present" /\ state_dir_reap_eligible(h)
             /\ \/ files' = [files EXCEPT ![h] = @ \cup Locks]
                \/ Add(h, {"delivery"})
                \/ UNCHANGED files
      BY <2>3 DEF Visit, Open, Locks
    <3>3. h \in Handles /\ reaper[r] \in PassType
      BY <1>0, <3>2 DEF ProcessTypes, PassType
    <3>4. /\ \A q \in Reapers : q # r => reaper'[q] = reaper[q]
          /\ reaper'[r].at = "remove" => at = "remove" /\ reaper'[r].h = h
      BY <1>0, <3>2, <3>3 DEF Scan, PassType, ProcessTypes
    <3>5. \A g \in Handles : Removing(g)' => Removing(g) \/ (g = h /\ at = "remove")
      BY <3>4 DEF Removing
    <3>6. \A g \in Handles : /\ "meta" \in files'[g] => "meta" \in files[g]
                             /\ "accepted" \in files[g] => "accepted" \in files'[g]
      BY <1>0, <3>2, <3>3 DEF Add, Locks, DiskTypes
    <3>7. UNCHANGED <<dir, meta, custody, owner, tree>>
      BY <2>3 DEF Visit, runs
    <3>8. \A g \in Handles : g # h => Same(g)
      BY <3>5, <3>6, <3>7 DEF Same
    <3>9. Story(h) /\ Kin(h)
      BY <3>3 DEF RunInv
    <3>10. CASE at = "remove"
      <4>1. /\ tree[h] = FALSE /\ owner[h] = "gone"
            /\ Parent[h] # None /\ meta[h].supervisor = TRUE => dir[Parent[h]] # "present"
        BY <3>2, <3>3, <3>9, <3>10, EligibleIsOver
      <4>2. Story(h)' /\ Kin(h)'
        BY <3>3, <3>6, <3>7, <3>9, <4>1 DEF Story, Kin, Unstarted
      <4>3. QED BY <3>1, <3>3, <3>8, <4>2, OthersSame
    <3>11. CASE at = "scan"
      <4>1. Same(h)
        BY <3>3, <3>5, <3>6, <3>7, <3>11 DEF Same
      <4>2. QED BY <3>1, <3>8, <4>1, AllSame
    <3>12. QED BY <3>2, <3>10, <3>11
  <2>4. CASE RemoveNames(r)
    <3>0. PICK h \in Handles : h = reaper[r].h
      BY <2>4 DEF RemoveNames, Busy
    <3>1. Forward /\ ClientInv'
      BY <2>4 DEF RemoveNames, Forward, ClientInv, RunInv, runs
    <3>2. UNCHANGED <<dir, meta, owner,
    tree>> /\ \A g \in Handles : Removing(g)' <=> Removing(g)
      BY <2>4 DEF RemoveNames, runs, Removing
    <3>3. \A g \in Handles : /\ files'[g] \subseteq files[g]
                             /\ g # h => files'[g] = files[g] /\ custody'[g] = custody[g]
      BY <1>0, <2>4, <3>0 DEF RemoveNames, DiskTypes
    <3>4. Removing(h) /\ Story(h) /\ Kin(h)
      BY <2>4, <3>0 DEF RemoveNames, Removing, RunInv
    <3>5. Story(h)' /\ Kin(h)'
      BY <3>1, <3>2, <3>3, <3>4 DEF Story, Kin, Unstarted
    <3>6. \A g \in Handles : g # h => Same(g)
      BY <3>2, <3>3 DEF Same
    <3>7. QED BY <3>1, <3>5, <3>6, OthersSame
  <2>5. CASE RemoveDir(r)
    <3>0. PICK h \in Handles : h = reaper[r].h
      BY <2>5 DEF RemoveDir, Busy
    <3>1. ClientInv' /\ reaper[r] \in PassType
      BY <1>0, <2>5 DEF RemoveDir, ClientInv, RunInv, ProcessTypes, runs, clients
    <3>2. dir' = [dir EXCEPT ![h] = "removed"] /\ UNCHANGED <<files, meta, custody, owner,
    tree>>
      BY <2>5, <3>0 DEF RemoveDir, evidence, runs
    <3>3. Forward /\ \A g \in Handles : g # h => dir'[g] = dir[g]
      BY <1>0, <3>1, <3>2 DEF Forward, DiskTypes
    <3>4. reaper'[r].at = "scan" /\ \A q \in Reapers : q # r => reaper'[q] = reaper[q]
      BY <1>0, <2>5, <3>1 DEF RemoveDir, ProcessTypes, PassType
    <3>5. \A g \in Handles : Removing(g)' => Removing(g)
      BY <3>4 DEF Removing
    <3>6. Removing(h) /\ Story(h) /\ Kin(h)
      BY <2>5, <3>0 DEF RemoveDir, Removing, RunInv
    <3>7. dir'[h] = "removed"
      BY <1>0, <3>1, <3>2 DEF DiskTypes
    <3>8. Story(h)'
      BY <3>2, <3>6, <3>7 DEF Story, Unstarted
    <3>9. Kin(h)'
      <4>1. CASE Parent[h] = h
        BY <3>7, <4>1 DEF Kin
      <4>2. CASE Parent[h] # h /\ Parent[h] \in Handles
        BY <3>2, <3>3, <3>6, <4>2 DEF Kin
      <4>3. QED BY <3>1, <4>1, <4>2, ReaperAssumption DEF Kin
    <3>10. \A g \in Handles : g # h => Same(g)
      BY <3>2, <3>3, <3>5 DEF Same
    <3>11. QED BY <3>1, <3>3, <3>8, <3>9, <3>10, OthersSame
  <2>6. CASE RemoveFails(r)
    <3>1. Forward /\ ClientInv'
      BY <2>6 DEF RemoveFails, Forward, RunInv, ClientInv, runs, evidence, clients
    <3>2. reaper'[r].at = "scan" /\ \A q \in Reapers : q # r => reaper'[q] = reaper[q]
      BY <1>0, <2>6 DEF RemoveFails, ProcessTypes, PassType, Leave
    <3>3. \A g \in Handles : Removing(g)' => Removing(g)
      BY <3>2 DEF Removing
    <3>4. \A g \in Handles : Same(g)
      BY <2>6, <3>3 DEF RemoveFails, Same, runs, evidence, clients
    <3>5. QED BY <3>1, <3>4, AllSame
  <2>7. CASE EndPass(r)
    <3>1. Forward /\ ClientInv'
      BY <2>7 DEF EndPass, Forward, RunInv, ClientInv, runs, evidence, clients
    <3>2. reaper'[r].at = "idle" /\ \A q \in Reapers : q # r => reaper'[q] = reaper[q]
      BY <1>0, <2>7 DEF EndPass, ProcessTypes, PassType, Resting
    <3>3. \A g \in Handles : Removing(g)' => Removing(g)
      BY <3>2 DEF Removing
    <3>4. \A g \in Handles : Same(g)
      BY <2>7, <3>3 DEF EndPass, Same, runs, evidence, clients
    <3>5. QED BY <3>1, <3>4, AllSame
  <2>8. CASE ReaperDies(r)
    <3>1. Forward /\ ClientInv'
      BY <2>8 DEF ReaperDies, Forward, RunInv, ClientInv, runs, evidence, clients
    <3>2. reaper'[r].at = "idle" /\ \A q \in Reapers : q # r => reaper'[q] = reaper[q]
      BY <1>0, <2>8 DEF ReaperDies, ProcessTypes, PassType, Resting
    <3>3. \A g \in Handles : Removing(g)' => Removing(g)
      BY <3>2 DEF Removing
    <3>4. \A g \in Handles : Same(g)
      BY <2>8, <3>3 DEF ReaperDies, Same, runs, evidence, clients
    <3>5. QED BY <3>1, <3>4, AllSame
  <2>9. QED BY <1>3, <2>1, <2>2, <2>3, <2>4, <2>5, <2>6, <2>7, <2>8 DEF ReapNext
<1>4. CASE ReaderLocks
  <2>1. Forward /\ ClientInv'
    BY <1>4 DEF ReaderLocks, Forward, RunInv, ClientInv, runs, evidence, clients
  <2>2. \A g \in Handles : Same(g)
    BY <1>0, <1>4 DEF ReaderLocks, Same, Removing, DiskTypes, runs, evidence, clients
  <2>3. QED BY <2>1, <2>2, AllSame
<1>5. CASE ReaderReads
  <2>1. Forward /\ ClientInv'
    BY <1>5 DEF ReaderReads, Forward, RunInv, ClientInv, runs
  <2>2. reader.h \in Handles
    BY <1>5 DEF ReaderReads, Busy
  <2>3. \A g \in Handles : Same(g)
    BY <1>0, <1>5, <2>2 DEF ReaderReads, Add, Same, Removing, DiskTypes, runs
  <2>4. QED BY <2>1, <2>3, AllSame
<1>6. CASE ClientWrites
  <2>0. PICK h \in Handles : h = client.h
    BY <1>6 DEF ClientWrites, Busy
  <2>1. Forward
    BY <1>6 DEF ClientWrites, Forward
  <2>2. /\ Story(h) /\ Kin(h) /\ owner[h] \in {"run", "gone"} /\ meta[h] \in MetaType
    BY <1>0, <1>6, <2>0 DEF ClientWrites, RunInv, ClientInv, DiskTypes
  <2>3. ClientInv'
    BY <1>0, <1>6, <2>0, <2>2 DEF ClientWrites, ClientInv, ProcessTypes, runs
  <2>4. \A g \in Handles : g # h => Same(g)
    BY <1>0, <1>6, <2>0 DEF ClientWrites, WriteMeta, Add, Same, Removing, DiskTypes, runs
  <2>5. CASE WriteMeta(h, [meta[h] EXCEPT !.state = "DONE"])
    <3>1. /\ meta'[h] = [meta[h] EXCEPT !.state = "DONE"] /\ files'[h] = files[h] \cup {"meta"}
      BY <1>0, <2>1, <2>5 DEF WriteMeta, Add, DiskTypes
    <3>2. /\ meta'[h].supervisor = meta[h].supervisor /\ meta'[h].boot = meta[h].boot
      BY <2>2, <3>1, RecordFields
    <3>3. UNCHANGED <<dir, custody, owner, tree>> /\ (Removing(h)' <=> Removing(h))
      BY <1>6 DEF ClientWrites, Removing, runs
    <3>4. Story(h)' /\ Kin(h)'
      BY <2>2, <3>1, <3>2, <3>3 DEF Story, Kin, Unstarted
    <3>5. QED BY <2>1, <2>3, <2>4, <3>4, OthersSame
  <2>6. CASE UNCHANGED <<files, meta>>
    <3>1. Same(h)
      BY <1>6, <2>6 DEF ClientWrites, Same, Removing, runs
    <3>2. QED BY <2>1, <2>3, <2>4, <3>1, AllSame
  <2>7. QED BY <1>6, <2>0, <2>5, <2>6 DEF ClientWrites
<1>7. CASE ClientDelivers
  <2>1. Forward
    BY <1>7 DEF ClientDelivers, Forward
  <2>2. client.h \in Handles /\ ClientInv
    BY <1>7 DEF ClientDelivers, Busy, RunInv
  <2>3. ClientInv'
    BY <1>0, <1>7, <2>2 DEF ClientDelivers, ClientInv, ProcessTypes, runs
  <2>4. \A g \in Handles : Same(g)
    BY <1>0, <1>7, <2>2 DEF ClientDelivers, Add, Same, Removing, DiskTypes, runs
  <2>5. QED BY <2>1, <2>3, <2>4, AllSame
<1>8. CASE ClientEnds
  <2>0. PICK h \in Handles : h = client.h
    BY <1>8 DEF ClientEnds, Busy
  <2>1. Forward
    BY <1>8 DEF ClientEnds, Forward
  <2>2. /\ Story(h) /\ Kin(h) /\ owner[h] \in {"run", "gone"} /\ meta[h] \in MetaType
    BY <1>0, <1>8, <2>0 DEF ClientEnds, RunInv, ClientInv, DiskTypes
  <2>3. ClientInv'
    BY <1>0, <1>8, <2>0, <2>2 DEF ClientEnds, ClientInv, ProcessTypes, runs
  <2>4. \A g \in Handles : g # h => Same(g)
    BY <1>0, <1>8, <2>0 DEF ClientEnds, WriteMeta, Add, Same, Removing, DiskTypes, runs
  <2>5. CASE WriteMeta(h, [meta[h] EXCEPT !.pending = FALSE])
    <3>1. /\ meta'[h] = [meta[h] EXCEPT !.pending = FALSE] /\ files'[h] = files[h] \cup {"meta"}
      BY <1>0, <2>1, <2>5 DEF WriteMeta, Add, DiskTypes
    <3>2. /\ meta'[h].supervisor = meta[h].supervisor /\ meta'[h].boot = meta[h].boot
      BY <2>2, <3>1, RecordFields
    <3>3. UNCHANGED <<dir, custody, owner, tree>> /\ (Removing(h)' <=> Removing(h))
      BY <1>8 DEF ClientEnds, Removing, runs
    <3>4. Story(h)' /\ Kin(h)'
      BY <2>2, <3>1, <3>2, <3>3 DEF Story, Kin, Unstarted
    <3>5. QED BY <2>1, <2>3, <2>4, <3>4, OthersSame
  <2>6. CASE UNCHANGED <<files, meta>>
    <3>1. Same(h)
      BY <1>8, <2>6 DEF ClientEnds, Same, Removing, runs
    <3>2. QED BY <2>1, <2>3, <2>4, <3>1, AllSame
  <2>7. QED BY <1>8, <2>0, <2>5, <2>6 DEF ClientEnds
<1>9. CASE Reboot
  <2>1. ClientInv' /\ UNCHANGED <<dir, files>> /\ tree' = [h \in Handles |-> FALSE]
    BY <1>9 DEF Reboot, ClientInv
  <2>2. \A h \in Handles : ~Removing(h)'
    BY <1>9 DEF Reboot, Removing, Resting
  <2>3. ASSUME NEW h \in Handles PROVE Story(h)' /\ Kin(h)'
    <3> DEFINE Former(marker) == IF marker = "current" THEN "previous" ELSE marker
    <3>1. meta[h] \in MetaType /\ owner[h] \in OwnerStates
      BY <1>0 DEF DiskTypes, RunTypes
    <3>2. meta'[h] = [meta[h] EXCEPT !.boot = Former(@)]
      BY <1>9 DEF Reboot
    <3>3. meta'[h].state = meta[h].state /\ meta'[h].supervisor = meta[h].supervisor
      BY <3>1, <3>2 DEF MetaType
    <3>4. owner'[h] = IF owner[h] = "none" THEN "none" ELSE "gone"
      BY <1>9 DEF Reboot
    <3>5. Story(h) /\ Kin(h)
      BY DEF RunInv
    <3>6. QED BY <2>1, <2>2, <3>3, <3>4, <3>5 DEF Story, Kin, Unstarted
  <2>4. QED BY <2>1, <2>3 DEF RunInv
<1>10. CASE UNCHANGED vars
  <2>1. Forward /\ ClientInv'
    BY <1>10 DEF vars, Forward, RunInv, ClientInv, runs, evidence, clients
  <2>2. \A g \in Handles : Same(g)
    BY <1>0, <1>10 DEF vars, Same, Removing, DiskTypes, runs, evidence, clients
  <2>3. QED BY <2>1, <2>2, AllSame
<1>11. QED BY <1>1, <1>2, <1>3, <1>4, <1>5, <1>6, <1>7, <1>8, <1>9, <1>10 DEF Next,
ReaderNext, ClientNext

-----------------------------------------------------------------------------
(* Theorems *)

ReaperInv == TypeOK /\ Busy /\ RunInv

\* A state root with the directories of runs that are over.
LEMMA ReaperInit == Init => ReaperInv
<1> SUFFICES ASSUME Init PROVE ReaperInv
  OBVIOUS
<1>1. DiskTypes
  <2>1. OverMeta \in MetaType /\ NewMeta \in MetaType
    BY DEF OverMeta, NewMeta, MetaType, Boots
  <2>2. \A h \in Handles : OverFiles(h) \in SUBSET Names
    BY DEF OverFiles, Evidence, Locks, Names
  <2>3. QED BY <2>1, <2>2 DEF Init, DiskTypes, Boots
<1>2. RunTypes
  BY DEF Init, RunTypes, OwnerStates
<1>3. ProcessTypes
  <2>1. Unlocked \in LockType
    BY DEF Unlocked, LockType
  <2>2. 0 \in 0 .. Shards - 1 /\ 0 \in 0 .. MaxCommands /\ 0 \in 0 .. MaxFaults
    BY ReaperAssumption
  <2>3. QED BY <2>1, <2>2, RestingTyped DEF Init, ProcessTypes
<1>4. Busy
  BY DEF Init, Busy, Resting
<1>5. ASSUME NEW h \in Handles PROVE Story(h) /\ Kin(h)
  <2>1. ~Removing(h)
    BY DEF Init, Removing, Resting
  <2>2. NewMeta.state = "RUNNING" /\ NewMeta.supervisor = FALSE
    BY DEF NewMeta
  <2>3. CASE h \in Ended
    <3>1. Story(h)
      BY <2>1, <2>3 DEF Init, Story, Unstarted
    <3>2. Parent[h] # None => "accepted" \in files[h] /\ dir[Parent[h]] = "present" /\ dir[h] = "present"
      BY <2>3, ReaperAssumption DEF Init, OverFiles, Evidence
    <3>3. QED BY <2>1, <3>1, <3>2 DEF Kin
  <2>4. CASE h \notin Ended
    BY <2>1, <2>2, <2>4 DEF Init, Story, Kin, Unstarted
  <2>5. QED BY <2>3, <2>4
<1>6. QED BY <1>1, <1>2, <1>3, <1>4, <1>5, TypeParts DEF ReaperInv, RunInv, ClientInv, Init

\* The invariant of the state root, for any number of runs, passes and faults.
LEMMA ReaperHolds == Spec => []ReaperInv
<1>1. ReaperInv /\ [Next]_vars => ReaperInv'
  BY TypeStep, RunInvStep DEF ReaperInv
<1>2. QED BY <1>1, ReaperInit, PTL DEF Spec

\* Type correctness: a pass stays within AGENT_BASH_STATE_REAP_MAX_SCAN and MAX_DIRS
\* (reap_limits_reached), and the cursor within the shards.
THEOREM ReaperTypeCorrect == Spec => []TypeOK
<1>1. ReaperInv => TypeOK
  BY DEF ReaperInv
<1>2. QED BY <1>1, ReaperHolds, PTL

\* From the eligibility check to the end of the removal no process of the run is left
\* and none will start (state_dir_reap_eligible, physical_custody_may_remain).
THEOREM RemovalIsQuiet == Spec => []QuietRemoval
<1>1. ReaperInv => QuietRemoval
  BY DEF ReaperInv, RunInv, Story, QuietRemoval
<1>2. QED BY <1>1, ReaperHolds, PTL

\* A directory of accepted nested work is not touched while its parent's exists, for
\* every depth of nesting (causal_parent_retains).
THEOREM EvidenceIsKept == Spec => []CausalEvidenceKept
<1>1. ReaperInv => CausalEvidenceKept
  BY DEF ReaperInv, RunInv, Kin, CausalEvidenceKept
<1>2. QED BY <1>1, ReaperHolds, PTL
=============================================================================
