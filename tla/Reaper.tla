------------------------------- MODULE Reaper -------------------------------
(***************************************************************************)
(* The state directories under one state root and the processes that race  *)
(* over their removal: the runs that create and supervise them, the reap   *)
(* pass every run starts with (state.rs, reap_state_dirs), the readers of  *)
(* retained output (retained_output.rs) and a client that reconciles and   *)
(* delivers a lost run.                                                    *)
(*                                                                         *)
(* A directory is removed file by file, its lock files included, while the *)
(* reaper holds the locks on the inodes it unlinks: a process that opens a *)
(* lock file meanwhile creates a new one, and the final rmdir fails.       *)
(***************************************************************************)
EXTENDS Integers, FiniteSets

CONSTANTS Handles,     \* state directories
          Reapers,     \* reaping runs, one pass at a time each
          Recurrent,   \* the reaper whose passes are unbounded
          Parent,      \* accepted parent work of a nested handle, or None
          Accepted,    \* handles accepted by a root runner
          Versioned,   \* handles with a completion-continuation-v2 source
          Ended,       \* runs that were over before the first step
          Shard,       \* handle_reap_shard of every handle
          Shards,      \* AGENT_BASH_STATE_REAP_SHARDS
          MaxScan,     \* AGENT_BASH_STATE_REAP_MAX_SCAN
          MaxDirs,     \* AGENT_BASH_STATE_REAP_MAX_DIRS
          MaxCommands, \* bound on other commands: reads, reconciliations and
                       \* the passes of the other reapers
          MaxFaults,   \* bound on deaths and reboots
          None

ASSUME ReaperAssumption ==
    /\ Recurrent \in Reapers /\ None \notin Handles
    /\ Parent \in [Handles -> Handles \cup {None}]
    /\ {Accepted, Versioned, Ended} \subseteq SUBSET Handles
    \* Nested work is work a parent accepted, and it was accepted before the parent ended.
    /\ \A h \in Handles : Parent[h] # None =>
          h \in Accepted /\ (h \in Ended => Parent[h] \in Ended)
    /\ Shards \in Nat \ {0} /\ Shard \in [Handles -> 0 .. Shards - 1]
    /\ {MaxScan, MaxDirs} \subseteq Nat \ {0}
    /\ {MaxCommands, MaxFaults} \subseteq Nat

VARIABLES
    dir,       \* "absent", "present" or "removed"
    files,     \* the names in the directory that matter
    fresh,     \* a name was created since the removal listed the directory
    meta,      \* content of meta.json
    custody,   \* physical custody marker: the boot it records
    transfer,  \* external transfer marker: the boot it records
    expired,   \* the retention period has passed since the last update
    owner,     \* the run: registration worker, then supervisor
    guardian,  \* the adopting guardian is alive
    tree,      \* processes of the workload exist
    helper,    \* a completion helper runs for an external publisher
    lock,      \* holders of the delivery, custody and output locks
    cursor,    \* the shard cursor file
    reaper,    \* one reap pass per reaper
    reader,    \* the snapshot or accept-output command
    client,    \* the client that reconciles a lost run
    commands,  \* commands of readers, clients and other reapers so far
    faults     \* deaths and reboots so far

runs    == <<owner, guardian, tree>>
evidence == <<files, fresh, meta, custody, transfer, expired>>
clients == <<reader, client, helper, commands>>
vars    == <<dir, evidence, runs, clients, lock, cursor, reaper, faults>>

Names == {"log", "meta", "accepted", "v2", "release", "result", "receipt",
          "delivery", "custody", "output"}

Boots == {"none", "current", "previous"}

Locks == {"delivery", "custody", "output"}

Unlocked == [l \in Locks |-> "noone"]

NewMeta == [state |-> "RUNNING", supervisor |-> FALSE, workload |-> FALSE,
            boot |-> "none", ready |-> FALSE, pending |-> TRUE]

Resting == [at |-> "idle", shard |-> 0, todo |-> {}, scanned |-> 0,
            reaped |-> 0, h |-> None]

\* What a completed, delivered and drained run leaves behind.
OverMeta == [NewMeta EXCEPT !.state = "DONE", !.supervisor = TRUE,
                            !.workload = TRUE, !.boot = "current", !.pending = FALSE]

Evidence(h) == {n \in {"accepted"} : h \in Accepted} \cup {n \in {"v2"} : h \in Versioned}

OverFiles(h) == {"log", "meta"} \cup Locks \cup Evidence(h)

Init ==
    /\ dir = [h \in Handles |-> IF h \in Ended THEN "present" ELSE "absent"]
    /\ files = [h \in Handles |-> IF h \in Ended THEN OverFiles(h) ELSE {}]
    /\ fresh = [h \in Handles |-> FALSE]
    /\ meta = [h \in Handles |-> IF h \in Ended THEN OverMeta ELSE NewMeta]
    /\ owner = [h \in Handles |-> IF h \in Ended THEN "gone" ELSE "none"]
    /\ custody = [h \in Handles |-> "none"]
    /\ transfer = [h \in Handles |-> "none"]
    /\ expired = [h \in Handles |-> h \in Ended]
    /\ guardian = [h \in Handles |-> FALSE]
    /\ tree = [h \in Handles |-> FALSE]
    /\ lock = [h \in Handles |-> Unlocked]
    /\ cursor = 0
    /\ reaper = [r \in Reapers |-> Resting]
    /\ reader = [at |-> "idle", h |-> None]
    /\ client = [at |-> "idle", h |-> None]
    /\ helper = [h \in Handles |-> FALSE]
    /\ commands = 0 /\ faults = 0

Removing(h) == \E r \in Reapers : reaper[r].at = "remove" /\ reaper[r].h = h

\* A name created during a removal is one its listing may have passed.
Add(h, names) ==
    /\ files' = [files EXCEPT ![h] = @ \cup names]
    /\ fresh' = [fresh EXCEPT ![h] = @ \/ (Removing(h) /\ ~(names \subseteq files[h]))]

Holds(h, l, who) == lock' = [lock EXCEPT ![h] = [@ EXCEPT ![l] = who]]

Open(h, l) == dir[h] = "present" /\ lock[h][l] = "noone"

\* write_meta_atomic touches updated_at, from which the age is counted.
WriteMeta(h, record) ==
    /\ dir[h] = "present"
    /\ Add(h, {"meta"})
    /\ meta' = [meta EXCEPT ![h] = record]
    /\ expired' = [expired EXCEPT ![h] = FALSE]

(***************************************************************************)
(* A run: from its directory to the exit of its supervisor.                *)
(***************************************************************************)

\* Nested work is admitted under a live parent; the model asks for no more
\* than the parent's directory.  The lock files appear when they are first
\* opened; none of the guards tells that moment.
Create(h) ==
    /\ dir[h] = "absent"
    /\ Parent[h] # None => dir[Parent[h]] = "present"
    /\ dir' = [dir EXCEPT ![h] = "present"]
    /\ Add(h, {"log"} \cup Locks)
    /\ owner' = [owner EXCEPT ![h] = "created"]
    /\ UNCHANGED <<meta, custody, transfer, expired, guardian, tree, clients,
                   lock, cursor, reaper, faults>>

InitialMeta(h) ==
    /\ owner[h] = "created"
    /\ WriteMeta(h, NewMeta)
    /\ owner' = [owner EXCEPT ![h] = "register"]
    /\ UNCHANGED <<dir, custody, transfer, guardian, tree, clients, lock,
                   cursor, reaper, faults>>

\* A run whose delivery helper cannot be bound, or whose attached guard is
\* gone, removes its own directory, without any of the locks.
Unwind(h) ==
    /\ owner[h] \in {"created", "register"}
    /\ dir' = [dir EXCEPT ![h] = "removed"] /\ files' = [files EXCEPT ![h] = {}]
    /\ owner' = [owner EXCEPT ![h] = "gone"]
    /\ UNCHANGED <<fresh, meta, custody, transfer, expired, guardian, tree,
                   clients, lock, cursor, reaper, faults>>

\* Acceptance by the root runner and preparation of a v2 source precede
\* the registration of the completion event.
Register(h) ==
    /\ owner[h] = "register"
    /\ Add(h, Evidence(h))
    /\ owner' = [owner EXCEPT ![h] = "daemonize"]
    /\ UNCHANGED <<dir, meta, custody, transfer, expired, guardian, tree,
                   clients, lock, cursor, reaper, faults>>

\* A failed registration is recorded as the terminal state of the run.
RegisterFails(h) ==
    /\ owner[h] = "register"
    /\ WriteMeta(h, [meta[h] EXCEPT !.state = "DONE"])
    /\ owner' = [owner EXCEPT ![h] = "gone"]
    /\ UNCHANGED <<dir, custody, transfer, guardian, tree, clients, lock,
                   cursor, reaper, faults>>

\* begin_physical_custody, then the fork of the supervisor.
Daemonize(h) ==
    /\ owner[h] = "daemonize" /\ dir[h] = "present"
    /\ custody' = [custody EXCEPT ![h] = "current"]
    /\ guardian' = [guardian EXCEPT ![h] = TRUE]
    /\ owner' = [owner EXCEPT ![h] = "start"]
    /\ UNCHANGED <<dir, files, fresh, meta, transfer, expired, tree, clients,
                   lock, cursor, reaper, faults>>

\* The supervisor records its identity before it spawns the workload.
Start(h) ==
    /\ owner[h] = "start"
    /\ WriteMeta(h, [meta[h] EXCEPT !.supervisor = TRUE, !.boot = "current"])
    /\ owner' = [owner EXCEPT ![h] = "spawn"]
    /\ UNCHANGED <<dir, custody, transfer, guardian, tree, clients, lock,
                   cursor, reaper, faults>>

Spawn(h) ==
    /\ owner[h] = "spawn"
    /\ WriteMeta(h, [meta[h] EXCEPT !.workload = TRUE])
    /\ tree' = [tree EXCEPT ![h] = TRUE]
    /\ owner' = [owner EXCEPT ![h] = "run"]
    /\ UNCHANGED <<dir, custody, transfer, guardian, clients, lock, cursor,
                   reaper, faults>>

TreeExits(h) ==
    /\ tree[h]
    /\ tree' = [tree EXCEPT ![h] = FALSE]
    /\ UNCHANGED <<dir, evidence, owner, guardian, clients, lock, cursor, reaper, faults>>

Responsible(h) == owner[h] = "run" \/ (owner[h] = "gone" /\ guardian[h])

\* A ready sentinel completes a run whose workload goes on.
Complete(h) ==
    /\ Responsible(h) /\ "meta" \in files[h]
    /\ \/ meta[h].state = "RUNNING" /\ (~tree[h] \/ owner[h] = "run")
       \/ meta[h].ready /\ ~tree[h] /\ owner[h] = "run"
    /\ WriteMeta(h, [meta[h] EXCEPT !.state = "DONE", !.ready = tree[h]])
    /\ UNCHANGED <<dir, custody, transfer, runs, clients, lock, cursor, reaper, faults>>

\* Delivery by the run's own processes, covered by the physical custody.
Deliver(h) ==
    /\ Responsible(h) /\ Open(h, "delivery")
    /\ "meta" \in files[h] /\ meta[h].state = "DONE" /\ meta[h].pending
    /\ WriteMeta(h, [meta[h] EXCEPT !.pending = FALSE])
    /\ UNCHANGED <<dir, custody, transfer, runs, clients, lock, cursor, reaper, faults>>

\* Only an observer of the empty tree discharges the physical custody.
end_physical_custody(h) ==
    /\ Responsible(h) /\ ~tree[h] /\ custody[h] # "none"
    /\ meta[h].state = "DONE" /\ ~meta[h].pending /\ Open(h, "custody")
    /\ custody' = [custody EXCEPT ![h] = "none"]
    /\ Add(h, {"custody"})
    /\ UNCHANGED <<dir, meta, transfer, expired, runs, clients, lock, cursor,
                   reaper, faults>>

\* A root-scope run exits before the rest of its tree.
OwnerExits(h) ==
    /\ owner[h] = "run" /\ meta[h].state = "DONE"
    /\ ~meta[h].pending /\ ~meta[h].ready
    /\ tree[h] \/ custody[h] = "none"
    /\ owner' = [owner EXCEPT ![h] = "gone"]
    /\ UNCHANGED <<dir, evidence, guardian, tree, clients, lock, cursor, reaper, faults>>

\* The guardian, too, opens the custody lock before it finds nothing left.
GuardianExits(h) ==
    /\ guardian[h] /\ owner[h] = "gone" /\ custody[h] = "none"
    /\ guardian' = [guardian EXCEPT ![h] = FALSE]
    /\ IF dir[h] = "present" THEN Add(h, {"custody"}) ELSE UNCHANGED <<files, fresh>>
    /\ UNCHANGED <<dir, meta, custody, transfer, expired, owner, tree, clients,
                   lock, cursor, reaper, faults>>

\* The runner states that the tree of the accepted work is drained.
RunnerResults(h) ==
    /\ "accepted" \in files[h] /\ Parent[h] = None /\ "result" \notin files[h]
    /\ dir[h] = "present" /\ meta[h].state = "DONE" /\ custody[h] = "none"
    /\ Add(h, {"result"})
    /\ UNCHANGED <<dir, meta, custody, transfer, expired, runs, clients, lock,
                   cursor, reaper, faults>>

\* The broker's root-owned receipt for the exact source bytes.
BrokerReleases(h) ==
    /\ h \in Versioned /\ dir[h] = "present" /\ {"v2", "meta"} \subseteq files[h]
    /\ meta[h].state = "DONE" /\ "release" \notin files[h]
    /\ Add(h, {"release"})
    /\ UNCHANGED <<dir, meta, custody, transfer, expired, runs, clients, lock,
                   cursor, reaper, faults>>

Expire(h) ==
    /\ dir[h] = "present" /\ ~expired[h]
    /\ expired' = [expired EXCEPT ![h] = TRUE]
    /\ UNCHANGED <<dir, files, fresh, meta, custody, transfer, runs, clients,
                   lock, cursor, reaper, faults>>

(***************************************************************************)
(* Eligibility, as the reaper reads it from the directory.                 *)
(***************************************************************************)

\* The identity of a process that was never recorded is unavailable; one of
\* another boot is a mismatch.
process_is_gone(recorded, boot, alive) ==
    recorded /\ (boot = "previous" \/ ~alive)

causal_parent_retains(h) ==
    /\ "accepted" \in files[h] /\ Parent[h] # None
    /\ dir[Parent[h]] = "present"

retention_released(h) == {"release", "v2"} \subseteq files[h]

accepted_root_result_pending(h) ==
    /\ "accepted" \in files[h] /\ Parent[h] = None
    /\ "result" \notin files[h]

physical_custody_may_remain(h) == "current" \in {custody[h], transfer[h]}

SupervisorAlive(h) == owner[h] \in {"spawn", "run"}

supervisor_may_run(h) ==
    /\ meta[h].supervisor
    /\ ~process_is_gone(TRUE, meta[h].boot, SupervisorAlive(h))

meta_is_reap_terminal(h) ==
    /\ meta[h].state = "DONE"
    /\ meta[h].ready => process_is_gone(meta[h].workload, meta[h].boot, tree[h])

meta_processes_are_gone(h) ==
    /\ process_is_gone(meta[h].supervisor, meta[h].boot, SupervisorAlive(h))
    /\ process_is_gone(meta[h].workload, meta[h].boot, tree[h])

settled_or_lost(h) ==
    \/ meta_is_reap_terminal(h) /\ ~meta[h].pending
    \/ meta[h].state = "RUNNING" /\ meta_processes_are_gone(h)

\* An eligibility that forgets the custody markers.
EligibleWithoutCustody(h) ==
    /\ ~causal_parent_retains(h) /\ ~accepted_root_result_pending(h)
    /\ "v2" \in files[h] => retention_released(h)
    /\ "meta" \in files[h] /\ ~supervisor_may_run(h) /\ expired[h]
    /\ settled_or_lost(h)

\* An eligibility that forgets the causal parent.
EligibleWithoutParent(h) ==
    /\ ~accepted_root_result_pending(h)
    /\ "v2" \in files[h] => retention_released(h)
    /\ "meta" \in files[h] /\ ~physical_custody_may_remain(h)
    /\ ~supervisor_may_run(h) /\ expired[h] /\ settled_or_lost(h)

state_dir_reap_eligible(h) ==
    /\ ~causal_parent_retains(h)
    /\ "v2" \in files[h] => retention_released(h)
    /\ ~accepted_root_result_pending(h)
    /\ "meta" \in files[h]
    /\ ~physical_custody_may_remain(h)
    /\ ~supervisor_may_run(h)
    /\ expired[h]
    /\ settled_or_lost(h)

(***************************************************************************)
(* One reap pass.                                                          *)
(***************************************************************************)

\* A pass lists the root and takes its shard from the cursor, which is read
\* and rewritten without any lock: one that another pass has truncated and
\* not yet written reads as 0.
ReadCursor(r) ==
    /\ reaper[r].at = "idle"
    /\ r # Recurrent => commands < MaxCommands
    /\ commands' = IF r = Recurrent THEN commands ELSE commands + 1
    /\ \E current \in {cursor} \cup {0 : q \in {q \in Reapers : reaper[q].at = "cursor"}} :
        reaper' = [reaper EXCEPT ![r] = [@ EXCEPT
            !.at = "cursor", !.shard = current,
            !.todo = {h \in Handles : dir[h] = "present"},
            !.scanned = 0, !.reaped = 0]]
    /\ UNCHANGED <<dir, evidence, runs, reader, client, helper, lock, cursor, faults>>

\* A cursor that is never advanced keeps every pass on its own shard.
WriteCursorUnmoved(r) ==
    /\ reaper[r].at = "cursor"
    /\ cursor' = reaper[r].shard
    /\ reaper' = [reaper EXCEPT ![r] = [@ EXCEPT !.at = "scan",
            !.todo = {h \in reaper[r].todo : Shard[h] = reaper[r].shard}]]
    /\ UNCHANGED <<dir, evidence, runs, clients, lock, faults>>

\* A cursor that is not taken modulo the number of shards.
WriteCursorBeyond(r) ==
    /\ reaper[r].at = "cursor"
    /\ cursor' = reaper[r].shard + 1
    /\ reaper' = [reaper EXCEPT ![r] = [@ EXCEPT !.at = "scan",
            !.todo = {h \in reaper[r].todo : Shard[h] = reaper[r].shard}]]
    /\ UNCHANGED <<dir, evidence, runs, clients, lock, faults>>

WriteCursor(r) ==
    /\ reaper[r].at = "cursor"
    /\ cursor' = (reaper[r].shard + 1) % Shards
    /\ reaper' = [reaper EXCEPT ![r] = [@ EXCEPT !.at = "scan",
            !.todo = {h \in reaper[r].todo : Shard[h] = reaper[r].shard}]]
    /\ UNCHANGED <<dir, evidence, runs, clients, lock, faults>>

reap_limits_reached(r) ==
    reaper[r].scanned >= MaxScan \/ reaper[r].reaped >= MaxDirs

EndPass(r) ==
    /\ reaper[r].at = "scan"
    /\ reaper[r].todo = {} \/ reap_limits_reached(r)
    /\ reaper' = [reaper EXCEPT ![r] = Resting]
    /\ UNCHANGED <<dir, evidence, runs, clients, lock, cursor, faults>>

Scan(r, h, at) ==
    reaper' = [reaper EXCEPT ![r] = [@ EXCEPT !.at = at, !.todo = reaper[r].todo \ {h},
                                              !.h = IF at = "scan" THEN None ELSE h,
                                              !.scanned = reaper[r].scanned + 1]]

\* The locks of h that r still holds under their names.
Released(r, h) == [l \in Locks |-> IF lock[h][l] = r THEN "noone" ELSE lock[h][l]]

Leave(r) ==
    /\ lock' = [lock EXCEPT ![reaper[r].h] = Released(r, reaper[r].h)]
    /\ reaper' = [reaper EXCEPT ![r] = [@ EXCEPT !.at = "scan", !.h = None]]

\* Delivery, custody and output lock, in this order and none of them waited
\* for: an entry that vanished, has a lock held or is not eligible is left
\* for a later pass; the locks of an eligible one are kept for its removal.
Visit(r) ==
    /\ reaper[r].at = "scan" /\ ~reap_limits_reached(r)
    /\ \E h \in reaper[r].todo :
        IF (\A l \in Locks : Open(h, l)) /\ state_dir_reap_eligible(h)
        THEN /\ lock' = [lock EXCEPT ![h] = [l \in Locks |-> r]]
             /\ files' = [files EXCEPT ![h] = @ \cup Locks]
             /\ fresh' = [fresh EXCEPT ![h] = FALSE] /\ Scan(r, h, "remove")
        ELSE /\ IF dir[h] = "present" THEN Add(h, {"delivery"}) ELSE UNCHANGED <<files, fresh>>
             /\ UNCHANGED lock /\ Scan(r, h, "scan")
    /\ UNCHANGED <<dir, meta, custody, transfer, expired, runs, clients, cursor, faults>>

\* remove_dir_all unlinks the names in any order: the lock files, the
\* metadata and the rest are told apart.  Who waits for a lock on an
\* unlinked inode is no longer excluded by the file that replaces it.
Groups(h) == {files[h] \cap Locks, files[h] \cap {"meta"}, files[h] \ (Locks \cup {"meta"})}

RemoveNames(r) ==
    /\ reaper[r].at = "remove"
    /\ LET h == reaper[r].h IN
       \E gone \in {UNION some : some \in SUBSET Groups(h)} \ {{}} :
        /\ files' = [files EXCEPT ![h] = @ \ gone]
        /\ lock' = [lock EXCEPT ![h] = [l \in Locks |->
                IF l \in gone THEN "noone" ELSE lock[h][l]]]
        /\ custody' = [custody EXCEPT ![h] = "none"]
        /\ transfer' = [transfer EXCEPT ![h] = "none"]
        /\ reader' = IF reader = [at |-> "opened", h |-> h] /\ "output" \in gone
                     THEN [reader EXCEPT !.at = "stale"] ELSE reader
    /\ UNCHANGED <<dir, fresh, meta, expired, runs, client, helper, commands,
                   cursor, reaper, faults>>

RemoveDir(r) ==
    /\ reaper[r].at = "remove" /\ files[reaper[r].h] = {}
    /\ dir' = [dir EXCEPT ![reaper[r].h] = "removed"]
    /\ lock' = [lock EXCEPT ![reaper[r].h] = Unlocked]
    /\ reaper' = [reaper EXCEPT ![r] = [@ EXCEPT !.at = "scan", !.h = None,
                    !.reaped = IF dir[reaper[r].h] = "present" THEN reaper[r].reaped + 1
                               ELSE reaper[r].reaped]]
    /\ UNCHANGED <<evidence, runs, clients, cursor, faults>>

\* rmdir finds a name that was created behind the listing.
RemoveFails(r) ==
    /\ reaper[r].at = "remove" /\ files[reaper[r].h] # {} /\ fresh[reaper[r].h]
    /\ Leave(r) /\ fresh' = [fresh EXCEPT ![reaper[r].h] = FALSE]
    /\ UNCHANGED <<dir, files, meta, custody, transfer, expired, runs, clients, cursor, faults>>

(***************************************************************************)
(* Readers of the retained output, and a client of a lost run.             *)
(***************************************************************************)

\* lock_output creates the lock file, then waits for whoever holds it.
ReaderOpens(h) ==
    /\ commands < MaxCommands /\ commands' = commands + 1
    /\ reader.at = "idle" /\ dir[h] = "present" /\ "meta" \in files[h]
    /\ Add(h, {"output"})
    /\ IF Open(h, "output")
       THEN Holds(h, "output", "reader") /\ reader' = [at |-> "read", h |-> h]
       ELSE UNCHANGED lock /\ reader' = [at |-> "opened", h |-> h]
    /\ UNCHANGED <<dir, meta, custody, transfer, expired, runs, client, helper,
                   cursor, reaper, faults>>

ReaderLocks ==
    /\ \/ /\ reader.at = "opened" /\ lock[reader.h]["output"] = "noone"
          /\ Holds(reader.h, "output", "reader")
       \/ reader.at = "stale" /\ ~Removing(reader.h) /\ UNCHANGED lock
    /\ reader' = [reader EXCEPT !.at = "read"]
    /\ UNCHANGED <<dir, evidence, runs, client, helper, cursor, reaper, faults, commands>>

ReaderUnlocks ==
    lock' = IF reader.h # None /\ lock[reader.h]["output"] = "reader"
            THEN [lock EXCEPT ![reader.h] = [@ EXCEPT !["output"] = "noone"]] ELSE lock

\* Both commands need terminal metadata and the whole recorded prefix;
\* accept-output then publishes a receipt, by a rename over the last one.
ReaderReads ==
    /\ reader.at = "read"
    /\ \/ {"meta", "log"} \subseteq files[reader.h] /\ meta[reader.h].state = "DONE"
          /\ Add(reader.h, {"receipt"})
       \/ UNCHANGED <<files, fresh>>
    /\ reader' = [at |-> "idle", h |-> None] /\ ReaderUnlocks
    /\ UNCHANGED <<dir, meta, custody, transfer, expired, runs, client, helper,
                   cursor, reaper, faults, commands>>

\* A client finds the supervisor of a RUNNING record gone ...
ClientReads(h) ==
    /\ commands < MaxCommands /\ commands' = commands + 1
    /\ client.at = "idle" /\ dir[h] = "present" /\ "meta" \in files[h]
    /\ \/ meta[h].state = "RUNNING" /\ ~guardian[h]
          /\ process_is_gone(meta[h].supervisor, meta[h].boot, SupervisorAlive(h))
       \/ meta[h].state = "DONE" /\ meta[h].pending
    /\ client' = [at |-> IF meta[h].state = "DONE" THEN "deliver" ELSE "write", h |-> h]
    /\ UNCHANGED <<dir, evidence, runs, reader, helper, lock, cursor, reaper, faults>>

\* ... and makes it terminal, in a directory that may be losing its names.
ClientWrites ==
    /\ client.at = "write"
    /\ IF dir[client.h] = "present"
       THEN /\ WriteMeta(client.h, [meta[client.h] EXCEPT !.state = "DONE"])
            /\ client' = [client EXCEPT !.at = "deliver"]
       ELSE client' = [at |-> "idle", h |-> None] /\ UNCHANGED <<files, fresh, meta, expired>>
    /\ UNCHANGED <<dir, custody, transfer, runs, reader, helper, lock, cursor, reaper, faults, commands>>

\* begin_external_transfer_custody under the delivery lock.
ClientDelivers ==
    /\ client.at = "deliver"
    /\ LET h == client.h IN
       \/ /\ Open(h, "delivery") /\ "meta" \in files[h] /\ meta[h].pending
          /\ transfer[h] # "current"
          /\ Holds(h, "delivery", "client") /\ Add(h, {"delivery"})
          /\ transfer' = [transfer EXCEPT ![h] = "current"]
          /\ helper' = [helper EXCEPT ![h] = TRUE]
          /\ client' = [client EXCEPT !.at = "helping"]
       \/ /\ dir[h] = "removed" \/ "meta" \notin files[h] \/ ~meta[h].pending
             \/ transfer[h] = "current"
          /\ client' = [at |-> "idle", h |-> None]
          /\ UNCHANGED <<lock, files, fresh, transfer, helper>>
    /\ UNCHANGED <<dir, meta, custody, expired, runs, reader, cursor, reaper, faults, commands>>

ClientEnds ==
    /\ client.at = "helping"
    /\ helper' = [helper EXCEPT ![client.h] = FALSE]
    /\ transfer' = [transfer EXCEPT ![client.h] = "none"]
    /\ IF dir[client.h] = "present" /\ "meta" \in files[client.h]
       THEN WriteMeta(client.h, [meta[client.h] EXCEPT !.pending = FALSE])
       ELSE UNCHANGED <<files, fresh, meta, expired>>
    /\ lock' = IF lock[client.h]["delivery"] = "client"
               THEN [lock EXCEPT ![client.h] = [@ EXCEPT !["delivery"] = "noone"]] ELSE lock
    /\ client' = [at |-> "idle", h |-> None]
    /\ UNCHANGED <<dir, custody, runs, reader, cursor, reaper, faults, commands>>

(***************************************************************************)
(* Faults.                                                                 *)
(***************************************************************************)

\* The supervisor, the guardian or both are killed; the tree lives on.
Die(h) ==
    /\ faults < MaxFaults /\ faults' = faults + 1
    /\ \/ owner[h] \notin {"none", "gone"} /\ owner' = [owner EXCEPT ![h] = "gone"]
          /\ guardian' \in {guardian, [guardian EXCEPT ![h] = FALSE]}
       \/ guardian[h] /\ guardian' = [guardian EXCEPT ![h] = FALSE] /\ UNCHANGED owner
    /\ UNCHANGED <<dir, evidence, tree, clients, lock, cursor, reaper>>

ReaperDies(r) ==
    /\ reaper[r].at # "idle" /\ faults < MaxFaults
    /\ reaper' = [reaper EXCEPT ![r] = Resting]
    /\ lock' = [h \in Handles |-> Released(r, h)]
    /\ faults' = faults + 1
    /\ UNCHANGED <<dir, evidence, runs, clients, cursor>>

\* A reboot ends every process; the markers keep the boot they recorded.
Reboot ==
    /\ faults < MaxFaults /\ faults' = faults + 1
    /\ owner' = [h \in Handles |-> IF owner[h] = "none" THEN "none" ELSE "gone"]
    /\ guardian' = [h \in Handles |-> FALSE] /\ tree' = [h \in Handles |-> FALSE]
    /\ helper' = [h \in Handles |-> FALSE]
    /\ LET Former(marker) == IF marker = "current" THEN "previous" ELSE marker IN
       /\ custody' = [h \in Handles |-> Former(custody[h])]
       /\ transfer' = [h \in Handles |-> Former(transfer[h])]
       /\ meta' = [h \in Handles |-> [meta[h] EXCEPT !.boot = Former(@)]]
    /\ lock' = [h \in Handles |-> Unlocked]
    /\ reaper' = [r \in Reapers |-> Resting]
    /\ reader' = [at |-> "idle", h |-> None] /\ client' = [at |-> "idle", h |-> None]
    /\ UNCHANGED <<dir, files, fresh, expired, cursor, commands>>

OwnerNext(h) ==
    \/ Create(h) \/ InitialMeta(h) \/ Unwind(h) \/ Register(h) \/ RegisterFails(h)
    \/ Daemonize(h) \/ Start(h) \/ Spawn(h) \/ TreeExits(h) \/ Complete(h)
    \/ Deliver(h) \/ end_physical_custody(h)
    \/ OwnerExits(h) \/ GuardianExits(h)

ReapNext(r) ==
    \/ ReadCursor(r) \/ WriteCursor(r) \/ Visit(r)
    \/ RemoveNames(r) \/ RemoveDir(r) \/ RemoveFails(r) \/ EndPass(r)

ReaderNext == ReaderLocks \/ ReaderReads

ClientNext == ClientWrites \/ ClientDelivers \/ ClientEnds

Next ==
    \/ \E h \in Handles :
        \/ OwnerNext(h) \/ RunnerResults(h) \/ BrokerReleases(h) \/ Expire(h)
        \/ ReaderOpens(h) \/ ClientReads(h) \/ Die(h)
    \/ \E r \in Reapers : ReapNext(r) \/ ReaperDies(r)
    \/ ReaderNext \/ ClientNext \/ Reboot

Spec == Init /\ [][Next]_vars

(***************************************************************************)
(* Fairness: runs keep being started, so reap passes keep being made, and  *)
(* a command that holds a lock goes on.  Nothing is assumed of the owners. *)
(***************************************************************************)
FairSpec == Spec /\ (\A r \in Reapers : WF_vars(ReapNext(r))) /\ WF_vars(ReaderNext)

(***************************************************************************)
(* Properties.                                                             *)
(***************************************************************************)

\* Every variable has its type: in particular the reapers' counters stay
\* within the limits of reap_limits_reached.
TypeOK ==
    /\ dir \in [Handles -> {"absent", "present", "removed"}]
    /\ files \in [Handles -> SUBSET Names] /\ fresh \in [Handles -> BOOLEAN]
    /\ meta \in [Handles ->
        [state : {"RUNNING", "DONE"}, supervisor : BOOLEAN, workload : BOOLEAN,
         boot : Boots, ready : BOOLEAN, pending : BOOLEAN]]
    /\ {custody, transfer} \subseteq [Handles -> Boots]
    /\ expired \in [Handles -> BOOLEAN]
    /\ owner \in [Handles -> {"none", "created", "register", "daemonize",
                              "start", "spawn", "run", "gone"}]
    /\ {guardian, tree, helper} \subseteq [Handles -> BOOLEAN]
    /\ lock \in [Handles -> [Locks -> Reapers \cup {"noone", "reader", "client"}]]
    /\ cursor \in 0 .. Shards - 1
    /\ reaper \in [Reapers ->
        [at : {"idle", "cursor", "scan", "remove"},
         shard : 0 .. Shards - 1, todo : SUBSET Handles, scanned : 0 .. MaxScan,
         reaped : 0 .. MaxDirs, h : Handles \cup {None}]]
    /\ reader \in [at : {"idle", "opened", "stale", "read"},
                   h : Handles \cup {None}]
    /\ client \in [at : {"idle", "write", "deliver", "helping"},
                   h : Handles \cup {None}]
    /\ commands \in 0 .. MaxCommands /\ faults \in 0 .. MaxFaults

\* From the eligibility check to the end of the removal no process of the
\* run is left and none will start: neither its supervisor, nor a process of
\* its tree (orphans of a killed supervisor and guardian included), nor a
\* registration that has yet to start them (state_dir_reap_eligible).
QuietRemoval ==
    \A h \in Handles : Removing(h) \/ dir[h] = "removed" =>
        ~tree[h] /\ owner[h] = "gone"

\* Work accepted under a parent (so that its supervisor could start) is
\* causal evidence of it: its directory is not touched while the parent's
\* directory exists (causal_parent_retains), whatever two passes, a crash or
\* a reboot do to either of them.
CausalEvidenceKept ==
    \A h \in Handles :
        (Removing(h) \/ dir[h] = "removed") /\ meta[h].supervisor /\ Parent[h] # None
            => dir[Parent[h]] # "present"

Reapable(h) ==
    dir[h] = "present" /\ meta[h].state = "DONE" /\ state_dir_reap_eligible(h)

\* While runs keep being started, a settled directory past its retention
\* period is removed: the cursor reaches its shard and the scan reaches it,
\* unless a broken removal has cost it the metadata that makes it eligible.
EventuallyReaped ==
    \A h \in Handles : Reapable(h) ~> (dir[h] = "removed" \/ "meta" \notin files[h])
=============================================================================
