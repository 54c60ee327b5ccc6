----------------------------- MODULE EngineProcess -----------------------------
(***************************************************************************)
(* Engine processes over one data directory: __main__.main takes the       *)
(* single-instance guard (runtime/singleton.py), the local token, and then *)
(* hands over to uvicorn, which runs the lifespan (backup and migrations,  *)
(* then recovery and the worker) BEFORE it binds the port.                 *)
(*                                                                         *)
(* A process is its pid and starts once; pid 0 is one that died earlier.   *)
(* Schema versions: 0 no database, Schema is SCHEMA_VERSION.               *)
(***************************************************************************)
EXTENDS Integers, FiniteSets

CONSTANTS
    NPids,         \* bound: processes that ever start
    Schema,        \* SCHEMA_VERSION
    MaxKills,      \* bound: processes killed
    NoPid

ASSUME PidsAssumption == NPids \in Nat /\ Schema \in Nat \ {0} /\ MaxKills \in Nat

Pids == 1 .. NPids
LockFiles == [by : 0 .. NPids, full : BOOLEAN, old : BOOLEAN]

ASSUME NoPidAssumption == NoPid \notin 0 .. NPids /\ NoPid \notin LockFiles

VARIABLES
    mutexes,   \* the platform has the named mutex (Windows)
    mutex,     \* its owner, NoPid
    lock,      \* engine.lock: NoPid, or its creator, its payload, older than 5 s
    port,      \* who listens on the port, NoPid
    version,   \* of the schema in evoblue.db
    backups,   \* evoblue.db.bak-v<n>: the version of the content, NoPid
    token,     \* local_token: the pid that made it, NoPid
    pc,        \* process -> step
    held,      \* process -> the pid it read in the lock file
    seen,      \* process -> the schema version it read
    own,       \* process -> the token it works with
    kills,
    clean      \* history: no lock file was stale, nobody stalled judging one

proc      == <<pc, held, seen, own>>
startVars == <<mutexes, mutex, lock, port, version, backups, token, proc, kills, clean>>

StartSteps == {"new", "create", "fill", "read", "judge", "steal", "probe", "release", "unlink",
               "token", "write_token", "version", "snapshot", "begin", "migrate", "bind",
               "serving", "gone"}

Locks == LockFiles \cup {NoPid}

(* A first start, a start after an upgrade, or after a crash.              *)
StartInit ==
    /\ mutexes \in BOOLEAN /\ mutex = NoPid /\ port = NoPid
    /\ lock \in {NoPid, [by |-> 0, full |-> TRUE, old |-> TRUE]}
    /\ version \in {0, 1, Schema}
    /\ backups = [v \in 1 .. Schema |-> NoPid]
    /\ token \in IF version = 0 THEN {NoPid} ELSE {0}
    /\ pc = [p \in Pids |-> "new"] /\ held = [p \in Pids |-> NoPid]
    /\ seen = [p \in Pids |-> 0] /\ own = [p \in Pids |-> NoPid]
    /\ kills = 0 /\ clean = (lock = NoPid)

(* _pid_alive.                                                             *)
PidAlive(q) == q \in Pids /\ pc[q] \notin {"new", "gone"}

(* The system closes the handles of a process that ends.                   *)
Gone(p) ==
    /\ pc' = [pc EXCEPT ![p] = "gone"]
    /\ held' = [held EXCEPT ![p] = NoPid] /\ seen' = [seen EXCEPT ![p] = 0]
    /\ own' = [own EXCEPT ![p] = NoPid]
    /\ mutex' = IF mutex = p THEN NoPid ELSE mutex
    /\ port' = IF port = p THEN NoPid ELSE port

To(p, step) == pc' = [pc EXCEPT ![p] = step]

--------------------------------------------------------------------------------
(* singleton.acquire.                                                      *)

(* acquire_mutex.                                                          *)
AcquireMutex(p) ==
    IF mutexes /\ mutex # NoPid THEN Gone(p)
    ELSE /\ mutex' = IF mutexes THEN p ELSE mutex
         /\ To(p, "create") /\ UNCHANGED <<held, seen, own, port>>

Start(p) ==
    /\ pc[p] = "new" /\ \A q \in Pids : q < p => pc[q] # "new"
    /\ AcquireMutex(p)
    /\ UNCHANGED <<mutexes, lock, version, backups, token, kills>>

(* try_acquire_lock: os.open with O_EXCL.  The payload follows.            *)
CreateLock(p) ==
    /\ pc[p] = "create"
    /\ \/ lock = NoPid /\ lock' = [by |-> p, full |-> FALSE, old |-> FALSE] /\ To(p, "fill")
       \/ lock # NoPid /\ To(p, "read") /\ UNCHANGED lock
    /\ UNCHANGED <<mutexes, mutex, port, version, backups, token, held, seen, own, kills>>

(* The open file keeps its name or lost it to an unlink meanwhile.         *)
FillLock(p) ==
    /\ pc[p] = "fill" /\ To(p, "probe")
    /\ lock' = IF lock # NoPid /\ lock.by = p THEN [by |-> p, full |-> TRUE, old |-> FALSE] ELSE lock
    /\ UNCHANGED <<mutexes, mutex, port, version, backups, token, held, seen, own, kills>>

(* _read_lock: no pid if the file is unreadable, unfinished or gone.       *)
ReadLock(p) ==
    /\ pc[p] = "read" /\ To(p, "judge")
    /\ held' = [held EXCEPT ![p] = IF lock # NoPid /\ lock.full THEN lock.by ELSE NoPid]
    /\ UNCHANGED <<mutexes, mutex, lock, port, version, backups, token, seen, own, kills>>

(* Mutant: a dead pid is enough, whatever the age.                         *)
Stale_Young(p) == ~ PidAlive(held[p])

(* Mutant: a stale lock is never stolen.                                   *)
Stale_Never(p) == FALSE

(* The age is that of the file there is now, the pid the one read before.  *)
Stale(p) == ~ PidAlive(held[p]) /\ lock.old

(* path.stat() raises when the file has gone meanwhile; otherwise a live   *)
(* owner or a young file ends this process with code 3.                    *)
JudgeLock(p) ==
    /\ pc[p] = "judge"
    /\ IF lock # NoPid /\ Stale(p)
         THEN To(p, "steal") /\ UNCHANGED <<held, seen, own, mutex, port>>
         ELSE Gone(p)
    /\ UNCHANGED <<mutexes, lock, version, backups, token, kills>>

(* Unlink whatever file bears the name by now, and try again.              *)
StealLock(p) ==
    /\ pc[p] = "steal" /\ lock' = NoPid /\ To(p, "create")
    /\ held' = [held EXCEPT ![p] = NoPid]
    /\ UNCHANGED <<mutexes, mutex, port, version, backups, token, seen, own, kills>>

(* port_available.  When it is not, the lock is released: code 4.          *)
ProbePort(p) ==
    /\ pc[p] = "probe"
    /\ To(p, IF port = NoPid THEN "token" ELSE "release")
    /\ UNCHANGED <<mutexes, mutex, lock, port, version, backups, token, held, seen, own, kills>>

Ours(p) == lock # NoPid /\ lock.full /\ lock.by = p

(* release_lock: read, compare, ...                                        *)
ReleaseLock(p) ==
    /\ pc[p] = "release"
    /\ IF Ours(p) THEN To(p, "unlink") /\ UNCHANGED <<held, seen, own, mutex, port>> ELSE Gone(p)
    /\ UNCHANGED <<mutexes, lock, version, backups, token, kills>>

(* ... and unlink, then end.                                               *)
UnlinkLock(p) ==
    /\ pc[p] = "unlink" /\ lock' = NoPid /\ Gone(p)
    /\ UNCHANGED <<mutexes, version, backups, token, kills>>

--------------------------------------------------------------------------------
(* main: the token, then uvicorn.run.                                      *)

TokenStep == IF token # NoPid THEN "version" ELSE "write_token"

(* _persisted_local_token: the file's, or a new one that is written next.  *)
TakeToken(p) ==
    /\ pc[p] = "token"
    /\ own' = [own EXCEPT ![p] = IF token # NoPid THEN token ELSE p]
    /\ To(p, TokenStep)
    /\ UNCHANGED <<mutexes, mutex, lock, port, version, backups, token, held, seen, kills>>

WriteToken(p) ==
    /\ pc[p] = "write_token" /\ token' = p /\ To(p, "version")
    /\ UNCHANGED <<mutexes, mutex, lock, port, version, backups, held, seen, own, kills>>

(* backup_before_upgrade: a fresh or current database is not copied.       *)
ReadVersion(p) ==
    /\ pc[p] = "version"
    /\ seen' = [seen EXCEPT ![p] = version]
    /\ To(p, IF version \in {0, Schema} THEN "begin" ELSE "snapshot")
    /\ UNCHANGED <<mutexes, mutex, lock, port, version, backups, token, held, own, kills>>

(* Mutant: the backup is named after the version to come.                  *)
BackupName_Target(p) == Schema

(* backup_path_for.                                                        *)
BackupName(p) == seen[p]

(* _snapshot into the file named after the version read before; a failure  *)
(* does not stop the migration.                                            *)
Snapshot(p) ==
    /\ pc[p] = "snapshot" /\ To(p, "begin")
    /\ \/ backups' = [backups EXCEPT ![BackupName(p)] = version]
       \/ UNCHANGED backups
    /\ UNCHANGED <<mutexes, mutex, lock, port, version, token, held, seen, own, kills>>

(* init_db reads the version in the transaction that will migrate.         *)
ReadApplied(p) ==
    /\ pc[p] = "begin"
    /\ seen' = [seen EXCEPT ![p] = version]
    /\ To(p, IF version = Schema THEN "bind" ELSE "migrate")
    /\ UNCHANGED <<mutexes, mutex, lock, port, version, backups, token, held, own, kills>>

(* WAL: a transaction whose snapshot is stale cannot begin to write.       *)
Snapshotted(p) == seen[p] = version

(* All migrations and their records in one transaction; an error ends the  *)
(* start, without releasing the lock.  Recovery and the worker follow.     *)
Migrate(p) ==
    /\ pc[p] = "migrate"
    /\ IF Snapshotted(p)
         THEN /\ version' = Schema
              /\ To(p, "bind") /\ UNCHANGED <<held, seen, own, mutex, port>>
         ELSE Gone(p) /\ UNCHANGED version
    /\ UNCHANGED <<mutexes, lock, backups, token, kills>>

(* Mutant: the port is shared.                                             *)
PortFree_Always == TRUE

PortFree == port = NoPid

(* uvicorn binds only now; a port in use shuts the lifespan down and ends  *)
(* the process, without releasing the lock.                                *)
Bind(p) ==
    /\ pc[p] = "bind"
    /\ IF PortFree THEN port' = p /\ To(p, "serving") /\ UNCHANGED <<held, seen, own, mutex>>
       ELSE Gone(p)
    /\ UNCHANGED <<mutexes, lock, version, backups, token, kills>>

Shutdown(p) ==
    /\ pc[p] = "serving" /\ port' = NoPid /\ To(p, "release")
    /\ UNCHANGED <<mutexes, mutex, lock, version, backups, token, held, seen, own, kills>>

Kill(p) ==
    /\ PidAlive(p) /\ kills < MaxKills /\ kills' = kills + 1
    /\ Gone(p)
    /\ UNCHANGED <<mutexes, lock, version, backups, token>>

(* _STEAL_GRACE_SECONDS pass.                                              *)
Grow ==
    /\ lock # NoPid /\ ~ lock.old /\ lock' = [lock EXCEPT !.old = TRUE]
    /\ UNCHANGED <<mutexes, mutex, port, version, backups, token, proc, kills>>

--------------------------------------------------------------------------------
StartStep(p) ==
    \/ CreateLock(p) \/ FillLock(p) \/ ReadLock(p) \/ JudgeLock(p) \/ StealLock(p)
    \/ ProbePort(p) \/ ReleaseLock(p) \/ UnlinkLock(p)
    \/ TakeToken(p) \/ WriteToken(p) \/ ReadVersion(p) \/ Snapshot(p)
    \/ ReadApplied(p) \/ Migrate(p) \/ Bind(p)

(* A lock file is stale if its owner is dead, or hung before writing it.   *)
LockInOrder == lock = NoPid \/ (PidAlive(lock.by) /\ (lock.old => lock.full))

Noted == clean' = (clean /\ LockInOrder' /\ ~ (Grow /\ \E p \in Pids : pc[p] = "judge"))

StartNext ==
    /\ \/ \E p \in Pids : Start(p) \/ StartStep(p) \/ Shutdown(p) \/ Kill(p)
       \/ Grow
    /\ Noted

(* A process that was started goes on by itself.                           *)
StartFairness == \A p \in Pids : WF_startVars(StartStep(p) /\ Noted)

StartSpec == StartInit /\ [][StartNext]_startVars /\ StartFairness

--------------------------------------------------------------------------------
(* Properties.                                                             *)

InLifespan(p) == pc[p] \in {"version", "snapshot", "begin", "migrate", "bind", "serving"}

(* Type invariant.                                                         *)
StartTypeOK ==
    /\ mutexes \in BOOLEAN /\ mutex \in Pids \cup {NoPid} /\ lock \in Locks
    /\ port \in Pids \cup {NoPid} /\ version \in 0 .. Schema
    /\ backups \in [1 .. Schema -> 0 .. Schema \cup {NoPid}]
    /\ token \in 0 .. NPids \cup {NoPid} /\ own \in [Pids -> 0 .. NPids \cup {NoPid}]
    /\ held \in [Pids -> 0 .. NPids \cup {NoPid}] /\ seen \in [Pids -> 0 .. Schema]
    /\ kills \in 0 .. MaxKills /\ clean \in BOOLEAN /\ pc \in [Pids -> StartSteps]
    /\ \A p \in Pids : pc[p] = "serving" <=> port = p

(* The guard in front of the database: one process at a time backs up,     *)
(* migrates, recovers jobs or runs a worker.  Where there is a mutex that  *)
(* holds whatever becomes of the lock file; elsewhere the lock file alone  *)
(* keeps a second engine out as long as no lock is stale: O_EXCL, the      *)
(* grace period for a file that is not written yet and the owner check of  *)
(* the release leave no gap, in whichever order processes start, fail and  *)
(* end.                                                                    *)
OneEngine ==
    mutexes \/ clean => Cardinality({p \in Pids : InLifespan(p)}) <= 1

(* A backup holds the version its name says, so that it can be restored    *)
(* for a downgrade, although the version is read before the copy is made,  *)
(* wherever one engine at a time is guaranteed.                            *)
BackupHoldsItsVersion ==
    mutexes \/ clean => \A v \in 1 .. Schema : backups[v] \in {v, NoPid}

(* A lock left by a dead process does not lock the user out: the last      *)
(* process, alone with a stale lock and a free port, comes to serve.       *)
StaleLockYields ==
    (\E p \in Pids : /\ pc[p] = "create" /\ \A q \in Pids \ {p} : pc[q] = "gone"
                     /\ lock # NoPid /\ lock.old /\ kills = MaxKills)
    ~> port # NoPid
================================================================================
