-------------------------- MODULE EngineProcess_proofs -------------------------
(***************************************************************************)
(* Proofs about EngineProcess, for any number of processes and kills and   *)
(* any schema version.                                                     *)
(***************************************************************************)
EXTENDS EngineProcess, FiniteSetTheorems, TLAPS

(* A process between the creation of engine.lock and its release.          *)
HoldsLock(p) == pc[p] \in {"fill", "probe", "token", "write_token", "version", "snapshot", "begin",
                           "migrate", "bind", "serving", "release", "unlink"}

(* Windows: a process that runs owns the mutex.                            *)
MutexHeld == mutexes => \A p \in Pids : PidAlive(p) => mutex = p

(* Elsewhere, as long as no lock was stale: the file names the one process *)
(* that made it, nobody steals, and a process that judges an old file has  *)
(* read the pid in that very file.                                         *)
LockHeld ==
    clean =>
      /\ LockInOrder
      /\ lock # NoPid => HoldsLock(lock.by)
      /\ \A p \in Pids :
           /\ HoldsLock(p) => lock # NoPid /\ lock.by = p
           /\ pc[p] # "steal"
           /\ pc[p] = "judge" /\ lock # NoPid /\ lock.old => held[p] = lock.by

(* A process about to copy the database knows an older version, and, if it *)
(* is alone, the present one.                                              *)
SnapshotIsNamed ==
    \A p \in Pids : pc[p] = "snapshot" =>
      seen[p] \in 1 .. Schema /\ (mutexes \/ clean => seen[p] = version)

StartIInv == StartTypeOK /\ MutexHeld /\ LockHeld /\ SnapshotIsNamed /\ BackupHoldsItsVersion

--------------------------------------------------------------------------------
(* Lemmas about the ways a process moves.                                  *)

LEMMA NoPidIsNone == NoPid \notin Pids /\ Pids \subseteq 0 .. NPids
  BY PidsAssumption, NoPidAssumption DEF Pids

LEMMA Moves ==
    ASSUME StartTypeOK, NEW p \in Pids, NEW step \in StartSteps, To(p, step)
    PROVE  /\ pc' \in [Pids -> StartSteps] /\ pc'[p] = step
           /\ \A q \in Pids : q # p => pc'[q] = pc[q]
  BY DEF To, StartTypeOK

(* A process that ends lets go of the mutex and the port.                  *)
LEMMA Ends ==
    ASSUME StartTypeOK, NEW p \in Pids, Gone(p)
    PROVE  /\ pc' \in [Pids -> StartSteps] /\ pc'[p] = "gone"
           /\ \A q \in Pids : q # p => pc'[q] = pc[q] /\ held'[q] = held[q] /\ seen'[q] = seen[q]
           /\ held' \in [Pids -> 0 .. NPids \cup {NoPid}] /\ seen' \in [Pids -> 0 .. Schema]
           /\ own' \in [Pids -> 0 .. NPids \cup {NoPid}]
           /\ mutex' \in Pids \cup {NoPid} /\ port' \in Pids \cup {NoPid}
           /\ \A q \in Pids : q # p => (mutex = q => mutex' = q) /\ (port' = q <=> port = q)
           /\ port' # p
  <1>1. 0 \in 0 .. Schema BY PidsAssumption
  <1> QED BY <1>1, NoPidIsNone DEF Gone, StartTypeOK, StartSteps

(* At most one process is in its lifespan.                                 *)
LEMMA Alone ==
    ASSUME StartTypeOK, MutexHeld, LockHeld, mutexes \/ clean,
           NEW p \in Pids, NEW q \in Pids, InLifespan(p), InLifespan(q)
    PROVE  p = q
  <1>1. CASE mutexes BY <1>1 DEF MutexHeld, PidAlive, InLifespan
  <1>2. CASE clean BY <1>2 DEF LockHeld, HoldsLock, InLifespan
  <1> QED BY <1>1, <1>2

LEMMA AtMostOne ==
    ASSUME NEW S, \A p, q \in S : p = q
    PROVE  Cardinality(S) <= 1
  <1>1. CASE S = {} BY <1>1, FS_EmptySet
  <1>2. CASE S # {}
    <2>1. PICK p \in S : TRUE BY <1>2
    <2>2. S = {p} BY <2>1
    <2>3. Cardinality(S) = 1 BY <2>2, FS_Singleton
    <2> QED BY <2>3
  <1> QED BY <1>1, <1>2

LEMMA StartInitEstablishes == StartInit => StartIInv
  <1> SUFFICES ASSUME StartInit PROVE StartIInv OBVIOUS
  <1>0. \A p \in Pids : pc[p] = "new" BY DEF StartInit
  <1>1. StartTypeOK
    <2>1. /\ 0 \in 0 .. NPids /\ 0 \in 0 .. Schema /\ 1 \in 0 .. Schema /\ Schema \in 0 .. Schema
          /\ 0 \in 0 .. MaxKills
      BY PidsAssumption
    <2>2. lock \in Locks
      <3>1. lock \in {NoPid, [by |-> 0, full |-> TRUE, old |-> TRUE]} BY DEF StartInit
      <3>2. TRUE \in BOOLEAN OBVIOUS
      <3>3. [by |-> 0, full |-> TRUE, old |-> TRUE] \in Locks BY <2>1, <3>2 DEF Locks, LockFiles
      <3> QED BY <3>1, <3>3 DEF Locks
    <2>5. clean \in BOOLEAN BY DEF StartInit
    <2>3. token \in 0 .. NPids \cup {NoPid} BY <2>1 DEF StartInit
    <2>4. \A p \in Pids : pc[p] = "serving" <=> port = p BY <1>0, NoPidIsNone DEF StartInit
    <2> QED BY <2>1, <2>2, <2>3, <2>4, <2>5 DEF StartInit, StartTypeOK, StartSteps
  <1>2. MutexHeld BY <1>0 DEF MutexHeld, PidAlive
  <1>3. LockHeld
    <2>1. clean => lock = NoPid BY DEF StartInit
    <2> QED BY <1>0, <2>1 DEF LockHeld, LockInOrder, HoldsLock
  <1>4. SnapshotIsNamed BY <1>0 DEF SnapshotIsNamed
  <1>5. BackupHoldsItsVersion BY DEF StartInit, BackupHoldsItsVersion
  <1> QED BY <1>1, <1>2, <1>3, <1>4, <1>5 DEF StartIInv

--------------------------------------------------------------------------------
(* Preservation of the type invariant, one step per action.                *)

(* What the history variable remembers.                                    *)
LEMMA CleanMeans ==
    ASSUME Noted
    PROVE  clean' \in BOOLEAN /\ (clean' => clean /\ LockInOrder')
  BY Zenon DEF Noted

(* A process moves on and neither takes nor leaves the port.               *)
LEMMA MoveIsTyped ==
    ASSUME StartTypeOK, Noted, NEW p \in Pids, NEW step \in StartSteps \ {"serving"}, To(p, step),
           pc[p] # "serving", port' = port, mutexes' = mutexes, mutex' \in Pids \cup {NoPid},
           lock' \in Locks, version' \in 0 .. Schema,
           backups' \in [1 .. Schema -> 0 .. Schema \cup {NoPid}],
           token' \in 0 .. NPids \cup {NoPid}, own' \in [Pids -> 0 .. NPids \cup {NoPid}],
           held' \in [Pids -> 0 .. NPids \cup {NoPid}], seen' \in [Pids -> 0 .. Schema],
           kills' \in 0 .. MaxKills
    PROVE  StartTypeOK'
  <1>1. /\ pc' \in [Pids -> StartSteps] /\ pc'[p] = step
        /\ \A q \in Pids : q # p => pc'[q] = pc[q]
    BY Moves
  <1>2. clean' \in BOOLEAN BY CleanMeans
  <1>3. \A q \in Pids : pc'[q] = "serving" <=> port' = q BY <1>1 DEF StartTypeOK
  <1>4. mutexes' \in BOOLEAN /\ port' \in Pids \cup {NoPid} BY DEF StartTypeOK
  <1> QED BY <1>1, <1>2, <1>3, <1>4 DEF StartTypeOK

LEMMA EndIsTyped ==
    ASSUME StartTypeOK, Noted, NEW p \in Pids, Gone(p), mutexes' = mutexes, lock' \in Locks,
           UNCHANGED <<version, backups, token>>, kills' \in 0 .. MaxKills
    PROVE  StartTypeOK'
  <1>1. /\ pc' \in [Pids -> StartSteps] /\ pc'[p] = "gone"
        /\ \A q \in Pids : q # p => pc'[q] = pc[q]
        /\ \A q \in Pids : q # p => (port' = q <=> port = q)
        /\ port' # p
    BY Ends
  <1>2. /\ held' \in [Pids -> 0 .. NPids \cup {NoPid}] /\ seen' \in [Pids -> 0 .. Schema]
        /\ own' \in [Pids -> 0 .. NPids \cup {NoPid}]
        /\ mutex' \in Pids \cup {NoPid} /\ port' \in Pids \cup {NoPid}
    BY Ends
  <1>3. clean' \in BOOLEAN BY CleanMeans
  <1>4. \A q \in Pids : pc'[q] = "serving" <=> port' = q BY <1>1 DEF StartTypeOK
  <1>5. mutexes' \in BOOLEAN BY DEF StartTypeOK
  <1> QED BY <1>1, <1>2, <1>3, <1>4, <1>5 DEF StartTypeOK

LEMMA StepIsTyped ==
    ASSUME StartIInv, Noted, NEW p \in Pids, StartStep(p)
    PROVE  StartTypeOK'
  <1>t. StartTypeOK BY DEF StartIInv
  <1>n. p \in 0 .. NPids /\ NoPid \notin Pids BY NoPidIsNone
  <1>u. \A b, o \in BOOLEAN : [by |-> p, full |-> b, old |-> o] \in Locks BY <1>n DEF Locks, LockFiles
  <1>1. CASE CreateLock(p)
    <2>1. \E step \in StartSteps \ {"serving"} : To(p, step) BY <1>1 DEF CreateLock, StartSteps
    <2> QED BY <1>1, <1>t, <1>u, <2>1, MoveIsTyped DEF CreateLock, StartTypeOK
  <1>2. CASE FillLock(p)
    BY <1>2, <1>t, <1>u, MoveIsTyped DEF FillLock, StartTypeOK, StartSteps
  <1>3. CASE ReadLock(p)
    <2>1. (IF lock # NoPid /\ lock.full THEN lock.by ELSE NoPid) \in 0 .. NPids \cup {NoPid}
      BY <1>t DEF StartTypeOK, Locks, LockFiles
    <2>2. held' \in [Pids -> 0 .. NPids \cup {NoPid}] BY <1>3, <1>t, <2>1 DEF ReadLock, StartTypeOK
    <2> QED BY <1>3, <1>t, <2>2, MoveIsTyped DEF ReadLock, StartTypeOK, StartSteps
  <1>4. CASE JudgeLock(p)
    <2>1. CASE Gone(p) BY <1>4, <1>t, <2>1, EndIsTyped DEF JudgeLock, StartTypeOK
    <2>2. CASE To(p, "steal") /\ UNCHANGED <<held, seen, own, mutex, port>>
      BY <1>4, <1>t, <2>2, MoveIsTyped DEF JudgeLock, StartTypeOK, StartSteps
    <2> QED BY <1>4, <2>1, <2>2 DEF JudgeLock
  <1>5. CASE StealLock(p)
    <2>1. held' \in [Pids -> 0 .. NPids \cup {NoPid}] /\ NoPid \in Locks
      BY <1>5, <1>t DEF StealLock, StartTypeOK, Locks
    <2> QED BY <1>5, <1>t, <2>1, MoveIsTyped DEF StealLock, StartTypeOK, StartSteps
  <1>6. CASE ProbePort(p)
    <2>1. \E step \in StartSteps \ {"serving"} : To(p, step) BY <1>6 DEF ProbePort, StartSteps
    <2> QED BY <1>6, <1>t, <2>1, MoveIsTyped DEF ProbePort, StartTypeOK
  <1>7. CASE ReleaseLock(p)
    <2>1. CASE Gone(p) BY <1>7, <1>t, <2>1, EndIsTyped DEF ReleaseLock, StartTypeOK
    <2>2. CASE To(p, "unlink") /\ UNCHANGED <<held, seen, own, mutex, port>>
      BY <1>7, <1>t, <2>2, MoveIsTyped DEF ReleaseLock, StartTypeOK, StartSteps
    <2> QED BY <1>7, <2>1, <2>2 DEF ReleaseLock
  <1>8. CASE UnlinkLock(p)
    <2>1. NoPid \in Locks BY DEF Locks
    <2> QED BY <1>8, <1>t, <2>1, EndIsTyped DEF UnlinkLock, StartTypeOK
  <1>9. CASE TakeToken(p)
    <2>1. own' \in [Pids -> 0 .. NPids \cup {NoPid}] BY <1>9, <1>t, <1>n DEF TakeToken, StartTypeOK
    <2>2. TokenStep \in StartSteps \ {"serving"} BY DEF TokenStep, StartSteps
    <2> QED BY <1>9, <1>t, <2>1, <2>2, MoveIsTyped DEF TakeToken, StartTypeOK
  <1>10. CASE WriteToken(p)
    BY <1>10, <1>t, <1>n, MoveIsTyped DEF WriteToken, StartTypeOK, StartSteps
  <1>11. CASE ReadVersion(p)
    <2>1. seen' \in [Pids -> 0 .. Schema] BY <1>11, <1>t DEF ReadVersion, StartTypeOK
    <2>2. \E step \in StartSteps \ {"serving"} : To(p, step) BY <1>11 DEF ReadVersion, StartSteps
    <2> QED BY <1>11, <1>t, <2>1, <2>2, MoveIsTyped DEF ReadVersion, StartTypeOK
  <1>12. CASE Snapshot(p)
    <2>1. backups' \in [1 .. Schema -> 0 .. Schema \cup {NoPid}] BY <1>12, <1>t DEF Snapshot, StartTypeOK
    <2> QED BY <1>12, <1>t, <2>1, MoveIsTyped DEF Snapshot, StartTypeOK, StartSteps
  <1>13. CASE ReadApplied(p)
    <2>1. seen' \in [Pids -> 0 .. Schema] BY <1>13, <1>t DEF ReadApplied, StartTypeOK
    <2>2. \E step \in StartSteps \ {"serving"} : To(p, step) BY <1>13 DEF ReadApplied, StartSteps
    <2> QED BY <1>13, <1>t, <2>1, <2>2, MoveIsTyped DEF ReadApplied, StartTypeOK
  <1>14. CASE Migrate(p)
    <2>1. CASE Gone(p) /\ UNCHANGED version BY <1>14, <1>t, <2>1, EndIsTyped DEF Migrate, StartTypeOK
    <2>2. CASE /\ version' = Schema /\ To(p, "bind") /\ UNCHANGED <<held, seen, own, mutex, port>>
      <3>1. Schema \in 0 .. Schema BY PidsAssumption
      <3> QED BY <1>14, <1>t, <2>2, <3>1, MoveIsTyped DEF Migrate, StartTypeOK, StartSteps
    <2> QED BY <1>14, <2>1, <2>2 DEF Migrate
  <1>15. CASE Bind(p)
    <2>1. CASE Gone(p) BY <1>15, <1>t, <2>1, EndIsTyped DEF Bind, StartTypeOK
    <2>2. CASE /\ port = NoPid /\ port' = p /\ To(p, "serving")
               /\ UNCHANGED <<held, seen, own, mutex>>
      <3>1. /\ pc' \in [Pids -> StartSteps] /\ pc'[p] = "serving"
            /\ \A q \in Pids : q # p => pc'[q] = pc[q]
        BY <1>t, <2>2, Moves DEF StartSteps
      <3>2. \A q \in Pids : pc'[q] = "serving" <=> port' = q BY <1>t, <1>n, <2>2, <3>1 DEF StartTypeOK
      <3>3. clean' \in BOOLEAN BY CleanMeans
      <3>4. UNCHANGED <<mutexes, lock, version, backups, token, kills>> BY <1>15 DEF Bind
      <3> QED BY <1>t, <2>2, <3>1, <3>2, <3>3, <3>4 DEF StartTypeOK
    <2> QED BY <1>15, <2>1, <2>2 DEF Bind, PortFree
  <1> QED BY <1>1, <1>2, <1>3, <1>4, <1>5, <1>6, <1>7, <1>8, <1>9, <1>10, <1>11, <1>12, <1>13,
             <1>14, <1>15
          DEF StartStep

LEMMA NextIsTyped ==
    ASSUME StartIInv, StartNext
    PROVE  StartTypeOK'
  <1>t. StartTypeOK /\ Noted BY DEF StartIInv, StartNext
  <1>1. ASSUME NEW p \in Pids, Start(p) PROVE StartTypeOK'
    <2>0. pc[p] = "new" /\ UNCHANGED <<mutexes, lock, version, backups, token, kills>>
      BY <1>1 DEF Start
    <2>1. CASE Gone(p) BY <1>t, <2>0, <2>1, EndIsTyped DEF StartTypeOK
    <2>2. CASE /\ mutex' = (IF mutexes THEN p ELSE mutex) /\ To(p, "create")
               /\ UNCHANGED <<held, seen, own, port>>
      BY <1>t, <2>0, <2>2, MoveIsTyped DEF StartTypeOK, StartSteps
    <2> QED BY <1>1, <2>1, <2>2 DEF Start, AcquireMutex
  <1>2. ASSUME NEW p \in Pids, StartStep(p) PROVE StartTypeOK' BY <1>2, <1>t, StepIsTyped
  <1>3. ASSUME NEW p \in Pids, Shutdown(p) PROVE StartTypeOK'
    <2>0. /\ pc[p] = "serving" /\ port' = NoPid
          /\ UNCHANGED <<mutexes, mutex, lock, version, backups, token, held, seen, own, kills>>
      BY <1>3 DEF Shutdown
    <2>1. /\ pc' \in [Pids -> StartSteps] /\ pc'[p] = "release"
          /\ \A q \in Pids : q # p => pc'[q] = pc[q]
      BY <1>3, <1>t, Moves DEF Shutdown, StartSteps
    <2>2. \A q \in Pids : pc'[q] = "serving" <=> port' = q
      BY <1>t, <2>0, <2>1, NoPidIsNone DEF StartTypeOK
    <2>3. clean' \in BOOLEAN BY <1>t, CleanMeans
    <2> QED BY <1>t, <2>0, <2>1, <2>2, <2>3 DEF StartTypeOK
  <1>4. ASSUME NEW p \in Pids, Kill(p) PROVE StartTypeOK'
    <2>1. kills' \in 0 .. MaxKills BY <1>4, <1>t, PidsAssumption DEF Kill, StartTypeOK
    <2> QED BY <1>4, <1>t, <2>1, EndIsTyped DEF Kill, StartTypeOK
  <1>5. CASE Grow
    <2>1. lock' \in Locks BY <1>5, <1>t DEF Grow, StartTypeOK, Locks, LockFiles
    <2>2. clean' \in BOOLEAN BY <1>t, CleanMeans
    <2> QED BY <1>5, <1>t, <2>1, <2>2 DEF Grow, proc, StartTypeOK
  <1> QED BY <1>1, <1>2, <1>3, <1>4, <1>5 DEF StartNext

--------------------------------------------------------------------------------
(* The mutex.                                                              *)

(* Only a start takes the mutex, and only from nobody; an end returns it.  *)
LEMMA MutexPreserved == StartIInv /\ StartNext => MutexHeld'
  <1> SUFFICES ASSUME StartIInv, StartNext, mutexes' PROVE \A q \in Pids : PidAlive(q)' => mutex' = q
    BY DEF MutexHeld
  <1>t. StartTypeOK BY DEF StartIInv
  <1>m. mutexes' = mutexes
    BY DEF StartNext, Start, StartStep, CreateLock, FillLock, ReadLock, JudgeLock, StealLock,
           ProbePort, ReleaseLock, UnlinkLock, TakeToken, WriteToken, ReadVersion, Snapshot,
           ReadApplied, Migrate, Bind, Shutdown, Kill, Grow
  <1>h. \A q \in Pids : pc[q] \notin {"new", "gone"} => mutex = q
    BY <1>m DEF StartIInv, MutexHeld, PidAlive
  <1> SUFFICES \A q \in Pids : pc'[q] \notin {"new", "gone"} => mutex' = q BY DEF PidAlive
  <1>1. ASSUME NEW p \in Pids, Gone(p) PROVE \A q \in Pids : pc'[q] \notin {"new", "gone"} => mutex' = q
    BY <1>1, <1>h, <1>t, Ends
  <1>2. ASSUME NEW p \in Pids, NEW step \in StartSteps, To(p, step), mutex' = mutex,
               pc[p] \notin {"new", "gone"}
        PROVE  \A q \in Pids : pc'[q] \notin {"new", "gone"} => mutex' = q
    BY <1>2, <1>h, <1>t, Moves
  <1>3. ASSUME NEW p \in Pids, Start(p), ~ Gone(p)
        PROVE  \A q \in Pids : pc'[q] \notin {"new", "gone"} => mutex' = q
    <2>1. mutex = NoPid /\ mutex' = p /\ To(p, "create") BY <1>3, <1>m DEF Start, AcquireMutex
    <2>2. \A q \in Pids : pc[q] \in {"new", "gone"} BY <2>1, <1>h, NoPidIsNone
    <2> QED BY <1>t, <2>1, <2>2, Moves DEF StartSteps
  <1>4. CASE Grow BY <1>4, <1>h DEF Grow, proc
  <1>5. ASSUME NEW p \in Pids, StartStep(p) \/ Shutdown(p), ~ Gone(p)
        PROVE  /\ \E step \in StartSteps : To(p, step)
               /\ mutex' = mutex /\ pc[p] \notin {"new", "gone"}
    BY <1>5
    DEF StartStep, CreateLock, FillLock, ReadLock, JudgeLock, StealLock, ProbePort, ReleaseLock,
        UnlinkLock, TakeToken, TokenStep, WriteToken, ReadVersion, Snapshot, ReadApplied, Migrate,
        Bind, Shutdown, StartSteps
  <1> QED BY <1>1, <1>2, <1>3, <1>4, <1>5 DEF StartNext, Kill

--------------------------------------------------------------------------------
(* The lock file.                                                          *)

(* A process ends and leaves the file: its own would be stale now.         *)
LEMMA EndKeepsLock ==
    ASSUME StartIInv, Noted, NEW p \in Pids, Gone(p), lock' = lock
    PROVE  LockHeld'
  <1> SUFFICES ASSUME clean' PROVE LockHeld' BY DEF LockHeld
  <1>t. StartTypeOK BY DEF StartIInv
  <1>1. clean /\ LockInOrder' BY CleanMeans
  <1>2. /\ pc'[p] = "gone"
        /\ \A q \in Pids : q # p => pc'[q] = pc[q] /\ held'[q] = held[q]
    BY <1>t, Ends
  <1>3. lock # NoPid => lock.by \in Pids /\ lock.by # p BY <1>1, <1>2 DEF LockInOrder, PidAlive
  <1>4. ~ HoldsLock(p) BY <1>1, <1>3 DEF StartIInv, LockHeld
  <1> QED BY <1>1, <1>2, <1>3 DEF StartIInv, LockHeld, HoldsLock

(* A process moves on without touching the file.                           *)
LEMMA MoveKeepsLock ==
    ASSUME StartIInv, Noted, NEW p \in Pids, NEW step \in StartSteps \ {"judge", "steal"}, To(p, step),
           lock' = lock, held' = held, HoldsLock(p)' <=> HoldsLock(p)
    PROVE  LockHeld'
  <1> SUFFICES ASSUME clean' PROVE LockHeld' BY DEF LockHeld
  <1>t. StartTypeOK BY DEF StartIInv
  <1>1. clean /\ LockInOrder' BY CleanMeans
  <1>2. pc'[p] = step /\ \A q \in Pids : q # p => pc'[q] = pc[q] BY <1>t, Moves
  <1>3. lock # NoPid => lock.by \in Pids BY <1>1 DEF LockInOrder, PidAlive
  <1>4. \A q \in Pids : HoldsLock(q)' <=> HoldsLock(q) BY <1>2 DEF HoldsLock
  <1> QED BY <1>1, <1>2, <1>3, <1>4 DEF StartIInv, LockHeld

(* try_acquire_lock and _read_lock.                                        *)
LEMMA AcquireKeepsLock ==
    ASSUME StartIInv, Noted, NEW p \in Pids, CreateLock(p) \/ FillLock(p) \/ ReadLock(p)
    PROVE  LockHeld'
  <1> SUFFICES ASSUME clean' PROVE LockHeld' BY DEF LockHeld
  <1>t. StartTypeOK BY DEF StartIInv
  <1>0. clean /\ LockInOrder' BY CleanMeans
  <1>h. /\ LockInOrder /\ (lock # NoPid => HoldsLock(lock.by) /\ lock.by \in Pids)
        /\ \A q \in Pids : /\ HoldsLock(q) => lock # NoPid /\ lock.by = q
                           /\ pc[q] # "steal"
                           /\ pc[q] = "judge" /\ lock # NoPid /\ lock.old => held[q] = lock.by
    BY <1>0 DEF StartIInv, LockHeld, LockInOrder, PidAlive
  <1>f. \A b, o \in BOOLEAN : [by |-> p, full |-> b, old |-> o] # NoPid
    BY NoPidIsNone, NoPidAssumption DEF LockFiles
  <1>1. CASE CreateLock(p) /\ lock = NoPid
    <2>1. /\ lock' = [by |-> p, full |-> FALSE, old |-> FALSE] /\ lock' # NoPid /\ held' = held
          /\ To(p, "fill")
      BY <1>1, <1>f DEF CreateLock
    <2>2. pc'[p] = "fill" /\ \A q \in Pids : q # p => pc'[q] = pc[q]
      BY <1>t, <2>1, Moves DEF StartSteps
    <2> QED BY <1>0, <1>1, <1>h, <2>1, <2>2 DEF LockHeld, HoldsLock
  <1>2. CASE CreateLock(p) /\ lock # NoPid
    <2>1. To(p, "read") /\ lock' = lock /\ held' = held /\ pc[p] = "create" BY <1>2 DEF CreateLock
    <2>2. pc'[p] = "read" /\ \A q \in Pids : q # p => pc'[q] = pc[q]
      BY <1>t, <2>1, Moves DEF StartSteps
    <2> QED BY <1>0, <1>h, <2>1, <2>2 DEF LockHeld, HoldsLock
  <1>3. CASE FillLock(p)
    <2>1. /\ pc[p] = "fill" /\ To(p, "probe") /\ held' = held
          /\ lock' = [by |-> p, full |-> TRUE, old |-> FALSE]
      BY <1>3, <1>h DEF FillLock, HoldsLock
    <2>2. pc'[p] = "probe" /\ \A q \in Pids : q # p => pc'[q] = pc[q]
      BY <1>t, <2>1, Moves DEF StartSteps
    <2>3. \A q \in Pids : HoldsLock(q) => q = p BY <1>h, <2>1 DEF HoldsLock
    <2>4. lock' # NoPid BY <1>f, <2>1
    <2> QED BY <1>0, <1>h, <2>1, <2>2, <2>3, <2>4 DEF LockHeld, HoldsLock
  <1>4. CASE ReadLock(p)
    <2>1. /\ pc[p] = "read" /\ To(p, "judge") /\ lock' = lock
          /\ held' = [held EXCEPT ![p] = IF lock # NoPid /\ lock.full THEN lock.by ELSE NoPid]
      BY <1>4 DEF ReadLock
    <2>2. pc'[p] = "judge" /\ \A q \in Pids : q # p => pc'[q] = pc[q]
      BY <1>t, <2>1, Moves DEF StartSteps
    <2>3. \A q \in Pids : held'[q] = IF q = p THEN (IF lock # NoPid /\ lock.full THEN lock.by ELSE NoPid)
                                    ELSE held[q]
      BY <1>t, <2>1 DEF StartTypeOK
    <2>4. lock # NoPid /\ lock.old => held'[p] = lock.by BY <1>h, <2>3 DEF LockInOrder
    <2> QED BY <1>0, <1>h, <2>1, <2>2, <2>3, <2>4 DEF LockHeld, HoldsLock
  <1> QED BY <1>1, <1>2, <1>3, <1>4 DEF CreateLock

(* acquire's judgement, the theft, the release, and the passing of time.   *)
LEMMA ReleaseKeepsLock ==
    ASSUME StartIInv, Noted,
           \/ \E p \in Pids : JudgeLock(p) \/ StealLock(p) \/ UnlinkLock(p)
           \/ Grow
    PROVE  LockHeld'
  <1> SUFFICES ASSUME clean' PROVE LockHeld' BY DEF LockHeld
  <1>t. StartTypeOK BY DEF StartIInv
  <1>0. clean /\ LockInOrder' BY CleanMeans
  <1>h. /\ LockInOrder /\ (lock # NoPid => HoldsLock(lock.by) /\ lock.by \in Pids)
        /\ \A q \in Pids : /\ HoldsLock(q) => lock # NoPid /\ lock.by = q
                           /\ pc[q] # "steal"
                           /\ pc[q] = "judge" /\ lock # NoPid /\ lock.old => held[q] = lock.by
    BY <1>0 DEF StartIInv, LockHeld, LockInOrder, PidAlive
  <1>1. ASSUME NEW p \in Pids, JudgeLock(p) PROVE LockHeld'
    <2>1. ~ (lock # NoPid /\ Stale(p)) BY <1>1, <1>h DEF JudgeLock, Stale, LockInOrder
    <2>2. Gone(p) /\ lock' = lock BY <1>1, <2>1 DEF JudgeLock
    <2> QED BY <2>2, EndKeepsLock
  <1>2. ASSUME NEW p \in Pids, StealLock(p) PROVE LockHeld' BY <1>2, <1>h DEF StealLock
  <1>3. ASSUME NEW p \in Pids, UnlinkLock(p) PROVE LockHeld'
    <2>1. pc[p] = "unlink" /\ lock' = NoPid /\ Gone(p) BY <1>3 DEF UnlinkLock
    <2>2. pc'[p] = "gone" /\ \A q \in Pids : q # p => pc'[q] = pc[q] BY <1>t, <2>1, Ends
    <2>3. \A q \in Pids : HoldsLock(q) => q = p BY <1>h, <2>1 DEF HoldsLock
    <2> QED BY <1>0, <1>h, <2>1, <2>2, <2>3 DEF LockHeld, HoldsLock
  <1>4. CASE Grow
    <2>1. /\ lock # NoPid /\ lock' = [lock EXCEPT !.old = TRUE] /\ pc' = pc /\ held' = held
      BY <1>4 DEF Grow, proc
    <2>2. lock'.by = lock.by /\ lock' # NoPid
      BY <1>t, <2>1, NoPidAssumption DEF StartTypeOK, Locks, LockFiles
    <2>3. \A q \in Pids : pc[q] # "judge" BY <1>4, Zenon DEF Noted
    <2> QED BY <1>0, <1>h, <2>1, <2>2, <2>3 DEF LockHeld, HoldsLock
  <1> QED BY <1>1, <1>2, <1>3, <1>4

LEMMA LockPreserved == StartIInv /\ StartNext => LockHeld'
  <1> SUFFICES ASSUME StartIInv, StartNext PROVE LockHeld' OBVIOUS
  <1>t. StartTypeOK /\ Noted BY DEF StartIInv, StartNext
  <1>1. ASSUME NEW p \in Pids, Gone(p), lock' = lock PROVE LockHeld' BY <1>1, <1>t, EndKeepsLock
  <1>2. ASSUME NEW p \in Pids, NEW step \in StartSteps \ {"judge", "steal"}, To(p, step),
               lock' = lock, held' = held,
               HoldsLock(p) <=> step \in {"fill", "probe", "token", "write_token", "version",
                  "snapshot", "begin", "migrate", "bind", "serving", "release", "unlink"}
        PROVE  LockHeld'
    <2>1. HoldsLock(p)' <=> HoldsLock(p)
      <3>1. pc'[p] = step BY <1>2, <1>t, Moves
      <3> QED BY <1>2, <3>1 DEF HoldsLock
    <2> QED BY <1>2, <1>t, <2>1, MoveKeepsLock
  <1>3. ASSUME NEW p \in Pids, Start(p) PROVE LockHeld'
    <2>1. CASE Gone(p) BY <1>1, <1>3, <2>1 DEF Start
    <2>2. CASE ~ Gone(p)
      BY <1>2, <1>3, <2>2 DEF Start, AcquireMutex, StartSteps, HoldsLock
    <2> QED BY <2>1, <2>2
  <1>4. ASSUME NEW p \in Pids, StartStep(p), ~ Gone(p),
               ~ (CreateLock(p) \/ FillLock(p) \/ ReadLock(p)),
               ~ (JudgeLock(p) \/ StealLock(p) \/ UnlinkLock(p))
        PROVE  LockHeld'
    <2>1. \E step \in {"token", "write_token", "release", "unlink", "version", "begin", "snapshot",
                       "bind", "migrate", "serving"} : To(p, step)
      BY <1>4 DEF StartStep, ProbePort, ReleaseLock, TakeToken, TokenStep, WriteToken,
                  ReadVersion, Snapshot, ReadApplied, Migrate, Bind
    <2>2. lock' = lock /\ held' = held /\ HoldsLock(p)
      BY <1>4 DEF StartStep, ProbePort, ReleaseLock, TakeToken, WriteToken, HoldsLock,
                  ReadVersion, Snapshot, ReadApplied, Migrate, Bind
    <2> QED BY <1>2, <2>1, <2>2 DEF StartSteps
  <1>5. ASSUME NEW p \in Pids, StartStep(p), Gone(p), ~ UnlinkLock(p),
               ~ (CreateLock(p) \/ FillLock(p) \/ ReadLock(p) \/ JudgeLock(p) \/ StealLock(p))
        PROVE  LockHeld'
    <2>1. lock' = lock
      BY <1>5 DEF StartStep, ProbePort, ReleaseLock, TakeToken, WriteToken,
                  ReadVersion, Snapshot, ReadApplied, Migrate, Bind
    <2> QED BY <1>1, <1>5, <2>1
  <1>6. ASSUME NEW p \in Pids, Shutdown(p) PROVE LockHeld'
    BY <1>2, <1>6 DEF Shutdown, StartSteps, HoldsLock
  <1>7. ASSUME NEW p \in Pids, Kill(p) PROVE LockHeld' BY <1>1, <1>7 DEF Kill
  <1> QED BY <1>t, <1>3, <1>4, <1>5, <1>6, <1>7, AcquireKeepsLock, ReleaseKeepsLock DEF StartNext

--------------------------------------------------------------------------------
(* The backups.                                                            *)

(* Nobody migrates between a reading of the version and the copy made      *)
(* under its name.                                                         *)
LEMMA NamesPreserved == StartIInv /\ StartNext => SnapshotIsNamed'
  <1> SUFFICES ASSUME StartIInv, StartNext, NEW q \in Pids, pc'[q] = "snapshot"
               PROVE  seen'[q] \in 1 .. Schema /\ ((mutexes \/ clean)' => seen'[q] = version')
    BY DEF SnapshotIsNamed
  <1>t. StartTypeOK /\ Noted /\ MutexHeld /\ LockHeld BY DEF StartIInv, StartNext
  <1>a. (mutexes \/ clean)' => mutexes \/ clean
    <2>1. mutexes' = mutexes
      BY DEF StartNext, Start, StartStep, CreateLock, FillLock, ReadLock, JudgeLock, StealLock,
             ProbePort, ReleaseLock, UnlinkLock, TakeToken, WriteToken, ReadVersion, Snapshot,
             ReadApplied, Migrate, Bind, Shutdown, Kill, Grow
    <2> QED BY <1>t, <2>1, CleanMeans
  <1>1. CASE ReadVersion(q)
    <2>1. /\ seen' = [seen EXCEPT ![q] = version] /\ version' = version
          /\ To(q, IF version \in {0, Schema} THEN "begin" ELSE "snapshot")
      BY <1>1 DEF ReadVersion
    <2>2. version \notin {0, Schema} BY <1>t, <2>1, Moves DEF StartSteps
    <2>3. seen'[q] = version BY <1>t, <2>1 DEF StartTypeOK
    <2>4. version \in 1 .. Schema BY <1>t, <2>2, PidsAssumption DEF StartTypeOK
    <2> QED BY <2>1, <2>3, <2>4
  <1>2. CASE ~ ReadVersion(q)
    <2>1. pc[q] = "snapshot" /\ seen'[q] = seen[q]
      BY <1>2, <1>t
      DEF StartNext, Start, AcquireMutex, StartStep, CreateLock, FillLock, ReadLock, JudgeLock,
          StealLock, ProbePort, ReleaseLock, UnlinkLock, TakeToken, TokenStep, WriteToken,
          ReadVersion, Snapshot, ReadApplied, Migrate, Bind, Shutdown, Kill, Grow, Gone, To, proc,
          StartTypeOK
    <2>2. (mutexes \/ clean)' => version' = version
      <3> SUFFICES ASSUME mutexes \/ clean, version' # version PROVE FALSE BY <1>a
      <3>1. PICK p \in Pids : Migrate(p)
        BY DEF StartNext, Start, StartStep, CreateLock, FillLock, ReadLock, JudgeLock, StealLock,
               ProbePort, ReleaseLock, UnlinkLock, TakeToken, WriteToken, ReadVersion, Snapshot,
               ReadApplied, Migrate, Bind, Shutdown, Kill, Grow
      <3>2. pc[p] = "migrate" BY <3>1 DEF Migrate
      <3>3. InLifespan(p) /\ InLifespan(q) BY <2>1, <3>2 DEF InLifespan
      <3>4. p = q BY <1>t, <3>3, Alone
      <3> QED BY <2>1, <3>2, <3>4
    <2> QED BY <1>a, <2>1, <2>2 DEF StartIInv, SnapshotIsNamed
  <1> QED BY <1>1, <1>2

LEMMA BackupsPreserved == StartIInv /\ StartNext => BackupHoldsItsVersion'
  <1> SUFFICES ASSUME StartIInv, StartNext, (mutexes \/ clean)', NEW v \in 1 .. Schema
               PROVE  backups'[v] \in {v, NoPid}
    BY DEF BackupHoldsItsVersion
  <1>t. StartTypeOK /\ Noted BY DEF StartIInv, StartNext
  <1>1. mutexes \/ clean
    <2>1. mutexes' = mutexes
      BY DEF StartNext, Start, StartStep, CreateLock, FillLock, ReadLock, JudgeLock, StealLock,
             ProbePort, ReleaseLock, UnlinkLock, TakeToken, WriteToken, ReadVersion, Snapshot,
             ReadApplied, Migrate, Bind, Shutdown, Kill, Grow
    <2> QED BY <1>t, <2>1, CleanMeans
  <1>2. backups[v] \in {v, NoPid} BY <1>1 DEF StartIInv, BackupHoldsItsVersion
  <1>3. CASE backups' = backups BY <1>2, <1>3
  <1>4. CASE \E p \in Pids : Snapshot(p) /\ backups' # backups
    <2>1. PICK p \in Pids : Snapshot(p) /\ backups' # backups BY <1>4
    <2>2. pc[p] = "snapshot" /\ backups' = [backups EXCEPT ![seen[p]] = version]
      BY <2>1 DEF Snapshot, BackupName
    <2>3. seen[p] = version BY <1>1, <2>2 DEF StartIInv, SnapshotIsNamed
    <2> QED BY <1>2, <1>t, <2>2, <2>3 DEF StartTypeOK
  <1>5. backups' = backups \/ \E p \in Pids : Snapshot(p) /\ backups' # backups
    BY DEF StartNext, Start, StartStep, CreateLock, FillLock, ReadLock, JudgeLock, StealLock,
           ProbePort, ReleaseLock, UnlinkLock, TakeToken, WriteToken, ReadVersion, Snapshot,
           ReadApplied, Migrate, Bind, Shutdown, Kill, Grow
  <1> QED BY <1>3, <1>4, <1>5

LEMMA StartStutterPreserves == StartIInv /\ UNCHANGED startVars => StartIInv'
  BY DEF StartIInv, startVars, proc, StartTypeOK, MutexHeld, LockHeld, SnapshotIsNamed,
         BackupHoldsItsVersion, LockInOrder, HoldsLock, PidAlive

--------------------------------------------------------------------------------
(* The theorems.                                                           *)

(* The inductive invariant.                                                *)
THEOREM StartInductiveInvariant == StartSpec => []StartIInv
  <1>1. StartIInv /\ [StartNext]_startVars => StartIInv'
    BY NextIsTyped, MutexPreserved, LockPreserved, NamesPreserved, BackupsPreserved,
       StartStutterPreserves
    DEF StartIInv
  <1> QED BY <1>1, StartInitEstablishes, PTL DEF StartSpec

(* The guards, the database and the processes keep their types, and the    *)
(* process that serves is the one that listens on the port.                *)
THEOREM StartTypeCorrect == StartSpec => []StartTypeOK
  <1>1. StartIInv => StartTypeOK BY DEF StartIInv
  <1> QED BY <1>1, StartInductiveInvariant, PTL

(* singleton.acquire: with the mutex, or with the lock file alone as long  *)
(* as no lock is stale, one process at a time is past the guard, however   *)
(* many start, fail, are killed or end.                                    *)
THEOREM OnlyOneEngine == StartSpec => []OneEngine
  <1>1. StartIInv => OneEngine
    <2> SUFFICES ASSUME StartIInv, mutexes \/ clean
                 PROVE  Cardinality({p \in Pids : InLifespan(p)}) <= 1
      BY DEF OneEngine
    <2>1. \A p, q \in {r \in Pids : InLifespan(r)} : p = q BY Alone DEF StartIInv
    <2> QED BY <2>1, AtMostOne
  <1> QED BY <1>1, StartInductiveInvariant, PTL

(* backup_before_upgrade: a backup made under either guard holds the       *)
(* version in its name.                                                    *)
THEOREM BackupsCanBeRestored == StartSpec => []BackupHoldsItsVersion
  <1>1. StartIInv => BackupHoldsItsVersion BY DEF StartIInv
  <1> QED BY <1>1, StartInductiveInvariant, PTL
================================================================================
