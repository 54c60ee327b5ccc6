--------------------------- MODULE ReportIndex_proofs --------------------------
(***************************************************************************)
(* Proofs about ReportIndex and JobListing, for every set of analyses,     *)
(* every number of paths, every batch size, any number of faults and any   *)
(* size of a page.                                                         *)
(***************************************************************************)
EXTENDS JobListing, FiniteSetTheorems, SequenceTheorems, WellFoundedInduction, TLAPS

(* A run has collected nothing before it begins to scan, and probes the    *)
(* root only for a path it has yet to read.                                *)
RunShape ==
    /\ rpc \in {"none", "preflight", "resolve", "begin"} => todo = {}
    /\ rpc = "probe" => Chunk \ DOMAIN read # {}

(* The inductive invariant: the pairing of documents and full-text rows    *)
(* rests on what the worker and the rebuild hold between two transactions, *)
(* which TypeOK and RunShape say.                                          *)
IInv == TypeOK /\ RunShape /\ FtsPaired /\ UserRootOnly

--------------------------------------------------------------------------------
(* Lemmas about the operators of a batch.                                  *)

(* MinOf is what its name says.                                            *)
LEMMA MinOfMember ==
    ASSUME NEW S \in SUBSET Nat, S # {}
    PROVE  MinOf(S) \in S /\ \A y \in S : MinOf(S) <= y
  <1> DEFINE R == OpToRel(<, Nat)
  <1>1. \E x \in S : \A y \in S : ~ (<<y, x>> \in R)
    <2>1. IsWellFoundedOn(R, Nat) BY NatLessThanWellFounded
    <2> HIDE DEF R
    <2> QED BY <2>1, WFMin
  <1>2. \E x \in S : \A y \in S : x <= y
    <2>1. PICK x \in S : \A y \in S : ~ (<<y, x>> \in R) BY <1>1
    <2>2. ASSUME NEW y \in S PROVE x <= y
      <3>1. ~ (y < x) BY <2>1, <2>2 DEF OpToRel
      <3> QED BY <3>1
    <2> QED BY <2>2
  <1> QED BY <1>2 DEF MinOf

(* The path the scan reads next is one of those left.                      *)
LEMMA NextPath ==
    ASSUME TypeOK, Chunk \ DOMAIN read # {}
    PROVE  MinOf(Chunk \ DOMAIN read) \in todo
  <1>1. Chunk \ DOMAIN read \in SUBSET Nat
    BY PathsAssumption DEF Chunk, TypeOK, Paths
  <1> QED BY <1>1, MinOfMember DEF Chunk

(* An analysis that a batch upserts gets a path the batch read and parsed. *)
LEMMA ClaimIsParsed ==
    ASSUME TypeOK, NEW j \in Jobs
    PROVE  /\ Claim(j) \in Paths \cup {None}
           /\ j \in Claimed => /\ Claim(j) \in Paths
                               /\ read[Claim(j)].text \in 0 .. NPaths
  <1>1. Parsed(j) \in SUBSET Paths /\ Parsed(j) \in SUBSET Nat
    BY PathsAssumption DEF Parsed, TypeOK, Paths
  <1>2. CASE claims[j] # None \/ Parsed(j) = {}
    BY <1>2 DEF Claim, Claimed, TypeOK
  <1>3. CASE claims[j] = None /\ Parsed(j) # {}
    <2>1. Claim(j) \in Parsed(j) BY <1>1, <1>3, MinOfMember DEF Claim
    <2>2. read[Claim(j)] \in Contents BY <2>1 DEF Parsed, TypeOK
    <2> QED BY <1>1, <2>1, <2>2 DEF Contents
  <1> QED BY <1>2, <1>3

--------------------------------------------------------------------------------
(* Preservation, one lemma per group of actions.                           *)

(* The locals of a run that is over are well typed.                        *)
LEMMA EmptyLocals ==
    /\ NoRead \in [DOMAIN NoRead -> Contents \cup {None}] /\ DOMAIN NoRead = {}
    /\ NoClaims \in [Jobs -> Paths \cup {None}]
  BY DEF NoRead, NoClaims

LEMMA InitEstablishes == Init => IInv
  <1> SUFFICES ASSUME Init PROVE IInv OBVIOUS
  <1>1. TypeOK
    <2>1. /\ files \in [Paths -> Contents \cup {None}] /\ generated \in [Paths -> Jobs \cup {None}]
          /\ jobs \in [Jobs -> {"generating_report", "indexing", "completed", "failed", "no_row"}]
          /\ art \in [Jobs -> Paths \cup {None}] /\ docs \in [Jobs -> Docs \cup {None}]
      BY DEF Init
    <2>2. faults \in 0 .. MaxFaults BY FaultsAssumption DEF Init
    <2> QED BY <2>1, <2>2, EmptyLocals DEF Init, TypeOK
  <1>2. FtsPaired BY DEF Init, FtsPaired, FtsConsistent, Indexed
  <1>3. UserRootOnly BY NoneAssumption DEF Init, UserRootOnly
  <1>4. RunShape BY DEF Init, RunShape
  <1> QED BY <1>1, <1>2, <1>3, <1>4 DEF IInv

(* A step that leaves documents, full-text rows and root alone keeps the   *)
(* pairing; one that leaves the run alone keeps its shape.                 *)
LEMMA PairingKept ==
    ASSUME IInv, UNCHANGED <<docs, fts, root>>
    PROVE  FtsPaired' /\ UserRootOnly'
  BY DEF IInv, FtsPaired, FtsConsistent, Indexed, UserRootOnly

LEMMA ShapeKept ==
    ASSUME IInv, UNCHANGED <<rpc, todo, read>>
    PROVE  RunShape'
  BY DEF IInv, RunShape, Chunk

LEMMA PipelinePreserves == IInv /\ PipelineStep => IInv'
  <1> SUFFICES ASSUME IInv, PipelineStep PROVE IInv' OBVIOUS
  <1>t. TypeOK BY DEF IInv
  <1> USE DEF disk, tables, worker, startup, rebuild, locals, ghosts
  <1>s. RunShape'
    <2>1. UNCHANGED <<rpc, todo, read>>
      BY DEF PipelineStep, WriteReport, CommitReport, ReadReport, IndexReport, FinishJob, LoseCommit
    <2> QED BY <2>1, ShapeKept
  <1>1. ASSUME NEW j \in Jobs, NEW p \in Paths, WriteReport(j, p) PROVE IInv'
    <2>1. p \in 0 .. NPaths BY PathsAssumption DEF Paths
    <2>2. TypeOK'
      BY <1>1, <1>t, <2>1 DEF WriteReport, WriteSync, Disturb, TypeOK, Contents
    <2>3. UNCHANGED <<docs, fts, root>> BY <1>1 DEF WriteReport
    <2> QED BY <1>s, <2>2, <2>3, PairingKept DEF IInv
  <1>2. CASE CommitReport
    <2>1. TypeOK' BY <1>2, <1>t DEF CommitReport, WorkerIdle, WorkerAt, TypeOK
    <2>2. UNCHANGED <<docs, fts, root>> BY <1>2 DEF CommitReport
    <2> QED BY <1>s, <2>1, <2>2, PairingKept DEF IInv
  <1>3. ASSUME NEW j \in Jobs, ReadReport(j) PROVE IInv'
    <2>1. TypeOK' BY <1>3, <1>t DEF ReadReport, WorkerAt, TypeOK
    <2>2. UNCHANGED <<docs, fts, root>> BY <1>3 DEF ReadReport
    <2> QED BY <1>s, <2>1, <2>2, PairingKept DEF IInv
  <1>4. CASE IndexReport
    <2>1. wjob \in Jobs /\ wfile \in Paths /\ wfile \in 0 .. NPaths
      BY <1>4, <1>t, PathsAssumption DEF IndexReport, TypeOK, Paths
    <2>2. Upserted(wfile, wfile) \in Docs /\ Upserted(wfile, wfile).st = "active"
      BY <2>1 DEF Upserted, Docs
    <2>3. TypeOK'
      BY <1>4, <1>t, <2>1, <2>2 DEF IndexReport, WorkerAt, TypeOK
    <2>4. FtsPaired'
      BY <1>4, <1>t, <2>1, <2>2, NoneAssumption
      DEF IInv, IndexReport, FtsPaired, FtsConsistent, Indexed, TypeOK
    <2>5. UserRootOnly' BY <1>4 DEF IInv, IndexReport, UserRootOnly
    <2> QED BY <1>s, <2>3, <2>4, <2>5 DEF IInv
  <1>5. CASE FinishJob
    <2>1. TypeOK' BY <1>5, <1>t DEF FinishJob, WorkerIdle, WorkerAt, TypeOK
    <2>2. UNCHANGED <<docs, fts, root>> BY <1>5 DEF FinishJob
    <2> QED BY <1>s, <2>1, <2>2, PairingKept DEF IInv
  <1>6. CASE LoseCommit
    <2>1. TypeOK'
      BY <1>6, <1>t, FaultsAssumption DEF LoseCommit, WorkerIdle, WorkerAt, Fault, TypeOK
    <2>2. UNCHANGED <<docs, fts, root>> BY <1>6 DEF LoseCommit
    <2> QED BY <1>s, <2>1, <2>2, PairingKept DEF IInv
  <1> QED BY <1>1, <1>2, <1>3, <1>4, <1>5, <1>6 DEF PipelineStep

(* The start of a run, and its way to the scan.                            *)
LEMMA RunStartPreserves ==
    IInv /\ (StartRebuild \/ Preflight \/ RunResolve \/ RunBegin) => IInv'
  <1> SUFFICES ASSUME IInv, StartRebuild \/ Preflight \/ RunResolve \/ RunBegin PROVE IInv'
    OBVIOUS
  <1>t. TypeOK /\ RunShape BY DEF IInv
  <1> USE DEF disk, tables, worker, startup, rebuild, locals, ghosts
  <1>1. CASE StartRebuild
    <2>1. TypeOK'
      BY <1>1, <1>t, FaultsAssumption, NoneAssumption DEF StartRebuild, Fault, TypeOK
    <2>2. UNCHANGED <<docs, fts, root>> BY <1>1 DEF StartRebuild
    <2>3. RunShape' BY <1>1, <1>t DEF StartRebuild, RunShape, TypeOK
    <2> QED BY <2>1, <2>2, <2>3, PairingKept DEF IInv
  <1>2. CASE Preflight
    <2>1. TypeOK' BY <1>2, <1>t DEF Preflight, Run, TypeOK
    <2>2. UNCHANGED <<docs, fts, root>> BY <1>2 DEF Preflight, Run
    <2>3. RunShape' BY <1>2, <1>t DEF Preflight, Run, RunShape
    <2> QED BY <2>1, <2>2, <2>3, PairingKept DEF IInv
  <1>3. CASE RunResolve
    <2>1. Usable(Resolved) => Resolved = "custom"
      BY DEF Usable, Resolved, ReadPointer
    <2>2. TypeOK' BY <1>3, <1>t, <2>1 DEF RunResolve, TypeOK
    <2>3. UNCHANGED <<docs, fts>> BY <1>3 DEF RunResolve
    <2>4. FtsPaired' BY <2>3 DEF IInv, FtsPaired, FtsConsistent, Indexed
    <2>5. UserRootOnly' BY <1>3, <2>1 DEF IInv, RunResolve, UserRootOnly
    <2>6. RunShape' BY <1>3, <1>t DEF RunResolve, RunShape
    <2> QED BY <2>2, <2>4, <2>5, <2>6 DEF IInv
  <1>4. CASE RunBegin
    <2>1. Collect(root) \subseteq Paths BY DEF Collect
    <2>2. DOMAIN read = {} BY <1>4, <1>t DEF RunBegin, RunShape, TypeOK
    <2>3. TypeOK' BY <1>4, <1>t, <2>1, <2>2 DEF RunBegin, SetState, TypeOK
    <2>4. UNCHANGED <<docs, fts, root>> BY <1>4 DEF RunBegin, SetState
    <2>5. RunShape' BY <1>4 DEF RunBegin, RunShape
    <2> QED BY <2>3, <2>4, <2>5, PairingKept DEF IInv
  <1> QED BY <1>1, <1>2, <1>3, <1>4

(* Reading files, one batch at a time.                                     *)
LEMMA ScanPreserves == IInv /\ (ScanFile \/ ProbeRoot \/ RecheckRoot) => IInv'
  <1> SUFFICES ASSUME IInv, ScanFile \/ ProbeRoot \/ RecheckRoot PROVE IInv' OBVIOUS
  <1>t. TypeOK /\ RunShape BY DEF IInv
  <1> DEFINE p == MinOf(Chunk \ DOMAIN read)
             Extended(c) == [q \in DOMAIN read \cup {p} |-> IF q = p THEN c ELSE read[q]]
  <1> USE DEF disk, tables, worker, startup, rebuild, locals, ghosts
  <1>1. ASSUME p \in todo, NEW c \in Contents \cup {None}, read' = Extended(c)
        PROVE  read' \in [DOMAIN read' -> Contents \cup {None}] /\ DOMAIN read' \subseteq todo
    BY <1>1, <1>t DEF TypeOK
  <1>2. CASE ScanFile
    <2>1. p \in todo BY <1>2, <1>t, NextPath DEF ScanFile
    <2>2. files[p] \in Contents \cup {None} BY <2>1, <1>t DEF TypeOK
    <2>3. read' = read \/ read' = Extended(files[p]) BY <1>2 DEF ScanFile
    <2>4. read' \in [DOMAIN read' -> Contents \cup {None}] /\ DOMAIN read' \subseteq todo
      <3> HIDE DEF p, Extended
      <3> QED BY <2>1, <2>2, <2>3, <1>1, <1>t DEF TypeOK
    <2>5. rpc' \in {"scan", "probe"} /\ rpc # "none" BY <1>2 DEF ScanFile
    <2>6. UNCHANGED <<disk, tables, engine, worker, startup, ghosts, task, root, todo,
                      claims, scanned>>
      BY <1>2 DEF ScanFile
    <2>7. TypeOK' BY <1>t, <2>4, <2>5, <2>6 DEF TypeOK
    <2>8. RunShape' BY <1>2 DEF ScanFile, RunShape, Chunk
    <2> QED BY <2>6, <2>7, <2>8, PairingKept DEF IInv
  <1>3. CASE ProbeRoot
    <2>1. p \in todo BY <1>3, <1>t, NextPath DEF ProbeRoot, RunShape
    <2>3. read' = read \/ read' = Extended(None) BY <1>3 DEF ProbeRoot
    <2>4. read' \in [DOMAIN read' -> Contents \cup {None}] /\ DOMAIN read' \subseteq todo
      <3> HIDE DEF p, Extended
      <3> QED BY <2>1, <2>3, <1>1, <1>t DEF TypeOK
    <2>5. rpc' \in {"scan", "park"} /\ rpc # "none" BY <1>3 DEF ProbeRoot
    <2>6. UNCHANGED <<disk, tables, engine, worker, startup, ghosts, task, root, todo,
                      claims, scanned>>
      BY <1>3 DEF ProbeRoot
    <2>7. TypeOK' BY <1>t, <2>4, <2>5, <2>6 DEF TypeOK
    <2>8. RunShape' BY <2>5 DEF RunShape
    <2> QED BY <2>6, <2>7, <2>8, PairingKept DEF IInv
  <1>4. CASE RecheckRoot
    <2>1. TypeOK' BY <1>4, <1>t DEF RecheckRoot, Run, TypeOK
    <2>2. UNCHANGED <<docs, fts, root>> BY <1>4 DEF RecheckRoot, Run
    <2>3. RunShape' BY <1>4 DEF RecheckRoot, Run, RunShape
    <2> QED BY <2>1, <2>2, <2>3, PairingKept DEF IInv
  <1> QED BY <1>2, <1>3, <1>4

(* The transaction of a batch upserts a document with its full-text row.   *)
LEMMA BatchPreserves == IInv /\ BatchTransaction => IInv'
  <1> SUFFICES ASSUME IInv, BatchTransaction PROVE IInv' OBVIOUS
  <1>t. TypeOK /\ FtsPaired BY DEF IInv
  <1> USE DEF disk, tables, worker, startup, rebuild, locals, ghosts
  <1> DEFINE Row(j) == Upserted(Claim(j), read[Claim(j)].text)
  <1>1. \A j \in Claimed : j \in Jobs /\ Row(j) \in Docs /\ Row(j).st = "active" /\ Row(j) # None
    <2> SUFFICES ASSUME NEW j \in Claimed
                 PROVE  j \in Jobs /\ Row(j) \in Docs /\ Row(j).st = "active" /\ Row(j) # None
      OBVIOUS
    <2>1. j \in Jobs BY DEF Claimed
    <2>2. Claim(j) \in Paths /\ read[Claim(j)].text \in 0 .. NPaths
      BY <1>t, <2>1, ClaimIsParsed
    <2> QED BY <2>1, <2>2, NoneAssumption DEF Upserted, Docs
  <1>2. docs' = [j \in Jobs |-> IF j \in Claimed THEN Row(j) ELSE docs[j]]
    BY DEF BatchTransaction
  <1>3. fts' = fts \cup Claimed BY DEF BatchTransaction
  <1>4. issues' \subseteq {"md", "duplicate"} \X Paths
    <2>1. DOMAIN read \subseteq Paths /\ issues \subseteq {"md", "duplicate"} \X Paths
      BY <1>t DEF TypeOK
    <2> QED BY <2>1 DEF BatchTransaction, Record, Resolve, Parsed, Quarantined
  <1>5. claims' \in [Jobs -> Paths \cup {None}]
    BY <1>t, ClaimIsParsed DEF BatchTransaction
  <1>6. todo' \subseteq Paths /\ scanned' \subseteq Paths /\ read' = NoRead
    BY <1>t DEF BatchTransaction, Chunk, TypeOK
  <1>7. rpc = "scan" /\ UNCHANGED <<task, rpc, root, row, jobs, art, istate, disk, engine,
                                    worker, startup, ghosts>>
    BY DEF BatchTransaction
  <1> HIDE DEF Row
  <1>8. docs' \in [Jobs -> Docs \cup {None}] /\ fts' \subseteq Jobs
    BY <1>t, <1>1, <1>2, <1>3 DEF TypeOK
  <1>9. TypeOK'
    BY <1>t, <1>4, <1>5, <1>6, <1>7, <1>8 DEF TypeOK, NoRead
  <1>10. FtsPaired'
    BY <1>t, <1>1, <1>2, <1>3 DEF FtsPaired, FtsConsistent, Indexed
  <1>11. RunShape' /\ UserRootOnly'
    BY <1>7 DEF RunShape, IInv, UserRootOnly
  <1> QED BY <1>9, <1>10, <1>11 DEF IInv

(* Absence takes documents and full-text rows away together.               *)
LEMMA AbsentPreserves ==
    ASSUME IInv, NEW purge \in BOOLEAN, MarkAbsent(purge)
    PROVE  IInv'
  <1>t. TypeOK /\ FtsPaired BY DEF IInv
  <1> USE DEF disk, tables, worker, startup, rebuild, locals, ghosts
  <1>1. \A j \in Jobs : Absent(j) => Missing(docs[j]) \in Docs /\ Missing(docs[j]).st = "missing"
    BY <1>t DEF Absent, Missing, Docs, TypeOK
  <1>2. \A j \in Jobs : docs'[j] = IF ~ Absent(j) THEN docs[j]
                                   ELSE IF purge /\ docs[j].path \notin scanned THEN None
                                   ELSE Missing(docs[j])
    BY DEF MarkAbsent, Purged
  <1>3. docs' \in [Jobs -> Docs \cup {None}]
    BY <1>t, <1>1 DEF MarkAbsent, Purged, TypeOK
  <1>4. TypeOK' BY <1>t, <1>3 DEF MarkAbsent, ResolveAbsent, Run, TypeOK
  <1>5. FtsPaired'
    <2>1. fts' = fts \ {j \in Jobs : Absent(j)} BY DEF MarkAbsent
    <2>2. \A j \in Jobs : Absent(j) => docs'[j] = None \/ docs'[j].st = "missing"
      BY <1>1, <1>2
    <2>3. \A j \in Jobs : ~ Absent(j) => docs'[j] = docs[j] BY <1>2
    <2> HIDE DEF Absent
    <2> QED BY <1>t, <2>1, <2>2, <2>3 DEF FtsPaired, FtsConsistent, Indexed
  <1>6. RunShape' /\ UserRootOnly' BY DEF MarkAbsent, Run, RunShape, IInv, UserRootOnly
  <1> QED BY <1>4, <1>5, <1>6 DEF IInv

(* The end of a run.                                                       *)
LEMMA RunEndPreserves == IInv /\ (RunFinish \/ ParkNeedsRebuild \/ RunError \/ RunDies) => IInv'
  <1> SUFFICES ASSUME IInv, RunFinish \/ ParkNeedsRebuild \/ RunError \/ RunDies PROVE IInv'
    OBVIOUS
  <1>t. TypeOK /\ RunShape BY DEF IInv
  <1> USE DEF disk, tables, worker, startup, rebuild, locals, ghosts
  <1>1. CASE RunFinish \/ ParkNeedsRebuild
    <2>0. spc' \in {spc, "park"} /\ UNCHANGED sempty
      BY <1>1 DEF RunFinish, ParkNeedsRebuild, RunFails
    <2>s. spc' \in {"none", "status", "again", "orphan", "backfill", "go", "park"}
      BY <1>t, <2>0 DEF TypeOK
    <2>r. RunOver /\ istate' \in {"idle", "needs_rebuild"} /\ quiet' \in {"no", quiet, "clean"}
          /\ UNCHANGED <<row, jobs, art, docs, fts, issues, faults, disk, engine, worker>>
      BY <1>1 DEF RunFinish, ParkNeedsRebuild, RunFails, SetState
    <2>1. TypeOK' BY <1>t, <2>0, <2>s, <2>r, EmptyLocals DEF RunOver, TypeOK
    <2>2. RunShape' BY <1>1 DEF RunFinish, ParkNeedsRebuild, RunFails, RunOver, RunShape
    <2>3. UNCHANGED <<docs, fts>> BY <2>r
    <2>4. FtsPaired' BY <2>3 DEF IInv, FtsPaired, FtsConsistent, Indexed
    <2>5. UserRootOnly'
      BY <1>1, NoneAssumption DEF RunFinish, ParkNeedsRebuild, RunFails, RunOver, UserRootOnly
    <2> QED BY <2>1, <2>2, <2>4, <2>5 DEF IInv
  <1>2. CASE RunError
    <2>1. TypeOK' BY <1>2, <1>t, FaultsAssumption DEF RunError, Run, Fault, TypeOK
    <2>2. UNCHANGED <<docs, fts, root>> BY <1>2 DEF RunError, Run
    <2>3. RunShape' BY <1>2 DEF RunError, Run, RunShape
    <2> QED BY <2>1, <2>2, <2>3, PairingKept DEF IInv
  <1>3. CASE RunDies
    <2>1. faults' \in 0 .. MaxFaults BY <1>3, <1>t, FaultsAssumption DEF RunDies, TypeOK
    <2>2. TypeOK' BY <1>3, <1>t, <2>1, EmptyLocals DEF RunDies, RunFails, RunOver, TypeOK
    <2>3. RunShape' BY <1>3 DEF RunDies, RunFails, RunOver, RunShape
    <2>4. FtsPaired' BY <1>3 DEF RunDies, IInv, FtsPaired, FtsConsistent, Indexed
    <2>5. UserRootOnly' BY <1>3, NoneAssumption DEF RunDies, RunFails, RunOver, UserRootOnly
    <2> QED BY <2>2, <2>3, <2>4, <2>5 DEF IInv
  <1> QED BY <1>1, <1>2, <1>3

LEMMA StartupPreserves == IInv /\ StartupStep => IInv'
  <1> SUFFICES ASSUME IInv, StartupStep PROVE IInv' OBVIOUS
  <1>t. TypeOK /\ RunShape BY DEF IInv
  <1> USE DEF disk, tables, worker, startup, rebuild, locals, ghosts
  <1>1. UNCHANGED <<docs, fts, root>>
    BY DEF StartupStep, StartupStatus, StartupAgain, StartupOrphan, StartupBackfill, StartupGo,
           StartupPark, SetState
  <1>2. RunShape'
    BY <1>t, NoneAssumption DEF StartupStep, StartupStatus, StartupAgain, StartupOrphan,
       StartupBackfill, StartupGo, StartupPark, RunShape, Chunk, TypeOK
  <1>3. CASE StartupStatus \/ StartupAgain
    <2>1. spc' \in {"none", "orphan", "backfill", "go"}
      BY <1>3 DEF StartupStatus, StartupAgain, Decision
    <2>2. sempty' \in BOOLEAN
      BY <1>3 DEF StartupStatus, StartupAgain
    <2>3. UNCHANGED <<disk, tables, engine, worker, rebuild, ghosts>>
      BY <1>3 DEF StartupStatus, StartupAgain
    <2>4. TypeOK' BY <1>t, <2>1, <2>2, <2>3 DEF TypeOK
    <2> QED BY <1>1, <1>2, <2>4, PairingKept DEF IInv
  <1>4. CASE StartupOrphan \/ StartupBackfill \/ StartupPark
    <2>1. TypeOK' BY <1>4, <1>t DEF StartupOrphan, StartupBackfill, StartupPark, SetState, TypeOK
    <2> QED BY <1>1, <1>2, <2>1, PairingKept DEF IInv
  <1>5. CASE StartupGo
    <2>1. TypeOK' BY <1>5, <1>t, NoneAssumption DEF StartupGo, TypeOK
    <2> QED BY <1>1, <1>2, <2>1, PairingKept DEF IInv
  <1> QED BY <1>3, <1>4, <1>5 DEF StartupStep

LEMMA StartupErrorPreserves ==
    ASSUME IInv, NEW parks \in BOOLEAN, StartupError(parks)
    PROVE  IInv'
  <1>t. TypeOK BY DEF IInv
  <1> USE DEF disk, tables, worker, startup, rebuild, locals, ghosts
  <1>1. TypeOK'
    <2>1. faults' \in 0 .. MaxFaults BY <1>t, FaultsAssumption DEF StartupError, Fault, TypeOK
    <2>2. istate' \in {"idle", "running", "needs_rebuild"}
      BY <1>t DEF StartupError, SetState, TypeOK
    <2>3. sempty' \in BOOLEAN BY DEF StartupError
    <2>4. spc' = "none" /\ quiet' = "no"
          /\ UNCHANGED <<disk, engine, worker, rebuild, row, jobs, art, docs, fts, issues, fresh>>
      BY DEF StartupError, SetState, Fault
    <2> QED BY <1>t, <2>1, <2>2, <2>3, <2>4 DEF TypeOK
  <1>2. UNCHANGED <<docs, fts, root, rpc, todo, read>> BY DEF StartupError, SetState
  <1> QED BY <1>1, <1>2, PairingKept, ShapeKept DEF IInv

(* What the end of the process leaves of the tasks' state.                 *)
LEMMA EngineEndsTyped ==
    ASSUME TypeOK, EngineEnds
    PROVE  /\ engine' = "down" /\ wpc' = "idle" /\ spc' = "none" /\ sempty' = FALSE
           /\ task' = None /\ rpc' = "none" /\ root' = None /\ todo' = {} /\ scanned' = {}
           /\ read' = NoRead /\ claims' = NoClaims
           /\ quiet' = "no" /\ fresh' = {} /\ faults' \in 0 .. MaxFaults
  <1>1. faults' \in 0 .. MaxFaults BY FaultsAssumption DEF EngineEnds, TypeOK
  <1> QED BY <1>1 DEF EngineEnds, RunOver, WorkerIdle, WorkerAt

LEMMA SurroundingsPreserve == IInv /\ Surroundings => IInv'
  <1> SUFFICES ASSUME IInv, Surroundings PROVE IInv' OBVIOUS
  <1>t. TypeOK /\ RunShape BY DEF IInv
  <1> USE DEF disk, tables, worker, startup, rebuild, locals, ghosts
  <1>1. CASE Boot
    <2>1. TypeOK' BY <1>1, <1>t DEF Boot, TypeOK
    <2>2. UNCHANGED <<docs, fts, root, rpc, todo, read>> BY <1>1 DEF Boot
    <2> QED BY <2>1, <2>2, PairingKept, ShapeKept DEF IInv
  <1>2. CASE Crash
    <2>1. TypeOK'
      <3>1. EngineEnds /\ UNCHANGED <<disk, tables>> BY <1>2 DEF Crash
      <3> QED BY <1>t, <3>1, EngineEndsTyped, EmptyLocals DEF TypeOK
    <2>2. RunShape' BY <1>2 DEF Crash, EngineEnds, RunOver, RunShape
    <2>3. FtsPaired' BY <1>2 DEF Crash, IInv, FtsPaired, FtsConsistent, Indexed
    <2>4. UserRootOnly' BY <1>2, NoneAssumption DEF Crash, EngineEnds, RunOver, UserRootOnly
    <2> QED BY <2>1, <2>2, <2>3, <2>4 DEF IInv
  <1>3. CASE LoseDatabase
    <2>1. TypeOK'
      <3>1. EngineEnds /\ UNCHANGED disk BY <1>3 DEF LoseDatabase
      <3>2. /\ row' \in BOOLEAN /\ istate' = "idle" /\ fts' = {} /\ issues' = {}
            /\ jobs' \in [Jobs -> {"generating_report", "indexing", "completed", "failed", "no_row"}]
            /\ art' \in [Jobs -> Paths \cup {None}] /\ docs' \in [Jobs -> Docs \cup {None}]
        BY <1>3 DEF LoseDatabase
      <3> QED BY <1>t, <3>1, <3>2, EngineEndsTyped, EmptyLocals DEF TypeOK
    <2>2. RunShape' BY <1>3 DEF LoseDatabase, EngineEnds, RunOver, RunShape
    <2>3. FtsPaired' BY <1>3 DEF LoseDatabase, FtsPaired, FtsConsistent, Indexed
    <2>4. UserRootOnly'
      BY <1>3, NoneAssumption DEF LoseDatabase, EngineEnds, RunOver, UserRootOnly
    <2> QED BY <2>1, <2>2, <2>3, <2>4 DEF IInv
  <1>4. CASE SaveSettings \/ Outage \/ PointerLocked \/ Recovery
    <2>1. TypeOK'
      <3>1. CASE SaveSettings BY <1>t, <3>1 DEF SaveSettings, TypeOK
      <3>2. CASE Outage
        <4>1. faults' \in 0 .. MaxFaults BY <1>t, <3>2, FaultsAssumption DEF Outage, TypeOK
        <4>2. quiet' \in {"no", "scan", "clean", "outage"} BY <3>2 DEF Outage
        <4>o. online' \in BOOLEAN BY <3>2 DEF Outage
        <4>3. UNCHANGED <<fresh, files, generated, pointer, tables, engine, worker, startup, rebuild>>
          BY <3>2 DEF Outage
        <4> QED BY <1>t, <4>1, <4>2, <4>3, <4>o DEF TypeOK
      <3>3. CASE PointerLocked BY <1>t, <3>3, FaultsAssumption DEF PointerLocked, Fault, TypeOK
      <3>4. CASE Recovery BY <1>t, <3>4 DEF Recovery, Disturb, TypeOK
      <3> QED BY <1>4, <3>1, <3>2, <3>3, <3>4
    <2>2. UNCHANGED <<docs, fts, root, rpc, todo, read>>
      BY <1>4 DEF SaveSettings, Outage, PointerLocked, Recovery
    <2> QED BY <2>1, <2>2, PairingKept, ShapeKept DEF IInv
  <1>5. ASSUME NEW p \in Paths, NEW c \in Contents \cup {None}, UserWrites(p, c) PROVE IInv'
    <2>1. TypeOK' BY <1>5, <1>t, FaultsAssumption DEF UserWrites, Fault, TypeOK
    <2>2. UNCHANGED <<docs, fts, root, rpc, todo, read>> BY <1>5 DEF UserWrites
    <2> QED BY <2>1, <2>2, PairingKept, ShapeKept DEF IInv
  <1> QED BY <1>1, <1>2, <1>3, <1>4, <1>5 DEF Surroundings

--------------------------------------------------------------------------------
(* The invariant behind the theorems below.                                *)
THEOREM InductiveInvariant == Spec => []IInv
  <1>1. IInv /\ [Next]_vars => IInv'
    <2> SUFFICES ASSUME IInv, [Next]_vars PROVE IInv' OBVIOUS
    <2>1. CASE RunStep
      BY <2>1, RunStartPreserves, ScanPreserves, BatchPreserves, AbsentPreserves, RunEndPreserves
      DEF RunStep
    <2>2. CASE UNCHANGED vars
      <3>1. TypeOK'
        BY <2>2 DEF IInv, TypeOK, vars, disk, tables, worker, startup, rebuild, locals, ghosts
      <3>2. UNCHANGED <<docs, fts, root, rpc, todo, read>>
        BY <2>2 DEF vars, tables, rebuild, locals
      <3> QED BY <3>1, <3>2, PairingKept, ShapeKept DEF IInv
    <2> QED BY <2>1, <2>2, PipelinePreserves, RunStartPreserves, RunEndPreserves,
               StartupPreserves, StartupErrorPreserves, SurroundingsPreserve DEF Next
  <1> QED BY <1>1, InitEstablishes, PTL DEF Spec

(* Files, tables, the worker's and the rebuild's locals keep their types.  *)
THEOREM TypeCorrect == Spec => []TypeOK
  <1>1. IInv => TypeOK BY DEF IInv
  <1> QED BY <1>1, InductiveInvariant, PTL

(* Exactly the documents that history lists have a full-text row, however  *)
(* the pipeline, a rebuild, crashes and a lost database interleave, so     *)
(* that verify_fts at the end of a run never finds a drift.                *)
THEOREM SearchMatchesHistory == Spec => []FtsPaired
  <1>1. IInv => FtsPaired BY DEF IInv
  <1> QED BY <1>1, InductiveInvariant, PTL

(* No scan ever runs over the default directory in the user's stead.       *)
THEOREM ScanStaysHome == Spec => []UserRootOnly
  <1>1. IInv => UserRootOnly BY DEF IInv
  <1> QED BY <1>1, InductiveInvariant, PTL

(* Neither the pipeline nor a rebuild changes or removes a file.           *)
THEOREM ReportsAreKept == Spec => FilesAreKept
  <1> DEFINE Kept == \A p \in Paths : files[p] # None => files'[p] = files[p]
  <1>1. IInv /\ (PipelineStep \/ RunStep \/ StartupStep) => Kept
    <2> SUFFICES ASSUME IInv, PipelineStep \/ RunStep \/ StartupStep PROVE Kept OBVIOUS
    <2> USE DEF disk
    <2>1. CASE PipelineStep
      <3>1. ASSUME NEW j \in Jobs, NEW q \in Paths, WriteReport(j, q) PROVE Kept
        BY <3>1 DEF IInv, TypeOK, WriteReport, WriteSync
      <3> QED BY <2>1, <3>1
              DEF PipelineStep, CommitReport, ReadReport, IndexReport, FinishJob, LoseCommit
    <2>2. CASE RunStep
      BY <2>2 DEF RunStep, Preflight, RunResolve, RunBegin, ScanFile, ProbeRoot,
         BatchTransaction, RecheckRoot, MarkAbsent, RunFinish, ParkNeedsRebuild
    <2>3. CASE StartupStep
      BY <2>3 DEF StartupStep, StartupStatus, StartupOrphan, StartupAgain, StartupBackfill,
         StartupGo, StartupPark
    <2> QED BY <2>1, <2>2, <2>3
  <1>2. IInv /\ [Next]_vars => [PipelineStep \/ RunStep \/ StartupStep => Kept]_vars
    BY <1>1
  <1> QED BY <1>2, InductiveInvariant, PTL DEF Spec, FilesAreKept

--------------------------------------------------------------------------------
(* What an undisturbed run has done so far.                                *)

Present == {p \in Paths : files[p] # None}

(* p is the path that owns analysis j.                                     *)
Owns(p, j) == p \in Holding(j) /\ \A q \in Holding(j) : p <= q

(* Claims, documents and issues are right for the files scanned.           *)
ExactSoFar ==
    /\ scanned \subseteq Present
    /\ \A j \in Jobs : claims[j] = None => Holding(j) \cap scanned = {}
    /\ \A j \in Jobs : claims[j] # None =>
         Owns(claims[j], j) /\ docs[j] = Upserted(claims[j], files[claims[j]].text)
    /\ \A p \in scanned : <<"md", p>> \in issues <=> p \in Broken
    /\ \A p \in scanned \ Broken : <<"duplicate", p>> \in issues <=> p \in Losers

(* What is left to scan is the rest of the directory, in sorted order, and *)
(* what was read of it is what it holds.                                   *)
ScansInOrder ==
    /\ scanned \cup todo = Present /\ \A p \in scanned, q \in todo : p < q
    /\ \A p \in DOMAIN read : read[p] = files[p]

(* The index is a projection of the directory.                             *)
Mirror ==
    /\ \A j \in Jobs :
         IF Holding(j) = {} THEN j \notin Indexed
         ELSE LET p == MinOf(Holding(j)) IN docs[j] = Upserted(p, files[p].text)
    /\ {p \in Paths : <<"md", p>> \in issues} = Broken
    /\ {p \in Paths : <<"duplicate", p>> \in issues} \ Broken = Losers

FreshLocals ==
    rpc \in {"none", "preflight", "resolve", "begin"} =>
        claims = NoClaims /\ scanned = {} /\ read = NoRead

(* The inductive invariant of undisturbed runs: as exact as that while     *)
(* they scan, complete when they decide absence, a mirror from then on.    *)
(* Under an outage only a run that had already checked the root for the    *)
(* last time decides absence, and it has scanned everything.               *)
QuietInv ==
    /\ FreshLocals
    /\ quiet = "scan" =>
         /\ online /\ root = "custom" /\ rpc \in {"begin", "scan", "absent", "verify"}
         /\ rpc = "scan" => ExactSoFar /\ ScansInOrder
         /\ rpc = "absent" => ExactSoFar /\ scanned = Present
         /\ rpc = "verify" => Mirror
    /\ quiet = "outage" => ~ online /\ (rpc = "absent" => ExactSoFar /\ scanned = Present)
    /\ quiet = "clean" => rpc \in {"none", "preflight", "resolve", "park"} /\ Mirror

(* Nothing else is the minimum.                                            *)
LEMMA MinOfUnique ==
    ASSUME NEW S \in SUBSET Nat, NEW x \in S, \A y \in S : x <= y
    PROVE  MinOf(S) = x
  <1>1. MinOf(S) \in S /\ \A y \in S : MinOf(S) <= y BY MinOfMember
  <1>2. MinOf(S) \in Nat /\ x \in Nat /\ MinOf(S) <= x /\ x <= MinOf(S) BY <1>1
  <1> QED BY <1>2

(* The owner of an analysis is the first of its files.                     *)
LEMMA OwnerIsFirst ==
    ASSUME NEW p, NEW j, Owns(p, j)
    PROVE  p = MinOf(Holding(j))
  <1>1. Holding(j) \in SUBSET Nat BY PathsAssumption DEF Holding, Paths
  <1> QED BY <1>1, MinOfUnique DEF Owns

(* A batch takes the first of the paths that are left.                     *)
LEMMA ChunkIsFirst ==
    ASSUME TypeOK, NEW p \in Chunk, NEW q \in todo \ Chunk
    PROVE  p < q
  <1> DEFINE Below(x) == {r \in todo : r < x}
  <1>0. Chunk = {x \in todo : Cardinality(Below(x)) < Batch} BY DEF Chunk
  <1> HIDE DEF Below
  <1>1. p \in todo /\ q \in todo /\ p # q /\ Cardinality(Below(p)) < Batch
        /\ ~ (Cardinality(Below(q)) < Batch)
    BY <1>0
  <1>2. /\ todo \subseteq 1 .. NPaths /\ NPaths \in Nat /\ Batch \in Nat
        /\ p \in Nat /\ q \in Nat
    BY <1>1, PathsAssumption DEF TypeOK, Paths
  <1>3. SUFFICES ASSUME q < p PROVE FALSE BY <1>1, <1>2
  <1>4. Below(q) \subseteq Below(p)
    <2>1. ASSUME NEW r \in todo, r < q PROVE r < p BY <1>2, <1>3, <2>1
    <2> QED BY <2>1 DEF Below
  <1>5. IsFiniteSet(Below(p))
    <2>1. IsFiniteSet(1 .. NPaths) BY <1>2, FS_Interval
    <2>2. Below(p) \subseteq 1 .. NPaths BY <1>2 DEF Below
    <2> QED BY <2>1, <2>2, FS_Subset
  <1>6. /\ Cardinality(Below(q)) <= Cardinality(Below(p))
        /\ Cardinality(Below(q)) \in Nat /\ Cardinality(Below(p)) \in Nat
    <2>1. IsFiniteSet(Below(q)) BY <1>4, <1>5, FS_Subset
    <2> QED BY <1>4, <1>5, <2>1, FS_Subset, FS_CardinalityType
  <1> QED BY <1>1, <1>2, <1>6

(* What the files say, as long as they and the tables do not change.       *)
LEMMA ExactKept ==
    ASSUME ExactSoFar, UNCHANGED <<files, docs, issues, claims, scanned>>
    PROVE  ExactSoFar'
  <1>1. Present' = Present BY DEF Present
  <1>2. Broken' = Broken BY DEF Broken
  <1>3. Losers' = Losers BY DEF Losers, Holding
  <1>4. \A j \in Jobs : claims'[j] = None => Holding(j)' \cap scanned' = {}
    BY DEF ExactSoFar, Holding
  <1>5. \A j \in Jobs : claims'[j] # None =>
           Owns(claims[j], j)' /\ docs'[j] = Upserted(claims'[j], files'[claims'[j]].text)
    BY DEF ExactSoFar, Owns, Holding
  <1> QED BY <1>1, <1>2, <1>3, <1>4, <1>5 DEF ExactSoFar

LEMMA OrderKept ==
    ASSUME ScansInOrder, UNCHANGED <<files, todo, scanned, read>>
    PROVE  ScansInOrder'
  BY DEF ScansInOrder, Present

LEMMA MirrorKept ==
    ASSUME Mirror, UNCHANGED <<files, docs, issues>>
    PROVE  Mirror'
  <1>1. Broken' = Broken BY DEF Broken
  <1>2. Losers' = Losers BY DEF Losers, Holding
  <1>3. Indexed' = Indexed BY DEF Indexed
  <1>4. \A j \in Jobs : IF Holding(j)' = {} THEN j \notin Indexed'
                       ELSE docs'[j] = Upserted(MinOf(Holding(j)'), files'[MinOf(Holding(j)')].text)
    BY <1>3 DEF Mirror, Holding
  <1> QED BY <1>1, <1>2, <1>3, <1>4 DEF Mirror

(* A step that leaves the run, the index and the files alone.              *)
LEMMA BystanderKeepsQuiet ==
    ASSUME QuietInv, quiet' \in {quiet, "no"},
           UNCHANGED <<files, online, docs, issues, rpc, root, todo, read, claims, scanned>>
    PROVE  QuietInv'
  <1>1. FreshLocals' BY DEF QuietInv, FreshLocals
  <1>2. ExactSoFar => ExactSoFar' BY ExactKept
  <1>3. ScansInOrder => ScansInOrder' BY OrderKept
  <1>4. Mirror => Mirror' BY MirrorKept
  <1>5. (scanned = Present) => (scanned = Present)' BY DEF Present
  <1> QED BY <1>1, <1>2, <1>3, <1>4, <1>5 DEF QuietInv

(* A step after which the run counts as disturbed.                         *)
LEMMA DisturbedIsQuiet ==
    ASSUME FreshLocals', quiet' = "no"
    PROVE  QuietInv'
  BY DEF QuietInv

--------------------------------------------------------------------------------
(* Preservation, again one lemma per group of actions.                     *)

LEMMA InitIsQuiet == Init => QuietInv
  BY DEF Init, QuietInv, FreshLocals

(* The pipeline either leaves what the run depends on alone, or the run    *)
(* counts as disturbed.                                                    *)
LEMMA PipelineKeepsQuiet == QuietInv /\ PipelineStep => QuietInv'
  <1> SUFFICES ASSUME QuietInv, PipelineStep PROVE QuietInv' OBVIOUS
  <1> USE DEF disk, tables, rebuild, locals, ghosts
  <1>1. UNCHANGED <<rpc, root, todo, read, claims, scanned>>
    BY DEF PipelineStep, WriteReport, CommitReport, ReadReport, IndexReport, FinishJob, LoseCommit
  <1>2. FreshLocals' BY <1>1 DEF QuietInv, FreshLocals
  <1>3. \/ quiet' = "no"
        \/ UNCHANGED <<quiet, files, online, docs, issues>>
    BY DEF PipelineStep, WriteReport, Disturb, CommitReport, ReadReport, IndexReport,
           FinishJob, LoseCommit, Fault
  <1> QED BY <1>1, <1>2, <1>3, BystanderKeepsQuiet, DisturbedIsQuiet

(* A run that begins knows nothing yet of the directory it lists.          *)
LEMMA BeginKeepsQuiet ==
    IInv /\ QuietInv /\ (StartRebuild \/ Preflight \/ RunResolve \/ RunBegin) => QuietInv'
  <1> SUFFICES ASSUME IInv, QuietInv, StartRebuild \/ Preflight \/ RunResolve \/ RunBegin
               PROVE  QuietInv'
    OBVIOUS
  <1> USE DEF disk, tables, rebuild, locals, ghosts
  <1>t. TypeOK BY DEF IInv
  <1>0. FreshLocals BY DEF QuietInv
  <1>m. UNCHANGED <<files, docs, issues>>
    BY DEF StartRebuild, Preflight, RunResolve, RunBegin, SetState
  <1>1. Mirror => Mirror' BY <1>m, MirrorKept
  <1>2. CASE StartRebuild
    <2>1. rpc = "none" /\ rpc' = "preflight" /\ UNCHANGED <<online, claims, scanned, read>>
      BY <1>2, <1>t DEF StartRebuild, TypeOK
    <2>2. quiet' \in {quiet, "no"} BY <1>2 DEF StartRebuild, Fault
    <2> QED BY <1>0, <1>1, <2>1, <2>2 DEF QuietInv, FreshLocals
  <1>3. CASE Preflight
    <2>1. rpc = "preflight" /\ rpc' \in {"resolve", "park"}
          /\ UNCHANGED <<online, claims, scanned, read, quiet>>
      BY <1>3 DEF Preflight, Run
    <2> QED BY <1>0, <1>1, <2>1 DEF QuietInv, FreshLocals
  <1>4. CASE RunResolve
    <2>1. rpc = "resolve" /\ UNCHANGED <<online, claims, scanned, read>> BY <1>4 DEF RunResolve
    <2>2. CASE Usable(Resolved)
      <3>1. Resolved = "custom" /\ online BY <2>2 DEF Usable, Resolved, ReadPointer
      <3>2. rpc' = "begin" /\ root' = "custom" /\ quiet' = "scan" BY <1>4, <2>2, <3>1 DEF RunResolve
      <3> QED BY <1>0, <2>1, <3>1, <3>2 DEF QuietInv, FreshLocals
    <2>3. CASE ~ Usable(Resolved)
      <3>1. rpc' = "park" /\ quiet' = quiet BY <1>4, <2>3 DEF RunResolve
      <3> QED BY <1>1, <2>1, <3>1 DEF QuietInv, FreshLocals
    <2> QED BY <2>2, <2>3
  <1>5. CASE RunBegin
    <2>1. rpc = "begin" /\ rpc' = "scan" /\ todo' = Collect(root)
          /\ UNCHANGED <<online, root, claims, scanned, read, quiet>>
      BY <1>5 DEF RunBegin
    <2>2. claims' = NoClaims /\ scanned' = {} /\ read' = NoRead
      BY <1>0, <2>1 DEF FreshLocals
    <2>3. ExactSoFar'
      <3>1. \A j \in Jobs : claims'[j] = None BY <2>2 DEF NoClaims
      <3> QED BY <2>2, <3>1 DEF ExactSoFar
    <2>4. ASSUME quiet = "scan" PROVE ScansInOrder'
      <3>1. todo' = Present' BY <1>m, <2>1, <2>4 DEF QuietInv, Collect, Present
      <3>2. DOMAIN read' = {} BY <2>2 DEF NoRead
      <3> QED BY <2>2, <3>1, <3>2 DEF ScansInOrder
    <2> QED BY <2>1, <2>3, <2>4 DEF QuietInv, FreshLocals
  <1> QED BY <1>2, <1>3, <1>4, <1>5

(* An undisturbed scan finds every file it listed, and the root.           *)
LEMMA ScanKeepsQuiet ==
    IInv /\ QuietInv /\ (ScanFile \/ ProbeRoot \/ RecheckRoot) => QuietInv'
  <1> SUFFICES ASSUME IInv, QuietInv, ScanFile \/ ProbeRoot \/ RecheckRoot PROVE QuietInv'
    OBVIOUS
  <1> USE DEF disk, tables, rebuild, locals, ghosts
  <1>t. TypeOK /\ RunShape BY DEF IInv
  <1>m. UNCHANGED <<files, online, docs, issues, root, todo, claims, scanned, quiet>>
    BY DEF ScanFile, ProbeRoot, RecheckRoot, Run
  <1>e. ExactSoFar => ExactSoFar' BY <1>m, ExactKept
  <1>p. Present' = Present BY <1>m DEF Present
  <1>r. root \in {None, "custom"} BY DEF IInv, TypeOK, UserRootOnly
  <1>2. CASE ScanFile
    <2> DEFINE p == MinOf(Chunk \ DOMAIN read)
    <2>1. p \in todo /\ rpc = "scan" BY <1>2, <1>t, NextPath DEF ScanFile
    <2>2. rpc' \in {"scan", "probe"} BY <1>2 DEF ScanFile
    <2>3. ASSUME quiet = "scan" PROVE rpc' = "scan" /\ ScansInOrder'
      <3>1. ScansInOrder /\ online BY <2>1, <2>3 DEF QuietInv
      <3>2. files[p] # None BY <2>1, <3>1 DEF ScansInOrder, Present
      <3>3. rpc' = "scan" /\ read' = [q \in DOMAIN read \cup {p} |-> IF q = p THEN files[p] ELSE read[q]]
        BY <1>2, <3>1, <3>2 DEF ScanFile
      <3> HIDE DEF p
      <3>4. \A q \in DOMAIN read' : read'[q] = files[q] BY <3>1, <3>3 DEF ScansInOrder
      <3> QED BY <1>m, <1>p, <3>1, <3>3, <3>4 DEF ScansInOrder
    <2> HIDE DEF p
    <2> QED BY <1>m, <1>e, <2>1, <2>2, <2>3 DEF QuietInv, FreshLocals
  <1>3. CASE ProbeRoot
    <2>1. rpc = "probe" /\ rpc' \in {"scan", "park"} BY <1>3 DEF ProbeRoot
    <2> QED BY <1>m, <2>1 DEF QuietInv, FreshLocals
  <1>4. CASE RecheckRoot
    <2>1. rpc = "scan" /\ todo = {} /\ rpc' \in {"absent", "park"} /\ read' = read
      BY <1>4 DEF RecheckRoot, Run
    <2>2. ~ online => rpc' = "park" BY <1>4, <1>r, NoneAssumption DEF RecheckRoot, Run, Usable
    <2>3. online /\ root = "custom" => rpc' = "absent" BY <1>4 DEF RecheckRoot, Run, Usable
    <2>4. ScansInOrder => (scanned = Present)' BY <1>m, <1>p, <2>1 DEF ScansInOrder
    <2> QED BY <1>m, <1>e, <2>1, <2>2, <2>3, <2>4 DEF QuietInv, FreshLocals
  <1> QED BY <1>2, <1>3, <1>4

(* A batch that read what the directory holds adds the right claims,       *)
(* documents and issues for its files, and touches no others.              *)
LEMMA BatchIsExact ==
    ASSUME TypeOK, ExactSoFar, ScansInOrder, BatchTransaction
    PROVE  ExactSoFar' /\ ScansInOrder'
  <1> USE DEF disk, tables, rebuild, locals, ghosts
  <1>1. /\ DOMAIN read = Chunk /\ scanned' = scanned \cup Chunk /\ todo' = todo \ Chunk
        /\ read' = NoRead /\ claims' = [j \in Jobs |-> Claim(j)] /\ files' = files
        /\ docs' = [j \in Jobs |-> IF j \in Claimed THEN Upserted(Claim(j), read[Claim(j)].text)
                                   ELSE docs[j]]
    BY DEF BatchTransaction
  <1>2. Chunk \subseteq todo /\ Chunk \subseteq Present /\ Chunk \cap scanned = {}
    <2>1. Chunk \subseteq todo /\ todo \subseteq Nat
      BY PathsAssumption DEF Chunk, TypeOK, Paths
    <2> HIDE DEF Chunk
    <2>2. ASSUME NEW p \in Chunk, p \in scanned PROVE FALSE
      <3>1. p < p /\ p \in Nat BY <2>1, <2>2 DEF ScansInOrder
      <3> QED BY <3>1
    <2> QED BY <2>1, <2>2 DEF ScansInOrder
  <1>3. \A p \in Chunk : read[p] = files[p] /\ files[p] \in Contents
    <2>1. \A p \in Chunk : read[p] = files[p] /\ files[p] # None /\ p \in Paths
      BY <1>1, <1>2 DEF ScansInOrder, Present
    <2> QED BY <2>1 DEF TypeOK
  <1>4. \A j \in Jobs : Parsed(j) = Holding(j) \cap Chunk
    BY <1>1, <1>2, <1>3 DEF Parsed, Holding, Present
  <1>5. \A p \in Chunk, q \in todo \ Chunk : p < q BY ChunkIsFirst
  <1>6. Present' = Present /\ Broken' = Broken /\ Losers' = Losers
    BY <1>1 DEF Present, Broken, Losers, Holding
  <1>7. \A j : Holding(j) \in SUBSET Nat /\ Holding(j) \subseteq Present
    BY PathsAssumption DEF Holding, Paths, Present
  <1>8. \A j \in Jobs : Holding(j)' = Holding(j) BY <1>1 DEF Holding
  <1> HIDE DEF Chunk
  <1>9. ASSUME NEW j \in Jobs, claims[j] = None, Parsed(j) # {}
        PROVE  Owns(Claim(j), j) /\ Claim(j) \in Chunk
    <2>1. Claim(j) = MinOf(Parsed(j)) BY <1>9 DEF Claim
    <2>2. Parsed(j) \in SUBSET Nat BY <1>4, <1>7
    <2>3. Claim(j) \in Parsed(j) /\ \A q \in Parsed(j) : Claim(j) <= q
      BY <1>9, <2>1, <2>2, MinOfMember
    <2>4. Claim(j) \in Chunk /\ Claim(j) \in Holding(j) /\ Claim(j) \in Nat
      BY <1>4, <2>2, <2>3
    <2>5. ASSUME NEW q \in Holding(j) PROVE Claim(j) <= q
      <3>1. q \in Nat /\ q \in scanned \cup todo BY <1>7 DEF ScansInOrder
      <3>2. q \notin scanned BY <1>9 DEF ExactSoFar
      <3>3. CASE q \in Chunk BY <1>4, <2>3, <3>3
      <3>4. CASE q \in todo \ Chunk
        <4>1. Claim(j) < q BY <1>5, <2>4, <3>4
        <4> QED BY <2>4, <3>1, <4>1
      <3> QED BY <3>1, <3>2, <3>3, <3>4
    <2> QED BY <2>4, <2>5 DEF Owns
  <1>10. ASSUME NEW j \in Jobs, claims'[j] = None PROVE Holding(j) \cap scanned' = {}
    <2>1. Claim(j) = None BY <1>1, <1>10
    <2>2. claims[j] = None BY <2>1 DEF Claim
    <2>3. Parsed(j) = {}
      <3>1. SUFFICES ASSUME Parsed(j) # {} PROVE FALSE OBVIOUS
      <3>2. Claim(j) \in Paths BY <1>2, <1>9, <2>2, <3>1 DEF Present
      <3> QED BY <2>1, <3>2, NoneAssumption DEF Paths
    <2> QED BY <1>1, <1>4, <2>2, <2>3 DEF ExactSoFar
  <1>11. ASSUME NEW j \in Jobs, claims'[j] # None
         PROVE  Owns(claims'[j], j) /\ docs'[j] = Upserted(claims'[j], files[claims'[j]].text)
    <2>1. claims'[j] = Claim(j) BY <1>1
    <2>2. CASE claims[j] # None
      <3>1. Claim(j) = claims[j] /\ j \notin Claimed BY <2>2 DEF Claim, Claimed
      <3> QED BY <1>1, <2>1, <2>2, <3>1 DEF ExactSoFar
    <2>3. CASE claims[j] = None
      <3>1. Parsed(j) # {} BY <1>11, <2>1, <2>3 DEF Claim
      <3>2. Owns(Claim(j), j) /\ read[Claim(j)] = files[Claim(j)] BY <1>3, <1>9, <2>3, <3>1
      <3>3. docs'[j] = Upserted(Claim(j), read[Claim(j)].text)
        BY <1>1, <1>11, <2>1, <2>3 DEF Claimed
      <3> QED BY <2>1, <3>2, <3>3
    <2> QED BY <2>2, <2>3
  <1>12. \A p \in scanned' : p \in Broken \/ \E j \in Jobs : p \in Holding(j)
    <2>1. scanned' \subseteq Present BY <1>1, <1>2 DEF ExactSoFar
    <2>2. \A p \in Present : p \in Paths /\ files[p].id \in Jobs \cup {None}
      BY DEF Present, TypeOK, Contents
    <2> QED BY <2>1, <2>2 DEF Broken, Holding, Present
  <1>13. ASSUME NEW p \in scanned', NEW j \in Jobs, p \in Holding(j)
         PROVE  p \in Losers <=> claims'[j] # p
    <2>1. claims'[j] # None BY <1>10, <1>13
    <2>2. claims'[j] = MinOf(Holding(j)) BY <1>11, <2>1, OwnerIsFirst
    <2>3. \A i \in Jobs : p \in Holding(i) => i = j BY <1>13 DEF Holding
    <2>4. p \in Paths BY <1>13 DEF Holding
    <2> HIDE DEF Holding
    <2> QED BY <1>13, <2>2, <2>3, <2>4 DEF Losers
  <1>14. ASSUME NEW p \in scanned'
         PROVE  /\ <<"md", p>> \in issues' <=> p \in Broken
                /\ p \notin Broken => (<<"duplicate", p>> \in issues' <=> p \in Losers)
    <2> DEFINE good == UNION {Parsed(j) : j \in Jobs}
               losers == {q \in good : Claim(read[q].id) # q}
    <2>1. issues' = Record(Record(Resolve(issues, {"md", "duplicate"}, good), "md", Quarantined),
                           "duplicate", losers)
      BY DEF BatchTransaction
    <2>2. good = Chunk \ Broken /\ Quarantined = Chunk \cap Broken
      <3>1. \A q \in Chunk : q \in Paths /\ read[q] = files[q] /\ files[q] # None
                            /\ files[q].id \in Jobs \cup {None}
        BY <1>2, <1>3 DEF Contents, Present
      <3>2. Quarantined = Chunk \cap Broken BY <1>1, <3>1 DEF Quarantined, Broken
      <3>3. good = UNION {Holding(j) \cap Chunk : j \in Jobs} BY <1>4
      <3>4. \A q \in Chunk : q \notin Broken <=> \E j \in Jobs : q \in Holding(j)
        BY <3>1, NoneAssumption DEF Broken, Holding
      <3> HIDE DEF good
      <3> QED BY <3>2, <3>3, <3>4
    <2>3. \A q \in losers : q \in good /\ Claim(read[q].id) # q OBVIOUS
    <2>4. \A q \in good : Claim(read[q].id) # q => q \in losers OBVIOUS
    <2> HIDE DEF good, losers
    <2>5. \A q : <<"md", q>> \in issues' <=> (<<"md", q>> \in issues /\ q \notin good) \/ q \in Quarantined
      BY <2>1 DEF Record, Resolve
    <2>6. \A q : <<"duplicate", q>> \in issues'
                 <=> (<<"duplicate", q>> \in issues /\ q \notin good) \/ q \in losers
      BY <2>1 DEF Record, Resolve
    <2>7. CASE p \in scanned
      <3>1. p \notin Chunk BY <1>2, <2>7
      <3> QED BY <2>2, <2>3, <2>5, <2>6, <2>7, <3>1 DEF ExactSoFar
    <2>8. CASE p \in Chunk
      <3>1. <<"md", p>> \in issues' <=> p \in Broken BY <2>2, <2>5, <2>8
      <3>2. ASSUME p \notin Broken PROVE <<"duplicate", p>> \in issues' <=> p \in Losers
        <4>1. PICK j \in Jobs : p \in Holding(j) BY <1>12, <3>2
        <4>2. read[p].id = j BY <1>3, <2>8, <4>1 DEF Holding
        <4>3. p \in Losers <=> Claim(j) # p BY <1>1, <1>13, <4>1
        <4>4. p \in good BY <2>2, <2>8, <3>2
        <4> QED BY <2>3, <2>4, <2>6, <4>2, <4>3, <4>4
      <3> QED BY <3>1, <3>2
    <2> QED BY <1>1, <2>7, <2>8
  <1>15. ExactSoFar'
    <2>1. scanned' \subseteq Present BY <1>1, <1>2 DEF ExactSoFar
    <2>2. \A j \in Jobs : claims'[j] = None => Holding(j)' \cap scanned' = {} BY <1>8, <1>10
    <2>3. \A j \in Jobs : claims'[j] # None => Owns(claims[j], j)'
      BY <1>1, <1>11 DEF Owns, Holding
    <2>4. \A j \in Jobs : claims'[j] # None =>
             docs'[j] = Upserted(claims'[j], files'[claims'[j]].text)
      BY <1>1, <1>11
    <2> QED BY <1>6, <1>14, <2>1, <2>2, <2>3, <2>4 DEF ExactSoFar
  <1>16. ScansInOrder'
    <2>1. scanned' \cup todo' = Present' BY <1>1, <1>2, <1>6 DEF ScansInOrder
    <2>2. \A p \in scanned', q \in todo' : p < q BY <1>1, <1>5 DEF ScansInOrder
    <2>3. DOMAIN read' = {} BY <1>1 DEF NoRead
    <2> QED BY <2>1, <2>2, <2>3 DEF ScansInOrder
  <1> QED BY <1>15, <1>16

LEMMA BatchKeepsQuiet == IInv /\ QuietInv /\ BatchTransaction => QuietInv'
  <1> SUFFICES ASSUME IInv, QuietInv, BatchTransaction PROVE QuietInv' OBVIOUS
  <1>1. rpc = "scan" /\ UNCHANGED <<rpc, root, online, quiet>>
    BY DEF BatchTransaction, disk, ghosts
  <1>2. quiet = "scan" => ExactSoFar' /\ ScansInOrder'
    BY <1>1, BatchIsExact DEF IInv, QuietInv
  <1> QED BY <1>1, <1>2 DEF QuietInv, FreshLocals

(* Once every file was scanned, the documents that nobody claimed are      *)
(* those without a file, and the others stay as they are.                  *)
LEMMA AbsenceIsExact ==
    ASSUME TypeOK, ExactSoFar, scanned = Present, NEW purge \in BOOLEAN, MarkAbsent(purge)
    PROVE  /\ Mirror'
           /\ \A j \in Jobs : Holding(j) # {} => docs'[j] = docs[j]
  <1> USE DEF disk, tables, rebuild, locals, ghosts
  <1>1. /\ files' = files
        /\ \A j \in Jobs : docs'[j] = IF ~ Absent(j) THEN docs[j]
                                      ELSE IF purge /\ docs[j].path \notin scanned THEN None
                                      ELSE Missing(docs[j])
        /\ issues' = {i \in issues : i[2] \in scanned}
    BY DEF MarkAbsent, Purged, ResolveAbsent
  <1>2. Broken' = Broken /\ Losers' = Losers BY <1>1 DEF Broken, Losers, Holding
  <1>3. \A j : Holding(j) \subseteq Present BY DEF Holding, Present
  <1>4. ASSUME NEW j \in Jobs, Holding(j) # {}
        PROVE  docs'[j] = docs[j] /\ docs[j] = Upserted(MinOf(Holding(j)), files[MinOf(Holding(j))].text)
    <2>1. claims[j] # None BY <1>3, <1>4 DEF ExactSoFar
    <2>2. claims[j] = MinOf(Holding(j)) /\ docs[j] = Upserted(claims[j], files[claims[j]].text)
      BY <2>1, OwnerIsFirst DEF ExactSoFar
    <2>3. ~ Absent(j) BY <2>2 DEF Absent, Upserted
    <2> QED BY <1>1, <2>2, <2>3
  <1>5. ASSUME NEW j \in Jobs, Holding(j) = {} PROVE j \notin Indexed'
    <2>1. claims[j] = None BY <1>5 DEF ExactSoFar, Owns
    <2>2. CASE docs[j] = None
      <3>1. docs'[j] = None BY <1>1, <2>2 DEF Absent
      <3> QED BY <3>1 DEF Indexed
    <2>3. CASE docs[j] # None
      <3>1. docs[j] \in Docs BY <2>3 DEF TypeOK
      <3>2. Absent(j)
        <4>1. docs[j].path \in Paths BY <3>1 DEF Docs
        <4>2. docs[j].path # None BY <4>1, NoneAssumption, PathsAssumption DEF Paths
        <4> QED BY <2>1, <2>3, <4>2 DEF Absent
      <3>3. docs'[j] = None \/ docs'[j] = Missing(docs[j]) BY <1>1, <3>2
      <3>4. Missing(docs[j]).st = "missing" BY <3>1 DEF Missing, Docs
      <3> QED BY <3>3, <3>4 DEF Indexed
    <2> QED BY <2>2, <2>3
  <1>6. {p \in Paths : <<"md", p>> \in issues'} = Broken
    <2>1. \A p : <<"md", p>> \in issues' <=> <<"md", p>> \in issues /\ p \in scanned BY <1>1
    <2>2. Broken \subseteq scanned /\ Broken \subseteq Paths BY DEF Broken, Present
    <2>3. scanned \subseteq Paths BY DEF Present
    <2>4. \A p \in scanned : <<"md", p>> \in issues <=> p \in Broken BY DEF ExactSoFar
    <2> QED BY <2>1, <2>2, <2>3, <2>4
  <1>7. {p \in Paths : <<"duplicate", p>> \in issues'} \ Broken = Losers
    <2>1. \A p : <<"duplicate", p>> \in issues' <=> <<"duplicate", p>> \in issues /\ p \in scanned
      BY <1>1
    <2>2. Losers \subseteq scanned BY <1>3 DEF Losers
    <2>3. Losers \cap Broken = {} BY NoneAssumption DEF Losers, Broken, Holding
    <2>4. scanned \subseteq Paths BY DEF Present
    <2>5. \A p \in scanned \ Broken : <<"duplicate", p>> \in issues <=> p \in Losers BY DEF ExactSoFar
    <2> QED BY <2>1, <2>2, <2>3, <2>4, <2>5
  <1>8. \A j \in Jobs : Holding(j)' = Holding(j) BY <1>1 DEF Holding
  <1>9. \A j \in Jobs : IF Holding(j)' = {} THEN j \notin Indexed'
                       ELSE docs'[j] = Upserted(MinOf(Holding(j)'), files'[MinOf(Holding(j)')].text)
    BY <1>1, <1>4, <1>5, <1>8
  <1>10. Mirror' BY <1>2, <1>6, <1>7, <1>9 DEF Mirror
  <1> QED BY <1>4, <1>10

LEMMA AbsentKeepsQuiet ==
    ASSUME IInv, QuietInv, NEW purge \in BOOLEAN, MarkAbsent(purge)
    PROVE  QuietInv'
  <1>1. rpc = "absent" /\ rpc' = "verify" /\ UNCHANGED <<root, online, quiet>>
    BY DEF MarkAbsent, Run, disk, locals, ghosts
  <1>2. quiet = "scan" => Mirror' BY <1>1, AbsenceIsExact DEF IInv, QuietInv
  <1> QED BY <1>1, <1>2 DEF QuietInv, FreshLocals

(* The end of a run.                                                       *)
LEMMA EndKeepsQuiet ==
    QuietInv /\ (RunFinish \/ ParkNeedsRebuild \/ RunError \/ RunDies) => QuietInv'
  <1> SUFFICES ASSUME QuietInv, RunFinish \/ ParkNeedsRebuild \/ RunError \/ RunDies
               PROVE  QuietInv'
    OBVIOUS
  <1> USE DEF disk, tables
  <1>m. UNCHANGED <<files, online, docs, issues>>
    BY DEF RunFinish, ParkNeedsRebuild, RunError, RunDies, SetState
  <1>1. Mirror => Mirror' BY <1>m, MirrorKept
  <1>2. CASE RunFinish
    <2>1. rpc = "verify" /\ rpc' = "none" /\ claims' = NoClaims /\ scanned' = {} /\ read' = NoRead
          /\ quiet' = IF quiet = "scan" THEN "clean" ELSE "no"
      BY <1>2 DEF RunFinish, RunOver
    <2> QED BY <1>1, <2>1 DEF QuietInv, FreshLocals
  <1>3. CASE ParkNeedsRebuild
    <2>1. rpc = "park" /\ rpc' = "none" /\ claims' = NoClaims /\ scanned' = {} /\ read' = NoRead
          /\ quiet' = quiet
      BY <1>3 DEF ParkNeedsRebuild, RunFails, RunOver
    <2> QED BY <1>m, <1>1, <2>1 DEF QuietInv, FreshLocals
  <1>4. CASE RunError
    <2>1. rpc' = "park" /\ quiet' = "no" BY <1>4 DEF RunError, Run, Fault
    <2> QED BY <2>1 DEF QuietInv, FreshLocals
  <1>5. CASE RunDies
    <2>1. rpc' = "none" /\ claims' = NoClaims /\ scanned' = {} /\ read' = NoRead /\ quiet' = "no"
      BY <1>5 DEF RunDies, RunFails, RunOver
    <2> QED BY <2>1 DEF QuietInv, FreshLocals
  <1> QED BY <1>2, <1>3, <1>4, <1>5

(* The startup task touches the state only, or starts a run of its own.    *)
LEMMA StartupKeepsQuiet ==
    IInv /\ QuietInv /\ (StartupStep \/ \E parks \in BOOLEAN : StartupError(parks)) => QuietInv'
  <1> SUFFICES ASSUME IInv, QuietInv, StartupStep \/ \E parks \in BOOLEAN : StartupError(parks)
               PROVE  QuietInv'
    OBVIOUS
  <1> USE DEF disk, tables, rebuild, locals, ghosts
  <1>1. CASE StartupGo /\ task = None
    <2>1. rpc = "none" /\ rpc' = "resolve"
          /\ UNCHANGED <<files, online, docs, issues, claims, scanned, read, quiet>>
      BY <1>1 DEF IInv, TypeOK, StartupGo
    <2>2. Mirror => Mirror' BY <2>1, MirrorKept
    <2> QED BY <2>1, <2>2 DEF QuietInv, FreshLocals
  <1>2. CASE ~ (StartupGo /\ task = None)
    <2>1. UNCHANGED <<files, online, docs, issues, rpc, root, todo, read, claims, scanned>>
      BY <1>2 DEF StartupStep, StartupStatus, StartupOrphan, StartupAgain, StartupBackfill,
                  StartupGo, StartupPark, StartupError, SetState
    <2>2. quiet' \in {quiet, "no"}
      BY DEF StartupStep, StartupStatus, StartupOrphan, StartupAgain, StartupBackfill,
             StartupGo, StartupPark, StartupError, Fault
    <2> QED BY <2>1, <2>2, BystanderKeepsQuiet
  <1> QED BY <1>1, <1>2

(* The surroundings: only an outage is told apart from other disturbances. *)
LEMMA SurroundingsKeepQuiet == IInv /\ QuietInv /\ Surroundings => QuietInv'
  <1> SUFFICES ASSUME IInv, QuietInv, Surroundings PROVE QuietInv' OBVIOUS
  <1> USE DEF disk, tables, rebuild, locals, ghosts
  <1>1. CASE Boot \/ SaveSettings
    <2>1. UNCHANGED <<files, online, docs, issues, rpc, root, todo, read, claims, scanned, quiet>>
      BY <1>1 DEF Boot, SaveSettings
    <2> QED BY <2>1, BystanderKeepsQuiet
  <1>2. CASE Crash \/ LoseDatabase
    <2>1. claims' = NoClaims /\ scanned' = {} /\ read' = NoRead /\ quiet' = "no"
      BY <1>2 DEF Crash, LoseDatabase, EngineEnds, RunOver
    <2> QED BY <2>1, DisturbedIsQuiet DEF FreshLocals
  <1>3. CASE PointerLocked \/ Recovery \/ \E p \in Paths, c \in Contents \cup {None} : UserWrites(p, c)
    <2>1. quiet' = "no" /\ UNCHANGED <<rpc, claims, scanned, read>>
      BY <1>3 DEF PointerLocked, Recovery, UserWrites, Fault, Disturb
    <2> QED BY <2>1, DisturbedIsQuiet DEF QuietInv, FreshLocals
  <1>4. CASE Outage
    <2>1. /\ UNCHANGED <<files, docs, issues, rpc, root, todo, read, claims, scanned>>
          /\ ~ online' /\ quiet' = IF quiet = "scan" THEN "outage" ELSE "no"
      BY <1>4 DEF Outage
    <2>2. ExactSoFar => ExactSoFar' BY <2>1, ExactKept
    <2>3. (scanned = Present) => (scanned = Present)' BY <2>1 DEF Present
    <2> QED BY <2>1, <2>2, <2>3 DEF QuietInv, FreshLocals
  <1> QED BY <1>1, <1>2, <1>3, <1>4 DEF Surroundings

(* The invariant behind the two theorems on undisturbed runs.              *)
THEOREM QuietInvariant == Spec => []QuietInv
  <1>1. IInv /\ QuietInv /\ [Next]_vars => QuietInv'
    <2> SUFFICES ASSUME IInv, QuietInv, [Next]_vars PROVE QuietInv' OBVIOUS
    <2>1. CASE RunStep
      BY <2>1, BeginKeepsQuiet, ScanKeepsQuiet, BatchKeepsQuiet, AbsentKeepsQuiet, EndKeepsQuiet
      DEF RunStep
    <2>2. CASE UNCHANGED vars
      BY <2>2, BystanderKeepsQuiet DEF vars, disk, tables, rebuild, locals, ghosts
    <2> QED BY <2>1, <2>2, PipelineKeepsQuiet, BeginKeepsQuiet, EndKeepsQuiet,
               StartupKeepsQuiet, SurroundingsKeepQuiet DEF Next
  <1> QED BY <1>1, InitIsQuiet, InductiveInvariant, PTL DEF Spec

(* A rebuild that nothing disturbed leaves the index a projection of the   *)
(* directory, whatever the database held when it began and however many    *)
(* batches it took.                                                        *)
THEOREM RebuildMirrorsDisk == Spec => []QuietRunMirrorsDisk
  <1>1. QuietInv => QuietRunMirrorsDisk BY DEF QuietInv, QuietRunMirrorsDisk, Mirror
  <1> QED BY <1>1, QuietInvariant, PTL

(* A drive that goes while a rebuild runs takes no document out of the     *)
(* index whose file is still there and owns its analysis.                  *)
THEOREM OutagesLoseNothing == Spec => OutageLosesNothing
  <1> DEFINE Keeps == rpc = "absent" /\ rpc' = "verify" /\ quiet \in {"scan", "outage"} =>
                        \A j \in Indexed :
                           Holding(j) # {} /\ docs[j].path = MinOf(Holding(j)) => docs'[j] = docs[j]
  <1>1. IInv /\ QuietInv /\ [Next]_vars => [Keeps]_vars
    <2> SUFFICES ASSUME IInv, QuietInv, Next, rpc = "absent", rpc' = "verify",
                        quiet \in {"scan", "outage"}, NEW j \in Indexed, Holding(j) # {}
                 PROVE  docs'[j] = docs[j]
      OBVIOUS
    <2>1. TypeOK /\ ExactSoFar /\ scanned = Present /\ j \in Jobs BY DEF IInv, QuietInv, Indexed
    <2>2. \E purge \in BOOLEAN : MarkAbsent(purge)
      BY DEF Next, PipelineStep, WriteReport, CommitReport, ReadReport, IndexReport, FinishJob,
             LoseCommit, StartRebuild, RunStep, Preflight, Run, RunResolve, RunBegin, ScanFile,
             ProbeRoot, BatchTransaction, RecheckRoot, RunFinish, RunOver, RunFails, ParkNeedsRebuild,
             RunError, RunDies, StartupStep, StartupStatus, StartupOrphan, StartupAgain,
             StartupBackfill, StartupGo, StartupPark, StartupError, Surroundings, Boot, Crash, LoseDatabase,
             EngineEnds, SaveSettings, UserWrites, Outage, PointerLocked, Recovery, rebuild
    <2> QED BY <2>1, <2>2, AbsenceIsExact
  <1> QED BY <1>1, InductiveInvariant, QuietInvariant, PTL DEF Spec, OutageLosesNothing

--------------------------------------------------------------------------------
(* The task list over the tables.                                          *)

(* Newest lists every row of S exactly once, the latest first.             *)
LEMMA NewestLists ==
    ASSUME NEW S \in SUBSET Nat, IsFiniteSet(S)
    PROVE  /\ Cardinality(S) \in Nat
           /\ Newest(S) \in Seq(S) /\ Len(Newest(S)) = Cardinality(S)
           /\ \A x \in S : \E i \in 1 .. Cardinality(S) : Newest(S)[i] = x
           /\ \A i, k \in 1 .. Cardinality(S) : i < k => Newest(S)[i] > Newest(S)[k]
  <1> DEFINE After(x) == {y \in S : y > x}
             r == [x \in S |-> Cardinality(After(x))]
             n == Cardinality(S)
  <1>n. n \in Nat BY FS_CardinalityType
  <1>1. ASSUME NEW x \in S PROVE IsFiniteSet(After(x)) /\ r[x] \in Nat /\ r[x] < n
    <2>1. After(x) \in SUBSET S /\ x \notin After(x) OBVIOUS
    <2>2. After(x) # S BY <2>1
    <2>3. IsFiniteSet(After(x)) /\ Cardinality(After(x)) <= n /\ Cardinality(After(x)) # n
      BY <2>1, <2>2, FS_Subset
    <2>4. Cardinality(After(x)) \in Nat BY <2>3, FS_CardinalityType
    <2> HIDE DEF n
    <2> QED BY <1>n, <2>3, <2>4
  <1>2. ASSUME NEW x \in S, NEW y \in S, x < y PROVE r[y] < r[x]
    <2>0. x \in Nat /\ y \in Nat OBVIOUS
    <2>1. After(y) \in SUBSET After(x) /\ y \in After(x) /\ y \notin After(y)
      <3>1. \A z \in After(y) : z \in After(x) BY <1>2, <2>0
      <3>2. y \in After(x) /\ y \notin After(y) BY <1>2, <2>0
      <3> HIDE DEF After
      <3> QED BY <3>1, <3>2
    <2>2. After(y) # After(x) BY <2>1
    <2>3. Cardinality(After(y)) <= Cardinality(After(x)) /\ Cardinality(After(y)) # Cardinality(After(x))
      BY <1>1, <2>1, <2>2, FS_Subset
    <2> QED BY <1>1, <2>3
  <1> HIDE DEF n
  <1>3. r \in Injection(S, 0 .. n - 1)
    <2>1. r \in [S -> 0 .. n - 1]
      <3>1. \A x \in S : r[x] \in 0 .. n - 1 BY <1>1, <1>n
      <3> QED BY <3>1
    <2>2. \A x, y \in S : r[x] = r[y] => x = y
      <3> SUFFICES ASSUME NEW x \in S, NEW y \in S, r[x] = r[y], x # y PROVE FALSE OBVIOUS
      <3>1. x < y \/ y < x OBVIOUS
      <3>2. r[x] \in Nat /\ r[y] \in Nat BY <1>1
      <3> HIDE DEF r
      <3> QED BY <1>2, <3>1, <3>2
    <2> QED BY <2>1, <2>2 DEF Injection, IsInjective
  <1>4. \A m \in 0 .. n - 1 : \E x \in S : r[x] = m
    <2>1. IsFiniteSet(0 .. n - 1) /\ Cardinality(0 .. n - 1) = n BY <1>n, FS_Interval
    <2>2. r \in Surjection(S, 0 .. n - 1) BY <1>3, <2>1, FS_Injection DEF n
    <2> QED BY <2>2 DEF Surjection
  <1>5. \A i \in 1 .. n : Newest(S)[i] \in S /\ r[Newest(S)[i]] = i - 1
    <2> SUFFICES ASSUME NEW i \in 1 .. n PROVE Newest(S)[i] \in S /\ r[Newest(S)[i]] = i - 1 OBVIOUS
    <2>1. \E x \in S : Cardinality({y \in S : y > x}) = i - 1
      <3>1. i - 1 \in 0 .. n - 1 BY <1>n
      <3> QED BY <3>1, <1>4
    <2>2. Newest(S)[i] = CHOOSE x \in S : Cardinality({y \in S : y > x}) = i - 1
      BY DEF Newest, n
    <2> QED BY <2>1, <2>2
  <1>6. Newest(S) \in Seq(S) /\ Len(Newest(S)) = n
    <2>1. Newest(S) \in [1 .. n -> S] BY <1>5 DEF Newest, n
    <2> QED BY <2>1, <1>n
  <1>7. \A x \in S : \E i \in 1 .. n : Newest(S)[i] = x
    <2> SUFFICES ASSUME NEW x \in S PROVE \E i \in 1 .. n : Newest(S)[i] = x OBVIOUS
    <2>1. r[x] + 1 \in 1 .. n /\ r[x] \in Nat BY <1>1, <1>n
    <2>2. r[Newest(S)[r[x] + 1]] = r[x] /\ Newest(S)[r[x] + 1] \in S
      <3> HIDE DEF r
      <3> QED BY <2>1, <1>5
    <2>3. Newest(S)[r[x] + 1] = x BY <2>2, <1>3 DEF Injection, IsInjective
    <2> QED BY <2>1, <2>3
  <1>8. ASSUME NEW i \in 1 .. n, NEW k \in 1 .. n, i < k PROVE Newest(S)[i] > Newest(S)[k]
    <2>1. Newest(S)[i] \in S /\ Newest(S)[k] \in S /\ r[Newest(S)[i]] < r[Newest(S)[k]]
      <3> HIDE DEF r
      <3> QED BY <1>n, <1>5, <1>8
    <2> HIDE DEF r
    <2>2. ~ (Newest(S)[i] < Newest(S)[k])
      <3> SUFFICES ASSUME Newest(S)[i] < Newest(S)[k] PROVE FALSE OBVIOUS
      <3>1. r[Newest(S)[k]] < r[Newest(S)[i]] BY <2>1, <1>2
      <3>2. r[Newest(S)[k]] \in Nat /\ r[Newest(S)[i]] \in Nat BY <2>1, <1>1
      <3> QED BY <2>1, <3>1, <3>2
    <2>3. Newest(S)[i] # Newest(S)[k]
      <3>1. r[Newest(S)[k]] \in Nat /\ r[Newest(S)[i]] \in Nat BY <2>1, <1>1
      <3> QED BY <2>1, <3>1
    <2>4. Newest(S)[i] \in Nat /\ Newest(S)[k] \in Nat BY <2>1
    <2> QED BY <2>2, <2>3, <2>4
  <1> QED BY <1>n, <1>6, <1>7, <1>8 DEF n

(* A slice holds the rows offset + 1 .. offset + limit that exist.         *)
LEMMA SliceIsWindow ==
    ASSUME NEW T, NEW s \in Seq(T), NEW limit \in Nat, NEW offset \in Nat
    PROVE  /\ Slice(s, limit, offset) \in Seq(T)
           /\ Len(Slice(s, limit, offset)) =
                IF offset + limit <= Len(s) THEN limit
                ELSE IF offset < Len(s) THEN Len(s) - offset ELSE 0
           /\ \A i \in 1 .. Len(Slice(s, limit, offset)) :
                Slice(s, limit, offset)[i] = s[offset + i]
  <1> DEFINE n == IF offset + limit < Len(s) THEN offset + limit ELSE Len(s)
  <1>1. Len(s) \in Nat /\ \A i \in 1 .. Len(s) : s[i] \in T BY LenProperties
  <1>2. n \in Nat /\ n <= Len(s) BY <1>1
  <1>3. Slice(s, limit, offset) = SubSeq(s, offset + 1, n) BY DEF Slice
  <1>4. \A i \in offset + 1 .. n : s[i] \in T BY <1>1, <1>2
  <1>5. /\ SubSeq(s, offset + 1, n) \in Seq(T)
        /\ Len(SubSeq(s, offset + 1, n)) = IF offset + 1 <= n THEN n - (offset + 1) + 1 ELSE 0
        /\ \A i \in 1 .. n - (offset + 1) + 1 : SubSeq(s, offset + 1, n)[i] = s[offset + 1 + i - 1]
    <2> HIDE DEF n
    <2> QED BY <1>2, <1>4, SubSeqProperties
  <1>6. Len(Slice(s, limit, offset)) =
          IF offset + limit <= Len(s) THEN limit
          ELSE IF offset < Len(s) THEN Len(s) - offset ELSE 0
    BY <1>1, <1>3, <1>5
  <1>7. Len(Slice(s, limit, offset)) = IF offset + 1 <= n THEN n - offset ELSE 0
    BY <1>2, <1>3, <1>5
  <1>8. \A i \in 1 .. Len(Slice(s, limit, offset)) : Slice(s, limit, offset)[i] = s[offset + i]
    <2> SUFFICES ASSUME NEW i \in 1 .. Len(Slice(s, limit, offset))
                 PROVE  Slice(s, limit, offset)[i] = s[offset + i] OBVIOUS
    <2> HIDE DEF n
    <2>1. i \in 1 .. n - (offset + 1) + 1 /\ offset + 1 + i - 1 = offset + i BY <1>2, <1>7
    <2> QED BY <2>1, <1>3, <1>5
  <1> QED BY <1>3, <1>5, <1>6, <1>8

LEMMA RowsOfKind ==
    ASSUME NEW kind \in {"job", "history"}, NEW s \in Seq(Nat)
    PROVE  /\ Rows(kind, s) \in Seq([kind : {"job", "history"}, job : Nat])
           /\ Len(Rows(kind, s)) = Len(s)
           /\ \A i \in 1 .. Len(s) : Rows(kind, s)[i] = [kind |-> kind, job |-> s[i]]
  <1>1. Len(s) \in Nat /\ \A i \in 1 .. Len(s) : s[i] \in Nat BY LenProperties
  <1>2. Rows(kind, s) \in [1 .. Len(s) -> [kind : {"job", "history"}, job : Nat]]
    <2>1. \A i \in 1 .. Len(s) : [kind |-> kind, job |-> s[i]] \in [kind : {"job", "history"}, job : Nat]
      BY <1>1
    <2> QED BY <2>1 DEF Rows
  <1>3. \A i \in 1 .. Len(s) : Rows(kind, s)[i] = [kind |-> kind, job |-> s[i]] BY DEF Rows
  <1>4. Rows(kind, s) \in Seq([kind : {"job", "history"}, job : Nat])
        /\ Len(Rows(kind, s)) = Len(s)
    <2> DEFINE f == Rows(kind, s)
               n == Len(s)
               R == [kind : {"job", "history"}, job : Nat]
    <2>1. n \in Nat /\ f \in [1 .. n -> R] BY <1>1, <1>2
    <2> HIDE DEF f, n, R
    <2>2. f \in Seq(R) /\ Len(f) = n BY <2>1
    <2> QED BY <2>2 DEF f, n, R
  <1> QED BY <1>3, <1>4

(* The whole list of tasks: the unfinished jobs, then the history.         *)
Listed(g) == IF g <= Len(JobSegment) THEN JobSegment[g] ELSE HistorySegment[g - Len(JobSegment)]

(* The rows offset + 1 .. offset + limit of the whole list that exist,     *)
(* each as what its position says.                                         *)
IsWindow(page, limit, offset) ==
    LET jobs_total == Len(JobSegment)
        total == jobs_total + Len(HistorySegment)
    IN  /\ page.total = total /\ page.jobs_total = jobs_total
        /\ page.history_total = Len(HistorySegment)
        /\ Len(page.items) = IF offset + limit <= total THEN limit
                             ELSE IF offset < total THEN total - offset ELSE 0
        /\ \A i \in 1 .. Len(page.items) :
             /\ page.items[i].job = Listed(offset + i)
             /\ page.items[i].kind = IF offset + i - 1 < jobs_total THEN "job" ELSE "history"

LEMMA PageIsWindow ==
    ASSUME JobSegment \in Seq(Nat), HistorySegment \in Seq(Nat),
           NEW limit \in Nat, NEW offset \in Nat
    PROVE  IsWindow(UnifiedPage(limit, offset), limit, offset)
  <1> DEFINE J == JobSegment
             H == HistorySegment
             nj == Len(J)
             nh == Len(H)
             js == IF offset < nj THEN Slice(J, limit, offset) ELSE <<>>
             from == HistoryOffset(offset, nj)
             hs == Slice(H, limit - Len(js), from)
             page == UnifiedPage(limit, offset)
  <1>1. nj \in Nat /\ nh \in Nat BY LenProperties
  <1>2. js \in Seq(Nat) /\ Len(js) = IF offset + limit <= nj THEN limit
                                     ELSE IF offset < nj THEN nj - offset ELSE 0
    <2>1. CASE offset < nj BY <2>1, SliceIsWindow, <1>1
    <2>2. CASE ~ (offset < nj)
      <3>1. js = <<>> BY <2>2
      <3>2. js \in Seq(Nat) /\ Len(js) = 0 BY <3>1, EmptySeq
      <3> HIDE DEF js
      <3> QED BY <3>2, <2>2, <1>1
    <2> QED BY <2>1, <2>2
  <1>3. \A i \in 1 .. Len(js) : js[i] = J[offset + i]
    <2>1. CASE offset < nj BY <2>1, SliceIsWindow
    <2>2. CASE ~ (offset < nj)
      <3>1. Len(js) = 0 BY <2>2
      <3> QED BY <3>1
    <2> QED BY <2>1, <2>2
  <1>4. limit - Len(js) \in Nat /\ from \in Nat
    <2> HIDE DEF js
    <2>1. from \in Nat BY <1>1 DEF HistoryOffset
    <2> QED BY <1>1, <1>2, <2>1
  <1>5. /\ hs \in Seq(Nat)
        /\ Len(hs) = IF from + (limit - Len(js)) <= nh THEN limit - Len(js)
                     ELSE IF from < nh THEN nh - from ELSE 0
        /\ \A i \in 1 .. Len(hs) : hs[i] = H[from + i]
    <2> HIDE DEF js, from
    <2> QED BY <1>4, SliceIsWindow
  <1>6. page = [items |-> Rows("job", js) \o Rows("history", hs),
                jobs_total |-> nj, history_total |-> nh, total |-> nj + nh]
    BY DEF UnifiedPage
  <1>7. from = IF offset < nj THEN 0 ELSE offset - nj BY DEF HistoryOffset
  <1> HIDE DEF js, hs, from
  <1> DEFINE a == Rows("job", js)
             b == Rows("history", hs)
             R == [kind : {"job", "history"}, job : Nat]
  <1>8. /\ a \in Seq(R) /\ Len(a) = Len(js)
        /\ \A i \in 1 .. Len(js) : a[i] = [kind |-> "job", job |-> js[i]]
    BY <1>2, RowsOfKind
  <1>9. /\ b \in Seq(R) /\ Len(b) = Len(hs)
        /\ \A i \in 1 .. Len(hs) : b[i] = [kind |-> "history", job |-> hs[i]]
    BY <1>5, RowsOfKind
  <1>10. page.items = a \o b BY <1>6
  <1> HIDE DEF a, b, R
  <1>11. /\ Len(page.items) = Len(js) + Len(hs)
         /\ \A i \in 1 .. Len(page.items) :
              page.items[i] = IF i <= Len(js) THEN a[i] ELSE b[i - Len(js)]
    <2>1. /\ Len(a \o b) = Len(a) + Len(b)
          /\ \A i \in 1 .. Len(a) + Len(b) : (a \o b)[i] = IF i <= Len(a) THEN a[i] ELSE b[i - Len(a)]
      <3>1. a \in Seq(R) /\ b \in Seq(R) BY <1>8, <1>9
      <3> QED BY <3>1, ConcatProperties
    <2> QED BY <2>1, <1>8, <1>9, <1>10
  <1>12. Len(js) \in Nat /\ Len(hs) \in Nat BY <1>2, <1>5, LenProperties
  <1>13. Len(page.items) = IF offset + limit <= nj + nh THEN limit
                           ELSE IF offset < nj + nh THEN nj + nh - offset ELSE 0
    <2> HIDE DEF page, nj, nh
    <2> QED BY <1>1, <1>2, <1>5, <1>7, <1>11
  <1>14. ASSUME NEW i \in 1 .. Len(page.items)
         PROVE  /\ page.items[i].job = Listed(offset + i)
                /\ page.items[i].kind = IF offset + i - 1 < nj THEN "job" ELSE "history"
    <2>1. CASE i <= Len(js)
      <3>1. page.items[i] = [kind |-> "job", job |-> js[i]] /\ js[i] = J[offset + i]
        <4> HIDE DEF page
        <4>1. i \in 1 .. Len(js) BY <2>1, <1>12
        <4>2. page.items[i] = a[i] BY <2>1, <1>11
        <4> QED BY <4>1, <4>2, <1>3, <1>8
      <3>2. offset + i <= nj
        <4> HIDE DEF page, nj
        <4> QED BY <2>1, <1>1, <1>2, <1>12
      <3>3. Listed(offset + i) = J[offset + i] BY <3>2 DEF Listed
      <3>4. offset + i - 1 < nj
        <4> HIDE DEF nj, page
        <4> QED BY <3>2, <1>1, <2>1, <1>12
      <3> HIDE DEF page, nj
      <3> QED BY <3>1, <3>3, <3>4
    <2>2. CASE ~ (i <= Len(js))
      <3>0. i - Len(js) \in 1 .. Len(hs)
        <4> HIDE DEF page
        <4> QED BY <2>2, <1>11, <1>12
      <3>1. page.items[i] = [kind |-> "history", job |-> hs[i - Len(js)]]
            /\ hs[i - Len(js)] = H[from + (i - Len(js))]
        <4> HIDE DEF page
        <4> QED BY <2>2, <3>0, <1>5, <1>9, <1>11
      <3>2. from + (i - Len(js)) = offset + i - nj /\ ~ (offset + i <= nj)
        <4> HIDE DEF page, nj, nh
        <4> QED BY <2>2, <3>0, <1>1, <1>2, <1>5, <1>7, <1>12
      <3>3. Listed(offset + i) = H[offset + i - nj] BY <3>2 DEF Listed
      <3>4. ~ (offset + i - 1 < nj)
        <4> HIDE DEF nj, page
        <4> QED BY <3>2, <1>1, <1>12, <1>11
      <3> HIDE DEF page, nj
      <3> QED BY <3>1, <3>2, <3>3, <3>4
    <2> QED BY <2>1, <2>2
  <1>15. page.total = nj + nh /\ page.jobs_total = nj /\ page.history_total = nh BY <1>6
  <1> HIDE DEF page
  <1>16. IsWindow(page, limit, offset) BY <1>13, <1>14, <1>15 DEF IsWindow
  <1> QED BY <1>16 DEF page

LEMMA SeqOfNaturals ==
    ASSUME NEW S \in SUBSET Nat, NEW s \in Seq(S)
    PROVE  s \in Seq(Nat)
  <1>1. Len(s) \in Nat /\ s \in [1 .. Len(s) -> S] BY LenProperties
  <1>2. s \in [1 .. Len(s) -> Nat] BY <1>1
  <1> QED BY <1>1, <1>2

LEMMA DisjointUnion ==
    ASSUME NEW S, NEW T, IsFiniteSet(S), IsFiniteSet(T), S \cap T = {}
    PROVE  IsFiniteSet(S \cup T) /\ Cardinality(S \cup T) = Cardinality(S) + Cardinality(T)
  <1>1. Cardinality(S) \in Nat /\ Cardinality(T) \in Nat BY FS_CardinalityType
  <1>2. Cardinality(S \cap T) = 0 BY FS_EmptySet
  <1>3. IsFiniteSet(S \cup T)
        /\ Cardinality(S \cup T) = Cardinality(S) + Cardinality(T) - Cardinality(S \cap T)
    BY FS_Union
  <1> QED BY <1>1, <1>2, <1>3

(* Whatever the tables hold, the two segments list every task exactly once.*)
LEMMA SegmentsListTasks ==
    /\ JobSegment \in Seq(Nat) /\ HistorySegment \in Seq(Nat)
    /\ IsFiniteSet(Tasks) /\ Cardinality(Tasks) \in Nat
    /\ Len(JobSegment) + Len(HistorySegment) = Cardinality(Tasks)
    /\ \A j \in Tasks : \E g \in 1 .. Cardinality(Tasks) : Listed(g) = j
    /\ \A g, h \in 1 .. Cardinality(Tasks) : Listed(g) = Listed(h) => g = h
  <1> DEFINE A == {j \in Jobs : jobs[j] \notin {"completed", "no_row", "failed"}} \cup OtherJobs
             B == Terminal
             C == {j \in Indexed : jobs[j] \in {"completed", "no_row"}} \cup OtherReports
             a == Newest(A)
             b == Newest(B)
             c == Newest(C)
             nj == Cardinality(A) + Cardinality(B)
             n == Cardinality(Tasks)
             f == [g \in 1 .. n |-> Listed(g)]
  <1>1. /\ A \in SUBSET Nat /\ B \in SUBSET Nat /\ C \in SUBSET Nat
        /\ IsFiniteSet(A) /\ IsFiniteSet(B) /\ IsFiniteSet(C)
    <2>1. /\ Jobs \subseteq Nat /\ OtherJobs \subseteq Nat /\ OtherReports \subseteq Nat
          /\ IsFiniteSet(Jobs) /\ IsFiniteSet(OtherJobs) /\ IsFiniteSet(OtherReports)
      BY RowsAssumption
    <2>2. /\ IsFiniteSet({j \in Jobs : jobs[j] \notin {"completed", "no_row", "failed"}})
          /\ IsFiniteSet(Terminal)
          /\ IsFiniteSet({j \in Indexed : jobs[j] \in {"completed", "no_row"}})
      BY <2>1, FS_Subset DEF Terminal, Indexed
    <2>3. IsFiniteSet(A) /\ IsFiniteSet(B) /\ IsFiniteSet(C) BY <2>1, <2>2, FS_Union
    <2> QED BY <2>1, <2>3 DEF Terminal, Indexed
  <1>2. A \cap B = {} /\ (A \cup B) \cap C = {} /\ (A \cup B) \cup C = Tasks
    BY OthersAssumption DEF Terminal, Indexed, Tasks
  <1>3. JobSegment = a \o b /\ HistorySegment = c BY DEF JobSegment, HistorySegment
  <1> HIDE DEF A, B, C
  <1>4. /\ Cardinality(A) \in Nat /\ Cardinality(B) \in Nat /\ Cardinality(C) \in Nat
        /\ a \in Seq(Nat) /\ b \in Seq(Nat) /\ c \in Seq(Nat)
        /\ Len(a) = Cardinality(A) /\ Len(b) = Cardinality(B) /\ Len(c) = Cardinality(C)
    <2>1. \A S \in {A, B, C} : /\ Cardinality(S) \in Nat /\ Newest(S) \in Seq(S)
                               /\ Len(Newest(S)) = Cardinality(S)
      BY <1>1, NewestLists
    <2>2. \A S \in {A, B, C} : Newest(S) \in Seq(Nat) BY <1>1, <2>1, SeqOfNaturals
    <2> QED BY <2>1, <2>2
  <1>5. IsFiniteSet(Tasks) /\ n = nj + Cardinality(C) /\ n \in Nat
    <2>1. IsFiniteSet(A \cup B) /\ Cardinality(A \cup B) = Cardinality(A) + Cardinality(B)
      BY <1>1, <1>2, DisjointUnion
    <2>2. IsFiniteSet((A \cup B) \cup C)
          /\ Cardinality((A \cup B) \cup C) = Cardinality(A \cup B) + Cardinality(C)
      BY <1>1, <1>2, <2>1, DisjointUnion
    <2> HIDE DEF Tasks
    <2>3. n = Cardinality((A \cup B) \cup C) /\ IsFiniteSet(Tasks) BY <1>2, <2>2
    <2> QED BY <1>4, <2>1, <2>2, <2>3
  <1>6. /\ JobSegment \in Seq(Nat) /\ Len(JobSegment) = nj
        /\ \A i \in 1 .. nj : JobSegment[i] = IF i <= Len(a) THEN a[i] ELSE b[i - Len(a)]
    <2> HIDE DEF a, b
    <2> QED BY <1>3, <1>4, ConcatProperties
  <1>7. \A S \in {A, B, C} : /\ \A i \in 1 .. Cardinality(S) : Newest(S)[i] \in S
                             /\ \A x \in S : \E i \in 1 .. Cardinality(S) : Newest(S)[i] = x
    <2>1. \A S \in {A, B, C} : /\ Newest(S) \in Seq(S) /\ Len(Newest(S)) = Cardinality(S)
                               /\ \A x \in S : \E i \in 1 .. Cardinality(S) : Newest(S)[i] = x
      BY <1>1, NewestLists
    <2> QED BY <2>1, LenProperties
  <1>a. \A i \in 1 .. Cardinality(A) : Listed(i) = a[i]
    <2> HIDE DEF a
    <2> QED BY <1>4, <1>6 DEF Listed
  <1>b. \A i \in 1 .. Cardinality(B) : Listed(Cardinality(A) + i) = b[i]
    <2> SUFFICES ASSUME NEW i \in 1 .. Cardinality(B) PROVE Listed(Cardinality(A) + i) = b[i] OBVIOUS
    <2> DEFINE k == Cardinality(A) + i
    <2>1. k \in 1 .. nj /\ ~ (k <= Cardinality(A)) /\ k - Cardinality(A) = i BY <1>4
    <2> HIDE DEF k, a, b
    <2>2. Listed(k) = JobSegment[k] BY <2>1, <1>4, <1>6 DEF Listed
    <2>3. JobSegment[k] = b[k - Len(a)] BY <2>1, <1>4, <1>6
    <2> QED BY <2>1, <2>2, <2>3, <1>4 DEF k
  <1>c. \A i \in 1 .. Cardinality(C) : Listed(nj + i) = c[i]
    <2> SUFFICES ASSUME NEW i \in 1 .. Cardinality(C) PROVE Listed(nj + i) = c[i] OBVIOUS
    <2> HIDE DEF a, b, c
    <2>1. ~ (nj + i <= nj) /\ nj + i - nj = i BY <1>4
    <2> QED BY <2>1, <1>3, <1>6 DEF Listed
  <1>8. \A j \in Tasks : \E g \in 1 .. n : Listed(g) = j
    <2> SUFFICES ASSUME NEW j \in Tasks PROVE \E g \in 1 .. n : Listed(g) = j OBVIOUS
    <2>1. CASE j \in A
      <3>1. PICK i \in 1 .. Cardinality(A) : a[i] = j BY <2>1, <1>7
      <3>2. i \in 1 .. n BY <1>4, <1>5
      <3> QED BY <3>1, <3>2, <1>a
    <2>2. CASE j \in B
      <3>1. PICK i \in 1 .. Cardinality(B) : b[i] = j BY <2>2, <1>7
      <3>2. Cardinality(A) + i \in 1 .. n BY <1>4, <1>5
      <3> QED BY <3>1, <3>2, <1>b
    <2>3. CASE j \in C
      <3>1. PICK i \in 1 .. Cardinality(C) : c[i] = j BY <2>3, <1>7
      <3>2. nj + i \in 1 .. n BY <1>4, <1>5
      <3> QED BY <3>1, <3>2, <1>c
    <2> QED BY <2>1, <2>2, <2>3, <1>2
  <1>9. \A g \in 1 .. n : Listed(g) \in Tasks
    <2> SUFFICES ASSUME NEW g \in 1 .. n PROVE Listed(g) \in Tasks OBVIOUS
    <2>1. CASE g <= Cardinality(A)
      <3>1. g \in 1 .. Cardinality(A) BY <2>1, <1>4, <1>5
      <3> QED BY <3>1, <1>a, <1>7, <1>2
    <2>2. CASE g > Cardinality(A) /\ g <= nj
      <3>1. g - Cardinality(A) \in 1 .. Cardinality(B)
            /\ Cardinality(A) + (g - Cardinality(A)) = g BY <2>2, <1>4, <1>5
      <3>2. Listed(g) = b[g - Cardinality(A)] BY <3>1, <1>b
      <3> QED BY <3>1, <3>2, <1>7, <1>2
    <2>3. CASE g > nj
      <3>1. g - nj \in 1 .. Cardinality(C) /\ nj + (g - nj) = g BY <2>3, <1>4, <1>5
      <3>2. Listed(g) = c[g - nj] BY <3>1, <1>c
      <3> QED BY <3>1, <3>2, <1>7, <1>2
    <2> QED BY <2>1, <2>2, <2>3, <1>4, <1>5
  <1>10. f \in Injection(1 .. n, Tasks)
    <2>1. IsFiniteSet(1 .. n) /\ Cardinality(1 .. n) = n BY <1>5, FS_Interval
    <2>2. f \in Surjection(1 .. n, Tasks) BY <1>8, <1>9 DEF Surjection
    <2> QED BY <2>1, <2>2, FS_SurjSameCardinalityImpliesInj
  <1>11. \A g, h \in 1 .. n : Listed(g) = Listed(h) => g = h
    BY <1>10 DEF Injection, IsInjective
  <1>12. HistorySegment \in Seq(Nat) /\ Len(HistorySegment) = Cardinality(C) BY <1>3, <1>4
  <1> QED BY <1>5, <1>6, <1>8, <1>11, <1>12

(* The page of a row, and the room a page of its own takes.                *)
LEMMA PageOfRow ==
    ASSUME NEW g \in Nat, NEW limit \in Nat \ {0}
    PROVE  g \div limit \in Nat /\ (g \div limit) * limit <= g /\ g < (g \div limit) * limit + limit
  BY SMT

LEMMA PagesAreApart ==
    ASSUME NEW k \in Nat, NEW m \in Nat, NEW limit \in Nat, k < m
    PROVE  k * limit \in Nat /\ m * limit \in Nat /\ m * limit >= k * limit + limit
  <1>1. (m - k) * limit >= limit BY SMT
  <1> QED BY <1>1

(* The pages of any size are accepted, and show every task exactly once.   *)
LEMMA AnyPageSizeWorks ==
    ASSUME NEW limit \in Nat \ {0}
    PROVE  PagesShowEachOnce(limit)
  <1> DEFINE n == Cardinality(Tasks)
             last == n \div limit
             pages == [k \in 0 .. last |-> UnifiedPage(limit, k * limit)]
             Shown(j) == {x \in (DOMAIN pages) \X (1 .. limit) :
                            /\ x[2] <= Len(pages[x[1]].items)
                            /\ pages[x[1]].items[x[2]].job = j}
  <1>n. n \in Nat /\ n = Len(JobSegment) + Len(HistorySegment) BY SegmentsListTasks
  <1>l. last \in Nat /\ n < last * limit + limit
    <2> HIDE DEF n
    <2> QED BY <1>n, PageOfRow
  <1>p. Len(JobSegment) \in Nat /\ Len(HistorySegment) \in Nat
    BY SegmentsListTasks, LenProperties
  <1>w. ASSUME NEW k \in 0 .. last
        PROVE  /\ k * limit \in Nat /\ pages[k].total = n
               /\ pages[k].jobs_total = Len(JobSegment)
               /\ pages[k].history_total = Len(HistorySegment)
               /\ Len(pages[k].items) = IF k * limit + limit <= n THEN limit
                                        ELSE IF k * limit < n THEN n - k * limit ELSE 0
               /\ \A i \in 1 .. Len(pages[k].items) :
                    /\ pages[k].items[i].job = Listed(k * limit + i)
                    /\ pages[k].items[i].kind =
                         IF k * limit + i - 1 < Len(JobSegment) THEN "job" ELSE "history"
    <2> DEFINE offset == k * limit
    <2>1. offset \in Nat BY <1>l
    <2> DEFINE page == UnifiedPage(limit, offset)
    <2>2. pages[k] = page OBVIOUS
    <2> HIDE DEF offset, pages, n
    <2>3. IsWindow(page, limit, offset) BY <2>1, SegmentsListTasks, PageIsWindow
    <2> HIDE DEF page
    <2> QED BY <2>1, <2>2, <2>3, <1>n DEF offset, IsWindow
  <1>1. pages[0].total = n
    <2>1. 0 \in 0 .. last BY <1>l
    <2> HIDE DEF pages, n
    <2> QED BY <2>1, <1>w
  <1>2. ASSUME NEW k \in 0 .. last PROVE BridgeAccepts(pages[k], limit, k * limit)
    <2> DEFINE page == pages[k]
               offset == k * limit
    <2>1. /\ offset \in Nat /\ page.total = n
          /\ page.jobs_total = Len(JobSegment) /\ page.history_total = Len(HistorySegment)
          /\ Len(page.items) = IF offset + limit <= n THEN limit
                               ELSE IF offset < n THEN n - offset ELSE 0
          /\ \A i \in 1 .. Len(page.items) :
               page.items[i].kind = IF offset + i - 1 < page.jobs_total THEN "job" ELSE "history"
      <3> HIDE DEF pages, n
      <3> QED BY <1>w
    <2> HIDE DEF page, offset, n
    <2>2. page.total = page.jobs_total + page.history_total BY <2>1, <1>n
    <2>3. \A left : left = (IF n > offset THEN n - offset ELSE 0)
            => Len(page.items) = IF limit < left THEN limit ELSE left
      BY <2>1, <1>n
    <2>4. BridgeAccepts(page, limit, offset) BY <2>1, <2>2, <2>3 DEF BridgeAccepts
    <2> QED BY <2>4 DEF page, offset
  <1>3. ASSUME NEW j \in Tasks PROVE Cardinality(Shown(j)) = 1
    <2>1. PICK g \in 1 .. n : Listed(g) = j BY SegmentsListTasks
    <2> DEFINE k == (g - 1) \div limit
               i == g - k * limit
    <2>2. k \in Nat /\ k * limit \in Nat /\ k * limit <= g - 1 /\ g - 1 < k * limit + limit
      <3>1. g - 1 \in Nat BY <1>n
      <3> QED BY <3>1, PageOfRow
    <2> HIDE DEF k
    <2>3. i \in 1 .. limit /\ k * limit + i = g /\ g <= n BY <1>n, <2>2
    <2>4. k \in 0 .. last
      <3> SUFFICES ASSUME last < k PROVE FALSE BY <1>l, <2>2
      <3> HIDE DEF last, n
      <3>1. k * limit >= last * limit + limit /\ last * limit \in Nat
        BY <1>l, <2>2, PagesAreApart
      <3> QED BY <3>1, <1>l, <1>n, <2>2, <2>3
    <2> HIDE DEF i
    <2>5. <<k, i>> \in Shown(j)
      <3>1. i \in 1 .. Len(pages[k].items)
        <4> HIDE DEF pages, last, n
        <4> DEFINE at == k * limit
        <4>1. Len(pages[k].items) = IF at + limit <= n THEN limit
                                    ELSE IF at < n THEN n - at ELSE 0
          BY <1>w, <2>4
        <4>2. at \in Nat /\ at + i = g BY <2>2, <2>3
        <4> HIDE DEF at
        <4> QED BY <1>n, <2>3, <4>1, <4>2
      <3>2. pages[k].items[i].job = j
        <4> HIDE DEF pages, last, n
        <4> QED BY <3>1, <1>w, <2>1, <2>3, <2>4
      <3>3. k \in DOMAIN pages BY <2>4
      <3> HIDE DEF pages, last, n
      <3> QED BY <2>3, <3>1, <3>2, <3>3
    <2>6. ASSUME NEW x \in Shown(j) PROVE x = <<k, i>>
      <3>1. /\ x = <<x[1], x[2]>> /\ x[1] \in 0 .. last /\ x[2] \in 1 .. limit
            /\ x[2] <= Len(pages[x[1]].items) /\ pages[x[1]].items[x[2]].job = j
        OBVIOUS
      <3> HIDE DEF pages, last, n, Shown
      <3> DEFINE m == x[1]
                 q == x[2]
      <3>2. /\ x = <<m, q>> /\ m \in 0 .. last /\ q \in 1 .. limit
            /\ q <= Len(pages[m].items) /\ pages[m].items[q].job = j BY <3>1
      <3> HIDE DEF m, q
      <3>3. m \in Nat /\ q \in Nat /\ m * limit \in Nat BY <1>l, <1>w, <3>2
      <3>4. q \in 1 .. Len(pages[m].items) /\ m * limit + q <= n
        BY <1>n, <1>w, <3>2, <3>3
      <3>5. Listed(m * limit + q) = j BY <1>w, <3>2, <3>4
      <3>6. m * limit + q \in 1 .. n BY <1>n, <3>2, <3>3, <3>4
      <3>7. m * limit + q = g BY <2>1, <3>5, <3>6, SegmentsListTasks DEF n
      <3>8. m = k
        <4>1. ~ (m < k)
          <5> SUFFICES ASSUME m < k PROVE FALSE OBVIOUS
          <5>1. k * limit >= m * limit + limit BY <2>2, <3>3, PagesAreApart
          <5> QED BY <5>1, <2>2, <2>3, <3>2, <3>3, <3>7
        <4>2. ~ (k < m)
          <5> SUFFICES ASSUME k < m PROVE FALSE OBVIOUS
          <5>1. m * limit >= k * limit + limit BY <2>2, <3>3, PagesAreApart
          <5> QED BY <5>1, <2>2, <2>3, <3>2, <3>3, <3>7
        <4> QED BY <4>1, <4>2, <2>2, <3>3
      <3>9. q = i BY <2>2, <2>3, <3>3, <3>7, <3>8
      <3> QED BY <3>2, <3>8, <3>9
    <2> HIDE DEF Shown
    <2>7. Shown(j) = {<<k, i>>} BY <2>5, <2>6
    <2> QED BY <2>7, FS_Singleton
  <1> QED BY <1>1, <1>2, <1>3 DEF PagesShowEachOnce

(* Whatever the pipeline, a rebuild or a crash has done to the tables,     *)
(* the bridge accepts every page of the task list, and the pages of one    *)
(* size show each unfinished job and each report of a finished one exactly *)
(* once: the two sizes the run reads, and every other size.                *)
THEOREM ListShowsEachTaskOnce ==
    Spec => PagesPartitionTasks /\ [](\A limit \in Nat \ {0} : PagesShowEachOnce(limit))
  <1>1. \A limit \in Nat \ {0} : PagesShowEachOnce(limit) BY AnyPageSizeWorks
  <1>2. \A limit \in Limits : PagesShowEachOnce(limit) BY AnyPageSizeWorks DEF Limits
  <1> QED BY <1>1, <1>2, PTL DEF PagesPartitionTasks
================================================================================
