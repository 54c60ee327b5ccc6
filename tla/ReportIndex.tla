------------------------------ MODULE ReportIndex ------------------------------
(***************************************************************************)
(* The report files and their index: the last two pipeline stages write a  *)
(* report and index it (runtime/handlers.py, reports/writer.py), and the   *)
(* rebuild rescans the report directory beside them (storage/rebuild.py on *)
(* top of storage/report_repository.py).  The user edits, copies, deletes  *)
(* and restores files at any moment, and the directory's drive comes and   *)
(* goes.                                                                   *)
(*                                                                         *)
(* A relative path is a number, in the order the scan sorts them.  What    *)
(* the pipeline generates has a content-addressed name, so the text of a   *)
(* generated file is the path it was generated for; 0 is a user's text.    *)
(* The stage commits are JobQueue's subject and are one step here.         *)
(***************************************************************************)
EXTENDS Integers, FiniteSets

CONSTANTS
    Jobs,        \* analyses: a report's analysis_id is its job_id
    NPaths,      \* bound: relative paths of *.md files
    Batch,       \* _BATCH_SIZE
    MaxFaults,   \* bound: crashes, outages, edits, lost commits, hasty requests
    None

ASSUME PathsAssumption == NPaths \in Nat /\ Batch \in Nat \ {0}
ASSUME FaultsAssumption == MaxFaults \in Nat

Paths == 1 .. NPaths
MinOf(S) == CHOOSE x \in S : \A y \in S : x <= y

(* A readable file: the analysis it identifies, None if it does not parse  *)
(* as Schema v1, and its text.  Its sha-256 is this pair.                  *)
Contents == [id : Jobs \cup {None}, text : 0 .. NPaths]
Docs     == [st : {"active", "missing"}, path : Paths, text : 0 .. NPaths]

ASSUME NoneAssumption ==
    /\ None \notin Jobs /\ None \notin 0 .. NPaths /\ None \notin Docs
    /\ None \notin {"api", "startup", "custom", "default"}

VARIABLES
    files,     \* report directory: path -> content or None
    generated, \* the job for which a content-addressed name was made, or None
    online,    \* the directory can be enumerated
    pointer,   \* report-root.txt: "custom" or "unreadable"
    row,       \* the settings row exists and names the directory
    jobs,      \* "generating_report", "indexing", "completed", "failed", "no_row"
    art,       \* the report artifact of a job: its path, None
    docs,      \* report_documents, by job
    fts,       \* the jobs whose document has a report_fts row
    issues,    \* open index_issues: <<code, path>>
    istate,    \* index_status.state
    engine,    \* "up", "down"
    wpc, wjob, wfile,                       \* the worker and what it holds
    spc, sempty,                            \* reconcile_on_startup: step, no documents
    task,                                   \* the rebuild that holds the lock or flag
    rpc, root, todo, read, claims, scanned, \* its step and its locals
    quiet,     \* history: nothing disturbed the run ("scan") or since ("clean"),
               \* or only an outage that lasts ("outage")
    fresh,     \* history: jobs the pipeline indexed since the run collected
    faults     \* how often something went wrong or the user meddled

disk     == <<files, generated, online, pointer>>
tables   == <<row, jobs, art, docs, fts, issues, istate>>
worker   == <<wpc, wjob, wfile>>
startup  == <<spc, sempty>>
locals   == <<root, todo, read, claims, scanned>>
rebuild  == <<task, rpc, locals>>
ghosts   == <<quiet, fresh, faults>>
vars     == <<disk, tables, engine, worker, startup, rebuild, ghosts>>

NoClaims == [j \in Jobs |-> None]
NoRead   == [p \in {} |-> None]

Init ==
    /\ files = [p \in Paths |-> None] /\ generated = [p \in Paths |-> None]
    /\ online = TRUE /\ pointer = "custom" /\ row = TRUE
    /\ jobs = [j \in Jobs |-> "generating_report"]
    /\ art = [j \in Jobs |-> None] /\ docs = [j \in Jobs |-> None]
    /\ fts = {} /\ issues = {} /\ istate = "idle"
    /\ engine = "down"
    /\ wpc = "idle" /\ wjob = None /\ wfile = None
    /\ spc = "none" /\ sempty = FALSE
    /\ task = None /\ rpc = "none" /\ root = None
    /\ todo = {} /\ read = NoRead /\ claims = NoClaims /\ scanned = {}
    /\ quiet = "no" /\ fresh = {} /\ faults = 0

Disturb == quiet' = "no" /\ UNCHANGED <<fresh, faults>>
Fault   == faults < MaxFaults /\ faults' = faults + 1 /\ quiet' = "no" /\ UNCHANGED fresh

--------------------------------------------------------------------------------
(* storage/report_repository.py.                                           *)

(* Documents that history lists and search finds.  (No code path sets the  *)
(* third status, stale.)                                                   *)
Indexed == {j \in Jobs : docs[j] # None /\ docs[j].st = "active"}

(* The row upsert_report_document leaves: active, whatever it was.         *)
Upserted(p, text) == [st |-> "active", path |-> p, text |-> text]

(* mark_report_missing.                                                    *)
Missing(d) == [d EXCEPT !.st = "missing"]

(* purge_report_document deletes the row.                                  *)
Purged == None

(* record_index_issue and resolve_index_issue: one open issue per code and *)
(* path.  (The warning MD_EMPTY_BODY, which keeps no file out, is left     *)
(* out; "md" stands for the diagnostics that do.)                          *)
Record(open, code, S)   == open \cup ({code} \X S)
Resolve(open, codes, S) == open \ (codes \X S)

(* resolve_issues_for_absent_paths.                                        *)
ResolveAbsent(open, present) == {i \in open : i[2] \in present}

(* verify_fts.                                                             *)
FtsConsistent == fts = Indexed

--------------------------------------------------------------------------------
(* GeneratingReportHandler and IndexingHandler.                            *)

WorkerAt(pc, j, p) == wpc' = pc /\ wjob' = j /\ wfile' = p
WorkerIdle == WorkerAt("idle", None, None)

(* Mutant: an existing file is replaced whatever it holds.                 *)
WriteSync_Clobbers(p, c) == files' = [files EXCEPT ![p] = c] /\ wpc' = "commit"

(* ReportWriter._write_sync: write a new file, accept one that holds these *)
(* bytes, refuse any other (no artifact names a previous hash: the commit  *)
(* that registers it also leaves the stage).                               *)
WriteSync(p, c) ==
    /\ files' = IF files[p] = None THEN [files EXCEPT ![p] = c] ELSE files
    /\ wpc' = IF files'[p] = c THEN "commit" ELSE "fail"

(* The rendered text carries analyzed_at, so a second run makes a new name *)
(* unless it falls on the same instant.                                    *)
WriteReport(j, p) ==
    /\ engine = "up" /\ row /\ wpc = "idle" /\ jobs[j] = "generating_report" /\ online
    /\ generated[p] = j \/ (generated[p] = None /\ files[p] = None)
    /\ WriteSync(p, [id |-> j, text |-> p])
    /\ generated' = [generated EXCEPT ![p] = j]
    /\ wjob' = j /\ wfile' = IF wpc' = "commit" THEN p ELSE None
    /\ Disturb
    /\ UNCHANGED <<online, pointer, tables, engine, startup, rebuild>>

(* The artifact and the next stage in one transaction.                     *)
CommitReport ==
    /\ wpc = "commit"
    /\ art' = [art EXCEPT ![wjob] = wfile]
    /\ jobs' = [jobs EXCEPT ![wjob] = "indexing"]
    /\ WorkerIdle
    /\ UNCHANGED <<disk, row, docs, fts, issues, istate, engine, startup, rebuild, ghosts>>

(* read_file_verified and decode_report_bytes: the registered bytes, or    *)
(* the stage fails for good (a missing or unreadable file raises).         *)
ReadReport(j) ==
    LET p == art[j]
        good == p # None /\ online /\ files[p] = [id |-> j, text |-> p]
    IN  /\ engine = "up" /\ row /\ wpc = "idle" /\ jobs[j] = "indexing"
        /\ WorkerAt(IF good THEN "index" ELSE "fail", j, IF good THEN p ELSE None)
        /\ UNCHANGED <<disk, tables, engine, startup, rebuild, ghosts>>

(* The index write, a transaction of its own.                              *)
IndexReport ==
    /\ wpc = "index"
    /\ docs' = [docs EXCEPT ![wjob] = Upserted(wfile, wfile)]
    /\ fts' = fts \cup {wjob}
    /\ WorkerAt("complete", wjob, None)
    /\ fresh' = IF rpc \in {"scan", "probe", "absent"} THEN fresh \cup {wjob} ELSE fresh
    /\ quiet' = "no"
    /\ UNCHANGED <<disk, row, jobs, art, issues, istate, engine, startup, rebuild, faults>>

FinishJob ==
    /\ wpc \in {"complete", "fail"}
    /\ jobs' = [jobs EXCEPT ![wjob] = IF wpc = "complete" THEN "completed" ELSE "failed"]
    /\ WorkerIdle
    /\ UNCHANGED <<disk, row, art, docs, fts, issues, istate, engine, startup, rebuild, ghosts>>

(* The stage commit is lost (an expired lease, a database error): what the *)
(* handler did on disk or in the index stays, the stage runs again.        *)
LoseCommit ==
    /\ wpc \in {"commit", "complete"}
    /\ WorkerIdle /\ Fault
    /\ UNCHANGED <<disk, tables, engine, startup, rebuild>>

--------------------------------------------------------------------------------
(* IndexRebuildService: the root.                                          *)

(* read_report_pointer: an unreadable pointer is an error.                 *)
ReadPointer == IF pointer = "custom" THEN "custom" ELSE "error"

(* resolve_report_root: the settings row, else the pointer, else (never    *)
(* reached with a pointer) the platform's default directory, which is      *)
(* empty and always there.                                                 *)
Resolved == IF row THEN "custom" ELSE ReadPointer

(* root_is_usable.                                                         *)
Usable(r) == r = "default" \/ (r = "custom" /\ online)

(* _collect: rglob yields nothing where the directory cannot be read.      *)
Collect(r) == IF r = "custom" /\ online THEN {p \in Paths : files[p] # None} ELSE {}

Run(pc) == rpc' = pc /\ UNCHANGED <<task, locals>>

(* Mutant: the scheduled flag outlives the task.                           *)
RunOver_KeepsFlag ==
    /\ fresh' = {} /\ UNCHANGED task /\ rpc' = "none" /\ root' = None
    /\ todo' = {} /\ read' = NoRead /\ claims' = NoClaims /\ scanned' = {}

(* The task ends and lets the lock or the scheduled flag go.               *)
RunOver ==
    /\ fresh' = {} /\ task' = None /\ rpc' = "none" /\ root' = None
    /\ todo' = {} /\ read' = NoRead /\ claims' = NoClaims /\ scanned' = {}

SetState(s) == istate' = s /\ UNCHANGED <<row, jobs, art, docs, fts, issues>>

--------------------------------------------------------------------------------
(* start_rebuild: the flag is claimed before any await; a second request   *)
(* is answered 409.  A request that comes before the startup task is done  *)
(* counts among the rare events.                                           *)
StartRebuild ==
    /\ engine = "up" /\ task = None
    /\ task' = "api" /\ rpc' = "preflight" /\ UNCHANGED locals
    /\ IF spc = "none" THEN UNCHANGED ghosts ELSE Fault
    /\ UNCHANGED <<disk, tables, engine, worker, startup>>

Preflight ==
    /\ rpc = "preflight"
    /\ Run(IF Usable(Resolved) THEN "resolve" ELSE "park")
    /\ UNCHANGED <<disk, tables, engine, worker, startup, ghosts>>

(* _run: resolve and check the root again, ...                             *)
RunResolve ==
    /\ rpc = "resolve"
    /\ IF Usable(Resolved)
         THEN rpc' = "begin" /\ root' = Resolved /\ quiet' = "scan"
         ELSE rpc' = "park" /\ UNCHANGED <<root, quiet>>
    /\ UNCHANGED <<task, todo, read, claims, scanned, fresh, faults>>
    /\ UNCHANGED <<disk, tables, engine, worker, startup>>

(* ... commit the running state and, in the same turn, list the files.     *)
RunBegin ==
    /\ rpc = "begin"
    /\ SetState("running")
    /\ todo' = Collect(root) /\ rpc' = "scan" /\ fresh' = {}
    /\ UNCHANGED <<task, root, read, claims, scanned, quiet, faults>>
    /\ UNCHANGED <<disk, engine, worker, startup>>

(* The next _BATCH_SIZE paths of those left, in sorted order.              *)
Chunk == {p \in todo : Cardinality({q \in todo : q < p}) < Batch}

(* _scan_files reads one file after the other, without a transaction.      *)
ScanFile ==
    LET p == MinOf(Chunk \ DOMAIN read)
        seen == online /\ files[p] # None
    IN  /\ rpc = "scan" /\ Chunk \ DOMAIN read # {}
        /\ IF seen THEN /\ read' = [q \in DOMAIN read \cup {p} |->
                                      IF q = p THEN files[p] ELSE read[q]]
                        /\ rpc' = "scan"
                   ELSE rpc' = "probe" /\ UNCHANGED read
        /\ UNCHANGED <<task, root, todo, claims, scanned>>
        /\ UNCHANGED <<disk, tables, engine, worker, startup, ghosts>>

(* A failed read probes the root: the file alone is unreadable, or the run *)
(* is aborted.                                                             *)
ProbeRoot ==
    LET p == MinOf(Chunk \ DOMAIN read)
    IN  /\ rpc = "probe"
        /\ IF Usable(root)
             THEN /\ read' = [q \in DOMAIN read \cup {p} |-> IF q = p THEN None ELSE read[q]]
                  /\ rpc' = "scan"
             ELSE rpc' = "park" /\ UNCHANGED read
        /\ UNCHANGED <<task, root, todo, claims, scanned>>
        /\ UNCHANGED <<disk, tables, engine, worker, startup, ghosts>>

(* What the batch read, by kind.                                           *)
Parsed(j) == {p \in DOMAIN read : read[p] # None /\ read[p].id = j}
Quarantined == {p \in DOMAIN read : read[p] = None \/ read[p].id = None}

(* Mutant: the document in the database keeps its claim.                   *)
Claim_History(j) == IF docs[j] # None /\ docs[j].path \in Parsed(j) THEN docs[j].path
                    ELSE IF claims[j] # None \/ Parsed(j) = {} THEN claims[j]
                    ELSE MinOf(Parsed(j))

(* The first path in sorted order owns an analysis.                        *)
Claim(j) == IF claims[j] # None \/ Parsed(j) = {} THEN claims[j] ELSE MinOf(Parsed(j))

(* The analyses this batch upserts: those it claims a path for, unless row *)
(* and file agree already (unchanged).                                     *)
Claimed == {j \in Jobs : /\ Claim(j) # claims[j]
                         /\ docs[j] # Upserted(Claim(j), read[Claim(j)].text)}

(* _process_batch, phase 2: diagnostics, ownership and upserts in one      *)
(* transaction.  A quarantined file keeps an open duplicate issue.         *)
BatchTransaction ==
    LET good   == UNION {Parsed(j) : j \in Jobs}
        losers == {p \in good : Claim(read[p].id) # p}
        fixed  == Resolve(issues, {"md", "duplicate"}, good)
    IN  /\ rpc = "scan" /\ todo # {} /\ DOMAIN read = Chunk
        /\ docs' = [j \in Jobs |-> IF j \in Claimed THEN Upserted(Claim(j), read[Claim(j)].text)
                                   ELSE docs[j]]
        /\ fts' = fts \cup Claimed
        /\ issues' = Record(Record(fixed, "md", Quarantined), "duplicate", losers)
        /\ claims' = [j \in Jobs |-> Claim(j)]
        /\ scanned' = scanned \cup Chunk
        /\ todo' = todo \ Chunk /\ read' = NoRead
        /\ UNCHANGED <<task, rpc, root, row, jobs, art, istate>>
        /\ UNCHANGED <<disk, engine, worker, startup, ghosts>>

(* Mutant: absence is decided without looking at the root again.           *)
RecheckRoot_Skips ==
    /\ rpc = "scan" /\ todo = {}
    /\ Run("absent")
    /\ UNCHANGED <<disk, tables, engine, worker, startup, ghosts>>

(* The root is checked a last time before absence is decided.              *)
RecheckRoot ==
    /\ rpc = "scan" /\ todo = {}
    /\ Run(IF Usable(root) THEN "absent" ELSE "park")
    /\ UNCHANGED <<disk, tables, engine, worker, startup, ghosts>>

Absent(j) == docs[j] # None /\ claims[j] # docs[j].path

(* Mutant: a missing document keeps its FTS row.                           *)
MarkAbsent_KeepFts(purge) ==
    /\ rpc = "absent" /\ (purge => task = "api")
    /\ docs' = [j \in Jobs |->
                  IF ~ Absent(j) THEN docs[j]
                  ELSE IF purge /\ docs[j].path \notin scanned THEN Purged
                  ELSE Missing(docs[j])]
    /\ issues' = ResolveAbsent(issues, scanned)
    /\ Run("verify")
    /\ UNCHANGED <<row, jobs, art, fts, istate>>
    /\ UNCHANGED <<disk, engine, worker, startup, ghosts>>

(* _mark_absent: every document this run did not claim leaves the search;  *)
(* with purge, which only a request can ask for, one whose path was not    *)
(* scanned is deleted.                                                     *)
MarkAbsent(purge) ==
    /\ rpc = "absent" /\ (purge => task = "api")
    /\ docs' = [j \in Jobs |->
                  IF ~ Absent(j) THEN docs[j]
                  ELSE IF purge /\ docs[j].path \notin scanned THEN Purged
                  ELSE Missing(docs[j])]
    /\ fts' = fts \ {j \in Jobs : Absent(j)}
    /\ issues' = ResolveAbsent(issues, scanned)
    /\ Run("verify")
    /\ UNCHANGED <<row, jobs, art, istate>>
    /\ UNCHANGED <<disk, engine, worker, startup, ghosts>>

(* verify_fts in one session, its verdict in the next.                     *)
RunFinish ==
    /\ rpc = "verify"
    /\ SetState(IF FtsConsistent THEN "idle" ELSE "needs_rebuild") /\ RunOver
    /\ quiet' = IF quiet = "scan" THEN "clean" ELSE "no"
    /\ UNCHANGED <<faults, disk, engine, worker, startup>>

(* The failure ends the run and frees the lock; the startup's own handler  *)
(* then parks once more.                                                   *)
RunFails ==
    /\ RunOver
    /\ spc' = IF task = "startup" THEN "park" ELSE spc
    /\ UNCHANGED sempty

(* _park_needs_rebuild, after any failure.                                 *)
ParkNeedsRebuild ==
    /\ rpc = "park"
    /\ SetState("needs_rebuild") /\ RunFails
    /\ UNCHANGED <<quiet, faults, disk, engine, worker>>

(* A database error inside _run.                                           *)
RunError ==
    /\ rpc \in {"resolve", "begin", "scan", "absent", "verify"}
    /\ Run("park") /\ Fault
    /\ UNCHANGED <<disk, tables, engine, worker, startup>>

(* A database error the run does not record: in the preflight, in the park *)
(* itself, or in the last write, which leaves the state running.           *)
RunDies ==
    /\ rpc \in {"preflight", "park", "verify"}
    /\ faults < MaxFaults /\ faults' = faults + 1 /\ quiet' = "no" /\ RunFails
    /\ UNCHANGED <<disk, tables, engine, worker>>

--------------------------------------------------------------------------------
(* reconcile_on_startup, a background task of every start.                 *)

Boot ==
    /\ engine = "down" /\ engine' = "up"
    /\ spc' = "status" /\ UNCHANGED sempty
    /\ UNCHANGED <<disk, tables, worker, rebuild, ghosts>>

(* Mutant: a running state is left to its owner.                           *)
Decision_Trusts(first, empty) ==
    IF istate = "needs_rebuild" THEN "go" ELSE IF empty THEN "backfill" ELSE "none"

(* _startup_needs_rebuild: a persisted running state is orphaned (though a *)
(* request may have begun a rebuild in this process already).              *)
Decision(first, empty) ==
    IF istate = "running" /\ first THEN "orphan"
    ELSE IF istate = "needs_rebuild" THEN "go"
    ELSE IF empty THEN "backfill" ELSE "none"

StartupStatus ==
    LET empty == \A j \in Jobs : docs[j] = None
    IN  /\ spc = "status"
        /\ spc' = Decision(TRUE, empty)
        /\ sempty' = (spc' = "orphan" /\ empty)
        /\ UNCHANGED <<disk, tables, engine, worker, rebuild, ghosts>>

(* The state is read again after the commit, the documents are not.        *)
StartupAgain ==
    /\ spc = "again"
    /\ spc' = Decision(FALSE, sempty) /\ sempty' = FALSE
    /\ UNCHANGED <<disk, tables, engine, worker, rebuild, ghosts>>

StartupOrphan ==
    /\ spc = "orphan" /\ spc' = "again"
    /\ SetState("needs_rebuild")
    /\ UNCHANGED <<sempty, disk, engine, worker, rebuild, ghosts>>

(* An empty index over a directory with reports is filled; an unusable     *)
(* root is recorded.                                                       *)
StartupBackfill ==
    /\ spc = "backfill"
    /\ spc' = IF Usable(Resolved) /\ Collect(Resolved) # {} THEN "go" ELSE "none"
    /\ SetState(IF Usable(Resolved) THEN istate ELSE "needs_rebuild")
    /\ UNCHANGED <<sempty, disk, engine, worker, rebuild, ghosts>>

(* _locked_run: nothing if a requested rebuild is scheduled or running.    *)
StartupGo ==
    /\ spc = "go" /\ spc' = "none"
    /\ IF task = None THEN task' = "startup" /\ rpc' = "resolve" ELSE UNCHANGED <<task, rpc>>
    /\ UNCHANGED <<sempty, locals, disk, tables, engine, worker, ghosts>>

(* The handler of a failed run: a request may be at work again by now.     *)
StartupPark ==
    /\ spc = "park" /\ spc' = "none"
    /\ SetState("needs_rebuild")
    /\ UNCHANGED <<sempty, disk, engine, worker, rebuild, ghosts>>

(* A database error in the startup task: parked, if the database allows.   *)
StartupError(parks) ==
    /\ spc \in {"status", "orphan", "again", "backfill"} \/ (spc = "park" /\ ~ parks)
    /\ spc' = "none" /\ sempty' = FALSE /\ Fault
    /\ SetState(IF parks THEN "needs_rebuild" ELSE istate)
    /\ UNCHANGED <<disk, engine, worker, rebuild>>

--------------------------------------------------------------------------------
(* The surroundings.                                                       *)

(* The process ends; cancelled tasks leave their state behind alike.       *)
EngineEnds ==
    /\ engine' = "down" /\ WorkerIdle /\ RunOver /\ spc' = "none" /\ sempty' = FALSE
    /\ faults < MaxFaults /\ faults' = faults + 1 /\ quiet' = "no"

Crash == engine = "up" /\ EngineEnds /\ UNCHANGED <<disk, tables>>

(* The engine is stopped and evoblue.db deleted; init_db makes an empty    *)
(* one at the next start.                                                  *)
LoseDatabase ==
    /\ row /\ row' = FALSE /\ istate' = "idle"
    /\ jobs' = [j \in Jobs |-> "no_row"] /\ art' = [j \in Jobs |-> None]
    /\ docs' = [j \in Jobs |-> None] /\ fts' = {} /\ issues' = {}
    /\ EngineEnds /\ UNCHANGED disk

(* settings_put writes the row and the pointer (see SettingsWrite).        *)
SaveSettings ==
    /\ engine = "up" /\ ~ row
    /\ row' = TRUE /\ pointer' = "custom"
    /\ UNCHANGED <<files, generated, online, jobs, art, docs, fts, issues, istate>>
    /\ UNCHANGED <<engine, worker, startup, rebuild, ghosts>>

(* The user deletes, breaks, edits, re-identifies, copies or restores.     *)
UserWrites(p, c) ==
    /\ online /\ files[p] # c
    /\ c \in {None} \cup [id : Jobs \cup {None}, text : {0}] \cup {files[q] : q \in Paths}
    /\ files' = [files EXCEPT ![p] = c]
    /\ Fault
    /\ UNCHANGED <<generated, online, pointer, tables, engine, worker, startup, rebuild>>

(* The drive goes; the pointer cannot be read (which matters while there   *)
(* is no settings row); either comes back.                                 *)
Outage ==
    /\ online /\ online' = FALSE
    /\ faults < MaxFaults /\ faults' = faults + 1
    /\ quiet' = IF quiet = "scan" THEN "outage" ELSE "no"
    /\ UNCHANGED <<fresh, files, generated, pointer, tables, engine, worker, startup, rebuild>>

PointerLocked ==
    /\ ~ row /\ pointer = "custom" /\ pointer' = "unreadable" /\ Fault
    /\ UNCHANGED <<files, generated, online, tables, engine, worker, startup, rebuild>>

Recovery ==
    /\ ~ online \/ pointer # "custom"
    /\ online' = TRUE /\ pointer' = "custom" /\ Disturb
    /\ UNCHANGED <<files, generated, tables, engine, worker, startup, rebuild>>

--------------------------------------------------------------------------------
PipelineStep == \/ \E j \in Jobs, p \in Paths : WriteReport(j, p)
                \/ CommitReport
                \/ \E j \in Jobs : ReadReport(j)
                \/ IndexReport \/ FinishJob \/ LoseCommit

RunStep == \/ Preflight \/ RunResolve \/ RunBegin \/ ScanFile \/ ProbeRoot
           \/ BatchTransaction \/ RecheckRoot \/ \E purge \in BOOLEAN : MarkAbsent(purge)
           \/ RunFinish \/ ParkNeedsRebuild

StartupStep == \/ StartupStatus \/ StartupOrphan \/ StartupAgain \/ StartupBackfill \/ StartupGo
               \/ StartupPark

Surroundings == \/ Boot \/ Crash \/ LoseDatabase \/ SaveSettings
                \/ \E p \in Paths, c \in Contents \cup {None} : UserWrites(p, c)
                \/ Outage \/ PointerLocked \/ Recovery

Next == \/ PipelineStep
        \/ StartRebuild
        \/ RunStep \/ RunError \/ RunDies
        \/ StartupStep \/ \E parks \in BOOLEAN : StartupError(parks)
        \/ Surroundings

(* Tasks of a running event loop go on; nobody has to restart the engine,  *)
(* to bring the drive back or to ask for a rebuild.                        *)
Spec == Init /\ [][Next]_vars /\ WF_vars(RunStep) /\ WF_vars(StartupStep)

--------------------------------------------------------------------------------
(* Properties.                                                             *)

(* Type invariant.  A worker in a stage holds its job and its file; a      *)
(* rebuild in progress has an owner, and what it read it also collected.   *)
TypeOK ==
    /\ files \in [Paths -> Contents \cup {None}]
    /\ generated \in [Paths -> Jobs \cup {None}]
    /\ online \in BOOLEAN /\ pointer \in {"custom", "unreadable"} /\ row \in BOOLEAN
    /\ jobs \in [Jobs -> {"generating_report", "indexing", "completed", "failed", "no_row"}]
    /\ art \in [Jobs -> Paths \cup {None}]
    /\ docs \in [Jobs -> Docs \cup {None}]
    /\ fts \subseteq Jobs
    /\ issues \subseteq {"md", "duplicate"} \X Paths
    /\ istate \in {"idle", "running", "needs_rebuild"}
    /\ engine \in {"up", "down"}
    /\ wpc \in {"idle", "commit", "index", "complete", "fail"}
    /\ wpc # "idle" => wjob \in Jobs
    /\ wpc \in {"commit", "index"} => wfile \in Paths
    /\ spc \in {"none", "status", "again", "orphan", "backfill", "go", "park"}
    /\ sempty \in BOOLEAN
    /\ task \in {None, "api", "startup"} /\ (task = None <=> rpc = "none")
    /\ rpc \in {"none", "preflight", "resolve", "begin", "scan", "probe", "absent",
               "verify", "park"}
    /\ root \in {None, "custom", "default"}
    /\ todo \subseteq Paths /\ scanned \subseteq Paths
    /\ read \in [DOMAIN read -> Contents \cup {None}] /\ DOMAIN read \subseteq todo
    /\ claims \in [Jobs -> Paths \cup {None}]
    /\ quiet \in {"no", "scan", "clean", "outage"} /\ fresh \subseteq Jobs /\ faults \in 0 .. MaxFaults

(* The pairing protocol: exactly the documents that history lists have a   *)
(* full-text row, between any two transactions of the pipeline, of a       *)
(* rebuild and of a crash, so that verify_fts never finds a drift.         *)
FtsPaired == FtsConsistent

(* The generated reports and the user's edits are kept: no step of the     *)
(* pipeline or of a rebuild changes or removes a file that exists.         *)
FilesAreKept ==
    [][PipelineStep \/ RunStep \/ StartupStep =>
         \A p \in Paths : files[p] # None => files'[p] = files[p]]_vars

(* With the database deleted the root comes from the pointer file, and an  *)
(* unreadable pointer must not send the scan to the default directory: it  *)
(* would mark every report of the user missing.                            *)
UserRootOnly == root # "default"

Holding(j) == {p \in Paths : files[p] # None /\ files[p].id = j}
Broken     == {p \in Paths : files[p] # None /\ files[p].id = None}
Losers     == {p \in Paths : \E j \in Jobs : p \in Holding(j) /\ p # MinOf(Holding(j))}

(* A rebuild that nothing disturbed leaves the index a projection of the   *)
(* directory, whatever the database held before, whichever runs died       *)
(* half-way and whoever wrote the rows: every analysis with a file is      *)
(* indexed with the text of its sorted-first file, no other is, and the    *)
(* open issues name the broken files and the losing duplicates (a broken   *)
(* one may keep an older duplicate issue).                                 *)
QuietRunMirrorsDisk ==
    quiet = "clean" =>
        /\ \A j \in Jobs :
             IF Holding(j) = {} THEN j \notin Indexed
             ELSE LET p == MinOf(Holding(j)) IN docs[j] = Upserted(p, files[p].text)
        /\ {p \in Paths : <<"md", p>> \in issues} = Broken
        /\ {p \in Paths : <<"duplicate", p>> \in issues} \ Broken = Losers

(* "A drive that dies mid-scan aborts the whole run with the existing      *)
(* index intact" (storage/rebuild.py): unless the drive comes back while   *)
(* the run lasts, or a file changes, no document whose file is there and   *)
(* owns its analysis leaves the index, wherever the outage falls.          *)
OutageLosesNothing ==
    [][rpc = "absent" /\ rpc' = "verify" /\ quiet \in {"scan", "outage"} =>
         \A j \in Indexed :
            Holding(j) # {} /\ docs[j].path = MinOf(Holding(j)) => docs'[j] = docs[j]]_vars

(* A rebuild that a crash left running is recognised at the next start and *)
(* run to its end once nothing more goes wrong.                            *)
OrphanedRunHeals ==
    (/\ spc = "status" /\ istate = "running" /\ task = None
     /\ online /\ pointer = "custom" /\ faults = MaxFaults) ~> istate = "idle"

(* docs/INDEX_REBUILD.md, section 6: a rebuild knows nothing of a file that *)
(* appears after the scan, and does not roll back the row the pipeline     *)
(* wrote for it; the next rebuild takes the file in.                       *)
PipelineRowsAreKept ==
    [][rpc = "absent" /\ rpc' = "verify" => \A j \in fresh : docs'[j] = docs[j]]_vars
================================================================================
