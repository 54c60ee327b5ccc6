----------------------------- MODULE ModelDownload -----------------------------
(***************************************************************************)
(* One model's download operation: the row in model_download               *)
(* (storage/repository.py), the partial files under .downloads and the     *)
(* install task that moves both (asr/installer.py, asr/model_manager.py),  *)
(* with resume, source failover, cancellation and crashes.                 *)
(*                                                                         *)
(* An archive is one file whose download reports restarts and headers back *)
(* to the row; a file set is several files whose download does not.  Sizes *)
(* are in abstract units; a file is right or wrong, which only its digest  *)
(* tells.  Validators (ETag, If-Range) are abstracted by letting the       *)
(* server answer 200 or 206 as it likes.  Everything that goes wrong draws *)
(* on one budget of faults.                                                *)
(***************************************************************************)
EXTENDS Naturals, Sequences

CONSTANTS
    Manifests,   \* what may be installed: [sizes, fileSet], the size of each
                 \* file and archive_format = "file-set"
    Sources,     \* manifest: the number of sources
    Interval,    \* _PROGRESS_INTERVAL
    MaxFaults    \* bound: how many things go wrong

ASSUME ManifestAssumption ==
    \A x \in Manifests : /\ x.sizes \in Seq(Nat \ {0}) /\ x.sizes # <<>>
                         /\ x.fileSet \in BOOLEAN
                         /\ ~ x.fileSet => Len(x.sizes) = 1
ASSUME NumberAssumption ==
    Sources \in Nat \ {0} /\ Interval \in Nat \ {0} /\ MaxFaults \in Nat

VARIABLES
    manifest,  \* the model's manifest
    st,        \* status of the latest operation, or "none"
    bytes,     \* downloaded_bytes
    part,      \* length of each partial file
    right,     \* is its content a prefix of the expected one
    pc,        \* the task
    last,      \* state["last_persisted"]
    src,       \* index of the source in use
    file,      \* index of the file in use
    asked,     \* the cancel event
    faults     \* faults left

row  == <<st, bytes>>
disk == <<part, right>>
task == <<pc, last, src, file>>
request == <<manifest, asked>>
vars == <<row, disk, task, request, faults>>

Active   == {"pending", "downloading", "verifying", "installing"}
Finished == {"completed", "failed", "cancelled"}

Sizes   == manifest.sizes
FileSet == manifest.fileSet
Files   == DOMAIN Sizes

(* The length of the first i files.                                        *)
UpTo(sizes, i) ==
    LET sum[k \in 0 .. Len(sizes)] == IF k = 0 THEN 0 ELSE sum[k - 1] + sizes[k]
    IN  sum[i]

Before(i) == UpTo(Sizes, i - 1)       \* _download_file_set: completed
Total     == UpTo(Sizes, Len(Sizes))  \* expected_size_bytes

(* _file_set_downloaded_bytes, or the length of the one partial.           *)
Actual == UpTo(part, Len(part))

Empty     == [i \in Files |-> 0]
AllRight  == [i \in Files |-> TRUE]
Truncate  == part' = Empty /\ right' = AllRight

Init ==
    /\ manifest \in Manifests
    /\ st = "none" /\ bytes = 0
    /\ part = Empty /\ right = AllRight
    /\ pc = "idle" /\ last = 0 /\ src = 1 /\ file = 1
    /\ asked = FALSE /\ faults = MaxFaults

Fault == faults > 0 /\ faults' = faults - 1

--------------------------------------------------------------------------------
(* install_model: resume the active operation or create one.  A completed  *)
(* install is not started again.                                           *)
Begin ==
    /\ pc = "idle" /\ st # "completed"
    /\ IF st \in Active THEN UNCHANGED row ELSE st' = "pending" /\ bytes' = 0
    /\ pc' = "dispatch" /\ src' = 1 /\ file' = 1 /\ last' = bytes'
    /\ asked' = FALSE
    /\ UNCHANGED <<disk, manifest, faults>>

(* Mutant: a resumed operation always downloads.                           *)
Dispatch_Downloads ==
    /\ pc = "dispatch"
    /\ st' = IF st = "pending" THEN "downloading" ELSE st
    /\ pc' = "compare"
    /\ UNCHANGED <<bytes, disk, last, src, file, request, faults>>

(* Enter the chain at the operation's status.                              *)
Dispatch ==
    /\ pc = "dispatch"
    /\ st' = IF st = "pending" THEN "downloading" ELSE st
    /\ pc' = IF st \in {"pending", "downloading"} THEN "compare" ELSE st
    /\ UNCHANGED <<bytes, disk, last, src, file, request, faults>>

(* The file ahead of the row is trusted, one behind it is not.             *)
Compare ==
    /\ pc = "compare"
    /\ IF Actual < bytes
         THEN Truncate /\ pc' = "restart" /\ UNCHANGED <<bytes, last>>
         ELSE pc' = "get" /\ bytes' = Actual /\ last' = Actual /\ UNCHANGED disk
    /\ UNCHANGED <<st, src, file, request, faults>>

(* restart_download before the first source.                               *)
Restart ==
    /\ pc = "restart"
    /\ bytes' = 0 /\ last' = 0 /\ pc' = "get"
    /\ UNCHANGED <<st, disk, src, file, request, faults>>

--------------------------------------------------------------------------------
(* download_resumable.                                                     *)

NextFile ==
    IF file < Len(Sizes) THEN pc' = "get" /\ file' = file + 1
                         ELSE pc' = "flush" /\ UNCHANGED file

(* A complete file is only hashed.                                         *)
AlreadyComplete ==
    /\ pc = "get" /\ part[file] = Sizes[file] /\ right[file]
    /\ NextFile
    /\ UNCHANGED <<row, disk, last, src, request, faults>>

(* 206: append.                                                            *)
Answer206 ==
    /\ pc = "get" /\ part[file] < Sizes[file]
    /\ pc' = "headers"
    /\ UNCHANGED <<row, disk, last, src, file, request, faults>>

(* Mutant: the row keeps its byte count.                                   *)
Answer200_KeepsBytes ==
    /\ pc = "get" /\ part[file] < Sizes[file]
    /\ UNCHANGED <<bytes, last>>
    /\ pc' = "headers0"
    /\ UNCHANGED <<st, disk, src, file, request, faults>>

(* 200: rewrite from zero; on_restart first resets an archive's row.       *)
Answer200 ==
    /\ pc = "get" /\ part[file] < Sizes[file]
    /\ IF part[file] > 0 /\ ~ FileSet
         THEN bytes' = 0 /\ last' = 0 ELSE UNCHANGED <<bytes, last>>
    /\ pc' = "headers0"
    /\ UNCHANGED <<st, disk, src, file, request, faults>>

(* on_headers writes the last persisted count again, which must not be a   *)
(* decrease; then the file is opened.                                      *)
Headers ==
    /\ pc \in {"headers", "headers0"}
    /\ IF ~ FileSet /\ last < bytes
         THEN pc' = "internal" /\ UNCHANGED <<bytes, disk>>
         ELSE /\ pc' = "stream"
              /\ bytes' = IF FileSet THEN bytes ELSE last
              /\ part' = [part EXCEPT ![file] = IF pc = "headers0" THEN 0 ELSE @]
              /\ right' = [right EXCEPT ![file] = IF pc = "headers0" THEN TRUE ELSE @]
    /\ UNCHANGED <<st, last, src, file, request, faults>>

(* persist_progress after a chunk: the cancel event first, then the row if *)
(* enough has accumulated.                                                 *)
Progress(n) ==
    IF asked THEN pc' = "cancelled" /\ UNCHANGED <<bytes, last>>
    ELSE IF n >= last + Interval \/ n = Total
      THEN bytes' = n /\ last' = n /\ UNCHANGED pc
      ELSE UNCHANGED <<bytes, last, pc>>

Chunk ==
    /\ pc = "stream" /\ part[file] < Sizes[file]
    /\ part' = [part EXCEPT ![file] = @ + 1]
    /\ Progress(Before(file) + part[file] + 1)
    /\ \/ UNCHANGED <<right, faults>>
       \/ Fault /\ right' = [right EXCEPT ![file] = FALSE]
    /\ UNCHANGED <<st, src, file, request>>

StreamComplete ==
    /\ pc = "stream" /\ part[file] = Sizes[file] /\ right[file]
    /\ NextFile
    /\ UNCHANGED <<row, disk, last, src, request, faults>>

AnotherSource == src < Sources

(* Mutant: what failed its digest is kept.                                 *)
DownloadFails_KeepsPartial ==
    /\ \/ /\ pc \in {"get", "stream"} /\ part[file] = Sizes[file] /\ ~ right[file]
          /\ UNCHANGED faults
       \/ pc \in {"get", "stream"} /\ Fault
    /\ pc' = IF AnotherSource THEN "switch" ELSE "failed"
    /\ UNCHANGED <<row, disk, last, src, file, request>>

(* A DownloadError: a wrong digest of what is there, a wrong status or     *)
(* range, a body too short or too long.                                    *)
DownloadFails ==
    /\ \/ /\ pc \in {"get", "stream"} /\ part[file] = Sizes[file] /\ ~ right[file]
          /\ UNCHANGED faults
       \/ pc \in {"get", "stream"} /\ Fault
    /\ pc' = IF AnotherSource THEN "switch" ELSE "failed"
    /\ Truncate
    /\ UNCHANGED <<row, last, src, file, request>>

(* httpx.HTTPError: the last source's partial is kept for a retry.         *)
NetworkFails ==
    /\ pc \in {"get", "stream"} /\ Fault
    /\ IF AnotherSource THEN pc' = "switch" /\ Truncate
                        ELSE pc' = "failed" /\ UNCHANGED disk
    /\ UNCHANGED <<row, last, src, file, request>>

(* switch_download_source, after the partial was truncated.                *)
SwitchSource ==
    /\ pc = "switch"
    /\ bytes' = 0 /\ last' = 0
    /\ src' = src + 1 /\ file' = 1 /\ pc' = "get"
    /\ UNCHANGED <<st, disk, request, faults>>

--------------------------------------------------------------------------------
(* The rest of _install_model_locked.                                      *)

(* The final progress write, then the move to verifying, which requires    *)
(* the row to be complete.                                                 *)
FlushProgress ==
    /\ pc = "flush"
    /\ bytes' = Total /\ last' = Total /\ pc' = "enter"
    /\ UNCHANGED <<st, disk, src, file, request, faults>>

EnterVerifying ==
    /\ pc = "enter" /\ bytes = Total
    /\ st' = "verifying" /\ pc' = "verifying"
    /\ UNCHANGED <<bytes, disk, last, src, file, request, faults>>

Good == part = Sizes /\ right = AllRight

(* A resumed operation verifies what the disk holds now.                   *)
Verify ==
    /\ pc = "verifying"
    /\ IF Good THEN st' = "installing" /\ pc' = "installing" /\ UNCHANGED disk
               ELSE Truncate /\ pc' = "failed" /\ UNCHANGED st
    /\ UNCHANGED <<bytes, last, src, file, request, faults>>

(* Mutant: what was verified before a crash is installed as it is.         *)
Install_Unverified ==
    /\ pc = "installing"
    /\ st' = "completed" /\ pc' = "idle"
    /\ UNCHANGED <<bytes, disk, last, src, file, request, faults>>

(* install_archive or install_file_set, which check every file once more,  *)
(* then complete_installation.                                             *)
Install ==
    /\ pc = "installing"
    /\ IF Good THEN st' = "completed" /\ pc' = "idle" /\ UNCHANGED disk
               ELSE Truncate /\ pc' = "failed" /\ UNCHANGED st
    /\ UNCHANGED <<bytes, last, src, file, request, faults>>

(* Any other exception (a database error, a differing version directory).  *)
InternalError ==
    /\ pc \in {"dispatch", "compare", "restart", "headers", "headers0", "switch",
              "flush", "enter", "verifying", "installing"}
    /\ Fault
    /\ pc' = "internal"
    /\ UNCHANGED <<row, disk, last, src, file, request>>

(* _mark_terminal.                                                         *)
MarkFailed ==
    /\ pc \in {"failed", "internal"}
    /\ st' = "failed" /\ pc' = "idle"
    /\ UNCHANGED <<bytes, disk, last, src, file, request, faults>>

(* _mark_terminal is best effort: the database may refuse it.              *)
MarkRefused ==
    /\ pc \in {"failed", "internal", "cancelled"} /\ Fault
    /\ pc' = "idle"
    /\ UNCHANGED <<row, disk, last, src, file, request>>

(* The _Cancelled handler: checkpoint the partial's length, a decrease of  *)
(* which is refused and escapes the handler, then mark the row.            *)
MarkCancelled ==
    /\ pc = "cancelled"
    /\ IF Actual < bytes
         THEN pc' = "escaped" /\ UNCHANGED row
         ELSE st' = "cancelled" /\ bytes' = Actual /\ pc' = "idle"
    /\ UNCHANGED <<disk, last, src, file, request, faults>>

(* The background task logs what escaped and ends.                         *)
TaskLogs ==
    /\ pc = "escaped"
    /\ pc' = "idle"
    /\ UNCHANGED <<row, disk, last, src, file, request, faults>>

--------------------------------------------------------------------------------
(* ModelManagerService.cancel while the task runs.                         *)
Cancel ==
    /\ pc # "idle" /\ ~ asked /\ Fault
    /\ asked' = TRUE
    /\ UNCHANGED <<row, disk, task, manifest>>

(* The process ends: the file being written loses its unflushed tail.      *)
Crash ==
    /\ pc # "idle" /\ Fault
    /\ pc' = "idle"
    /\ \E n \in 0 .. part[file] :
         /\ pc # "stream" => n = part[file]
         /\ part' = [part EXCEPT ![file] = n]
         /\ right' = [right EXCEPT ![file] = @ \/ n = 0]
    /\ UNCHANGED <<row, last, src, file, request>>

(* While no task runs, the disk loses or damages a partial file.           *)
DiskDamage ==
    /\ pc = "idle" /\ st # "completed" /\ Fault
    /\ \E i \in Files : part[i] > 0 /\
         \/ part' = [part EXCEPT ![i] = 0] /\ right' = [right EXCEPT ![i] = TRUE]
         \/ right' = [right EXCEPT ![i] = FALSE] /\ UNCHANGED part
    /\ UNCHANGED <<row, task, request>>

TaskStep ==
    \/ Dispatch \/ Compare \/ Restart
    \/ AlreadyComplete \/ Answer206 \/ Answer200 \/ Headers \/ Chunk \/ StreamComplete
    \/ DownloadFails \/ NetworkFails \/ SwitchSource
    \/ FlushProgress \/ EnterVerifying \/ Verify \/ Install
    \/ InternalError \/ MarkFailed \/ MarkRefused \/ MarkCancelled \/ TaskLogs

Next == Begin \/ TaskStep \/ Cancel \/ Crash \/ DiskDamage

(* The user retries, and a running task goes on.                           *)
Spec == Init /\ [][Next]_vars /\ WF_vars(Begin) /\ WF_vars(TaskStep)

--------------------------------------------------------------------------------
(* Properties.                                                             *)

(* The operation and the task move together: a task in the download loop   *)
(* finds its row downloading, one that verifies or installs finds it so,   *)
(* through failovers, crashes and resumed operations; none of the row's    *)
(* status guards is ever hit.                                              *)
RowFollowsTask ==
    /\ pc \in {"compare", "restart", "get", "headers", "headers0", "stream", "switch",
               "flush", "enter", "cancelled"} => st = "downloading"
    /\ pc \in {"verifying", "installing"} => st = pc /\ bytes = Total
    /\ pc = "enter" => bytes = Total

(* Type invariant of the row, the partial files and the task.              *)
TypeOK ==
    /\ RowFollowsTask
    /\ manifest \in Manifests
    /\ st \in Active \cup Finished \cup {"none"}
    /\ bytes \in 0 .. Total /\ last \in 0 .. Total
    /\ part \in [Files -> Nat] /\ right \in [Files -> BOOLEAN]
    /\ \A i \in Files : part[i] <= Sizes[i]
    /\ src \in 1 .. Sources /\ file \in Files
    /\ asked \in BOOLEAN /\ faults \in 0 .. MaxFaults
    /\ pc \in {"idle", "dispatch", "compare", "restart", "get", "headers", "headers0",
               "stream", "switch", "flush", "enter", "verifying", "installing",
               "failed", "internal", "cancelled", "escaped"}

(* While an archive streams, the row never claims more than the task has   *)
(* written: what update_download_progress refuses as a decrease cannot     *)
(* occur, and the checkpoint of a cancellation is always accepted.         *)
RecordedIsWritten ==
    ~ FileSet /\ pc \in {"stream", "cancelled"} => bytes <= Actual

(* The installed model is the one the manifest pins, whatever was resumed, *)
(* appended to, rewritten or damaged on disk since it was last verified.   *)
CompletedIsGood == st = "completed" => Good

(* installer.py: "any exception transitions the operation to               *)
(* failed/cancelled": no exception escapes with the operation active.      *)
EveryErrorIsRecorded == pc # "escaped"

(* No partial file and no row wedges an install: whatever goes wrong       *)
(* finitely often (wrong bytes, broken connections, failovers,             *)
(* cancellations, crashes at any point), retrying ends in an installed     *)
(* model.                                                                  *)
RetriesSucceed == <>(st = "completed")
================================================================================
