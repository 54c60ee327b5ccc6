------------------------------- MODULE JobQueue --------------------------------
(***************************************************************************)
(* The job table and its lease protocol (storage/repository.py), driven by *)
(* the worker loop and its heartbeat (runtime/worker.py), by submissions   *)
(* and cancellations from the API (application/submit.py) and by startup   *)
(* recovery (runtime/engine.py, runtime/bootstrap.py).                     *)
(*                                                                         *)
(* SQLite is the only shared state; every write is one IMMEDIATE           *)
(* transaction, hence one action.  A worker between its claim and its      *)
(* stage commit holds only local knowledge (held, view, outcome) that the  *)
(* row may contradict by the time it commits.                              *)
(*                                                                         *)
(* Time is relative: lease[j] is lease_expires_at - now, floored at 0, and *)
(* retryIn[j] is next_retry_at - now, floored at 0.  The code compares     *)
(* these columns with now only, so nothing is lost and no clock bound is   *)
(* needed.                                                                 *)
(***************************************************************************)
EXTENDS StageHandlers, FiniteSets

CONSTANTS
    MaxJobs,        \* bound: rows the jobs table may hold
    Workers,        \* lease owners; the engine starts one, "local-worker"
    Fingerprints,   \* request fingerprints
    MaxAttempts,    \* max_attempts
    LeaseTicks,     \* worker_lease_seconds
    RetryTicks,     \* DEFAULT_RETRY_DELAY
    None            \* SQL NULL

ASSUME MaxJobsAssumption     == MaxJobs \in Nat
ASSUME MaxAttemptsAssumption == MaxAttempts \in Nat \ {0}
ASSUME LeaseAssumption       == LeaseTicks \in Nat \ {0}
ASSUME RetryAssumption       == RetryTicks \in Nat
ASSUME NoneAssumption        == /\ None \notin Workers
                                /\ None \notin Fingerprints
                                /\ None \notin Nat
                                /\ None \notin JobStatus

Jobs == 1 .. MaxJobs     \* in submission order: (created_at, id)

VARIABLES
    status, stage, owner, lease, attempt, retryIn, cancel, fp,  \* table jobs
    arts,       \* table job_artifacts: the registered types of each job
    engine,     \* the process: down, one of the startup steps, or up
    pc,         \* worker: "idle", "run" (in a handler), "commit"
    held,       \* worker: the job it claimed
    view,       \* worker: the job's status as the worker loaded it
    out,        \* worker: the StageOutcome to commit
    beat        \* worker: is its heartbeat task still running

row   == <<status, stage, owner, lease, attempt, retryIn, cancel, fp, arts>>
local == <<pc, held, view, out, beat>>
vars  == <<row, engine, local>>

Exists(j)  == status[j] # "absent"
Starting   == {"recover", "fail", "land", "reconcile"}

Init ==
    /\ status  = [j \in Jobs |-> "absent"]
    /\ stage   = [j \in Jobs |-> None]
    /\ owner   = [j \in Jobs |-> None]
    /\ lease   = [j \in Jobs |-> None]
    /\ attempt = [j \in Jobs |-> 0]
    /\ retryIn = [j \in Jobs |-> None]
    /\ cancel  = [j \in Jobs |-> FALSE]
    /\ fp      = [j \in Jobs |-> None]
    /\ arts    = [j \in Jobs |-> {}]
    /\ engine  = "down"
    /\ pc      = [w \in Workers |-> "idle"]
    /\ held    = [w \in Workers |-> None]
    /\ view    = [w \in Workers |-> None]
    /\ out     = [w \in Workers |-> None]
    /\ beat    = [w \in Workers |-> FALSE]

--------------------------------------------------------------------------------
(* The API.                                                                *)

(* Mutant: a job in retry_wait or parked is not seen as active.            *)
SubmitVideo_OnlyRunningSeen(f) ==
    /\ engine = "up"
    /\ ~ \E j \in Jobs : fp[j] = f /\ status[j] \in RunningStates \cup {"queued"}
    /\ \E j \in Jobs :
        /\ ~ Exists(j)
        /\ \A k \in Jobs : k < j => Exists(k)
        /\ status' = [status EXCEPT ![j] = "queued"]
        /\ fp'     = [fp EXCEPT ![j] = f]
    /\ UNCHANGED <<stage, owner, lease, attempt, retryIn, cancel, arts, engine, local>>

(* submit_video: an active job with the same fingerprint is reused         *)
(* whatever its age, and so is a recent completion (no step); otherwise a  *)
(* row is inserted.                                                        *)
SubmitVideo(f) ==
    /\ engine = "up"
    /\ ~ \E j \in Jobs : Exists(j) /\ fp[j] = f /\ status[j] \notin Terminal
    /\ \E j \in Jobs :
        /\ ~ Exists(j)
        /\ \A k \in Jobs : k < j => Exists(k)
        /\ status' = [status EXCEPT ![j] = "queued"]
        /\ fp'     = [fp EXCEPT ![j] = f]
    /\ UNCHANGED <<stage, owner, lease, attempt, retryIn, cancel, arts, engine, local>>

(* request_cancellation: an idle job is cancelled at once, a running one   *)
(* only flagged; a finished one is left alone.                             *)
RequestCancellation(j) ==
    /\ engine = "up"
    /\ Exists(j) /\ status[j] \notin Terminal
    /\ cancel' = [cancel EXCEPT ![j] = TRUE]
    /\ IF status[j] \in {"queued", "retry_wait", "waiting_for_model"}
         THEN /\ status'  = [status EXCEPT ![j] = "cancelled"]
              /\ retryIn' = [retryIn EXCEPT ![j] = None]
              /\ owner'   = [owner EXCEPT ![j] = None]
              /\ lease'   = [lease EXCEPT ![j] = None]
         ELSE UNCHANGED <<status, retryIn, owner, lease>>
    /\ UNCHANGED <<stage, attempt, fp, arts, engine, local>>

(* resume_waiting_jobs, for the parked jobs S that name the model just     *)
(* accounted for.  Run by an install, by a settings save and once at       *)
(* startup.                                                                *)
Resumable(j) == status[j] = "waiting_for_model" /\ ~ cancel[j]

ResumeRows(S) ==
    /\ status' = [j \in Jobs |-> IF j \in S THEN "transcribing" ELSE status[j]]
    /\ stage'  = [j \in Jobs |-> IF j \in S THEN "transcribing" ELSE stage[j]]
    /\ owner'  = [j \in Jobs |-> IF j \in S THEN None ELSE owner[j]]
    /\ lease'  = [j \in Jobs |-> IF j \in S THEN None ELSE lease[j]]
    /\ UNCHANGED <<attempt, retryIn, cancel, fp, arts>>

ResumeWaitingJobs ==
    /\ engine = "up"
    /\ \E S \in SUBSET {j \in Jobs : Resumable(j)} : S # {} /\ ResumeRows(S)
    /\ UNCHANGED <<engine, local>>

--------------------------------------------------------------------------------
(* The worker.                                                             *)

(* Mutant: the attempt limit is off by one.                                *)
Claimable_OneMore(j) ==
    /\ attempt[j] <= MaxAttempts
    /\ \/ status[j] = "queued"
       \/ status[j] = "retry_wait" /\ retryIn[j] = 0
       \/ status[j] \in RunningStates /\ lease[j] \in {None, 0}

Claimable(j) ==
    /\ attempt[j] < MaxAttempts
    /\ \/ status[j] = "queued"
       \/ status[j] = "retry_wait" /\ retryIn[j] = 0
       \/ status[j] \in RunningStates /\ lease[j] \in {None, 0}

ClaimStatus(j) ==
    CASE status[j] = "queued"     -> "fetching_metadata"
      [] status[j] = "retry_wait" ->
            IF stage[j] = None THEN "fetching_metadata" ELSE stage[j]
      [] OTHER                    -> status[j]

(* The local side of starting a stage: enter the handler, start the        *)
(* heartbeat.                                                              *)
Enter(w, j, s) ==
    /\ pc'   = [pc EXCEPT ![w] = "run"]
    /\ held' = [held EXCEPT ![w] = j]
    /\ view' = [view EXCEPT ![w] = s]
    /\ out'  = [out EXCEPT ![w] = None]
    /\ beat' = [beat EXCEPT ![w] = TRUE]

(* The local side of leaving run_worker_once.                              *)
Leave(w) ==
    /\ pc'   = [pc EXCEPT ![w] = "idle"]
    /\ held' = [held EXCEPT ![w] = None]
    /\ view' = [view EXCEPT ![w] = None]
    /\ out'  = [out EXCEPT ![w] = None]
    /\ beat' = [beat EXCEPT ![w] = FALSE]

(* Mutant: the claim does not count as an attempt.                         *)
ClaimNextJob_Uncounted(w) ==
    /\ engine = "up" /\ pc[w] = "idle"
    /\ \E j \in Jobs :
        /\ Claimable(j)
        /\ \A k \in Jobs : k < j => ~ Claimable(k)
        /\ status' = [status EXCEPT ![j] = ClaimStatus(j)]
        /\ stage'  = [stage EXCEPT ![j] = ClaimStatus(j)]
        /\ owner'  = [owner EXCEPT ![j] = w]
        /\ lease'  = [lease EXCEPT ![j] = LeaseTicks]
        /\ Enter(w, j, ClaimStatus(j))
    /\ UNCHANGED <<attempt, retryIn, cancel, fp, arts, engine>>

(* Mutant: the claim leaves the stage column alone.                        *)
ClaimNextJob_KeepsStage(w) ==
    /\ engine = "up" /\ pc[w] = "idle"
    /\ \E j \in Jobs :
        /\ Claimable(j)
        /\ \A k \in Jobs : k < j => ~ Claimable(k)
        /\ status'  = [status EXCEPT ![j] = ClaimStatus(j)]
        /\ owner'   = [owner EXCEPT ![j] = w]
        /\ lease'   = [lease EXCEPT ![j] = LeaseTicks]
        /\ attempt' = [attempt EXCEPT ![j] = @ + 1]
        /\ Enter(w, j, ClaimStatus(j))
    /\ UNCHANGED <<stage, retryIn, cancel, fp, arts, engine>>

(* claim_next_job / claim_job: the oldest claimable row.                   *)
ClaimNextJob(w) ==
    /\ engine = "up" /\ pc[w] = "idle"
    /\ \E j \in Jobs :
        /\ Claimable(j)
        /\ \A k \in Jobs : k < j => ~ Claimable(k)
        /\ status'  = [status EXCEPT ![j] = ClaimStatus(j)]
        /\ stage'   = [stage EXCEPT ![j] = ClaimStatus(j)]
        /\ owner'   = [owner EXCEPT ![j] = w]
        /\ lease'   = [lease EXCEPT ![j] = LeaseTicks]
        /\ attempt' = [attempt EXCEPT ![j] = @ + 1]
        /\ Enter(w, j, ClaimStatus(j))
    /\ UNCHANGED <<retryIn, cancel, fp, arts, engine>>

(* Mutant: any live lease will do.                                         *)
HasLease_AnyOwner(w, j) == lease[j] # None /\ lease[j] > 0

HasLease(w, j) == owner[j] = w /\ lease[j] # None /\ lease[j] > 0

(* _heartbeat_lease: a renewal of a live lease; the first that finds the   *)
(* lease lost ends the task.                                               *)
RenewLease(w) ==
    /\ pc[w] = "run" /\ beat[w]
    /\ IF HasLease(w, held[w])
         THEN lease' = [lease EXCEPT ![held[w]] = LeaseTicks] /\ UNCHANGED beat
         ELSE beat' = [beat EXCEPT ![w] = FALSE] /\ UNCHANGED lease
    /\ UNCHANGED <<status, stage, owner, attempt, retryIn, cancel, fp, arts,
                   engine, pc, held, view, out>>

(* The handler returns, the heartbeat is reaped, the row is refreshed.     *)
HandlerReturns(w) ==
    /\ pc[w] = "run"
    /\ \E o \in HandlerOutcomes(view[w], arts[held[w]], cancel[held[w]]) :
         out' = [out EXCEPT ![w] = o]
    /\ pc'   = [pc EXCEPT ![w] = "commit"]
    /\ view' = [view EXCEPT ![w] = status[held[w]]]
    /\ beat' = [beat EXCEPT ![w] = FALSE]
    /\ UNCHANGED <<row, engine, held>>

(* Mutant: the compare-and-swap forgets the expiry.                        *)
OwnsRow_Expired(w) == status[held[w]] = view[w] /\ owner[held[w]] = w

(* The compare-and-swap of advance_job, commit_artifact_and_advance,       *)
(* mark_failure and mark_cancelled: status as loaded, own lease, alive.    *)
OwnsRow(w) == status[held[w]] = view[w] /\ HasLease(w, held[w])

(* Mutant: the park swallows a pending cancellation.                       *)
Target_Swallow(w) == out[w].to

(* advance_job and commit_artifact_and_advance: a park consumes a pending  *)
(* cancellation; a registered artifact is kept as it is.                   *)
Target(w) ==
    IF out[w].to = "waiting_for_model" /\ cancel[held[w]]
      THEN "cancelled" ELSE out[w].to

CommitAdvance(w) ==
    LET j == held[w]
        t == Target(w)
        releases == t \in Terminal \cup {"waiting_for_model"}
    IN  /\ pc[w] = "commit" /\ out[w].kind = "success"
        /\ Allowed(view[w], out[w].to)
        /\ OwnsRow(w)
        /\ status' = [status EXCEPT ![j] = t]
        /\ stage'  = [stage EXCEPT ![j] = IF t \in RunningStates THEN t ELSE @]
        /\ owner'  = [owner EXCEPT ![j] = IF releases THEN None ELSE @]
        /\ lease'  = [lease EXCEPT ![j] = IF releases THEN None ELSE LeaseTicks]
        /\ arts'   = [arts EXCEPT ![j] = @ \cup ({out[w].art} \ {"nothing"})]
        /\ IF releases THEN Leave(w) ELSE Enter(w, j, t)
        /\ UNCHANGED <<attempt, retryIn, cancel, fp, engine>>

(* mark_failure: retry_wait or failed, by the outcome alone.               *)
CommitFailure(w) ==
    LET j == held[w]
    IN  /\ pc[w] = "commit" /\ out[w].kind \in {"transient", "fatal"}
        /\ Allowed(view[w], out[w].to)
        /\ OwnsRow(w)
        /\ status'  = [status EXCEPT ![j] = out[w].to]
        /\ retryIn' = [retryIn EXCEPT ![j] =
                          IF out[w].kind = "transient" THEN RetryTicks ELSE None]
        /\ owner'   = [owner EXCEPT ![j] = None]
        /\ lease'   = [lease EXCEPT ![j] = None]
        /\ Leave(w)
        /\ UNCHANGED <<stage, attempt, cancel, fp, arts, engine>>

(* mark_cancelled bypasses the transition table.                           *)
CommitCancelled(w) ==
    LET j == held[w]
    IN  /\ pc[w] = "commit" /\ out[w].kind = "cancelled"
        /\ OwnsRow(w)
        /\ status' = [status EXCEPT ![j] = "cancelled"]
        /\ owner'  = [owner EXCEPT ![j] = None]
        /\ lease'  = [lease EXCEPT ![j] = None]
        /\ Leave(w)
        /\ UNCHANGED <<stage, attempt, retryIn, cancel, fp, arts, engine>>

(* Mutant: the artifact is committed before the row's compare-and-swap.    *)
CommitFails_KeepsArtifact(w) ==
    /\ pc[w] = "commit"
    /\ Leave(w)
    /\ arts' = [arts EXCEPT ![held[w]] = @ \cup ({out[w].art} \ {"nothing"})]
    /\ UNCHANGED <<status, stage, owner, lease, attempt, retryIn, cancel, fp, engine>>

(* LeaseLostError, TransitionError or a busy database: nothing is written  *)
(* and the worker loop goes on to its next claim.                          *)
CommitFails(w) ==
    /\ pc[w] = "commit"
    /\ Leave(w)
    /\ UNCHANGED <<row, engine>>

--------------------------------------------------------------------------------
(* The process: crash or shutdown, and the startup sequence of the         *)
(* lifespan, which runs before the API serves and the worker starts.       *)

Crash ==
    /\ engine # "down"
    /\ engine' = "down"
    /\ pc'   = [w \in Workers |-> "idle"]
    /\ held' = [w \in Workers |-> None]
    /\ view' = [w \in Workers |-> None]
    /\ out'  = [w \in Workers |-> None]
    /\ beat' = [w \in Workers |-> FALSE]
    /\ UNCHANGED row

Start ==
    /\ engine = "down"
    /\ engine' = "recover"
    /\ UNCHANGED <<row, local>>

RecoverStaleJobs ==
    LET stale == {j \in Jobs : lease[j] = 0 /\ status[j] \notin Terminal}
    IN  /\ engine = "recover" /\ engine' = "fail"
        /\ owner' = [j \in Jobs |-> IF j \in stale THEN None ELSE owner[j]]
        /\ lease' = [j \in Jobs |-> IF j \in stale THEN None ELSE lease[j]]
        /\ UNCHANGED <<status, stage, attempt, retryIn, cancel, fp, arts, local>>

(* Mutant: the sweep looks at the attempts only.                           *)
FailExhaustedRetries_AnyStatus ==
    LET spent == {j \in Jobs : attempt[j] >= MaxAttempts}
    IN  /\ engine = "fail" /\ engine' = "land"
        /\ status'  = [j \in Jobs |-> IF j \in spent THEN "failed" ELSE status[j]]
        /\ owner'   = [j \in Jobs |-> IF j \in spent THEN None ELSE owner[j]]
        /\ lease'   = [j \in Jobs |-> IF j \in spent THEN None ELSE lease[j]]
        /\ retryIn' = [j \in Jobs |-> IF j \in spent THEN None ELSE retryIn[j]]
        /\ UNCHANGED <<stage, attempt, cancel, fp, arts, local>>

FailExhaustedRetries ==
    LET spent == {j \in Jobs : /\ status[j] \in RunningStates \cup {"retry_wait"}
                               /\ attempt[j] >= MaxAttempts}
    IN  /\ engine = "fail" /\ engine' = "land"
        /\ status'  = [j \in Jobs |-> IF j \in spent THEN "failed" ELSE status[j]]
        /\ owner'   = [j \in Jobs |-> IF j \in spent THEN None ELSE owner[j]]
        /\ lease'   = [j \in Jobs |-> IF j \in spent THEN None ELSE lease[j]]
        /\ retryIn' = [j \in Jobs |-> IF j \in spent THEN None ELSE retryIn[j]]
        /\ UNCHANGED <<stage, attempt, cancel, fp, arts, local>>

LandDanglingCancellations ==
    LET dangling == {j \in Jobs : status[j] = "waiting_for_model" /\ cancel[j]}
    IN  /\ engine = "land" /\ engine' = "reconcile"
        /\ status' = [j \in Jobs |-> IF j \in dangling THEN "cancelled" ELSE status[j]]
        /\ owner'  = [j \in Jobs |-> IF j \in dangling THEN None ELSE owner[j]]
        /\ lease'  = [j \in Jobs |-> IF j \in dangling THEN None ELSE lease[j]]
        /\ UNCHANGED <<stage, attempt, retryIn, cancel, fp, arts, local>>

ReconcileWaiting ==
    /\ engine = "reconcile" /\ engine' = "up"
    /\ \E S \in SUBSET {j \in Jobs : Resumable(j)} : ResumeRows(S)
    /\ UNCHANGED local

Startup == \/ Start
           \/ RecoverStaleJobs
           \/ FailExhaustedRetries
           \/ LandDanglingCancellations
           \/ ReconcileWaiting

(* One unit of time passes for every running timer.                        *)
Down(t) == IF t = None \/ t = 0 THEN t ELSE t - 1

Tick ==
    /\ \E j \in Jobs : Down(lease[j]) # lease[j] \/ Down(retryIn[j]) # retryIn[j]
    /\ lease'   = [j \in Jobs |-> Down(lease[j])]
    /\ retryIn' = [j \in Jobs |-> Down(retryIn[j])]
    /\ UNCHANGED <<status, stage, owner, attempt, cancel, fp, arts, engine, local>>

--------------------------------------------------------------------------------
Commit(w) == \/ CommitAdvance(w)
             \/ CommitFailure(w)
             \/ CommitCancelled(w)
             \/ CommitFails(w)

WorkerStep(w) == \/ ClaimNextJob(w)
                 \/ RenewLease(w)
                 \/ HandlerReturns(w)
                 \/ Commit(w)

(* Every step but the end of the process.                                  *)
Step == \/ \E f \in Fingerprints : SubmitVideo(f)
        \/ \E j \in Jobs : RequestCancellation(j)
        \/ ResumeWaitingJobs
        \/ \E w \in Workers : WorkerStep(w)
        \/ Startup
        \/ Tick

Next == Step \/ Crash

(* An idle worker polls, every handler returns (its external calls time    *)
(* out), a stage commit is carried out or given up, and time passes.  No   *)
(* fairness for users, installs, restarts or the heartbeat.                *)
Fairness ==
    /\ WF_vars(Tick)
    /\ \A w \in Workers : /\ WF_vars(ClaimNextJob(w))
                          /\ WF_vars(HandlerReturns(w))
                          /\ WF_vars(Commit(w))

Spec == Init /\ [][Next]_vars /\ Fairness

--------------------------------------------------------------------------------
(* Properties.                                                             *)

(* Type invariant of the job table, the artifact table and the worker's    *)
(* local state.                                                            *)
TypeOK ==
    /\ status  \in [Jobs -> JobStatus \cup {"absent"}]
    /\ stage   \in [Jobs -> RunningStates \cup {None}]
    /\ owner   \in [Jobs -> Workers \cup {None}]
    /\ lease   \in [Jobs -> 0 .. LeaseTicks \cup {None}]
    /\ attempt \in [Jobs -> 0 .. MaxAttempts]
    /\ retryIn \in [Jobs -> 0 .. RetryTicks \cup {None}]
    /\ cancel  \in [Jobs -> BOOLEAN]
    /\ fp      \in [Jobs -> Fingerprints \cup {None}]
    /\ arts    \in [Jobs -> SUBSET ArtifactTypes]
    /\ engine  \in Starting \cup {"down", "up"}
    /\ pc      \in [Workers -> {"idle", "run", "commit"}]
    /\ held    \in [Workers -> Jobs \cup {None}]
    /\ view    \in [Workers -> JobStatus \cup {None}]
    /\ out     \in [Workers -> Outcomes \cup {None}]
    /\ beat    \in [Workers -> BOOLEAN]

(* Only a running row is leased: whatever ends or suspends a run (failure, *)
(* retry, park, cancellation by user or worker, recovery) also releases    *)
(* the lease, and owner and expiry are set and cleared together.           *)
LeaseOnlyWhileRunning ==
    \A j \in Jobs : /\ owner[j] # None <=> lease[j] # None
                    /\ owner[j] # None => status[j] \in RunningStates

(* The stage column always names the stage a resumed, retried or re-claimed*)
(* row will run: a retry_wait row remembers a stage, a parked row          *)
(* transcribing, a running row its own status.                             *)
StageNamesNextRun ==
    \A j \in Jobs :
        /\ status[j] \in RunningStates => stage[j] = status[j]
        /\ status[j] = "retry_wait" => stage[j] # None /\ retryIn[j] # None
        /\ status[j] = "waiting_for_model" => stage[j] = "transcribing"

(* A cancellation is never swallowed by the park of advance_job: no row    *)
(* waits for a model with a cancellation pending.                          *)
NoCancelledPark ==
    \A j \in Jobs : status[j] = "waiting_for_model" => ~ cancel[j]

(* The registered artifacts are exactly those of the stages already        *)
(* committed, whatever crashes, lost leases and retries lie between: no    *)
(* artifact without its advance and no advance without its artifact.  The  *)
(* audio is present on the ASR path only.                                  *)
TextArtifacts(s) ==
    CASE s = "fetching_metadata" -> {}
      [] s \in {"fetching_subtitles", "downloading_audio", "transcribing"} ->
            {"video_metadata"}
      [] s = "cleaning_transcript" -> {"video_metadata", "platform_transcript"}
      [] s = "chunking" ->
            {"video_metadata", "platform_transcript", "cleaned_transcript"}
      [] s = "summarizing_chunks" ->
            {"video_metadata", "platform_transcript", "cleaned_transcript", "chunks"}
      [] s = "generating_report" -> ArtifactTypes \ {"audio", "report"}
      [] OTHER -> ArtifactTypes \ {"audio"}

ArtifactsOfStage(s, a) ==
    /\ a \ {"audio"} = TextArtifacts(s)
    /\ s \in {"fetching_metadata", "fetching_subtitles", "downloading_audio"}
         => "audio" \notin a
    /\ s = "transcribing" => "audio" \in a

ArtifactsMatchStage ==
    \A j \in Jobs :
        /\ status[j] \in {"absent", "queued"} => arts[j] = {}
        /\ status[j] \in RunningStates \cup {"retry_wait", "waiting_for_model"}
             => ArtifactsOfStage(stage[j], arts[j])
        /\ status[j] = "completed" => ArtifactsOfStage("completed", arts[j])

(* The worker that still owns a row finds it in the very stage it ran,     *)
(* with an outcome that the transition table admits and an artifact not    *)
(* yet registered: the stage commit raises no TransitionError and its      *)
(* "existing artifact is a no-op" branch never drops fresh content.        *)
OwnerCommitsItsStage ==
    \A w \in Workers :
        pc[w] = "commit" /\ HasLease(w, held[w]) =>
            /\ view[w] = status[held[w]]
            /\ out[w].kind # "cancelled" => Allowed(view[w], out[w].to)
            /\ out[w].art \notin arts[held[w]]

(* The IMMEDIATE transaction of submit_video admits one active job per     *)
(* request: nothing that happens later revives a finished job beside it.   *)
OneActiveJobPerRequest ==
    \A i, j \in Jobs :
        /\ Exists(i) /\ status[i] \notin Terminal
        /\ Exists(j) /\ status[j] \notin Terminal
        /\ fp[i] = fp[j]
        => i = j

(* completed, failed and cancelled are final: no late commit of a worker   *)
(* that lost its lease, resume or recovery sweep leaves them or touches    *)
(* the row's stage, attempts and artifacts.                                *)
TerminalIsFinal ==
    [][\A j \in Jobs : status[j] \in Terminal =>
          /\ status'[j] = status[j] /\ stage'[j] = stage[j]
          /\ attempt'[j] = attempt[j] /\ arts'[j] = arts[j]
          /\ owner'[j] = None]_vars

(* A running row changes status only through the worker that ran that      *)
(* very stage and holds a live lease on it, or through the exhausted sweep *)
(* of a starting engine.                                                   *)
OnlyLiveOwnerMovesRow ==
    [][\A j \in Jobs :
          status[j] \in RunningStates /\ status'[j] # status[j] =>
            \/ engine = "fail" /\ attempt[j] >= MaxAttempts
            \/ \E w \in Workers : /\ pc[w] = "commit" /\ held[w] = j
                                  /\ view[w] = status[j] /\ HasLease(w, j)]_vars

(* With the engine up for good, no claimable job starves: behind older     *)
(* jobs that fail, expire, park and resume it is claimed in the end,       *)
(* because every claim spends one of finitely many attempts.               *)
NoStarvation ==
    <>[](engine = "up") => \A j \in Jobs : Claimable(j) ~> ~ Claimable(j)

(* docs/JOB_STATE_MACHINE.md: past the attempt limit a transient error     *)
(* ends in failed, and waiting for a model costs no retry.  So of a        *)
(* running engine, without a restart: a job whose attempts are spent and   *)
(* that nobody runs does not stay that way.                                *)
SpentJobEnds ==
    <>[](engine = "up") =>
        \A j \in Jobs :
            (/\ status[j] \in RunningStates \cup {"retry_wait"}
             /\ attempt[j] >= MaxAttempts /\ owner[j] = None)
            ~> status[j] \in Terminal

(* The refinement mapping to JobLifecycle.                                 *)
Phase(s) ==
    CASE s \in RunningStates           -> "active"
      [] s \in {"queued", "retry_wait"} -> "pending"
      [] s = "waiting_for_model"       -> "parked"
      [] OTHER                         -> s

Rank(s) ==
    CASE s = "fetching_metadata"   -> 1
      [] s = "fetching_subtitles"  -> 2
      [] s = "downloading_audio"   -> 3
      [] s = "transcribing"        -> 4
      [] s = "cleaning_transcript" -> 5
      [] s = "chunking"            -> 6
      [] s = "summarizing_chunks"  -> 7
      [] s = "generating_report"   -> 8
      [] s = "indexing"            -> 9
      [] OTHER                     -> 0

Lifecycle == INSTANCE JobLifecycle WITH
    AsrStage <- 4, LastStage <- 9,
    phase    <- [j \in Jobs |-> Phase(status[j])],
    progress <- [j \in Jobs |-> Rank(stage[j])],
    asked    <- cancel

(* The lease protocol implements JobLifecycle: through crashes, expired    *)
(* leases, retries and sweeps each job only moves as JobLifecycle allows.  *)
ImplementsLifecycle == Lifecycle!LCSpec
================================================================================
