----------------------------- MODULE ModelParking ------------------------------
(***************************************************************************)
(* Jobs that wait for a speech model: the transcribing stage parks them    *)
(* (runtime/handlers.py, TranscribingHandler), and the reconciliation run  *)
(* after an install, after a settings save and once at startup resumes     *)
(* them (asr/service.py, reconcile_waiting_asr_jobs).                      *)
(*                                                                         *)
(* The worker decides on what it read two transactions ago, and the        *)
(* reconciliation on the snapshot its session opened first.  Leases and    *)
(* attempts are JobQueue's subject: the one worker of the engine keeps the *)
(* job it claimed until it commits or the process ends.                    *)
(***************************************************************************)
EXTENDS ModelStore, Sequences

CONSTANTS
    Jobs,         \* jobs that reached the transcribing stage
    Preferred,    \* route_asr: the compatible models in order of preference
    Recommended   \* route_asr: the model to wait for if none is ready

ASSUME RouteAssumption ==
    /\ Recommended \in Models
    /\ Preferred \in Seq(Models)
ASSUME JobsAssumption == None \notin Jobs
ASSUME RolesAssumption == {"settings", "startup"} \cap Models = {}

Decisions == [model : Models, ready : BOOLEAN]
Reconcilers == Models \cup {"settings", "startup"}

VARIABLES
    status,   \* "transcribing", "waiting", "cancelled", "left" (later or failed)
    rec,      \* asr_recommendation_model_id
    pin,      \* asr_provider_id and asr_model_id, once routed
    cancel,   \* cancel_requested_at
    wpc,      \* the worker's control state,
    wjob,     \*   its job,
    wreg,     \*   the registry as _provider_options read it,
    wdec,     \*   the RoutingDecision
    rpc,      \* reconciliation: control state,
    rcli,     \*   the CLI setting in its session's snapshot,
    rtodo,    \*   the waiting model ids in the snapshot still to visit,
    rinst,    \*   those with an install row in the snapshot, None once closed,
    rmodel    \*   the model whose jobs it is about to resume

table    == <<status, rec, pin, cancel>>
worker   == <<wpc, wjob, wreg, wdec>>
reconc   == <<rpc, rcli, rtodo, rinst, rmodel>>
parkVars == <<table, worker, reconc>>
vars     == <<storeVars, parkVars>>

ParkInit ==
    /\ status = [j \in Jobs |-> "transcribing"]
    /\ rec    = [j \in Jobs |-> None]
    /\ pin    = [j \in Jobs |-> None]
    /\ cancel = [j \in Jobs |-> FALSE]
    /\ wpc = "idle" /\ wjob = None /\ wreg = {} /\ wdec = None
    /\ rpc    = [r \in Reconcilers |-> "none"]
    /\ rcli   = [r \in Reconcilers |-> FALSE]
    /\ rtodo  = [r \in Reconcilers |-> {}]
    /\ rinst  = [r \in Reconcilers |-> None]
    /\ rmodel = [r \in Reconcilers |-> None]

--------------------------------------------------------------------------------
(* The worker and TranscribingHandler.execute.                             *)

LoadSettings == wpc = "idle" /\ WorkerLoad /\ UNCHANGED parkVars

WorkerReady ==
    /\ wpc = "idle" /\ WorkerRefresh
    /\ wpc' = "ready"
    /\ UNCHANGED <<table, reconc, wjob, wreg, wdec>>

Claim(j) ==
    /\ wpc = "ready" /\ status[j] = "transcribing"
    /\ wpc' = "route" /\ wjob' = j
    /\ UNCHANGED <<storeVars, table, reconc, wreg, wdec>>

NothingToClaim ==
    /\ wpc = "ready" /\ \A j \in Jobs : status[j] # "transcribing"
    /\ wpc' = "idle"
    /\ UNCHANGED <<storeVars, table, reconc, wjob, wreg, wdec>>

(* _provider_options: first the registry, ...                              *)
RouteRegistry ==
    /\ wpc = "route"
    /\ wreg' = registered
    /\ wpc' = "rows"
    /\ UNCHANGED <<storeVars, table, reconc, wjob, wdec>>

(* Mutant: every run routes afresh.                                        *)
Route_Afresh(pinned, ready) ==
    LET choices == {i \in DOMAIN Preferred : Preferred[i] \in ready}
    IN  IF choices = {} THEN Recommended
        ELSE Preferred[CHOOSE i \in choices : \A k \in choices : i <= k]

(* route_asr: a pinned job keeps its provider; otherwise the first         *)
(* preferred model that is ready, else the recommendation.                 *)
Route(pinned, ready) ==
    LET choices == {i \in DOMAIN Preferred : Preferred[i] \in ready}
    IN  IF pinned # None THEN pinned
        ELSE IF choices = {} THEN Recommended
        ELSE Preferred[CHOOSE i \in choices : \A k \in choices : i <= k]

(* ... then the install rows, which complete the decision.                 *)
RouteRows ==
    LET m == Route(pin[wjob], wreg \cap installed)
    IN  /\ wpc = "rows"
        /\ wdec' = [model |-> m, ready |-> m \in wreg \cap installed]
        /\ wpc' = "pin" /\ wreg' = {}
        /\ UNCHANGED <<storeVars, table, reconc, wjob>>

(* Mutant: the stock recommendation is stored, not the decision's model.   *)
PinRoute_Stock ==
    /\ wpc = "pin"
    /\ pin' = [pin EXCEPT ![wjob] = wdec.model]
    /\ rec' = [rec EXCEPT ![wjob] = IF wdec.ready THEN None ELSE Recommended]
    /\ wpc' = IF wdec.ready THEN "lookup" ELSE "park"
    /\ UNCHANGED <<storeVars, status, cancel, reconc, wjob, wreg, wdec>>

(* pin_job_asr_route, then the test of decision.installed.                 *)
PinRoute ==
    /\ wpc = "pin"
    /\ pin' = [pin EXCEPT ![wjob] = wdec.model]
    /\ rec' = [rec EXCEPT ![wjob] = IF wdec.ready THEN None ELSE wdec.model]
    /\ wpc' = IF wdec.ready THEN "lookup" ELSE "park"
    /\ UNCHANGED <<storeVars, status, cancel, reconc, wjob, wreg, wdec>>

(* get_provider: the registry may have changed since it was read.          *)
LookupProvider ==
    /\ wpc = "lookup"
    /\ wpc' = IF wdec.model \in registered THEN "asr" ELSE "park"
    /\ UNCHANGED <<storeVars, table, reconc, wjob, wreg, wdec>>

WorkerDone == wpc' = "idle" /\ wjob' = None /\ wreg' = {} /\ wdec' = None

(* advance_job to waiting_for_model: a pending cancellation wins.          *)
Park ==
    /\ wpc = "park"
    /\ status' = [status EXCEPT ![wjob] = IF cancel[wjob] THEN "cancelled" ELSE "waiting"]
    /\ WorkerDone
    /\ UNCHANGED <<storeVars, rec, pin, cancel, reconc>>

(* The transcription succeeds or fails for good, is interrupted by a       *)
(* cancellation, or meets a transient error and will be claimed again.     *)
Transcribed ==
    /\ wpc = "asr"
    /\ \E s \in {"left", "transcribing"} \cup (IF cancel[wjob] THEN {"cancelled"} ELSE {}) :
         status' = [status EXCEPT ![wjob] = s]
    /\ WorkerDone
    /\ UNCHANGED <<storeVars, rec, pin, cancel, reconc>>

RequestCancellation(j) ==
    /\ engine = "up" /\ status[j] \in {"transcribing", "waiting"}
    /\ cancel' = [cancel EXCEPT ![j] = TRUE]
    /\ status' = [status EXCEPT ![j] = IF @ = "waiting" THEN "cancelled" ELSE @]
    /\ UNCHANGED <<storeVars, rec, pin, worker, reconc>>

--------------------------------------------------------------------------------
(* reconcile_waiting_asr_jobs.                                             *)

(* get_app_settings opens the session's snapshot, which                    *)
(* list_waiting_model_ids and the first get_installations also read.       *)
ReconcileRead(r) ==
    LET waiting == {rec[j] : j \in {k \in Jobs : status[k] = "waiting"}} \ {None}
    IN  /\ rpc[r] = "read"
        /\ rpc'   = [rpc EXCEPT ![r] = "register"]
        /\ rcli'  = [rcli EXCEPT ![r] = cli]
        /\ rtodo' = [rtodo EXCEPT ![r] = waiting]
        /\ rinst' = [rinst EXCEPT ![r] = waiting \cap installed]
        /\ UNCHANGED <<storeVars, table, worker, rmodel>>

ReconcileRegister(r) ==
    /\ rpc[r] = "register"
    /\ Refresh(r # "startup", rcli[r])
    /\ rpc'  = [rpc EXCEPT ![r] = "loop"]
    /\ rcli' = [rcli EXCEPT ![r] = FALSE]
    /\ UNCHANGED <<rows, files, cli, wcli, engine, ipc, uninst, table, worker, rtodo, rinst,
                   rmodel>>

(* Both gates: an install row in the snapshot (a new one once a resume has *)
(* closed it) and a registered provider.                                   *)
ReconcileCheck(r, m) ==
    LET inst == IF rinst[r] = None THEN installed ELSE rinst[r]
    IN  /\ rpc[r] = "loop" /\ m \in rtodo[r]
        /\ rtodo' = [rtodo EXCEPT ![r] = @ \ {m}]
        /\ IF m \in inst /\ m \in registered
             THEN /\ rpc' = [rpc EXCEPT ![r] = "resume"]
                  /\ rmodel' = [rmodel EXCEPT ![r] = m]
             ELSE UNCHANGED <<rpc, rmodel>>
        /\ UNCHANGED <<storeVars, table, worker, rcli, rinst>>

(* resume_waiting_jobs.                                                    *)
ReconcileResume(r) ==
    LET woken == {j \in Jobs : /\ status[j] = "waiting" /\ ~ cancel[j]
                               /\ rec[j] = rmodel[r]}
    IN  /\ rpc[r] = "resume"
        /\ status' = [j \in Jobs |-> IF j \in woken THEN "transcribing" ELSE status[j]]
        /\ rec'    = [j \in Jobs |-> IF j \in woken THEN None ELSE rec[j]]
        /\ rpc'    = [rpc EXCEPT ![r] = "loop"]
        /\ rinst'  = [rinst EXCEPT ![r] = None]
        /\ rmodel' = [rmodel EXCEPT ![r] = None]
        /\ UNCHANGED <<storeVars, pin, cancel, worker, rcli, rtodo>>

(* The caller goes on: the install task ends, the settings response is     *)
(* sent, the engine serves.                                                *)
ReconcileOver(r) ==
    /\ rpc'    = [rpc EXCEPT ![r] = "none"]
    /\ rcli'   = [rcli EXCEPT ![r] = FALSE]
    /\ rtodo'  = [rtodo EXCEPT ![r] = {}]
    /\ rinst'  = [rinst EXCEPT ![r] = None]
    /\ rmodel' = [rmodel EXCEPT ![r] = None]
    /\ ipc'    = [m \in Models |-> IF m = r THEN "none" ELSE ipc[m]]
    /\ UNCHANGED <<rows, files, cli, memory, uninst, table, worker>>

ReconcileEnd(r) ==
    /\ rpc[r] = "loop" /\ rtodo[r] = {}
    /\ engine' = IF r = "startup" THEN "up" ELSE engine
    /\ ReconcileOver(r)

(* A database error: the install task logs it and ends, the settings       *)
(* request fails.  (At startup it ends the process: see Crash.)            *)
ReconcileFails(r) ==
    /\ r # "startup" /\ rpc[r] \in {"read", "register", "loop", "resume"}
    /\ ReconcileOver(r)
    /\ UNCHANGED engine

--------------------------------------------------------------------------------
(* The store's steps, with what they mean for the jobs.                    *)

(* An install that ends well goes on to reconcile.                         *)
StoreInstall(m) ==
    /\ Install(m)
    /\ rpc' = [rpc EXCEPT ![m] = IF ipc'[m] = "recorded" THEN "read" ELSE @]
    /\ UNCHANGED <<table, worker, rcli, rtodo, rinst, rmodel>>

StoreUninstall(c) == Uninstall(c) /\ UNCHANGED parkVars

SaveSettings(b) ==
    /\ rpc["settings"] = "none"
    /\ SaveCli(b)
    /\ rpc' = [rpc EXCEPT !["settings"] = "read"]
    /\ UNCHANGED <<table, worker, rcli, rtodo, rinst, rmodel>>

EngineStart == Start /\ UNCHANGED parkVars

(* Mutant: the startup does not reconcile.                                 *)
EngineCleanup_NoReconcile ==
    /\ CleanupTrash
    /\ status' = [j \in Jobs |-> IF status[j] = "waiting" /\ cancel[j]
                                   THEN "cancelled" ELSE status[j]]
    /\ rpc' = [rpc EXCEPT !["startup"] = "loop"]
    /\ UNCHANGED <<rec, pin, cancel, worker, rcli, rtodo, rinst, rmodel>>

(* cleanup_trash, then recover_on_startup (of which the dangling           *)
(* cancellations matter here), then the reconciliation.                    *)
EngineCleanup ==
    /\ CleanupTrash
    /\ status' = [j \in Jobs |-> IF status[j] = "waiting" /\ cancel[j]
                                   THEN "cancelled" ELSE status[j]]
    /\ rpc' = [rpc EXCEPT !["startup"] = "read"]
    /\ UNCHANGED <<rec, pin, cancel, worker, rcli, rtodo, rinst, rmodel>>

EngineCrash ==
    /\ Crash
    /\ wpc' = "idle" /\ wjob' = None /\ wreg' = {} /\ wdec' = None
    /\ rpc'    = [r \in Reconcilers |-> "none"]
    /\ rcli'   = [r \in Reconcilers |-> FALSE]
    /\ rtodo'  = [r \in Reconcilers |-> {}]
    /\ rinst'  = [r \in Reconcilers |-> None]
    /\ rmodel' = [r \in Reconcilers |-> None]
    /\ UNCHANGED table

--------------------------------------------------------------------------------
WorkerStep == \/ LoadSettings \/ WorkerReady \/ NothingToClaim
              \/ \E j \in Jobs : Claim(j)
              \/ RouteRegistry \/ RouteRows \/ PinRoute \/ LookupProvider
              \/ Park \/ Transcribed

ReconcileStep(r) == \/ ReconcileRead(r)
                    \/ ReconcileRegister(r)
                    \/ \E m \in Models : ReconcileCheck(r, m)
                    \/ ReconcileResume(r)
                    \/ ReconcileEnd(r)

Init == StoreInit /\ ParkInit

(* Every step but a database error during a reconciliation.                *)
Step == \/ WorkerStep
        \/ \E j \in Jobs : RequestCancellation(j)
        \/ \E r \in Reconcilers : ReconcileStep(r)
        \/ \E m \in Models : StoreInstall(m)
        \/ \E c \in Callers : StoreUninstall(c)
        \/ \E b \in BOOLEAN : SaveSettings(b)
        \/ EngineStart \/ EngineCleanup \/ EngineCrash

Next == Step \/ \E r \in Reconcilers : ReconcileFails(r)

Spec == Init /\ [][Next]_vars

--------------------------------------------------------------------------------
(* Properties.                                                             *)

(* Type invariant of the job columns and of the worker's and the           *)
(* reconciliations' local state; an install task reconciles once recorded. *)
TypeOK ==
    /\ StoreTypeOK
    /\ status \in [Jobs -> {"transcribing", "waiting", "cancelled", "left"}]
    /\ rec \in [Jobs -> Models \cup {None}]
    /\ pin \in [Jobs -> Models \cup {None}]
    /\ cancel \in [Jobs -> BOOLEAN]
    /\ wpc \in {"idle", "ready", "route", "rows", "pin", "lookup", "park", "asr"}
    /\ wjob \in Jobs \cup {None} /\ wreg \subseteq Models
    /\ wpc \in {"idle", "ready"} <=> wjob = None
    /\ wpc \in {"pin", "lookup", "park", "asr"} => wdec \in Decisions
    /\ rpc \in [Reconcilers -> {"none", "read", "register", "loop", "resume"}]
    /\ rcli \in [Reconcilers -> BOOLEAN]
    /\ rtodo \in [Reconcilers -> SUBSET Models]
    /\ rinst \in [Reconcilers -> (SUBSET Models) \cup {None}]
    /\ rmodel \in [Reconcilers -> Models \cup {None}]
    /\ \A r \in Reconcilers : rpc[r] = "resume" <=> rmodel[r] # None
    /\ \A m \in Models : ipc[m] = "recorded" <=> rpc[m] # "none"

(* job.asr_provider_id: once routed, a job stays on its model through      *)
(* parks, resumes, retries and crashes, so that checkpointed segments of   *)
(* two models are never joined.                                            *)
PinIsKept == [][\A j \in Jobs : pin[j] # None => pin'[j] = pin[j]]_vars

(* A recommendation names the model the job is pinned to, so the resume    *)
(* that matches on it wakes exactly the jobs the install is for.           *)
RecommendationIsPinned ==
    \A j \in Jobs : /\ rec[j] # None => rec[j] = pin[j]
                    /\ status[j] = "waiting" => pin[j] # None

(* A reconciliation has registered m and will look it up, when a refresh   *)
(* on a setting read before a save, the worker's or another                *)
(* reconciliation's, is about to take the registration back.               *)
TakesBack(m) ==
    /\ \E r \in Reconcilers : rpc[r] = "loop" /\ m \in rtodo[r]
    /\ \/ wcli # None /\ m \notin Usable(wcli)
       \/ \E q \in Reconcilers : rpc[q] = "register" /\ m \notin Usable(rcli[q])

(* reconcile_waiting_asr_jobs covers an install, a settings save and, at   *)
(* every start, the crash window before them: once such an event is to be  *)
(* reconciled, a job waiting for a recorded and usable model goes on,      *)
(* unless the model fails to load, somebody uninstalls it, the engine dies *)
(* or a refresh on a stale setting falls between the registration and the  *)
(* look-up.                                                                *)
ReconcileResumes ==
    \A m \in Models, j \in Jobs :
        (/\ status[j] = "waiting" /\ rec[j] = m
         /\ m \in installed \cap Usable(cli)
         /\ engine = "started" \/ \E r \in Reconcilers : rpc[r] = "read")
        ~> (\/ status[j] # "waiting" \/ rec[j] # m
            \/ m \in bad \/ engine = "down"
            \/ m \notin installed \cap Usable(cli) \/ Uninstalling(m) \/ TakesBack(m))

(* application/queue_blockers.py tells the user of a waiting job: install  *)
(* the model, "the task continues by itself once installed".  The job is   *)
(* pinned to the model it waits for.                                       *)
WaitingResumes ==
    \A m \in Models, j \in Jobs :
        (status[j] = "waiting" /\ pin[j] = m /\ m \in installed \cap registered)
        ~> (status[j] # "waiting" \/ m \notin installed \cap registered)
================================================================================
