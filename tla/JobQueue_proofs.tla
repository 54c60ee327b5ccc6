---------------------------- MODULE JobQueue_proofs ----------------------------
(***************************************************************************)
(* Proofs about JobQueue, for every number of jobs, workers, attempts and  *)
(* lease and retry delays.                                                 *)
(***************************************************************************)
EXTENDS JobQueue, TLAPS

(* Workers act only in an engine that is up; a worker in a handler runs a  *)
(* running stage; a worker about to commit has an outcome.                 *)
WorkerShape ==
    \A w \in Workers :
        pc[w] # "idle" =>
            /\ engine = "up"
            /\ held[w] \in Jobs /\ Exists(held[w])
            /\ view[w] \in JobStatus
            /\ pc[w] = "run" => view[w] \in RunningStates
            /\ pc[w] = "commit" => out[w] \in Outcomes

(* As long as the row names the worker, whether or not the lease is alive, *)
(* nobody else has moved it: the worker's view is the row's status, and    *)
(* its outcome is one that the handler returns on the row as it is now.    *)
OwnerView ==
    \A w \in Workers :
        pc[w] # "idle" /\ owner[held[w]] = w =>
            /\ view[w] = status[held[w]]
            /\ pc[w] = "commit" =>
                 out[w] \in HandlerOutcomes(view[w], arts[held[w]], cancel[held[w]])

(* The inductive invariant.                                                *)
IInv ==
    /\ TypeOK
    /\ LeaseOnlyWhileRunning
    /\ StageNamesNextRun
    /\ NoCancelledPark
    /\ ArtifactsMatchStage
    /\ WorkerShape
    /\ OwnerView

--------------------------------------------------------------------------------
(* Lemmas about the handlers (StageHandlers).                              *)

(* Every outcome a handler returns is well formed, and its kind determines *)
(* where it leads.                                                         *)
LEMMA OutcomeShape ==
    ASSUME NEW s \in RunningStates, NEW a, NEW f \in BOOLEAN,
           NEW o \in HandlerOutcomes(s, a, f)
    PROVE  /\ o \in Outcomes
           /\ o.kind = "transient" => o.to = "retry_wait" /\ o.art = "nothing"
           /\ o.kind = "fatal" => o.to = "failed" /\ o.art = "nothing"
           /\ o.kind = "cancelled" => f /\ o.art = "nothing"
           /\ o.kind = "success" =>
                /\ o.to \in RunningStates \cup {"waiting_for_model", "completed"}
                /\ o.to = "waiting_for_model" => s = "transcribing" /\ o.art = "nothing"
                /\ o.to = "completed" => s = "indexing" /\ o.art = "nothing"
  <1> USE DEF HandlerOutcomes, Success, Transient, Fatal, CancelledByUser, Outcomes,
              JobStatus, Terminal, RunningStates, ArtifactTypes
  <1>1. CASE s = "fetching_metadata" BY <1>1 DEF FetchingMetadataHandler
  <1>2. CASE s = "fetching_subtitles" BY <1>2 DEF FetchingSubtitlesHandler
  <1>3. CASE s = "downloading_audio" BY <1>3 DEF DownloadingAudioHandler
  <1>4. CASE s = "transcribing" BY <1>4 DEF TranscribingHandler
  <1>5. CASE s = "cleaning_transcript" BY <1>5 DEF CleaningTranscriptHandler
  <1>6. CASE s = "chunking" BY <1>6 DEF ChunkingHandler
  <1>7. CASE s = "summarizing_chunks" BY <1>7 DEF SummarizingChunksHandler
  <1>8. CASE s = "generating_report" BY <1>8 DEF GeneratingReportHandler
  <1>9. CASE s = "indexing" BY <1>9 DEF IndexingHandler
  <1> QED BY <1>1, <1>2, <1>3, <1>4, <1>5, <1>6, <1>7, <1>8, <1>9

(* What a handler may return, it may also return with a cancellation       *)
(* pending: a flag raised after the last poll does not invalidate it.      *)
LEMMA OutcomeMonotone ==
    ASSUME NEW s \in RunningStates, NEW a, NEW f \in BOOLEAN,
           NEW o \in HandlerOutcomes(s, a, f)
    PROVE  o \in HandlerOutcomes(s, a, TRUE)
  BY DEF HandlerOutcomes, RunningStates, TranscribingHandler, SummarizingChunksHandler

(* A success is admitted by the transition table, registers an artifact    *)
(* that the job does not have yet, and leaves it with exactly the          *)
(* artifacts of the stage it moves to.                                     *)
LEMMA SuccessArtifacts ==
    ASSUME NEW s \in RunningStates, NEW a \in SUBSET ArtifactTypes, NEW f \in BOOLEAN,
           NEW o \in HandlerOutcomes(s, a, f), o.kind = "success",
           ArtifactsOfStage(s, a)
    PROVE  /\ Allowed(s, o.to)
           /\ o.art \notin a
           /\ o.to # "waiting_for_model" =>
                ArtifactsOfStage(o.to, a \cup ({o.art} \ {"nothing"}))
  <1> USE DEF HandlerOutcomes, Success, Transient, Fatal, CancelledByUser, ArtifactTypes,
              ArtifactsOfStage, TextArtifacts, Allowed, LinearChain
  <1>1. CASE s = "fetching_metadata" BY <1>1 DEF FetchingMetadataHandler
  <1>2. CASE s = "fetching_subtitles" BY <1>2 DEF FetchingSubtitlesHandler
  <1>3. CASE s = "downloading_audio" BY <1>3 DEF DownloadingAudioHandler
  <1>4. CASE s = "transcribing" BY <1>4 DEF TranscribingHandler
  <1>5. CASE s = "cleaning_transcript" BY <1>5 DEF CleaningTranscriptHandler
  <1>6. CASE s = "chunking" BY <1>6 DEF ChunkingHandler
  <1>7. CASE s = "summarizing_chunks" BY <1>7 DEF SummarizingChunksHandler
  <1>8. CASE s = "generating_report" BY <1>8 DEF GeneratingReportHandler
  <1>9. CASE s = "indexing" BY <1>9 DEF IndexingHandler
  <1> QED BY <1>1, <1>2, <1>3, <1>4, <1>5, <1>6, <1>7, <1>8, <1>9 DEF RunningStates

--------------------------------------------------------------------------------
(* The inductive invariant holds initially.                                *)
LEMMA InitIInv == Init => IInv
  BY NoneAssumption, LeaseAssumption, RetryAssumption, MaxAttemptsAssumption
  DEF Init, IInv, TypeOK, LeaseOnlyWhileRunning, StageNamesNextRun, NoCancelledPark,
      ArtifactsMatchStage, WorkerShape, OwnerView, JobStatus, RunningStates,
      Terminal, Starting, Exists

(* A new row is queued, unleased and without artifacts.                    *)
LEMMA SubmitVideo_IInv ==
    ASSUME IInv, NEW f \in Fingerprints, SubmitVideo(f)
    PROVE  IInv'
  <1> USE NoneAssumption, LeaseAssumption, RetryAssumption, MaxAttemptsAssumption
  <1> USE DEF IInv, Exists, SubmitVideo, row, local, JobStatus, RunningStates, Terminal, Starting
  <1>1. TypeOK'
    BY DEF TypeOK
  <1>2. LeaseOnlyWhileRunning'
    BY DEF TypeOK, LeaseOnlyWhileRunning
  <1>3. StageNamesNextRun'
    BY DEF TypeOK, StageNamesNextRun
  <1>4. NoCancelledPark'
    BY DEF TypeOK, NoCancelledPark
  <1>5. ArtifactsMatchStage'
    BY DEF TypeOK, ArtifactsMatchStage, StageNamesNextRun
  <1>6. WorkerShape'
    BY DEF TypeOK, WorkerShape
  <1>7. OwnerView'
    BY DEF TypeOK, WorkerShape, OwnerView, LeaseOnlyWhileRunning
  <1> QED BY <1>1, <1>2, <1>3, <1>4, <1>5, <1>6, <1>7

(* A cancellation ends an idle row or flags a running one: the owner's     *)
(* outcome stays valid (OutcomeMonotone).                                  *)
LEMMA RequestCancellation_IInv ==
    ASSUME IInv, NEW j \in Jobs, RequestCancellation(j)
    PROVE  IInv'
  <1> USE NoneAssumption, LeaseAssumption, RetryAssumption, MaxAttemptsAssumption
  <1> USE DEF IInv, Exists, RequestCancellation, row, local, JobStatus, RunningStates, Terminal, Starting
  <1>1. TypeOK'
    BY DEF TypeOK
  <1>2. LeaseOnlyWhileRunning'
    BY DEF TypeOK, LeaseOnlyWhileRunning
  <1>3. StageNamesNextRun'
    BY DEF TypeOK, StageNamesNextRun
  <1>4. NoCancelledPark'
    BY DEF TypeOK, NoCancelledPark
  <1>5. ArtifactsMatchStage'
    BY DEF TypeOK, ArtifactsMatchStage, StageNamesNextRun
  <1>6. WorkerShape'
    BY DEF TypeOK, WorkerShape
  <1>7. OwnerView'
    <2> SUFFICES ASSUME NEW w \in Workers, pc[w] # "idle", owner'[held[w]] = w
                 PROVE  /\ view[w] = status'[held[w]]
                        /\ pc[w] = "commit" =>
                             out[w] \in HandlerOutcomes(view[w], arts[held[w]], cancel'[held[w]])
      BY DEF OwnerView
    <2>1. /\ held[w] \in Jobs /\ owner[held[w]] = w
          /\ view[w] = status[held[w]] /\ view[w] \in RunningStates
      BY DEF TypeOK, WorkerShape, OwnerView, LeaseOnlyWhileRunning
    <2>2. /\ status'[held[w]] = status[held[w]]
          /\ cancel'[held[w]] \in {TRUE, cancel[held[w]]}
      BY <2>1 DEF TypeOK
    <2>3. pc[w] = "commit" =>
            out[w] \in HandlerOutcomes(view[w], arts[held[w]], cancel[held[w]])
      BY <2>1 DEF OwnerView
    <2> QED BY <2>1, <2>2, <2>3, OutcomeMonotone DEF TypeOK
  <1> QED BY <1>1, <1>2, <1>3, <1>4, <1>5, <1>6, <1>7

(* A resumed row is unleased and keeps the artifacts of transcribing.      *)
LEMMA ResumeWaitingJobs_IInv ==
    ASSUME IInv, ResumeWaitingJobs
    PROVE  IInv'
  <1> USE NoneAssumption, LeaseAssumption, RetryAssumption, MaxAttemptsAssumption
  <1> USE DEF IInv, Exists, ResumeWaitingJobs, row, local, JobStatus, RunningStates, Terminal, Starting, ResumeRows, Resumable
  <1>1. TypeOK'
    BY DEF TypeOK
  <1>2. LeaseOnlyWhileRunning'
    BY DEF TypeOK, LeaseOnlyWhileRunning
  <1>3. StageNamesNextRun'
    BY DEF TypeOK, StageNamesNextRun
  <1>4. NoCancelledPark'
    BY DEF TypeOK, NoCancelledPark
  <1>5. ArtifactsMatchStage'
    BY DEF TypeOK, ArtifactsMatchStage, StageNamesNextRun
  <1>6. WorkerShape'
    BY DEF TypeOK, WorkerShape
  <1>7. OwnerView'
    BY DEF TypeOK, WorkerShape, OwnerView, LeaseOnlyWhileRunning
  <1> QED BY <1>1, <1>2, <1>3, <1>4, <1>5, <1>6, <1>7

(* A claim makes the worker owner and viewer of the stage it takes up;     *)
(* any earlier owner is no longer named by the row.                        *)
LEMMA ClaimNextJob_IInv ==
    ASSUME IInv, NEW w \in Workers, ClaimNextJob(w)
    PROVE  IInv'
  <1> USE NoneAssumption, LeaseAssumption, RetryAssumption, MaxAttemptsAssumption
  <1> USE DEF IInv, Exists, ClaimNextJob, row, local, JobStatus, RunningStates, Terminal, Starting, Claimable, ClaimStatus, Enter
  <1>1. TypeOK'
    BY DEF TypeOK
  <1>2. LeaseOnlyWhileRunning'
    BY DEF TypeOK, LeaseOnlyWhileRunning
  <1>3. StageNamesNextRun'
    BY DEF TypeOK, StageNamesNextRun
  <1>4. NoCancelledPark'
    BY DEF TypeOK, NoCancelledPark
  <1>5. ArtifactsMatchStage'
    BY DEF TypeOK, ArtifactsMatchStage, StageNamesNextRun, ArtifactsOfStage, TextArtifacts
  <1>6. WorkerShape'
    BY DEF TypeOK, WorkerShape
  <1>7. OwnerView'
    BY DEF TypeOK, WorkerShape, OwnerView, LeaseOnlyWhileRunning
  <1> QED BY <1>1, <1>2, <1>3, <1>4, <1>5, <1>6, <1>7

(* A heartbeat only extends the lease of a row that names the worker.      *)
LEMMA RenewLease_IInv ==
    ASSUME IInv, NEW w \in Workers, RenewLease(w)
    PROVE  IInv'
  <1> USE NoneAssumption, LeaseAssumption, RetryAssumption, MaxAttemptsAssumption
  <1> USE DEF IInv, Exists, RenewLease, row, local, JobStatus, RunningStates, Terminal, Starting, HasLease
  <1>1. held[w] \in Jobs /\ LeaseTicks \in 0 .. LeaseTicks
    BY DEF WorkerShape
  <1>2. TypeOK'
    <2>1. lease' \in [Jobs -> 0 .. LeaseTicks \cup {None}]
      BY <1>1 DEF TypeOK
    <2>2. beat' \in [Workers -> BOOLEAN]
      BY ZenonT(30) DEF TypeOK
    <2> QED BY <2>1, <2>2 DEF TypeOK
  <1>3. LeaseOnlyWhileRunning'
    BY DEF TypeOK, LeaseOnlyWhileRunning
  <1>4. StageNamesNextRun'
    BY DEF TypeOK, StageNamesNextRun
  <1>5. NoCancelledPark'
    BY DEF TypeOK, NoCancelledPark
  <1>6. ArtifactsMatchStage'
    BY DEF TypeOK, ArtifactsMatchStage, StageNamesNextRun
  <1>7. WorkerShape'
    BY DEF TypeOK, WorkerShape
  <1>8. OwnerView'
    BY DEF TypeOK, WorkerShape, OwnerView, LeaseOnlyWhileRunning
  <1> QED BY <1>2, <1>3, <1>4, <1>5, <1>6, <1>7, <1>8

(* A handler run by the row's owner returns an outcome for that very row.  *)
LEMMA HandlerReturns_IInv ==
    ASSUME IInv, NEW w \in Workers, HandlerReturns(w)
    PROVE  IInv'
  <1> USE NoneAssumption, LeaseAssumption, RetryAssumption, MaxAttemptsAssumption
  <1> USE DEF IInv, Exists, HandlerReturns, row, local, JobStatus, RunningStates, Terminal, Starting
  <1>1. /\ held[w] \in Jobs /\ view[w] \in RunningStates
        /\ out'[w] \in Outcomes /\ status[held[w]] \in JobStatus
    BY OutcomeShape DEF TypeOK, WorkerShape
  <1>2. TypeOK'
    BY <1>1 DEF TypeOK
  <1>3. LeaseOnlyWhileRunning'
    BY DEF TypeOK, LeaseOnlyWhileRunning
  <1>4. StageNamesNextRun'
    BY DEF TypeOK, StageNamesNextRun
  <1>5. NoCancelledPark'
    BY DEF TypeOK, NoCancelledPark
  <1>6. ArtifactsMatchStage'
    BY DEF TypeOK, ArtifactsMatchStage, StageNamesNextRun
  <1>7. WorkerShape'
    BY <1>1 DEF TypeOK, WorkerShape
  <1>8. OwnerView'
    BY DEF TypeOK, WorkerShape, OwnerView, LeaseOnlyWhileRunning
  <1> QED BY <1>2, <1>3, <1>4, <1>5, <1>6, <1>7, <1>8

(* A stage commit registers the artifact and moves on, parks, completes or *)
(* lands a pending cancellation.                                           *)
LEMMA CommitAdvance_IInv ==
    ASSUME IInv, NEW w \in Workers, CommitAdvance(w)
    PROVE  IInv'
  <1> DEFINE j == held[w]
             t == Target(w)
             a == arts[j] \cup ({out[w].art} \ {"nothing"})
             releases == t \in Terminal \cup {"waiting_for_model"}
  <1>1. /\ j \in Jobs /\ owner[j] = w /\ pc[w] = "commit" /\ engine = "up"
        /\ view[w] = status[j] /\ status[j] \in RunningStates /\ stage[j] = status[j]
        /\ out[w] \in HandlerOutcomes(status[j], arts[j], cancel[j])
        /\ out[w].kind = "success"
        /\ ArtifactsOfStage(status[j], arts[j])
        /\ arts[j] \in SUBSET ArtifactTypes /\ cancel[j] \in BOOLEAN
    BY NoneAssumption
    DEF IInv, CommitAdvance, OwnsRow, HasLease, TypeOK, WorkerShape, OwnerView,
        LeaseOnlyWhileRunning, StageNamesNextRun, ArtifactsMatchStage
  <1>2. /\ out[w] \in Outcomes
        /\ out[w].to \in RunningStates \cup {"waiting_for_model", "completed"}
        /\ out[w].to = "waiting_for_model" =>
              status[j] = "transcribing" /\ out[w].art = "nothing"
        /\ out[w].to # "waiting_for_model" => ArtifactsOfStage(out[w].to, a)
    <2>1. /\ out[w] \in Outcomes
          /\ out[w].to \in RunningStates \cup {"waiting_for_model", "completed"}
          /\ out[w].to = "waiting_for_model" =>
                status[j] = "transcribing" /\ out[w].art = "nothing"
      BY <1>1, OutcomeShape
    <2>2. out[w].to # "waiting_for_model" => ArtifactsOfStage(out[w].to, a)
      BY <1>1, SuccessArtifacts
    <2> QED BY <2>1, <2>2
  <1>3. /\ t \in RunningStates \cup {"waiting_for_model", "completed", "cancelled"}
        /\ t = "waiting_for_model" =>
              status[j] = "transcribing" /\ ~ cancel[j] /\ a = arts[j]
        /\ t \in RunningStates \cup {"completed"} => ArtifactsOfStage(t, a)
        /\ a \in SUBSET ArtifactTypes
    BY <1>1, <1>2 DEF Target, Outcomes, RunningStates
  <1>4. /\ status' = [status EXCEPT ![j] = t]
        /\ stage'  = [stage EXCEPT ![j] = IF t \in RunningStates THEN t ELSE @]
        /\ owner'  = [owner EXCEPT ![j] = IF releases THEN None ELSE @]
        /\ lease'  = [lease EXCEPT ![j] = IF releases THEN None ELSE LeaseTicks]
        /\ arts'   = [arts EXCEPT ![j] = a]
        /\ IF releases THEN Leave(w) ELSE Enter(w, j, t)
        /\ UNCHANGED <<attempt, retryIn, cancel, fp, engine>>
    BY DEF CommitAdvance
  <1>5. TypeOK /\ LeaseTicks \in 0 .. LeaseTicks
    BY LeaseAssumption DEF IInv
  <1> HIDE DEF j, t, a, releases
  <1>6. TypeOK'
    <2>1. t \in JobStatus
      BY <1>3 DEF JobStatus, Terminal
    <2>2. /\ status' \in [Jobs -> JobStatus \cup {"absent"}]
          /\ stage'  \in [Jobs -> RunningStates \cup {None}]
          /\ owner'  \in [Jobs -> Workers \cup {None}]
          /\ arts'   \in [Jobs -> SUBSET ArtifactTypes]
      BY <1>1, <1>3, <1>4, <1>5, <2>1 DEF TypeOK
    <2>3. lease' \in [Jobs -> 0 .. LeaseTicks \cup {None}]
      BY <1>1, <1>4, <1>5 DEF TypeOK
    <2>4. /\ pc'   \in [Workers -> {"idle", "run", "commit"}]
          /\ held' \in [Workers -> Jobs \cup {None}]
          /\ view' \in [Workers -> JobStatus \cup {None}]
      <3>1. CASE releases
        BY <1>4, <1>5, <3>1 DEF TypeOK, Leave
      <3>2. CASE ~ releases
        BY <1>1, <1>4, <1>5, <2>1, <3>2 DEF TypeOK, Enter
      <3> QED BY <3>1, <3>2
    <2>5. out' \in [Workers -> Outcomes \cup {None}]
      BY <1>4, <1>5 DEF TypeOK, Leave, Enter
    <2>6. beat' \in [Workers -> BOOLEAN]
      BY <1>4, <1>5, ZenonT(30) DEF TypeOK, Leave, Enter
    <2> QED BY <1>4, <1>5, <2>2, <2>3, <2>4, <2>5, <2>6 DEF TypeOK
  <1>7. LeaseOnlyWhileRunning'
    BY <1>1, <1>3, <1>4, <1>5, NoneAssumption, LeaseAssumption
    DEF IInv, LeaseOnlyWhileRunning, TypeOK, RunningStates, Terminal, releases
  <1>8. StageNamesNextRun'
    BY <1>1, <1>3, <1>4, <1>5 DEF IInv, StageNamesNextRun, TypeOK, RunningStates
  <1>9. NoCancelledPark'
    BY <1>1, <1>3, <1>4, <1>5 DEF IInv, NoCancelledPark, TypeOK
  <1>10. ArtifactsMatchStage'
    BY <1>1, <1>3, <1>4, <1>5 DEF IInv, ArtifactsMatchStage, TypeOK, RunningStates
  <1>11. WorkerShape'
    BY <1>1, <1>3, <1>4, <1>5
    DEF IInv, WorkerShape, TypeOK, Leave, Enter, JobStatus, RunningStates, Terminal,
        Exists, releases
  <1>12. OwnerView'
    BY <1>1, <1>3, <1>4, <1>5, NoneAssumption
    DEF IInv, OwnerView, WorkerShape, TypeOK, Leave, Enter, j
  <1> QED BY <1>6, <1>7, <1>8, <1>9, <1>10, <1>11, <1>12 DEF IInv

(* A failure keeps the stage and the artifacts and releases the lease.     *)
LEMMA CommitFailure_IInv ==
    ASSUME IInv, NEW w \in Workers, CommitFailure(w)
    PROVE  IInv'
  <1> USE NoneAssumption, LeaseAssumption, RetryAssumption, MaxAttemptsAssumption
  <1> USE DEF IInv, Exists, CommitFailure, row, local, JobStatus, RunningStates, Terminal, Starting, OwnsRow, HasLease, Leave
  <1>1. /\ held[w] \in Jobs /\ owner[held[w]] = w
        /\ view[w] = status[held[w]] /\ status[held[w]] \in RunningStates
        /\ out[w] \in HandlerOutcomes(view[w], arts[held[w]], cancel[held[w]])
    BY DEF TypeOK, WorkerShape, OwnerView, LeaseOnlyWhileRunning
  <1>2. /\ out[w].kind = "transient" => out[w].to = "retry_wait"
        /\ out[w].kind = "fatal" => out[w].to = "failed"
    BY <1>1, OutcomeShape DEF TypeOK
  <1>3. TypeOK'
    BY <1>1, <1>2 DEF TypeOK
  <1>4. LeaseOnlyWhileRunning'
    BY DEF TypeOK, LeaseOnlyWhileRunning
  <1>5. StageNamesNextRun'
    BY <1>1, <1>2 DEF TypeOK, StageNamesNextRun
  <1>6. NoCancelledPark'
    BY <1>1, <1>2 DEF TypeOK, NoCancelledPark
  <1>7. ArtifactsMatchStage'
    BY <1>1, <1>2 DEF TypeOK, ArtifactsMatchStage, StageNamesNextRun
  <1>8. WorkerShape'
    BY <1>1, <1>2 DEF TypeOK, WorkerShape
  <1>9. OwnerView'
    BY DEF TypeOK, WorkerShape, OwnerView, LeaseOnlyWhileRunning
  <1> QED BY <1>3, <1>4, <1>5, <1>6, <1>7, <1>8, <1>9

(* A safe-point cancellation releases the lease.                           *)
LEMMA CommitCancelled_IInv ==
    ASSUME IInv, NEW w \in Workers, CommitCancelled(w)
    PROVE  IInv'
  <1> USE NoneAssumption, LeaseAssumption, RetryAssumption, MaxAttemptsAssumption
  <1> USE DEF IInv, Exists, CommitCancelled, row, local, JobStatus, RunningStates, Terminal, Starting, OwnsRow, HasLease, Leave
  <1>1. TypeOK'
    BY DEF TypeOK
  <1>2. LeaseOnlyWhileRunning'
    BY DEF TypeOK, LeaseOnlyWhileRunning
  <1>3. StageNamesNextRun'
    BY DEF TypeOK, StageNamesNextRun
  <1>4. NoCancelledPark'
    BY DEF TypeOK, NoCancelledPark
  <1>5. ArtifactsMatchStage'
    BY DEF TypeOK, ArtifactsMatchStage, StageNamesNextRun
  <1>6. WorkerShape'
    BY DEF TypeOK, WorkerShape
  <1>7. OwnerView'
    BY DEF TypeOK, WorkerShape, OwnerView, LeaseOnlyWhileRunning
  <1> QED BY <1>1, <1>2, <1>3, <1>4, <1>5, <1>6, <1>7

(* A commit given up writes nothing.                                       *)
LEMMA CommitFails_IInv ==
    ASSUME IInv, NEW w \in Workers, CommitFails(w)
    PROVE  IInv'
  <1> USE NoneAssumption, LeaseAssumption, RetryAssumption, MaxAttemptsAssumption
  <1> USE DEF IInv, Exists, CommitFails, row, local, JobStatus, RunningStates, Terminal, Starting, Leave
  <1>1. TypeOK'
    BY DEF TypeOK
  <1>2. LeaseOnlyWhileRunning'
    BY DEF TypeOK, LeaseOnlyWhileRunning
  <1>3. StageNamesNextRun'
    BY DEF TypeOK, StageNamesNextRun
  <1>4. NoCancelledPark'
    BY DEF TypeOK, NoCancelledPark
  <1>5. ArtifactsMatchStage'
    BY DEF TypeOK, ArtifactsMatchStage, StageNamesNextRun
  <1>6. WorkerShape'
    BY DEF TypeOK, WorkerShape
  <1>7. OwnerView'
    BY DEF TypeOK, WorkerShape, OwnerView, LeaseOnlyWhileRunning
  <1> QED BY <1>1, <1>2, <1>3, <1>4, <1>5, <1>6, <1>7

(* A crash forgets the workers, not the table.                             *)
LEMMA Crash_IInv ==
    ASSUME IInv, Crash
    PROVE  IInv'
  <1> USE NoneAssumption, LeaseAssumption, RetryAssumption, MaxAttemptsAssumption
  <1> USE DEF IInv, Exists, Crash, row, local, JobStatus, RunningStates, Terminal, Starting
  <1>1. TypeOK'
    BY DEF TypeOK
  <1>2. LeaseOnlyWhileRunning'
    BY DEF TypeOK, LeaseOnlyWhileRunning
  <1>3. StageNamesNextRun'
    BY DEF TypeOK, StageNamesNextRun
  <1>4. NoCancelledPark'
    BY DEF TypeOK, NoCancelledPark
  <1>5. ArtifactsMatchStage'
    BY DEF TypeOK, ArtifactsMatchStage, StageNamesNextRun
  <1>6. WorkerShape'
    BY DEF TypeOK, WorkerShape
  <1>7. OwnerView'
    BY DEF TypeOK, WorkerShape, OwnerView, LeaseOnlyWhileRunning
  <1> QED BY <1>1, <1>2, <1>3, <1>4, <1>5, <1>6, <1>7

(* Starting writes nothing.                                                *)
LEMMA Start_IInv ==
    ASSUME IInv, Start
    PROVE  IInv'
  <1> USE NoneAssumption, LeaseAssumption, RetryAssumption, MaxAttemptsAssumption
  <1> USE DEF IInv, Exists, Start, row, local, JobStatus, RunningStates, Terminal, Starting
  <1>1. TypeOK'
    BY DEF TypeOK
  <1>2. LeaseOnlyWhileRunning'
    BY DEF TypeOK, LeaseOnlyWhileRunning
  <1>3. StageNamesNextRun'
    BY DEF TypeOK, StageNamesNextRun
  <1>4. NoCancelledPark'
    BY DEF TypeOK, NoCancelledPark
  <1>5. ArtifactsMatchStage'
    BY DEF TypeOK, ArtifactsMatchStage, StageNamesNextRun
  <1>6. WorkerShape'
    BY DEF TypeOK, WorkerShape
  <1>7. OwnerView'
    BY DEF TypeOK, WorkerShape, OwnerView, LeaseOnlyWhileRunning
  <1> QED BY <1>1, <1>2, <1>3, <1>4, <1>5, <1>6, <1>7

(* Expired leases are cleared as owner and expiry together.                *)
LEMMA RecoverStaleJobs_IInv ==
    ASSUME IInv, RecoverStaleJobs
    PROVE  IInv'
  <1> USE NoneAssumption, LeaseAssumption, RetryAssumption, MaxAttemptsAssumption
  <1> USE DEF IInv, Exists, RecoverStaleJobs, row, local, JobStatus, RunningStates, Terminal, Starting
  <1>1. TypeOK'
    BY DEF TypeOK
  <1>2. LeaseOnlyWhileRunning'
    BY DEF TypeOK, LeaseOnlyWhileRunning
  <1>3. StageNamesNextRun'
    BY DEF TypeOK, StageNamesNextRun
  <1>4. NoCancelledPark'
    BY DEF TypeOK, NoCancelledPark
  <1>5. ArtifactsMatchStage'
    BY DEF TypeOK, ArtifactsMatchStage, StageNamesNextRun
  <1>6. WorkerShape'
    BY DEF TypeOK, WorkerShape
  <1>7. OwnerView'
    BY DEF TypeOK, WorkerShape, OwnerView, LeaseOnlyWhileRunning
  <1> QED BY <1>1, <1>2, <1>3, <1>4, <1>5, <1>6, <1>7

(* Rows out of attempts fail and lose their lease.                         *)
LEMMA FailExhaustedRetries_IInv ==
    ASSUME IInv, FailExhaustedRetries
    PROVE  IInv'
  <1> USE NoneAssumption, LeaseAssumption, RetryAssumption, MaxAttemptsAssumption
  <1> USE DEF IInv, Exists, FailExhaustedRetries, row, local, JobStatus, RunningStates, Terminal, Starting
  <1>1. TypeOK'
    BY DEF TypeOK
  <1>2. LeaseOnlyWhileRunning'
    BY DEF TypeOK, LeaseOnlyWhileRunning
  <1>3. StageNamesNextRun'
    BY DEF TypeOK, StageNamesNextRun
  <1>4. NoCancelledPark'
    BY DEF TypeOK, NoCancelledPark
  <1>5. ArtifactsMatchStage'
    BY DEF TypeOK, ArtifactsMatchStage, StageNamesNextRun
  <1>6. WorkerShape'
    BY DEF TypeOK, WorkerShape
  <1>7. OwnerView'
    BY DEF TypeOK, WorkerShape, OwnerView, LeaseOnlyWhileRunning
  <1> QED BY <1>1, <1>2, <1>3, <1>4, <1>5, <1>6, <1>7

(* Parked rows with a cancellation pending (there are none) are cancelled. *)
LEMMA LandDanglingCancellations_IInv ==
    ASSUME IInv, LandDanglingCancellations
    PROVE  IInv'
  <1> USE NoneAssumption, LeaseAssumption, RetryAssumption, MaxAttemptsAssumption
  <1> USE DEF IInv, Exists, LandDanglingCancellations, row, local, JobStatus, RunningStates, Terminal, Starting
  <1>1. TypeOK'
    BY DEF TypeOK
  <1>2. LeaseOnlyWhileRunning'
    BY DEF TypeOK, LeaseOnlyWhileRunning
  <1>3. StageNamesNextRun'
    BY DEF TypeOK, StageNamesNextRun
  <1>4. NoCancelledPark'
    BY DEF TypeOK, NoCancelledPark
  <1>5. ArtifactsMatchStage'
    BY DEF TypeOK, ArtifactsMatchStage, StageNamesNextRun
  <1>6. WorkerShape'
    BY DEF TypeOK, WorkerShape
  <1>7. OwnerView'
    BY DEF TypeOK, WorkerShape, OwnerView, LeaseOnlyWhileRunning
  <1> QED BY <1>1, <1>2, <1>3, <1>4, <1>5, <1>6, <1>7

(* The startup resume behaves like any other.                              *)
LEMMA ReconcileWaiting_IInv ==
    ASSUME IInv, ReconcileWaiting
    PROVE  IInv'
  <1> USE NoneAssumption, LeaseAssumption, RetryAssumption, MaxAttemptsAssumption
  <1> USE DEF IInv, Exists, ReconcileWaiting, row, local, JobStatus, RunningStates, Terminal, Starting, ResumeRows, Resumable
  <1>1. TypeOK'
    BY DEF TypeOK
  <1>2. LeaseOnlyWhileRunning'
    BY DEF TypeOK, LeaseOnlyWhileRunning
  <1>3. StageNamesNextRun'
    BY DEF TypeOK, StageNamesNextRun
  <1>4. NoCancelledPark'
    BY DEF TypeOK, NoCancelledPark
  <1>5. ArtifactsMatchStage'
    BY DEF TypeOK, ArtifactsMatchStage, StageNamesNextRun
  <1>6. WorkerShape'
    BY DEF TypeOK, WorkerShape
  <1>7. OwnerView'
    BY DEF TypeOK, WorkerShape, OwnerView, LeaseOnlyWhileRunning
  <1> QED BY <1>1, <1>2, <1>3, <1>4, <1>5, <1>6, <1>7

(* Time runs timers down and never to NULL.                                *)
LEMMA Tick_IInv ==
    ASSUME IInv, Tick
    PROVE  IInv'
  <1>1. /\ \A j \in Jobs : lease'[j] = None <=> lease[j] = None
        /\ \A j \in Jobs : retryIn'[j] = None <=> retryIn[j] = None
    BY NoneAssumption, LeaseAssumption, RetryAssumption DEF IInv, TypeOK, Tick, Down
  <1>2. TypeOK'
    <2>1. ASSUME NEW n \in Nat, NEW t \in 0 .. n \cup {None}
          PROVE  Down(t) \in 0 .. n \cup {None}
      BY NoneAssumption DEF Down
    <2>2. lease' \in [Jobs -> 0 .. LeaseTicks \cup {None}]
      BY <2>1, LeaseAssumption DEF IInv, TypeOK, Tick
    <2>3. retryIn' \in [Jobs -> 0 .. RetryTicks \cup {None}]
      BY <2>1, RetryAssumption DEF IInv, TypeOK, Tick
    <2> QED BY <2>2, <2>3 DEF IInv, TypeOK, Tick, local
  <1>3. UNCHANGED <<status, stage, owner, attempt, cancel, fp, arts, engine, local>>
    BY DEF Tick
  <1>4. status' = status /\ stage' = stage /\ owner' = owner
    BY <1>3
  <1>5. LeaseOnlyWhileRunning'
    BY <1>1, <1>4 DEF IInv, LeaseOnlyWhileRunning
  <1>6. StageNamesNextRun'
    BY <1>1, <1>4 DEF IInv, StageNamesNextRun
  <1>7. NoCancelledPark' /\ ArtifactsMatchStage'
    BY <1>3 DEF IInv, NoCancelledPark, ArtifactsMatchStage
  <1>8. WorkerShape' /\ OwnerView'
    BY <1>3 DEF IInv, WorkerShape, OwnerView, local, Exists
  <1> QED BY <1>2, <1>5, <1>6, <1>7, <1>8 DEF IInv

(* Every step preserves the inductive invariant.                           *)
LEMMA NextIInv == IInv /\ [Next]_vars => IInv'
  <1> SUFFICES ASSUME IInv, [Next]_vars PROVE IInv'
    OBVIOUS
  <1>1. ASSUME NEW f \in Fingerprints, SubmitVideo(f) PROVE IInv'
    BY <1>1, SubmitVideo_IInv
  <1>2. ASSUME NEW j \in Jobs, RequestCancellation(j) PROVE IInv'
    BY <1>2, RequestCancellation_IInv
  <1>3. CASE ResumeWaitingJobs BY <1>3, ResumeWaitingJobs_IInv
  <1>4. ASSUME NEW w \in Workers, ClaimNextJob(w) PROVE IInv'
    BY <1>4, ClaimNextJob_IInv
  <1>5. ASSUME NEW w \in Workers, RenewLease(w) PROVE IInv'
    BY <1>5, RenewLease_IInv
  <1>6. ASSUME NEW w \in Workers, HandlerReturns(w) PROVE IInv'
    BY <1>6, HandlerReturns_IInv
  <1>7. ASSUME NEW w \in Workers, CommitAdvance(w) PROVE IInv'
    BY <1>7, CommitAdvance_IInv
  <1>8. ASSUME NEW w \in Workers, CommitFailure(w) PROVE IInv'
    BY <1>8, CommitFailure_IInv
  <1>9. ASSUME NEW w \in Workers, CommitCancelled(w) PROVE IInv'
    BY <1>9, CommitCancelled_IInv
  <1>10. ASSUME NEW w \in Workers, CommitFails(w) PROVE IInv'
    BY <1>10, CommitFails_IInv
  <1>11. CASE Start BY <1>11, Start_IInv
  <1>12. CASE RecoverStaleJobs BY <1>12, RecoverStaleJobs_IInv
  <1>13. CASE FailExhaustedRetries BY <1>13, FailExhaustedRetries_IInv
  <1>14. CASE LandDanglingCancellations BY <1>14, LandDanglingCancellations_IInv
  <1>15. CASE ReconcileWaiting BY <1>15, ReconcileWaiting_IInv
  <1>16. CASE Tick BY <1>16, Tick_IInv
  <1>17. CASE Crash BY <1>17, Crash_IInv
  <1>18. CASE UNCHANGED vars
    BY <1>18 DEF vars, row, local, IInv, TypeOK, LeaseOnlyWhileRunning,
       StageNamesNextRun, NoCancelledPark, ArtifactsMatchStage, WorkerShape,
       OwnerView, Exists
  <1> QED BY <1>1, <1>2, <1>3, <1>4, <1>5, <1>6, <1>7, <1>8, <1>9, <1>10,
             <1>11, <1>12, <1>13, <1>14, <1>15, <1>16, <1>17, <1>18
          DEF Next, Step, WorkerStep, Commit, Startup

(* The inductive invariant is an invariant of the specification.           *)
THEOREM InductiveInvariant == Spec => []IInv
  BY InitIInv, NextIInv, PTL DEF Spec

(* TypeOK for every number of jobs, workers and attempts: in particular no *)
(* interleaving of claims, crashes and resumes spends more than            *)
(* max_attempts attempts (_is_claimable).                                  *)
THEOREM TypeCorrect == Spec => []TypeOK
  <1>1. IInv => TypeOK BY DEF IInv
  <1> QED BY <1>1, InductiveInvariant, PTL

(* Only a running row is leased.                                           *)
THEOREM LeaseDiscipline == Spec => []LeaseOnlyWhileRunning
  <1>1. IInv => LeaseOnlyWhileRunning BY DEF IInv
  <1> QED BY <1>1, InductiveInvariant, PTL

(* No job is parked with a cancellation pending (advance_job).             *)
THEOREM CancelNotSwallowed == Spec => []NoCancelledPark
  <1>1. IInv => NoCancelledPark BY DEF IInv
  <1> QED BY <1>1, InductiveInvariant, PTL

(* After any sequence of failures, retries, parks and crashes the stage    *)
(* column names the stage to run next (claim_next_job, mark_failure,       *)
(* resume_waiting_jobs).                                                   *)
THEOREM RetryRunsItsStage == Spec => []StageNamesNextRun
  <1>1. IInv => StageNamesNextRun BY DEF IInv
  <1> QED BY <1>1, InductiveInvariant, PTL

(* The registered artifacts agree with the stages committed                *)
(* (commit_artifact_and_advance, mark_failure, claim_job).                 *)
THEOREM CheckpointsConsistent == Spec => []ArtifactsMatchStage
  <1>1. IInv => ArtifactsMatchStage BY DEF IInv
  <1> QED BY <1>1, InductiveInvariant, PTL

(* The live owner commits the stage it ran: no TransitionError, no fresh   *)
(* artifact dropped (run_worker_once).                                     *)
THEOREM OwnerCommits == Spec => []OwnerCommitsItsStage
  <1>1. IInv => OwnerCommitsItsStage
    <2> SUFFICES ASSUME IInv, NEW w \in Workers, pc[w] = "commit", HasLease(w, held[w])
                 PROVE  /\ view[w] = status[held[w]]
                        /\ out[w].kind # "cancelled" => Allowed(view[w], out[w].to)
                        /\ out[w].art \notin arts[held[w]]
      BY DEF OwnerCommitsItsStage
    <2> DEFINE j == held[w]
    <2>1. /\ j \in Jobs /\ view[w] = status[j]
          /\ status[j] \in RunningStates /\ stage[j] = status[j]
          /\ out[w] \in HandlerOutcomes(status[j], arts[j], cancel[j])
          /\ ArtifactsOfStage(status[j], arts[j])
          /\ arts[j] \in SUBSET ArtifactTypes /\ cancel[j] \in BOOLEAN
      BY NoneAssumption
      DEF IInv, HasLease, TypeOK, WorkerShape, OwnerView, LeaseOnlyWhileRunning,
          StageNamesNextRun, ArtifactsMatchStage
    <2>2. /\ out[w] \in Outcomes
          /\ out[w].kind = "transient" => out[w].to = "retry_wait" /\ out[w].art = "nothing"
          /\ out[w].kind = "fatal" => out[w].to = "failed" /\ out[w].art = "nothing"
          /\ out[w].kind = "cancelled" => out[w].art = "nothing"
      BY <2>1, OutcomeShape
    <2>3. CASE out[w].kind = "success"
      BY <2>1, <2>3, SuccessArtifacts
    <2>4. CASE out[w].kind # "success"
      BY <2>1, <2>2, <2>4 DEF Outcomes, Allowed, ArtifactTypes
    <2> QED BY <2>3, <2>4
  <1> QED BY <1>1, InductiveInvariant, PTL

--------------------------------------------------------------------------------
(* The compare-and-swap of a stage commit succeeds only on a running row   *)
(* that names the worker, in the state the worker saw.                     *)
LEMMA CommitOwnsRow ==
    ASSUME IInv, NEW w \in Workers, pc[w] = "commit", OwnsRow(w)
    PROVE  /\ held[w] \in Jobs
           /\ view[w] = status[held[w]] /\ status[held[w]] \in RunningStates
           /\ stage[held[w]] = status[held[w]]
           /\ HasLease(w, held[w]) /\ owner[held[w]] = w
           /\ out[w] \in HandlerOutcomes(status[held[w]], arts[held[w]], cancel[held[w]])
           /\ cancel[held[w]] \in BOOLEAN
  BY NoneAssumption
  DEF IInv, OwnsRow, HasLease, TypeOK, WorkerShape, OwnerView, LeaseOnlyWhileRunning,
      StageNamesNextRun

(* A finished row is left alone by every step.                             *)
LEMMA FinishedRowStays ==
    ASSUME IInv, [Next]_vars, NEW j \in Jobs, status[j] \in Terminal
    PROVE  /\ status'[j] = status[j] /\ stage'[j] = stage[j]
           /\ attempt'[j] = attempt[j] /\ arts'[j] = arts[j]
           /\ owner'[j] = None
  <1> DEFINE Goal == /\ status'[j] = status[j] /\ stage'[j] = stage[j]
                     /\ attempt'[j] = attempt[j] /\ arts'[j] = arts[j]
                     /\ owner'[j] = None
  <1>1. /\ TypeOK /\ status[j] \in Terminal /\ owner[j] = None
        /\ status[j] \notin RunningStates
        /\ status[j] \notin {"absent", "queued", "retry_wait", "waiting_for_model"}
    BY DEF IInv, LeaseOnlyWhileRunning, RunningStates, Terminal
  <1> USE DEF TypeOK
  <1>2. ASSUME NEW f \in Fingerprints, SubmitVideo(f) PROVE Goal
    BY <1>1, <1>2 DEF SubmitVideo, Exists
  <1>3. ASSUME NEW i \in Jobs, RequestCancellation(i) PROVE Goal
    BY <1>1, <1>3 DEF RequestCancellation, Exists
  <1>4. CASE ResumeWaitingJobs
    BY <1>1, <1>4 DEF ResumeWaitingJobs, ResumeRows, Resumable
  <1>5. ASSUME NEW w \in Workers, ClaimNextJob(w) PROVE Goal
    BY <1>1, <1>5 DEF ClaimNextJob, Claimable
  <1>6. ASSUME NEW w \in Workers, RenewLease(w) PROVE Goal
    BY <1>1, <1>6 DEF RenewLease, HasLease
  <1>7. ASSUME NEW w \in Workers, HandlerReturns(w) PROVE Goal
    BY <1>1, <1>7 DEF HandlerReturns, row
  <1>8. ASSUME NEW w \in Workers, CommitAdvance(w) PROVE Goal
    BY <1>1, <1>8, CommitOwnsRow DEF CommitAdvance
  <1>9. ASSUME NEW w \in Workers, CommitFailure(w) PROVE Goal
    BY <1>1, <1>9, CommitOwnsRow DEF CommitFailure
  <1>10. ASSUME NEW w \in Workers, CommitCancelled(w) PROVE Goal
    BY <1>1, <1>10, CommitOwnsRow DEF CommitCancelled
  <1>11. ASSUME NEW w \in Workers, CommitFails(w) PROVE Goal
    BY <1>1, <1>11 DEF CommitFails, row
  <1>12. CASE Start
    BY <1>1, <1>12 DEF Start, row
  <1>13. CASE RecoverStaleJobs
    BY <1>1, <1>13 DEF RecoverStaleJobs
  <1>14. CASE FailExhaustedRetries
    BY <1>1, <1>14 DEF FailExhaustedRetries
  <1>15. CASE LandDanglingCancellations
    BY <1>1, <1>15 DEF LandDanglingCancellations
  <1>16. CASE ReconcileWaiting
    BY <1>1, <1>16 DEF ReconcileWaiting, ResumeRows, Resumable
  <1>17. CASE Tick
    BY <1>1, <1>17 DEF Tick
  <1>18. CASE Crash
    BY <1>1, <1>18 DEF Crash, row
  <1>19. CASE UNCHANGED vars
    BY <1>1, <1>19 DEF vars, row, local
  <1> QED BY <1>2, <1>3, <1>4, <1>5, <1>6, <1>7, <1>8, <1>9, <1>10,
             <1>11, <1>12, <1>13, <1>14, <1>15, <1>16, <1>17, <1>18, <1>19
          DEF Next, Step, WorkerStep, Commit, Startup

(* completed, failed and cancelled are final (every writer of the jobs     *)
(* table: a late commit, a resume, a recovery sweep, a second cancel).     *)
THEOREM TerminalFinal == Spec => TerminalIsFinal
  <1>1. IInv /\ [Next]_vars =>
          [\A j \in Jobs : status[j] \in Terminal =>
              /\ status'[j] = status[j] /\ stage'[j] = stage[j]
              /\ attempt'[j] = attempt[j] /\ arts'[j] = arts[j]
              /\ owner'[j] = None]_vars
    BY FinishedRowStays
  <1> QED BY <1>1, InductiveInvariant, PTL DEF Spec, TerminalIsFinal

(* A running row is moved by its live owner or by the exhausted sweep.     *)
LEMMA RunningRowMoves ==
    ASSUME IInv, [Next]_vars, NEW j \in Jobs,
           status[j] \in RunningStates, status'[j] # status[j]
    PROVE  \/ engine = "fail" /\ attempt[j] >= MaxAttempts
           \/ \E w \in Workers : /\ pc[w] = "commit" /\ held[w] = j
                                 /\ view[w] = status[j] /\ HasLease(w, j)
  <1> DEFINE Goal == \/ engine = "fail" /\ attempt[j] >= MaxAttempts
                     \/ \E w \in Workers : /\ pc[w] = "commit" /\ held[w] = j
                                           /\ view[w] = status[j] /\ HasLease(w, j)
  <1>1. /\ TypeOK /\ status[j] \in RunningStates /\ status'[j] # status[j]
        /\ status[j] \notin {"absent", "queued", "retry_wait", "waiting_for_model"}
    BY DEF IInv, RunningStates
  <1> USE DEF TypeOK
  <1>2. ASSUME NEW f \in Fingerprints, SubmitVideo(f) PROVE Goal
    BY <1>1, <1>2 DEF SubmitVideo, Exists
  <1>3. ASSUME NEW i \in Jobs, RequestCancellation(i) PROVE Goal
    BY <1>1, <1>3 DEF RequestCancellation, Exists
  <1>4. CASE ResumeWaitingJobs
    BY <1>1, <1>4 DEF ResumeWaitingJobs, ResumeRows, Resumable
  <1>5. ASSUME NEW w \in Workers, ClaimNextJob(w) PROVE Goal
    BY <1>1, <1>5 DEF ClaimNextJob, Claimable, ClaimStatus
  <1>6. ASSUME NEW w \in Workers, RenewLease(w) PROVE Goal
    BY <1>1, <1>6 DEF RenewLease, HasLease
  <1>7. ASSUME NEW w \in Workers, HandlerReturns(w) PROVE Goal
    BY <1>1, <1>7 DEF HandlerReturns, row
  <1>8. ASSUME NEW w \in Workers, CommitAdvance(w) PROVE Goal
    BY <1>1, <1>8, CommitOwnsRow DEF CommitAdvance
  <1>9. ASSUME NEW w \in Workers, CommitFailure(w) PROVE Goal
    BY <1>1, <1>9, CommitOwnsRow DEF CommitFailure
  <1>10. ASSUME NEW w \in Workers, CommitCancelled(w) PROVE Goal
    BY <1>1, <1>10, CommitOwnsRow DEF CommitCancelled
  <1>11. ASSUME NEW w \in Workers, CommitFails(w) PROVE Goal
    BY <1>1, <1>11 DEF CommitFails, row
  <1>12. CASE Start
    BY <1>1, <1>12 DEF Start, row
  <1>13. CASE RecoverStaleJobs
    BY <1>1, <1>13 DEF RecoverStaleJobs
  <1>14. CASE FailExhaustedRetries
    BY <1>1, <1>14 DEF FailExhaustedRetries
  <1>15. CASE LandDanglingCancellations
    BY <1>1, <1>15 DEF LandDanglingCancellations
  <1>16. CASE ReconcileWaiting
    BY <1>1, <1>16 DEF ReconcileWaiting, ResumeRows, Resumable
  <1>17. CASE Tick
    BY <1>1, <1>17 DEF Tick
  <1>18. CASE Crash
    BY <1>1, <1>18 DEF Crash, row
  <1>19. CASE UNCHANGED vars
    BY <1>1, <1>19 DEF vars, row, local
  <1> QED BY <1>2, <1>3, <1>4, <1>5, <1>6, <1>7, <1>8, <1>9, <1>10,
             <1>11, <1>12, <1>13, <1>14, <1>15, <1>16, <1>17, <1>18, <1>19
          DEF Next, Step, WorkerStep, Commit, Startup

(* Only the worker that ran the stage, holding a live lease, moves the row *)
(* (advance_job, commit_artifact_and_advance, mark_failure,                *)
(* mark_cancelled), apart from the startup sweep.                          *)
THEOREM LiveOwnerMoves == Spec => OnlyLiveOwnerMovesRow
  <1>1. IInv /\ [Next]_vars =>
          [\A j \in Jobs :
              status[j] \in RunningStates /\ status'[j] # status[j] =>
                \/ engine = "fail" /\ attempt[j] >= MaxAttempts
                \/ \E w \in Workers : /\ pc[w] = "commit" /\ held[w] = j
                                      /\ view[w] = status[j] /\ HasLease(w, j)]_vars
    BY RunningRowMoves
  <1> QED BY <1>1, InductiveInvariant, PTL DEF Spec, OnlyLiveOwnerMovesRow

--------------------------------------------------------------------------------
(* Refinement: JobQueue implements JobLifecycle.                           *)

(* A success moves the job forward in the pipeline; it completes from the  *)
(* last stage.                                                             *)
LEMMA SuccessRank ==
    ASSUME NEW s \in RunningStates, NEW a, NEW f \in BOOLEAN,
           NEW o \in HandlerOutcomes(s, a, f), o.kind = "success"
    PROVE  /\ o.to \in RunningStates => Rank(o.to) \in Rank(s) + 1 .. 9
           /\ o.to = "waiting_for_model" => Rank(s) = 4
           /\ o.to = "completed" => Rank(s) = 9
           /\ o.to \in RunningStates \cup {"waiting_for_model", "completed"}
           /\ Rank(s) \in 1 .. 9
  <1> USE DEF HandlerOutcomes, Success, Transient, Fatal, CancelledByUser, RunningStates, Rank
  <1>1. CASE s = "fetching_metadata" BY <1>1 DEF FetchingMetadataHandler
  <1>2. CASE s = "fetching_subtitles" BY <1>2 DEF FetchingSubtitlesHandler
  <1>3. CASE s = "downloading_audio" BY <1>3 DEF DownloadingAudioHandler
  <1>4. CASE s = "transcribing" BY <1>4 DEF TranscribingHandler
  <1>5. CASE s = "cleaning_transcript" BY <1>5 DEF CleaningTranscriptHandler
  <1>6. CASE s = "chunking" BY <1>6 DEF ChunkingHandler
  <1>7. CASE s = "summarizing_chunks" BY <1>7 DEF SummarizingChunksHandler
  <1>8. CASE s = "generating_report" BY <1>8 DEF GeneratingReportHandler
  <1>9. CASE s = "indexing" BY <1>9 DEF IndexingHandler
  <1> QED BY <1>1, <1>2, <1>3, <1>4, <1>5, <1>6, <1>7, <1>8, <1>9

(* The steps of JobLifecycle, in the terms of the job table.               *)
RowStep(j) ==
    LET ph == Phase(status[j])   ph2 == Phase(status'[j])
        pr == Rank(stage[j])     pr2 == Rank(stage'[j])
        same == pr2 = pr /\ cancel'[j] = cancel[j]
    IN  \/ ph2 = ph /\ same
        \/ ph = "absent" /\ ph2 = "pending" /\ same
        \/ /\ ph = "pending" /\ ph2 = "active"
           /\ pr2 = (IF pr = 0 THEN 1 ELSE pr) /\ cancel'[j] = cancel[j]
        \/ /\ ph = "active" /\ ph2 = "active"
           /\ pr2 \in pr + 1 .. 9 /\ cancel'[j] = cancel[j]
        \/ ph = "active" /\ ph2 = "pending" /\ same
        \/ ph = "active" /\ ph2 = "parked" /\ same /\ pr = 4 /\ ~ cancel[j]
        \/ ph = "parked" /\ ph2 = "active" /\ same /\ ~ cancel[j]
        \/ ph = "active" /\ ph2 = "completed" /\ same /\ pr = 9
        \/ ph \in {"pending", "active"} /\ ph2 = "failed" /\ same
        \/ ph = "active" /\ ph2 = "active" /\ pr2 = pr /\ cancel'[j]
        \/ /\ ph \in {"pending", "active", "parked"} /\ ph2 = "cancelled"
           /\ pr2 = pr /\ cancel'[j]

(* A row that was never claimed has no stage.                              *)
QueuedHasNoStage ==
    \A j \in Jobs : status[j] \in {"absent", "queued"} => stage[j] = None

(* Every step of JobQueue is, for every row, a step of JobLifecycle.       *)
LEMMA NextRowStep ==
    ASSUME IInv, QueuedHasNoStage, [Next]_vars, NEW j \in Jobs
    PROVE  RowStep(j)
  <1>1. TypeOK BY DEF IInv
  <1> USE DEF TypeOK, RowStep
  <1>2. ASSUME NEW f \in Fingerprints, SubmitVideo(f) PROVE RowStep(j)
    BY <1>1, <1>2 DEF IInv, SubmitVideo, Exists, Phase, RunningStates
  <1>3. ASSUME NEW i \in Jobs, RequestCancellation(i) PROVE RowStep(j)
    <2>1. CASE i # j
      BY <1>1, <1>3, <2>1 DEF RequestCancellation
    <2>2. CASE i = j /\ status[j] \in {"queued", "retry_wait", "waiting_for_model"}
      <3>1. /\ Phase(status[j]) \in {"pending", "parked"} /\ status'[j] = "cancelled"
            /\ stage'[j] = stage[j] /\ cancel'[j] = TRUE
        BY <1>1, <1>3, <2>2 DEF RequestCancellation, Phase, RunningStates
      <3> QED BY <3>1 DEF Phase, RunningStates
    <2>3. CASE i = j /\ status[j] \notin {"queued", "retry_wait", "waiting_for_model"}
      <3>1. /\ status[j] \in RunningStates /\ status'[j] = status[j]
            /\ stage'[j] = stage[j] /\ cancel'[j] = TRUE
        BY <1>1, <1>3, <2>3 DEF RequestCancellation, Exists, JobStatus
      <3>2. Phase(status[j]) = "active"
        BY <3>1 DEF Phase, RunningStates
      <3> QED BY <3>1, <3>2
    <2> QED BY <2>1, <2>2, <2>3
  <1>4. CASE ResumeWaitingJobs
    BY <1>1, <1>4 DEF IInv, ResumeWaitingJobs, ResumeRows, Resumable, StageNamesNextRun, Phase, RunningStates
  <1>5. ASSUME NEW w \in Workers, ClaimNextJob(w) PROVE RowStep(j)
    <2>1. PICK i \in Jobs : /\ Claimable(i)
                            /\ status' = [status EXCEPT ![i] = ClaimStatus(i)]
                            /\ stage'  = [stage EXCEPT ![i] = ClaimStatus(i)]
      BY <1>5 DEF ClaimNextJob
    <2>2. cancel' = cancel
      BY <1>5 DEF ClaimNextJob
    <2>3. CASE i # j
      BY <1>1, <2>1, <2>2, <2>3
    <2>4. CASE i = j /\ status[j] = "queued"
      <3>1. /\ stage[j] = None /\ stage'[j] = "fetching_metadata"
            /\ status'[j] = "fetching_metadata"
        BY <1>1, <2>1, <2>4 DEF QueuedHasNoStage, ClaimStatus
      <3>2. Rank(None) = 0
        BY NoneAssumption DEF Rank, JobStatus, RunningStates
      <3> QED BY <2>2, <2>4, <3>1, <3>2 DEF Phase, Rank, RunningStates
    <2>5. CASE i = j /\ status[j] = "retry_wait"
      <3>1. /\ stage[j] \in RunningStates /\ stage'[j] = stage[j] /\ status'[j] = stage[j]
        BY <1>1, <2>1, <2>5 DEF IInv, StageNamesNextRun, ClaimStatus
      <3>2. Rank(stage[j]) # 0
        BY <3>1 DEF Rank, RunningStates
      <3> QED BY <2>2, <2>5, <3>1, <3>2 DEF Phase, RunningStates
    <2>6. CASE i = j /\ status[j] \in RunningStates
      <3>1. stage'[j] = stage[j] /\ status'[j] = status[j]
        BY <1>1, <2>1, <2>6 DEF IInv, StageNamesNextRun, ClaimStatus, RunningStates
      <3> QED BY <2>2, <3>1
    <2> QED BY <2>1, <2>3, <2>4, <2>5, <2>6 DEF Claimable
  <1>6. ASSUME NEW w \in Workers, RenewLease(w) PROVE RowStep(j)
    BY <1>1, <1>6 DEF IInv, RenewLease, HasLease
  <1>7. ASSUME NEW w \in Workers, HandlerReturns(w) PROVE RowStep(j)
    BY <1>1, <1>7 DEF IInv, HandlerReturns, row
  <1>8. ASSUME NEW w \in Workers, CommitAdvance(w) PROVE RowStep(j)
    <2>1. cancel' = cancel /\ held[w] \in Jobs
      BY <1>8, CommitOwnsRow DEF CommitAdvance
    <2>2. CASE held[w] # j
      BY <1>1, <1>8, <2>1, <2>2 DEF CommitAdvance
    <2>3. CASE held[w] = j
      <3>1. /\ status[j] \in RunningStates /\ stage[j] = status[j]
            /\ out[w] \in HandlerOutcomes(status[j], arts[j], cancel[j])
            /\ out[w].kind = "success"
        BY <1>8, <2>3, CommitOwnsRow DEF CommitAdvance
      <3>2. /\ out[w].to \in RunningStates => Rank(out[w].to) \in Rank(stage[j]) + 1 .. 9
            /\ out[w].to = "waiting_for_model" => Rank(stage[j]) = 4
            /\ out[w].to = "completed" => Rank(stage[j]) = 9
            /\ out[w].to \in RunningStates \cup {"waiting_for_model", "completed"}
        BY <1>1, <3>1, SuccessRank
      <3>3. /\ status'[j] = Target(w)
            /\ stage'[j] = IF Target(w) \in RunningStates THEN Target(w) ELSE stage[j]
        BY <1>1, <1>8, <2>3 DEF CommitAdvance
      <3>4. Phase(status[j]) = "active"
        BY <3>1 DEF Phase, RunningStates
      <3>5. CASE out[w].to \in RunningStates
        <4>1. Target(w) = out[w].to /\ Phase(out[w].to) = "active"
          BY <3>5 DEF Target, Phase, RunningStates
        <4> QED BY <2>1, <3>2, <3>3, <3>4, <3>5, <4>1
      <3>6. CASE out[w].to = "waiting_for_model"
        BY <1>1, <2>1, <2>3, <3>2, <3>3, <3>4, <3>6 DEF Target, Phase, RunningStates
      <3>7. CASE out[w].to = "completed"
        BY <2>1, <3>2, <3>3, <3>4, <3>7 DEF Target, Phase, RunningStates
      <3> QED BY <3>2, <3>5, <3>6, <3>7
    <2> QED BY <2>2, <2>3
  <1>9. ASSUME NEW w \in Workers, CommitFailure(w) PROVE RowStep(j)
    <2>1. /\ cancel' = cancel /\ stage' = stage
          /\ held[w] \in Jobs /\ status[held[w]] \in RunningStates
          /\ out[w] \in HandlerOutcomes(status[held[w]], arts[held[w]], cancel[held[w]])
      BY <1>9, CommitOwnsRow DEF CommitFailure
    <2>2. out[w].to \in {"retry_wait", "failed"}
      BY <1>1, <1>9, <2>1, OutcomeShape DEF CommitFailure
    <2>3. status' = [status EXCEPT ![held[w]] = out[w].to]
      BY <1>9 DEF CommitFailure
    <2>4. CASE held[w] # j
      BY <1>1, <2>1, <2>3, <2>4
    <2>5. CASE held[w] = j
      <3>1. /\ Phase(status[j]) = "active"
            /\ Phase(status'[j]) \in {"pending", "failed"}
        BY <1>1, <2>1, <2>2, <2>3, <2>5 DEF Phase, RunningStates
      <3> QED BY <2>1, <3>1
    <2> QED BY <2>4, <2>5
  <1>10. ASSUME NEW w \in Workers, CommitCancelled(w) PROVE RowStep(j)
    <2>1. /\ cancel' = cancel /\ stage' = stage
          /\ held[w] \in Jobs /\ status[held[w]] \in RunningStates
          /\ out[w] \in HandlerOutcomes(status[held[w]], arts[held[w]], cancel[held[w]])
      BY <1>10, CommitOwnsRow DEF CommitCancelled
    <2>2. cancel[held[w]]
      BY <1>1, <1>10, <2>1, OutcomeShape DEF CommitCancelled
    <2>3. status' = [status EXCEPT ![held[w]] = "cancelled"]
      BY <1>10 DEF CommitCancelled
    <2>4. CASE held[w] # j
      BY <1>1, <2>1, <2>3, <2>4
    <2>5. CASE held[w] = j
      <3>1. Phase(status[j]) = "active" /\ Phase(status'[j]) = "cancelled"
        BY <1>1, <2>1, <2>3, <2>5 DEF Phase, RunningStates
      <3> QED BY <2>1, <2>2, <2>5, <3>1
    <2> QED BY <2>4, <2>5
  <1>11. ASSUME NEW w \in Workers, CommitFails(w) PROVE RowStep(j)
    BY <1>1, <1>11 DEF IInv, CommitFails, row
  <1>12. CASE Start
    BY <1>1, <1>12 DEF IInv, Start, row
  <1>13. CASE RecoverStaleJobs
    BY <1>1, <1>13 DEF IInv, RecoverStaleJobs
  <1>14. CASE FailExhaustedRetries
    BY <1>1, <1>14 DEF IInv, FailExhaustedRetries, Phase, RunningStates
  <1>15. CASE LandDanglingCancellations
    BY <1>1, <1>15 DEF IInv, LandDanglingCancellations, Phase, RunningStates
  <1>16. CASE ReconcileWaiting
    BY <1>1, <1>16 DEF IInv, ReconcileWaiting, ResumeRows, Resumable, StageNamesNextRun, Phase, RunningStates
  <1>17. CASE Tick
    BY <1>1, <1>17 DEF IInv, Tick
  <1>18. CASE Crash
    BY <1>1, <1>18 DEF IInv, Crash, row
  <1>19. CASE UNCHANGED vars
    BY <1>1, <1>19 DEF vars, row, local
  <1> QED BY <1>2, <1>3, <1>4, <1>5, <1>6, <1>7, <1>8, <1>9, <1>10,
             <1>11, <1>12, <1>13, <1>14, <1>15, <1>16, <1>17, <1>18, <1>19
          DEF Next, Step, WorkerStep, Commit, Startup

(* QueuedHasNoStage is preserved: only a claim gives a row its first stage.*)
LEMMA QueuedHasNoStageInductive ==
    ASSUME IInv, QueuedHasNoStage, [Next]_vars
    PROVE  QueuedHasNoStage'
  <1> SUFFICES ASSUME NEW j \in Jobs, status'[j] \in {"absent", "queued"}
               PROVE  stage'[j] = None
    BY DEF QueuedHasNoStage
  <1>1. TypeOK /\ QueuedHasNoStage BY DEF IInv
  <1> USE DEF TypeOK, QueuedHasNoStage
  <1>2. ASSUME NEW f \in Fingerprints, SubmitVideo(f) PROVE stage'[j] = None
    BY <1>1, <1>2 DEF SubmitVideo, Exists
  <1>3. ASSUME NEW i \in Jobs, RequestCancellation(i) PROVE stage'[j] = None
    BY <1>1, <1>3 DEF RequestCancellation, Exists
  <1>4. CASE ResumeWaitingJobs
    BY <1>1, <1>4 DEF ResumeWaitingJobs, ResumeRows
  <1>5. ASSUME NEW w \in Workers, ClaimNextJob(w) PROVE stage'[j] = None
    BY <1>1, <1>5 DEF ClaimNextJob, Claimable, ClaimStatus, IInv, StageNamesNextRun, RunningStates
  <1>6. ASSUME NEW w \in Workers, RenewLease(w) PROVE stage'[j] = None
    BY <1>1, <1>6 DEF RenewLease
  <1>7. ASSUME NEW w \in Workers, HandlerReturns(w) PROVE stage'[j] = None
    BY <1>1, <1>7 DEF HandlerReturns, row
  <1>8. ASSUME NEW w \in Workers, CommitAdvance(w) PROVE stage'[j] = None
    BY <1>1, <1>8, CommitOwnsRow, OutcomeShape DEF CommitAdvance, Target, RunningStates
  <1>9. ASSUME NEW w \in Workers, CommitFailure(w) PROVE stage'[j] = None
    BY <1>1, <1>9, CommitOwnsRow, OutcomeShape DEF CommitFailure, Target, RunningStates
  <1>10. ASSUME NEW w \in Workers, CommitCancelled(w) PROVE stage'[j] = None
    BY <1>1, <1>10 DEF CommitCancelled
  <1>11. ASSUME NEW w \in Workers, CommitFails(w) PROVE stage'[j] = None
    BY <1>1, <1>11 DEF CommitFails, row
  <1>12. CASE Start
    BY <1>1, <1>12 DEF Start, row
  <1>13. CASE RecoverStaleJobs
    BY <1>1, <1>13 DEF RecoverStaleJobs
  <1>14. CASE FailExhaustedRetries
    BY <1>1, <1>14 DEF FailExhaustedRetries
  <1>15. CASE LandDanglingCancellations
    BY <1>1, <1>15 DEF LandDanglingCancellations
  <1>16. CASE ReconcileWaiting
    BY <1>1, <1>16 DEF ReconcileWaiting, ResumeRows
  <1>17. CASE Tick
    BY <1>1, <1>17 DEF Tick
  <1>18. CASE Crash
    BY <1>1, <1>18 DEF Crash, row
  <1>19. CASE UNCHANGED vars
    BY <1>1, <1>19 DEF vars, row, local
  <1> QED BY <1>2, <1>3, <1>4, <1>5, <1>6, <1>7, <1>8, <1>9, <1>10,
             <1>11, <1>12, <1>13, <1>14, <1>15, <1>16, <1>17, <1>18, <1>19
          DEF Next, Step, WorkerStep, Commit, Startup

(* JobQueue implements JobLifecycle.                                       *)
THEOREM LifecycleRefinement == Spec => ImplementsLifecycle
  <1>1. Init => QueuedHasNoStage /\ Lifecycle!LCInit
    <2>1. Rank(None) = 0 /\ Phase("absent") = "absent"
      BY NoneAssumption DEF Rank, Phase, JobStatus, RunningStates
    <2> QED BY <2>1 DEF Init, QueuedHasNoStage, Lifecycle!LCInit
  <1>2. IInv /\ QueuedHasNoStage /\ [Next]_vars => QueuedHasNoStage'
    BY QueuedHasNoStageInductive
  <1>3. ASSUME NEW j \in Jobs, RowStep(j) PROVE Lifecycle!JobStep(j)
    BY <1>3
    DEF RowStep, Lifecycle!JobStep, Lifecycle!Moves, Lifecycle!Still, Lifecycle!Submit,
        Lifecycle!Begin, Lifecycle!Advance, Lifecycle!Pause, Lifecycle!Park,
        Lifecycle!Resume, Lifecycle!Complete, Lifecycle!Fail, Lifecycle!Ask,
        Lifecycle!Cancel
  <1>4. IInv /\ QueuedHasNoStage /\ [Next]_vars => [Lifecycle!LCNext]_(Lifecycle!lcVars)
    BY <1>3, NextRowStep DEF Lifecycle!LCNext
  <1> QED BY <1>1, <1>2, <1>4, InductiveInvariant, PTL
          DEF Spec, ImplementsLifecycle, Lifecycle!LCSpec

--------------------------------------------------------------------------------
(* Only a submission creates a row; no step changes a row's fingerprint.   *)
LEMMA OnlySubmitCreates ==
    ASSUME IInv, [Next]_vars, ~ \E f \in Fingerprints : SubmitVideo(f), NEW j \in Jobs
    PROVE  fp'[j] = fp[j] /\ (status[j] = "absent" => status'[j] = "absent")
  <1> DEFINE Goal == fp'[j] = fp[j] /\ (status[j] = "absent" => status'[j] = "absent")
  <1>1. TypeOK BY DEF IInv
  <1> USE DEF TypeOK, RunningStates
  <1>2. ASSUME NEW i \in Jobs, RequestCancellation(i) PROVE Goal
    BY <1>1, <1>2 DEF RequestCancellation, Exists
  <1>3. CASE ResumeWaitingJobs
    BY <1>1, <1>3 DEF ResumeWaitingJobs, ResumeRows, Resumable
  <1>4. ASSUME NEW w \in Workers, ClaimNextJob(w) PROVE Goal
    BY <1>1, <1>4 DEF ClaimNextJob, Claimable
  <1>5. ASSUME NEW w \in Workers, RenewLease(w) PROVE Goal
    BY <1>1, <1>5 DEF RenewLease
  <1>6. ASSUME NEW w \in Workers, HandlerReturns(w) PROVE Goal
    BY <1>1, <1>6 DEF HandlerReturns, row
  <1>7. ASSUME NEW w \in Workers, CommitAdvance(w) PROVE Goal
    BY <1>1, <1>7, CommitOwnsRow DEF CommitAdvance
  <1>8. ASSUME NEW w \in Workers, CommitFailure(w) PROVE Goal
    BY <1>1, <1>8, CommitOwnsRow DEF CommitFailure
  <1>9. ASSUME NEW w \in Workers, CommitCancelled(w) PROVE Goal
    BY <1>1, <1>9, CommitOwnsRow DEF CommitCancelled
  <1>10. ASSUME NEW w \in Workers, CommitFails(w) PROVE Goal
    BY <1>1, <1>10 DEF CommitFails, row
  <1>11. CASE Start
    BY <1>1, <1>11 DEF Start, row
  <1>12. CASE RecoverStaleJobs
    BY <1>1, <1>12 DEF RecoverStaleJobs
  <1>13. CASE FailExhaustedRetries
    BY <1>1, <1>13 DEF FailExhaustedRetries
  <1>14. CASE LandDanglingCancellations
    BY <1>1, <1>14 DEF LandDanglingCancellations
  <1>15. CASE ReconcileWaiting
    BY <1>1, <1>15 DEF ReconcileWaiting, ResumeRows, Resumable
  <1>16. CASE Tick
    BY <1>1, <1>16 DEF Tick
  <1>17. CASE Crash
    BY <1>1, <1>17 DEF Crash, row
  <1>18. CASE UNCHANGED vars
    BY <1>1, <1>18 DEF vars, row, local
  <1> QED BY <1>2, <1>3, <1>4, <1>5, <1>6, <1>7, <1>8, <1>9, <1>10,
             <1>11, <1>12, <1>13, <1>14, <1>15, <1>16, <1>17, <1>18
          DEF Next, Step, WorkerStep, Commit, Startup

(* submit_video admits one active job per request fingerprint, for good.   *)
THEOREM OneActiveJob == Spec => []OneActiveJobPerRequest
  <1>1. Init => OneActiveJobPerRequest
    BY DEF Init, OneActiveJobPerRequest, Exists
  <1>2. IInv /\ OneActiveJobPerRequest /\ [Next]_vars => OneActiveJobPerRequest'
    <2> SUFFICES ASSUME IInv, OneActiveJobPerRequest, [Next]_vars
                 PROVE  OneActiveJobPerRequest'
      OBVIOUS
    <2>1. CASE \E f \in Fingerprints : SubmitVideo(f)
      BY <2>1 DEF SubmitVideo, OneActiveJobPerRequest, Exists, IInv, TypeOK
    <2>2. CASE ~ \E f \in Fingerprints : SubmitVideo(f)
      <3>1. \A j \in Jobs : /\ fp'[j] = fp[j]
                            /\ Exists(j)' /\ status'[j] \notin Terminal =>
                                 Exists(j) /\ status[j] \notin Terminal
        BY <2>2, OnlySubmitCreates, FinishedRowStays DEF Exists
      <3> QED BY <3>1 DEF OneActiveJobPerRequest
    <2> QED BY <2>1, <2>2
  <1> QED BY <1>1, <1>2, InductiveInvariant, PTL DEF Spec

================================================================================
