----------------------------- MODULE StageHandlers -----------------------------
(***************************************************************************)
(* The nine stage handlers of runtime/handlers.py, each as the set of      *)
(* StageOutcomes its execute() can return, given the artifact types the    *)
(* job has registered and whether a cancellation is pending when it polls. *)
(* The outside world (the platform, the ASR engine, the LLM, the disk) is  *)
(* the choice within the set; an exception that escapes execute() becomes  *)
(* a fatal INTERNAL_ERROR in the worker, so Fatal is always in it.         *)
(***************************************************************************)
EXTENDS JobStates

(* Registered by the stage commits; "nothing": no ArtifactRecord.          *)
ArtifactTypes ==
    {"video_metadata", "audio", "platform_transcript", "cleaned_transcript",
     "chunks", "chunk_summaries", "report"}

Success(to, art) == [kind |-> "success", to |-> to, art |-> art]
Transient        == [kind |-> "transient", to |-> "retry_wait", art |-> "nothing"]
Fatal            == [kind |-> "fatal", to |-> "failed", art |-> "nothing"]
CancelledByUser  == [kind |-> "cancelled", to |-> "cancelled", art |-> "nothing"]

FetchingMetadataHandler ==
    {Success("fetching_subtitles", "video_metadata"), Transient, Fatal}

(* No usable subtitles: on to ASR, or ASR_DISABLED.                        *)
FetchingSubtitlesHandler ==
    {Success("cleaning_transcript", "platform_transcript"),
     Success("downloading_audio", "nothing"), Transient, Fatal}

DownloadingAudioHandler ==
    {Success("transcribing", "audio"), Transient, Fatal}

(* The model is looked up before the audio: a job is parked without        *)
(* loading anything.  The ASR provider polls is_cancelled between segments.*)
TranscribingHandler(arts, flagged) ==
    {Success("waiting_for_model", "nothing"), Fatal}
        \cup (IF "audio" \in arts
                THEN {Success("cleaning_transcript", "platform_transcript"), Transient}
                ELSE {})
        \cup (IF "audio" \in arts /\ flagged THEN {CancelledByUser} ELSE {})

CleaningTranscriptHandler(arts) ==
    {Fatal} \cup (IF "platform_transcript" \in arts
                    THEN {Success("chunking", "cleaned_transcript")} ELSE {})

ChunkingHandler(arts) ==
    {Fatal} \cup (IF "cleaned_transcript" \in arts
                    THEN {Success("summarizing_chunks", "chunks")} ELSE {})

(* Polls is_cancelled before every chunk: a cancellation that arrives      *)
(* after the last poll is not seen.                                        *)
SummarizingChunksHandler(arts, flagged) ==
    {Fatal}
        \cup (IF "chunks" \in arts
                THEN {Success("generating_report", "chunk_summaries"), Transient}
                ELSE {})
        \cup (IF "chunks" \in arts /\ flagged THEN {CancelledByUser} ELSE {})

GeneratingReportHandler(arts) ==
    {Fatal} \cup (IF {"video_metadata", "chunk_summaries"} \subseteq arts
                    THEN {Success("indexing", "report"), Transient} ELSE {})

(* The report is upserted into the index in a transaction of its own, then *)
(* the job completes without an artifact.                                  *)
IndexingHandler(arts) ==
    {Fatal} \cup (IF "report" \in arts THEN {Success("completed", "nothing")} ELSE {})

(* build_handlers: the dispatch by status.                                 *)
HandlerOutcomes(status, arts, flagged) ==
    CASE status = "fetching_metadata"   -> FetchingMetadataHandler
      [] status = "fetching_subtitles"  -> FetchingSubtitlesHandler
      [] status = "downloading_audio"   -> DownloadingAudioHandler
      [] status = "transcribing"        -> TranscribingHandler(arts, flagged)
      [] status = "cleaning_transcript" -> CleaningTranscriptHandler(arts)
      [] status = "chunking"            -> ChunkingHandler(arts)
      [] status = "summarizing_chunks"  -> SummarizingChunksHandler(arts, flagged)
      [] status = "generating_report"   -> GeneratingReportHandler(arts)
      [] status = "indexing"            -> IndexingHandler(arts)
      [] OTHER                        -> {}

Outcomes ==
    [kind : {"success", "transient", "fatal", "cancelled"},
     to : JobStatus, art : ArtifactTypes \cup {"nothing"}]
================================================================================
