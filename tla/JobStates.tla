------------------------------- MODULE JobStates -------------------------------
(***************************************************************************)
(* The canonical job states (jobs/states.py) and the transition table      *)
(* every status write is validated against (jobs/transitions.py).          *)
(***************************************************************************)
EXTENDS Naturals

RunningStates ==
    {"fetching_metadata", "fetching_subtitles", "downloading_audio",
     "transcribing", "cleaning_transcript", "chunking",
     "summarizing_chunks", "generating_report", "indexing"}

Terminal == {"completed", "failed", "cancelled"}

JobStatus ==
    RunningStates \cup Terminal
        \cup {"queued", "retry_wait", "waiting_for_model"}

LinearChain ==
    {<<"queued", "fetching_metadata">>,
     <<"fetching_metadata", "fetching_subtitles">>,
     <<"fetching_subtitles", "downloading_audio">>,
     <<"fetching_subtitles", "cleaning_transcript">>,
     <<"downloading_audio", "transcribing">>,
     <<"transcribing", "waiting_for_model">>,
     <<"waiting_for_model", "transcribing">>,
     <<"transcribing", "cleaning_transcript">>,
     <<"cleaning_transcript", "chunking">>,
     <<"chunking", "summarizing_chunks">>,
     <<"summarizing_chunks", "generating_report">>,
     <<"generating_report", "indexing">>,
     <<"indexing", "completed">>}

(* _build_allowed: the pairs validate_transition lets through.             *)
Allowed(src, dst) ==
    \/ <<src, dst>> \in LinearChain
    \/ src \in RunningStates /\ dst \in {"retry_wait", "failed"}
    \/ src = "queued" /\ dst \in {"failed", "cancelled"}
    \/ src = "waiting_for_model" /\ dst \in {"transcribing", "failed", "cancelled"}
    \/ src = "retry_wait" /\ dst \in RunningStates \cup {"failed", "cancelled"}

================================================================================
