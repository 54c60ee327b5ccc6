----------------------------- MODULE JobLifecycle ------------------------------
(***************************************************************************)
(* What the engine promises about one job, as docs/JOB_STATE_MACHINE.md    *)
(* describes it to the user, without leases, workers, attempts or crashes: *)
(* a job moves forward through the pipeline and never back, is parked only *)
(* at the ASR stage, completes only from the last stage, is cancelled only *)
(* because somebody asked, is neither parked nor resumed once somebody     *)
(* did, and stays where it ended.                                          *)
(***************************************************************************)
EXTENDS Naturals

CONSTANTS Jobs, AsrStage, LastStage

VARIABLES
    phase,      \* absent, pending, active, parked, completed, failed, cancelled
    progress,   \* the furthest stage entered, 0 before the first
    asked       \* has a cancellation been requested

lcVars == <<phase, progress, asked>>

LCInit ==
    /\ phase    = [j \in Jobs |-> "absent"]
    /\ progress = [j \in Jobs |-> 0]
    /\ asked    = [j \in Jobs |-> FALSE]

Moves(j, from, to) == phase[j] \in from /\ phase'[j] = to
Still(j)           == progress'[j] = progress[j] /\ asked'[j] = asked[j]

Submit(j)   == Moves(j, {"absent"}, "pending") /\ Still(j)
Begin(j)    == /\ Moves(j, {"pending"}, "active")
               /\ progress'[j] = IF progress[j] = 0 THEN 1 ELSE progress[j]
               /\ asked'[j] = asked[j]
Advance(j)  == /\ Moves(j, {"active"}, "active")
               /\ progress'[j] \in progress[j] + 1 .. LastStage
               /\ asked'[j] = asked[j]
Pause(j)    == Moves(j, {"active"}, "pending") /\ Still(j)
Park(j)     == /\ Moves(j, {"active"}, "parked") /\ Still(j)
               /\ progress[j] = AsrStage /\ ~ asked[j]
Resume(j)   == Moves(j, {"parked"}, "active") /\ Still(j) /\ ~ asked[j]
Complete(j) == Moves(j, {"active"}, "completed") /\ Still(j) /\ progress[j] = LastStage
Fail(j)     == Moves(j, {"pending", "active"}, "failed") /\ Still(j)
Ask(j)      == /\ Moves(j, {"active"}, "active")
               /\ progress'[j] = progress[j] /\ asked'[j]
Cancel(j)   == /\ Moves(j, {"pending", "active", "parked"}, "cancelled")
               /\ progress'[j] = progress[j] /\ asked'[j]

(* A recovery sweep moves several jobs at once.                            *)
JobStep(j) ==
    \/ phase'[j] = phase[j] /\ Still(j)
    \/ Submit(j) \/ Begin(j) \/ Advance(j) \/ Pause(j) \/ Park(j) \/ Resume(j)
    \/ Complete(j) \/ Fail(j) \/ Ask(j) \/ Cancel(j)

LCNext == \A j \in Jobs : JobStep(j)

LCSpec == LCInit /\ [][LCNext]_lcVars
================================================================================
