---------------------------- MODULE MCModelParking -----------------------------
(* Small instances of ModelParking: m1 is a sherpa-onnx model, w the         *)
(* whisper.cpp model, whose provider also needs the configured CLI.          *)
EXTENDS ModelParking

CONSTANTS m1, w, c1, j1, j2

TwoModels == {m1, w}
OneModel  == {w}
Whisper   == {w}
OneCaller == {c1}
NoCaller  == {}
OneJob    == {j1}
TwoJobs   == {j1, j2}
Both      == <<m1, w>>
Only      == <<w>>

(* Reconciliations run to their end: no fairness for users, installs or the  *)
(* restart; the worker loop is never stuck.  The subscripts are the          *)
(* variables of which such a step always changes one.                        *)
Fairness ==
    /\ WF_<<wpc, wcli>>(WorkerStep)
    /\ \A r \in Reconcilers : WF_<<rpc, rtodo>>(ReconcileStep(r))

SpecNoDbError == Init /\ [][Step]_vars /\ Fairness

(* No cancellation either: the whole of installs, uninstalls, settings,      *)
(* reconciliations and crashes around a job that wants its model.            *)
CalmStep ==
    \/ WorkerStep
    \/ \E r \in Reconcilers : ReconcileStep(r)
    \/ \E m \in Models : StoreInstall(m)
    \/ \E c \in Callers : StoreUninstall(c)
    \/ \E b \in BOOLEAN : SaveSettings(b)
    \/ EngineStart \/ EngineCleanup \/ EngineCrash

SpecCalm == Init /\ [][CalmStep]_vars /\ Fairness
================================================================================
