------------------------------- MODULE Host_proofs -----------------------------
(***************************************************************************)
(* What is proved of the start of the engine, of its settings and of its   *)
(* clients' files holds of the composition of the three that the host run  *)
(* checks: every step of the host is a step of one part and leaves the     *)
(* variables of the others alone.                                          *)
(***************************************************************************)
EXTENDS MCHost, EngineProcess_proofs, SettingsWrite_proofs, ClientConfig_proofs

hostVars == <<part, startVars, putVars, clientVars>>

(* The composition implements each of its parts: a behaviour of the host,  *)
(* seen through the variables of one part, is a behaviour of that part.    *)
THEOREM HostImplementsItsParts == HostSpec => StartSpec /\ PutSpec /\ ClientSpec
  <1>1. HostInit => StartInit /\ PutInit /\ ClientInit BY DEF HostInit
  <1>2. [HostNext]_hostVars => [StartNext]_startVars /\ [PutNext]_putVars /\ [ClientNext]_clientVars
    BY DEF HostNext, hostVars
  <1>3. HostSpec => HostInit /\ [][HostNext]_hostVars /\ StartFairness BY DEF HostSpec, hostVars
  <1> QED BY <1>1, <1>2, <1>3, PTL DEF StartSpec, PutSpec, ClientSpec

(* Processes, tables, vault, files and requests keep their types.          *)
THEOREM HostTypeCorrect == HostSpec => []HostTypeOK
  <1>1. StartTypeOK /\ SettingsTypeOK /\ ClientTypeOK => HostTypeOK BY DEF HostTypeOK
  <1> QED BY <1>1, HostImplementsItsParts, StartTypeCorrect, SettingsTypeCorrect,
             ClientTypeCorrect, PTL

(* The safety properties of the host run, for every value of its constants.*)
THEOREM HostIsSafe ==
    HostSpec => /\ []OneEngine /\ []BackupHoldsItsVersion
                /\ []RowNamesItsKey /\ []CompletedIsRunnable /\ []KeyStaysAtItsEndpoint
                /\ []PointerFollowsRow /\ []UnadoptedKeysAreGone /\ []AnswersAgree
                /\ NothingIsLost /\ OperationsAreSurgical /\ RestoreIsReversible
  BY HostImplementsItsParts, OnlyOneEngine, BackupsCanBeRestored, NeverAWrongBinding,
     SetupStaysRunnable, KeysStayHome, PointerAgrees, NoKeyIsLeft, AnswersNeverDisagree,
     NothingOfTheClientIsLost, OperationsStaySurgical, RestoreStaysReversible, PTL
================================================================================
