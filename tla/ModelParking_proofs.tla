--------------------------- MODULE ModelParking_proofs -------------------------
(***************************************************************************)
(* Proofs about ModelStore, for any models, any number of concurrent       *)
(* uninstalls and any number of .trash entries, and about ModelParking,    *)
(* which composes it with any jobs and order of preference.  The second    *)
(* part uses the lemmas of the first again: what holds of the store alone  *)
(* holds of the store with jobs that wait for its models.                  *)
(***************************************************************************)
EXTENDS ModelParking, TLAPS

LOCAL INSTANCE WellFoundedInduction

(* Part one: the store alone.                                              *)

(* Tasks and requests run only while the engine serves.                    *)
AsleepIsIdle ==
    engine # "up" => /\ \A m \in Models : ipc[m] = "none"
                     /\ \A c \in Callers : upc[c] = "none"

(* What cleanup_trash finds registered is in place: it takes no files away *)
(* from a provider.                                                        *)
FreshRegistry == engine = "cleanup" => \A m \in registered : disk[m] # "none"

HasFiles(m) == disk[m] # "none" \/ \E s \in Slots : trash[m][s] # "none"
Deleted(m)  == \E c \in Callers : ucall[c] = m /\ upc[c] = "deleted"

(* A provider outlives its record and its files only until the request     *)
(* that took the record away has also dropped the registration.            *)
RegisteredIsOwned == \A m \in registered : m \in installed \/ HasFiles(m) \/ Deleted(m)

(* A model that is recorded, or whose record is about to be written.       *)
Backed(m) == m \in installed \/ (ipc[m] = "promoted" /\ op[m] = "active")

(* As long as no two uninstalls of a model overlap: the entry a request    *)
(* made is there until it is put back or the record is gone, and a request *)
(* about to empty .trash leaves a recorded model in place.                 *)
NoOverlap == \A c, d \in Callers : ucall[c] # None /\ ucall[c] = ucall[d] => c = d

FilesStay ==
    /\ \A m \in Models : Backed(m) => HasFiles(m)
    /\ \A c \in Callers : upc[c] = "moved" /\ uslot[c] # None => trash[ucall[c]][uslot[c]] # "none"
    /\ \A c \in Callers : upc[c] = "deleted" /\ Backed(ucall[c]) => disk[ucall[c]] # "none"

StoreIInv == /\ StoreTypeOK /\ RecordMatchesOperation /\ AsleepIsIdle
             /\ FreshRegistry /\ RegisteredIsOwned

(* What a step has to keep.                                                *)
StoreKept == StoreIInv' /\ (FilesStay /\ NoOverlap => FilesStay')

--------------------------------------------------------------------------------
(* Lemmas about the registry and the requests.                             *)

LEMMA NoneIsNothing == None \notin Models /\ None \notin Slots
  BY ModelsAssumption, TrashAssumption DEF Slots

(* register_available_asr_providers registers what has its files.          *)
LEMMA RefreshIsSafe ==
    ASSUME NEW retry, NEW exe, registered \subseteq Models, bad \subseteq Models, Refresh(retry, exe)
    PROVE  /\ registered' \subseteq Models /\ bad' \subseteq Models
           /\ \A m \in registered' : disk[m] = "intact"
  BY DEF Refresh, Usable

(* A request under way has a model, and an entry only once it moved it.    *)
LEMMA RequestHasModel ==
    ASSUME StoreTypeOK, NEW c \in Callers, upc[c] # "none"
    PROVE  ucall[c] \in Models
  BY DEF StoreTypeOK

LEMMA RequestOver ==
    ASSUME StoreTypeOK, NEW c \in Callers, EndRequest(c)
    PROVE  /\ upc' \in [Callers -> {"none", "checked", "moved", "deleted"}]
           /\ ucall' \in [Callers -> Models \cup {None}] /\ uslot' \in [Callers -> Slots \cup {None}]
           /\ upc'[c] = "none" /\ ucall'[c] = None /\ uslot'[c] = None
           /\ \A d \in Callers : d # c => upc'[d] = upc[d] /\ ucall'[d] = ucall[d] /\ uslot'[d] = uslot[d]
           /\ \A d \in Callers : /\ upc'[d] = "none" <=> ucall'[d] = None
                                 /\ upc'[d] \in {"none", "checked"} => uslot'[d] = None
  <1>1. /\ upc' \in [Callers -> {"none", "checked", "moved", "deleted"}]
        /\ ucall' \in [Callers -> Models \cup {None}] /\ uslot' \in [Callers -> Slots \cup {None}]
        /\ upc'[c] = "none" /\ ucall'[c] = None /\ uslot'[c] = None
        /\ \A d \in Callers : d # c => upc'[d] = upc[d] /\ ucall'[d] = ucall[d] /\ uslot'[d] = uslot[d]
    BY DEF EndRequest, StoreTypeOK
  <1> QED BY <1>1 DEF StoreTypeOK

LEMMA InitEstablishes == StoreInit => StoreIInv /\ FilesStay
  <1> SUFFICES ASSUME StoreInit PROVE StoreIInv /\ FilesStay OBVIOUS
  <1>1. StoreTypeOK BY DEF StoreInit, StoreTypeOK, Content
  <1>2. RecordMatchesOperation BY DEF StoreInit, RecordMatchesOperation
  <1>3. AsleepIsIdle /\ FreshRegistry /\ RegisteredIsOwned
    BY DEF StoreInit, AsleepIsIdle, FreshRegistry, RegisteredIsOwned
  <1>4. FilesStay BY DEF StoreInit, FilesStay, Backed
  <1> QED BY <1>1, <1>2, <1>3, <1>4 DEF StoreIInv, StoreKept

LEMMA StoreStutters == StoreIInv /\ UNCHANGED storeVars => StoreKept
  BY DEF StoreKept, StoreIInv, storeVars, rows, files, memory, uninst, StoreTypeOK, RecordMatchesOperation,
         AsleepIsIdle, FreshRegistry, RegisteredIsOwned, FilesStay, Backed, HasFiles, Deleted

(* A refresh, whatever the setting it was given and whoever runs it.       *)
LEMMA RefreshPreserves ==
    ASSUME StoreIInv, NEW retry, NEW exe, Refresh(retry, exe), wcli' \in {wcli, None},
           UNCHANGED <<rows, files, cli, engine, ipc, uninst>>
    PROVE  StoreKept
  <1>1. /\ registered' \subseteq Models /\ bad' \subseteq Models
        /\ \A m \in registered' : disk[m] = "intact"
    BY RefreshIsSafe DEF StoreIInv, StoreTypeOK
  <1>2. StoreTypeOK' BY <1>1 DEF StoreIInv, StoreTypeOK, rows, files, uninst
  <1>3. RecordMatchesOperation' /\ AsleepIsIdle'
    BY DEF StoreIInv, RecordMatchesOperation, AsleepIsIdle, rows, uninst
  <1>4. FreshRegistry' /\ RegisteredIsOwned'
    BY <1>1 DEF FreshRegistry, RegisteredIsOwned, HasFiles, files
  <1>5. FilesStay /\ NoOverlap => FilesStay'
    BY DEF StoreIInv, FilesStay, Backed, HasFiles, rows, files, uninst
  <1> QED BY <1>2, <1>3, <1>4, <1>5 DEF StoreIInv, StoreKept

(* The worker loads the settings.                                          *)
LEMMA LoadPreserves == ASSUME StoreIInv, WorkerLoad PROVE StoreKept
  <1>1. wcli' = cli /\ UNCHANGED <<rows, files, cli, registered, bad, engine, ipc, uninst>>
    BY DEF WorkerLoad
  <1>2. StoreTypeOK' BY <1>1 DEF StoreIInv, StoreTypeOK, rows, files, uninst
  <1>3. RecordMatchesOperation' /\ AsleepIsIdle' /\ FreshRegistry' /\ RegisteredIsOwned'
    BY <1>1 DEF StoreIInv, RecordMatchesOperation, AsleepIsIdle, FreshRegistry, RegisteredIsOwned,
                HasFiles, Deleted, rows, files, uninst
  <1>4. FilesStay /\ NoOverlap => FilesStay'
    BY <1>1 DEF StoreIInv, FilesStay, Backed, HasFiles, rows, files, uninst
  <1> QED BY <1>2, <1>3, <1>4 DEF StoreIInv, StoreKept

LEMMA SavePreserves == ASSUME StoreIInv, NEW b \in BOOLEAN, SaveCli(b) PROVE StoreKept
  <1>1. cli' \in BOOLEAN /\ UNCHANGED <<rows, files, memory, engine, ipc, uninst>> BY DEF SaveCli
  <1>2. StoreTypeOK' BY <1>1 DEF StoreIInv, StoreTypeOK, rows, files, memory, uninst
  <1>3. RecordMatchesOperation' /\ AsleepIsIdle' /\ FreshRegistry' /\ RegisteredIsOwned'
    BY <1>1 DEF StoreIInv, RecordMatchesOperation, AsleepIsIdle, FreshRegistry, RegisteredIsOwned,
                HasFiles, Deleted, rows, files, memory, uninst
  <1>4. FilesStay /\ NoOverlap => FilesStay'
    BY <1>1 DEF StoreIInv, FilesStay, Backed, HasFiles, rows, files, uninst
  <1> QED BY <1>2, <1>3, <1>4 DEF StoreIInv, StoreKept

(* An install task ends, the engine comes to serve, or both stay.          *)
LEMMA EndsPreserves ==
    ASSUME StoreIInv, UNCHANGED <<rows, files, cli, memory, uninst>>,
           ipc' \in [Models -> {"none", "run", "installing", "promoted", "recorded"}],
           \A m \in Models : ipc'[m] \in {ipc[m], "none"}, engine' \in {engine, "up"}
    PROVE  StoreKept
  <1>1. StoreTypeOK' BY DEF StoreIInv, StoreTypeOK, rows, files, memory, uninst
  <1>2. RecordMatchesOperation' /\ FreshRegistry' /\ RegisteredIsOwned'
    BY DEF StoreIInv, RecordMatchesOperation, FreshRegistry, RegisteredIsOwned,
           HasFiles, Deleted, rows, files, memory, uninst
  <1>3. AsleepIsIdle' BY DEF StoreIInv, AsleepIsIdle, uninst
  <1>4. FilesStay /\ NoOverlap => FilesStay'
    <2>1. \A m \in Models : Backed(m)' => Backed(m) BY DEF Backed, rows
    <2>2. \A c \in Callers : upc[c] = "deleted" => ucall[c] \in Models
      BY RequestHasModel DEF StoreIInv
    <2> QED BY <2>1, <2>2 DEF StoreIInv, FilesStay, HasFiles, files, uninst
  <1> QED BY <1>1, <1>2, <1>3, <1>4 DEF StoreIInv, StoreKept

--------------------------------------------------------------------------------
(* Installs.                                                               *)

LEMMA InstallPreserves == ASSUME StoreIInv, NEW m \in Models, Install(m) PROVE StoreKept
  <1>t. StoreTypeOK BY DEF StoreIInv
  <1>0. /\ UNCHANGED <<trash, cli, memory, engine, uninst>>
        /\ ipc' \in [Models -> {"none", "run", "installing", "promoted", "recorded"}]
        /\ \A n \in Models : n # m => ipc'[n] = ipc[n] /\ op'[n] = op[n] /\ disk'[n] = disk[n]
        /\ \A n \in Models : n # m => (n \in installed' <=> n \in installed)
        /\ engine = "up"
    <2>1. ipc[m] # "none" => engine = "up" BY DEF StoreIInv, AsleepIsIdle
    <2> QED BY <1>t, <2>1
        DEF Install, StartInstall, InstallAdvance, InstallPromote, InstallComplete, InstallFails,
            StoreTypeOK, rows, files, memory, uninst
  <1>1. /\ op' \in [Models -> {"none", "active", "completed", "failed"}]
        /\ disk' \in [Models -> Content] /\ installed' \subseteq Models
    BY <1>t
    DEF Install, StartInstall, InstallAdvance, InstallPromote, InstallComplete, InstallFails,
        StoreTypeOK, rows, files, Content
  <1>2. StoreTypeOK' BY <1>t, <1>0, <1>1 DEF StoreTypeOK, memory, uninst
  <1>3. RecordMatchesOperation'
    <2>1. m \in installed' <=> op'[m] = "completed"
      BY <1>t
      DEF StoreIInv, RecordMatchesOperation, Install, StartInstall, InstallAdvance, InstallPromote,
          InstallComplete, InstallFails, StoreTypeOK, rows
    <2> QED BY <1>0, <2>1 DEF StoreIInv, RecordMatchesOperation
  <1>4. AsleepIsIdle' /\ FreshRegistry' BY <1>0 DEF AsleepIsIdle, FreshRegistry
  <1>d. /\ disk'[m] # disk[m] => disk'[m] = "intact"
        /\ m \in installed => m \in installed'
    BY <1>t
    DEF Install, StartInstall, InstallAdvance, InstallPromote, InstallComplete, InstallFails,
        StoreTypeOK, rows, files
  <1>h. \A n \in Models : HasFiles(n) => HasFiles(n)' BY <1>0, <1>d DEF HasFiles
  <1>5. RegisteredIsOwned'
    BY <1>0, <1>d, <1>h, <1>t DEF StoreIInv, RegisteredIsOwned, Deleted, memory, uninst, StoreTypeOK
  <1>6. FilesStay /\ NoOverlap => FilesStay'
    <2> SUFFICES ASSUME FilesStay, NoOverlap PROVE FilesStay' OBVIOUS
    <2>1. \A n \in Models : Backed(n)' => Backed(n) \/ (n = m /\ disk'[m] = "intact")
      <3>1. Backed(m)' => Backed(m) \/ disk'[m] = "intact"
        BY <1>t
        DEF Backed, Install, StartInstall, InstallAdvance, InstallPromote, InstallComplete,
            InstallFails, StoreTypeOK, rows, files
      <3> QED BY <1>0, <3>1 DEF Backed
    <2>2. \A n \in Models : Backed(n)' => HasFiles(n)' BY <2>1, <1>h DEF FilesStay, HasFiles
    <2>3. \A c \in Callers : upc[c] = "deleted" => ucall[c] \in Models BY <1>t, RequestHasModel
    <2>4. ASSUME NEW c \in Callers, NEW n \in Models, upc[c] = "deleted", ucall[c] = n, Backed(n)'
          PROVE  disk'[n] # "none"
      <3>1. CASE Backed(n) BY <1>0, <1>d,  <2>4, <3>1 DEF FilesStay
      <3> QED BY <2>1, <2>4, <3>1
    <2>5. /\ \A c \in Callers : upc'[c] = "moved" /\ uslot'[c] # None =>
               trash'[ucall'[c]][uslot'[c]] # "none"
      BY <1>0 DEF FilesStay, uninst
    <2>6. ucall' = ucall /\ upc' = upc BY <1>0 DEF uninst
    <2> QED BY <2>2, <2>3, <2>4, <2>5, <2>6 DEF FilesStay, Backed
  <1> QED BY <1>2, <1>3, <1>4, <1>5, <1>6 DEF StoreIInv, StoreKept

--------------------------------------------------------------------------------
(* Uninstalls.                                                             *)

(* A step of a request that leaves the tasks, the rows of other models and *)
(* the process alone: what is left to show for the first invariants.       *)
LEMMA CheckPreserves ==
    ASSUME StoreIInv, NEW c \in Callers, NEW m \in Models, UninstallCheck(c, m)
    PROVE  StoreKept
  <1>t. StoreTypeOK BY DEF StoreIInv
  <1>0. /\ engine = "up" /\ upc[c] = "none" /\ upc' = [upc EXCEPT ![c] = "checked"]
        /\ ucall' = [ucall EXCEPT ![c] = m]
        /\ UNCHANGED <<installed, op, disk, trash, cli, registered, bad, wcli, engine, ipc, uslot>>
    BY DEF UninstallCheck, rows, files, memory
  <1>1. /\ upc' \in [Callers -> {"none", "checked", "moved", "deleted"}]
        /\ ucall' \in [Callers -> Models \cup {None}] /\ upc'[c] = "checked" /\ ucall'[c] = m
        /\ \A d \in Callers : d # c => upc'[d] = upc[d] /\ ucall'[d] = ucall[d]
    BY <1>0, <1>t DEF StoreTypeOK
  <1>2. StoreTypeOK'
    <2>1. \A d \in Callers : /\ upc'[d] = "none" <=> ucall'[d] = None
                             /\ upc'[d] \in {"none", "checked"} => uslot'[d] = None
      BY <1>0, <1>1, <1>t, NoneIsNothing DEF StoreTypeOK
    <2> QED BY <1>0, <1>1, <1>t, <2>1 DEF StoreTypeOK
  <1>3. RecordMatchesOperation' /\ AsleepIsIdle' /\ FreshRegistry'
    BY <1>0 DEF StoreIInv, RecordMatchesOperation, AsleepIsIdle, FreshRegistry
  <1>4. RegisteredIsOwned' BY <1>0, <1>1 DEF StoreIInv, RegisteredIsOwned, HasFiles, Deleted
  <1>5. FilesStay /\ NoOverlap => FilesStay'
    BY <1>0, <1>1 DEF StoreIInv, FilesStay, HasFiles, Backed
  <1> QED BY <1>2, <1>3, <1>4, <1>5 DEF StoreIInv, StoreKept

LEMMA MovePreserves ==
    ASSUME StoreIInv, NEW c \in Callers, UninstallMove(c)
    PROVE  StoreKept
  <1> DEFINE m == ucall[c]
  <1>t. StoreTypeOK BY DEF StoreIInv
  <1>0. /\ upc[c] = "checked" /\ upc' = [upc EXCEPT ![c] = "moved"]
        /\ UNCHANGED <<installed, op, cli, registered, bad, wcli, engine, ipc, ucall>>
    BY DEF UninstallMove, rows, memory
  <1>m. m \in Models /\ uslot[c] = None /\ engine = "up"
    BY <1>0, <1>t, RequestHasModel DEF StoreIInv, AsleepIsIdle, StoreTypeOK
  <1>1. /\ upc' \in [Callers -> {"none", "checked", "moved", "deleted"}] /\ upc'[c] = "moved"
        /\ \A d \in Callers : d # c => upc'[d] = upc[d]
    BY <1>0, <1>t DEF StoreTypeOK
  <1>2. CASE disk[m] = "none"
    <2>0. UNCHANGED <<disk, trash, uslot>> BY <1>2 DEF UninstallMove, files
    <2>1. StoreTypeOK'
      <3>1. \A d \in Callers : /\ upc'[d] = "none" <=> ucall'[d] = None
                               /\ upc'[d] \in {"none", "checked"} => uslot'[d] = None
        BY <1>0, <1>1, <1>t, <2>0 DEF StoreTypeOK
      <3> QED BY <1>0, <1>1, <1>t, <2>0, <3>1 DEF StoreTypeOK
    <2>2. RecordMatchesOperation' /\ AsleepIsIdle' /\ FreshRegistry'
      BY <1>0, <1>m, <2>0 DEF StoreIInv, RecordMatchesOperation, AsleepIsIdle, FreshRegistry
    <2>3. RegisteredIsOwned' BY <1>0, <1>1, <2>0 DEF StoreIInv, RegisteredIsOwned, HasFiles, Deleted
    <2>4. FilesStay /\ NoOverlap => FilesStay'
      BY <1>0, <1>1, <1>m, <2>0 DEF StoreIInv, FilesStay, HasFiles, Backed
    <2> QED BY <2>1, <2>2, <2>3, <2>4 DEF StoreIInv, StoreKept
  <1>3. CASE disk[m] # "none"
    <2>0. PICK s \in Slots : /\ trash[m][s] = "none"
                             /\ trash' = [trash EXCEPT ![m][s] = disk[m]]
                             /\ disk'  = [disk EXCEPT ![m] = "none"]
                             /\ uslot' = [uslot EXCEPT ![c] = s]
      BY <1>3 DEF UninstallMove
    <2>1. /\ disk' \in [Models -> Content] /\ trash' \in [Models -> [Slots -> Content]]
          /\ uslot' \in [Callers -> Slots \cup {None}] /\ uslot'[c] = s
          /\ \A d \in Callers : d # c => uslot'[d] = uslot[d]
          /\ trash'[m][s] # "none" /\ disk'[m] = "none"
          /\ \A n \in Models : n # m => disk'[n] = disk[n] /\ trash'[n] = trash[n]
      BY <1>3, <1>m, <1>t, <2>0 DEF StoreTypeOK, Content
    <2>2. StoreTypeOK'
      <3>1. \A d \in Callers : /\ upc'[d] = "none" <=> ucall'[d] = None
                               /\ upc'[d] \in {"none", "checked"} => uslot'[d] = None
        BY <1>0, <1>1, <1>t, <2>1 DEF StoreTypeOK
      <3> QED BY <1>0, <1>1, <1>t, <2>1, <3>1 DEF StoreTypeOK
    <2>3. RecordMatchesOperation' /\ AsleepIsIdle' /\ FreshRegistry'
      BY <1>0, <1>m DEF StoreIInv, RecordMatchesOperation, AsleepIsIdle, FreshRegistry
    <2>4. \A n \in Models : HasFiles(n) => HasFiles(n)' BY <1>m, <2>1 DEF HasFiles
    <2>5. RegisteredIsOwned'
      BY <1>0, <1>1, <1>t, <2>4 DEF StoreIInv, RegisteredIsOwned, Deleted, StoreTypeOK
    <2>6. FilesStay /\ NoOverlap => FilesStay'
      <3> SUFFICES ASSUME FilesStay, NoOverlap PROVE FilesStay' OBVIOUS
      <3>1. \A d \in Callers : d # c /\ upc[d] # "none" => ucall[d] \in Models \ {m}
        BY <1>m, <1>t, RequestHasModel, NoneIsNothing DEF NoOverlap
      <3>2. \A n \in Models : Backed(n)' => HasFiles(n)' BY <1>0, <2>4 DEF FilesStay, Backed
      <3>3. \A d \in Callers : upc'[d] = "moved" /\ uslot'[d] # None =>
               trash'[ucall[d]][uslot'[d]] # "none"
        BY <1>1, <2>1, <3>1 DEF FilesStay
      <3>4. \A d \in Callers : upc'[d] = "deleted" /\ Backed(ucall[d]) => disk'[ucall[d]] # "none"
        BY <1>1, <2>1, <3>1 DEF FilesStay
      <3> QED BY <1>0, <3>2, <3>3, <3>4 DEF FilesStay, Backed
    <2> QED BY <2>2, <2>3, <2>5, <2>6 DEF StoreIInv, StoreKept
  <1> QED BY <1>2, <1>3

(* The move or the deletion of the rows failed: the files stay, where they *)
(* are or back in their place.                                             *)
LEMMA GiveUpPreserves ==
    ASSUME StoreIInv, NEW c \in Callers, UninstallMoveFails(c) \/ UninstallDeleteFails(c)
    PROVE  StoreKept
  <1> DEFINE m == ucall[c]
             s == uslot[c]
  <1>t. StoreTypeOK BY DEF StoreIInv
  <1>0. /\ upc[c] \in {"checked", "moved"} /\ EndRequest(c)
        /\ UNCHANGED <<installed, op, cli, registered, bad, wcli, engine, ipc>>
    BY DEF UninstallMoveFails, UninstallDeleteFails, rows, files, memory
  <1>m. m \in Models /\ engine = "up"
    BY <1>0, <1>t, RequestHasModel DEF StoreIInv, AsleepIsIdle
  <1>1. \/ UNCHANGED <<disk, trash>>
        \/ /\ upc[c] = "moved" /\ s # None /\ disk[m] = "none"
           /\ disk'  = [disk EXCEPT ![m] = trash[m][s]]
           /\ trash' = [trash EXCEPT ![m][s] = "none"]
    BY DEF UninstallMoveFails, UninstallDeleteFails, files
  <1>2. /\ disk' \in [Models -> Content] /\ trash' \in [Models -> [Slots -> Content]]
        /\ \A n \in Models : n # m => disk'[n] = disk[n] /\ trash'[n] = trash[n]
        /\ \A n \in Models : HasFiles(n) => HasFiles(n)'
    <2>1. CASE UNCHANGED <<disk, trash>> BY <1>t, <2>1 DEF StoreTypeOK, HasFiles
    <2>2. CASE /\ upc[c] = "moved" /\ s # None /\ disk[m] = "none"
               /\ disk'  = [disk EXCEPT ![m] = trash[m][s]]
               /\ trash' = [trash EXCEPT ![m][s] = "none"]
      <3>1. s \in Slots BY <1>t, <2>2 DEF StoreTypeOK
      <3>2. /\ disk' \in [Models -> Content] /\ trash' \in [Models -> [Slots -> Content]]
            /\ \A n \in Models : n # m => disk'[n] = disk[n] /\ trash'[n] = trash[n]
            /\ disk'[m] = trash[m][s]
            /\ \A r \in Slots : r # s => trash'[m][r] = trash[m][r]
        BY <1>m, <1>t, <2>2, <3>1 DEF StoreTypeOK, Content
      <3> QED BY <2>2, <3>1, <3>2 DEF HasFiles
    <2> QED BY <1>1, <2>1, <2>2
  <1>3. /\ \A d \in Callers : d # c => upc'[d] = upc[d] /\ ucall'[d] = ucall[d] /\ uslot'[d] = uslot[d]
        /\ upc'[c] = "none"
    BY <1>0, <1>t, RequestOver
  <1>4. StoreTypeOK'
    <2>1. /\ upc' \in [Callers -> {"none", "checked", "moved", "deleted"}]
          /\ ucall' \in [Callers -> Models \cup {None}] /\ uslot' \in [Callers -> Slots \cup {None}]
          /\ \A d \in Callers : /\ upc'[d] = "none" <=> ucall'[d] = None
                                /\ upc'[d] \in {"none", "checked"} => uslot'[d] = None
      BY <1>0, <1>t, RequestOver
    <2> QED BY <1>0, <1>2, <1>t, <2>1 DEF StoreTypeOK
  <1>5. RecordMatchesOperation' /\ AsleepIsIdle' /\ FreshRegistry'
    BY <1>0, <1>m DEF StoreIInv, RecordMatchesOperation, AsleepIsIdle, FreshRegistry
  <1>6. RegisteredIsOwned'
    <2>1. \A n \in Models : Deleted(n) => Deleted(n)' BY <1>0, <1>3 DEF Deleted
    <2> QED BY <1>0, <1>2, <1>t, <2>1 DEF StoreIInv, RegisteredIsOwned, StoreTypeOK
  <1>7. FilesStay /\ NoOverlap => FilesStay'
    <2> SUFFICES ASSUME FilesStay, NoOverlap PROVE FilesStay' OBVIOUS
    <2>1. \A d \in Callers : d # c /\ upc[d] # "none" => ucall[d] \in Models \ {m}
      BY <1>m, <1>t, RequestHasModel, NoneIsNothing DEF NoOverlap
    <2>2. \A n \in Models : Backed(n)' => HasFiles(n)' BY <1>0, <1>2 DEF FilesStay, Backed
    <2>3. \A d \in Callers : upc'[d] = "moved" /\ uslot'[d] # None =>
             trash'[ucall'[d]][uslot'[d]] # "none"
      BY <1>2, <1>3, <2>1 DEF FilesStay
    <2>4. \A d \in Callers : upc'[d] = "deleted" /\ Backed(ucall[d]) =>
             disk'[ucall'[d]] # "none" /\ ucall'[d] = ucall[d]
      BY <1>2, <1>3, <2>1 DEF FilesStay
    <2>5. \A d \in Callers : upc'[d] = "deleted" => ucall'[d] = ucall[d] BY <1>3
    <2> QED BY <1>0, <2>2, <2>3, <2>4, <2>5 DEF FilesStay, Backed
  <1> QED BY <1>4, <1>5, <1>6, <1>7 DEF StoreIInv, StoreKept

(* The rows are gone, the registration not yet.                            *)
LEMMA DeletePreserves ==
    ASSUME StoreIInv, NEW c \in Callers, UninstallDelete(c)
    PROVE  StoreKept
  <1>t. StoreTypeOK BY DEF StoreIInv
  <1>m. PICK m \in Models : m = ucall[c] /\ engine = "up"
    BY <1>t, RequestHasModel DEF StoreIInv, AsleepIsIdle, UninstallDelete
  <1>0. /\ upc[c] = "moved" /\ installed' = installed \ {m} /\ op' = [op EXCEPT ![m] = "none"]
        /\ upc' = [upc EXCEPT ![c] = "deleted"]
        /\ UNCHANGED <<disk, trash, cli, registered, bad, wcli, engine, ipc, ucall, uslot>>
    BY <1>m DEF UninstallDelete, files, memory
  <1>1. /\ upc' \in [Callers -> {"none", "checked", "moved", "deleted"}] /\ upc'[c] = "deleted"
        /\ \A d \in Callers : d # c => upc'[d] = upc[d]
        /\ op' \in [Models -> {"none", "active", "completed", "failed"}] /\ op'[m] = "none"
        /\ \A n \in Models : n # m => op'[n] = op[n]
    BY <1>0, <1>m, <1>t DEF StoreTypeOK
  <1>2. StoreTypeOK'
    <2>1. \A d \in Callers : /\ upc'[d] = "none" <=> ucall'[d] = None
                             /\ upc'[d] \in {"none", "checked"} => uslot'[d] = None
      BY <1>0, <1>1, <1>t DEF StoreTypeOK
    <2> QED BY <1>0, <1>1, <1>t, <2>1 DEF StoreTypeOK
  <1>3. RecordMatchesOperation' /\ AsleepIsIdle' /\ FreshRegistry'
    BY <1>0, <1>1, <1>m DEF StoreIInv, RecordMatchesOperation, AsleepIsIdle, FreshRegistry
  <1>4. RegisteredIsOwned'
    <2>1. \A n \in Models : Deleted(n) => Deleted(n)' BY <1>0, <1>1 DEF Deleted
    <2>2. Deleted(m)' BY <1>0, <1>1, <1>m DEF Deleted
    <2>3. \A n \in Models : n # m /\ n \in installed => n \in installed' BY <1>0
    <2>4. \A n \in Models : HasFiles(n) => HasFiles(n)' BY <1>0 DEF HasFiles
    <2>5. registered' = registered /\ registered \subseteq Models BY <1>0, <1>t DEF StoreTypeOK
    <2> QED BY <2>1, <2>2, <2>3, <2>4, <2>5 DEF StoreIInv, RegisteredIsOwned
  <1>5. FilesStay /\ NoOverlap => FilesStay'
    <2> SUFFICES ASSUME FilesStay, NoOverlap PROVE FilesStay' OBVIOUS
    <2>1. \A n \in Models : Backed(n)' => Backed(n) /\ n # m BY <1>0, <1>1 DEF Backed
    <2>3. ~ Backed(m)' BY <1>m, <2>1
    <2>4. \A n \in Models : Backed(n)' => HasFiles(n)' BY <1>0, <2>1 DEF FilesStay, HasFiles
    <2>5. \A d \in Callers : upc'[d] = "moved" /\ uslot'[d] # None =>
             trash'[ucall'[d]][uslot'[d]] # "none"
      BY <1>0, <1>1 DEF FilesStay
    <2>6. ASSUME NEW d \in Callers, upc'[d] = "deleted", Backed(ucall[d])'
          PROVE  disk'[ucall'[d]] # "none"
      <3>1. ucall[d] \in Models BY <1>0, <1>1, <1>m, <1>t, <2>6, RequestHasModel
      <3>2. d # c BY <1>0, <1>1, <1>m, <2>6 DEF Backed
      <3>3. Backed(ucall[d]) BY <1>0, <1>1, <2>6, <3>1 DEF Backed
      <3> QED BY <1>0, <1>1, <2>6, <3>2, <3>3 DEF FilesStay
    <2> QED BY <2>4, <2>5, <2>6 DEF FilesStay
  <1> QED BY <1>2, <1>3, <1>4, <1>5 DEF StoreIInv, StoreKept

(* Reclaiming .trash and dropping the registration.                        *)
LEMMA FinishPreserves ==
    ASSUME StoreIInv, NEW c \in Callers, UninstallFinish(c)
    PROVE  StoreKept
  <1>t. StoreTypeOK BY DEF StoreIInv
  <1>m. PICK m \in Models : m = ucall[c] /\ engine = "up" /\ upc[c] = "deleted"
    BY <1>t, RequestHasModel DEF StoreIInv, AsleepIsIdle, UninstallFinish
  <1>0. /\ registered' = registered \ {m} /\ bad' = bad \ {m} /\ EndRequest(c)
        /\ UNCHANGED <<installed, op, disk, cli, wcli, engine, ipc>>
    BY <1>m DEF UninstallFinish, rows
  <1>1. /\ trash' \in [Models -> [Slots -> Content]]
        /\ \A n \in Models : n # m => trash'[n] = trash[n]
    BY <1>m, <1>t DEF UninstallFinish, StoreTypeOK
  <1>2. /\ \A d \in Callers : d # c => upc'[d] = upc[d] /\ ucall'[d] = ucall[d] /\ uslot'[d] = uslot[d]
        /\ upc'[c] = "none"
    BY <1>0, <1>t, RequestOver
  <1>3. StoreTypeOK'
    <2>1. /\ upc' \in [Callers -> {"none", "checked", "moved", "deleted"}]
          /\ ucall' \in [Callers -> Models \cup {None}] /\ uslot' \in [Callers -> Slots \cup {None}]
          /\ \A d \in Callers : /\ upc'[d] = "none" <=> ucall'[d] = None
                                /\ upc'[d] \in {"none", "checked"} => uslot'[d] = None
      BY <1>0, <1>t, RequestOver
    <2> QED BY <1>0, <1>1, <1>t, <2>1 DEF StoreTypeOK
  <1>4. RecordMatchesOperation' /\ AsleepIsIdle' /\ FreshRegistry'
    BY <1>0, <1>m DEF StoreIInv, RecordMatchesOperation, AsleepIsIdle, FreshRegistry
  <1>5. RegisteredIsOwned'
    <2>1. \A n \in Models : n # m /\ Deleted(n) => Deleted(n)' BY <1>m, <1>2 DEF Deleted
    <2>2. \A n \in Models : n # m /\ HasFiles(n) => HasFiles(n)' BY <1>0, <1>1 DEF HasFiles
    <2> QED BY <1>0, <1>t, <2>1, <2>2 DEF StoreIInv, RegisteredIsOwned, StoreTypeOK
  <1>6. FilesStay /\ NoOverlap => FilesStay'
    <2> SUFFICES ASSUME FilesStay, NoOverlap PROVE FilesStay' OBVIOUS
    <2>1. \A d \in Callers : d # c /\ upc[d] # "none" => ucall[d] \in Models \ {m}
      BY <1>m, <1>t, RequestHasModel, NoneIsNothing DEF NoOverlap
    <2>2. \A n \in Models : Backed(n)' <=> Backed(n) BY <1>0 DEF Backed
    <2>3. Backed(m) => disk[m] # "none" BY <1>m DEF StoreIInv, FilesStay
    <2>4. \A n \in Models : Backed(n) => HasFiles(n)'
      BY <1>0, <1>1, <2>3 DEF StoreIInv, FilesStay, HasFiles
    <2>5. \A d \in Callers : upc'[d] = "moved" /\ uslot'[d] # None =>
             trash'[ucall'[d]][uslot'[d]] # "none"
      BY <1>1, <1>2, <2>1 DEF FilesStay
    <2>6. \A d \in Callers : upc'[d] = "deleted" =>
             ucall'[d] = ucall[d] /\ (Backed(ucall[d]) => disk'[ucall[d]] # "none")
      BY <1>0, <1>2 DEF FilesStay
    <2> QED BY <1>0, <2>2, <2>4, <2>5, <2>6 DEF FilesStay, Backed
  <1> QED BY <1>3, <1>4, <1>5, <1>6 DEF StoreIInv, StoreKept

LEMMA UninstallPreserves == ASSUME StoreIInv, NEW c \in Callers, Uninstall(c) PROVE StoreKept
  BY CheckPreserves, MovePreserves, GiveUpPreserves, DeletePreserves, FinishPreserves DEF Uninstall

--------------------------------------------------------------------------------
(* The process.                                                            *)

LEMMA CrashPreserves == StoreIInv /\ Crash => StoreKept
  <1> SUFFICES ASSUME StoreIInv, Crash PROVE StoreKept OBVIOUS
  <1>0. /\ engine' = "down" /\ registered' = {} /\ bad' = {} /\ wcli' = None
        /\ ipc' = [m \in Models |-> "none"] /\ upc' = [c \in Callers |-> "none"]
        /\ ucall' = [c \in Callers |-> None] /\ uslot' = [c \in Callers |-> None]
        /\ UNCHANGED <<installed, op, disk, trash, cli>>
    BY DEF Crash, rows, files
  <1>1. StoreTypeOK' BY <1>0 DEF StoreIInv, StoreTypeOK
  <1>2. RecordMatchesOperation' /\ AsleepIsIdle' /\ FreshRegistry' /\ RegisteredIsOwned'
    BY <1>0 DEF StoreIInv, RecordMatchesOperation, AsleepIsIdle, FreshRegistry, RegisteredIsOwned
  <1>3. FilesStay /\ NoOverlap => FilesStay'
    <2>1. \A n \in Models : Backed(n)' => Backed(n) BY <1>0 DEF Backed
    <2> QED BY <1>0, <2>1 DEF StoreIInv, FilesStay, HasFiles
  <1> QED BY <1>1, <1>2, <1>3 DEF StoreIInv, StoreKept

(* create_runtime_app registers what is in place.                          *)
LEMMA StartPreserves == StoreIInv /\ Start => StoreKept
  <1> SUFFICES ASSUME StoreIInv, Start PROVE StoreKept OBVIOUS
  <1>0. /\ engine = "down" /\ engine' = "cleanup"
        /\ UNCHANGED <<installed, op, disk, trash, cli, wcli, ipc, upc, ucall, uslot>>
    BY DEF Start, rows, files, uninst
  <1>1. /\ registered' \subseteq Models /\ bad' \subseteq Models
        /\ \A m \in registered' : disk[m] = "intact"
    BY DEF Start, Usable
  <1>2. StoreTypeOK' BY <1>0, <1>1 DEF StoreIInv, StoreTypeOK
  <1>3. RecordMatchesOperation' /\ AsleepIsIdle'
    BY <1>0 DEF StoreIInv, RecordMatchesOperation, AsleepIsIdle
  <1>4. FreshRegistry' /\ RegisteredIsOwned'
    BY <1>0, <1>1 DEF FreshRegistry, RegisteredIsOwned, HasFiles
  <1>5. FilesStay /\ NoOverlap => FilesStay'
    BY <1>0 DEF StoreIInv, FilesStay, Backed, HasFiles
  <1> QED BY <1>2, <1>3, <1>4, <1>5 DEF StoreIInv, StoreKept

(* cleanup_trash fills the place of a recorded model, and takes entries    *)
(* only from models that are in place or have no record.                   *)
LEMMA CleanupPreserves == StoreIInv /\ CleanupTrash => StoreKept
  <1> SUFFICES ASSUME StoreIInv, CleanupTrash PROVE StoreKept OBVIOUS
  <1> DEFINE missing(m) == m \in installed /\ disk[m] = "none"
  <1>t. StoreTypeOK BY DEF StoreIInv
  <1>0. /\ engine = "cleanup" /\ engine' = "started" /\ trash' \in [Models -> [Slots -> Content]]
        /\ UNCHANGED <<installed, op, cli, registered, bad, wcli, ipc, upc, ucall, uslot>>
    BY DEF CleanupTrash, rows, memory, uninst
  <1>1. PICK pick \in [Models -> Slots \cup {None}] :
           /\ \A m \in Models : pick[m] # None =>
                missing(m) /\ pick[m] \in Slots /\ trash[m][pick[m]] # "none"
           /\ disk' = [m \in Models |-> IF pick[m] = None THEN disk[m] ELSE trash[m][pick[m]]]
           /\ \A m \in Models, s \in Slots :
                missing(m) /\ pick[m] = None => trash'[m][s] \in {trash[m][s]}
    BY DEF CleanupTrash
  <1>2. /\ disk' \in [Models -> Content]
        /\ \A m \in Models : disk[m] # "none" => disk'[m] # "none"
        /\ \A m \in installed : HasFiles(m) => HasFiles(m)'
    <2>1. disk' \in [Models -> Content] BY <1>1, <1>t DEF StoreTypeOK
    <2>2. \A m \in Models : disk[m] # "none" => disk'[m] # "none" BY <1>1
    <2>3. ASSUME NEW m \in installed, HasFiles(m) PROVE HasFiles(m)'
      <3>0. m \in Models BY <1>t DEF StoreTypeOK
      <3>1. CASE disk[m] # "none" BY <2>2, <3>0, <3>1 DEF HasFiles
      <3>2. CASE pick[m] # None BY <1>1, <3>0, <3>2 DEF HasFiles
      <3>3. CASE disk[m] = "none" /\ pick[m] = None BY <1>1, <2>3, <3>0, <3>3 DEF HasFiles
      <3> QED BY <3>1, <3>2, <3>3
    <2> QED BY <2>1, <2>2, <2>3
  <1>3. StoreTypeOK' BY <1>0, <1>2, <1>t DEF StoreTypeOK
  <1>4. RecordMatchesOperation' /\ AsleepIsIdle' /\ FreshRegistry'
    BY <1>0 DEF StoreIInv, RecordMatchesOperation, AsleepIsIdle, FreshRegistry
  <1>5. RegisteredIsOwned'
    BY <1>0, <1>2, <1>t DEF StoreIInv, FreshRegistry, RegisteredIsOwned, HasFiles, StoreTypeOK
  <1>6. FilesStay /\ NoOverlap => FilesStay'
    <2>1. /\ \A m \in Models : ipc'[m] = "none"
          /\ \A c \in Callers : upc'[c] = "none"
      BY <1>0 DEF StoreIInv, AsleepIsIdle
    <2>2. \A m \in Models : Backed(m)' => m \in installed /\ Backed(m) BY <1>0, <2>1 DEF Backed
    <2> QED BY <1>2, <2>1, <2>2 DEF StoreIInv, FilesStay
  <1> QED BY <1>3, <1>4, <1>5, <1>6 DEF StoreIInv, StoreKept

LEMMA StoreNextPreserves == StoreIInv /\ [StoreNext]_storeVars => StoreKept
  <1> SUFFICES ASSUME StoreIInv, [StoreNext]_storeVars PROVE StoreKept OBVIOUS
  <1>1. CASE WorkerLoad \/ WorkerRefresh BY <1>1, LoadPreserves, RefreshPreserves DEF WorkerRefresh
  <1>2. ASSUME NEW m \in Models, InstallEnds(m) PROVE StoreKept
    <2>1. /\ UNCHANGED <<rows, files, cli, memory, engine, uninst>>
          /\ ipc' \in [Models -> {"none", "run", "installing", "promoted", "recorded"}]
          /\ \A n \in Models : ipc'[n] \in {ipc[n], "none"}
      BY <1>2 DEF InstallEnds, StoreIInv, StoreTypeOK
    <2> QED BY <2>1, EndsPreserves
  <1>3. CASE Serve BY <1>3, EndsPreserves DEF Serve, StoreIInv, StoreTypeOK
  <1> QED BY <1>1, <1>2, <1>3, SavePreserves, InstallPreserves, UninstallPreserves, CrashPreserves,
             StartPreserves, CleanupPreserves, StoreStutters
          DEF StoreNext

--------------------------------------------------------------------------------
(* What the invariant is for.                                              *)

LEMMA StoreConsequences ==
    StoreIInv => StoreTypeOK /\ RecordMatchesOperation /\ UninstalledIsUnregistered
  <1>1. StoreIInv => UninstalledIsUnregistered
    BY DEF StoreIInv, UninstalledIsUnregistered, RegisteredIsOwned, HasFiles, Deleted, Uninstalling
  <1> QED BY <1>1 DEF StoreIInv

LEMMA FilesConsequences == StoreIInv /\ FilesStay => RecordHasFiles
  BY DEF StoreIInv, RecordHasFiles, FilesStay, Backed, HasFiles, StoreTypeOK

(* The inductive invariant.                                                *)
THEOREM StoreInductiveInvariant == StoreSpec => []StoreIInv
  <1>1. StoreIInv /\ [StoreNext]_storeVars => StoreIInv' BY StoreNextPreserves DEF StoreKept
  <1> QED BY <1>1, InitEstablishes, PTL DEF StoreSpec

(* The rows, the directories, .trash, the registry and the tasks keep      *)
(* their types through every install, uninstall, crash and cleanup.        *)
THEOREM StoreTypeCorrect == StoreSpec => []StoreTypeOK
  BY StoreInductiveInvariant, StoreConsequences, PTL

(* complete_installation and uninstall_model keep the install record and   *)
(* the latest operation in step, whatever runs concurrently.               *)
THEOREM RecordsMatchOperations == StoreSpec => []RecordMatchesOperation
  BY StoreInductiveInvariant, StoreConsequences, PTL

(* uninstall, step 4, for any number of concurrent requests.               *)
THEOREM UninstalledGetsUnregistered == StoreSpec => []UninstalledIsUnregistered
  BY StoreInductiveInvariant, StoreConsequences, PTL

(* uninstall, step 2, and cleanup_trash: as long as no two uninstalls of   *)
(* one model overlap, an install record never outlives the model's files.  *)
THEOREM RecordsHaveFiles == StoreSpec /\ []NoOverlap => []RecordHasFiles
  <1>1. StoreIInv /\ FilesStay /\ NoOverlap /\ [StoreNext]_storeVars => FilesStay'
    BY StoreNextPreserves DEF StoreKept
  <1> QED BY <1>1, InitEstablishes, StoreInductiveInvariant, FilesConsequences, PTL DEF StoreSpec

--------------------------------------------------------------------------------
(* Part two: the store with the jobs that wait for it.                     *)

(* The decision a worker acts on is the route its job is pinned to: the    *)
(* transactions in which it was made, pinned and acted upon are three.     *)
DecisionIsPinned ==
    /\ wpc \in {"pin", "lookup", "park", "asr"} /\ pin[wjob] # None => wdec.model = pin[wjob]
    /\ wpc \in {"lookup", "park", "asr"} => pin[wjob] # None

(* The startup reconciles once, after the cleanup.                         *)
StartupOnce == engine \in {"down", "cleanup"} => rpc["startup"] = "none"

ParkIInv == TypeOK /\ StoreIInv /\ DecisionIsPinned /\ StartupOnce /\ RecommendationIsPinned

--------------------------------------------------------------------------------
(* route_asr answers with a model.                                         *)
LEMMA RouteIsAModel ==
    ASSUME NEW pinned \in Models \cup {None}, NEW ready
    PROVE  /\ Route(pinned, ready) \in Models
           /\ pinned # None => Route(pinned, ready) = pinned
  <1> DEFINE R == OpToRel(<, Nat)
             choices == {i \in DOMAIN Preferred : Preferred[i] \in ready}
  <1>1. choices \subseteq Nat /\ \A i \in choices : Preferred[i] \in Models BY RouteAssumption
  <1>2. ASSUME choices # {} PROVE \E i \in choices : \A k \in choices : i <= k
    <2>1. \E x \in choices : \A y \in choices : ~ (<<y, x>> \in R)
      <3>1. IsWellFoundedOn(R, Nat) BY NatLessThanWellFounded
      <3> HIDE DEF R, choices
      <3> QED BY <1>1, <1>2, <3>1, WFMin
    <2>2. PICK x \in choices : \A y \in choices : ~ (<<y, x>> \in R) BY <2>1
    <2>3. ASSUME NEW y \in choices PROVE x <= y
      <3>1. y \in Nat /\ x \in Nat BY <1>1
      <3>2. ~ (y < x) BY <2>2, <3>1 DEF OpToRel
      <3> QED BY <3>1, <3>2
    <2> QED BY <2>3
  <1>3. Route(pinned, ready) = IF pinned # None THEN pinned
                               ELSE IF choices = {} THEN Recommended
                               ELSE Preferred[CHOOSE i \in choices : \A k \in choices : i <= k]
    BY DEF Route
  <1> HIDE DEF choices
  <1> QED BY <1>1, <1>2, <1>3, RouteAssumption

--------------------------------------------------------------------------------
(* What the steps mean for the store.                                      *)

LEMMA ParkKeepsStore == ASSUME TypeOK, StoreIInv, [Next]_vars PROVE StoreKept
  <1>1. CASE UNCHANGED storeVars BY <1>1, StoreStutters
  <1>2. ASSUME NEW retry, NEW exe, Refresh(retry, exe), wcli' \in {wcli, None},
               UNCHANGED <<rows, files, cli, engine, ipc, uninst>>
        PROVE  StoreKept
    BY <1>2, RefreshPreserves
  <1>3. ASSUME NEW r \in Reconcilers, ReconcileOver(r), engine' \in {engine, "up"} PROVE StoreKept
    <2>1. /\ UNCHANGED <<rows, files, cli, memory, uninst>>
          /\ ipc' = [m \in Models |-> IF m = r THEN "none" ELSE ipc[m]]
      BY <1>3 DEF ReconcileOver
    <2>2. /\ ipc' \in [Models -> {"none", "run", "installing", "promoted", "recorded"}]
          /\ \A m \in Models : ipc'[m] \in {ipc[m], "none"}
      BY <2>1 DEF StoreIInv, StoreTypeOK
    <2> QED BY <1>3, <2>1, <2>2, EndsPreserves
  <1>4. CASE WorkerStep
    BY <1>1, <1>2, <1>4, LoadPreserves
    DEF WorkerStep, LoadSettings, WorkerReady, WorkerRefresh, NothingToClaim, Claim,
        RouteRegistry, RouteRows, PinRoute,
        LookupProvider, Park, Transcribed
  <1>5. CASE \E r \in Reconcilers : ReconcileStep(r) \/ ReconcileFails(r)
    BY <1>1, <1>2, <1>3, <1>5
    DEF ReconcileStep, ReconcileFails, ReconcileRead, ReconcileRegister, ReconcileCheck,
        ReconcileResume, ReconcileEnd
  <1>6. CASE \E j \in Jobs : RequestCancellation(j) BY <1>1, <1>6 DEF RequestCancellation
  <1>7. CASE UNCHANGED vars BY <1>1, <1>7 DEF vars
  <1> QED BY <1>4, <1>5, <1>6, <1>7, InstallPreserves, UninstallPreserves, SavePreserves,
             CrashPreserves, StartPreserves, CleanupPreserves
          DEF Next, Step, StoreInstall, StoreUninstall, SaveSettings, EngineStart, EngineCleanup,
              EngineCrash

--------------------------------------------------------------------------------
(* The type invariant by parts.                                            *)

TableTyped ==
    /\ status \in [Jobs -> {"transcribing", "waiting", "cancelled", "left"}]
    /\ rec \in [Jobs -> Models \cup {None}]
    /\ pin \in [Jobs -> Models \cup {None}]
    /\ cancel \in [Jobs -> BOOLEAN]

WorkerTyped ==
    /\ wpc \in {"idle", "ready", "route", "rows", "pin", "lookup", "park", "asr"}
    /\ wjob \in Jobs \cup {None} /\ wreg \subseteq Models
    /\ wpc \in {"idle", "ready"} <=> wjob = None
    /\ wpc \in {"pin", "lookup", "park", "asr"} => wdec \in Decisions

ReconcTyped ==
    /\ rpc \in [Reconcilers -> {"none", "read", "register", "loop", "resume"}]
    /\ rcli \in [Reconcilers -> BOOLEAN]
    /\ rtodo \in [Reconcilers -> SUBSET Models]
    /\ rinst \in [Reconcilers -> (SUBSET Models) \cup {None}]
    /\ rmodel \in [Reconcilers -> Models \cup {None}]
    /\ \A r \in Reconcilers : rpc[r] = "resume" <=> rmodel[r] # None

InstallReconciles == \A m \in Models : ipc[m] = "recorded" <=> rpc[m] # "none"

LEMMA TypeByParts ==
    TypeOK <=> StoreTypeOK /\ TableTyped /\ WorkerTyped /\ ReconcTyped /\ InstallReconciles
  BY DEF TypeOK, TableTyped, WorkerTyped, ReconcTyped, InstallReconciles

(* What ParkIInv says of the jobs, the worker and the reconciliations.     *)
ParkPart == /\ TableTyped /\ WorkerTyped /\ ReconcTyped /\ InstallReconciles
            /\ StartupOnce /\ DecisionIsPinned /\ RecommendationIsPinned

LEMMA ParkByParts == ParkIInv <=> StoreIInv /\ ParkPart
  BY TypeByParts DEF ParkIInv, ParkPart, StoreIInv

LEMMA ParkInitEstablishes == Init => ParkIInv
  <1> SUFFICES ASSUME Init PROVE ParkIInv OBVIOUS
  <1>1. StoreIInv BY InitEstablishes DEF Init
  <1>2. TableTyped /\ WorkerTyped /\ RecommendationIsPinned /\ DecisionIsPinned
    BY DEF Init, ParkInit, TableTyped, WorkerTyped, RecommendationIsPinned, DecisionIsPinned
  <1>3. ReconcTyped BY DEF Init, ParkInit, ReconcTyped
  <1>4. InstallReconciles /\ StartupOnce
    BY DEF Init, ParkInit, StoreInit, InstallReconciles, StartupOnce, Reconcilers
  <1> QED BY <1>1, <1>2, <1>3, <1>4, ParkByParts DEF ParkPart

--------------------------------------------------------------------------------
(* The worker.                                                             *)

(* A step that leaves the tables and the reconciliations alone.            *)
LEMMA MoveOn ==
    ASSUME ParkPart, UNCHANGED <<table, reconc, ipc, engine>>, WorkerTyped',
           wjob' = wjob \/ wpc' \notin {"pin", "lookup", "park", "asr"},
           DecisionIsPinned'
    PROVE  ParkPart'
  <1>1. TableTyped' /\ RecommendationIsPinned'
    BY DEF ParkPart, TableTyped, RecommendationIsPinned, table
  <1>2. ReconcTyped' /\ InstallReconciles' /\ StartupOnce'
    BY DEF ParkPart, ReconcTyped, InstallReconciles, StartupOnce, reconc
  <1> QED BY <1>1, <1>2 DEF ParkPart

LEMMA ClaimPreserves ==
    ASSUME StoreIInv, ParkPart,
           LoadSettings \/ WorkerReady \/ NothingToClaim \/ RouteRegistry
             \/ (\E j \in Jobs : Claim(j))
    PROVE  ParkPart'
  <1>1. /\ UNCHANGED <<table, reconc, ipc, engine>> /\ UNCHANGED wdec
        /\ wpc' \in {"idle", "ready", "route", "rows"}
    BY DEF LoadSettings, WorkerLoad, WorkerReady, WorkerRefresh, NothingToClaim, RouteRegistry, Claim,
           storeVars, parkVars, worker
  <1>2. WorkerTyped'
    <2>1. registered \subseteq Models /\ WorkerTyped BY DEF StoreIInv, StoreTypeOK, ParkPart
    <2>2. CASE WorkerReady BY <2>1, <2>2 DEF WorkerReady, WorkerTyped
    <2>6. CASE LoadSettings BY <2>1, <2>6 DEF LoadSettings, WorkerTyped, parkVars, worker
    <2>3. CASE NothingToClaim BY <2>1, <2>3 DEF NothingToClaim, WorkerTyped
    <2>4. CASE RouteRegistry BY <2>1, <2>4 DEF RouteRegistry, WorkerTyped
    <2>5. ASSUME NEW j \in Jobs, Claim(j) PROVE WorkerTyped'
      BY <2>1, <2>5, JobsAssumption DEF Claim, WorkerTyped
    <2> QED BY <2>2, <2>3, <2>4, <2>5, <2>6
  <1>3. DecisionIsPinned' BY <1>1 DEF DecisionIsPinned
  <1> QED BY <1>1, <1>2, <1>3, MoveOn

LEMMA RoutePreserves == ASSUME StoreIInv, ParkPart, RouteRows PROVE ParkPart'
  <1> DEFINE m == Route(pin[wjob], wreg \cap installed)
  <1>t. WorkerTyped /\ TableTyped BY DEF ParkPart
  <1>0. /\ wpc = "rows" /\ wdec' = [model |-> m, ready |-> m \in wreg \cap installed]
        /\ wpc' = "pin" /\ wreg' = {} /\ UNCHANGED <<table, reconc, ipc, engine, wjob, pin>>
    BY DEF RouteRows, storeVars, table
  <1>1. wjob \in Jobs /\ pin[wjob] \in Models \cup {None} BY <1>0, <1>t DEF WorkerTyped, TableTyped
  <1>2. m \in Models /\ (pin[wjob] # None => m = pin[wjob]) BY <1>1, RouteIsAModel
  <1> HIDE DEF m
  <1>3. wdec' \in Decisions /\ wdec'.model = m
    <2>1. (m \in wreg \cap installed) \in BOOLEAN OBVIOUS
    <2> QED BY <1>0, <1>2, <2>1 DEF Decisions
  <1>4. WorkerTyped' BY <1>0, <1>3, <1>t DEF WorkerTyped
  <1>5. DecisionIsPinned' BY <1>0, <1>2, <1>3 DEF DecisionIsPinned
  <1> QED BY <1>0, <1>4, <1>5, MoveOn

LEMMA PinPreserves == ASSUME StoreIInv, ParkPart, PinRoute PROVE ParkPart'
  <1>t. WorkerTyped /\ TableTyped BY DEF ParkPart
  <1>0. /\ wpc = "pin" /\ pin' = [pin EXCEPT ![wjob] = wdec.model]
        /\ rec' = [rec EXCEPT ![wjob] = IF wdec.ready THEN None ELSE wdec.model]
        /\ wpc' \in {"lookup", "park"}
        /\ UNCHANGED <<status, cancel, reconc, wjob, wreg, wdec, ipc, engine>>
    BY DEF PinRoute, storeVars
  <1>1. wjob \in Jobs /\ wdec \in Decisions /\ wdec.model \in Models
    BY <1>0, <1>t DEF WorkerTyped, Decisions
  <1>2. /\ pin' \in [Jobs -> Models \cup {None}] /\ rec' \in [Jobs -> Models \cup {None}]
        /\ pin'[wjob] = wdec.model /\ rec'[wjob] \in {None, wdec.model}
        /\ \A j \in Jobs : j # wjob => pin'[j] = pin[j] /\ rec'[j] = rec[j]
    BY <1>0, <1>1, <1>t DEF TableTyped
  <1>3. TableTyped' BY <1>0, <1>2, <1>t DEF TableTyped
  <1>4. WorkerTyped' BY <1>0, <1>1, <1>t DEF WorkerTyped
  <1>5. DecisionIsPinned' BY <1>0, <1>1, <1>2, NoneIsNothing DEF DecisionIsPinned
  <1>6. RecommendationIsPinned'
    BY <1>0, <1>1, <1>2, NoneIsNothing DEF ParkPart, RecommendationIsPinned
  <1>7. ReconcTyped' /\ InstallReconciles' /\ StartupOnce'
    BY <1>0 DEF ParkPart, ReconcTyped, InstallReconciles, StartupOnce, reconc
  <1> QED BY <1>3, <1>4, <1>5, <1>6, <1>7 DEF ParkPart

LEMMA LookupPreserves == ASSUME StoreIInv, ParkPart, LookupProvider PROVE ParkPart'
  <1>0. /\ wpc = "lookup" /\ wpc' \in {"asr", "park"}
        /\ UNCHANGED <<table, reconc, wjob, wreg, wdec, ipc, engine, pin>>
    BY DEF LookupProvider, storeVars, table
  <1>1. WorkerTyped' /\ DecisionIsPinned' BY <1>0 DEF ParkPart, WorkerTyped, DecisionIsPinned
  <1> QED BY <1>0, <1>1, MoveOn

(* advance_job: the stage is over, for good, for now or to wait.           *)
LEMMA LeavePreserves == ASSUME StoreIInv, ParkPart, Park \/ Transcribed PROVE ParkPart'
  <1>t. WorkerTyped /\ TableTyped /\ DecisionIsPinned BY DEF ParkPart
  <1>0. /\ wpc \in {"park", "asr"} /\ wpc' = "idle" /\ wjob' = None /\ wreg' = {}
        /\ UNCHANGED <<rec, pin, cancel, reconc, ipc, engine>>
    BY DEF Park, Transcribed, WorkerDone, storeVars
  <1>1. wjob \in Jobs /\ pin[wjob] # None BY <1>0, <1>t DEF WorkerTyped, DecisionIsPinned
  <1>2. \E s \in {"transcribing", "waiting", "cancelled", "left"} :
           status' = [status EXCEPT ![wjob] = s]
    BY DEF Park, Transcribed
  <1>3. TableTyped' BY <1>0, <1>1, <1>2, <1>t DEF TableTyped
  <1>4. WorkerTyped' /\ DecisionIsPinned' BY <1>0 DEF WorkerTyped, DecisionIsPinned
  <1>5. RecommendationIsPinned'
    BY <1>0, <1>1, <1>2, <1>t DEF ParkPart, RecommendationIsPinned, TableTyped
  <1>6. ReconcTyped' /\ InstallReconciles' /\ StartupOnce'
    BY <1>0 DEF ParkPart, ReconcTyped, InstallReconciles, StartupOnce, reconc
  <1> QED BY <1>3, <1>4, <1>5, <1>6 DEF ParkPart

LEMMA CancelPreserves ==
    ASSUME StoreIInv, ParkPart, NEW j \in Jobs, RequestCancellation(j)
    PROVE  ParkPart'
  <1>t. TableTyped BY DEF ParkPart
  <1>0. /\ cancel' = [cancel EXCEPT ![j] = TRUE]
        /\ status' = [status EXCEPT ![j] = IF @ = "waiting" THEN "cancelled" ELSE @]
        /\ UNCHANGED <<rec, pin, worker, reconc, ipc, engine>>
    BY DEF RequestCancellation, storeVars
  <1>1. TableTyped' BY <1>0, <1>t DEF TableTyped
  <1>2. WorkerTyped' /\ DecisionIsPinned' BY <1>0 DEF ParkPart, WorkerTyped, DecisionIsPinned, worker
  <1>3. RecommendationIsPinned' BY <1>0, <1>t DEF ParkPart, RecommendationIsPinned, TableTyped
  <1>4. ReconcTyped' /\ InstallReconciles' /\ StartupOnce'
    BY <1>0 DEF ParkPart, ReconcTyped, InstallReconciles, StartupOnce, reconc
  <1> QED BY <1>1, <1>2, <1>3, <1>4 DEF ParkPart

--------------------------------------------------------------------------------
(* The reconciliations and the store's steps.                              *)

(* A step that leaves the tables and the worker alone.                     *)
LEMMA JobsAlone ==
    ASSUME ParkPart, UNCHANGED <<table, worker>>
    PROVE  TableTyped' /\ WorkerTyped' /\ DecisionIsPinned' /\ RecommendationIsPinned'
  BY DEF ParkPart, TableTyped, WorkerTyped, DecisionIsPinned, RecommendationIsPinned, table, worker

LEMMA RolesApart == /\ Models \subseteq Reconcilers /\ "settings" \in Reconcilers
                    /\ "startup" \in Reconcilers /\ "settings" \notin Models /\ "startup" \notin Models
  BY RolesAssumption DEF Reconcilers

(* A reconciliation reads, registers, or checks a model.                   *)
LEMMA ReconcilePreserves ==
    ASSUME StoreIInv, ParkPart, NEW r \in Reconcilers,
           ReconcileRead(r) \/ ReconcileRegister(r) \/ (\E m \in Models : ReconcileCheck(r, m))
    PROVE  ParkPart'
  <1>t. ReconcTyped /\ InstallReconciles /\ TableTyped BY DEF ParkPart
  <1>0. UNCHANGED <<table, worker, ipc, engine>> /\ rpc[r] # "none"
    BY DEF ReconcileRead, ReconcileRegister, ReconcileCheck, storeVars
  <1>1. ReconcTyped' /\ (\A q \in Reconcilers : rpc'[q] # "none" <=> rpc[q] # "none")
    <2>1. CASE ReconcileRead(r)
      <3> DEFINE waiting == {rec[j] : j \in {k \in Jobs : status[k] = "waiting"}} \ {None}
      <3>1. waiting \subseteq Models BY <1>t DEF TableTyped
      <3>2. /\ rpc[r] = "read" /\ rpc' = [rpc EXCEPT ![r] = "register"]
            /\ rcli' = [rcli EXCEPT ![r] = cli] /\ rtodo' = [rtodo EXCEPT ![r] = waiting]
            /\ rinst' = [rinst EXCEPT ![r] = waiting \cap installed] /\ rmodel' = rmodel
        BY <2>1 DEF ReconcileRead
      <3> HIDE DEF waiting
      <3>3. cli \in BOOLEAN BY DEF StoreIInv, StoreTypeOK
      <3>4. rcli' \in [Reconcilers -> BOOLEAN] BY <1>t, <3>2, <3>3 DEF ReconcTyped
      <3>5. /\ rtodo' \in [Reconcilers -> SUBSET Models]
            /\ rinst' \in [Reconcilers -> (SUBSET Models) \cup {None}]
        BY <1>t, <3>1, <3>2 DEF ReconcTyped
      <3> QED BY <1>t, <3>2, <3>4, <3>5 DEF ReconcTyped
    <2>2. CASE ReconcileRegister(r)
      <3>1. /\ rpc[r] = "register" /\ rpc' = [rpc EXCEPT ![r] = "loop"]
            /\ rcli' = [rcli EXCEPT ![r] = FALSE] /\ UNCHANGED <<rtodo, rinst, rmodel>>
        BY <2>2 DEF ReconcileRegister
      <3>2. rcli' \in [Reconcilers -> BOOLEAN] BY <1>t, <3>1 DEF ReconcTyped
      <3> QED BY <1>t, <3>1, <3>2 DEF ReconcTyped
    <2>3. ASSUME NEW m \in Models, ReconcileCheck(r, m)
          PROVE  ReconcTyped' /\ (\A q \in Reconcilers : rpc'[q] # "none" <=> rpc[q] # "none")
      <3>1. /\ rpc[r] = "loop" /\ rtodo' = [rtodo EXCEPT ![r] = @ \ {m}] /\ UNCHANGED <<rcli, rinst>>
            /\ \/ rpc' = [rpc EXCEPT ![r] = "resume"] /\ rmodel' = [rmodel EXCEPT ![r] = m]
               \/ UNCHANGED <<rpc, rmodel>>
        BY <2>3 DEF ReconcileCheck
      <3>2. rtodo' \in [Reconcilers -> SUBSET Models] BY <1>t, <3>1 DEF ReconcTyped
      <3>3. CASE UNCHANGED <<rpc, rmodel>> BY <1>t, <3>1, <3>2, <3>3 DEF ReconcTyped
      <3>4. CASE rpc' = [rpc EXCEPT ![r] = "resume"] /\ rmodel' = [rmodel EXCEPT ![r] = m]
        BY <1>t, <3>1, <3>2, <3>4, NoneIsNothing DEF ReconcTyped
      <3> QED BY <3>1, <3>3, <3>4
    <2> QED BY <2>1, <2>2, <2>3
  <1>2. InstallReconciles' /\ StartupOnce'
    BY <1>0, <1>1, <1>t, RolesApart DEF ParkPart, InstallReconciles, StartupOnce
  <1> QED BY <1>0, <1>1, <1>2, JobsAlone DEF ParkPart

(* resume_waiting_jobs wakes the jobs that wait for its model.             *)
LEMMA ResumePreserves ==
    ASSUME StoreIInv, ParkPart, NEW r \in Reconcilers, ReconcileResume(r)
    PROVE  ParkPart'
  <1> DEFINE woken == {j \in Jobs : status[j] = "waiting" /\ ~ cancel[j] /\ rec[j] = rmodel[r]}
  <1>t. ReconcTyped /\ InstallReconciles /\ TableTyped BY DEF ParkPart
  <1>0. /\ rpc[r] = "resume" /\ rpc' = [rpc EXCEPT ![r] = "loop"]
        /\ status' = [j \in Jobs |-> IF j \in woken THEN "transcribing" ELSE status[j]]
        /\ rec' = [j \in Jobs |-> IF j \in woken THEN None ELSE rec[j]]
        /\ rinst' = [rinst EXCEPT ![r] = None] /\ rmodel' = [rmodel EXCEPT ![r] = None]
        /\ UNCHANGED <<pin, cancel, worker, rcli, rtodo, ipc, engine>>
    BY DEF ReconcileResume, storeVars
  <1> HIDE DEF woken
  <1>1. TableTyped' BY <1>0, <1>t DEF TableTyped
  <1>2. RecommendationIsPinned' BY <1>0 DEF ParkPart, RecommendationIsPinned
  <1>3. WorkerTyped' /\ DecisionIsPinned' BY <1>0 DEF ParkPart, WorkerTyped, DecisionIsPinned, worker
  <1>4. ReconcTyped' BY <1>0, <1>t DEF ReconcTyped
  <1>5. InstallReconciles' /\ StartupOnce'
    BY <1>0, <1>t, RolesApart DEF ParkPart, InstallReconciles, StartupOnce, ReconcTyped
  <1> QED BY <1>1, <1>2, <1>3, <1>4, <1>5 DEF ParkPart

LEMMA OverPreserves ==
    ASSUME StoreIInv, ParkPart, NEW r \in Reconcilers, ReconcileOver(r),
           engine' = IF r = "startup" THEN "up" ELSE engine
    PROVE  ParkPart'
  <1>t. ReconcTyped /\ InstallReconciles BY DEF ParkPart
  <1>0. /\ rpc' = [rpc EXCEPT ![r] = "none"] /\ rcli' = [rcli EXCEPT ![r] = FALSE]
        /\ rtodo' = [rtodo EXCEPT ![r] = {}] /\ rinst' = [rinst EXCEPT ![r] = None]
        /\ rmodel' = [rmodel EXCEPT ![r] = None]
        /\ ipc' = [m \in Models |-> IF m = r THEN "none" ELSE ipc[m]]
        /\ UNCHANGED <<table, worker>>
    BY DEF ReconcileOver
  <1>1. ReconcTyped'
    <2>1. rcli' \in [Reconcilers -> BOOLEAN] BY <1>0, <1>t DEF ReconcTyped
    <2> QED BY <1>0, <1>t, <2>1 DEF ReconcTyped
  <1>2. InstallReconciles' /\ StartupOnce'
    BY <1>0, <1>t, RolesApart DEF ParkPart, InstallReconciles, StartupOnce, ReconcTyped
  <1> QED BY <1>0, <1>1, <1>2, JobsAlone DEF ParkPart

(* An install that ends well goes on to reconcile.                         *)
LEMMA InstallParks ==
    ASSUME StoreIInv, ParkPart, NEW m \in Models, StoreInstall(m)
    PROVE  ParkPart'
  <1>t. ReconcTyped /\ InstallReconciles /\ StoreTypeOK BY DEF ParkPart, StoreIInv
  <1>0. /\ rpc' = [rpc EXCEPT ![m] = IF ipc'[m] = "recorded" THEN "read" ELSE @]
        /\ UNCHANGED <<table, worker, rcli, rtodo, rinst, rmodel, engine>>
    BY DEF StoreInstall, Install, StartInstall, InstallAdvance, InstallPromote, InstallComplete,
           InstallFails
  <1>1. /\ ipc[m] # "recorded" /\ \A n \in Models : n # m => ipc'[n] = ipc[n]
    BY <1>t
    DEF StoreInstall, Install, StartInstall, InstallAdvance, InstallPromote, InstallComplete,
        InstallFails, StoreTypeOK
  <1>2. rpc[m] = "none" /\ m \in Reconcilers /\ rmodel[m] = None
    BY <1>1, <1>t, RolesApart DEF InstallReconciles, ReconcTyped
  <1>3. ReconcTyped' BY <1>0, <1>2, <1>t DEF ReconcTyped
  <1>4. InstallReconciles' /\ StartupOnce'
    BY <1>0, <1>1, <1>2, <1>t, RolesApart DEF ParkPart, InstallReconciles, StartupOnce, ReconcTyped
  <1> QED BY <1>0, <1>3, <1>4, JobsAlone DEF ParkPart

LEMMA SaveParks ==
    ASSUME StoreIInv, ParkPart, NEW b \in BOOLEAN, SaveSettings(b)
    PROVE  ParkPart'
  <1>t. ReconcTyped /\ InstallReconciles BY DEF ParkPart
  <1>0. /\ rpc["settings"] = "none" /\ rpc' = [rpc EXCEPT !["settings"] = "read"]
        /\ UNCHANGED <<table, worker, rcli, rtodo, rinst, rmodel, ipc, engine>>
    BY DEF SaveSettings, SaveCli
  <1>1. ReconcTyped' BY <1>0, <1>t, RolesApart DEF ReconcTyped
  <1>2. InstallReconciles' /\ StartupOnce'
    BY <1>0, <1>t, RolesApart DEF ParkPart, InstallReconciles, StartupOnce, ReconcTyped
  <1> QED BY <1>0, <1>1, <1>2, JobsAlone DEF ParkPart

LEMMA CleanupParks == ASSUME StoreIInv, ParkPart, EngineCleanup PROVE ParkPart'
  <1>t. ReconcTyped /\ InstallReconciles /\ TableTyped BY DEF ParkPart
  <1>0. /\ rpc' = [rpc EXCEPT !["startup"] = "read"] /\ engine = "cleanup" /\ engine' = "started"
        /\ status' = [j \in Jobs |-> IF status[j] = "waiting" /\ cancel[j]
                                       THEN "cancelled" ELSE status[j]]
        /\ UNCHANGED <<rec, pin, cancel, worker, rcli, rtodo, rinst, rmodel, ipc>>
    BY DEF EngineCleanup, CleanupTrash
  <1>1. TableTyped' BY <1>0, <1>t DEF TableTyped
  <1>2. WorkerTyped' /\ DecisionIsPinned' BY <1>0 DEF ParkPart, WorkerTyped, DecisionIsPinned, worker
  <1>3. RecommendationIsPinned' BY <1>0 DEF ParkPart, RecommendationIsPinned
  <1>4. ReconcTyped'
    <2>1. rpc["startup"] = "none" BY <1>0 DEF ParkPart, StartupOnce
    <2> QED BY <1>0, <1>t, <2>1, RolesApart DEF ReconcTyped
  <1>5. InstallReconciles' /\ StartupOnce'
    BY <1>0, <1>t, RolesApart DEF InstallReconciles, StartupOnce, ReconcTyped
  <1> QED BY <1>1, <1>2, <1>3, <1>4, <1>5 DEF ParkPart

LEMMA CrashParks == ASSUME StoreIInv, ParkPart, EngineCrash PROVE ParkPart'
  <1>0. /\ wpc' = "idle" /\ wjob' = None /\ wreg' = {}
        /\ rpc' = [r \in Reconcilers |-> "none"] /\ rcli' = [r \in Reconcilers |-> FALSE]
        /\ rtodo' = [r \in Reconcilers |-> {}] /\ rinst' = [r \in Reconcilers |-> None]
        /\ rmodel' = [r \in Reconcilers |-> None] /\ ipc' = [m \in Models |-> "none"]
        /\ UNCHANGED table
    BY DEF EngineCrash, Crash
  <1>1. TableTyped' /\ RecommendationIsPinned'
    BY <1>0 DEF ParkPart, TableTyped, RecommendationIsPinned, table
  <1>2. WorkerTyped' /\ DecisionIsPinned' BY <1>0 DEF WorkerTyped, DecisionIsPinned
  <1>3. ReconcTyped' BY <1>0 DEF ReconcTyped
  <1>4. InstallReconciles' /\ StartupOnce' BY <1>0, RolesApart DEF InstallReconciles, StartupOnce
  <1> QED BY <1>1, <1>2, <1>3, <1>4 DEF ParkPart

(* Uninstalls and starts leave the install tasks and the jobs alone.       *)
LEMMA OthersPark ==
    ASSUME StoreIInv, ParkPart, UNCHANGED parkVars, ipc' = ipc,
           engine' \in {"down", "cleanup"} => engine \in {"down", "cleanup"}
    PROVE  ParkPart'
  <1>1. UNCHANGED <<table, worker, reconc>> BY DEF parkVars
  <1>2. ReconcTyped' /\ InstallReconciles' /\ StartupOnce'
    BY <1>1 DEF ParkPart, ReconcTyped, InstallReconciles, StartupOnce, reconc
  <1> QED BY <1>1, <1>2, JobsAlone DEF ParkPart

LEMMA ParkNextPreserves == ParkIInv /\ [Next]_vars => ParkIInv'
  <1> SUFFICES ASSUME ParkIInv, [Next]_vars PROVE ParkIInv' OBVIOUS
  <1>0. TypeOK /\ StoreIInv /\ ParkPart BY ParkByParts DEF ParkIInv
  <1>1. StoreIInv' BY <1>0, ParkKeepsStore DEF StoreKept
  <1>2. ParkPart'
    <2>1. CASE WorkerStep
      BY <1>0, <2>1, ClaimPreserves, RoutePreserves, PinPreserves, LookupPreserves, LeavePreserves
      DEF WorkerStep
    <2>2. CASE \E r \in Reconcilers : ReconcileStep(r) \/ ReconcileFails(r)
      BY <1>0, <2>2, ReconcilePreserves, ResumePreserves, OverPreserves
      DEF ReconcileStep, ReconcileEnd, ReconcileFails
    <2>3. ASSUME NEW c \in Callers, StoreUninstall(c) PROVE ParkPart'
      <3>1. ipc' = ipc /\ engine' = engine /\ UNCHANGED parkVars
        BY <2>3 DEF StoreUninstall, Uninstall, UninstallCheck, UninstallMove, UninstallMoveFails,
                    UninstallDelete, UninstallDeleteFails, UninstallFinish
      <3> QED BY <1>0, <3>1, OthersPark
    <2>4. CASE EngineStart BY <1>0, <2>4, OthersPark DEF EngineStart, Start
    <2>5. CASE UNCHANGED vars BY <1>0, <2>5, OthersPark DEF vars, storeVars
    <2> QED BY <1>0, <2>1, <2>2, <2>3, <2>4, <2>5, CancelPreserves, InstallParks, SaveParks,
               CleanupParks, CrashParks
            DEF Next, Step
  <1> QED BY <1>1, <1>2
          DEF ParkIInv, ParkPart, StoreIInv, TypeOK, TableTyped, WorkerTyped, ReconcTyped,
              InstallReconciles

--------------------------------------------------------------------------------
(* The theorems.                                                           *)

(* The inductive invariant.                                                *)
THEOREM ParkInductiveInvariant == Spec => []ParkIInv
  BY ParkInitEstablishes, ParkNextPreserves, PTL DEF Spec

(* The job columns, the worker and the reconciliations stay well formed,   *)
(* and an install task reconciles exactly while it is recorded.            *)
THEOREM ParkTypeCorrect == Spec => []TypeOK
  <1>1. ParkIInv => TypeOK BY DEF ParkIInv
  <1> QED BY <1>1, ParkInductiveInvariant, PTL

(* pin_job_asr_route: what a job waits for is the model it is pinned to.   *)
THEOREM RecommendationsArePinned == Spec => []RecommendationIsPinned
  <1>1. ParkIInv => RecommendationIsPinned BY DEF ParkIInv
  <1> QED BY <1>1, ParkInductiveInvariant, PTL

(* route_asr and pin_job_asr_route: a routed job keeps its model, although *)
(* the pin is read two transactions before it is written.                  *)
THEOREM PinsAreKept == Spec => PinIsKept
  <1> DEFINE Kept == \A j \in Jobs : pin[j] # None => pin'[j] = pin[j]
  <1>1. ParkIInv /\ [Next]_vars => [Kept]_vars
    <2> SUFFICES ASSUME ParkIInv, Next, NEW j \in Jobs, pin[j] # None PROVE pin'[j] = pin[j]
      OBVIOUS
    <2>1. CASE PinRoute
      <3>1. wpc = "pin" /\ pin' = [pin EXCEPT ![wjob] = wdec.model] BY <2>1 DEF PinRoute
      <3>2. pin[wjob] # None => wdec.model = pin[wjob] BY <3>1 DEF ParkIInv, DecisionIsPinned
      <3> QED BY <3>1, <3>2 DEF ParkIInv, TypeOK
    <2>2. CASE ~ PinRoute
      <3>1. pin' = pin
        BY <2>2
        DEF Next, Step, WorkerStep, LoadSettings, WorkerReady, NothingToClaim, Claim,
            RouteRegistry, RouteRows,
            LookupProvider, Park, Transcribed, RequestCancellation, ReconcileStep, ReconcileFails,
            ReconcileRead, ReconcileRegister, ReconcileCheck, ReconcileResume, ReconcileEnd,
            ReconcileOver, StoreInstall, StoreUninstall, SaveSettings, EngineStart, EngineCleanup,
            EngineCrash, table, parkVars
      <3> QED BY <3>1
    <2> QED BY <2>1, <2>2
  <1> QED BY <1>1, ParkInductiveInvariant, PTL DEF Spec, PinIsKept

(* With the jobs, the reconciliations and their late refreshes around the  *)
(* store, its records still match its operations, ...                      *)
THEOREM ParkedRecordsMatch == Spec => []RecordMatchesOperation
  <1>1. ParkIInv => StoreIInv BY DEF ParkIInv
  <1> QED BY <1>1, ParkInductiveInvariant, StoreConsequences, PTL

(* ... an uninstalled model does not stay registered, although a           *)
(* reconciliation registers from a setting it read long before, ...        *)
THEOREM ParkedUnregistered == Spec => []UninstalledIsUnregistered
  <1>1. ParkIInv => StoreIInv BY DEF ParkIInv
  <1> QED BY <1>1, ParkInductiveInvariant, StoreConsequences, PTL

(* ... and, while no two uninstalls of one model overlap, a record has its *)
(* files.                                                                  *)
THEOREM ParkedRecordsHaveFiles == Spec /\ []NoOverlap => []RecordHasFiles
  <1>1. ParkIInv => TypeOK /\ StoreIInv BY DEF ParkIInv
  <1>2. TypeOK /\ StoreIInv /\ FilesStay /\ NoOverlap /\ [Next]_vars => FilesStay'
    BY ParkKeepsStore DEF StoreKept
  <1>3. Init => FilesStay BY InitEstablishes DEF Init
  <1> QED BY <1>1, <1>2, <1>3, ParkInductiveInvariant, FilesConsequences, PTL DEF Spec

--------------------------------------------------------------------------------
(* The composition implements the store.                                   *)

(* A refresh of the registry at any moment, with any setting, that retries *)
(* failed loads or not.                                                    *)
AnyRefresh == /\ \E retry, exe \in BOOLEAN : Refresh(retry, exe)
              /\ UNCHANGED <<rows, files, cli, wcli, engine, ipc, uninst>>

(* The startup reconciles before the engine serves.                        *)
StartupServes == rpc["startup"] # "none" => engine = "started"

LEMMA StartupServesPreserved ==
    ASSUME ParkIInv, StartupServes, [Next]_vars
    PROVE  StartupServes'
  <1>t. TypeOK /\ StoreTypeOK /\ rpc \in [Reconcilers -> {"none", "read", "register", "loop", "resume"}]
    BY DEF ParkIInv, TypeOK
  <1>1. CASE WorkerStep \/ (\E j \in Jobs : RequestCancellation(j)) \/ UNCHANGED vars
    BY <1>1 DEF StartupServes, WorkerStep, LoadSettings, WorkerLoad, WorkerReady, WorkerRefresh,
                NothingToClaim, Claim, RouteRegistry,
                RouteRows, PinRoute, LookupProvider, Park, Transcribed, RequestCancellation,
                reconc, storeVars, vars, parkVars
  <1>2. ASSUME NEW r \in Reconcilers, NEW v, rpc[r] # "none", rpc' = [rpc EXCEPT ![r] = v],
               engine' = engine
        PROVE  StartupServes'
    <2>1. rpc'["startup"] # "none" => rpc["startup"] # "none"
      <3>1. rpc'["startup"] = IF r = "startup" THEN v ELSE rpc["startup"] BY <1>t, <1>2, RolesApart
      <3> QED BY <1>2, <3>1
    <2> QED BY <1>2, <2>1 DEF StartupServes
  <1>3. ASSUME NEW r \in Reconcilers,
               ReconcileRead(r) \/ ReconcileRegister(r) \/ ReconcileResume(r)
               \/ \E m \in Models : ReconcileCheck(r, m)
        PROVE  StartupServes'
    <2>1. rpc[r] # "none" /\ engine' = engine
      BY <1>3 DEF ReconcileRead, ReconcileRegister, ReconcileResume, ReconcileCheck, storeVars
    <2>2. rpc' = rpc \/ \E v : rpc' = [rpc EXCEPT ![r] = v]
      BY <1>3 DEF ReconcileRead, ReconcileRegister, ReconcileResume, ReconcileCheck
    <2>3. CASE rpc' = rpc BY <2>1, <2>3 DEF StartupServes
    <2> QED BY <1>2, <2>1, <2>2, <2>3
  <1>4. ASSUME NEW r \in Reconcilers, ReconcileEnd(r) \/ ReconcileFails(r) PROVE StartupServes'
    <2>1. rpc' = [rpc EXCEPT ![r] = "none"] BY <1>4 DEF ReconcileEnd, ReconcileFails, ReconcileOver
    <2>2. rpc'["startup"] = IF r = "startup" THEN "none" ELSE rpc["startup"]
      BY <1>t, <2>1, RolesApart
    <2>3. r # "startup" => engine' = engine BY <1>4 DEF ReconcileEnd, ReconcileFails
    <2> QED BY <2>2, <2>3 DEF StartupServes
  <1>5. ASSUME NEW m \in Models, StoreInstall(m) PROVE StartupServes'
    <2>1. rpc'["startup"] = rpc["startup"] BY <1>t, <1>5, RolesApart DEF StoreInstall
    <2>2. engine' = engine
      BY <1>5 DEF StoreInstall, Install, StartInstall, InstallAdvance, InstallPromote,
                  InstallComplete, InstallFails
    <2> QED BY <2>1, <2>2 DEF StartupServes
  <1>6. ASSUME NEW c \in Callers, StoreUninstall(c) PROVE StartupServes'
    <2>1. UNCHANGED <<engine, rpc>>
      BY <1>6 DEF StoreUninstall, Uninstall, UninstallCheck, UninstallMove, UninstallMoveFails,
                  UninstallDelete, UninstallDeleteFails, UninstallFinish, parkVars, reconc
    <2> QED BY <2>1 DEF StartupServes
  <1>7. CASE \E b \in BOOLEAN : SaveSettings(b)
    BY <1>t, <1>7 DEF StartupServes, SaveSettings, SaveCli
  <1>8. CASE EngineStart
    BY <1>8 DEF ParkIInv, StartupOnce, StartupServes, EngineStart, Start, parkVars, reconc
  <1>9. CASE EngineCleanup BY <1>9 DEF StartupServes, EngineCleanup, CleanupTrash
  <1>10. CASE EngineCrash BY <1>10, RolesApart DEF StartupServes, EngineCrash
  <1> QED BY <1>1, <1>3, <1>4, <1>5, <1>6, <1>7, <1>8, <1>9, <1>10 DEF Next, Step, ReconcileStep

LEMMA StepImplementsStore ==
    ASSUME ParkIInv, StartupServes, [Next]_vars
    PROVE  [StoreNext \/ AnyRefresh]_storeVars
  <1>t. TypeOK BY DEF ParkIInv
  <1>1. CASE WorkerStep
    <2>1. CASE LoadSettings \/ WorkerReady BY <2>1 DEF LoadSettings, WorkerReady, StoreNext
    <2>2. CASE ~ (LoadSettings \/ WorkerReady)
      BY <1>1, <2>2 DEF WorkerStep, NothingToClaim, Claim, RouteRegistry, RouteRows, PinRoute,
                        LookupProvider, Park, Transcribed
    <2> QED BY <2>1, <2>2
  <1>2. CASE (\E j \in Jobs : RequestCancellation(j)) \/ UNCHANGED vars
    BY <1>2 DEF RequestCancellation, vars
  <1>3. ASSUME NEW r \in Reconcilers,
               ReconcileRead(r) \/ ReconcileResume(r) \/ \E m \in Models : ReconcileCheck(r, m)
        PROVE  UNCHANGED storeVars
    BY <1>3 DEF ReconcileRead, ReconcileResume, ReconcileCheck
  <1>4. ASSUME NEW r \in Reconcilers, ReconcileRegister(r) PROVE AnyRefresh
    <2>1. (r # "startup") \in BOOLEAN /\ rcli[r] \in BOOLEAN BY <1>t DEF TypeOK
    <2> QED BY <1>4, <2>1 DEF ReconcileRegister, AnyRefresh
  <1>5. ASSUME NEW r \in Reconcilers, ReconcileOver(r), rpc[r] # "none",
               engine' = IF r = "startup" THEN "up" ELSE engine
        PROVE  [StoreNext]_storeVars
    <2>1. UNCHANGED <<rows, files, cli, memory, uninst>>
          /\ ipc' = [m \in Models |-> IF m = r THEN "none" ELSE ipc[m]]
      BY <1>5 DEF ReconcileOver
    <2>i. ipc \in [Models -> {"none", "run", "installing", "promoted", "recorded"}]
          /\ \A m \in Models : ipc[m] = "recorded" <=> rpc[m] # "none"
      BY <1>t DEF TypeOK, StoreTypeOK
    <2>2. CASE r \in Models
      <3>1. ipc[r] = "recorded" /\ ipc' = [ipc EXCEPT ![r] = "none"] BY <1>5, <2>1, <2>2, <2>i
      <3>2. engine' = engine BY <1>5, <2>2, RolesApart
      <3>3. InstallEnds(r) BY <2>1, <3>1, <3>2 DEF InstallEnds
      <3> QED BY <2>2, <3>3 DEF StoreNext
    <2>3. CASE r \notin Models
      <3>1. ipc' = ipc BY <2>1, <2>3, <2>i
      <3>2. CASE r = "startup"
        <4>1. Serve BY <1>5, <2>1, <3>1, <3>2 DEF Serve, StartupServes
        <4> QED BY <4>1 DEF StoreNext
      <3>3. CASE r # "startup" BY <1>5, <2>1, <3>1, <3>3 DEF storeVars
      <3> QED BY <3>2, <3>3
    <2> QED BY <2>2, <2>3
  <1>6. ASSUME NEW r \in Reconcilers, ReconcileEnd(r) \/ ReconcileFails(r)
        PROVE  [StoreNext]_storeVars
    BY <1>5, <1>6 DEF ReconcileEnd, ReconcileFails
  <1>7. ASSUME NEW m \in Models, StoreInstall(m) PROVE StoreNext BY <1>7 DEF StoreInstall, StoreNext
  <1>8. ASSUME NEW c \in Callers, StoreUninstall(c) PROVE StoreNext
    BY <1>8 DEF StoreUninstall, StoreNext
  <1>9. CASE (\E b \in BOOLEAN : SaveSettings(b)) \/ EngineStart \/ EngineCleanup \/ EngineCrash
    BY <1>9 DEF SaveSettings, EngineStart, EngineCleanup, EngineCrash, StoreNext
  <1> QED BY <1>1, <1>2, <1>3, <1>4, <1>6, <1>7, <1>8, <1>9 DEF Next, Step, ReconcileStep

(* Seen through its rows, directories, registry and tasks, the store with  *)
(* the jobs around it is the store, but for the reconciliations' refreshes:*)
(* the steps of a reconciliation are stutters, refreshes, and the step     *)
(* that ends an install or lets the engine serve.                          *)
THEOREM JobsUseTheStore == Spec => StoreInit /\ [][StoreNext \/ AnyRefresh]_storeVars
  <1>1. Init => StoreInit /\ StartupServes
    BY RolesApart DEF Init, ParkInit, StartupServes
  <1>2. ParkIInv /\ StartupServes /\ [Next]_vars => StartupServes' BY StartupServesPreserved
  <1>3. ParkIInv /\ StartupServes /\ [Next]_vars => [StoreNext \/ AnyRefresh]_storeVars
    BY StepImplementsStore
  <1> QED BY <1>1, <1>2, <1>3, ParkInductiveInvariant, PTL DEF Spec

--------------------------------------------------------------------------------
(* When a recorded model is the intact one.                                *)

(* What the startup cleanup may restore was not half deleted.              *)
NothingHalfDeleted ==
    engine = "cleanup" => \A m \in installed, s \in Slots : trash[m][s] # "broken"

(* No directory is broken, nor what a request would put back.              *)
NothingBroken ==
    /\ \A m \in Models : disk[m] # "broken"
    /\ \A c \in Callers : upc[c] = "moved" /\ uslot[c] # None
                          => trash[ucall[c]][uslot[c]] # "broken"

LEMMA NothingBreaks ==
    ASSUME StoreIInv, NoOverlap, NothingHalfDeleted, NothingBroken,
           [StoreNext \/ AnyRefresh]_storeVars
    PROVE  NothingBroken'
  <1>t. /\ StoreTypeOK /\ disk \in [Models -> Content] /\ trash \in [Models -> [Slots -> Content]]
        /\ upc \in [Callers -> {"none", "checked", "moved", "deleted"}]
        /\ ucall \in [Callers -> Models \cup {None}] /\ uslot \in [Callers -> Slots \cup {None}]
    BY DEF StoreIInv, StoreTypeOK
  <1>u. \A c \in Callers : upc[c] # "none" => ucall[c] \in Models
    BY DEF StoreIInv, StoreTypeOK
  <1> USE DEF NothingBroken
  <1>1. CASE UNCHANGED <<files, uninst>> BY <1>1 DEF files, uninst
  <1>2. CASE WorkerLoad \/ WorkerRefresh \/ AnyRefresh \/ (\E b \in BOOLEAN : SaveCli(b))
             \/ Start \/ Serve
             \/ UNCHANGED storeVars
    BY <1>1, <1>2 DEF WorkerLoad, WorkerRefresh, AnyRefresh, SaveCli, Start, Serve, storeVars
  <1>3. ASSUME NEW m \in Models, Install(m) \/ InstallEnds(m) PROVE NothingBroken'
    <2>1. CASE InstallPromote(m) BY <1>t, <2>1 DEF InstallPromote, uninst
    <2>2. CASE ~ InstallPromote(m)
      BY <1>1, <1>3, <2>2 DEF Install, InstallEnds, StartInstall, InstallAdvance, InstallComplete,
                              InstallFails
    <2> QED BY <2>1, <2>2
  <1>4. CASE Crash BY <1>4 DEF Crash, files
  <1>5. CASE CleanupTrash
    <2>1. \A c \in Callers : upc[c] = "none" /\ upc'[c] = "none"
      BY <1>5 DEF CleanupTrash, StoreIInv, AsleepIsIdle, uninst
    <2>2. ASSUME NEW m \in Models PROVE disk'[m] # "broken"
      <3>1. disk'[m] = disk[m] \/ (m \in installed /\ \E s \in Slots : disk'[m] = trash[m][s])
        BY <1>t, <1>5 DEF CleanupTrash
      <3> QED BY <1>5, <3>1 DEF NothingHalfDeleted, CleanupTrash
    <2> QED BY <2>1, <2>2
  <1>6. ASSUME NEW c \in Callers, NEW m \in Models, UninstallCheck(c, m) PROVE NothingBroken'
    BY <1>t, <1>6 DEF UninstallCheck, files
  <1>7. ASSUME NEW c \in Callers, UninstallMove(c) PROVE NothingBroken'
    <2> DEFINE m == ucall[c]
    <2>1. m \in Models /\ upc[c] = "checked" /\ ucall' = ucall /\ upc' = [upc EXCEPT ![c] = "moved"]
      BY <1>u, <1>t, <1>7 DEF UninstallMove
    <2>2. CASE disk[m] = "none"
      <3>1. UNCHANGED <<files, uslot>> BY <1>7, <2>2 DEF UninstallMove
      <3>2. uslot[c] = None BY <2>1 DEF StoreIInv, StoreTypeOK
      <3> QED BY <1>t, <2>1, <3>1, <3>2 DEF files
    <2>3. CASE disk[m] # "none"
      <3>1. PICK s \in Slots : /\ trash[m][s] = "none"
                              /\ trash' = [trash EXCEPT ![m][s] = disk[m]]
                              /\ disk'  = [disk EXCEPT ![m] = "none"]
                              /\ uslot' = [uslot EXCEPT ![c] = s]
        BY <1>7, <2>3 DEF UninstallMove
      <3>2. \A k \in Models : disk'[k] # "broken" BY <1>t, <3>1
      <3>3. trash'[ucall'[c]][uslot'[c]] # "broken" BY <1>t, <2>1, <3>1
      <3>4. ASSUME NEW d \in Callers, d # c, upc'[d] = "moved", uslot'[d] # None
            PROVE  trash'[ucall'[d]][uslot'[d]] # "broken"
        <4>1. upc[d] = "moved" /\ uslot[d] # None /\ uslot'[d] = uslot[d] BY <1>t, <2>1, <3>1, <3>4
        <4>2. ucall[d] \in Models /\ ucall[d] # m
          BY <1>u, <2>1, <3>4, <4>1, ModelsAssumption DEF NoOverlap
        <4> QED BY <1>t, <2>1, <3>1, <4>1, <4>2
      <3> QED BY <3>2, <3>3, <3>4
    <2> QED BY <2>2, <2>3
  <1>8. ASSUME NEW c \in Callers, UninstallMoveFails(c) PROVE NothingBroken'
    BY <1>t, <1>8 DEF UninstallMoveFails, EndRequest, files
  <1>9. ASSUME NEW c \in Callers, UninstallDelete(c) PROVE NothingBroken'
    BY <1>t, <1>9 DEF UninstallDelete, files
  <1>10. ASSUME NEW c \in Callers, UninstallDeleteFails(c) PROVE NothingBroken'
    <2> DEFINE m == ucall[c]
               s == uslot[c]
    <2>1. /\ m \in Models /\ upc[c] = "moved" /\ EndRequest(c)
          /\ \/ /\ s # None
                /\ disk'  = [disk EXCEPT ![m] = trash[m][s]]
                /\ trash' = [trash EXCEPT ![m][s] = "none"]
             \/ UNCHANGED files
      BY <1>u, <1>10 DEF UninstallDeleteFails
    <2>2. \A d \in Callers : upc'[d] = "moved"
            => d # c /\ upc[d] = "moved" /\ ucall'[d] = ucall[d] /\ uslot'[d] = uslot[d]
      BY <1>t, <2>1 DEF EndRequest
    <2>3. CASE UNCHANGED files BY <2>2, <2>3 DEF files
    <2>4. CASE ~ UNCHANGED files
      <3>1. \A k \in Models : disk'[k] # "broken" BY <1>t, <2>1, <2>4
      <3>2. ASSUME NEW d \in Callers, upc'[d] = "moved", uslot'[d] # None
            PROVE  trash'[ucall'[d]][uslot'[d]] # "broken"
        <4>1. ucall[d] \in Models /\ ucall[d] # m
          BY <1>u, <2>1, <2>2, <3>2, ModelsAssumption DEF NoOverlap
        <4> QED BY <1>t, <2>1, <2>2, <2>4, <3>2, <4>1
      <3> QED BY <3>1, <3>2
    <2> QED BY <2>3, <2>4
  <1>11. ASSUME NEW c \in Callers, UninstallFinish(c) PROVE NothingBroken'
    <2> DEFINE m == ucall[c]
    <2>1. m \in Models /\ upc[c] = "deleted" /\ EndRequest(c) /\ disk' = disk
      BY <1>u, <1>11 DEF UninstallFinish
    <2>2. trash' = trash \/ \E left \in [Slots -> Content] : trash' = [trash EXCEPT ![m] = left]
      BY <1>11 DEF UninstallFinish
    <2>3. ASSUME NEW d \in Callers, upc'[d] = "moved", uslot'[d] # None
          PROVE  trash'[ucall'[d]][uslot'[d]] # "broken"
      <3>1. d # c /\ upc[d] = "moved" /\ ucall'[d] = ucall[d] /\ uslot'[d] = uslot[d]
        BY <1>t, <2>1, <2>3 DEF EndRequest
      <3>2. ucall[d] \in Models /\ ucall[d] # m
        BY <1>u, <2>1, <3>1, ModelsAssumption DEF NoOverlap
      <3>3. trash'[ucall[d]] = trash[ucall[d]] BY <1>t, <2>2, <3>2
      <3> QED BY <2>3, <3>1, <3>3
    <2> QED BY <2>1, <2>3
  <1> QED BY <1>2, <1>3, <1>4, <1>5, <1>6, <1>7, <1>8, <1>9, <1>10, <1>11
          DEF StoreNext, Uninstall

(* The docstring of cleanup_trash takes any leftover for the model that    *)
(* was moved away.  It is right, and a recorded model in place is intact,  *)
(* if no two uninstalls of a model overlap and no deletion stopped half    *)
(* way before a start, which is the case the store_restore run exhibits.   *)
THEOREM RestoredModelsAreIntact ==
    /\ StoreSpec /\ []NoOverlap /\ []NothingHalfDeleted => []RecordedModelIntact
    /\ Spec /\ []NoOverlap /\ []NothingHalfDeleted => []RecordedModelIntact
  <1>1. StoreInit => NothingBroken BY DEF StoreInit, NothingBroken
  <1>2. StoreIInv /\ NoOverlap /\ NothingHalfDeleted /\ NothingBroken
        /\ [StoreNext \/ AnyRefresh]_storeVars => NothingBroken'
    BY NothingBreaks
  <1>3. [StoreNext]_storeVars => [StoreNext \/ AnyRefresh]_storeVars OBVIOUS
  <1>4. StoreIInv /\ NothingBroken => RecordedModelIntact
    BY DEF StoreIInv, StoreTypeOK, NothingBroken, RecordedModelIntact
  <1>5. ParkIInv => StoreIInv BY DEF ParkIInv
  <1>6. StoreSpec => StoreInit /\ [][StoreNext]_storeVars BY DEF StoreSpec
  <1>7. StoreSpec /\ []NoOverlap /\ []NothingHalfDeleted => []RecordedModelIntact
    BY <1>1, <1>2, <1>3, <1>4, <1>6, StoreInductiveInvariant, PTL
  <1>8. Spec /\ []NoOverlap /\ []NothingHalfDeleted => []RecordedModelIntact
    BY <1>1, <1>2, <1>4, <1>5, JobsUseTheStore, ParkInductiveInvariant, PTL
  <1> QED BY <1>7, <1>8
================================================================================
