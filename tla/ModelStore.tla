------------------------------ MODULE ModelStore -------------------------------
(***************************************************************************)
(* The installed speech models: their rows in SQLite, their directories    *)
(* and .trash on disk, and the provider registry in memory, under installs *)
(* (asr/installer.py), uninstalls and startup cleanup (asr/service.py) and *)
(* the expected-state registration (asr/registration.py).                  *)
(*                                                                         *)
(* Everything runs in one asyncio process: code between two awaits is one  *)
(* step, and every database transaction is one step.  A directory is       *)
(* "intact", "broken" (a partial deletion took required files) or "none".  *)
(***************************************************************************)
EXTENDS Naturals, FiniteSets

CONSTANTS
    Models,     \* the built-in model ids; one version each
    NeedsCli,   \* the models whose provider also needs the configured CLI
    Callers,    \* concurrent DELETE /api/models/{id} requests
    MaxTrash,   \* bound: .trash entries per model
    None        \* SQL NULL, Python None

ASSUME ModelsAssumption == NeedsCli \subseteq Models /\ None \notin Models
ASSUME TrashAssumption  == MaxTrash \in Nat /\ None \notin Nat

Slots   == 1 .. MaxTrash                \* .trash/<model>/<entry>, in name order
Content == {"none", "intact", "broken"}

VARIABLES
    installed,   \* rows of model_installs, written together with active_models
    op,          \* the model's latest download operation row
    disk,        \* models_dir/<model>
    trash,       \* models_dir/.trash/<model>/*
    cli,         \* setting whisper_cpp_executable names a usable file
    registered,  \* provider registry
    bad,         \* known-bad markers: the last load failed
    wcli,        \* the CLI setting the worker loop has loaded, or None
    engine,      \* "down", "cleanup" (lifespan startup), "started", "up"
    ipc,         \* install task of each model
    upc,         \* uninstall request: control state,
    ucall,       \*   its model,
    uslot        \*   its .trash entry, or None

rows    == <<installed, op>>
files   == <<disk, trash>>
memory  == <<registered, bad, wcli>>
uninst  == <<upc, ucall, uslot>>
storeVars == <<rows, files, cli, memory, engine, ipc, uninst>>

StoreInit ==
    /\ installed = {}
    /\ op = [m \in Models |-> "none"]
    /\ disk = [m \in Models |-> "none"]
    /\ trash = [m \in Models |-> [s \in Slots |-> "none"]]
    /\ cli = FALSE
    /\ registered = {} /\ bad = {} /\ wcli = None
    /\ engine = "down"
    /\ ipc = [m \in Models |-> "none"]
    /\ upc = [c \in Callers |-> "none"]
    /\ ucall = [c \in Callers |-> None]
    /\ uslot = [c \in Callers |-> None]

--------------------------------------------------------------------------------
(* register_available_asr_providers: drop what lost its inputs, load what  *)
(* gained them; a failed load leaves a marker, skipped until a retry.      *)
Usable(exe) == {m \in Models : disk[m] = "intact" /\ (m \in NeedsCli => exe)}

Refresh(retry, exe) ==
    LET known == IF retry THEN {} ELSE bad
        tried == Usable(exe) \ (registered \cup known)
    IN  \E loaded \in SUBSET tried :
          /\ registered' = (registered \cap Usable(exe)) \cup loaded
          /\ bad' = (known \cap Usable(exe)) \cup (tried \ loaded)

(* Every worker iteration loads the settings in a session of its own ...   *)
WorkerLoad ==
    /\ engine = "up" /\ wcli = None
    /\ wcli' = cli
    /\ UNCHANGED <<rows, files, cli, registered, bad, engine, ipc, uninst>>

(* ... and, once the session is closed, the handler factory refreshes the  *)
(* registry with what was loaded, which a save may have replaced since.    *)
WorkerRefresh ==
    /\ engine = "up" /\ wcli # None
    /\ Refresh(FALSE, wcli)
    /\ wcli' = None
    /\ UNCHANGED <<rows, files, cli, engine, ipc, uninst>>

(* settings_put commits a new whisper_cpp_executable.                      *)
SaveCli(b) ==
    /\ engine = "up"
    /\ cli' = b
    /\ UNCHANGED <<rows, files, memory, engine, ipc, uninst>>

--------------------------------------------------------------------------------
(* install_model, one task per model.                                      *)

(* Mutant: an install request never looks for an installed version.        *)
StartInstall_Again(m) ==
    /\ engine = "up" /\ ipc[m] = "none"
    /\ ipc' = [ipc EXCEPT ![m] = "run"]
    /\ op'  = [op EXCEPT ![m] = "active"]
    /\ UNCHANGED <<installed, files, cli, memory, engine, uninst>>

(* An installed and active version short-circuits; otherwise the active    *)
(* operation is resumed or a new one is created.                           *)
StartInstall(m) ==
    /\ engine = "up" /\ ipc[m] = "none"
    /\ IF m \in installed /\ op[m] = "completed"
         THEN ipc' = [ipc EXCEPT ![m] = "recorded"] /\ UNCHANGED op
         ELSE /\ ipc' = [ipc EXCEPT ![m] = "run"]
              /\ op'  = [op EXCEPT ![m] = "active"]
    /\ UNCHANGED <<installed, files, cli, memory, engine, uninst>>

(* Downloaded and verified: the operation enters "installing".             *)
InstallAdvance(m) ==
    /\ ipc[m] = "run" /\ op[m] = "active"
    /\ ipc' = [ipc EXCEPT ![m] = "installing"]
    /\ UNCHANGED <<rows, files, cli, memory, engine, uninst>>

(* _promote: an equal directory is reused, a differing one refused.        *)
InstallPromote(m) ==
    /\ ipc[m] = "installing" /\ disk[m] # "broken"
    /\ disk' = [disk EXCEPT ![m] = "intact"]
    /\ ipc'  = [ipc EXCEPT ![m] = "promoted"]
    /\ UNCHANGED <<rows, trash, cli, memory, engine, uninst>>

(* complete_installation: record, active pointer and operation together.   *)
InstallComplete(m) ==
    /\ ipc[m] = "promoted" /\ op[m] = "active"
    /\ installed' = installed \cup {m}
    /\ op'  = [op EXCEPT ![m] = "completed"]
    /\ ipc' = [ipc EXCEPT ![m] = "recorded"]
    /\ UNCHANGED <<files, cli, memory, engine, uninst>>

(* Cancelled, a failed download or archive, a refused promotion, a stale   *)
(* or vanished operation: _mark_terminal if the row is still there.        *)
InstallFails(m) ==
    /\ ipc[m] \in {"run", "installing", "promoted"}
    /\ ipc' = [ipc EXCEPT ![m] = "none"]
    /\ op'  = [op EXCEPT ![m] = IF @ = "active" THEN "failed" ELSE @]
    /\ UNCHANGED <<installed, files, cli, memory, engine, uninst>>

--------------------------------------------------------------------------------
(* ModelManagerService.uninstall.                                          *)

UninstallCheck(c, m) ==
    /\ engine = "up" /\ upc[c] = "none"
    /\ op[m] # "active"
    /\ upc'   = [upc EXCEPT ![c] = "checked"]
    /\ ucall' = [ucall EXCEPT ![c] = m]
    /\ UNCHANGED <<rows, files, cli, memory, engine, ipc, uslot>>

UninstallMove(c) ==
    LET m == ucall[c]
    IN  /\ upc[c] = "checked"
        /\ upc' = [upc EXCEPT ![c] = "moved"]
        /\ IF disk[m] = "none"
             THEN UNCHANGED <<files, uslot>>
             ELSE \E s \in Slots :
                    /\ trash[m][s] = "none"
                    /\ trash' = [trash EXCEPT ![m][s] = disk[m]]
                    /\ disk'  = [disk EXCEPT ![m] = "none"]
                    /\ uslot' = [uslot EXCEPT ![c] = s]
        /\ UNCHANGED <<rows, cli, memory, engine, ipc, ucall>>

(* Mutant: the request keeps its entry.                                    *)
EndRequest_KeepsEntry(c) ==
    /\ upc'   = [upc EXCEPT ![c] = "none"]
    /\ ucall' = [ucall EXCEPT ![c] = None]
    /\ UNCHANGED uslot

(* The request is over; it holds no entry any more.                        *)
EndRequest(c) ==
    /\ upc'   = [upc EXCEPT ![c] = "none"]
    /\ ucall' = [ucall EXCEPT ![c] = None]
    /\ uslot' = [uslot EXCEPT ![c] = None]

(* The directory could not be moved (a locked file).                       *)
UninstallMoveFails(c) ==
    /\ upc[c] = "checked" /\ disk[ucall[c]] # "none"
    /\ EndRequest(c)
    /\ UNCHANGED <<rows, files, cli, memory, engine, ipc>>

(* uninstall_model: install, active and download rows together.            *)
UninstallDelete(c) ==
    /\ upc[c] = "moved"
    /\ installed' = installed \ {ucall[c]}
    /\ op'  = [op EXCEPT ![ucall[c]] = "none"]
    /\ upc' = [upc EXCEPT ![c] = "deleted"]
    /\ UNCHANGED <<files, cli, memory, engine, ipc, ucall, uslot>>

(* The deletion failed: put the directory back, unless that fails too.     *)
UninstallDeleteFails(c) ==
    LET m == ucall[c]
        s == uslot[c]
    IN  /\ upc[c] = "moved"
        /\ \/ /\ s # None /\ disk[m] = "none"
              /\ disk'  = [disk EXCEPT ![m] = trash[m][s]]
              /\ trash' = [trash EXCEPT ![m][s] = "none"]
           \/ UNCHANGED files
        /\ EndRequest(c)
        /\ UNCHANGED <<rows, cli, memory, engine, ipc>>

(* What is left of an entry when its deletion is attempted.                *)
Leftover(x) == IF x = "none" THEN {"none"} ELSE {"none", "broken", x}

(* Mutant: the registration is left to the next refresh.                   *)
UninstallFinish_KeepsProvider(c) ==
    LET m == ucall[c]
    IN  /\ upc[c] = "deleted"
        /\ IF uslot[c] = None
             THEN UNCHANGED trash
             ELSE \E left \in [Slots -> Content] :
                    /\ \A s \in Slots : left[s] \in Leftover(trash[m][s])
                    /\ trash' = [trash EXCEPT ![m] = left]
        /\ EndRequest(c)
        /\ UNCHANGED <<rows, disk, cli, memory, engine, ipc>>

(* Reclaim the model's whole trash as far as the locks allow, then drop    *)
(* the registration: no await lies between.                                *)
UninstallFinish(c) ==
    LET m == ucall[c]
    IN  /\ upc[c] = "deleted"
        /\ IF uslot[c] = None
             THEN UNCHANGED trash
             ELSE \E left \in [Slots -> Content] :
                    /\ \A s \in Slots : left[s] \in Leftover(trash[m][s])
                    /\ trash' = [trash EXCEPT ![m] = left]
        /\ registered' = registered \ {m}
        /\ bad' = bad \ {m}
        /\ EndRequest(c)
        /\ UNCHANGED <<rows, disk, cli, wcli, engine, ipc>>

--------------------------------------------------------------------------------
(* The process.                                                            *)

Crash ==
    /\ engine # "down"
    /\ engine' = "down"
    /\ registered' = {} /\ bad' = {} /\ wcli' = None
    /\ ipc'   = [m \in Models |-> "none"]
    /\ upc'   = [c \in Callers |-> "none"]
    /\ ucall' = [c \in Callers |-> None]
    /\ uslot' = [c \in Callers |-> None]
    /\ UNCHANGED <<rows, files, cli>>

(* create_runtime_app registers from disk, without the CLI setting, before *)
(* the lifespan runs.                                                      *)
Start ==
    LET tried == Usable(FALSE)
    IN  /\ engine = "down" /\ engine' = "cleanup"
        /\ \E loaded \in SUBSET tried :
             registered' = loaded /\ bad' = tried \ loaded
        /\ UNCHANGED <<rows, files, cli, wcli, ipc, uninst>>

(* Mutant: every leftover is garbage.                                      *)
CleanupTrash_AllGarbage ==
    /\ engine = "cleanup" /\ engine' = "started"
    /\ trash' = [m \in Models |-> [s \in Slots |-> "none"]]
    /\ UNCHANGED <<rows, disk, cli, memory, ipc, uninst>>

(* cleanup_trash: without a record every entry is garbage.  With one, the  *)
(* entries are taken in name order: the first that can be moved fills an   *)
(* empty place, the ones after it are garbage.                             *)
CleanupTrash ==
    LET entries(m) == {s \in Slots : trash[m][s] # "none"}
        missing(m) == m \in installed /\ disk[m] = "none"
        left(m, s, pick) == IF ~ missing(m) THEN Leftover(trash[m][s])
                            ELSE IF pick = None \/ s < pick THEN {trash[m][s]}
                            ELSE IF s = pick THEN {"none"} ELSE Leftover(trash[m][s])
    IN  /\ engine = "cleanup" /\ engine' = "started"
        /\ \E pick \in [Models -> Slots \cup {None}] :
             /\ \A m \in Models : pick[m] # None => missing(m) /\ pick[m] \in entries(m)
             /\ disk' = [m \in Models |-> IF pick[m] = None THEN disk[m]
                                         ELSE trash[m][pick[m]]]
             /\ trash' \in [Models -> [Slots -> Content]]
             /\ \A m \in Models, s \in Slots : trash'[m][s] \in left(m, s, pick[m])
        /\ UNCHANGED <<rows, cli, memory, ipc, uninst>>

--------------------------------------------------------------------------------
(* The rest of the lifespan startup, and the end of an install task, as    *)
(* far as they concern the models; module ModelParking has them in full.   *)
Serve ==
    /\ engine = "started" /\ engine' = "up"
    /\ UNCHANGED <<rows, files, cli, memory, ipc, uninst>>

InstallEnds(m) ==
    /\ ipc[m] = "recorded"
    /\ ipc' = [ipc EXCEPT ![m] = "none"]
    /\ UNCHANGED <<rows, files, cli, memory, engine, uninst>>

Install(m) == \/ StartInstall(m)
              \/ InstallAdvance(m)
              \/ InstallPromote(m)
              \/ InstallComplete(m)
              \/ InstallFails(m)

Uninstall(c) == \/ \E m \in Models : UninstallCheck(c, m)
                \/ UninstallMove(c)
                \/ UninstallMoveFails(c)
                \/ UninstallDelete(c)
                \/ UninstallDeleteFails(c)
                \/ UninstallFinish(c)

StoreNext ==
    \/ WorkerLoad \/ WorkerRefresh
    \/ \E b \in BOOLEAN : SaveCli(b)
    \/ \E m \in Models : Install(m) \/ InstallEnds(m)
    \/ \E c \in Callers : Uninstall(c)
    \/ Crash \/ Start \/ CleanupTrash \/ Serve

StoreSpec == StoreInit /\ [][StoreNext]_storeVars

--------------------------------------------------------------------------------
(* Properties.                                                             *)

(* Type invariant of the rows, directories, registry and tasks; only a     *)
(* request under way has a model and an entry.                             *)
StoreTypeOK ==
    /\ installed \subseteq Models
    /\ op \in [Models -> {"none", "active", "completed", "failed"}]
    /\ disk \in [Models -> Content]
    /\ trash \in [Models -> [Slots -> Content]]
    /\ cli \in BOOLEAN /\ wcli \in BOOLEAN \cup {None}
    /\ registered \subseteq Models /\ bad \subseteq Models
    /\ engine \in {"down", "cleanup", "started", "up"}
    /\ ipc \in [Models -> {"none", "run", "installing", "promoted", "recorded"}]
    /\ upc \in [Callers -> {"none", "checked", "moved", "deleted"}]
    /\ ucall \in [Callers -> Models \cup {None}]
    /\ uslot \in [Callers -> Slots \cup {None}]
    /\ \A c \in Callers : /\ upc[c] = "none" <=> ucall[c] = None
                          /\ upc[c] \in {"none", "checked"} => uslot[c] = None

Uninstalling(m) == \E c \in Callers : ucall[c] = m

(* uninstall, step 2 and cleanup_trash: an install record never outlives   *)
(* the model's files; until the record is gone they are in place or in     *)
(* .trash, through failed deletions, failed restores and crashes.          *)
RecordHasFiles ==
    \A m \in installed : disk[m] # "none" \/ \E s \in Slots : trash[m][s] # "none"

(* A recorded model is one whose latest operation completed, so the        *)
(* short-circuit of _already_active never misses an installed version and  *)
(* never vouches for a removed one: record, active pointer and operation   *)
(* do not drift apart through failures, races and crashes.                 *)
RecordMatchesOperation ==
    \A m \in Models : m \in installed <=> op[m] = "completed"

(* uninstall, step 4: "a just-uninstalled model must not stay              *)
(* transcribable": once the requests are over, no provider is registered   *)
(* for a model that has no record and no files, in place or in .trash,     *)
(* whatever refreshes ran meanwhile.                                       *)
UninstalledIsUnregistered ==
    \A m \in Models \ installed :
        /\ disk[m] = "none" /\ \A s \in Slots : trash[m][s] = "none"
        /\ ~ Uninstalling(m)
        => m \notin registered

(* cleanup_trash: a leftover of a model with an install record is what the *)
(* interrupted uninstall moved away; so with the engine up and no request  *)
(* on the model, a recorded model in place is the intact one.              *)
RecordedModelIntact ==
    \A m \in installed : engine = "up" /\ ~ Uninstalling(m) => disk[m] # "broken"
================================================================================
