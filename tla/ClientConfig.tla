------------------------------ MODULE ClientConfig -----------------------------
(***************************************************************************)
(* The entry of this server in another program's configuration             *)
(* (application/client_config): install, remove and restore hold the       *)
(* client's lock, verify and status do not, and the client or its user     *)
(* rewrites the file at any moment.  The file tier merges, backs up,       *)
(* replaces and proves; the cli tier calls "claude mcp".  The manual tier  *)
(* changes nothing and is left out.                                        *)
(*                                                                         *)
(* A file is its entry for this server and the rest.  "extra" is an entry  *)
(* with keys this server does not manage.  "broken" is a document that     *)
(* read_entry refuses (it does not parse, or its entry has no header of    *)
(* its own), "odd" one that reads as having no entry although the merge    *)
(* refuses it (the servers, or the entry, are no object).                  *)
(***************************************************************************)
EXTENDS Integers, Sequences, FiniteSets

CONSTANTS
    Rests,         \* what else a file holds; 0 is nothing
    Foreign,       \* what the client and its user write
    Keep,          \* BACKUP_RETENTION
    MaxRequests,   \* bound: requests
    MaxMishaps,    \* bound: foreign writes, failures, crashes, unlucky names
    Absent

ASSUME KeepAssumption == Keep \in Nat \ {0} /\ 0 \in Rests /\ MaxMishaps \in Nat /\ MaxRequests \in Nat

Contents == [entry : {"none", "ours", "other", "extra", "odd", "broken"}, rest : Rests]
Files    == Contents \cup {Absent}

ASSUME ForeignAssumption == Foreign \subseteq Files /\ Absent \notin Contents

VARIABLES
    tier,      \* "file" or "cli"
    target,    \* the client's configuration
    shelf,     \* the backups, newest name first; Absent is the sentinel
    op,        \* the operation that holds the lock
    opc,       \* its step
    verdict,   \* the cached handshake verdict
    checking,  \* a verify request waits for its handshake
    looking,   \* what a status request read of the entry, "no_one"
    answer,    \* what the last step answered: evidence and verdict
    uncovered, \* history: the target is not what the last backup holds
    upset,     \* history: a failure ("fault") or a foreign write ("write") met
               \* the operation
    requests, mishaps

clientVars == <<tier, target, shelf, op, opc, verdict, checking, looking, answer,
                uncovered, upset, requests, mishaps>>

Ops == [kind : {"none", "install", "remove", "restore"}, force : BOOLEAN, slot : 0 .. Keep,
        before : Files, read : Files, data : Files]
NoOp == [kind |-> "none", force |-> FALSE, slot |-> 0,
         before |-> Absent, read |-> Absent, data |-> Absent]
Answers == [match : {"yes", "no", "unknown"}, verdict : {"unverified", "verified", "failed"}]
NoAnswer == [match |-> "none", verdict |-> "unverified"]

(* An untouched client, or one with older backups.                         *)
ClientInit ==
    /\ tier \in {"file", "cli"} /\ target \in Foreign
    /\ shelf \in {<<>>, [i \in 1 .. IF tier = "file" THEN Keep ELSE 0 |-> Absent]}
    /\ op = NoOp /\ opc = "free" /\ verdict = "unverified"
    /\ checking = FALSE /\ looking = "no_one" /\ answer = NoAnswer
    /\ uncovered = FALSE /\ upset = "no" /\ requests = 0 /\ mishaps = 0

Silent == answer' = NoAnswer
Answer(match, v) == answer' = [match |-> match, verdict |-> v]
Request == requests < MaxRequests /\ requests' = requests + 1
Mishap == mishaps < MaxMishaps /\ mishaps' = mishaps + 1 /\ UNCHANGED requests
Quiet  == UNCHANGED <<requests, mishaps>>
Hit    == upset' = IF upset = "write" THEN upset ELSE "fault"

(* The lock is released: with an answer, or by an exception, which leaves  *)
(* the cached verdict alone.                                               *)
OpOver == op' = NoOp /\ opc' = "free" /\ uncovered' = FALSE /\ upset' = "no"
Raised == OpOver /\ Silent /\ UNCHANGED verdict

(* An operation that brought no evidence also forgets the verdict.         *)
Forgotten(match) == OpOver /\ verdict' = "unverified" /\ Answer(match, "unverified")

Goto(pc) == opc' = pc /\ UNCHANGED verdict /\ Silent
Step(pc) == Goto(pc) /\ UNCHANGED <<uncovered, upset>>

--------------------------------------------------------------------------------
(* merge_json.py and merge_toml.py, which agree on this much.              *)

(* Mutant: a document that does not parse is taken for an empty one.       *)
Base_Fresh(c) == IF c = Absent \/ c.entry = "broken" THEN [entry |-> "none", rest |-> 0] ELSE c

(* The document an operation works on.                                     *)
Base(c) == IF c = Absent THEN [entry |-> "none", rest |-> 0] ELSE c

(* Refused, nothing to do, or the entry set and all else kept.             *)
Merge(c, force) == CASE Base(c).entry \in {"odd", "broken"} -> "refused"
                     [] Base(c).entry = "extra" /\ ~ force -> "refused"
                     [] Base(c).entry = "ours" -> "unchanged"
                     [] OTHER -> "changed"

WithEntry(c) == [Base(c) EXCEPT !.entry = "ours"]
WithoutEntry(c) == [Base(c) EXCEPT !.entry = "none"]

Wanted == IF op.kind = "install" THEN WithEntry(op.read) ELSE WithoutEntry(op.read)

(* prove_merge and prove_removal on the bytes read back.                   *)
Proved == target = Wanted

--------------------------------------------------------------------------------
(* backup.py.                                                              *)

(* Mutant: the copy is made of what the merge read.                        *)
Captured_Read == op.read

(* create_backup reads the target again, ...                               *)
Captured == target

(* ... gives the copy a name, and _prune keeps the first names.  Names are *)
(* sorted by second and then by chance, so that a copy made in the same    *)
(* second as another, or after the clock was set back, is not the newest.  *)
Shelved(c, pos) ==
    LET all == SubSeq(shelf, 1, pos - 1) \o <<c>> \o SubSeq(shelf, pos, Len(shelf))
    IN  SubSeq(all, 1, IF Len(all) < Keep THEN Len(all) ELSE Keep)

TakeBackup(pos) ==
    /\ opc \in {"backup", "safety"} /\ pos \in 1 .. Len(shelf) + 1
    /\ IF pos = 1 THEN Quiet /\ UNCHANGED upset ELSE Mishap /\ Hit
    /\ shelf' = Shelved(Captured, pos)
    /\ uncovered' = (pos > Keep)
    /\ op' = IF opc = "safety" THEN op ELSE [op EXCEPT !.slot = IF pos > Keep THEN 0 ELSE pos]
    /\ Goto(IF opc = "backup" THEN "commit" ELSE "put")
    /\ UNCHANGED <<tier, target, checking, looking>>

(* restore: the chosen copy is read before the safety backup is made, as   *)
(* that one may prune it.                                                  *)
FetchBackup ==
    /\ opc = "fetch" /\ Quiet
    /\ IF op.slot = 0 THEN Raised
       ELSE op' = [op EXCEPT !.data = shelf[op.slot]] /\ Step("safety")
    /\ UNCHANGED <<tier, target, shelf, checking, looking>>

(* Mutant: the copy is read after the safety backup.                       *)
Restored_Late == IF op.slot < Len(shelf) THEN shelf[op.slot + 1] ELSE target

Restored == op.data

(* The bytes are put back, or the target is removed for a sentinel, with   *)
(* nothing to check if it is gone already.  A rollback raises in any case. *)
PutBack ==
    /\ opc = "put" /\ Quiet
    /\ target' = Restored
    /\ \/ op.kind # "restore" /\ Raised
       \/ op.kind = "restore" /\ op.data = Absent /\ target = Absent /\ Forgotten("unknown")
       \/ /\ op.kind = "restore" /\ {op.data, target} # {Absent}
          /\ Step("check") /\ UNCHANGED op
    /\ UNCHANGED <<tier, shelf, checking, looking>>

(* A restore reads back what it wrote, or that the target is gone, ...     *)
CheckBack ==
    /\ opc = "check" /\ Quiet
    /\ \/ target # op.data /\ Raised
       \/ target = op.data /\ op.data = Absent /\ Forgotten("unknown")
       \/ target = op.data /\ op.data # Absent /\ Step("parse") /\ UNCHANGED op
    /\ UNCHANGED <<tier, target, shelf, checking, looking>>

(* ... and reads once more: _parse_proof, unless it has gone meanwhile.    *)
ParsePut ==
    /\ opc = "parse" /\ Quiet
    /\ IF Base(target).entry = "broken" THEN Raised ELSE Forgotten("unknown")
    /\ UNCHANGED <<tier, target, shelf, checking, looking>>

--------------------------------------------------------------------------------
(* ClientConfigService.install, remove and restore: a second one on the    *)
(* same client is answered 409.                                            *)
OpBegin(kind, force, slot) ==
    /\ opc = "free" /\ Request
    /\ slot \in IF kind = "restore" /\ tier = "file" THEN DOMAIN shelf ELSE {0}
    /\ op' = [NoOp EXCEPT !.kind = kind, !.force = force, !.slot = slot, !.before = target]
    /\ opc' = IF tier = "cli" THEN (IF kind = "remove" THEN "drop" ELSE "add")
              ELSE IF kind = "restore" THEN "fetch" ELSE "read"
    /\ UNCHANGED <<mishaps, upset>> /\ Silent
    /\ UNCHANGED <<tier, target, shelf, verdict, checking, looking, uncovered>>

(* _install_sync up to the merge: a directory that is not there, a         *)
(* document the merge refuses, an entry that is right already.             *)
InstallRead ==
    /\ opc = "read" /\ op.kind = "install" /\ Quiet
    /\ \/ /\ target = Absent /\ shelf = <<>>
          /\ Forgotten("unknown")
       \/ Merge(target, op.force) = "refused" /\ Raised
       \/ Merge(target, op.force) = "unchanged" /\ Step("shake") /\ UNCHANGED op
       \/ /\ Merge(target, op.force) = "changed"
          /\ op' = [op EXCEPT !.read = target] /\ Step("backup")
    /\ UNCHANGED <<tier, target, shelf, checking, looking>>

(* _remove_sync up to the merge.                                           *)
RemoveRead ==
    /\ opc = "read" /\ op.kind = "remove" /\ Quiet
    /\ \/ Base(target).entry = "broken" /\ Raised
       \/ /\ Base(target).entry \in {"none", "odd"}
          /\ Forgotten("unknown")
       \/ /\ Base(target).entry \in {"ours", "other", "extra"}
          /\ op' = [op EXCEPT !.read = target] /\ Step("backup")
    /\ UNCHANGED <<tier, target, shelf, checking, looking>>

(* commit_atomic: one os.replace.                                          *)
Commit ==
    /\ opc = "commit" /\ Quiet
    /\ target' = Wanted /\ Step("proof")
    /\ UNCHANGED <<tier, op, shelf, checking, looking>>

(* What is on disk is proved; else the state before is put back.           *)
Prove ==
    /\ opc = "proof" /\ Quiet
    /\ \/ ~ Proved /\ Step("fetch") /\ UNCHANGED op
       \/ Proved /\ op.kind = "install" /\ Step("shake") /\ UNCHANGED op
       \/ /\ Proved /\ op.kind = "remove"
          /\ Forgotten("unknown")
    /\ UNCHANGED <<tier, target, shelf, checking, looking>>

(* A write fails: behind the backup the operation rolls back, before it,   *)
(* or in the rollback, it gives up.                                        *)
WriteFails ==
    /\ opc \in {"backup", "commit", "safety", "put"} /\ Mishap
    /\ IF opc = "commit" THEN Goto("fetch") /\ Hit /\ UNCHANGED <<op, uncovered>> ELSE Raised
    /\ UNCHANGED <<tier, target, shelf, checking, looking>>

(* _run_handshake, up to 45 s; the verdict is cached when it comes.        *)
Handshake(v) ==
    /\ opc = "shake" /\ Quiet
    /\ OpOver /\ verdict' = v /\ Answer("yes", v)
    /\ UNCHANGED <<tier, target, shelf, checking, looking>>

--------------------------------------------------------------------------------
(* ClaudeCodeAdapter.                                                      *)

(* The entry as the adapter reads it; the command may be missing, time out *)
(* or print what it cannot parse.                                          *)
Evidence(c) ==
    {IF Base(c).entry = "broken" THEN "unknown" ELSE IF Base(c).entry = "ours" THEN "yes" ELSE "no"}
    \cup IF tier = "cli" THEN {"unknown"} ELSE {}

(* "claude mcp add" succeeds, fails, or is killed after 30 s, done or not. *)
CliAdd(done, ok) ==
    /\ opc = "add" /\ Quiet /\ (ok => done)
    /\ target' = IF done THEN WithEntry(target) ELSE target
    /\ IF ok THEN Step("get") /\ UNCHANGED op
       ELSE Forgotten("unknown")
    /\ UNCHANGED <<tier, shelf, checking, looking>>

(* "claude mcp get" has to confirm it; a restore forgets the verdict.      *)
CliGet(match) ==
    /\ opc = "get" /\ match \in Evidence(target) /\ Quiet
    /\ IF match = "yes" /\ op.kind = "install" THEN Step("shake") /\ UNCHANGED op
       ELSE Forgotten(match)
    /\ UNCHANGED <<tier, target, shelf, checking, looking>>

CliRemove(done) ==
    /\ opc = "drop" /\ Quiet
    /\ target' = IF done /\ target # Absent THEN WithoutEntry(target) ELSE target
    /\ Forgotten("unknown")
    /\ UNCHANGED <<tier, shelf, checking, looking>>

--------------------------------------------------------------------------------
(* verify and status, beside any operation.                                *)

(* Mutant: a mismatch is answered with whatever verdict is cached.         *)
Unbacked_Cached == verdict

(* Without evidence the cached verdict is forgotten.                       *)
Unbacked == "unverified"

(* (A document that does not parse raises, and the verdict stays.)         *)
VerifyBegin(match) ==
    /\ ~ checking /\ Request /\ match \in Evidence(target)
    /\ tier = "file" => Base(target).entry # "broken"
    /\ IF match = "yes" THEN checking' = TRUE /\ Silent /\ UNCHANGED verdict
       ELSE verdict' = Unbacked /\ Answer(match, verdict') /\ UNCHANGED checking
    /\ UNCHANGED <<tier, target, shelf, op, opc, looking, uncovered, upset, mishaps>>

VerifyEnd(v) ==
    /\ checking /\ checking' = FALSE
    /\ verdict' = v /\ Answer("yes", v)
    /\ UNCHANGED <<tier, target, shelf, op, opc, looking, uncovered, upset, requests, mishaps>>

(* status reads the entry in a thread, ...                                 *)
StatusRead(match) ==
    /\ looking = "no_one" /\ Request /\ match \in Evidence(target)
    /\ looking' = match /\ Silent
    /\ UNCHANGED <<tier, target, shelf, op, opc, verdict, checking, uncovered, upset, mishaps>>

(* ... and _reconciled_verdict drops a verdict the entry no longer backs.  *)
StatusAnswer ==
    /\ looking # "no_one" /\ looking' = "no_one"
    /\ verdict' = IF verdict = "verified" /\ looking # "yes" THEN "unverified" ELSE verdict
    /\ Answer(looking, verdict')
    /\ UNCHANGED <<tier, target, shelf, op, opc, checking, uncovered, upset, requests, mishaps>>

--------------------------------------------------------------------------------
(* The client or the user rewrites or deletes the file.                    *)
ClientWrites(c) ==
    /\ c # target /\ target' = c /\ Mishap /\ Silent
    /\ upset' = IF opc = "free" THEN upset ELSE "write"
    /\ uncovered' = (uncovered \/ opc \in {"commit", "put"})
    /\ UNCHANGED <<tier, shelf, op, opc, verdict, checking, looking>>

(* The engine is killed; verdicts live in memory.                          *)
ClientCrash ==
    /\ op # NoOp \/ checking \/ looking # "no_one" \/ verdict # "unverified"
    /\ Mishap /\ OpOver /\ Silent
    /\ verdict' = "unverified" /\ checking' = FALSE /\ looking' = "no_one"
    /\ UNCHANGED <<tier, target, shelf>>

Verdicts == {"verified", "failed", "unverified"}

OpStep == \/ \E kind \in {"install", "remove", "restore"}, force \in BOOLEAN, slot \in 0 .. Keep :
               (force => kind = "install") /\ OpBegin(kind, force, slot)
          \/ InstallRead \/ RemoveRead \/ (\E pos \in 1 .. Keep + 1 : TakeBackup(pos))
          \/ Commit \/ Prove \/ FetchBackup \/ PutBack \/ CheckBack \/ ParsePut \/ WriteFails
          \/ \E done, ok \in BOOLEAN : CliAdd(done, ok)
          \/ \E match \in {"yes", "no", "unknown"} : CliGet(match)
          \/ \E done \in BOOLEAN : CliRemove(done)
          \/ \E v \in Verdicts : Handshake(v)

ClientNext == \/ OpStep
              \/ \E match \in {"yes", "no", "unknown"} : VerifyBegin(match) \/ StatusRead(match)
              \/ \E v \in Verdicts : VerifyEnd(v)
              \/ StatusAnswer
              \/ \E c \in Foreign : ClientWrites(c)
              \/ ClientCrash

ClientSpec == ClientInit /\ [][ClientNext]_clientVars

--------------------------------------------------------------------------------
(* Properties.                                                             *)

(* Type invariant.  Only an operation in progress holds the lock, and a    *)
(* copy it rolls back to or restores is on the shelf.                      *)
ClientTypeOK ==
    /\ tier \in {"file", "cli"} /\ target \in Files
    /\ shelf \in Seq(Files) /\ Len(shelf) <= Keep
    /\ op \in Ops /\ (opc = "free") = (op = NoOp)
    /\ opc \in {"free", "read", "backup", "commit", "proof", "fetch", "safety", "put", "check",
                "parse", "shake", "add", "get", "drop"}
    /\ opc = "fetch" => op.slot \in 0 .. Len(shelf)
    /\ verdict \in Verdicts /\ checking \in BOOLEAN
    /\ looking \in {"yes", "no", "unknown", "no_one"}
    /\ answer \in Answers \cup {NoAnswer}
    /\ uncovered \in BOOLEAN /\ upset \in {"no", "fault", "write"} /\ mishaps \in 0 .. MaxMishaps
    /\ requests \in 0 .. MaxRequests

(* No answer says "verified" beside evidence that the entry is missing,    *)
(* different or unreadable (docs/CLIENT_CONFIG_WRITE_CONTRACT.md, 6),      *)
(* although verify and status run beside the operations, handshakes end    *)
(* late and the client rewrites its file.                                  *)
AnswersAgree == answer.verdict = "verified" => answer.match = "yes"

(* Whatever the engine overwrites or removes of a client's file is on the  *)
(* shelf, also what the client wrote after the operation had read the file *)
(* or before it was rolled back.  Two gaps are left: a write between the   *)
(* copy and the replacement, and a copy pruned at once for its name.       *)
NothingIsLost ==
    [][tier = "file" /\ opc \in {"commit", "put"} /\ opc' # opc
          /\ target' # target /\ target # Absent /\ ~ uncovered
         => \E i \in DOMAIN shelf' : shelf'[i] = target]_clientVars

(* However an install or a removal ends, by success, refusal, a failed     *)
(* write and its rollback or a crash: if nobody else wrote, the file is    *)
(* what it was but for this server's entry.                                *)
OperationsAreSurgical ==
    [][tier = "file" /\ op.kind \in {"install", "remove"} /\ op' = NoOp /\ upset # "write"
         => \/ target' = op.before
            \/ op.before = Absent /\ target'.rest = 0
            \/ /\ op.before # Absent /\ op.before.entry \notin {"odd", "broken"}
               /\ target'.rest = op.before.rest
      ]_clientVars

(* A restore that nothing disturbs brings the chosen copy back, and the    *)
(* state before it is on the shelf: restore is reversible, also when the   *)
(* shelf is full and its safety backup pushes the chosen copy off.         *)
RestoreIsReversible ==
    [][tier = "file" /\ op.kind = "restore" /\ op' = NoOp /\ upset = "no" /\ mishaps' = mishaps
         => /\ target' = op.data
            /\ \E i \in DOMAIN shelf' : shelf'[i] = op.before]_clientVars
================================================================================
