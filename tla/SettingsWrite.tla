----------------------------- MODULE SettingsWrite -----------------------------
(***************************************************************************)
(* PUT /api/settings (web/app.py): one save writes the system's credential *)
(* vault, the report pointer file and the settings row, in that order, and *)
(* compensates when a later write fails or the request is cancelled.  Two  *)
(* readers take the row and then the secret it refers to: the worker loop  *)
(* (ProductionHandlerFactory) and POST /api/settings/test.                 *)
(*                                                                         *)
(* A slot is the number of the save that made it, 0 the slot of a row from *)
(* before versioned references.  A secret is the endpoint whose key it is. *)
(* The model name is left out: base_url stands for it in the gate.         *)
(***************************************************************************)
EXTENDS Integers, Sequences, FiniteSets

CONSTANTS
    Urls,          \* base URLs
    Origin,        \* _normalized_origin: URL -> scheme, host and port
    Payloads,      \* the bodies of PUT, "keep" for a field that is not sent
    MaxPuts,       \* bound: saves
    MaxTrouble,    \* bound: failures, timeouts, cancellations, crashes
    None

ASSUME OriginAssumption == DOMAIN Origin = Urls
ASSUME PutsAssumption == MaxPuts \in Nat /\ MaxTrouble \in Nat
ASSUME PayloadAssumption ==
    Payloads \subseteq [provider : {"keep", "p", "q"}, base : Urls \cup {"keep"},
                        key : {"keep", "typed", "cleared"}, dir : {x.dir : x \in Payloads},
                        done : {"keep", "yes", "no"}]

Slots     == 0 .. MaxPuts
Providers == {"p", "q", None}
Origins   == {Origin[u] : u \in Urls} \cup {None}
Dirs      == {x.dir : x \in Payloads} \cup {None}
OriginOf(u) == IF u \in Urls THEN Origin[u] ELSE None

Endpoints == [provider : Providers, origin : Origins]
AppRows   == [done : {"yes", "no"}, dir : Dirs, provider : Providers, base : Urls \cup {None},
              ref : Slots \cup {None}, origin : Urls \cup {None}]
VaultOps  == [op : {"set"}, slot : Slots, secret : Endpoints]
             \cup [op : {"delete"}, slot : Slots, secret : {None}]
Saves     == [p : Payloads, new : AppRows, slot : Slots, old : Slots \cup {None},
              fresh : BOOLEAN, before : Dirs, moved : BOOLEAN]
Readers   == [ref : Slots, provider : Providers, origin : Origins]

ASSUME NoKeyAssumption ==
    /\ None \notin Nat /\ None \notin Endpoints /\ None \notin Saves /\ None \notin Readers
    /\ None \notin Urls \cup {"p", "q"}

VARIABLES
    app,       \* the settings row
    vault,     \* slot -> the endpoint whose key it holds, None
    report,    \* report-root.txt: the directory it names, None
    queue,     \* the credential thread: operations in submission order
    wrote,     \* what became of the save's own write: "no", "ok", "failed"
    put,       \* the save that holds settings_write_lock, None
    ppc,       \* its step
    cut,       \* it was cancelled while COMMIT ran
    reader,    \* a row read, and the URL and provider the key is wanted for
    used,      \* the last request to an LLM: whose key went to which endpoint
    saves, trouble,
    split,     \* history: a crash or a failed restore left the pointer behind
    leak,      \* history: a crash or failure kept a secret from being cleaned up
    bound      \* history: the slots the row ever referred to

puts     == <<put, ppc, cut, wrote>>
putVars  == <<app, vault, report, queue, puts, reader, used, saves, trouble, split, leak, bound>>

NoRow == [done |-> "no", dir |-> None, provider |-> None, base |-> None,
          ref |-> None, origin |-> None]

(* A fresh installation, or one set up by an earlier version.              *)
PutInit ==
    /\ \E u \in Urls :
         \/ app = NoRow /\ vault = [s \in Slots |-> None]
         \/ /\ app = [done |-> "yes", dir |-> None, provider |-> "p", base |-> u,
                      ref |-> 0, origin |-> u]
            /\ vault = [s \in Slots |-> IF s = 0 THEN [provider |-> "p", origin |-> Origin[u]]
                                        ELSE None]
    /\ report = None /\ queue = <<>> /\ wrote = "no"
    /\ put = None /\ ppc = "free" /\ cut = FALSE
    /\ reader = None /\ used = None
    /\ saves = 0 /\ trouble = 0 /\ split = FALSE /\ leak = FALSE
    /\ bound = {app.ref}

Trouble == trouble < MaxTrouble /\ trouble' = trouble + 1
Calm    == UNCHANGED trouble

--------------------------------------------------------------------------------
(* _SerialCredentialWriter: one thread, strictly in submission order.      *)

SetOp(s, e) == [op |-> "set", slot |-> s, secret |-> e]
DeleteOp(s) == [op |-> "delete", slot |-> s, secret |-> None]

VaultDone(op) ==
    /\ vault' = [vault EXCEPT ![op.slot] = op.secret]
    /\ wrote' = IF op.op = "set" /\ put # None /\ put.slot = op.slot THEN "ok" ELSE wrote
    /\ Calm /\ UNCHANGED leak

(* The keyring raises: nobody waits for a deletion.                        *)
VaultFails(op) ==
    /\ wrote' = IF op.op = "set" /\ put # None /\ put.slot = op.slot THEN "failed" ELSE wrote
    /\ leak' = (leak \/ op.op = "delete")
    /\ Trouble /\ UNCHANGED vault

VaultStep ==
    /\ queue # <<>> /\ queue' = Tail(queue)
    /\ VaultDone(Head(queue)) \/ VaultFails(Head(queue))
    /\ UNCHANGED <<app, report, put, ppc, cut, reader, used, saves, split, bound>>

--------------------------------------------------------------------------------
(* settings_put.                                                           *)

Merged(new, old) == IF new = "keep" THEN old ELSE new

(* R1b: without a new key another provider or another origin unbinds.      *)
Unbinds(p, cur, base) ==
    \/ p.provider \notin {"keep", cur.provider}
    \/ p.base # "keep" /\ OriginOf(base) # OriginOf(cur.origin)

(* Mutant: a new key is written over the slot in use.                      *)
Slot_InPlace(cur, n) == IF cur.ref # None THEN cur.ref ELSE n

(* new_llm_credential_reference: a slot of its own for every write (R5).   *)
Slot(cur, n) == n

(* The row this save wants, before an explicit empty key unbinds it.       *)
Binding(p, cur, n) ==
    LET base == Merged(p.base, cur.base)
        kept == p.key # "typed" /\ ~ Unbinds(p, cur, base)
    IN  [done     |-> Merged(p.done, cur.done),
         dir      |-> Merged(p.dir, cur.dir),
         provider |-> Merged(p.provider, cur.provider),
         base     |-> base,
         ref      |-> IF p.key = "typed" THEN Slot(cur, n) ELSE IF kept THEN cur.ref ELSE None,
         origin   |-> IF p.key = "typed" THEN base ELSE IF kept THEN cur.origin ELSE None]

PutBegin(p) ==
    LET n == saves + 1
    IN  /\ put = None /\ saves < MaxPuts
        /\ saves' = n
        /\ put' = [p |-> p, new |-> Binding(p, app, n), slot |-> Slot(app, n),
                   old |-> app.ref, fresh |-> FALSE, before |-> None, moved |-> FALSE]
        /\ ppc' = "gate" /\ cut' = FALSE /\ wrote' = "no"
        /\ UNCHANGED <<app, vault, report, queue, reader, used, trouble, split, leak, bound>>

(* settings_write_lock is released.                                        *)
PutOver == put' = None /\ ppc' = "free" /\ cut' = FALSE /\ wrote' = "no"

(* Mutant: only a save that says so must be runnable.                      *)
Runnable_ExplicitOnly(stored) ==
    LET new == put.new
    IN  put.p.done # "yes" \/ (/\ None \notin {new.provider, new.base, new.ref}
                               /\ put.p.key = "typed" \/ (put.p.key # "cleared" /\ stored))

(* The runnable-setup invariant, before any side effect.                   *)
Runnable(stored) ==
    LET new == put.new
    IN  new.done = "no" \/ (/\ None \notin {new.provider, new.base, new.ref}
                            /\ put.p.key = "typed" \/ (put.p.key # "cleared" /\ stored))

Stored(ref) == ref # None /\ vault[ref] # None

(* A keyring that fails or takes too long reads as no key.                 *)
PutGate ==
    /\ ppc = "gate"
    /\ \E stored \in {Stored(put.new.ref), FALSE} :
         /\ IF stored # Stored(put.new.ref) THEN Trouble ELSE Calm
         /\ \/ ~ Runnable(stored) /\ PutOver /\ UNCHANGED queue
            \/ /\ Runnable(stored) /\ put.p.key = "typed"
               /\ queue' = Append(queue, SetOp(put.slot, [provider |-> put.new.provider,
                                                          origin |-> OriginOf(put.new.base)]))
               /\ ppc' = "secret" /\ UNCHANGED <<put, cut, wrote>>
            \/ /\ Runnable(stored) /\ put.p.key # "typed"
               /\ put' = IF put.p.key = "cleared"
                           THEN [put EXCEPT !.new.ref = None, !.new.origin = None] ELSE put
               /\ ppc' = "pointer" /\ UNCHANGED <<queue, cut, wrote>>
    /\ UNCHANGED <<app, vault, report, reader, used, saves, split, leak, bound>>

PutConfirmed ==
    /\ ppc = "secret" /\ wrote = "ok"
    /\ put' = [put EXCEPT !.fresh = TRUE] /\ ppc' = "pointer"
    /\ UNCHANGED <<cut, wrote, app, vault, report, queue, reader, used, saves, trouble, split, leak, bound>>

(* Mutant: a write that is not confirmed is taken to have failed.          *)
Unconfirmed_NoDelete == UNCHANGED queue

(* Its clean-up goes behind the write that may still land.                 *)
Unconfirmed == queue' = Append(queue, DeleteOp(put.slot))

(* A timeout, or the store's own failure: 503.                             *)
PutUnconfirmed ==
    /\ ppc = "secret"
    /\ \/ wrote = "no" /\ Trouble
       \/ wrote = "failed" /\ Calm
    /\ Unconfirmed /\ PutOver
    /\ UNCHANGED <<app, vault, report, reader, used, saves, split, leak, bound>>

(* A cancellation while the request waits for the vault is not an          *)
(* Exception: nothing is cleaned up.                                       *)
PutCancelled ==
    /\ ppc \in {"gate", "secret"}
    /\ leak' = (leak \/ ppc = "secret")
    /\ Trouble /\ PutOver
    /\ UNCHANGED <<app, vault, report, queue, reader, used, saves, split, bound>>

(* _cleanup_unadopted_fresh_slot.                                          *)
CleanupFresh == queue' = IF put.fresh THEN Append(queue, DeleteOp(put.slot)) ELSE queue

(* _restore_pointer: a failure is logged.                                  *)
RestorePointer(works) ==
    /\ report' = IF put.moved /\ works THEN put.before ELSE report
    /\ split' = (split \/ (put.moved /\ ~ works))

(* The pointer goes first, in one turn of the event loop.                  *)
PutPointer ==
    /\ ppc = "pointer" /\ Calm
    /\ IF put.p.dir = "keep" THEN UNCHANGED <<report, put>>
       ELSE /\ report' = put.new.dir
            /\ put' = [put EXCEPT !.before = report, !.moved = TRUE]
    /\ ppc' = "save"
    /\ UNCHANGED <<cut, wrote, app, vault, queue, reader, used, saves, split, leak, bound>>

(* It cannot be read or written: 503 with everything as it was.            *)
PutPointerFails ==
    /\ ppc = "pointer" /\ put.p.dir # "keep" /\ Trouble
    /\ CleanupFresh /\ PutOver
    /\ UNCHANGED <<app, vault, report, reader, used, saves, split, leak, bound>>

(* save_app_settings in a transaction that is begun IMMEDIATE; then COMMIT *)
(* is handed to a task of its own.                                         *)
PutSave ==
    /\ ppc = "save" /\ ppc' = "commit"
    /\ UNCHANGED <<put, cut, wrote, app, vault, report, queue, reader, used, saves, trouble, split, leak, bound>>

(* An error or a cancellation up to there, or COMMIT fails: rolled back.   *)
PutRollback(works) ==
    /\ ppc \in {"save", "commit"}
    /\ IF works THEN Trouble ELSE trouble + 1 < MaxTrouble /\ trouble' = trouble + 2
    /\ RestorePointer(works) /\ CleanupFresh /\ PutOver
    /\ UNCHANGED <<app, vault, reader, used, saves, leak, bound>>

(* A cancellation lands on the await of the COMMIT or just after it.       *)
PutCut ==
    /\ ppc \in {"commit", "durable"} /\ ~ cut
    /\ cut' = TRUE /\ Trouble
    /\ UNCHANGED <<put, ppc, wrote, app, vault, report, queue, reader, used, saves, split, leak, bound>>

PutDurable ==
    /\ ppc = "commit" /\ ppc' = "durable"
    /\ app' = put.new /\ bound' = bound \cup {put.new.ref}
    /\ UNCHANGED <<put, cut, wrote, vault, report, queue, reader, used, saves, trouble, split, leak>>

(* Mutant: a cancelled save was not committed.                             *)
Adopted_Uncancelled == ~ cut

(* on_commit: the verdict of the COMMIT, cancelled or not.                 *)
Adopted == ppc = "durable"

(* The replaced slot is garbage once the row is durable.                   *)
PutVerdict ==
    /\ ppc = "durable"
    /\ IF Adopted
         THEN /\ queue' = IF put.p.key \in {"typed", "cleared"} /\ put.old # None
                            THEN Append(queue, DeleteOp(put.old)) ELSE queue
              /\ UNCHANGED <<report, split>>
         ELSE RestorePointer(TRUE) /\ CleanupFresh
    /\ PutOver
    /\ UNCHANGED <<app, vault, reader, used, saves, trouble, leak, bound>>

(* The process dies, and starts again: nothing repairs the pointer or      *)
(* cleans the vault, and no binding has to be repaired.                    *)
PutCrash ==
    /\ put # None \/ queue # <<>> \/ reader # None
    /\ Trouble /\ PutOver
    /\ queue' = <<>> /\ reader' = None
    /\ split' = (split \/ (ppc \in {"save", "commit"} /\ put.moved))
    /\ leak' = (leak \/ put # None \/ queue # <<>>)
    /\ UNCHANGED <<app, vault, report, used, saves, bound>>

--------------------------------------------------------------------------------
(* The readers of the key.                                                 *)

(* run_runtime_worker_loop reads the row before every claim.               *)
WorkerReads ==
    /\ reader = None
    /\ app.done = "yes" /\ None \notin {app.provider, app.base, app.ref}
    /\ reader' = [ref |-> app.ref, provider |-> app.provider, origin |-> OriginOf(app.base)]
    /\ UNCHANGED <<app, vault, report, queue, puts, used, saves, trouble, split, leak, bound>>

(* Mutant: the stored key follows the URL under test.                      *)
MayReuse_Provider(provider, url) == app.ref # None /\ app.provider = provider

(* settings_test: a stored key is reused for its provider and the origin   *)
(* recorded with it.                                                       *)
MayReuse(provider, url) ==
    /\ app.ref # None /\ app.provider = provider
    /\ OriginOf(url) = OriginOf(app.origin)

TestReads(provider, url) ==
    /\ reader = None /\ MayReuse(provider, url)
    /\ reader' = [ref |-> app.ref, provider |-> provider, origin |-> OriginOf(url)]
    /\ UNCHANGED <<app, vault, report, queue, puts, used, saves, trouble, split, leak, bound>>

(* get_secret: what the slot holds by now; without a key nothing is sent.  *)
ReadKey ==
    /\ reader # None /\ reader' = None
    /\ used' = IF vault[reader.ref] = None THEN used
               ELSE [key |-> vault[reader.ref],
                     at |-> [provider |-> reader.provider, origin |-> reader.origin]]
    /\ UNCHANGED <<app, vault, report, queue, puts, saves, trouble, split, leak, bound>>

--------------------------------------------------------------------------------
PutStep == \/ PutGate \/ PutConfirmed \/ PutUnconfirmed \/ PutPointer \/ PutPointerFails
           \/ PutSave \/ (\E works \in BOOLEAN : PutRollback(works)) \/ PutDurable \/ PutVerdict

PutNext == \/ \E p \in Payloads : PutBegin(p)
           \/ PutStep \/ PutCancelled \/ PutCut \/ PutCrash
           \/ VaultStep
           \/ WorkerReads \/ (\E provider \in {"p", "q"}, url \in Urls : TestReads(provider, url))
           \/ ReadKey

--------------------------------------------------------------------------------
(* Properties.                                                             *)

(* Type invariant.  Only a save in progress has a step, and it holds no    *)
(* verdict on its write before it asked for one.                           *)
SettingsTypeOK ==
    /\ app \in AppRows /\ vault \in [Slots -> Endpoints \cup {None}] /\ report \in Dirs
    /\ queue \in Seq(VaultOps) /\ put \in Saves \cup {None}
    /\ reader \in Readers \cup {None}
    /\ used \in [key : Endpoints, at : Endpoints] \cup {None}
    /\ ppc \in {"free", "gate", "secret", "pointer", "save", "commit", "durable"}
    /\ (put = None) = (ppc = "free") /\ cut \in BOOLEAN
    /\ wrote \in {"no", "ok", "failed"} /\ (ppc \in {"free", "gate"} => wrote = "no")
    /\ saves \in 0 .. MaxPuts /\ trouble \in 0 .. MaxTrouble
    /\ split \in BOOLEAN /\ leak \in BOOLEAN /\ bound \subseteq Slots \cup {None}

(* "Never a wrong binding" (web/app.py): at every moment, also between     *)
(* the writes of a save, with late vault writes under way and after any    *)
(* crash, the slot the row refers to holds the key of the provider and     *)
(* origin recorded in the row.                                             *)
RowNamesItsKey ==
    app.ref # None =>
        vault[app.ref] = [provider |-> app.provider, origin |-> OriginOf(app.origin)]

(* The runnable-setup invariant: a completed setup always passes the gate  *)
(* ProductionHandlerFactory applies, so that no partial update leaves a    *)
(* worker idle behind a setup that looks complete.                         *)
CompletedIsRunnable ==
    app.done = "yes" => /\ None \notin {app.provider, app.base, app.ref}
                        /\ Stored(app.ref)
                        /\ OriginOf(app.origin) = OriginOf(app.base)

(* A stored key is only ever sent to the provider and origin it was saved  *)
(* for, although the worker and the connection test take the row and the   *)
(* secret in two steps with saves and clean-ups in between.                *)
KeyStaysAtItsEndpoint == used # None => used.key = used.at

(* Pointer and database agree whenever no save is under way, however the   *)
(* saves ended, but for a crash between the two writes and a restore that  *)
(* failed: a stale pointer would revive an old directory after the         *)
(* database is deleted.                                                    *)
PointerFollowsRow == ppc = "free" /\ ~ split => report = app.dir

(* Once the vault has caught up, no slot holds a key that no row ever      *)
(* adopted, but for a crash, a failed deletion and a request cancelled     *)
(* while it waited for the vault.                                          *)
UnadoptedKeysAreGone ==
    ppc = "free" /\ queue = <<>> /\ ~ leak =>
        \A s \in Slots : vault[s] # None => s \in bound

PutSpec == PutInit /\ [][PutNext]_putVars
================================================================================
