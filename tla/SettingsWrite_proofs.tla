-------------------------- MODULE SettingsWrite_proofs -------------------------
(***************************************************************************)
(* Proofs about SettingsWrite, for any URLs and origins, any bodies, any   *)
(* number of saves and any number of failures, cancellations and crashes.  *)
(***************************************************************************)
EXTENDS SettingsWrite, TLAPS

(* The key a row stands for.                                               *)
KeyOf(row) == [provider |-> row.provider, origin |-> OriginOf(row.origin)]

(* A slot is written for the first time by the save that numbered it, and  *)
(* adopted by that save or never.                                          *)
SlotsInOrder ==
    /\ app.ref \in bound
    /\ \A s \in bound : s # None => s <= saves
    /\ \A s \in Slots : s > saves => vault[s] = None
    /\ \A i \in DOMAIN queue : queue[i].slot <= saves
    /\ ppc # "free" => /\ put.slot = saves /\ put.old # put.slot /\ put.old \in bound
                       /\ ppc # "durable" => put.slot \notin bound

(* What the credential thread has yet to do touches neither the slot of    *)
(* the row nor, by a write, one that a row ever had; and of the slot of    *)
(* the save under way it has only the write that save waits for.           *)
QueueIsHarmless ==
    /\ \A i \in DOMAIN queue : /\ queue[i].slot # app.ref
                               /\ queue[i].op = "set" => queue[i].slot \notin bound
    /\ ppc # "free" => \A i \in DOMAIN queue : queue[i].slot = put.slot =>
         /\ ppc = "secret" /\ wrote = "no" /\ queue[i] = SetOp(put.slot, KeyOf(put.new))
         /\ \A k \in DOMAIN queue : queue[k].slot = put.slot => k = i

(* What a save wants is what the gate saw: a key of its own or the one in  *)
(* use, and with it the endpoint that key belongs to.                      *)
SaveWantsItsKey ==
    /\ app.ref # None => OriginOf(app.origin) = OriginOf(app.base)
    /\ ppc # "free" =>
         /\ put.p.key = "typed" => put.new.ref = put.slot /\ put.new.origin = put.new.base
         /\ put.p.key # "typed" /\ put.new.ref # None /\ ppc # "durable" =>
              /\ put.new.ref = app.ref /\ KeyOf(put.new) = KeyOf(app)
              /\ OriginOf(put.new.origin) = OriginOf(put.new.base)
         /\ ppc \notin {"gate", "secret"} /\ put.p.key = "cleared" => put.new.ref = None
         /\ ppc # "gate" /\ put.new.done = "yes" =>
              None \notin {put.new.provider, put.new.base, put.new.ref}
         /\ ppc = "durable" => app = put.new

(* The slot of the save under way holds its key once that is confirmed,    *)
(* and nothing before it is asked for.                                     *)
FreshSlot ==
    ppc # "free" =>
      /\ ppc = "secret" => put.p.key = "typed"
      /\ put.fresh <=> ppc \notin {"gate", "secret"} /\ put.p.key = "typed"
      /\ put.fresh \/ (ppc = "secret" /\ wrote = "ok") => vault[put.slot] = KeyOf(put.new)
      /\ ~ put.fresh /\ ppc # "secret" => vault[put.slot] = None

(* A reader holds a slot that a row had, which keeps its key or loses it.  *)
ReaderIsSafe ==
    reader # None =>
      /\ reader.ref \in bound
      /\ vault[reader.ref] \in {None, [provider |-> reader.provider, origin |-> reader.origin]}

(* The pointer is ahead of the row only between its write and the verdict  *)
(* of the COMMIT, with the old directory at hand.                          *)
PointerInStep ==
    /\ ppc # "free" =>
         /\ put.p.dir = "keep" /\ ppc # "durable" => put.new.dir = app.dir
         /\ ppc \in {"gate", "secret", "pointer"} => ~ put.moved
         /\ ppc \in {"save", "commit", "durable"} => put.moved = (put.p.dir # "keep")
         /\ ppc \in {"save", "commit"} /\ put.moved /\ ~ split => put.before = app.dir
    /\ ~ split => report = IF ppc \in {"save", "commit"} /\ put.moved THEN put.new.dir ELSE app.dir

(* A key that no row adopted is that of the save under way, or its         *)
(* deletion is queued behind its write.                                    *)
Untouched(s) == vault[s] = None /\ \A i \in DOMAIN queue : queue[i].op = "set" => queue[i].slot # s
Doomed(s) == \E i \in DOMAIN queue :
    /\ queue[i].op = "delete" /\ queue[i].slot = s
    /\ \A k \in DOMAIN queue : k > i /\ queue[k].op = "set" => queue[k].slot # s

GarbageIsDoomed ==
    ~ leak => \A s \in Slots \ bound : Untouched(s) \/ Doomed(s) \/ (ppc # "free" /\ s = put.slot)

(* The inductive invariant.                                                *)
PutIInv == /\ SettingsTypeOK /\ RowNamesItsKey /\ CompletedIsRunnable /\ KeyStaysAtItsEndpoint
        /\ SlotsInOrder /\ QueueIsHarmless /\ SaveWantsItsKey /\ FreshSlot /\ ReaderIsSafe
        /\ PointerInStep /\ GarbageIsDoomed

--------------------------------------------------------------------------------
(* Lemmas about rows, endpoints and the queue.                             *)

(* Every row stands for an endpoint, and so is every reader.               *)
LEMMA OriginIsTyped ==
    ASSUME NEW u
    PROVE  OriginOf(u) \in Origins
  BY OriginAssumption DEF OriginOf, Origins

LEMMA KeyIsTyped ==
    ASSUME NEW row \in AppRows
    PROVE  KeyOf(row) \in Endpoints /\ KeyOf(row) # None
  <1>1. KeyOf(row) \in Endpoints BY OriginIsTyped DEF KeyOf, AppRows, Endpoints
  <1> QED BY <1>1, NoKeyAssumption

(* The row a body asks for.                                                *)
LEMMA BindingIsTyped ==
    ASSUME NEW p \in Payloads, NEW cur \in AppRows, NEW n \in Slots
    PROVE  Binding(p, cur, n) \in AppRows
  <1>1. /\ p.provider \in {"keep", "p", "q"} /\ p.base \in Urls \cup {"keep"}
        /\ p.done \in {"keep", "yes", "no"} /\ p.dir \in Dirs
    BY PayloadAssumption DEF Dirs
  <1>2. Merged(p.base, cur.base) \in Urls \cup {None} BY <1>1 DEF Merged, AppRows
  <1>3. /\ Merged(p.done, cur.done) \in {"yes", "no"} /\ Merged(p.dir, cur.dir) \in Dirs
        /\ Merged(p.provider, cur.provider) \in Providers
    BY <1>1 DEF Merged, AppRows, Providers
  <1> QED BY <1>2, <1>3 DEF Binding, Slot, AppRows

(* The end and the head of the queue.                                      *)
LEMMA Appended ==
    ASSUME NEW q \in Seq(VaultOps), NEW o \in VaultOps
    PROVE  /\ Append(q, o) \in Seq(VaultOps)
           /\ DOMAIN Append(q, o) = DOMAIN q \cup {Len(q) + 1}
           /\ \A i \in DOMAIN q : Append(q, o)[i] = q[i] /\ i <= Len(q)
           /\ Append(q, o)[Len(q) + 1] = o
  OBVIOUS

LEMMA Dequeued ==
    ASSUME NEW q \in Seq(VaultOps), q # <<>>
    PROVE  /\ Tail(q) \in Seq(VaultOps) /\ Head(q) \in VaultOps
           /\ Head(q) = q[1] /\ 1 \in DOMAIN q
           /\ \A i \in DOMAIN Tail(q) : i \in Nat /\ i + 1 \in DOMAIN q /\ Tail(q)[i] = q[i + 1]
           /\ \A i \in DOMAIN q : i \in Nat /\ (i # 1 => i - 1 \in DOMAIN Tail(q))
  OBVIOUS

LEMMA OpsAreTyped ==
    /\ \A s \in Slots : DeleteOp(s) \in VaultOps
    /\ \A s \in Slots, e \in Endpoints : SetOp(s, e) \in VaultOps
  BY DEF DeleteOp, SetOp, VaultOps

(* A deletion behind everything else dooms its slot and saves no other.    *)
LEMMA DeletionDooms ==
    ASSUME SettingsTypeOK, NEW s \in Slots, queue' = Append(queue, DeleteOp(s)), UNCHANGED vault
    PROVE  /\ Doomed(s)'
           /\ \A t \in Slots : (Untouched(t) => Untouched(t)') /\ (Doomed(t) => Doomed(t)')
  <1> DEFINE n == Len(queue) + 1
  <1>0. queue \in Seq(VaultOps) /\ DeleteOp(s) \in VaultOps BY OpsAreTyped DEF SettingsTypeOK
  <1>1. /\ DOMAIN queue' = DOMAIN queue \cup {n} /\ queue'[n] = DeleteOp(s)
        /\ \A i \in DOMAIN queue : queue'[i] = queue[i] /\ i <= Len(queue) /\ i \in Nat
        /\ n \in Nat
    BY <1>0, Appended
  <1> HIDE DEF n
  <1>2. Doomed(s)'
    <2>1. \A k \in DOMAIN queue' : ~ (k > n) BY <1>1 DEF n
    <2> QED BY <1>1, <2>1 DEF Doomed, DeleteOp
  <1>3. ASSUME NEW t \in Slots, Untouched(t) PROVE Untouched(t)'
    BY <1>1, <1>3 DEF Untouched, DeleteOp
  <1>4. ASSUME NEW t \in Slots, Doomed(t) PROVE Doomed(t)'
    BY <1>1, <1>4 DEF Doomed, DeleteOp
  <1> QED BY <1>2, <1>3, <1>4

--------------------------------------------------------------------------------
(* What a step keeps by leaving its variables alone.                       *)

LEMMA RowKept ==
    ASSUME PutIInv, UNCHANGED <<app, vault>>
    PROVE  RowNamesItsKey' /\ CompletedIsRunnable'
  BY DEF PutIInv, RowNamesItsKey, CompletedIsRunnable, Stored

LEMMA ReaderKept ==
    ASSUME PutIInv, UNCHANGED <<reader, used, vault, bound>>
    PROVE  ReaderIsSafe' /\ KeyStaysAtItsEndpoint'
  BY DEF PutIInv, ReaderIsSafe, KeyStaysAtItsEndpoint

LEMMA SaveKept ==
    ASSUME PutIInv, UNCHANGED <<app, vault, report, queue, puts, saves, split, leak, bound>>
    PROVE  /\ SlotsInOrder' /\ QueueIsHarmless' /\ SaveWantsItsKey' /\ FreshSlot'
           /\ PointerInStep' /\ GarbageIsDoomed'
  <1> USE DEF PutIInv, puts
  <1>1. SlotsInOrder' BY DEF SlotsInOrder
  <1>2. QueueIsHarmless' BY DEF QueueIsHarmless
  <1>3. SaveWantsItsKey' BY DEF SaveWantsItsKey
  <1>4. FreshSlot' BY DEF FreshSlot
  <1>5. PointerInStep' BY DEF PointerInStep
  <1>6. GarbageIsDoomed' BY DEF GarbageIsDoomed, Untouched, Doomed
  <1> QED BY <1>1, <1>2, <1>3, <1>4, <1>5, <1>6

(* A save is over, however it ended: it may have queued one deletion, of a *)
(* slot that is not the row's, or the process died with all of it.         *)
LEMMA SaveEnds ==
    ASSUME PutIInv, PutOver, UNCHANGED <<app, vault, used, saves, bound>>,
           reader' \in {reader, None}, report' \in Dirs,
           trouble' \in 0 .. MaxTrouble, split' \in BOOLEAN, leak' \in BOOLEAN,
           \/ UNCHANGED queue
           \/ queue' = <<>> /\ leak'
           \/ \E s \in Slots : s # app.ref /\ s <= saves /\ queue' = Append(queue, DeleteOp(s)),
           ~ split' => report' = app.dir,
           ~ leak' => /\ ~ leak
                      /\ ppc # "free" => \/ put.slot \in bound \/ Untouched(put.slot)
                                         \/ queue' = Append(queue, DeleteOp(put.slot))
    PROVE  PutIInv'
  <1>t. SettingsTypeOK BY DEF PutIInv
  <1>0. queue \in Seq(VaultOps) BY <1>t DEF SettingsTypeOK
  <1>q. /\ queue' \in Seq(VaultOps)
        /\ \A i \in DOMAIN queue' : \/ i \in DOMAIN queue /\ queue'[i] = queue[i]
                                    \/ /\ queue'[i].op = "delete" /\ queue'[i].slot # app.ref
                                       /\ queue'[i].slot <= saves
    <2>1. CASE UNCHANGED queue BY <2>1, <1>0
    <2>2. CASE queue' = <<>> BY <2>2
    <2>3. ASSUME NEW s \in Slots, s # app.ref, s <= saves, queue' = Append(queue, DeleteOp(s))
          PROVE  <1>q!1 /\ <1>q!2
      BY <2>3, <1>0, Appended, OpsAreTyped DEF DeleteOp
    <2> QED BY <2>1, <2>2, <2>3
  <1>1. SettingsTypeOK' BY <1>t, <1>q DEF SettingsTypeOK, PutOver
  <1>2. RowNamesItsKey' /\ CompletedIsRunnable' BY RowKept
  <1>3. ReaderIsSafe' /\ KeyStaysAtItsEndpoint'
    BY DEF PutIInv, ReaderIsSafe, KeyStaysAtItsEndpoint
  <1>4. SlotsInOrder' BY <1>q DEF PutIInv, SlotsInOrder, PutOver
  <1>5. QueueIsHarmless' BY <1>q DEF PutIInv, QueueIsHarmless, PutOver
  <1>6. SaveWantsItsKey' /\ FreshSlot' BY DEF PutIInv, SaveWantsItsKey, FreshSlot, PutOver
  <1>7. PointerInStep' BY DEF PutIInv, PointerInStep, PutOver
  <1>8. GarbageIsDoomed'
    <2> SUFFICES ASSUME ~ leak', NEW t \in Slots \ bound PROVE Untouched(t)' \/ Doomed(t)'
      BY DEF GarbageIsDoomed, Slots
    <2>1. Untouched(t) \/ Doomed(t) \/ (ppc # "free" /\ t = put.slot)
      BY DEF PutIInv, GarbageIsDoomed
    <2>2. CASE UNCHANGED queue BY <2>1, <2>2 DEF Untouched, Doomed, SettingsTypeOK
    <2>3. ASSUME NEW s \in Slots, queue' = Append(queue, DeleteOp(s)) PROVE Untouched(t)' \/ Doomed(t)'
      <3>1. CASE Untouched(t) \/ Doomed(t) BY <1>t, <2>3, <3>1, DeletionDooms
      <3>2. CASE ppc # "free" /\ t = put.slot
        <4>1. CASE Untouched(put.slot) BY <1>t, <2>3, <3>2, <4>1, DeletionDooms
        <4>2. CASE queue' = Append(queue, DeleteOp(put.slot)) BY <1>t, <3>2, <4>2, DeletionDooms
        <4> QED BY <3>2, <4>1, <4>2
      <3> QED BY <2>1, <3>1, <3>2
    <2> QED BY <2>2, <2>3
  <1> QED BY <1>1, <1>2, <1>3, <1>4, <1>5, <1>6, <1>7, <1>8 DEF PutIInv

--------------------------------------------------------------------------------
(* Preservation, one lemma per action or group of actions.                 *)

LEMMA PutInitEstablishes == PutInit => PutIInv
  <1> SUFFICES ASSUME PutInit PROVE PutIInv OBVIOUS
  <1>0. 0 \in Slots /\ MaxTrouble \in Nat /\ MaxPuts \in Nat BY PutsAssumption DEF Slots
  <1>1. /\ report = None /\ queue = <<>> /\ wrote = "no" /\ put = None /\ ppc = "free"
        /\ cut = FALSE /\ reader = None /\ used = None /\ saves = 0 /\ trouble = 0
        /\ split = FALSE /\ leak = FALSE /\ bound = {app.ref}
    BY DEF PutInit
  <1>2. /\ app \in AppRows /\ app.dir = None /\ app.ref \in {0, None}
        /\ vault = [s \in Slots |-> IF s = app.ref THEN KeyOf(app) ELSE None]
        /\ app.ref # None => app.origin = app.base
        /\ app.done = "yes" => None \notin {app.provider, app.base, app.ref}
    <2>1. PICK u \in Urls : PutInit!1!(u) BY DEF PutInit
    <2>2. CASE app = NoRow /\ vault = [s \in Slots |-> None]
      BY <1>0, <2>2, NoKeyAssumption DEF NoRow, AppRows, Providers, Dirs, Slots
    <2>3. CASE ~ (app = NoRow /\ vault = [s \in Slots |-> None])
      <3>1. /\ app = [done |-> "yes", dir |-> None, provider |-> "p", base |-> u,
                      ref |-> 0, origin |-> u]
            /\ vault = [s \in Slots |-> IF s = 0 THEN [provider |-> "p", origin |-> Origin[u]] ELSE None]
        BY <2>1, <2>3
      <3>2. app \in AppRows BY <1>0, <3>1 DEF AppRows, Providers, Dirs
      <3>3. KeyOf(app) = [provider |-> "p", origin |-> Origin[u]] BY <3>1 DEF KeyOf, OriginOf
      <3>4. None \notin {app.provider, app.base, app.ref}
        BY <3>1, NoKeyAssumption
      <3> QED BY <3>1, <3>2, <3>3, <3>4
    <2> QED BY <2>2, <2>3
  <1>3. KeyOf(app) \in Endpoints /\ KeyOf(app) # None BY <1>2, KeyIsTyped
  <1>4. SettingsTypeOK
    <2>1. vault \in [Slots -> Endpoints \cup {None}] BY <1>2, <1>3
    <2>2. bound \subseteq Slots \cup {None} BY <1>0, <1>1, <1>2
    <2>3. queue \in Seq(VaultOps) /\ report \in Dirs BY <1>1 DEF Dirs
    <2>4. saves \in 0 .. MaxPuts /\ trouble \in 0 .. MaxTrouble BY <1>0, <1>1
    <2> QED BY <1>1, <1>2, <2>1, <2>2, <2>3, <2>4 DEF SettingsTypeOK
  <1>5. RowNamesItsKey BY <1>0, <1>2, NoKeyAssumption DEF RowNamesItsKey, KeyOf
  <1>6. CompletedIsRunnable BY <1>0, <1>2, <1>3, NoKeyAssumption DEF CompletedIsRunnable, Stored
  <1>7. KeyStaysAtItsEndpoint /\ ReaderIsSafe BY <1>1 DEF KeyStaysAtItsEndpoint, ReaderIsSafe
  <1>8. SlotsInOrder BY <1>0, <1>1, <1>2, NoKeyAssumption DEF SlotsInOrder, Slots
  <1>9. QueueIsHarmless /\ SaveWantsItsKey /\ FreshSlot
    BY <1>1, <1>2 DEF QueueIsHarmless, SaveWantsItsKey, FreshSlot
  <1>10. PointerInStep BY <1>1, <1>2 DEF PointerInStep
  <1>11. GarbageIsDoomed BY <1>1, <1>2 DEF GarbageIsDoomed, Untouched
  <1> QED BY <1>4, <1>5, <1>6, <1>7, <1>8, <1>9, <1>10, <1>11 DEF PutIInv

(* The row of a new save: a slot of its own, or the key in use.            *)
LEMMA PutBeginPreserves ==
    ASSUME PutIInv, NEW p \in Payloads, PutBegin(p)
    PROVE  PutIInv'
  <1>t. SettingsTypeOK BY DEF PutIInv
  <1>1. /\ put = None /\ ppc = "free" /\ saves < MaxPuts /\ saves \in 0 .. MaxPuts
        /\ saves' = saves + 1 /\ saves' \in Slots
        /\ ppc' = "gate" /\ cut' = FALSE /\ wrote' = "no"
        /\ UNCHANGED <<app, vault, report, queue, reader, used, trouble, split, leak, bound>>
    BY <1>t, PutsAssumption DEF PutBegin, SettingsTypeOK, Slots
  <1>2. put' = [p |-> p, new |-> Binding(p, app, saves'), slot |-> saves',
                old |-> app.ref, fresh |-> FALSE, before |-> None, moved |-> FALSE]
    BY <1>1 DEF PutBegin, Slot
  <1>3. put' \in Saves /\ put' # None
    <2>1. app \in AppRows BY <1>t DEF SettingsTypeOK
    <2>2. Binding(p, app, saves') \in AppRows BY <1>1, <2>1, BindingIsTyped
    <2>3. put' \in Saves BY <1>1, <1>2, <2>1, <2>2 DEF Saves, Dirs, AppRows
    <2> QED BY <2>3, NoKeyAssumption
  <1>4. SettingsTypeOK' BY <1>t, <1>1, <1>3, PutsAssumption DEF SettingsTypeOK, Slots
  <1>5. RowNamesItsKey' /\ CompletedIsRunnable' BY <1>1, RowKept
  <1>6. ReaderIsSafe' /\ KeyStaysAtItsEndpoint' BY <1>1, ReaderKept
  <1>7. SlotsInOrder'
    <2>1. \A s \in bound : s # None => s <= saves BY DEF PutIInv, SlotsInOrder
    <2>2. saves' \notin bound /\ saves' # app.ref
      BY <1>1, <2>1, NoKeyAssumption DEF PutIInv, SlotsInOrder, Slots
    <2>3. \A s \in bound : s # None => s <= saves'
      BY <1>1, <1>t, <2>1 DEF SettingsTypeOK, Slots
    <2>4. \A i \in DOMAIN queue : queue[i].slot \in Slots
      BY <1>t DEF SettingsTypeOK, VaultOps
    <2> QED BY <1>1, <1>2, <2>2, <2>3, <2>4 DEF PutIInv, SlotsInOrder, Slots
  <1>8. QueueIsHarmless'
    <2>1. \A i \in DOMAIN queue : queue[i].slot <= saves /\ queue[i].slot \in Slots
      BY <1>t DEF PutIInv, SlotsInOrder, SettingsTypeOK, VaultOps
    <2>2. \A i \in DOMAIN queue : queue[i].slot # saves' BY <1>1, <2>1 DEF Slots
    <2> QED BY <1>1, <1>2, <2>2 DEF PutIInv, QueueIsHarmless
  <1>9. SaveWantsItsKey'
    <2> DEFINE new == Binding(p, app, saves')
    <2>1. p.key = "typed" => new.ref = saves' /\ new.origin = new.base BY DEF Binding, Slot
    <2>2. ASSUME p.key # "typed", new.ref # None
          PROVE  /\ new.ref = app.ref /\ KeyOf(new) = KeyOf(app)
                 /\ OriginOf(new.origin) = OriginOf(new.base)
      <3>1. ~ Unbinds(p, app, Merged(p.base, app.base)) /\ new.ref = app.ref /\ new.origin = app.origin
        BY <2>2 DEF Binding
      <3>2. new.provider = app.provider BY <3>1 DEF Binding, Unbinds, Merged
      <3>3. OriginOf(app.origin) = OriginOf(new.base)
        BY <2>2, <3>1 DEF Binding, Unbinds, Merged, PutIInv, SaveWantsItsKey
      <3> QED BY <3>1, <3>2, <3>3 DEF KeyOf
    <2>3. app.ref # None => OriginOf(app.origin) = OriginOf(app.base) BY DEF PutIInv, SaveWantsItsKey
    <2> HIDE DEF new
    <2> QED BY <1>1, <1>2, <2>1, <2>2, <2>3 DEF SaveWantsItsKey, new
  <1>10. FreshSlot'
    <2>1. vault[saves'] = None BY <1>1 DEF PutIInv, SlotsInOrder, Slots
    <2> QED BY <1>1, <1>2, <2>1 DEF FreshSlot
  <1>11. PointerInStep'
    <2>1. p.dir = "keep" => Binding(p, app, saves').dir = app.dir BY DEF Binding, Merged
    <2> QED BY <1>1, <1>2, <2>1 DEF PutIInv, PointerInStep
  <1>12. GarbageIsDoomed'
    <2>1. \A s \in Slots : (Untouched(s) => Untouched(s)') /\ (Doomed(s) => Doomed(s)')
      BY <1>1 DEF Untouched, Doomed
    <2> QED BY <1>1, <2>1 DEF PutIInv, GarbageIsDoomed
  <1> QED BY <1>4, <1>5, <1>6, <1>7, <1>8, <1>9, <1>10, <1>11, <1>12 DEF PutIInv

(* The gate: refused, waiting for the vault, or on to the pointer.         *)
LEMMA GatePreserves == PutIInv /\ PutGate => PutIInv'
  <1> SUFFICES ASSUME PutIInv, PutGate PROVE PutIInv' OBVIOUS
  <1>t. SettingsTypeOK BY DEF PutIInv
  <1>0. /\ ppc = "gate" /\ put \in Saves /\ put # None /\ wrote = "no" /\ queue \in Seq(VaultOps)
        /\ UNCHANGED <<app, vault, report, reader, used, saves, split, leak, bound>>
    BY <1>t, NoKeyAssumption DEF PutGate, SettingsTypeOK
  <1>1. PICK stored \in {Stored(put.new.ref), FALSE} : PutGate!2!(stored)
    BY DEF PutGate
  <1>2. trouble' \in 0 .. MaxTrouble
    BY <1>1, <1>t, PutsAssumption DEF Trouble, Calm, SettingsTypeOK
  <1>n. /\ put.slot = saves /\ put.slot \in Slots /\ put.new \in AppRows /\ put.slot \notin bound
        /\ vault[put.slot] = None /\ \A i \in DOMAIN queue : queue[i].slot # put.slot
    BY <1>0 DEF PutIInv, SlotsInOrder, QueueIsHarmless, FreshSlot, Saves
  <1>3. CASE ~ Runnable(stored) /\ PutOver /\ UNCHANGED queue
    <2>1. Untouched(put.slot) BY <1>n DEF Untouched
    <2>2. ~ split' => report' = app.dir BY <1>0 DEF PutIInv, PointerInStep
    <2>3. split' \in BOOLEAN /\ leak' \in BOOLEAN /\ report' \in Dirs /\ (~ leak' => ~ leak)
      BY <1>0, <1>t DEF SettingsTypeOK
    <2> QED BY <1>0, <1>2, <1>3, <2>1, <2>2, <2>3, SaveEnds
  <1>4. CASE /\ Runnable(stored) /\ put.p.key = "typed"
             /\ queue' = Append(queue, SetOp(put.slot, [provider |-> put.new.provider,
                                                        origin |-> OriginOf(put.new.base)]))
             /\ ppc' = "secret" /\ UNCHANGED <<put, cut, wrote>>
    <2> DEFINE o == SetOp(put.slot, KeyOf(put.new))
    <2>1. o \in VaultOps /\ queue' = Append(queue, o)
      BY <1>n, <1>4, KeyIsTyped, OpsAreTyped, <1>0 DEF PutIInv, SaveWantsItsKey, KeyOf
    <2>2. /\ queue' \in Seq(VaultOps) /\ Len(queue) + 1 \in DOMAIN queue' /\ queue'[Len(queue) + 1] = o
          /\ \A i \in DOMAIN queue' : \/ i \in DOMAIN queue /\ queue'[i] = queue[i]
                                      \/ i = Len(queue) + 1 /\ queue'[i] = o
      BY <1>0, <2>1, Appended
    <2>3. o.op = "set" /\ o.slot = put.slot /\ o.slot # app.ref /\ o.slot \notin bound
      BY <1>n DEF SetOp, PutIInv, SlotsInOrder
    <2>4. o = SetOp(put.slot, KeyOf(put.new)) OBVIOUS
    <2> HIDE DEF o
    <2>5. SettingsTypeOK' BY <1>t, <1>0, <1>2, <1>4, <2>2 DEF SettingsTypeOK
    <2>6. RowNamesItsKey' /\ CompletedIsRunnable' BY <1>0, RowKept
    <2>7. ReaderIsSafe' /\ KeyStaysAtItsEndpoint' BY <1>0, ReaderKept
    <2>8. SlotsInOrder' BY <1>0, <1>n, <1>4, <2>2, <2>3 DEF PutIInv, SlotsInOrder, Slots
    <2>9. QueueIsHarmless' BY <1>0, <1>n, <1>4, <2>2, <2>3, <2>4 DEF PutIInv, QueueIsHarmless
    <2>10. SaveWantsItsKey' BY <1>0, <1>4 DEF PutIInv, SaveWantsItsKey, Runnable
    <2>11. FreshSlot' BY <1>0, <1>4 DEF PutIInv, FreshSlot
    <2>12. PointerInStep' BY <1>0, <1>4 DEF PutIInv, PointerInStep
    <2>13. GarbageIsDoomed'
      <3> SUFFICES ASSUME ~ leak', NEW s \in Slots \ bound, s # put.slot
                   PROVE  Untouched(s)' \/ Doomed(s)'
        BY <1>0, <1>4 DEF GarbageIsDoomed
      <3>1. Untouched(s) \/ Doomed(s) BY <1>0 DEF PutIInv, GarbageIsDoomed
      <3>2. DOMAIN queue' = DOMAIN queue \cup {Len(queue) + 1} BY <1>0, <2>1, Appended
      <3>3. Untouched(s) => Untouched(s)' BY <1>0, <2>2, <2>3 DEF Untouched
      <3>4. Doomed(s) => Doomed(s)' BY <1>0, <2>1, <2>2, <2>3, <3>2, Appended DEF Doomed
      <3> QED BY <3>1, <3>3, <3>4
    <2> QED BY <2>5, <2>6, <2>7, <2>8, <2>9, <2>10, <2>11, <2>12, <2>13 DEF PutIInv
  <1>5. CASE /\ Runnable(stored) /\ put.p.key # "typed"
             /\ put' = IF put.p.key = "cleared"
                         THEN [put EXCEPT !.new.ref = None, !.new.origin = None] ELSE put
             /\ ppc' = "pointer" /\ UNCHANGED <<queue, cut, wrote>>
    <2>1. /\ put' \in Saves /\ put'.p = put.p /\ put'.slot = put.slot /\ put'.old = put.old
          /\ put'.fresh = put.fresh /\ put'.moved = put.moved /\ put'.before = put.before
          /\ put'.new \in AppRows /\ put'.new.done = put.new.done /\ put'.new.dir = put.new.dir
          /\ put.p.key = "cleared" => put'.new.ref = None
          /\ put.p.key # "cleared" => put' = put
      BY <1>0, <1>5 DEF Saves, AppRows
    <2>2. put' # None BY <2>1, NoKeyAssumption
    <2>3. put.p.key = "cleared" => put.new.done = "no" BY <1>5 DEF Runnable
    <2>4. put.p.key # "cleared" /\ put.new.done # "no" =>
            None \notin {put.new.provider, put.new.base, put.new.ref}
      BY <1>5 DEF Runnable
    <2>5. SettingsTypeOK' BY <1>t, <1>0, <1>2, <1>5, <2>1, <2>2 DEF SettingsTypeOK
    <2>6. RowNamesItsKey' /\ CompletedIsRunnable' BY <1>0, RowKept
    <2>7. ReaderIsSafe' /\ KeyStaysAtItsEndpoint' BY <1>0, ReaderKept
    <2>8. SlotsInOrder' BY <1>0, <1>5, <2>1 DEF PutIInv, SlotsInOrder
    <2>9. QueueIsHarmless' BY <1>0, <1>n, <1>5, <2>1 DEF PutIInv, QueueIsHarmless
    <2>10. SaveWantsItsKey' BY <1>0, <1>5, <2>1, <2>3, <2>4 DEF PutIInv, SaveWantsItsKey
    <2>11. FreshSlot' BY <1>0, <1>n, <1>5, <2>1 DEF PutIInv, FreshSlot
    <2>12. PointerInStep' BY <1>0, <1>5, <2>1 DEF PutIInv, PointerInStep
    <2>13. GarbageIsDoomed'
      <3>1. \A s \in Slots : (Untouched(s) => Untouched(s)') /\ (Doomed(s) => Doomed(s)')
        BY <1>0, <1>5 DEF Untouched, Doomed
      <3> QED BY <1>0, <1>5, <2>1, <3>1 DEF PutIInv, GarbageIsDoomed
    <2> QED BY <2>5, <2>6, <2>7, <2>8, <2>9, <2>10, <2>11, <2>12, <2>13 DEF PutIInv
  <1> QED BY <1>1, <1>3, <1>4, <1>5

(* A step of a save that changes its own record or step, nothing shared.   *)
LEMMA OwnStepPreserves ==
    ASSUME PutIInv, PutConfirmed \/ PutSave \/ PutCut
    PROVE  PutIInv'
  <1>t. SettingsTypeOK BY DEF PutIInv
  <1>0. /\ ppc # "free" /\ put \in Saves /\ ppc' # "free" /\ wrote' = wrote
        /\ UNCHANGED <<app, vault, report, queue, reader, used, saves, split, leak, bound>>
    BY <1>t, NoKeyAssumption DEF PutConfirmed, PutSave, PutCut, SettingsTypeOK
  <1>a. trouble' \in 0 .. MaxTrouble
    BY <1>t, PutsAssumption DEF PutConfirmed, PutSave, PutCut, Trouble, SettingsTypeOK
  <1>b. cut' \in BOOLEAN BY <1>t DEF PutConfirmed, PutSave, PutCut, SettingsTypeOK
  <1>1. trouble' \in 0 .. MaxTrouble /\ cut' \in BOOLEAN BY <1>a, <1>b
  <1>2. /\ put' \in Saves /\ put'.p = put.p /\ put'.slot = put.slot /\ put'.old = put.old
        /\ put'.new = put.new /\ put'.moved = put.moved /\ put'.before = put.before
    BY <1>0 DEF PutConfirmed, PutSave, PutCut, Saves
  <1>3. put' # None BY <1>2, NoKeyAssumption
  <1>4. \/ ppc = "secret" /\ wrote = "ok" /\ ppc' = "pointer" /\ put'.fresh
        \/ ppc = "save" /\ ppc' = "commit" /\ put' = put
        \/ ppc \in {"commit", "durable"} /\ ppc' = ppc /\ put' = put
    BY <1>0 DEF PutConfirmed, PutSave, PutCut, Saves
  <1>5. SettingsTypeOK' BY <1>t, <1>0, <1>1, <1>2, <1>3, <1>4 DEF SettingsTypeOK
  <1>6. RowNamesItsKey' /\ CompletedIsRunnable' BY <1>0, RowKept
  <1>7. ReaderIsSafe' /\ KeyStaysAtItsEndpoint' BY <1>0, ReaderKept
  <1>8. SlotsInOrder' BY <1>0, <1>2, <1>4 DEF PutIInv, SlotsInOrder
  <1>9. QueueIsHarmless' BY <1>0, <1>2, <1>4 DEF PutIInv, QueueIsHarmless
  <1>10. SaveWantsItsKey' BY <1>0, <1>2, <1>4 DEF PutIInv, SaveWantsItsKey, FreshSlot
  <1>11. FreshSlot' BY <1>0, <1>2, <1>4 DEF PutIInv, FreshSlot
  <1>12. PointerInStep' BY <1>0, <1>2, <1>4 DEF PutIInv, PointerInStep
  <1>13. GarbageIsDoomed'
    <2>1. \A s \in Slots : (Untouched(s) => Untouched(s)') /\ (Doomed(s) => Doomed(s)')
      BY <1>0 DEF Untouched, Doomed
    <2> QED BY <1>0, <1>2, <2>1 DEF PutIInv, GarbageIsDoomed
  <1> QED BY <1>5, <1>6, <1>7, <1>8, <1>9, <1>10, <1>11, <1>12, <1>13 DEF PutIInv

(* The pointer is written; the row follows it or it is put back.           *)
LEMMA PointerPreserves == PutIInv /\ PutPointer => PutIInv'
  <1> SUFFICES ASSUME PutIInv, PutPointer PROVE PutIInv' OBVIOUS
  <1>t. SettingsTypeOK BY DEF PutIInv
  <1>0. /\ ppc = "pointer" /\ ppc' = "save" /\ put \in Saves
        /\ UNCHANGED <<cut, wrote, app, vault, queue, reader, used, saves, trouble, split, leak, bound>>
    BY <1>t, NoKeyAssumption DEF PutPointer, Calm, SettingsTypeOK
  <1>1. /\ put' \in Saves /\ put'.p = put.p /\ put'.slot = put.slot /\ put'.old = put.old
        /\ put'.new = put.new /\ put'.fresh = put.fresh /\ report' \in Dirs
    BY <1>0, <1>t DEF PutPointer, Saves, AppRows, SettingsTypeOK
  <1>2. put' # None BY <1>1, NoKeyAssumption
  <1>3. IF put.p.dir = "keep" THEN report' = report /\ put'.moved = put.moved
        ELSE report' = put.new.dir /\ put'.moved = TRUE /\ put'.before = report
    BY <1>0 DEF PutPointer, Saves
  <1>m. put'.moved = (put.p.dir # "keep")
    BY <1>0, <1>3 DEF PutIInv, PointerInStep, Saves
  <1>4. SettingsTypeOK' BY <1>t, <1>0, <1>1, <1>2 DEF SettingsTypeOK
  <1>5. RowNamesItsKey' /\ CompletedIsRunnable' BY <1>0, RowKept
  <1>6. ReaderIsSafe' /\ KeyStaysAtItsEndpoint' BY <1>0, ReaderKept
  <1>7. SlotsInOrder' BY <1>0, <1>1 DEF PutIInv, SlotsInOrder
  <1>8. QueueIsHarmless' BY <1>0, <1>1 DEF PutIInv, QueueIsHarmless
  <1>9. SaveWantsItsKey' BY <1>0, <1>1 DEF PutIInv, SaveWantsItsKey
  <1>10. FreshSlot' BY <1>0, <1>1 DEF PutIInv, FreshSlot
  <1>11. PointerInStep' BY <1>0, <1>1, <1>3, <1>m DEF PutIInv, PointerInStep
  <1>12. GarbageIsDoomed'
    <2>1. \A s \in Slots : (Untouched(s) => Untouched(s)') /\ (Doomed(s) => Doomed(s)')
      BY <1>0 DEF Untouched, Doomed
    <2> QED BY <1>0, <1>1, <2>1 DEF PutIInv, GarbageIsDoomed
  <1> QED BY <1>4, <1>5, <1>6, <1>7, <1>8, <1>9, <1>10, <1>11, <1>12 DEF PutIInv

(* The row is durable: it names the key the save confirmed, or the one it  *)
(* had.                                                                    *)
LEMMA DurablePreserves == PutIInv /\ PutDurable => PutIInv'
  <1> SUFFICES ASSUME PutIInv, PutDurable PROVE PutIInv' OBVIOUS
  <1>t. SettingsTypeOK BY DEF PutIInv
  <1>0. /\ ppc = "commit" /\ ppc' = "durable" /\ put \in Saves
        /\ app' = put.new /\ bound' = bound \cup {put.new.ref}
        /\ UNCHANGED <<put, cut, wrote, vault, report, queue, reader, used, saves, trouble, split, leak>>
    BY <1>t, NoKeyAssumption DEF PutDurable, SettingsTypeOK
  <1>1. put.new \in AppRows /\ put.new.ref \in Slots \cup {None} /\ put.slot \in Slots
    BY <1>0 DEF Saves, AppRows
  <1>2. put.p.key = "typed" => /\ put.new.ref = put.slot /\ put.new.origin = put.new.base
                               /\ vault[put.slot] = KeyOf(put.new)
    BY <1>0 DEF PutIInv, SaveWantsItsKey, FreshSlot
  <1>3. put.p.key # "typed" /\ put.new.ref # None =>
          /\ put.new.ref = app.ref /\ KeyOf(put.new) = KeyOf(app)
          /\ OriginOf(put.new.origin) = OriginOf(put.new.base)
    BY <1>0 DEF PutIInv, SaveWantsItsKey
  <1>4. put.new.ref # None => vault[put.new.ref] = KeyOf(put.new)
    BY <1>2, <1>3 DEF PutIInv, RowNamesItsKey, KeyOf
  <1>5. SettingsTypeOK' BY <1>t, <1>0, <1>1 DEF SettingsTypeOK
  <1>6. RowNamesItsKey' BY <1>0, <1>4 DEF RowNamesItsKey, KeyOf
  <1>7. CompletedIsRunnable'
    <2>1. put.new.done = "yes" => None \notin {put.new.provider, put.new.base, put.new.ref}
      BY <1>0 DEF PutIInv, SaveWantsItsKey
    <2>2. put.new.ref # None => OriginOf(put.new.origin) = OriginOf(put.new.base)
      BY <1>2, <1>3
    <2>3. put.new.ref # None => vault[put.new.ref] # None BY <1>1, <1>4, KeyIsTyped
    <2> QED BY <1>0, <2>1, <2>2, <2>3 DEF CompletedIsRunnable, Stored
  <1>8. ReaderIsSafe' /\ KeyStaysAtItsEndpoint'
    BY <1>0 DEF PutIInv, ReaderIsSafe, KeyStaysAtItsEndpoint
  <1>9. SlotsInOrder' BY <1>0, <1>1, <1>2, <1>3 DEF PutIInv, SlotsInOrder, Slots
  <1>10. QueueIsHarmless'
    <2>1. \A i \in DOMAIN queue : queue[i].slot \in Slots BY <1>t DEF SettingsTypeOK, VaultOps
    <2>2. \A i \in DOMAIN queue : /\ queue[i].slot # put.slot /\ queue[i].slot # app.ref
                                  /\ queue[i].slot # None
      BY <1>0, <2>1, NoKeyAssumption DEF PutIInv, QueueIsHarmless, Slots
    <2>3. put.new.ref \in {put.slot, app.ref, None} BY <1>2, <1>3
    <2> QED BY <1>0, <2>2, <2>3 DEF PutIInv, QueueIsHarmless
  <1>11. SaveWantsItsKey'
    <2>1. put.p.key = "cleared" => put.new.ref = None BY <1>0 DEF PutIInv, SaveWantsItsKey
    <2> QED BY <1>0, <1>2, <1>3, <2>1 DEF PutIInv, SaveWantsItsKey
  <1>12. FreshSlot' BY <1>0 DEF PutIInv, FreshSlot
  <1>13. PointerInStep' BY <1>0 DEF PutIInv, PointerInStep
  <1>14. GarbageIsDoomed'
    <2>1. \A s \in Slots : (Untouched(s) => Untouched(s)') /\ (Doomed(s) => Doomed(s)')
      BY <1>0 DEF Untouched, Doomed
    <2> QED BY <1>0, <2>1 DEF PutIInv, GarbageIsDoomed
  <1> QED BY <1>5, <1>6, <1>7, <1>8, <1>9, <1>10, <1>11, <1>12, <1>13, <1>14 DEF PutIInv

(* Every way a save can end.                                               *)
LEMMA EndPreserves ==
    ASSUME PutIInv, \/ PutUnconfirmed \/ PutCancelled \/ PutPointerFails
                 \/ (\E works \in BOOLEAN : PutRollback(works)) \/ PutVerdict \/ PutCrash
    PROVE  PutIInv'
  <1>t. SettingsTypeOK BY DEF PutIInv
  <1>0. /\ split \in BOOLEAN /\ leak \in BOOLEAN /\ report \in Dirs
        /\ trouble \in 0 .. MaxTrouble /\ MaxTrouble \in Nat
        /\ trouble < MaxTrouble => trouble + 1 \in 0 .. MaxTrouble
        /\ trouble + 1 < MaxTrouble => trouble + 2 \in 0 .. MaxTrouble
    BY <1>t, PutsAssumption DEF SettingsTypeOK
  <1>1. ppc # "free" => /\ put \in Saves /\ put.slot \in Slots /\ put.slot <= saves /\ put.before \in Dirs
                        /\ ppc # "durable" => put.slot # app.ref
    BY <1>t DEF PutIInv, SettingsTypeOK, SlotsInOrder, Saves, Slots
  <1>2. ppc \notin {"free", "secret"} /\ ~ put.fresh => Untouched(put.slot)
    BY DEF PutIInv, FreshSlot, QueueIsHarmless, Untouched
  <1>3. ASSUME ppc \in {"gate", "secret", "pointer"}
        PROVE  ~ split => report = app.dir
    BY <1>3 DEF PutIInv, PointerInStep
  <1>4. CASE PutUnconfirmed
    <2>1. /\ ppc = "secret" /\ PutOver /\ queue' = Append(queue, DeleteOp(put.slot))
          /\ UNCHANGED <<app, vault, report, reader, used, saves, split, leak, bound>>
          /\ trouble' \in 0 .. MaxTrouble
      BY <1>0, <1>4 DEF PutUnconfirmed, Unconfirmed, Trouble, Calm
    <2> QED BY <1>0, <1>1, <1>3, <2>1, SaveEnds
  <1>5. CASE PutCancelled
    <2>1. /\ ppc \in {"gate", "secret"} /\ PutOver /\ leak' = (leak \/ ppc = "secret")
          /\ UNCHANGED <<app, vault, report, queue, reader, used, saves, split, bound>>
          /\ trouble' \in 0 .. MaxTrouble
      BY <1>0, <1>5 DEF PutCancelled, Trouble
    <2>2. ppc = "gate" => ~ put.fresh BY DEF PutIInv, FreshSlot
    <2>3. ~ leak' => ~ leak /\ Untouched(put.slot) BY <1>2, <2>1, <2>2
    <2>4. leak' \in BOOLEAN BY <2>1
    <2> QED BY <1>0, <1>3, <2>1, <2>3, <2>4, SaveEnds
  <1>6. CASE PutPointerFails
    <2>1. /\ ppc = "pointer" /\ PutOver /\ CleanupFresh
          /\ UNCHANGED <<app, vault, report, reader, used, saves, split, leak, bound>>
          /\ trouble' \in 0 .. MaxTrouble
      BY <1>0, <1>6 DEF PutPointerFails, Trouble
    <2>2. \/ queue' = Append(queue, DeleteOp(put.slot))
          \/ UNCHANGED queue /\ Untouched(put.slot)
      BY <1>2, <2>1 DEF CleanupFresh
    <2> QED BY <1>0, <1>1, <1>3, <2>1, <2>2, SaveEnds
  <1>7. ASSUME NEW works \in BOOLEAN, PutRollback(works) PROVE PutIInv'
    <2>1. /\ ppc \in {"save", "commit"} /\ PutOver /\ CleanupFresh /\ RestorePointer(works)
          /\ UNCHANGED <<app, vault, reader, used, saves, leak, bound>>
          /\ trouble' \in 0 .. MaxTrouble
      BY <1>0, <1>7 DEF PutRollback, Trouble
    <2>2. \/ queue' = Append(queue, DeleteOp(put.slot))
          \/ UNCHANGED queue /\ Untouched(put.slot)
      BY <1>2, <2>1 DEF CleanupFresh
    <2>3. report' \in Dirs /\ split' \in BOOLEAN /\ (~ split' => report' = app.dir)
      BY <1>0, <1>1, <2>1 DEF RestorePointer, PutIInv, PointerInStep
    <2> QED BY <1>0, <1>1, <2>1, <2>2, <2>3, SaveEnds
  <1>8. CASE PutVerdict
    <2>1. /\ ppc = "durable" /\ PutOver
          /\ queue' = IF put.p.key \in {"typed", "cleared"} /\ put.old # None
                        THEN Append(queue, DeleteOp(put.old)) ELSE queue
          /\ UNCHANGED <<app, vault, report, reader, used, saves, trouble, split, leak, bound>>
      BY <1>8 DEF PutVerdict, Adopted
    <2>2. app = put.new /\ app.ref \in bound BY <2>1 DEF PutIInv, SaveWantsItsKey, SlotsInOrder
    <2>3. put.fresh => put.slot \in bound
      BY <2>1, <2>2 DEF PutIInv, SaveWantsItsKey, FreshSlot
    <2>4. ~ split => report = app.dir BY <2>1 DEF PutIInv, PointerInStep
    <2>5. ASSUME put.p.key \in {"typed", "cleared"}, put.old # None
          PROVE  put.old \in Slots /\ put.old # app.ref /\ put.old <= saves
      <3>1. put.old \in Slots BY <1>1, <2>1, <2>5 DEF Saves
      <3>2. put.old # app.ref
        BY <2>1, <2>2, <2>5, <3>1, NoKeyAssumption DEF PutIInv, SaveWantsItsKey, SlotsInOrder, Slots
      <3>3. put.old <= saves BY <2>1, <2>5 DEF PutIInv, SlotsInOrder
      <3> QED BY <3>1, <3>2, <3>3
    <2> QED BY <1>0, <1>1, <1>2, <2>1, <2>3, <2>4, <2>5, SaveEnds
  <1>9. CASE PutCrash
    <2>1. /\ PutOver /\ queue' = <<>> /\ reader' = None
          /\ split' = (split \/ (ppc \in {"save", "commit"} /\ put.moved))
          /\ leak' = (leak \/ put # None \/ queue # <<>>)
          /\ UNCHANGED <<app, vault, report, used, saves, bound>>
          /\ trouble' \in 0 .. MaxTrouble
      BY <1>0, <1>9 DEF PutCrash, Trouble
    <2>2. split' \in BOOLEAN /\ leak' \in BOOLEAN BY <1>0, <2>1
    <2>3. ~ split' => report' = app.dir BY <2>1 DEF PutIInv, PointerInStep
    <2>4. ~ leak' => ~ leak /\ ppc = "free" /\ UNCHANGED queue
      BY <1>t, <2>1 DEF SettingsTypeOK
    <2> QED BY <1>0, <2>1, <2>2, <2>3, <2>4, SaveEnds
  <1> QED BY <1>4, <1>5, <1>6, <1>7, <1>8, <1>9

(* The credential thread: a write gives the save under way its key or      *)
(* fills a slot nobody refers to; a deletion takes a slot nobody needs.    *)
LEMMA VaultPreserves == PutIInv /\ VaultStep => PutIInv'
  <1> SUFFICES ASSUME PutIInv, VaultStep PROVE PutIInv' OBVIOUS
  <1>t. SettingsTypeOK BY DEF PutIInv
  <1> DEFINE o == Head(queue)
  <1>0. /\ queue # <<>> /\ queue \in Seq(VaultOps) /\ queue' = Tail(queue)
        /\ UNCHANGED <<app, report, put, ppc, cut, reader, used, saves, split, bound>>
        /\ VaultDone(o) \/ VaultFails(o)
    BY <1>t DEF VaultStep, SettingsTypeOK
  <1>1. /\ queue' \in Seq(VaultOps) /\ o \in VaultOps /\ o = queue[1] /\ 1 \in DOMAIN queue
        /\ \A i \in DOMAIN queue' : i \in Nat /\ i + 1 \in DOMAIN queue /\ queue'[i] = queue[i + 1]
        /\ \A i \in DOMAIN queue : i \in Nat /\ (i # 1 => i - 1 \in DOMAIN queue')
    BY <1>0, Dequeued
  <1> HIDE DEF o
  <1>2. /\ o.slot \in Slots /\ o.slot # app.ref /\ o.slot <= saves
        /\ o.op = "set" => o.slot \notin bound /\ o.secret \in Endpoints
        /\ o.op # "set" => o.op = "delete" /\ o.secret = None
    BY <1>1 DEF PutIInv, QueueIsHarmless, SlotsInOrder, VaultOps
  <1>3. ppc # "free" /\ o.slot = put.slot =>
          /\ ppc = "secret" /\ wrote = "no" /\ o.op = "set" /\ o.secret = KeyOf(put.new)
          /\ \A i \in DOMAIN queue' : queue'[i].slot # put.slot
    <2> SUFFICES ASSUME ppc # "free", o.slot = put.slot
                 PROVE  /\ ppc = "secret" /\ wrote = "no" /\ o.op = "set" /\ o.secret = KeyOf(put.new)
                        /\ \A i \in DOMAIN queue' : queue'[i].slot # put.slot
      OBVIOUS
    <2>1. /\ ppc = "secret" /\ wrote = "no" /\ o = SetOp(put.slot, KeyOf(put.new))
          /\ \A k \in DOMAIN queue : queue[k].slot = put.slot => k = 1
      BY <1>1 DEF PutIInv, QueueIsHarmless
    <2>2. \A i \in DOMAIN queue' : i + 1 # 1
      <3> SUFFICES ASSUME NEW i \in DOMAIN queue', i + 1 = 1 PROVE FALSE OBVIOUS
      <3>1. i \in 1 .. Len(queue') BY <1>1
      <3> QED BY <3>1
    <2> QED BY <1>1, <2>1, <2>2 DEF SetOp
  <1>4. /\ vault' \in [Slots -> Endpoints \cup {None}]
        /\ \A s \in Slots : s # o.slot => vault'[s] = vault[s]
        /\ vault'[o.slot] \in {vault[o.slot], o.secret}
        /\ o.op = "delete" /\ ~ leak' => vault'[o.slot] = None
        /\ leak' \in BOOLEAN /\ (~ leak' => ~ leak)
    BY <1>0, <1>2, <1>t DEF VaultDone, VaultFails, SettingsTypeOK
  <1>5. /\ wrote' \in {"no", "ok", "failed"}
        /\ wrote' = wrote \/ (o.op = "set" /\ put # None /\ put.slot = o.slot)
        /\ wrote' = "ok" /\ wrote' # wrote => vault'[o.slot] = o.secret
    BY <1>0, <1>2, <1>t DEF VaultDone, VaultFails, SettingsTypeOK
  <1>6. trouble' \in 0 .. MaxTrouble
    BY <1>0, <1>t, PutsAssumption DEF VaultDone, VaultFails, Trouble, Calm, SettingsTypeOK
  <1>7. SettingsTypeOK'
    <2>1. ppc' \in {"free", "gate"} => wrote' = "no"
      BY <1>0, <1>3, <1>5, <1>t DEF SettingsTypeOK
    <2> QED BY <1>t, <1>0, <1>1, <1>4, <1>5, <1>6, <2>1 DEF SettingsTypeOK
  <1>8. app.ref # None => app.ref \in Slots /\ vault'[app.ref] = vault[app.ref]
    BY <1>2, <1>4, <1>t DEF SettingsTypeOK, AppRows
  <1>9. RowNamesItsKey' BY <1>0, <1>8 DEF PutIInv, RowNamesItsKey
  <1>10. CompletedIsRunnable' BY <1>0, <1>8 DEF PutIInv, CompletedIsRunnable, Stored
  <1>11. ReaderIsSafe' /\ KeyStaysAtItsEndpoint'
    <2>1. reader # None => reader.ref \in Slots /\ reader.ref \in bound
      BY <1>t DEF PutIInv, ReaderIsSafe, SettingsTypeOK, Readers
    <2>2. reader # None => vault'[reader.ref] \in {vault[reader.ref], None}
      BY <1>2, <1>4, <2>1
    <2> QED BY <1>0, <2>2 DEF PutIInv, ReaderIsSafe, KeyStaysAtItsEndpoint
  <1>12. SlotsInOrder'
    <2>1. \A s \in Slots : s > saves => vault'[s] = None
      BY <1>2, <1>4, <1>t DEF PutIInv, SlotsInOrder, SettingsTypeOK, Slots
    <2> QED BY <1>0, <1>1, <2>1 DEF PutIInv, SlotsInOrder
  <1>13. QueueIsHarmless'
    <2>1. \A i \in DOMAIN queue' : /\ queue'[i].slot # app.ref
                                   /\ queue'[i].op = "set" => queue'[i].slot \notin bound
      BY <1>1 DEF PutIInv, QueueIsHarmless
    <2>2. ASSUME ppc # "free", NEW i \in DOMAIN queue', queue'[i].slot = put.slot
          PROVE  /\ ppc = "secret" /\ wrote' = "no" /\ queue'[i] = SetOp(put.slot, KeyOf(put.new))
                 /\ \A k \in DOMAIN queue' : queue'[k].slot = put.slot => k = i
      <3>1. /\ i + 1 \in DOMAIN queue /\ queue[i + 1].slot = put.slot /\ i \in Nat
        BY <1>1, <2>2
      <3>2. /\ ppc = "secret" /\ wrote = "no" /\ queue[i + 1] = SetOp(put.slot, KeyOf(put.new))
            /\ \A k \in DOMAIN queue : queue[k].slot = put.slot => k = i + 1
        BY <2>2, <3>1 DEF PutIInv, QueueIsHarmless
      <3>3. o.slot # put.slot BY <1>3, <2>2
      <3>4. wrote' = "no" BY <1>5, <3>2, <3>3
      <3>5. ASSUME NEW k \in DOMAIN queue', queue'[k].slot = put.slot PROVE k = i
        <4>1. k \in Nat /\ k + 1 \in DOMAIN queue /\ queue[k + 1].slot = put.slot BY <1>1, <3>5
        <4>2. k + 1 = i + 1 BY <3>2, <4>1
        <4> QED BY <3>1, <4>1, <4>2
      <3> QED BY <1>1, <2>2, <3>2, <3>4, <3>5
    <2> QED BY <1>0, <2>1, <2>2 DEF QueueIsHarmless
  <1>14. SaveWantsItsKey' BY <1>0 DEF PutIInv, SaveWantsItsKey
  <1>15. FreshSlot'
    <2>1. ppc # "free" => put.slot \in Slots BY <1>t DEF SettingsTypeOK, Saves
    <2>2. CASE ppc # "free" /\ o.slot = put.slot
      BY <1>0, <1>3, <1>5, <2>2 DEF PutIInv, FreshSlot
    <2>3. CASE ppc # "free" /\ o.slot # put.slot
      BY <1>0, <1>4, <1>5, <2>1, <2>3 DEF PutIInv, FreshSlot
    <2>4. CASE ppc = "free" BY <1>0, <2>4 DEF FreshSlot
    <2> QED BY <2>2, <2>3, <2>4
  <1>16. PointerInStep' BY <1>0 DEF PutIInv, PointerInStep
  <1>17. GarbageIsDoomed'
    <2> SUFFICES ASSUME ~ leak', NEW s \in Slots \ bound
                 PROVE  Untouched(s)' \/ Doomed(s)' \/ (ppc # "free" /\ s = put.slot)
      BY <1>0 DEF GarbageIsDoomed
    <2>1. Untouched(s) \/ Doomed(s) \/ (ppc # "free" /\ s = put.slot)
      BY <1>4 DEF PutIInv, GarbageIsDoomed
    <2>2. ASSUME Untouched(s) PROVE Untouched(s)'
      BY <1>1, <1>2, <1>4, <2>2 DEF Untouched
    <2>3. ASSUME Doomed(s) PROVE Untouched(s)' \/ Doomed(s)'
      <3>1. PICK i \in DOMAIN queue : /\ queue[i].op = "delete" /\ queue[i].slot = s
                                      /\ \A k \in DOMAIN queue : k > i /\ queue[k].op = "set" => queue[k].slot # s
        BY <2>3 DEF Doomed
      <3>2. CASE i = 1
        <4>1. vault'[s] = None BY <1>1, <1>4, <3>1, <3>2
        <4>2. \A k \in DOMAIN queue' : k + 1 > 1
          <5> SUFFICES ASSUME NEW k \in DOMAIN queue' PROVE k + 1 > 1 OBVIOUS
          <5>1. k \in 1 .. Len(queue') BY <1>1
          <5> QED BY <5>1
        <4> QED BY <1>1, <3>1, <3>2, <4>1, <4>2 DEF Untouched
      <3>3. CASE i # 1
        <4>1. i - 1 \in DOMAIN queue' /\ queue'[i - 1] = queue[i] /\ i \in Nat BY <1>1, <3>3
        <4>2. \A k \in DOMAIN queue' : k > i - 1 /\ queue'[k].op = "set" => queue'[k].slot # s
          BY <1>1, <3>1, <4>1
        <4> QED BY <3>1, <4>1, <4>2 DEF Doomed
      <3> QED BY <3>2, <3>3
    <2> QED BY <2>1, <2>2, <2>3
  <1> QED BY <1>7, <1>9, <1>10, <1>11, <1>12, <1>13, <1>14, <1>15, <1>16, <1>17 DEF PutIInv

(* The readers: the row they read names its key, and of that slot nothing  *)
(* but the key is ever seen.                                               *)
LEMMA ReadersPreserve ==
    ASSUME PutIInv, \/ WorkerReads \/ ReadKey
                 \/ \E provider \in {"p", "q"}, url \in Urls : TestReads(provider, url)
    PROVE  PutIInv'
  <1>t. SettingsTypeOK BY DEF PutIInv
  <1>0. UNCHANGED <<app, vault, report, queue, puts, saves, trouble, split, leak, bound>>
    BY DEF WorkerReads, ReadKey, TestReads
  <1>1. ASSUME NEW provider, NEW origin \in Origins, app.ref # None,
               [provider |-> provider, origin |-> origin] = KeyOf(app),
               reader' = [ref |-> app.ref, provider |-> provider, origin |-> origin], UNCHANGED used
        PROVE  reader' \in Readers /\ ReaderIsSafe' /\ KeyStaysAtItsEndpoint'
    <2>1. app.ref \in Slots /\ app.provider \in Providers /\ app.ref \in bound
      BY <1>1, <1>t DEF SettingsTypeOK, AppRows, PutIInv, SlotsInOrder
    <2>2. provider = app.provider BY <1>1 DEF KeyOf
    <2>3. reader' \in Readers BY <1>1, <2>1, <2>2 DEF Readers
    <2>4. vault[app.ref] = [provider |-> provider, origin |-> origin]
      BY <1>1 DEF PutIInv, RowNamesItsKey, KeyOf
    <2> QED BY <1>0, <1>1, <2>1, <2>3, <2>4 DEF ReaderIsSafe, KeyStaysAtItsEndpoint, PutIInv
  <1>2. ASSUME WorkerReads PROVE reader' \in Readers /\ ReaderIsSafe' /\ KeyStaysAtItsEndpoint' /\ used' = used
    <2>1. /\ app.ref # None /\ used' = used
          /\ reader' = [ref |-> app.ref, provider |-> app.provider, origin |-> OriginOf(app.base)]
          /\ OriginOf(app.base) = OriginOf(app.origin)
      BY <1>2 DEF WorkerReads, PutIInv, SaveWantsItsKey
    <2> QED BY <1>1, <2>1, OriginIsTyped DEF KeyOf
  <1>3. ASSUME NEW provider \in {"p", "q"}, NEW url \in Urls, TestReads(provider, url)
        PROVE reader' \in Readers /\ ReaderIsSafe' /\ KeyStaysAtItsEndpoint' /\ used' = used
    <2>1. /\ app.ref # None /\ used' = used /\ app.provider = provider
          /\ reader' = [ref |-> app.ref, provider |-> provider, origin |-> OriginOf(url)]
          /\ OriginOf(url) = OriginOf(app.origin)
      BY <1>3 DEF TestReads, MayReuse
    <2> QED BY <1>1, <2>1, OriginIsTyped DEF KeyOf
  <1>4. ASSUME ReadKey
        PROVE  /\ reader' = None /\ ReaderIsSafe' /\ KeyStaysAtItsEndpoint'
               /\ used' \in [key : Endpoints, at : Endpoints] \cup {None}
    <2>1. reader \in Readers /\ reader' = None
      BY <1>4, <1>t DEF ReadKey, SettingsTypeOK
    <2>2. [provider |-> reader.provider, origin |-> reader.origin] \in Endpoints
      BY <2>1 DEF Readers, Endpoints
    <2>3. \/ used' = used
          \/ /\ used' = [key |-> vault[reader.ref], at |-> [provider |-> reader.provider, origin |-> reader.origin]]
             /\ vault[reader.ref] = [provider |-> reader.provider, origin |-> reader.origin]
      BY <1>4 DEF ReadKey, PutIInv, ReaderIsSafe
    <2> QED BY <1>t, <2>1, <2>2, <2>3 DEF PutIInv, ReaderIsSafe, KeyStaysAtItsEndpoint, SettingsTypeOK
  <1>5. /\ ReaderIsSafe' /\ KeyStaysAtItsEndpoint' /\ reader' \in Readers \cup {None}
        /\ used' \in [key : Endpoints, at : Endpoints] \cup {None}
    BY <1>2, <1>3, <1>4, <1>t DEF SettingsTypeOK
  <1>6. SettingsTypeOK' BY <1>t, <1>0, <1>5 DEF SettingsTypeOK, puts
  <1> QED BY <1>0, <1>5, <1>6, RowKept, SaveKept DEF PutIInv

--------------------------------------------------------------------------------
LEMMA PutNextPreserves == PutIInv /\ [PutNext]_putVars => PutIInv'
  <1> SUFFICES ASSUME PutIInv, [PutNext]_putVars PROVE PutIInv' OBVIOUS
  <1>1. ASSUME NEW p \in Payloads, PutBegin(p) PROVE PutIInv' BY <1>1, PutBeginPreserves
  <1>2. CASE PutGate BY <1>2, GatePreserves
  <1>3. CASE PutConfirmed \/ PutSave \/ PutCut BY <1>3, OwnStepPreserves
  <1>4. CASE PutPointer BY <1>4, PointerPreserves
  <1>5. CASE PutDurable BY <1>5, DurablePreserves
  <1>6. CASE \/ PutUnconfirmed \/ PutCancelled \/ PutPointerFails
             \/ (\E works \in BOOLEAN : PutRollback(works)) \/ PutVerdict \/ PutCrash
    BY <1>6, EndPreserves
  <1>7. CASE VaultStep BY <1>7, VaultPreserves
  <1>8. CASE \/ WorkerReads \/ ReadKey
             \/ \E provider \in {"p", "q"}, url \in Urls : TestReads(provider, url)
    BY <1>8, ReadersPreserve
  <1>9. CASE UNCHANGED putVars
    <2>1. UNCHANGED <<app, vault, report, queue, puts, reader, used, saves, trouble, split, leak, bound>>
      BY <1>9 DEF putVars
    <2>2. SettingsTypeOK' BY <2>1 DEF PutIInv, SettingsTypeOK, puts
    <2> QED BY <2>1, <2>2, RowKept, ReaderKept, SaveKept DEF PutIInv
  <1> QED BY <1>1, <1>2, <1>3, <1>4, <1>5, <1>6, <1>7, <1>8, <1>9 DEF PutNext, PutStep

(* Rows, vault, pointer, queue, the save under way and its readers keep    *)
(* the relations above through every interleaving of settings_put.         *)
THEOREM PutInductiveInvariant == PutSpec => []PutIInv
  <1>1. PutInit => PutIInv BY PutInitEstablishes
  <1>2. PutIInv /\ [PutNext]_putVars => PutIInv' BY PutNextPreserves
  <1> QED BY <1>1, <1>2, PTL DEF PutSpec

(* The type invariant of settings_put's state.                             *)
THEOREM SettingsTypeCorrect == PutSpec => []SettingsTypeOK
  <1>1. PutIInv => SettingsTypeOK BY DEF PutIInv
  <1> QED BY <1>1, PutInductiveInvariant, PTL

(* "Never a wrong binding": the row's slot holds the key of the row's      *)
(* provider and origin at every moment of every save.                      *)
THEOREM NeverAWrongBinding == PutSpec => []RowNamesItsKey
  <1>1. PutIInv => RowNamesItsKey BY DEF PutIInv
  <1> QED BY <1>1, PutInductiveInvariant, PTL

(* A completed setup passes the gate of the handler factory.               *)
THEOREM SetupStaysRunnable == PutSpec => []CompletedIsRunnable
  <1>1. PutIInv => CompletedIsRunnable BY DEF PutIInv
  <1> QED BY <1>1, PutInductiveInvariant, PTL

(* The worker and the connection test send a stored key only where it was  *)
(* saved for.                                                              *)
THEOREM KeysStayHome == PutSpec => []KeyStaysAtItsEndpoint
  <1>1. PutIInv => KeyStaysAtItsEndpoint BY DEF PutIInv
  <1> QED BY <1>1, PutInductiveInvariant, PTL

(* Pointer file and row agree between saves, but for a crash or a failed   *)
(* restore between the two writes.                                         *)
THEOREM PointerAgrees == PutSpec => []PointerFollowsRow
  <1>1. PutIInv => PointerFollowsRow BY DEF PutIInv, PointerInStep, PointerFollowsRow
  <1> QED BY <1>1, PutInductiveInvariant, PTL

(* Every key that no row adopted is cleaned up, also one whose write was   *)
(* given up and landed late, but for a crash, a failed deletion or a       *)
(* cancellation.                                                           *)
THEOREM NoKeyIsLeft == PutSpec => []UnadoptedKeysAreGone
  <1>1. PutIInv => UnadoptedKeysAreGone
    BY DEF PutIInv, GarbageIsDoomed, UnadoptedKeysAreGone, Untouched, Doomed
  <1> QED BY <1>1, PutInductiveInvariant, PTL
================================================================================
