--------------------------- MODULE ClientConfig_proofs -------------------------
(***************************************************************************)
(* Proofs about ClientConfig, for any files, any retention, any number of  *)
(* requests and any number of foreign writes, failures and crashes.        *)
(***************************************************************************)
EXTENDS ClientConfig, SequenceTheorems, TLAPS

Touching == {"install", "remove"}

(* Which steps belong to which operation and tier.                         *)
StepsInOrder ==
    /\ tier = "file" => opc \notin {"add", "get", "drop"}
    /\ opc \in {"read", "backup", "commit", "proof"} => op.kind \in Touching
    /\ op.kind = "restore" => opc \in {"fetch", "safety", "put", "check", "parse", "add", "get"}
    /\ opc \in {"check", "parse"} => op.kind = "restore"
    /\ op.kind = "restore" /\ opc = "fetch" => op.slot # 0
    /\ op.kind = "none" => opc = "free"
    /\ opc \in {"commit", "proof", "fetch"} => op.slot \in 0 .. Len(shelf)

(* The copy an operation is about to overwrite is on the shelf, but for    *)
(* the two gaps that uncovered records.                                    *)
Covered ==
    opc \in {"commit", "put"} /\ ~ uncovered => \E i \in DOMAIN shelf : shelf[i] = target

(* A copy to roll back to is the file as it was.                           *)
RollbackAtHand == op.slot # 0 => op.slot \in DOMAIN shelf /\ shelf[op.slot] = op.before

(* As long as nobody else writes, an install or a removal knows what the   *)
(* file holds at each of its steps.                                        *)
TargetInHand ==
    tier = "file" /\ op.kind \in Touching /\ upset # "write" =>
      /\ opc \in {"read", "backup", "commit", "fetch", "safety", "put"} => target = op.before
      /\ opc \in {"backup", "commit", "proof"} =>
           op.read = op.before /\ Base(op.before).entry \notin {"odd", "broken"}
      /\ opc = "proof" => target = Wanted
      /\ opc \in {"commit", "proof", "fetch"} => RollbackAtHand
      /\ opc \in {"safety", "put"} => op.data = op.before
      /\ opc = "shake" => \/ target = op.before
                          \/ /\ Base(op.before).entry \notin {"odd", "broken"}
                             /\ target.rest = Base(op.before).rest

(* The same for a restore that nothing disturbs.                           *)
RestoreInHand ==
    tier = "file" /\ op.kind = "restore" /\ upset = "no" =>
      /\ opc \in {"fetch", "safety", "put"} => target = op.before
      /\ opc \in {"put", "check", "parse"} => \E i \in DOMAIN shelf : shelf[i] = op.before
      /\ opc \in {"check", "parse"} => target = op.data

ClientIInv == ClientTypeOK /\ StepsInOrder /\ Covered /\ TargetInHand /\ RestoreInHand /\ AnswersAgree

--------------------------------------------------------------------------------
(* Lemmas about files, the shelf and the ends of operations.               *)

LEMMA BaseIsTyped ==
    ASSUME NEW c \in Files
    PROVE  /\ Base(c) \in Contents /\ WithEntry(c) \in Contents /\ WithoutEntry(c) \in Contents
           /\ WithEntry(c).rest = Base(c).rest /\ WithoutEntry(c).rest = Base(c).rest
  <1>1. Base(c) \in Contents BY KeepAssumption DEF Base, Files, Contents
  <1> QED BY <1>1 DEF WithEntry, WithoutEntry, Contents

(* A new copy is on the shelf unless its name sorts behind a full one.     *)
LEMMA ShelfHolds ==
    ASSUME ClientTypeOK, NEW c \in Files, NEW pos \in 1 .. Len(shelf) + 1
    PROVE  /\ Shelved(c, pos) \in Seq(Files) /\ Len(Shelved(c, pos)) <= Keep
           /\ pos <= Keep => pos \in DOMAIN Shelved(c, pos) /\ Shelved(c, pos)[pos] = c
  <1> DEFINE front == SubSeq(shelf, 1, pos - 1)
             back  == SubSeq(shelf, pos, Len(shelf))
             all   == front \o <<c>> \o back
             len   == IF Len(all) < Keep THEN Len(all) ELSE Keep
  <1>0. shelf \in Seq(Files) /\ Len(shelf) \in Nat /\ pos \in Nat /\ Keep \in Nat
    BY KeepAssumption DEF ClientTypeOK
  <1>1. front \in Seq(Files) /\ Len(front) = pos - 1
    <2>1. \A i \in 1 .. pos - 1 : shelf[i] \in Files BY <1>0
    <2>2. /\ front \in Seq(Files) /\ Len(front) = IF 1 <= pos - 1 THEN pos - 1 - 1 + 1 ELSE 0
      BY <1>0, <2>1, SubSeqProperties
    <2> QED BY <1>0, <2>2
  <1>2. back \in Seq(Files)
    <2>1. \A i \in pos .. Len(shelf) : shelf[i] \in Files BY <1>0
    <2> QED BY <1>0, <2>1, SubSeqProperties
  <1>3. <<c>> \in Seq(Files) /\ Len(<<c>>) = 1 /\ <<c>>[1] = c OBVIOUS
  <1> HIDE DEF front, back
  <1>4. /\ front \o <<c>> \in Seq(Files) /\ Len(front \o <<c>>) = pos
        /\ (front \o <<c>>)[pos] = c
    <2>1. /\ front \o <<c>> \in Seq(Files) /\ Len(front \o <<c>>) = Len(front) + 1
          /\ \A i \in 1 .. Len(front) + 1 : (front \o <<c>>)[i] =
                IF i <= Len(front) THEN front[i] ELSE <<c>>[i - Len(front)]
      BY <1>1, <1>3, ConcatProperties
    <2>2. pos \in 1 .. Len(front) + 1 /\ ~ (pos <= Len(front)) /\ pos - Len(front) = 1
      BY <1>0, <1>1
    <2>3. (front \o <<c>>)[pos] = <<c>>[pos - Len(front)] BY <2>1, <2>2
    <2>4. (front \o <<c>>)[pos] = c BY <1>3, <2>2, <2>3
    <2> QED BY <1>0, <1>1, <2>1, <2>4
  <1>5. /\ all \in Seq(Files) /\ Len(all) = pos + Len(back) /\ all[pos] = c /\ Len(back) \in Nat
    <2>1. /\ all \in Seq(Files) /\ Len(all) = pos + Len(back)
          /\ \A i \in 1 .. pos + Len(back) : all[i] =
                IF i <= pos THEN (front \o <<c>>)[i] ELSE back[i - pos]
      BY <1>2, <1>4, ConcatProperties
    <2> QED BY <1>0, <1>2, <1>4, <2>1
  <1> HIDE DEF all
  <1>6. /\ SubSeq(all, 1, len) \in Seq(Files) /\ Len(SubSeq(all, 1, len)) = len
        /\ \A i \in 1 .. len : SubSeq(all, 1, len)[i] = all[i]
    <2>1. len \in Nat /\ len <= Len(all) BY <1>0, <1>5
    <2> HIDE DEF len
    <2>2. \A i \in 1 .. len : all[i] \in Files BY <1>5, <2>1
    <2>3. /\ SubSeq(all, 1, len) \in Seq(Files)
          /\ Len(SubSeq(all, 1, len)) = IF 1 <= len THEN len - 1 + 1 ELSE 0
          /\ \A i \in 1 .. len - 1 + 1 : SubSeq(all, 1, len)[i] = all[1 + i - 1]
      BY <2>1, <2>2, SubSeqProperties
    <2> QED BY <2>1, <2>3
  <1>7. Shelved(c, pos) = SubSeq(all, 1, len) BY DEF Shelved, all, front, back
  <1>8. len <= Keep /\ (pos <= Keep => pos \in 1 .. len) BY <1>0, <1>5
  <1>9. DOMAIN SubSeq(all, 1, len) = 1 .. len BY <1>6
  <1> QED BY <1>5, <1>6, <1>7, <1>8, <1>9

LEMMA CountsAreTyped ==
    ASSUME ClientTypeOK, \/ Quiet \/ Mishap \/ (Request /\ UNCHANGED mishaps)
    PROVE  requests' \in 0 .. MaxRequests /\ mishaps' \in 0 .. MaxMishaps
  BY KeepAssumption DEF ClientTypeOK, Quiet, Mishap, Request

(* Whatever ends an operation, what is left is well formed.                *)
LEMMA OpEnds ==
    ASSUME ClientIInv, OpOver, UNCHANGED <<tier, shelf>>, target' \in Files,
           verdict' \in Verdicts, checking' \in BOOLEAN,
           looking' \in {"yes", "no", "unknown", "no_one"},
           answer' \in Answers \cup {NoAnswer}, AnswersAgree',
           \/ Quiet \/ Mishap \/ (Request /\ UNCHANGED mishaps)
    PROVE  ClientIInv'
  <1>t. ClientTypeOK BY DEF ClientIInv
  <1>0. op' = NoOp /\ opc' = "free" /\ uncovered' = FALSE /\ upset' = "no" /\ NoOp.kind = "none"
    BY DEF OpOver, NoOp
  <1>1. NoOp \in Ops BY KeepAssumption DEF NoOp, Ops, Files
  <1>2. ClientTypeOK' BY <1>t, <1>0, <1>1, CountsAreTyped DEF ClientTypeOK
  <1>3. StepsInOrder' BY <1>0 DEF StepsInOrder, Touching
  <1>4. Covered' /\ TargetInHand' /\ RestoreInHand'
    BY <1>0 DEF Covered, TargetInHand, RestoreInHand, Touching
  <1> QED BY <1>2, <1>3, <1>4 DEF ClientIInv

LEMMA RaisedEnds ==
    ASSUME ClientIInv, Raised, UNCHANGED <<tier, shelf, checking, looking>>, target' \in Files,
           \/ Quiet \/ Mishap
    PROVE  ClientIInv'
  <1>1. OpOver /\ answer' = NoAnswer /\ verdict' = verdict BY DEF Raised, Silent
  <1>2. AnswersAgree' BY <1>1 DEF AnswersAgree, NoAnswer
  <1> QED BY <1>1, <1>2, OpEnds DEF ClientIInv, ClientTypeOK

LEMMA ForgottenEnds ==
    ASSUME ClientIInv, NEW match \in {"yes", "no", "unknown"}, Forgotten(match), Quiet,
           UNCHANGED <<tier, shelf, checking, looking>>, target' \in Files
    PROVE  ClientIInv'
  <1>1. /\ OpOver /\ answer' = [match |-> match, verdict |-> "unverified"]
        /\ verdict' = "unverified"
    BY DEF Forgotten, Answer
  <1>2. AnswersAgree' BY <1>1 DEF AnswersAgree
  <1>3. answer' \in Answers BY <1>1 DEF Answers
  <1> QED BY <1>1, <1>2, <1>3, OpEnds DEF ClientIInv, ClientTypeOK, Verdicts

(* A step of the operation that goes on: what is left to show.             *)
LEMMA OpGoesOn ==
    ASSUME ClientIInv, Goto(opc'), UNCHANGED <<tier, checking, looking>>, Quiet \/ Mishap,
           target' \in Files, shelf' \in Seq(Files), Len(shelf') <= Keep,
           op' \in Ops, op'.kind = op.kind, opc # "free",
           opc' \in {"read", "backup", "commit", "proof", "fetch", "safety", "put", "check",
                     "parse", "shake", "add", "get", "drop"},
           opc' = "fetch" => op'.slot \in 0 .. Len(shelf'),
           uncovered' \in BOOLEAN, upset' \in {"no", "fault", "write"}
    PROVE  ClientTypeOK' /\ AnswersAgree'
  <1>t. ClientTypeOK BY DEF ClientIInv
  <1>1. answer' = NoAnswer /\ verdict' = verdict BY DEF Goto, Silent
  <1>2. AnswersAgree' BY <1>1 DEF AnswersAgree, NoAnswer
  <1>3. op' # NoOp BY DEF ClientIInv, StepsInOrder, NoOp
  <1>4. requests' \in 0 .. MaxRequests /\ mishaps' \in 0 .. MaxMishaps BY <1>t, CountsAreTyped
  <1>5. (opc' = "free") = (op' = NoOp) BY <1>3
  <1> QED BY <1>t, <1>1, <1>2, <1>4, <1>5 DEF ClientTypeOK

--------------------------------------------------------------------------------
(* Preservation, one lemma per action or group of actions.                 *)

LEMMA ClientInitEstablishes == ClientInit => ClientIInv
  <1> SUFFICES ASSUME ClientInit PROVE ClientIInv OBVIOUS
  <1>0. /\ tier \in {"file", "cli"} /\ target \in Files /\ op = NoOp /\ opc = "free"
        /\ verdict = "unverified" /\ checking = FALSE /\ looking = "no_one" /\ answer = NoAnswer
        /\ uncovered = FALSE /\ upset = "no" /\ requests = 0 /\ mishaps = 0
    BY ForeignAssumption DEF ClientInit
  <1>1. shelf \in Seq(Files) /\ Len(shelf) <= Keep
    <2> DEFINE n == IF tier = "file" THEN Keep ELSE 0
    <2>1. n \in Nat /\ n <= Keep BY KeepAssumption
    <2>2. CASE shelf = <<>> BY <2>2, KeepAssumption
    <2>3. CASE shelf = [i \in 1 .. n |-> Absent]
      <3> HIDE DEF n
      <3>1. Absent \in Files BY DEF Files
      <3>2. shelf \in Seq(Files) /\ Len(shelf) = n BY <2>1, <2>3, <3>1
      <3> QED BY <2>1, <3>2
    <2> QED BY <2>2, <2>3 DEF ClientInit
  <1>2. NoOp \in Ops /\ NoOp.kind = "none" BY KeepAssumption DEF NoOp, Ops, Files
  <1>3. 0 \in 0 .. MaxRequests /\ 0 \in 0 .. MaxMishaps BY KeepAssumption
  <1>4. ClientTypeOK BY <1>0, <1>1, <1>2, <1>3 DEF ClientTypeOK, Verdicts
  <1>5. StepsInOrder /\ Covered /\ TargetInHand /\ RestoreInHand
    BY <1>0, <1>2 DEF StepsInOrder, Covered, TargetInHand, RestoreInHand, Touching
  <1>6. AnswersAgree BY <1>0 DEF AnswersAgree, NoAnswer
  <1> QED BY <1>4, <1>5, <1>6 DEF ClientIInv

LEMMA ClientBeginPreserves ==
    ASSUME ClientIInv, NEW kind \in {"install", "remove", "restore"}, NEW force \in BOOLEAN,
           NEW slot \in 0 .. Keep, force => kind = "install", OpBegin(kind, force, slot)
    PROVE  ClientIInv'
  <1>t. ClientTypeOK BY DEF ClientIInv
  <1>0. /\ opc = "free" /\ Request /\ UNCHANGED mishaps /\ answer' = NoAnswer
        /\ UNCHANGED <<tier, target, shelf, verdict, checking, looking, uncovered, upset>>
        /\ slot \in IF kind = "restore" /\ tier = "file" THEN DOMAIN shelf ELSE {0}
    BY DEF OpBegin, Silent
  <1>1. op' = [kind |-> kind, force |-> force, slot |-> slot,
               before |-> target, read |-> Absent, data |-> Absent]
    BY DEF OpBegin, NoOp
  <1>3. /\ opc' \in {"drop", "add", "fetch", "read"}
        /\ tier = "file" => opc' = IF kind = "restore" THEN "fetch" ELSE "read"
        /\ tier # "file" => opc' = IF kind = "remove" THEN "drop" ELSE "add"
    BY <1>t DEF OpBegin, ClientTypeOK
  <1>4. op' \in Ops /\ op' # NoOp BY <1>1, <1>t DEF Ops, NoOp, ClientTypeOK, Files
  <1>5. slot \in 0 .. Len(shelf)
    <2>1. Len(shelf) \in Nat /\ DOMAIN shelf = 1 .. Len(shelf) BY <1>t DEF ClientTypeOK
    <2> QED BY <1>0, <2>1
  <1>6. ClientTypeOK'
    <2>1. requests' \in 0 .. MaxRequests /\ mishaps' \in 0 .. MaxMishaps BY <1>0, <1>t, CountsAreTyped
    <2>2. (opc' = "free") = (op' = NoOp) BY <1>3, <1>4
    <2> QED BY <1>t, <1>0, <1>1, <1>3, <1>4, <1>5, <2>1, <2>2 DEF ClientTypeOK
  <1>7. StepsInOrder'
    <2>1. op'.kind = "restore" /\ opc' = "fetch" => op'.slot # 0
      <3>1. DOMAIN shelf = 1 .. Len(shelf) BY <1>t DEF ClientTypeOK
      <3> QED BY <1>0, <1>1, <1>3, <3>1
    <2> QED BY <1>0, <1>1, <1>3, <1>5, <2>1 DEF StepsInOrder, Touching
  <1>8. Covered' BY <1>3 DEF Covered
  <1>9. TargetInHand' BY <1>0, <1>1, <1>3 DEF TargetInHand, Touching
  <1>10. RestoreInHand' BY <1>0, <1>1, <1>3 DEF RestoreInHand
  <1>11. AnswersAgree' BY <1>0 DEF AnswersAgree, NoAnswer
  <1> QED BY <1>6, <1>7, <1>8, <1>9, <1>10, <1>11 DEF ClientIInv

(* The two readers of the file: the end, or the way to a backup.           *)
LEMMA ReadPreserves == ClientIInv /\ (InstallRead \/ RemoveRead) => ClientIInv'
  <1> SUFFICES ASSUME ClientIInv, InstallRead \/ RemoveRead PROVE ClientIInv' OBVIOUS
  <1>t. ClientTypeOK BY DEF ClientIInv
  <1>0. /\ opc = "read" /\ op.kind \in Touching /\ Quiet /\ target \in Files
        /\ UNCHANGED <<tier, target, shelf, checking, looking>>
    BY <1>t DEF InstallRead, RemoveRead, Touching, ClientTypeOK
  <1>1. CASE Raised BY <1>0, <1>1, RaisedEnds
  <1>2. CASE Forgotten("unknown") BY <1>0, <1>2, ForgottenEnds
  <1>3. CASE Step("shake") /\ UNCHANGED op
    <2>1. Goto("shake") /\ opc' = "shake" /\ UNCHANGED <<uncovered, upset>> BY <1>3 DEF Step, Goto
    <2>2. ClientTypeOK' /\ AnswersAgree' BY <1>0, <1>3, <1>t, <2>1, OpGoesOn DEF ClientTypeOK
    <2>3. StepsInOrder' /\ Covered' /\ RestoreInHand'
      BY <1>0, <1>3, <2>1 DEF ClientIInv, StepsInOrder, Covered, RestoreInHand, Touching
    <2>4. TargetInHand' BY <1>0, <1>3, <2>1 DEF ClientIInv, TargetInHand
    <2> QED BY <2>2, <2>3, <2>4 DEF ClientIInv
  <1>4. CASE /\ op' = [op EXCEPT !.read = target] /\ Step("backup")
             /\ Base(target).entry \notin {"odd", "broken"}
    <2>1. Goto("backup") /\ opc' = "backup" /\ UNCHANGED <<uncovered, upset>> BY <1>4 DEF Step, Goto
    <2>2. /\ op' \in Ops /\ op'.kind = op.kind /\ op'.before = op.before /\ op'.read = target
      BY <1>0, <1>4, <1>t DEF Ops, ClientTypeOK
    <2>3. ClientTypeOK' /\ AnswersAgree' BY <1>0, <1>t, <2>1, <2>2, OpGoesOn DEF ClientTypeOK
    <2>4. StepsInOrder' /\ Covered' /\ RestoreInHand'
      BY <1>0, <2>1, <2>2 DEF ClientIInv, StepsInOrder, Covered, RestoreInHand, Touching
    <2>5. TargetInHand' BY <1>0, <1>4, <2>1, <2>2 DEF ClientIInv, TargetInHand
    <2> QED BY <2>3, <2>4, <2>5 DEF ClientIInv
  <1>5. CASE InstallRead
    <2>1. Merge(target, op.force) = "changed" => Base(target).entry \notin {"odd", "broken"}
      BY DEF Merge
    <2> QED BY <1>1, <1>2, <1>3, <1>4, <1>5, <2>1 DEF InstallRead
  <1>6. CASE RemoveRead BY <1>1, <1>2, <1>4, <1>6 DEF RemoveRead
  <1> QED BY <1>5, <1>6

(* The copy is made of what is there now, and shelved.                     *)
LEMMA BackupPreserves ==
    ASSUME ClientIInv, NEW pos \in 1 .. Keep + 1, TakeBackup(pos)
    PROVE  ClientIInv'
  <1>t. ClientTypeOK BY DEF ClientIInv
  <1>0. /\ opc \in {"backup", "safety"} /\ pos \in 1 .. Len(shelf) + 1 /\ target \in Files
        /\ shelf' = Shelved(target, pos) /\ uncovered' = (pos > Keep) /\ pos \in Nat /\ Keep \in Nat
        /\ UNCHANGED <<tier, target, checking, looking>>
        /\ opc' = IF opc = "backup" THEN "commit" ELSE "put"
        /\ Goto(opc')
    BY <1>t, KeepAssumption DEF TakeBackup, Captured, Goto, ClientTypeOK
  <1>1. /\ Quiet \/ Mishap
        /\ upset' \in {"no", "fault", "write"}
        /\ upset = "write" => upset' = "write"
        /\ upset' = "no" => pos = 1 /\ upset = "no"
    BY <1>t DEF TakeBackup, Hit, ClientTypeOK
  <1>2. /\ shelf' \in Seq(Files) /\ Len(shelf') <= Keep
        /\ pos <= Keep => pos \in DOMAIN shelf' /\ shelf'[pos] = target
    BY <1>0, <1>t, ShelfHolds
  <1>3. /\ op' \in Ops /\ op'.kind = op.kind /\ op'.before = op.before /\ op'.read = op.read
        /\ op'.data = op.data
        /\ opc = "backup" => op'.slot = IF pos > Keep THEN 0 ELSE pos
    BY <1>0, <1>t DEF TakeBackup, Ops, ClientTypeOK
  <1>4. ClientTypeOK' /\ AnswersAgree'
    <2>1. upset' \in {"no", "fault", "write"} BY <1>t DEF TakeBackup, Hit, ClientTypeOK
    <2> QED BY <1>0, <1>1, <1>2, <1>3, <2>1, OpGoesOn
  <1>5. StepsInOrder'
    <2>1. opc' \in {"commit", "proof", "fetch"} => op'.slot \in 0 .. Len(shelf')
      <3>1. DOMAIN shelf' = 1 .. Len(shelf') /\ Len(shelf') \in Nat BY <1>2
      <3> QED BY <1>0, <1>2, <1>3, <3>1
    <2> QED BY <1>0, <1>3, <2>1 DEF ClientIInv, StepsInOrder, Touching
  <1>6. Covered'
    <2>1. ~ uncovered' => ~ (pos > Keep) BY Zenon DEF TakeBackup
    <2>2. ~ (pos > Keep) => pos <= Keep BY <1>0
    <2> QED BY <1>0, <1>2, <2>1, <2>2 DEF Covered
  <1>7. TargetInHand'
    <2> SUFFICES ASSUME tier = "file", op.kind \in Touching, upset # "write"
                 PROVE  TargetInHand'
      BY <1>0, <1>1, <1>3 DEF TargetInHand
    <2>1. CASE opc = "backup"
      <3>1. /\ target = op.before /\ op.read = op.before
            /\ Base(op.before).entry \notin {"odd", "broken"}
        BY <2>1 DEF ClientIInv, TargetInHand
      <3>2. RollbackAtHand' BY <1>0, <1>2, <1>3, <2>1, <3>1 DEF RollbackAtHand
      <3> QED BY <1>0, <1>3, <2>1, <3>1, <3>2 DEF TargetInHand
    <2>2. CASE opc = "safety"
      <3>1. target = op.before /\ op.data = op.before BY <2>2 DEF ClientIInv, TargetInHand
      <3> QED BY <1>0, <1>3, <2>2, <3>1 DEF TargetInHand
    <2> QED BY <1>0, <2>1, <2>2
  <1>8. RestoreInHand'
    <2> SUFFICES ASSUME tier = "file", op.kind = "restore", upset' = "no"
                 PROVE  target = op.before /\ \E i \in DOMAIN shelf' : shelf'[i] = op.before
      BY <1>0, <1>3 DEF RestoreInHand
    <2>1. pos = 1 /\ target = op.before
      BY <1>0, <1>1 DEF ClientIInv, RestoreInHand, StepsInOrder, Touching
    <2>2. pos <= Keep BY <2>1, KeepAssumption
    <2> QED BY <1>2, <2>1, <2>2
  <1> QED BY <1>4, <1>5, <1>6, <1>7, <1>8 DEF ClientIInv

LEMMA CommitPreserves == ClientIInv /\ Commit => ClientIInv'
  <1> SUFFICES ASSUME ClientIInv, Commit PROVE ClientIInv' OBVIOUS
  <1>t. ClientTypeOK BY DEF ClientIInv
  <1>0. /\ opc = "commit" /\ opc' = "proof" /\ Quiet /\ target' = Wanted /\ Goto("proof")
        /\ UNCHANGED <<uncovered, upset, tier, op, shelf, checking, looking>>
    BY DEF Commit, Step, Goto
  <1>1. Wanted \in Contents /\ Wanted \in Files BY <1>t, BaseIsTyped DEF Wanted, ClientTypeOK, Ops, Files
  <1>2. ClientTypeOK' /\ AnswersAgree' BY <1>0, <1>1, <1>t, OpGoesOn DEF ClientTypeOK
  <1>3. StepsInOrder' /\ Covered' /\ RestoreInHand'
    BY <1>0 DEF ClientIInv, StepsInOrder, Covered, RestoreInHand, Touching
  <1>4. TargetInHand' BY <1>0 DEF ClientIInv, TargetInHand, RollbackAtHand, Wanted
  <1> QED BY <1>2, <1>3, <1>4 DEF ClientIInv

LEMMA ProvePreserves == ClientIInv /\ Prove => ClientIInv'
  <1> SUFFICES ASSUME ClientIInv, Prove PROVE ClientIInv' OBVIOUS
  <1>t. ClientTypeOK BY DEF ClientIInv
  <1>0. opc = "proof" /\ Quiet /\ UNCHANGED <<tier, target, shelf, checking, looking>> /\ target \in Files
        /\ op \in Ops
    BY <1>t DEF Prove, ClientTypeOK
  <1>1. CASE Forgotten("unknown") BY <1>0, <1>1, ForgottenEnds
  <1>2. CASE ~ Proved /\ Step("fetch") /\ UNCHANGED op
    <2>1. Goto("fetch") /\ opc' = "fetch" /\ UNCHANGED <<uncovered, upset>> BY <1>2 DEF Step, Goto
    <2>2. StepsInOrder /\ op.kind \in Touching BY <1>0 DEF ClientIInv, StepsInOrder
    <2>3. op.slot \in 0 .. Len(shelf)
      BY <1>0 DEF ClientIInv, StepsInOrder
    <2>4. ClientTypeOK' /\ AnswersAgree' BY <1>0, <1>2, <1>t, <2>1, <2>3, OpGoesOn DEF ClientTypeOK
    <2>5. StepsInOrder' /\ Covered' /\ RestoreInHand'
      BY <1>0, <1>2, <2>1, <2>2 DEF StepsInOrder, Covered, RestoreInHand, Touching
    <2>6. TargetInHand' BY <1>0, <1>2, <2>1 DEF ClientIInv, TargetInHand, Proved
    <2> QED BY <2>4, <2>5, <2>6 DEF ClientIInv
  <1>3. CASE Proved /\ op.kind = "install" /\ Step("shake") /\ UNCHANGED op
    <2>1. Goto("shake") /\ opc' = "shake" /\ UNCHANGED <<uncovered, upset>> BY <1>3 DEF Step, Goto
    <2>2. ClientTypeOK' /\ AnswersAgree' BY <1>0, <1>3, <1>t, <2>1, OpGoesOn DEF ClientTypeOK
    <2>3. StepsInOrder' /\ Covered' /\ RestoreInHand'
      BY <1>0, <1>3, <2>1 DEF ClientIInv, StepsInOrder, Covered, RestoreInHand, Touching
    <2>4. Wanted.rest = Base(op.read).rest BY <1>0, BaseIsTyped DEF Wanted, Ops
    <2>5. TargetInHand' BY <1>0, <1>3, <2>1, <2>4 DEF ClientIInv, TargetInHand
    <2> QED BY <2>2, <2>3, <2>5 DEF ClientIInv
  <1> QED BY <1>1, <1>2, <1>3 DEF Prove

(* The copy is in hand before the safety backup may prune it.              *)
LEMMA FetchPreserves == ClientIInv /\ FetchBackup => ClientIInv'
  <1> SUFFICES ASSUME ClientIInv, FetchBackup PROVE ClientIInv' OBVIOUS
  <1>t. ClientTypeOK BY DEF ClientIInv
  <1>0. /\ opc = "fetch" /\ Quiet /\ UNCHANGED <<tier, target, shelf, checking, looking>>
        /\ target \in Files
    BY <1>t DEF FetchBackup, ClientTypeOK
  <1>1. CASE op.slot = 0 BY <1>0, <1>1, RaisedEnds DEF FetchBackup
  <1>2. CASE op.slot # 0
    <2>1. /\ op' = [op EXCEPT !.data = shelf[op.slot]] /\ Goto("safety") /\ opc' = "safety"
          /\ UNCHANGED <<uncovered, upset>>
      BY <1>2 DEF FetchBackup, Step, Goto
    <2>2. shelf[op.slot] \in Files
      <3>1. op.slot \in 1 .. Len(shelf) /\ shelf \in Seq(Files) BY <1>0, <1>2, <1>t DEF ClientTypeOK
      <3> QED BY <3>1
    <2>3. /\ op' \in Ops /\ op'.kind = op.kind /\ op'.before = op.before
          /\ op'.data = shelf[op.slot]
      BY <2>1, <2>2, <1>t DEF Ops, ClientTypeOK
    <2>4. ClientTypeOK' /\ AnswersAgree' BY <1>0, <1>t, <2>1, <2>3, OpGoesOn DEF ClientTypeOK
    <2>5. StepsInOrder' /\ Covered' /\ RestoreInHand'
      BY <1>0, <2>1, <2>3 DEF ClientIInv, StepsInOrder, Covered, RestoreInHand, Touching
    <2>6. TargetInHand'
      BY <1>0, <1>2, <2>1, <2>3 DEF ClientIInv, TargetInHand, RollbackAtHand
    <2> QED BY <2>4, <2>5, <2>6 DEF ClientIInv
  <1> QED BY <1>1, <1>2

LEMMA PutPreserves == ClientIInv /\ PutBack => ClientIInv'
  <1> SUFFICES ASSUME ClientIInv, PutBack PROVE ClientIInv' OBVIOUS
  <1>t. ClientTypeOK BY DEF ClientIInv
  <1>0. /\ opc = "put" /\ Quiet /\ UNCHANGED <<tier, shelf, checking, looking>>
        /\ target' = op.data /\ target' \in Files
    BY <1>t DEF PutBack, Restored, ClientTypeOK, Ops
  <1>1. CASE Forgotten("unknown") BY <1>0, <1>1, ForgottenEnds
  <1>2. CASE Raised BY <1>0, <1>2, RaisedEnds
  <1>3. CASE op.kind = "restore" /\ Step("check") /\ UNCHANGED op
    <2>1. Goto("check") /\ opc' = "check" /\ UNCHANGED <<uncovered, upset>> BY <1>3 DEF Step, Goto
    <2>2. ClientTypeOK' /\ AnswersAgree' BY <1>0, <1>3, <1>t, <2>1, OpGoesOn DEF ClientTypeOK
    <2>3. StepsInOrder' /\ Covered' /\ TargetInHand' /\ RestoreInHand'
      BY <1>0, <1>3, <2>1
      DEF ClientIInv, StepsInOrder, Covered, TargetInHand, RestoreInHand, Touching
    <2> QED BY <2>2, <2>3 DEF ClientIInv
  <1> QED BY <1>1, <1>2, <1>3 DEF PutBack

(* The two steps a restore ends with only look.                            *)
LEMMA CheckPreserves == ClientIInv /\ (CheckBack \/ ParsePut) => ClientIInv'
  <1> SUFFICES ASSUME ClientIInv, CheckBack \/ ParsePut PROVE ClientIInv' OBVIOUS
  <1>t. ClientTypeOK BY DEF ClientIInv
  <1>0. /\ opc \in {"check", "parse"} /\ Quiet /\ target \in Files
        /\ UNCHANGED <<tier, target, shelf, checking, looking>>
    BY <1>t DEF CheckBack, ParsePut, ClientTypeOK
  <1>1. CASE Forgotten("unknown") BY <1>0, <1>1, ForgottenEnds
  <1>2. CASE Raised BY <1>0, <1>2, RaisedEnds
  <1>3. CASE opc = "check" /\ Step("parse") /\ UNCHANGED op
    <2>1. Goto("parse") /\ opc' = "parse" /\ UNCHANGED <<uncovered, upset>> BY <1>3 DEF Step, Goto
    <2>2. ClientTypeOK' /\ AnswersAgree' BY <1>0, <1>3, <1>t, <2>1, OpGoesOn DEF ClientTypeOK
    <2>3. StepsInOrder' /\ Covered' /\ TargetInHand' /\ RestoreInHand'
      BY <1>0, <1>3, <2>1
      DEF ClientIInv, StepsInOrder, Covered, TargetInHand, RestoreInHand, Touching
    <2> QED BY <2>2, <2>3 DEF ClientIInv
  <1> QED BY <1>1, <1>2, <1>3 DEF CheckBack, ParsePut

LEMMA FailPreserves == ClientIInv /\ WriteFails => ClientIInv'
  <1> SUFFICES ASSUME ClientIInv, WriteFails PROVE ClientIInv' OBVIOUS
  <1>t. ClientTypeOK BY DEF ClientIInv
  <1>0. Mishap /\ UNCHANGED <<tier, target, shelf, checking, looking>> /\ target \in Files
    BY <1>t DEF WriteFails, ClientTypeOK
  <1>1. CASE Raised BY <1>0, <1>1, RaisedEnds
  <1>2. CASE opc = "commit" /\ Goto("fetch") /\ Hit /\ UNCHANGED <<op, uncovered>>
    <2>1. opc' = "fetch" /\ upset' = IF upset = "write" THEN upset ELSE "fault"
      BY <1>2 DEF Goto, Hit
    <2>2. StepsInOrder /\ op.kind \in Touching /\ op.slot \in 0 .. Len(shelf)
      BY <1>2 DEF ClientIInv, StepsInOrder
    <2>3. ClientTypeOK' /\ AnswersAgree'
      <3>1. upset' \in {"no", "fault", "write"} BY <2>1
      <3> QED BY <1>0, <1>2, <1>t, <2>1, <2>2, <3>1, OpGoesOn DEF ClientTypeOK
    <2>4. StepsInOrder' /\ Covered' /\ RestoreInHand'
      BY <1>0, <1>2, <2>1, <2>2 DEF StepsInOrder, Covered, RestoreInHand, Touching
    <2>5. TargetInHand' BY <1>0, <1>2, <2>1 DEF ClientIInv, TargetInHand, RollbackAtHand
    <2> QED BY <2>3, <2>4, <2>5 DEF ClientIInv
  <1> QED BY <1>1, <1>2 DEF WriteFails

LEMMA EvidenceIsTyped ==
    ASSUME NEW c, NEW match \in Evidence(c)
    PROVE  match \in {"yes", "no", "unknown"}
  BY DEF Evidence

(* "claude mcp add", get and remove.                                       *)
LEMMA CliPreserves ==
    ASSUME ClientIInv, \/ \E done, ok \in BOOLEAN : CliAdd(done, ok)
                 \/ \E match \in {"yes", "no", "unknown"} : CliGet(match)
                 \/ \E done \in BOOLEAN : CliRemove(done)
    PROVE  ClientIInv'
  <1>t. ClientTypeOK BY DEF ClientIInv
  <1>0. /\ opc \in {"add", "get", "drop"} /\ Quiet /\ UNCHANGED <<tier, shelf, checking, looking>>
        /\ op \in Ops /\ tier # "file"
    BY <1>t DEF CliAdd, CliGet, CliRemove, ClientIInv, StepsInOrder, ClientTypeOK
  <1>1. target' \in Files
    <2>1. WithEntry(target) \in Files /\ WithoutEntry(target) \in Files /\ target \in Files
      BY <1>t, BaseIsTyped DEF ClientTypeOK, Files
    <2> QED BY <2>1 DEF CliAdd, CliGet, CliRemove
  <1>2. CASE \E match \in {"yes", "no", "unknown"} : Forgotten(match)
    BY <1>0, <1>1, <1>2, ForgottenEnds
  <1>3. CASE \E pc \in {"get", "shake"} :
               Step(pc) /\ UNCHANGED op /\ (pc = "shake" => op.kind = "install")
    <2>1. PICK pc \in {"get", "shake"} :
               Step(pc) /\ UNCHANGED op /\ (pc = "shake" => op.kind = "install")
      BY <1>3
    <2>2. Goto(pc) /\ opc' = pc /\ UNCHANGED <<uncovered, upset>> BY <2>1 DEF Step, Goto
    <2>3. ClientTypeOK' /\ AnswersAgree' BY <1>0, <1>1, <1>t, <2>1, <2>2, OpGoesOn DEF ClientTypeOK
    <2>4. StepsInOrder' /\ Covered' /\ TargetInHand' /\ RestoreInHand'
      BY <1>0, <1>1, <2>1, <2>2
      DEF ClientIInv, StepsInOrder, Covered, TargetInHand, RestoreInHand, Touching
    <2> QED BY <2>3, <2>4 DEF ClientIInv
  <1>4. CASE \E done, ok \in BOOLEAN : CliAdd(done, ok) BY <1>2, <1>3, <1>4 DEF CliAdd
  <1>5. CASE \E match \in {"yes", "no", "unknown"} : CliGet(match) BY <1>2, <1>3, <1>5 DEF CliGet
  <1>6. CASE \E done \in BOOLEAN : CliRemove(done) BY <1>2, <1>6 DEF CliRemove
  <1> QED BY <1>4, <1>5, <1>6

LEMMA ShakePreserves == ASSUME ClientIInv, NEW v \in Verdicts, Handshake(v) PROVE ClientIInv'
  <1>1. /\ OpOver /\ Quiet /\ verdict' = v /\ answer' = [match |-> "yes", verdict |-> v]
        /\ UNCHANGED <<tier, target, shelf, checking, looking>>
    BY DEF Handshake, Answer
  <1>2. AnswersAgree' /\ answer' \in Answers BY <1>1 DEF AnswersAgree, Answers, Verdicts
  <1> QED BY <1>1, <1>2, OpEnds DEF ClientIInv, ClientTypeOK

(* verify and status touch the verdict and their answer only.              *)
LEMMA BystanderPreserves ==
    ASSUME ClientIInv, UNCHANGED <<tier, target, shelf, op, opc, uncovered, upset>>,
           verdict' \in Verdicts, checking' \in BOOLEAN,
           looking' \in {"yes", "no", "unknown", "no_one"},
           answer' \in Answers \cup {NoAnswer}, AnswersAgree',
           \/ Quiet \/ (Request /\ UNCHANGED mishaps)
    PROVE  ClientIInv'
  <1>t. ClientTypeOK BY DEF ClientIInv
  <1>1. ClientTypeOK'
    <2>1. requests' \in 0 .. MaxRequests /\ mishaps' \in 0 .. MaxMishaps BY <1>t, CountsAreTyped
    <2> QED BY <1>t, <2>1 DEF ClientTypeOK
  <1>2. StepsInOrder' /\ Covered' BY DEF ClientIInv, StepsInOrder, Covered
  <1>3. TargetInHand' /\ RestoreInHand'
    BY DEF ClientIInv, TargetInHand, RestoreInHand, RollbackAtHand, Wanted
  <1> QED BY <1>1, <1>2, <1>3 DEF ClientIInv

LEMMA VerifyPreserves ==
    ASSUME ClientIInv, \/ \E match \in {"yes", "no", "unknown"} : VerifyBegin(match)
                 \/ \E v \in Verdicts : VerifyEnd(v)
    PROVE  ClientIInv'
  <1>t. ClientTypeOK BY DEF ClientIInv
  <1>1. ASSUME NEW match \in {"yes", "no", "unknown"}, VerifyBegin(match) PROVE ClientIInv'
    <2>0. /\ UNCHANGED <<tier, target, shelf, op, opc, looking, uncovered, upset, mishaps>>
          /\ Request
      BY <1>1 DEF VerifyBegin
    <2>1. CASE match = "yes"
      <3>1. checking' = TRUE /\ answer' = NoAnswer /\ verdict' = verdict
        BY <1>1, <2>1 DEF VerifyBegin, Silent
      <3>2. AnswersAgree' BY <3>1 DEF AnswersAgree, NoAnswer
      <3> QED BY <1>t, <2>0, <3>1, <3>2, BystanderPreserves DEF ClientTypeOK
    <2>2. CASE match # "yes"
      <3>1. /\ verdict' = "unverified" /\ answer' = [match |-> match, verdict |-> "unverified"]
            /\ checking' = checking
        BY <1>1, <2>2 DEF VerifyBegin, Answer, Unbacked
      <3>2. AnswersAgree' /\ answer' \in Answers BY <3>1 DEF AnswersAgree, Answers
      <3> QED BY <1>t, <2>0, <3>1, <3>2, BystanderPreserves DEF ClientTypeOK, Verdicts
    <2> QED BY <2>1, <2>2
  <1>2. ASSUME NEW v \in Verdicts, VerifyEnd(v) PROVE ClientIInv'
    <2>1. /\ UNCHANGED <<tier, target, shelf, op, opc, looking, uncovered, upset>> /\ Quiet
          /\ checking' = FALSE /\ verdict' = v /\ answer' = [match |-> "yes", verdict |-> v]
      BY <1>2 DEF VerifyEnd, Answer, Quiet
    <2>2. AnswersAgree' /\ answer' \in Answers BY <2>1 DEF AnswersAgree, Answers, Verdicts
    <2> QED BY <1>t, <2>1, <2>2, BystanderPreserves DEF ClientTypeOK
  <1> QED BY <1>1, <1>2

LEMMA StatusPreserves ==
    ASSUME ClientIInv, \/ \E match \in {"yes", "no", "unknown"} : StatusRead(match)
                 \/ StatusAnswer
    PROVE  ClientIInv'
  <1>t. ClientTypeOK BY DEF ClientIInv
  <1>1. ASSUME NEW match \in {"yes", "no", "unknown"}, StatusRead(match) PROVE ClientIInv'
    <2>1. /\ UNCHANGED <<tier, target, shelf, op, opc, verdict, checking, uncovered, upset, mishaps>>
          /\ Request /\ looking' = match /\ answer' = NoAnswer
      BY <1>1 DEF StatusRead, Silent
    <2>2. AnswersAgree' BY <2>1 DEF AnswersAgree, NoAnswer
    <2> QED BY <1>t, <2>1, <2>2, BystanderPreserves DEF ClientTypeOK
  <1>2. ASSUME StatusAnswer PROVE ClientIInv'
    <2>1. /\ UNCHANGED <<tier, target, shelf, op, opc, checking, uncovered, upset>> /\ Quiet
          /\ looking # "no_one" /\ looking' = "no_one"
          /\ verdict' = IF verdict = "verified" /\ looking # "yes" THEN "unverified" ELSE verdict
          /\ answer' = [match |-> looking, verdict |-> verdict']
      BY <1>2 DEF StatusAnswer, Answer, Quiet
    <2>2. verdict' \in Verdicts BY <1>t, <2>1 DEF ClientTypeOK, Verdicts
    <2>3. AnswersAgree' /\ answer' \in Answers
      BY <1>t, <2>1, <2>2 DEF AnswersAgree, Answers, ClientTypeOK, Verdicts
    <2> QED BY <1>t, <2>1, <2>2, <2>3, BystanderPreserves DEF ClientTypeOK
  <1> QED BY <1>1, <1>2

(* A foreign write: what the operation knew of the file is void.           *)
LEMMA WritePreserves == ASSUME ClientIInv, NEW c \in Foreign, ClientWrites(c) PROVE ClientIInv'
  <1>t. ClientTypeOK BY DEF ClientIInv
  <1>0. /\ target' = c /\ c \in Files /\ Mishap /\ answer' = NoAnswer
        /\ upset' = IF opc = "free" THEN upset ELSE "write"
        /\ uncovered' = (uncovered \/ opc \in {"commit", "put"})
        /\ UNCHANGED <<tier, shelf, op, opc, verdict, checking, looking>>
    BY ForeignAssumption DEF ClientWrites, Silent
  <1>1. ClientTypeOK'
    <2>1. requests' \in 0 .. MaxRequests /\ mishaps' \in 0 .. MaxMishaps BY <1>0, <1>t, CountsAreTyped
    <2>2. uncovered' \in BOOLEAN BY <1>0
    <2>3. upset' \in {"no", "fault", "write"} BY <1>0, <1>t DEF ClientTypeOK
    <2> QED BY <1>0, <1>t, <2>1, <2>2, <2>3 DEF ClientTypeOK
  <1>2. StepsInOrder' BY <1>0 DEF ClientIInv, StepsInOrder
  <1>3. Covered' BY <1>0 DEF Covered
  <1>4. opc = "free" => TargetInHand' /\ RestoreInHand'
    <2>1. opc = "free" => op'.kind = "none" BY <1>0, <1>t DEF ClientTypeOK, NoOp
    <2> QED BY <2>1 DEF TargetInHand, RestoreInHand, Touching
  <1>5. opc # "free" => TargetInHand' /\ RestoreInHand'
    BY <1>0 DEF TargetInHand, RestoreInHand
  <1>6. AnswersAgree' BY <1>0 DEF AnswersAgree, NoAnswer
  <1> QED BY <1>1, <1>2, <1>3, <1>4, <1>5, <1>6 DEF ClientIInv

LEMMA CrashPreserves == ClientIInv /\ ClientCrash => ClientIInv'
  <1> SUFFICES ASSUME ClientIInv, ClientCrash PROVE ClientIInv' OBVIOUS
  <1>1. /\ OpOver /\ Mishap /\ answer' = NoAnswer /\ verdict' = "unverified" /\ checking' = FALSE
        /\ looking' = "no_one" /\ UNCHANGED <<tier, target, shelf>>
    BY DEF ClientCrash, Silent
  <1>2. AnswersAgree' BY <1>1 DEF AnswersAgree, NoAnswer
  <1> QED BY <1>1, <1>2, OpEnds DEF ClientIInv, ClientTypeOK, Verdicts

LEMMA ClientStutterPreserves == ClientIInv /\ UNCHANGED clientVars => ClientIInv'
  <1> SUFFICES ASSUME ClientIInv, UNCHANGED clientVars PROVE ClientIInv' OBVIOUS
  <1>1. ClientTypeOK' BY DEF ClientIInv, clientVars, ClientTypeOK
  <1>2. StepsInOrder' /\ Covered' /\ AnswersAgree'
    BY DEF ClientIInv, clientVars, StepsInOrder, Covered, AnswersAgree
  <1>3. TargetInHand' /\ RestoreInHand'
    BY DEF ClientIInv, clientVars, TargetInHand, RestoreInHand, RollbackAtHand, Wanted
  <1> QED BY <1>1, <1>2, <1>3 DEF ClientIInv

LEMMA ClientNextPreserves == ClientIInv /\ [ClientNext]_clientVars => ClientIInv'
  <1> SUFFICES ASSUME ClientIInv, [ClientNext]_clientVars PROVE ClientIInv' OBVIOUS
  <1>1. CASE OpStep
    BY <1>1, ClientBeginPreserves, ReadPreserves, BackupPreserves, CommitPreserves, ProvePreserves,
       FetchPreserves, PutPreserves, CheckPreserves, FailPreserves, CliPreserves, ShakePreserves
    DEF OpStep
  <1>2. CASE ClientNext /\ ~ OpStep
    BY <1>2, VerifyPreserves, StatusPreserves, WritePreserves, CrashPreserves DEF ClientNext
  <1>3. CASE UNCHANGED clientVars BY <1>3, ClientStutterPreserves
  <1> QED BY <1>1, <1>2, <1>3

--------------------------------------------------------------------------------
(* The theorems.                                                           *)

(* The inductive invariant.                                                *)
THEOREM ClientInductiveInvariant == ClientSpec => []ClientIInv
  BY ClientInitEstablishes, ClientNextPreserves, PTL DEF ClientSpec

(* The state of every operation, its lock, the shelf and the bounded       *)
(* retention stay well formed.                                             *)
THEOREM ClientTypeCorrect == ClientSpec => []ClientTypeOK
  <1>1. ClientIInv => ClientTypeOK BY DEF ClientIInv
  <1> QED BY <1>1, ClientInductiveInvariant, PTL

(* install, remove, restore, verify and status never answer "verified"     *)
(* beside evidence that the entry is not the one this server wrote.        *)
THEOREM AnswersNeverDisagree == ClientSpec => []AnswersAgree
  <1>1. ClientIInv => AnswersAgree BY DEF ClientIInv
  <1> QED BY <1>1, ClientInductiveInvariant, PTL

(* commit_atomic and restore_backup overwrite or remove nothing that       *)
(* create_backup did not shelve, but for the two gaps uncovered records.   *)
THEOREM NothingOfTheClientIsLost == ClientSpec => NothingIsLost
  <1> DEFINE Kept == tier = "file" /\ opc \in {"commit", "put"} /\ opc' # opc
                       /\ target' # target /\ target # Absent /\ ~ uncovered
                     => \E i \in DOMAIN shelf' : shelf'[i] = target
  <1>1. ClientIInv /\ [ClientNext]_clientVars => [Kept]_clientVars
    <2> SUFFICES ASSUME ClientIInv, ClientNext, tier = "file", opc \in {"commit", "put"}, opc' # opc,
                        target' # target, ~ uncovered
                 PROVE  \E i \in DOMAIN shelf' : shelf'[i] = target
      OBVIOUS
    <2>1. \E i \in DOMAIN shelf : shelf[i] = target BY DEF ClientIInv, Covered
    <2>2. shelf' = shelf
      BY DEF ClientNext, OpStep, OpBegin, InstallRead, RemoveRead, TakeBackup, Commit, Prove,
             FetchBackup, PutBack, CheckBack, ParsePut, WriteFails, CliAdd, CliGet, CliRemove,
             Handshake, VerifyBegin, VerifyEnd, StatusRead, StatusAnswer, ClientWrites, ClientCrash
    <2> QED BY <2>1, <2>2
  <1> QED BY <1>1, ClientInductiveInvariant, PTL DEF ClientSpec, NothingIsLost

(* An install or a removal that nobody writes into ends, however it ends,  *)
(* with the file as it was but for this server's entry.                    *)
THEOREM OperationsStaySurgical == ClientSpec => OperationsAreSurgical
  <1> DEFINE Surgical ==
               \/ target' = op.before
               \/ op.before = Absent /\ target'.rest = 0
               \/ /\ op.before # Absent /\ op.before.entry \notin {"odd", "broken"}
                  /\ target'.rest = op.before.rest
             Ends == tier = "file" /\ op.kind \in {"install", "remove"} /\ op' = NoOp
                       /\ upset # "write"
                     => Surgical
  <1>1. ClientIInv /\ [ClientNext]_clientVars => [Ends]_clientVars
    <2> SUFFICES ASSUME ClientIInv, ClientNext, tier = "file", op.kind \in Touching, op' = NoOp,
                        upset # "write"
                 PROVE  Surgical
      BY DEF Touching
    <2>t. ClientTypeOK /\ TargetInHand /\ StepsInOrder /\ op \in Ops BY DEF ClientIInv, ClientTypeOK
    <2>0. op # NoOp /\ opc # "free" BY <2>t DEF NoOp, Touching, ClientTypeOK
    <2>1. ASSUME NEW f, Base(op.before).entry \notin {"odd", "broken"},
                 f.rest = Base(op.before).rest, target' = f
          PROVE  Surgical
      <3>1. CASE op.before = Absent BY <2>1, <3>1 DEF Base
      <3>2. CASE op.before # Absent BY <2>1, <3>2 DEF Base
      <3> QED BY <3>1, <3>2
    <2>2. CASE target' = target
      <3>1. CASE opc = "proof"
        <4>1. Wanted.rest = Base(op.read).rest BY <2>t, BaseIsTyped DEF Wanted, Ops
        <4> QED BY <2>1, <2>2, <2>t, <3>1, <4>1 DEF TargetInHand
      <3>2. CASE opc = "shake" BY <2>1, <2>2, <2>t, <3>2 DEF TargetInHand
      <3>3. CASE opc \in {"read", "backup", "commit", "fetch", "safety", "put"}
        BY <2>2, <2>t, <3>3 DEF TargetInHand
      <3> QED BY <2>0, <2>t, <3>1, <3>2, <3>3 DEF ClientTypeOK, StepsInOrder, Touching
    <2>3. CASE PutBack BY <2>3, <2>t DEF PutBack, Restored, TargetInHand
    <2>4. CASE Commit BY <2>0, <2>4 DEF Commit
    <2>5. CASE \E c \in Foreign : ClientWrites(c) BY <2>0, <2>5 DEF ClientWrites
    <2>6. CASE \/ \E done, ok \in BOOLEAN : CliAdd(done, ok)
               \/ \E done \in BOOLEAN : CliRemove(done)
      BY <2>6, <2>t DEF CliAdd, CliRemove, StepsInOrder
    <2>7. \/ target' = target \/ PutBack \/ Commit
          \/ \E c \in Foreign : ClientWrites(c)
          \/ \E done, ok \in BOOLEAN : CliAdd(done, ok)
          \/ \E done \in BOOLEAN : CliRemove(done)
      BY DEF ClientNext, OpStep, OpBegin, InstallRead, RemoveRead, TakeBackup, Prove,
             FetchBackup, CheckBack, ParsePut, WriteFails, CliGet, Handshake, VerifyBegin,
             VerifyEnd, StatusRead, StatusAnswer, ClientCrash
    <2> QED BY <2>2, <2>3, <2>4, <2>5, <2>6, <2>7
  <1> QED BY <1>1, ClientInductiveInvariant, PTL DEF ClientSpec, OperationsAreSurgical

(* A restore that nothing disturbs puts the chosen copy back and leaves    *)
(* the state before it on the shelf.                                       *)
THEOREM RestoreStaysReversible == ClientSpec => RestoreIsReversible
  <1> DEFINE Reversible == tier = "file" /\ op.kind = "restore" /\ op' = NoOp /\ upset = "no"
                             /\ mishaps' = mishaps
                           => /\ target' = op.data
                              /\ \E i \in DOMAIN shelf' : shelf'[i] = op.before
  <1>1. ClientIInv /\ [ClientNext]_clientVars => [Reversible]_clientVars
    <2> SUFFICES ASSUME ClientIInv, ClientNext, tier = "file", op.kind = "restore", op' = NoOp,
                        upset = "no", mishaps' = mishaps
                 PROVE  target' = op.data /\ \E i \in DOMAIN shelf' : shelf'[i] = op.before
      OBVIOUS
    <2>t. ClientTypeOK /\ StepsInOrder /\ RestoreInHand /\ op \in Ops BY DEF ClientIInv, ClientTypeOK
    <2>0. /\ op # NoOp /\ opc \in {"fetch", "safety", "put", "check", "parse"}
          /\ (opc = "fetch" => op.slot # 0)
          /\ mishaps \in Nat
      BY <2>t DEF StepsInOrder, NoOp, ClientTypeOK
    <2>1. ~ Mishap BY <2>0 DEF Mishap
    <2>2. op' # op /\ op'.kind # "restore" BY <2>0 DEF NoOp
    <2>3. ~ \E pos \in 1 .. Keep + 1 : TakeBackup(pos)
      BY <2>0, <2>2, <2>t DEF TakeBackup, Ops
    <2>4. ~ FetchBackup BY <2>0, <2>2, <2>t DEF FetchBackup, Ops
    <2>5. PutBack \/ CheckBack \/ ParsePut
      BY <2>0, <2>1, <2>2, <2>3, <2>4
      DEF ClientNext, OpStep, OpBegin, InstallRead, RemoveRead, Commit, Prove, WriteFails,
          CliAdd, CliGet, CliRemove, Handshake, VerifyBegin, VerifyEnd, StatusRead, StatusAnswer,
          ClientWrites, ClientCrash
    <2>6. CASE PutBack BY <2>6, <2>t DEF PutBack, Restored, RestoreInHand
    <2>7. CASE CheckBack \/ ParsePut BY <2>7, <2>t DEF CheckBack, ParsePut, RestoreInHand
    <2> QED BY <2>5, <2>6, <2>7
  <1> QED BY <1>1, ClientInductiveInvariant, PTL DEF ClientSpec, RestoreIsReversible
================================================================================
