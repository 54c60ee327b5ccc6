-------------------------- MODULE ModelDownload_proofs -------------------------
(***************************************************************************)
(* Proofs about ModelDownload, for any manifests, any number of sources,   *)
(* any interval between progress writes and any number of faults.          *)
(***************************************************************************)
EXTENDS ModelDownload, TLAPS
LOCAL INSTANCE WellFoundedInduction

--------------------------------------------------------------------------------
(* Lengths.  What a recursive function computes is not the provers' to see *)
(* by induction; each fact about UpTo is shown at the least index at which *)
(* it could fail.                                                          *)

(* A set of naturals that is not empty has a least member.                 *)
LEMMA LeastOf ==
    ASSUME NEW S \in SUBSET Nat, S # {}
    PROVE  \E x \in S : \A y \in S : x <= y
  <1> DEFINE R == OpToRel(<, Nat)
  <1>1. \E x \in S : \A y \in S : ~ (<<y, x>> \in R)
    <2>1. IsWellFoundedOn(R, Nat) BY NatLessThanWellFounded
    <2> HIDE DEF R
    <2> QED BY <2>1, WFMin
  <1>2. PICK x \in S : \A y \in S : ~ (<<y, x>> \in R) BY <1>1
  <1>3. ASSUME NEW y \in S PROVE x <= y
    <2>1. ~ (y < x) BY <1>2, <1>3 DEF OpToRel
    <2> QED BY <2>1
  <1> QED BY <1>3

(* f is the running length of the first m files.                           *)
RunsUp(f, s, m) == /\ f \in [0 .. m -> Nat] /\ f[0] = 0
                   /\ \A k \in 1 .. m : f[k] = f[k - 1] + s[k]

(* The running lengths exist, for any number of files.                     *)
LEMMA RunExists ==
    ASSUME NEW s \in Seq(Nat), NEW m \in 0 .. Len(s)
    PROVE  \E f : RunsUp(f, s, m)
  <1> DEFINE Bad == {n \in 0 .. Len(s) : ~ \E f : RunsUp(f, s, n)}
  <1>1. SUFFICES ASSUME Bad # {} PROVE FALSE OBVIOUS
  <1>2. PICK n \in Bad : \A y \in Bad : n <= y
    <2>1. Bad \in SUBSET Nat OBVIOUS
    <2> HIDE DEF Bad
    <2> QED BY <1>1, <2>1, LeastOf
  <1>3. n \in 0 .. Len(s) /\ ~ \E f : RunsUp(f, s, n) BY <1>2
  <1>4. CASE n = 0
    <2>1. RunsUp([k \in 0 .. 0 |-> 0], s, 0) BY DEF RunsUp
    <2> QED BY <1>3, <1>4, <2>1
  <1>5. CASE n # 0
    <2>1. n - 1 \in 0 .. Len(s) /\ n - 1 \notin Bad BY <1>2, <1>3, <1>5
    <2>2. PICK g : RunsUp(g, s, n - 1) BY <2>1
    <2> DEFINE f == [k \in 0 .. n |-> IF k = n THEN g[n - 1] + s[n] ELSE g[k]]
    <2>3. s[n] \in Nat /\ n \in Nat \ {0} BY <1>3, <1>5
    <2>4. g \in [0 .. n - 1 -> Nat] /\ g[0] = 0 /\ \A k \in 1 .. n - 1 : g[k] = g[k - 1] + s[k]
      BY <2>2 DEF RunsUp
    <2>5. f \in [0 .. n -> Nat]
      <3>1. ASSUME NEW k \in 0 .. n PROVE (IF k = n THEN g[n - 1] + s[n] ELSE g[k]) \in Nat
        BY <2>3, <2>4
      <3> QED BY <3>1
    <2>6. f[0] = 0 BY <2>3, <2>4
    <2>7. ASSUME NEW k \in 1 .. n PROVE f[k] = f[k - 1] + s[k]
      BY <2>3, <2>4
    <2>8. RunsUp(f, s, n)
      <3> HIDE DEF f
      <3> QED BY <2>5, <2>6, <2>7 DEF RunsUp
    <2> QED BY <1>3, <2>8
  <1> QED BY <1>4, <1>5

(* The equations of UpTo.                                                  *)
LEMMA UpToEquations ==
    ASSUME NEW s \in Seq(Nat)
    PROVE  /\ UpTo(s, 0) = 0
           /\ \A i \in 0 .. Len(s) : UpTo(s, i) \in Nat
           /\ \A i \in 1 .. Len(s) : UpTo(s, i) = UpTo(s, i - 1) + s[i]
  <1> DEFINE sum[k \in 0 .. Len(s)] == IF k = 0 THEN 0 ELSE sum[k - 1] + s[k]
             step(f) == [k \in 0 .. Len(s) |-> IF k = 0 THEN 0 ELSE f[k - 1] + s[k]]
  <1>1. Len(s) \in Nat OBVIOUS
  <1>2. PICK f : RunsUp(f, s, Len(s)) BY <1>1, RunExists
  <1>3. f = step(f)
    <2>1. f \in [0 .. Len(s) -> Nat] BY <1>2 DEF RunsUp
    <2>2. ASSUME NEW k \in 0 .. Len(s) PROVE f[k] = IF k = 0 THEN 0 ELSE f[k - 1] + s[k]
      BY <1>1, <1>2 DEF RunsUp
    <2> QED BY <2>1, <2>2
  <1>4. sum = CHOOSE g : g = step(g) BY DEF sum
  <1>5. sum = step(sum)
    <2> HIDE DEF step, sum
    <2> QED BY <1>3, <1>4
  <1>6. \A i : UpTo(s, i) = sum[i] BY DEF UpTo
  <1>7. sum[0] = 0 /\ \A k \in 1 .. Len(s) : sum[k] = sum[k - 1] + s[k]
    <2> HIDE DEF sum
    <2> QED BY <1>1, <1>5
  <1> HIDE DEF sum
  <1> DEFINE Bad == {n \in 0 .. Len(s) : sum[n] \notin Nat}
  <1>8. Bad = {}
    <2>1. SUFFICES ASSUME Bad # {} PROVE FALSE OBVIOUS
    <2>2. PICK n \in Bad : \A y \in Bad : n <= y
      <3>1. Bad \in SUBSET Nat BY <1>1
      <3> HIDE DEF Bad
      <3> QED BY <2>1, <3>1, LeastOf
    <2>3. n \in 0 .. Len(s) /\ sum[n] \notin Nat BY <2>2
    <2>4. n # 0 BY <1>7, <2>3
    <2>5. n - 1 \in 0 .. Len(s) /\ n - 1 \notin Bad BY <1>1, <2>2, <2>3, <2>4
    <2>6. sum[n - 1] \in Nat BY <2>5
    <2> QED BY <1>7, <2>3, <2>4, <2>6
  <1> QED BY <1>6, <1>7, <1>8

(* More files are not shorter.                                             *)
LEMMA UpToGrows ==
    ASSUME NEW s \in Seq(Nat), NEW i \in 0 .. Len(s)
    PROVE  UpTo(s, i) <= UpTo(s, Len(s))
  <1> DEFINE Bad == {n \in Nat : n <= Len(s) - i /\ ~ (UpTo(s, i) <= UpTo(s, i + n))}
  <1>1. Len(s) \in Nat /\ i \in Nat /\ i <= Len(s) OBVIOUS
  <1>2. Bad = {}
    <2>1. SUFFICES ASSUME Bad # {} PROVE FALSE OBVIOUS
    <2>2. PICK n \in Bad : \A y \in Bad : n <= y
      <3>1. Bad \in SUBSET Nat OBVIOUS
      <3> HIDE DEF Bad
      <3> QED BY <2>1, <3>1, LeastOf
    <2>3. n \in Nat /\ n <= Len(s) - i /\ ~ (UpTo(s, i) <= UpTo(s, i + n)) BY <2>2
    <2>4. UpTo(s, i) \in Nat BY UpToEquations
    <2>5. n # 0
      <3>1. i + 0 = i BY <1>1
      <3> QED BY <2>3, <2>4, <3>1
    <2>6. n - 1 \in Nat /\ n - 1 \notin Bad
      <3>1. n - 1 \in Nat /\ ~ (n <= n - 1) BY <2>3, <2>5
      <3> HIDE DEF Bad
      <3> QED BY <2>2, <3>1
    <2>7. UpTo(s, i) <= UpTo(s, i + (n - 1)) BY <1>1, <2>3, <2>6
    <2>8. i + n \in 1 .. Len(s) /\ i + n - 1 = i + (n - 1) /\ i + (n - 1) \in 0 .. Len(s)
      BY <1>1, <2>3, <2>5
    <2>9. UpTo(s, i + n) = UpTo(s, i + (n - 1)) + s[i + n] BY <2>8, UpToEquations
    <2>10. s[i + n] \in Nat /\ UpTo(s, i + (n - 1)) \in Nat BY <2>8, UpToEquations
    <2> QED BY <2>3, <2>4, <2>7, <2>9, <2>10
  <1>3. Len(s) - i \in Nat /\ i + (Len(s) - i) = Len(s) BY <1>1
  <1>4. Len(s) - i \notin Bad BY <1>2
  <1>5. UpTo(s, i) <= UpTo(s, i + (Len(s) - i)) BY <1>3, <1>4
  <1> QED BY <1>3, <1>5

(* Shorter files are not longer together.                                  *)
LEMMA UpToCompares ==
    ASSUME NEW s \in Seq(Nat), NEW t \in Seq(Nat), Len(s) = Len(t),
           \A i \in 1 .. Len(s) : s[i] <= t[i]
    PROVE  UpTo(s, Len(s)) <= UpTo(t, Len(t))
  <1> DEFINE Bad == {n \in 0 .. Len(s) : ~ (UpTo(s, n) <= UpTo(t, n))}
  <1>1. Len(s) \in Nat OBVIOUS
  <1>2. Bad = {}
    <2>1. SUFFICES ASSUME Bad # {} PROVE FALSE OBVIOUS
    <2>2. PICK n \in Bad : \A y \in Bad : n <= y
      <3>1. Bad \in SUBSET Nat BY <1>1
      <3> HIDE DEF Bad
      <3> QED BY <2>1, <3>1, LeastOf
    <2>3. n \in 0 .. Len(s) /\ ~ (UpTo(s, n) <= UpTo(t, n)) BY <2>2
    <2>4. n # 0
      <3>1. UpTo(s, 0) = 0 /\ UpTo(t, 0) = 0 BY UpToEquations
      <3> QED BY <2>3, <3>1
    <2>5. n \in 1 .. Len(s) /\ n - 1 \in 0 .. Len(s) /\ n - 1 \notin Bad BY <1>1, <2>2, <2>3, <2>4
    <2>6. UpTo(s, n - 1) <= UpTo(t, n - 1) BY <2>5
    <2>7. UpTo(s, n) = UpTo(s, n - 1) + s[n] /\ UpTo(s, n - 1) \in Nat BY <2>5, UpToEquations
    <2>8. UpTo(t, n) = UpTo(t, n - 1) + t[n] /\ UpTo(t, n - 1) \in Nat BY <2>5, UpToEquations
    <2>9. s[n] \in Nat /\ t[n] \in Nat /\ s[n] <= t[n] BY <2>5
    <2> QED BY <2>3, <2>6, <2>7, <2>8, <2>9
  <1>3. Len(s) \in 0 .. Len(s) /\ Len(s) \notin Bad BY <1>1, <1>2
  <1> QED BY <1>3

(* What the lengths of a manifest and of its partial files amount to.      *)
LEMMA Lengths ==
    ASSUME manifest \in Manifests, part \in [Files -> Nat], \A i \in Files : part[i] <= Sizes[i]
    PROVE  /\ Total \in Nat /\ Actual \in 0 .. Total
           /\ \A i \in Files : Before(i) \in Nat /\ Before(i) + Sizes[i] <= Total
           /\ ~ FileSet => Files = {1} /\ Actual = part[1] /\ Before(1) = 0
  <1>1. Sizes \in Seq(Nat) /\ Len(Sizes) \in Nat \ {0} /\ Files = 1 .. Len(Sizes)
        /\ (~ FileSet => Len(Sizes) = 1)
    BY ManifestAssumption DEF Sizes, FileSet, Files
  <1>2. part \in Seq(Nat) /\ Len(part) = Len(Sizes) BY <1>1
  <1>3. Total \in Nat /\ Actual \in Nat
    <2>1. UpTo(Sizes, Len(Sizes)) \in Nat BY <1>1, UpToEquations
    <2>2. UpTo(part, Len(part)) \in Nat BY <1>1, <1>2, UpToEquations
    <2> QED BY <2>1, <2>2 DEF Total, Actual
  <1>4. Actual <= Total
    <2>1. \A i \in 1 .. Len(part) : part[i] <= Sizes[i] BY <1>1, <1>2
    <2> QED BY <1>1, <1>2, <2>1, UpToCompares DEF Actual, Total
  <1>5. ASSUME NEW i \in Files PROVE Before(i) \in Nat /\ Before(i) + Sizes[i] <= Total
    <2>1. i \in 1 .. Len(Sizes) /\ i - 1 \in 0 .. Len(Sizes) /\ i \in 0 .. Len(Sizes) BY <1>1
    <2>2. UpTo(Sizes, i) = UpTo(Sizes, i - 1) + Sizes[i] /\ UpTo(Sizes, i - 1) \in Nat
      BY <1>1, <2>1, UpToEquations
    <2>3. UpTo(Sizes, i) <= UpTo(Sizes, Len(Sizes)) BY <1>1, <2>1, UpToGrows
    <2> QED BY <2>2, <2>3 DEF Before, Total
  <1>6. ASSUME ~ FileSet PROVE Files = {1} /\ Actual = part[1] /\ Before(1) = 0
    <2>1. Files = {1} /\ Len(part) = 1 /\ 1 \in 1 .. Len(part) BY <1>1, <1>2, <1>6
    <2>2. UpTo(part, 0) = 0 /\ UpTo(part, 1) = UpTo(part, 1 - 1) + part[1]
      BY <1>2, <2>1, UpToEquations
    <2>3. UpTo(Sizes, 0) = 0 BY <1>1, UpToEquations
    <2>4. 1 - 1 = 0 /\ part[1] \in Nat BY <2>1
    <2>5. UpTo(part, 1) = part[1] BY <2>2, <2>4
    <2>6. Before(1) = 0 BY <2>3, <2>4 DEF Before
    <2> QED BY <2>1, <2>5, <2>6 DEF Actual
  <1> QED BY <1>3, <1>4, <1>5, <1>6

--------------------------------------------------------------------------------
(* The inductive invariant.                                                *)

(* A task enters the chain with an active operation, goes to another       *)
(* source only while there is one, and verifies or installs only a row     *)
(* that is complete, also when the operation is resumed after a crash.     *)
ChainInOrder ==
    /\ pc = "dispatch" => st \in Active
    /\ pc = "switch" => src < Sources
    /\ st \in {"verifying", "installing"} => bytes = Total

(* Nobody works on a completed install.                                    *)
CompletedIsLeft == st = "completed" => pc = "idle" /\ Good

(* For an archive, what the task will next write to the row is never more  *)
(* than the partial file holds.                                            *)
ArchiveInStep ==
    ~ FileSet => /\ pc \in {"get", "headers"} => last <= part[1]
                 /\ pc = "headers0" => last = 0
                 /\ pc \in {"stream", "cancelled"} => bytes <= part[1]

IInv == TypeOK /\ ChainInOrder /\ CompletedIsLeft /\ ArchiveInStep

(* The parts of the type invariant that the partial files and the numbers  *)
(* make up.                                                                *)
DiskOK ==
    /\ part \in [Files -> Nat] /\ right \in [Files -> BOOLEAN]
    /\ \A i \in Files : part[i] <= Sizes[i]

NumbersOK ==
    /\ manifest \in Manifests
    /\ st \in Active \cup Finished \cup {"none"}
    /\ bytes \in 0 .. Total /\ last \in 0 .. Total
    /\ src \in 1 .. Sources /\ file \in Files
    /\ asked \in BOOLEAN /\ faults \in 0 .. MaxFaults
    /\ pc \in {"idle", "dispatch", "compare", "restart", "get", "headers", "headers0",
               "stream", "switch", "flush", "enter", "verifying", "installing",
               "failed", "internal", "cancelled", "escaped"}

(* What every step's proof needs of the lengths, which no step changes.    *)
StepFacts ==
    /\ manifest' = manifest /\ Sizes' = Sizes /\ Files' = Files /\ FileSet' = FileSet
    /\ Total' = Total /\ AllRight' = AllRight
    /\ Files = 1 .. Len(Sizes) /\ Len(Sizes) \in Nat \ {0}
    /\ \A i \in Files : Sizes[i] \in Nat
    /\ file \in Files /\ part[file] \in 0 .. Sizes[file]
    /\ Total \in Nat /\ Actual \in 0 .. Total
    /\ \A i \in Files : Before(i) \in Nat /\ Before(i) + Sizes[i] <= Total
    /\ ~ FileSet => file = 1 /\ Files = {1} /\ Len(Sizes) = 1 /\ Actual = part[1] /\ Before(1) = 0

(* They hold.                                                              *)
LEMMA StepFactsHold ==
    ASSUME TypeOK, [Next]_vars
    PROVE  StepFacts
  <1>1. manifest' = manifest
    BY DEF Next, TaskStep, vars, request, task, Begin, Dispatch, Compare, Restart, AlreadyComplete,
           Answer206, Answer200, Headers, Chunk, StreamComplete, DownloadFails, NetworkFails,
           SwitchSource, FlushProgress, EnterVerifying, Verify, Install, InternalError,
           MarkFailed, MarkRefused, MarkCancelled, TaskLogs, Cancel, Crash, DiskDamage
  <1>2. Sizes' = Sizes /\ FileSet' = FileSet BY <1>1 DEF Sizes, FileSet
  <1>3. Files' = Files /\ Total' = Total /\ AllRight' = AllRight
    BY <1>2 DEF Files, Total, AllRight
  <1>4. /\ Files = 1 .. Len(Sizes) /\ Len(Sizes) \in Nat \ {0}
        /\ \A i \in Files : Sizes[i] \in Nat
        /\ ~ FileSet => Len(Sizes) = 1
    BY ManifestAssumption DEF TypeOK, Sizes, FileSet, Files
  <1>5. /\ Total \in Nat /\ Actual \in 0 .. Total
        /\ \A i \in Files : Before(i) \in Nat /\ Before(i) + Sizes[i] <= Total
        /\ ~ FileSet => Files = {1} /\ Actual = part[1] /\ Before(1) = 0
    BY Lengths DEF TypeOK
  <1>6. ~ FileSet => file = 1 BY <1>5 DEF TypeOK
  <1>7. file \in Files /\ part[file] \in 0 .. Sizes[file]
    <2>1. file \in Files /\ part[file] \in Nat /\ part[file] <= Sizes[file] BY DEF TypeOK
    <2> QED BY <1>4, <2>1
  <1> QED BY <1>1, <1>2, <1>3, <1>4, <1>5, <1>6, <1>7 DEF StepFacts

(* The three things a step does to the partial files.                      *)
LEMMA DiskKept ==
    ASSUME DiskOK, StepFacts, UNCHANGED disk
    PROVE  DiskOK'
  BY DEF DiskOK, StepFacts, disk

LEMMA DiskTruncated ==
    ASSUME StepFacts, Truncate
    PROVE  DiskOK'
  BY DEF DiskOK, StepFacts, Truncate, Empty, AllRight

LEMMA DiskWritten ==
    ASSUME DiskOK, StepFacts, NEW i \in Files, NEW n \in Nat, n <= Sizes[i],
           part' = [part EXCEPT ![i] = n], right' \in [Files -> BOOLEAN]
    PROVE  DiskOK'
  <1>1. part' \in [Files -> Nat] BY DEF DiskOK
  <1>2. ASSUME NEW k \in Files PROVE part'[k] <= Sizes[k]
    <2>1. part'[k] = IF k = i THEN n ELSE part[k] BY DEF DiskOK
    <2> QED BY <2>1 DEF DiskOK
  <1> QED BY <1>1, <1>2 DEF DiskOK, StepFacts

--------------------------------------------------------------------------------
(* Every action keeps the invariant: one lemma for each, and in it one     *)
(* step for each part that the action can disturb.                         *)

LEMMA BeginKeeps == ASSUME IInv, Begin PROVE IInv'
  <1> USE DEF IInv
  <1>1. [Next]_vars BY DEF Next, TaskStep
  <1>2. StepFacts BY <1>1, StepFactsHold
  <1>3. RowFollowsTask'
    BY <1>2 DEF StepFacts, TypeOK, RowFollowsTask, ChainInOrder, Active, Begin, row,
           disk
  <1>4. DiskOK'
    BY <1>2 DEF StepFacts, TypeOK, DiskOK, Begin, row, disk
  <1>5. NumbersOK'
    <2>1. bytes' \in 0 .. Total BY <1>2 DEF StepFacts, TypeOK, Begin, row
    <2>2. last' \in 0 .. Total BY <2>1 DEF Begin
    <2>3. st' \in Active \cup Finished \cup {"none"} BY DEF TypeOK, Begin, row, Active
    <2>4. asked' \in BOOLEAN BY DEF Begin
    <2>5. src' \in 1 .. Sources /\ file' \in Files BY <1>2, NumberAssumption DEF StepFacts, Begin
    <2> QED BY <1>2, <2>1, <2>2, <2>3, <2>4, <2>5 DEF StepFacts, TypeOK, NumbersOK, Begin, Finished
  <1>6. TypeOK' BY <1>3, <1>4, <1>5 DEF TypeOK, DiskOK, NumbersOK
  <1>7. ChainInOrder'
    BY <1>2, NumberAssumption DEF StepFacts, TypeOK, RowFollowsTask, ChainInOrder,
           Active, Finished, Begin, row, disk
  <1>8. CompletedIsLeft'
    BY <1>2 DEF StepFacts, TypeOK, RowFollowsTask, ChainInOrder, CompletedIsLeft,
           Good, Active, Begin, row, disk
  <1>9. ArchiveInStep'
    BY <1>2 DEF StepFacts, TypeOK, ArchiveInStep, Begin, row, disk
  <1> QED BY <1>6, <1>7, <1>8, <1>9

LEMMA DispatchKeeps == ASSUME IInv, Dispatch PROVE IInv'
  <1> USE DEF IInv
  <1>1. [Next]_vars BY DEF Next, TaskStep
  <1>2. StepFacts BY <1>1, StepFactsHold
  <1> QED BY <1>2, NumberAssumption DEF StepFacts, TypeOK, RowFollowsTask,
           ChainInOrder, CompletedIsLeft, Good, ArchiveInStep, Active, Finished,
           Dispatch, disk, request

LEMMA CompareKeeps == ASSUME IInv, Compare PROVE IInv'
  <1> USE DEF IInv
  <1>0. DiskOK BY DEF TypeOK, DiskOK
  <1>1. [Next]_vars BY DEF Next, TaskStep
  <1>2. StepFacts BY <1>1, StepFactsHold
  <1>3. RowFollowsTask'
    BY <1>2 DEF StepFacts, TypeOK, RowFollowsTask, ChainInOrder, Active, Compare,
           Truncate, Empty, AllRight, disk, request
  <1>4. DiskOK'
    <2>1. CASE Actual < bytes BY <1>2, <2>1, DiskTruncated DEF Compare
    <2>2. CASE ~ (Actual < bytes) BY <1>0, <1>2, <2>2, DiskKept DEF Compare
    <2> QED BY <2>1, <2>2
  <1>5. NumbersOK'
    BY <1>2, NumberAssumption DEF StepFacts, TypeOK, NumbersOK, ChainInOrder,
           Active, Finished, Compare, Truncate, Empty, AllRight, disk, request
  <1>6. TypeOK' BY <1>3, <1>4, <1>5 DEF TypeOK, DiskOK, NumbersOK
  <1>7. ChainInOrder'
    BY <1>2, NumberAssumption DEF StepFacts, TypeOK, RowFollowsTask, ChainInOrder,
           Active, Finished, Compare, Truncate, Empty, AllRight, disk, request
  <1>8. CompletedIsLeft'
    BY <1>2 DEF StepFacts, TypeOK, RowFollowsTask, ChainInOrder, CompletedIsLeft,
           Good, Active, Compare, Truncate, Empty, AllRight, disk, request
  <1>9. ArchiveInStep'
    BY <1>2 DEF StepFacts, TypeOK, ArchiveInStep, Compare, Truncate, Empty,
           AllRight, disk, request
  <1> QED BY <1>6, <1>7, <1>8, <1>9

LEMMA RestartKeeps == ASSUME IInv, Restart PROVE IInv'
  <1> USE DEF IInv
  <1>1. [Next]_vars BY DEF Next, TaskStep
  <1>2. StepFacts BY <1>1, StepFactsHold
  <1> QED BY <1>2, NumberAssumption DEF StepFacts, TypeOK, RowFollowsTask,
           ChainInOrder, CompletedIsLeft, Good, ArchiveInStep, Active, Finished,
           Restart, disk, request

LEMMA AlreadyCompleteKeeps == ASSUME IInv, AlreadyComplete PROVE IInv'
  <1> USE DEF IInv
  <1>1. [Next]_vars BY DEF Next, TaskStep
  <1>2. StepFacts BY <1>1, StepFactsHold
  <1>3. RowFollowsTask'
    BY <1>2 DEF StepFacts, TypeOK, RowFollowsTask, ChainInOrder, Active,
           AlreadyComplete, NextFile, row, disk, request
  <1>4. DiskOK'
    BY <1>2 DEF StepFacts, TypeOK, DiskOK, AlreadyComplete, NextFile, row, disk,
           request
  <1>5. NumbersOK'
    BY <1>2, NumberAssumption DEF StepFacts, TypeOK, NumbersOK, ChainInOrder,
           Active, Finished, AlreadyComplete, NextFile, row, disk, request
  <1>6. TypeOK' BY <1>3, <1>4, <1>5 DEF TypeOK, DiskOK, NumbersOK
  <1>7. ChainInOrder'
    BY <1>2, NumberAssumption DEF StepFacts, TypeOK, RowFollowsTask, ChainInOrder,
           Active, Finished, AlreadyComplete, NextFile, row, disk, request
  <1>8. CompletedIsLeft'
    BY <1>2 DEF StepFacts, TypeOK, RowFollowsTask, ChainInOrder, CompletedIsLeft,
           Good, Active, AlreadyComplete, NextFile, row, disk, request
  <1>9. ArchiveInStep'
    <2>1. SUFFICES ASSUME ~ FileSet PROVE pc' = "flush" BY <1>2 DEF StepFacts, ArchiveInStep
    <2>2. file = 1 /\ Len(Sizes) = 1 BY <1>2, <2>1 DEF StepFacts
    <2> QED BY <2>2 DEF AlreadyComplete, NextFile
  <1> QED BY <1>6, <1>7, <1>8, <1>9

LEMMA Answer206Keeps == ASSUME IInv, Answer206 PROVE IInv'
  <1> USE DEF IInv
  <1>1. [Next]_vars BY DEF Next, TaskStep
  <1>2. StepFacts BY <1>1, StepFactsHold
  <1> QED BY <1>2, NumberAssumption DEF StepFacts, TypeOK, RowFollowsTask,
           ChainInOrder, CompletedIsLeft, Good, ArchiveInStep, Active, Finished,
           Answer206, row, disk, request

LEMMA Answer200Keeps == ASSUME IInv, Answer200 PROVE IInv'
  <1> USE DEF IInv
  <1>1. [Next]_vars BY DEF Next, TaskStep
  <1>2. StepFacts BY <1>1, StepFactsHold
  <1>6. TypeOK'
    BY <1>2, NumberAssumption DEF StepFacts, TypeOK, RowFollowsTask, ChainInOrder,
           Active, Finished, Answer200, disk, request
  <1>7. ChainInOrder'
    BY <1>2, NumberAssumption DEF StepFacts, TypeOK, RowFollowsTask, ChainInOrder,
           Active, Finished, Answer200, disk, request
  <1>8. CompletedIsLeft'
    BY <1>2 DEF StepFacts, TypeOK, RowFollowsTask, ChainInOrder, CompletedIsLeft,
           Good, Active, Answer200, disk, request
  <1>9. ArchiveInStep'
    <2>1. SUFFICES ASSUME ~ FileSet PROVE last' = 0
      BY <1>2 DEF StepFacts, ArchiveInStep, Answer200
    <2>2. file = 1 /\ part[1] \in Nat /\ last \in Nat /\ last <= part[1]
      BY <1>2, <2>1 DEF StepFacts, TypeOK, ArchiveInStep, Answer200
    <2> QED BY <2>1, <2>2 DEF Answer200
  <1> QED BY <1>6, <1>7, <1>8, <1>9

LEMMA HeadersKeeps == ASSUME IInv, Headers PROVE IInv'
  <1> USE DEF IInv
  <1>0. DiskOK BY DEF TypeOK, DiskOK
  <1>1. [Next]_vars BY DEF Next, TaskStep
  <1>2. StepFacts BY <1>1, StepFactsHold
  <1>3. RowFollowsTask'
    BY <1>2 DEF StepFacts, TypeOK, RowFollowsTask, ChainInOrder, Active, Headers,
           disk, request
  <1>4. DiskOK'
    <2>1. CASE UNCHANGED disk BY <1>0, <1>2, <2>1, DiskKept
    <2>2. CASE ~ UNCHANGED disk
      <3>1. /\ part' = [part EXCEPT ![file] = IF pc = "headers0" THEN 0 ELSE part[file]]
            /\ right' = [right EXCEPT ![file] = IF pc = "headers0" THEN TRUE ELSE right[file]]
        BY <2>2 DEF Headers, disk
      <3>2. right' \in [Files -> BOOLEAN] BY <3>1 DEF TypeOK
      <3>3. PICK n \in Nat : n <= Sizes[file] /\ part' = [part EXCEPT ![file] = n]
        <4>1. part[file] \in Nat /\ part[file] <= Sizes[file] /\ 0 <= Sizes[file]
          BY <1>2 DEF StepFacts
        <4>2. CASE pc = "headers0" BY <3>1, <4>1, <4>2
        <4>3. CASE pc # "headers0" BY <3>1, <4>1, <4>3
        <4> QED BY <4>2, <4>3
      <3>4. file \in Files BY DEF TypeOK
      <3> QED BY <1>0, <1>2, <3>2, <3>3, <3>4, DiskWritten
    <2> QED BY <2>1, <2>2
  <1>5. NumbersOK'
    BY <1>2, NumberAssumption DEF StepFacts, TypeOK, NumbersOK, ChainInOrder,
           Active, Finished, Headers, disk, request
  <1>6. TypeOK' BY <1>3, <1>4, <1>5 DEF TypeOK, DiskOK, NumbersOK
  <1>7. ChainInOrder'
    BY <1>2, NumberAssumption DEF StepFacts, TypeOK, RowFollowsTask, ChainInOrder,
           Active, Finished, Headers, disk, request
  <1>8. CompletedIsLeft'
    BY <1>2 DEF StepFacts, TypeOK, RowFollowsTask, ChainInOrder, CompletedIsLeft,
           Good, Active, Headers, disk, request
  <1>9. ArchiveInStep'
    <2>1. SUFFICES ASSUME ~ FileSet PROVE pc' = "stream" => bytes' <= part'[1]
      BY <1>2 DEF StepFacts, ArchiveInStep, Headers
    <2>2. SUFFICES ASSUME pc' = "stream" PROVE bytes' <= part'[1] OBVIOUS
    <2>3. file = 1 /\ 1 \in Files /\ part \in [Files -> Nat] BY <1>2, <2>1 DEF StepFacts, TypeOK
    <2>4. bytes' = last /\ part' = [part EXCEPT ![1] = IF pc = "headers0" THEN 0 ELSE part[1]]
      BY <2>1, <2>2, <2>3 DEF Headers
    <2>5. part'[1] = IF pc = "headers0" THEN 0 ELSE part[1] BY <2>3, <2>4
    <2> QED BY <2>1, <2>4, <2>5 DEF Headers, ArchiveInStep
  <1> QED BY <1>6, <1>7, <1>8, <1>9

LEMMA ChunkKeeps == ASSUME IInv, Chunk PROVE IInv'
  <1> USE DEF IInv
  <1>0. DiskOK BY DEF TypeOK, DiskOK
  <1>1. [Next]_vars BY DEF Next, TaskStep
  <1>2. StepFacts BY <1>1, StepFactsHold
  <1>3. RowFollowsTask'
    BY <1>2 DEF StepFacts, TypeOK, RowFollowsTask, ChainInOrder, Active, Chunk,
           Progress, Fault, request
  <1>4. DiskOK'
    <2>1. /\ part[file] + 1 \in Nat /\ part[file] + 1 <= Sizes[file] /\ file \in Files
          /\ part' = [part EXCEPT ![file] = part[file] + 1]
      BY <1>2 DEF StepFacts, Chunk
    <2>2. right' \in [Files -> BOOLEAN] BY DEF TypeOK, Chunk
    <2> QED BY <1>0, <1>2, <2>1, <2>2, DiskWritten
  <1>5. NumbersOK'
    <2>1. Before(file) + part[file] + 1 \in 0 .. Total BY <1>2 DEF StepFacts, TypeOK, Chunk
    <2>2. PICK n \in 0 .. Total : Progress(n) BY <2>1 DEF Chunk
    <2>3. bytes' \in 0 .. Total /\ last' \in 0 .. Total BY <2>2 DEF TypeOK, Progress
    <2>4. pc' \in {pc, "cancelled"} BY <2>2 DEF Progress
    <2>5. faults' \in 0 .. MaxFaults BY NumberAssumption DEF TypeOK, Chunk, Fault
    <2>6. asked' \in BOOLEAN BY DEF TypeOK, Chunk, request
    <2> QED BY <1>2, <2>3, <2>4, <2>5, <2>6 DEF StepFacts, TypeOK, NumbersOK, Chunk
  <1>6. TypeOK' BY <1>3, <1>4, <1>5 DEF TypeOK, DiskOK, NumbersOK
  <1>7. ChainInOrder'
    BY <1>2, NumberAssumption DEF StepFacts, TypeOK, RowFollowsTask, ChainInOrder,
           Active, Finished, Chunk, Progress, Fault, request
  <1>8. CompletedIsLeft'
    BY <1>2 DEF StepFacts, TypeOK, RowFollowsTask, ChainInOrder, CompletedIsLeft,
           Good, Active, Chunk, Progress, Fault, request
  <1>9. ArchiveInStep'
    <2>1. SUFFICES ASSUME ~ FileSet PROVE pc' \in {"stream", "cancelled"} /\ bytes' <= part'[1]
      BY <1>2 DEF StepFacts, ArchiveInStep
    <2>2. file = 1 /\ 1 \in Files /\ part[1] \in Nat /\ Before(1) = 0
      BY <1>2, <2>1 DEF StepFacts, TypeOK
    <2>3. part'[1] = part[1] + 1 BY <2>2 DEF TypeOK, Chunk
    <2>4. pc = "stream" /\ bytes \in Nat /\ bytes <= part[1]
      BY <1>2, <2>1 DEF StepFacts, TypeOK, ArchiveInStep, Chunk
    <2>5. Progress(part[1] + 1)
      <3>1. Before(file) + part[file] + 1 = part[1] + 1 BY <2>2
      <3> QED BY <3>1 DEF Chunk
    <2> QED BY <2>2, <2>3, <2>4, <2>5 DEF Progress
  <1> QED BY <1>6, <1>7, <1>8, <1>9

LEMMA StreamCompleteKeeps == ASSUME IInv, StreamComplete PROVE IInv'
  <1> USE DEF IInv
  <1>1. [Next]_vars BY DEF Next, TaskStep
  <1>2. StepFacts BY <1>1, StepFactsHold
  <1>3. RowFollowsTask'
    BY <1>2 DEF StepFacts, TypeOK, RowFollowsTask, ChainInOrder, Active,
           StreamComplete, NextFile, row, disk, request
  <1>4. DiskOK'
    BY <1>2 DEF StepFacts, TypeOK, DiskOK, StreamComplete, NextFile, row, disk,
           request
  <1>5. NumbersOK'
    BY <1>2, NumberAssumption DEF StepFacts, TypeOK, NumbersOK, ChainInOrder,
           Active, Finished, StreamComplete, NextFile, row, disk, request
  <1>6. TypeOK' BY <1>3, <1>4, <1>5 DEF TypeOK, DiskOK, NumbersOK
  <1>7. ChainInOrder'
    BY <1>2, NumberAssumption DEF StepFacts, TypeOK, RowFollowsTask, ChainInOrder,
           Active, Finished, StreamComplete, NextFile, row, disk, request
  <1>8. CompletedIsLeft'
    BY <1>2 DEF StepFacts, TypeOK, RowFollowsTask, ChainInOrder, CompletedIsLeft,
           Good, Active, StreamComplete, NextFile, row, disk, request
  <1>9. ArchiveInStep'
    <2>1. SUFFICES ASSUME ~ FileSet PROVE pc' = "flush" BY <1>2 DEF StepFacts, ArchiveInStep
    <2>2. file = 1 /\ Len(Sizes) = 1 BY <1>2, <2>1 DEF StepFacts
    <2> QED BY <2>2 DEF StreamComplete, NextFile
  <1> QED BY <1>6, <1>7, <1>8, <1>9

LEMMA DownloadFailsKeeps == ASSUME IInv, DownloadFails PROVE IInv'
  <1> USE DEF IInv
  <1>0. DiskOK BY DEF TypeOK, DiskOK
  <1>1. [Next]_vars BY DEF Next, TaskStep
  <1>2. StepFacts BY <1>1, StepFactsHold
  <1>3. RowFollowsTask'
    BY <1>2 DEF StepFacts, TypeOK, RowFollowsTask, ChainInOrder, Active,
           DownloadFails, Truncate, Empty, AllRight, Fault, AnotherSource, row,
           request
  <1>4. DiskOK'
    BY <1>2, DiskTruncated DEF DownloadFails
  <1>5. NumbersOK'
    BY <1>2, NumberAssumption DEF StepFacts, TypeOK, NumbersOK, ChainInOrder,
           Active, Finished, DownloadFails, Truncate, Empty, AllRight, Fault,
           AnotherSource, row, request
  <1>6. TypeOK' BY <1>3, <1>4, <1>5 DEF TypeOK, DiskOK, NumbersOK
  <1>7. ChainInOrder'
    BY <1>2, NumberAssumption DEF StepFacts, TypeOK, RowFollowsTask, ChainInOrder,
           Active, Finished, DownloadFails, Truncate, Empty, AllRight, Fault,
           AnotherSource, row, request
  <1>8. CompletedIsLeft'
    BY <1>2 DEF StepFacts, TypeOK, RowFollowsTask, ChainInOrder, CompletedIsLeft,
           Good, Active, DownloadFails, Truncate, Empty, AllRight, Fault,
           AnotherSource, row, request
  <1>9. ArchiveInStep'
    BY <1>2 DEF StepFacts, TypeOK, ArchiveInStep, DownloadFails, Truncate, Empty,
           AllRight, Fault, AnotherSource, row, request
  <1> QED BY <1>6, <1>7, <1>8, <1>9

LEMMA NetworkFailsKeeps == ASSUME IInv, NetworkFails PROVE IInv'
  <1> USE DEF IInv
  <1>0. DiskOK BY DEF TypeOK, DiskOK
  <1>1. [Next]_vars BY DEF Next, TaskStep
  <1>2. StepFacts BY <1>1, StepFactsHold
  <1>3. RowFollowsTask'
    BY <1>2 DEF StepFacts, TypeOK, RowFollowsTask, ChainInOrder, Active,
           NetworkFails, Truncate, Empty, AllRight, Fault, AnotherSource, row, disk,
           request
  <1>4. DiskOK'
    <2>1. CASE AnotherSource BY <1>2, <2>1, DiskTruncated DEF NetworkFails
    <2>2. CASE ~ AnotherSource BY <1>0, <1>2, <2>2, DiskKept DEF NetworkFails
    <2> QED BY <2>1, <2>2
  <1>5. NumbersOK'
    BY <1>2, NumberAssumption DEF StepFacts, TypeOK, NumbersOK, ChainInOrder,
           Active, Finished, NetworkFails, Truncate, Empty, AllRight, Fault,
           AnotherSource, row, disk, request
  <1>6. TypeOK' BY <1>3, <1>4, <1>5 DEF TypeOK, DiskOK, NumbersOK
  <1>7. ChainInOrder'
    BY <1>2, NumberAssumption DEF StepFacts, TypeOK, RowFollowsTask, ChainInOrder,
           Active, Finished, NetworkFails, Truncate, Empty, AllRight, Fault,
           AnotherSource, row, disk, request
  <1>8. CompletedIsLeft'
    BY <1>2 DEF StepFacts, TypeOK, RowFollowsTask, ChainInOrder, CompletedIsLeft,
           Good, Active, NetworkFails, Truncate, Empty, AllRight, Fault,
           AnotherSource, row, disk, request
  <1>9. ArchiveInStep'
    BY <1>2 DEF StepFacts, TypeOK, ArchiveInStep, NetworkFails, Truncate, Empty,
           AllRight, Fault, AnotherSource, row, disk, request
  <1> QED BY <1>6, <1>7, <1>8, <1>9

LEMMA SwitchSourceKeeps == ASSUME IInv, SwitchSource PROVE IInv'
  <1> USE DEF IInv
  <1>1. [Next]_vars BY DEF Next, TaskStep
  <1>2. StepFacts BY <1>1, StepFactsHold
  <1>3. RowFollowsTask'
    BY <1>2 DEF StepFacts, TypeOK, RowFollowsTask, ChainInOrder, Active,
           SwitchSource, disk, request
  <1>4. DiskOK'
    BY <1>2 DEF StepFacts, TypeOK, DiskOK, SwitchSource, disk, request
  <1>5. NumbersOK'
    BY <1>2, NumberAssumption DEF StepFacts, TypeOK, NumbersOK, ChainInOrder,
           Active, Finished, SwitchSource, disk, request
  <1>6. TypeOK' BY <1>3, <1>4, <1>5 DEF TypeOK, DiskOK, NumbersOK
  <1>7. ChainInOrder'
    BY <1>2, NumberAssumption DEF StepFacts, TypeOK, RowFollowsTask, ChainInOrder,
           Active, Finished, SwitchSource, disk, request
  <1>8. CompletedIsLeft'
    BY <1>2 DEF StepFacts, TypeOK, RowFollowsTask, ChainInOrder, CompletedIsLeft,
           Good, Active, SwitchSource, disk, request
  <1>9. ArchiveInStep'
    BY <1>2 DEF StepFacts, TypeOK, ArchiveInStep, SwitchSource, disk, request
  <1> QED BY <1>6, <1>7, <1>8, <1>9

LEMMA FlushProgressKeeps == ASSUME IInv, FlushProgress PROVE IInv'
  <1> USE DEF IInv
  <1>1. [Next]_vars BY DEF Next, TaskStep
  <1>2. StepFacts BY <1>1, StepFactsHold
  <1> QED BY <1>2, NumberAssumption DEF StepFacts, TypeOK, RowFollowsTask,
           ChainInOrder, CompletedIsLeft, Good, ArchiveInStep, Active, Finished,
           FlushProgress, disk, request

LEMMA EnterVerifyingKeeps == ASSUME IInv, EnterVerifying PROVE IInv'
  <1> USE DEF IInv
  <1>1. [Next]_vars BY DEF Next, TaskStep
  <1>2. StepFacts BY <1>1, StepFactsHold
  <1> QED BY <1>2, NumberAssumption DEF StepFacts, TypeOK, RowFollowsTask,
           ChainInOrder, CompletedIsLeft, Good, ArchiveInStep, Active, Finished,
           EnterVerifying, disk, request

LEMMA VerifyKeeps == ASSUME IInv, Verify PROVE IInv'
  <1> USE DEF IInv
  <1>0. DiskOK BY DEF TypeOK, DiskOK
  <1>1. [Next]_vars BY DEF Next, TaskStep
  <1>2. StepFacts BY <1>1, StepFactsHold
  <1>3. RowFollowsTask'
    BY <1>2 DEF StepFacts, TypeOK, RowFollowsTask, ChainInOrder, Active, Verify,
           Truncate, Empty, AllRight, disk, request
  <1>4. DiskOK'
    <2>1. CASE Good BY <1>0, <1>2, <2>1, DiskKept DEF Verify
    <2>2. CASE ~ Good BY <1>2, <2>2, DiskTruncated DEF Verify
    <2> QED BY <2>1, <2>2
  <1>5. NumbersOK'
    BY <1>2, NumberAssumption DEF StepFacts, TypeOK, NumbersOK, ChainInOrder,
           Active, Finished, Verify, Truncate, Empty, AllRight, disk, request
  <1>6. TypeOK' BY <1>3, <1>4, <1>5 DEF TypeOK, DiskOK, NumbersOK
  <1>7. ChainInOrder'
    BY <1>2, NumberAssumption DEF StepFacts, TypeOK, RowFollowsTask, ChainInOrder,
           Active, Finished, Verify, Truncate, Empty, AllRight, disk, request
  <1>8. CompletedIsLeft'
    BY <1>2 DEF StepFacts, TypeOK, RowFollowsTask, ChainInOrder, CompletedIsLeft,
           Good, Active, Verify, Truncate, Empty, AllRight, disk, request
  <1>9. ArchiveInStep'
    BY <1>2 DEF StepFacts, TypeOK, ArchiveInStep, Verify, Truncate, Empty, AllRight,
           disk, request
  <1> QED BY <1>6, <1>7, <1>8, <1>9

LEMMA InstallKeeps == ASSUME IInv, Install PROVE IInv'
  <1> USE DEF IInv
  <1>0. DiskOK BY DEF TypeOK, DiskOK
  <1>1. [Next]_vars BY DEF Next, TaskStep
  <1>2. StepFacts BY <1>1, StepFactsHold
  <1>3. RowFollowsTask'
    BY <1>2 DEF StepFacts, TypeOK, RowFollowsTask, ChainInOrder, Active, Install,
           Truncate, Empty, AllRight, disk, request
  <1>4. DiskOK'
    <2>1. CASE Good BY <1>0, <1>2, <2>1, DiskKept DEF Install
    <2>2. CASE ~ Good BY <1>2, <2>2, DiskTruncated DEF Install
    <2> QED BY <2>1, <2>2
  <1>5. NumbersOK'
    BY <1>2, NumberAssumption DEF StepFacts, TypeOK, NumbersOK, ChainInOrder,
           Active, Finished, Install, Truncate, Empty, AllRight, disk, request
  <1>6. TypeOK' BY <1>3, <1>4, <1>5 DEF TypeOK, DiskOK, NumbersOK
  <1>7. ChainInOrder'
    BY <1>2, NumberAssumption DEF StepFacts, TypeOK, RowFollowsTask, ChainInOrder,
           Active, Finished, Install, Truncate, Empty, AllRight, disk, request
  <1>8. CompletedIsLeft'
    BY <1>2 DEF StepFacts, TypeOK, RowFollowsTask, ChainInOrder, CompletedIsLeft,
           Good, Active, Install, Truncate, Empty, AllRight, disk, request
  <1>9. ArchiveInStep'
    BY <1>2 DEF StepFacts, TypeOK, ArchiveInStep, Install, Truncate, Empty,
           AllRight, disk, request
  <1> QED BY <1>6, <1>7, <1>8, <1>9

LEMMA InternalErrorKeeps == ASSUME IInv, InternalError PROVE IInv'
  <1> USE DEF IInv
  <1>1. [Next]_vars BY DEF Next, TaskStep
  <1>2. StepFacts BY <1>1, StepFactsHold
  <1> QED BY <1>2, NumberAssumption DEF StepFacts, TypeOK, RowFollowsTask,
           ChainInOrder, CompletedIsLeft, Good, ArchiveInStep, Active, Finished,
           InternalError, Fault, row, disk, request

LEMMA MarkFailedKeeps == ASSUME IInv, MarkFailed PROVE IInv'
  <1> USE DEF IInv
  <1>1. [Next]_vars BY DEF Next, TaskStep
  <1>2. StepFacts BY <1>1, StepFactsHold
  <1> QED BY <1>2, NumberAssumption DEF StepFacts, TypeOK, RowFollowsTask,
           ChainInOrder, CompletedIsLeft, Good, ArchiveInStep, Active, Finished,
           MarkFailed, disk, request

LEMMA MarkRefusedKeeps == ASSUME IInv, MarkRefused PROVE IInv'
  <1> USE DEF IInv
  <1>1. [Next]_vars BY DEF Next, TaskStep
  <1>2. StepFacts BY <1>1, StepFactsHold
  <1> QED BY <1>2, NumberAssumption DEF StepFacts, TypeOK, RowFollowsTask,
           ChainInOrder, CompletedIsLeft, Good, ArchiveInStep, Active, Finished,
           MarkRefused, Fault, row, disk, request

LEMMA MarkCancelledKeeps == ASSUME IInv, MarkCancelled PROVE IInv'
  <1> USE DEF IInv
  <1>1. [Next]_vars BY DEF Next, TaskStep
  <1>2. StepFacts BY <1>1, StepFactsHold
  <1> QED BY <1>2, NumberAssumption DEF StepFacts, TypeOK, RowFollowsTask,
           ChainInOrder, CompletedIsLeft, Good, ArchiveInStep, Active, Finished,
           MarkCancelled, row, disk, request

LEMMA TaskLogsKeeps == ASSUME IInv, TaskLogs PROVE IInv'
  <1> USE DEF IInv
  <1>1. [Next]_vars BY DEF Next, TaskStep
  <1>2. StepFacts BY <1>1, StepFactsHold
  <1> QED BY <1>2, NumberAssumption DEF StepFacts, TypeOK, RowFollowsTask,
           ChainInOrder, CompletedIsLeft, Good, ArchiveInStep, Active, Finished,
           TaskLogs, row, disk, request

LEMMA CancelKeeps == ASSUME IInv, Cancel PROVE IInv'
  <1> USE DEF IInv
  <1>1. [Next]_vars BY DEF Next, TaskStep
  <1>2. StepFacts BY <1>1, StepFactsHold
  <1> QED BY <1>2, NumberAssumption DEF StepFacts, TypeOK, RowFollowsTask,
           ChainInOrder, CompletedIsLeft, Good, ArchiveInStep, Active, Finished,
           Cancel, Fault, row, disk, task

LEMMA CrashKeeps == ASSUME IInv, Crash PROVE IInv'
  <1> USE DEF IInv
  <1>0. DiskOK BY DEF TypeOK, DiskOK
  <1>1. [Next]_vars BY DEF Next, TaskStep
  <1>2. StepFacts BY <1>1, StepFactsHold
  <1>3. RowFollowsTask'
    BY <1>2 DEF StepFacts, TypeOK, RowFollowsTask, ChainInOrder, Active, Crash,
           Fault, row, request
  <1>4. DiskOK'
    <2>1. PICK n \in 0 .. part[file] : /\ part' = [part EXCEPT ![file] = n]
                                       /\ right' = [right EXCEPT ![file] = @ \/ n = 0]
      BY DEF Crash
    <2>2. right' \in [Files -> BOOLEAN] BY <2>1 DEF TypeOK
    <2>3. file \in Files /\ n \in Nat /\ n <= Sizes[file] BY <1>2, <2>1 DEF StepFacts
    <2> QED BY <1>0, <1>2, <2>1, <2>2, <2>3, DiskWritten
  <1>5. NumbersOK'
    BY <1>2, NumberAssumption DEF StepFacts, TypeOK, NumbersOK, ChainInOrder,
           Active, Finished, Crash, Fault, row, request
  <1>6. TypeOK' BY <1>3, <1>4, <1>5 DEF TypeOK, DiskOK, NumbersOK
  <1>7. ChainInOrder'
    BY <1>2, NumberAssumption DEF StepFacts, TypeOK, RowFollowsTask, ChainInOrder,
           Active, Finished, Crash, Fault, row, request
  <1>8. CompletedIsLeft'
    BY <1>2 DEF StepFacts, TypeOK, RowFollowsTask, ChainInOrder, CompletedIsLeft,
           Good, Active, Crash, Fault, row, request
  <1>9. ArchiveInStep'
    BY <1>2 DEF StepFacts, TypeOK, ArchiveInStep, Crash, Fault, row, request
  <1> QED BY <1>6, <1>7, <1>8, <1>9

LEMMA DiskDamageKeeps == ASSUME IInv, DiskDamage PROVE IInv'
  <1> USE DEF IInv
  <1>0. DiskOK BY DEF TypeOK, DiskOK
  <1>1. [Next]_vars BY DEF Next, TaskStep
  <1>2. StepFacts BY <1>1, StepFactsHold
  <1>3. RowFollowsTask'
    BY <1>2 DEF StepFacts, TypeOK, RowFollowsTask, ChainInOrder, Active, DiskDamage,
           Fault, row, task, request
  <1>4. DiskOK'
    <2>1. PICK i \in Files :
            \/ part' = [part EXCEPT ![i] = 0] /\ right' = [right EXCEPT ![i] = TRUE]
            \/ right' = [right EXCEPT ![i] = FALSE] /\ UNCHANGED part
      BY DEF DiskDamage
    <2>2. right' \in [Files -> BOOLEAN] BY <2>1 DEF TypeOK
    <2>3. CASE part' = [part EXCEPT ![i] = 0]
      <3>1. 0 <= Sizes[i] BY <1>2 DEF StepFacts
      <3> QED BY <1>0, <1>2, <2>2, <2>3, <3>1, DiskWritten
    <2>4. CASE UNCHANGED part BY <1>0, <1>2, <2>2, <2>4 DEF DiskOK, StepFacts
    <2> QED BY <2>1, <2>3, <2>4
  <1>5. NumbersOK'
    BY <1>2, NumberAssumption DEF StepFacts, TypeOK, NumbersOK, ChainInOrder,
           Active, Finished, DiskDamage, Fault, row, task, request
  <1>6. TypeOK' BY <1>3, <1>4, <1>5 DEF TypeOK, DiskOK, NumbersOK
  <1>7. ChainInOrder'
    BY <1>2, NumberAssumption DEF StepFacts, TypeOK, RowFollowsTask, ChainInOrder,
           Active, Finished, DiskDamage, Fault, row, task, request
  <1>8. CompletedIsLeft'
    BY <1>2 DEF StepFacts, TypeOK, RowFollowsTask, ChainInOrder, CompletedIsLeft,
           Good, Active, DiskDamage, Fault, row, task, request
  <1>9. ArchiveInStep'
    BY <1>2 DEF StepFacts, TypeOK, ArchiveInStep, DiskDamage, Fault, row, task,
           request
  <1> QED BY <1>6, <1>7, <1>8, <1>9

--------------------------------------------------------------------------------
(* The theorems.                                                           *)

(* The invariant holds before the first install.                           *)
LEMMA InitOK == ASSUME Init PROVE IInv
  <1>1. /\ Files = 1 .. Len(Sizes) /\ Len(Sizes) \in Nat \ {0}
        /\ \A i \in Files : Sizes[i] \in Nat
    BY ManifestAssumption DEF Init, Sizes, Files
  <1>2. DiskOK BY <1>1 DEF Init, DiskOK, Empty, AllRight
  <1>3. Total \in Nat BY <1>2, Lengths DEF Init, DiskOK
  <1>4. 1 \in Files /\ 1 \in 1 .. Sources BY <1>1, NumberAssumption
  <1>5. TypeOK
    <2>1. asked \in BOOLEAN BY DEF Init
    <2>2. manifest \in Manifests /\ bytes \in 0 .. Total /\ last \in 0 .. Total
      BY <1>3 DEF Init
    <2>3. faults \in 0 .. MaxFaults BY NumberAssumption DEF Init
    <2> QED BY <1>2, <1>4, <2>1, <2>2, <2>3 DEF Init, TypeOK, RowFollowsTask, DiskOK
  <1>6. ChainInOrder /\ CompletedIsLeft /\ ArchiveInStep
    BY DEF Init, ChainInOrder, CompletedIsLeft, ArchiveInStep
  <1> QED BY <1>5, <1>6 DEF IInv

(* The invariant is inductive: one step per action of Next.                *)
THEOREM InductiveInvariant == Spec => []IInv
  <1>1. Init => IInv BY InitOK
  <1>2. IInv /\ [Next]_vars => IInv'
    <2> SUFFICES ASSUME IInv, [Next]_vars PROVE IInv' OBVIOUS
    <2>1. CASE UNCHANGED vars
      BY <2>1 DEF vars, row, disk, task, request, IInv, TypeOK, RowFollowsTask, ChainInOrder,
                  CompletedIsLeft, ArchiveInStep, Good, AllRight, Files, Sizes, FileSet, Total
    <2>2. CASE Begin BY <2>2, BeginKeeps
    <2>3. CASE TaskStep
      BY <2>3, DispatchKeeps, CompareKeeps, RestartKeeps, AlreadyCompleteKeeps, Answer206Keeps,
         Answer200Keeps, HeadersKeeps, ChunkKeeps, StreamCompleteKeeps, DownloadFailsKeeps,
         NetworkFailsKeeps, SwitchSourceKeeps, FlushProgressKeeps, EnterVerifyingKeeps,
         VerifyKeeps, InstallKeeps, InternalErrorKeeps, MarkFailedKeeps, MarkRefusedKeeps,
         MarkCancelledKeeps, TaskLogsKeeps DEF TaskStep
    <2>4. CASE Cancel BY <2>4, CancelKeeps
    <2>5. CASE Crash BY <2>5, CrashKeeps
    <2>6. CASE DiskDamage BY <2>6, DiskDamageKeeps
    <2> QED BY <2>1, <2>2, <2>3, <2>4, <2>5, <2>6 DEF Next
  <1> QED BY <1>1, <1>2, PTL DEF Spec

(* The row, the partial files and the task keep their types and move       *)
(* together: no status guard of the repository is ever hit and no progress *)
(* write passes the manifest's size.                                       *)
THEOREM DownloadTypeCorrect == Spec => []TypeOK
  <1>1. IInv => TypeOK BY DEF IInv
  <1> QED BY <1>1, InductiveInvariant, PTL

(* While an archive streams, the row never claims more than was written:   *)
(* the checkpoint of a cancellation is always accepted.                    *)
THEOREM RecordStaysWritten == Spec => []RecordedIsWritten
  <1>1. IInv => RecordedIsWritten
    <2> SUFFICES ASSUME IInv, ~ FileSet, pc \in {"stream", "cancelled"} PROVE bytes <= Actual
      BY DEF RecordedIsWritten
    <2>1. Actual = part[1] BY Lengths DEF IInv, TypeOK
    <2> QED BY <2>1 DEF IInv, ArchiveInStep
  <1> QED BY <1>1, InductiveInvariant, PTL

(* What complete_installation records as installed is what the manifest    *)
(* pins, whatever was resumed, rewritten or damaged since it was verified. *)
THEOREM InstalledIsPinned == Spec => []CompletedIsGood
  <1>1. IInv => CompletedIsGood BY DEF IInv, CompletedIsLeft, CompletedIsGood
  <1> QED BY <1>1, InductiveInvariant, PTL

(* What the docstring of the installer says of every exception is true of  *)
(* an archive: its task never ends with an operation left active by a      *)
(* refused checkpoint.  A file set that is being rewritten is the case in  *)
(* which EveryErrorIsRecorded fails.                                       *)
THEOREM ArchiveErrorsAreRecorded == Spec => [](~ FileSet => EveryErrorIsRecorded)
  <1> DEFINE Recorded == ~ FileSet => pc # "escaped"
  <1>1. Init => Recorded BY DEF Init
  <1>2. IInv /\ Recorded /\ [Next]_vars => Recorded'
    <2> SUFFICES ASSUME IInv, Recorded, [Next]_vars, ~ FileSet PROVE pc' # "escaped"
      BY StepFactsHold DEF IInv, StepFacts
    <2>1. StepFacts BY StepFactsHold DEF IInv
    <2>2. CASE MarkCancelled
      <3>1. bytes <= Actual BY <2>1, <2>2 DEF IInv, ArchiveInStep, StepFacts, MarkCancelled
      <3>2. ~ (Actual < bytes) BY <2>1, <3>1 DEF IInv, TypeOK, StepFacts
      <3> QED BY <2>2, <3>2 DEF MarkCancelled
    <2>3. CASE UNCHANGED vars BY <2>3 DEF vars, task
    <2>4. CASE Begin \/ Cancel \/ Crash \/ DiskDamage
      BY <2>4 DEF Begin, Cancel, Crash, DiskDamage, task
    <2>5. CASE Dispatch \/ Compare \/ Restart \/ AlreadyComplete \/ Headers \/ SwitchSource
      BY <2>5 DEF Dispatch, Compare, Restart, AlreadyComplete, NextFile, Headers, SwitchSource,
                  IInv, TypeOK, Active, Finished
    <2>6. CASE Answer206 \/ Answer200 BY <2>6 DEF Answer206, Answer200
    <2>7. CASE Chunk \/ StreamComplete \/ DownloadFails \/ NetworkFails
      BY <2>7 DEF Chunk, Progress, StreamComplete, NextFile, DownloadFails, NetworkFails
    <2>8. CASE FlushProgress \/ EnterVerifying \/ Verify \/ Install
      BY <2>8 DEF FlushProgress, EnterVerifying, Verify, Install
    <2>9. CASE InternalError \/ MarkFailed \/ MarkRefused \/ TaskLogs
      BY <2>9 DEF InternalError, MarkFailed, MarkRefused, TaskLogs
    <2> QED BY <2>2, <2>3, <2>4, <2>5, <2>6, <2>7, <2>8, <2>9 DEF Next, TaskStep
  <1>3. Recorded => (~ FileSet => EveryErrorIsRecorded) BY DEF EveryErrorIsRecorded
  <1> QED BY <1>1, <1>2, <1>3, InductiveInvariant, PTL DEF Spec
================================================================================
