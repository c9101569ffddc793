----------------------------- MODULE PatchApply -----------------------------
(***************************************************************************)
(* Applying and undoing one reviewed patch (applyPatchAtomically and       *)
(* undoPatch of packages/core/src/patch/apply.ts).  Apply checks every     *)
(* change, backs up what it will replace, checks each change again and     *)
(* makes it, verifies the result and records it; when anything fails it    *)
(* restores what it touched.  Undo captures the applied files, restores    *)
(* the backups and records it; when anything fails it puts the captured    *)
(* files back.  The user may edit the source tree at any moment, any file  *)
(* operation may fail, and the process may die between any two of them:    *)
(* nothing resumes or cleans up an operation that died.                    *)
(*                                                                         *)
(* A file is its content: what the review saw ("before"), what it proposes *)
(* ("after"), or what the user wrote since ("user").  The proposed files   *)
(* are a private copy (trusted-apply.ts), which no one edits.              *)
(***************************************************************************)
EXTENDS Integers, Sequences, FiniteSets

CONSTANTS
  Paths,        \* files of the source tree
  Patches,      \* the sequences of changes a review may select
  MaxEdits,     \* bound: edits by the user
  MaxFaults,    \* bound: file operations that fail
  MaxCrashes,   \* bound: deaths of the process
  MaxCalls      \* bound: calls of apply and undo

Changes ==
  [kind : {"added", "modified", "deleted"}, path : Paths, from : Paths]
  \cup [kind : {"renamed"}, path : Paths, from : Paths]

ASSUME PatchAssumption ==
  /\ Patches \subseteq Seq(Changes)
  \* An empty selection is refused before it comes here (trusted-apply.ts:49).
  /\ \A p \in Patches : p # <<>>
  \* originRelpath: only a rename has an origin of its own.
  /\ \A p \in Patches : \A i \in 1 .. Len(p) : p[i].kind # "renamed" => p[i].from = p[i].path
  \* Two changes never claim the same destination (the alias check).
  /\ \A p \in Patches : \A i, j \in 1 .. Len(p) : p[i].path = p[j].path => i = j
  /\ MaxEdits \in Nat /\ MaxFaults \in Nat /\ MaxCrashes \in Nat /\ MaxCalls \in Nat

VARIABLES
  source,     \* path -> content in the user's tree
  backup,     \* path -> content in the patch's private backup
  copies,     \* path -> content in the recovery directory of the last undo
  patchDir,   \* the private directory of the patch exists
  record,     \* record.json
  patch,      \* the changes of the request, those of the record afterwards
  at,         \* where the operation is
  k,          \* the change it is at
  j,          \* the write of that change it is at
  reached,    \* apply: the last change a rollback starts from
  restored,   \* the changes the rollback has undone
  held,       \* undo: the record in memory
  told,       \* what the last operation returned
  calls, edits, faults, crashes,   \* bounds
  start,      \* observer: the source tree when the operation began
  edited,     \* observer: the files edited since then
  late        \* observer: the files edited since the operation last checked them

files == <<source, backup, copies, patchDir, record>>
place == <<at, k, j>>
progress == <<reached, restored, held>>
counters == <<calls, edits, faults, crashes>>
observers == <<start, edited, late>>
vars == <<files, patch, place, progress, told, counters, observers>>

Contents == {"missing", "before", "after", "user"}
NoFiles == [p \in Paths |-> "missing"]

\* A record that was never written, or that a failed write left unreadable.
NoRecord == [status |-> "none", transaction |-> "none"]
Records ==
  [status : {"none", "applied", "apply-failed", "undone", "undo-recovery-required"},
   transaction : {"none", "applied", "rolled-back", "rollback-failed", "undone",
                  "undo-rolled-back", "undo-rollback-failed"}]

\* What a call returned; "asked": whether it or one before it asked for recovery.
Nothing == [status |-> "none", recovery |-> FALSE, asked |-> FALSE]
Answers == [status : {"none", "applied", "failed", "undone", "undo-rolled-back",
                      "undo-rollback-failed", "conflict", "died"},
            recovery : BOOLEAN, asked : BOOLEAN]

Places == {"idle", "preflight", "backup", "validate", "mutate", "verify", "rollback",
           "inspect", "capture", "undo", "clearing", "reverse"}

N == Len(patch)
Now == patch[k]

TypeOK ==
  /\ source \in [Paths -> Contents]
  /\ backup \in [Paths -> Contents]
  /\ copies \in [Paths -> Contents]
  /\ patchDir \in BOOLEAN
  /\ record \in Records
  /\ patch \in Patches
  /\ at \in Places
  /\ k \in 0 .. N + 1
  /\ j \in 1 .. 3
  /\ reached \in 0 .. N
  /\ restored \subseteq 1 .. N
  /\ held \in Records
  /\ told \in Answers
  /\ calls \in Nat /\ edits \in Nat /\ faults \in Nat /\ crashes \in Nat
  /\ start \in [Paths -> Contents]
  /\ edited \subseteq Paths
  /\ late \subseteq Paths

\* The tree the review saw.
Origins(p) == {p[i].from : i \in {n \in 1 .. Len(p) : p[n].kind # "added"}}
Before(p) == [f \in Paths |-> IF f \in Origins(p) THEN "before" ELSE "missing"]

Init ==
  /\ patch \in Patches
  /\ source = Before(patch)
  /\ backup = NoFiles /\ copies = NoFiles
  /\ patchDir = FALSE
  /\ record = NoRecord
  /\ at = "idle" /\ k = 1 /\ j = 1
  /\ reached = 0 /\ restored = {} /\ held = NoRecord
  /\ told = Nothing
  /\ calls = 0 /\ edits = 0 /\ faults = 0 /\ crashes = 0
  /\ start = source /\ edited = {} /\ late = {}

-----------------------------------------------------------------------------
(* Changes as writes.                                                      *)

Put(p, c) == [op |-> "put", path |-> p, content |-> c]
Unlink(p) == [op |-> "unlink", path |-> p, content |-> "missing"]
Remove(p) == [op |-> "remove", path |-> p, content |-> "missing"]

\* mutate: a rename writes the destination and then unlinks the origin.
Mutation(c) ==
  IF c.kind = "deleted" THEN <<Unlink(c.path)>>
  ELSE IF c.kind = "renamed" THEN <<Put(c.path, "after"), Unlink(c.from)>>
  ELSE <<Put(c.path, "after")>>

\* restore: from the backup, a renamed file after its destination is removed.
Restoration(c) ==
  IF c.kind = "added" THEN <<Remove(c.path)>>
  ELSE IF c.kind = "renamed" THEN <<Remove(c.path), Put(c.from, backup[c.from])>>
  ELSE <<Put(c.from, backup[c.from])>>

\* The rollback of an undo, from the recovery copies.
Reversal(c) ==
  IF c.kind = "deleted" THEN <<Remove(c.path)>>
  ELSE IF c.kind = "renamed" THEN <<Remove(c.from), Put(c.path, copies[c.path])>>
  ELSE <<Put(c.path, copies[c.path])>>

Script(c) ==
  IF at = "mutate" THEN Mutation(c) ELSE IF at = "reverse" THEN Reversal(c) ELSE Restoration(c)

\* A copy needs its origin and an unlink its file; a removal always succeeds.
Possible(w) ==
  /\ w.op = "put" => w.content # "missing"
  /\ w.op = "unlink" => source[w.path] # "missing"

\* atomicWriteFrom compares what it finds after its rename with what it wrote.
Landed(w) == w.op = "put" => source[w.path] = w.content

-----------------------------------------------------------------------------
(* Steps of an operation.                                                  *)

Goto(place_, k_) == at' = place_ /\ k' = k_ /\ j' = 1
Return(status, recovery) ==
  /\ Goto("idle", 1)
  /\ reached' = 0 /\ restored' = {} /\ held' = NoRecord
  /\ told' = [status |-> status, recovery |-> recovery, asked |-> told.asked \/ recovery]

\* validateChange: the source is what the review saw.
Valid(c) ==
  IF c.kind = "added" THEN source[c.path] = "missing"
  ELSE /\ source[c.from] = "before"
       /\ c.kind = "renamed" => source[c.path] = "missing"

\* What a verified change has left in the source.
Made(c) ==
  /\ source[c.path] = IF c.kind = "deleted" THEN "missing" ELSE "after"
  /\ c.kind = "renamed" => source[c.from] = "missing"

Touched(c) == {c.path, c.from}

\* The changes that a backup, and those that a recovery copy, is for.
OnlyModified(c) == c.kind = "modified"
HasOrigin(c) == c.kind # "added"
HasResult(c) == c.kind # "deleted"

\* Right before a change is made it is validated once more.
Trusted(c) == TRUE
Rechecked(c) == Valid(c)

\* The directory of a patch identity is created once and never used again.
EvenUsed == TRUE
Unused == ~patchDir

\* What apply restores when making a change fails: up to the change itself, which may
\* have been made in part.
OnlyFinished == k - 1
OneTooMany == k + 1
Attempted == k

\* A call of apply: on a new patch, or again on one already applied or undone.
BeginApply ==
  /\ at = "idle"
  /\ calls < MaxCalls
  /\ calls' = calls + 1
  /\ Goto("preflight", 1)
  /\ start' = source /\ edited' = {} /\ late' = {}
  /\ UNCHANGED <<files, patch, progress, told, edits, faults, crashes>>

\* The preflight looks at every change; nothing is written yet.
Preflight ==
  /\ at = "preflight"
  /\ k <= N
  /\ Valid(Now)
  /\ Goto("preflight", k + 1)
  /\ UNCHANGED <<files, patch, progress, told, counters, observers>>

\* It refuses for a changed source, or for what the policy says of the contents.
Refuse ==
  /\ at = "preflight"
  /\ k <= N
  /\ Return("failed", FALSE)
  /\ UNCHANGED <<files, patch, counters, observers>>

OpenPatch ==
  /\ at = "preflight"
  /\ k = N + 1
  /\ Unused
  /\ patchDir' = TRUE
  /\ Goto("backup", 1)
  /\ UNCHANGED <<source, backup, copies, record, patch, progress, told, counters, observers>>

AlreadyOpened ==
  /\ at = "preflight"
  /\ k = N + 1
  /\ ~Unused
  /\ Return("failed", FALSE)
  /\ UNCHANGED <<files, patch, counters, observers>>

\* backupChange: copy, and compare the copy with what the review saw.
BackUp ==
  /\ at = "backup"
  /\ k <= N
  /\ IF HasOrigin(Now) THEN backup' = [backup EXCEPT ![Now.from] = source[Now.from]]
     ELSE UNCHANGED backup
  /\ IF HasOrigin(Now) => source[Now.from] = "before"
     THEN Goto("backup", k + 1) /\ UNCHANGED reached
     ELSE Goto("rollback", 0) /\ reached' = 0
  /\ UNCHANGED <<source, copies, patchDir, record, patch, restored, held, told, counters,
                 observers>>

BackedUp ==
  /\ at = "backup"
  /\ k = N + 1
  /\ Goto("validate", 1)
  /\ UNCHANGED <<files, patch, progress, told, counters, observers>>

\* Every change is checked again right before it is made.
Validate ==
  /\ at = "validate"
  /\ k <= N
  /\ IF Rechecked(Now)
     THEN /\ Goto("mutate", k)
          /\ late' = late \ Touched(Now)
          /\ UNCHANGED reached
     ELSE /\ Goto("rollback", k - 1)
          /\ reached' = k - 1
          /\ UNCHANGED late
  /\ UNCHANGED <<files, patch, restored, held, told, counters, start, edited>>

\* One write of the change at hand: of an apply, a rollback, an undo or its rollback.
WriteNext ==
  /\ at \in {"mutate", "rollback", "undo", "reverse"}
  /\ k \in 1 .. N
  /\ j <= Len(Script(Now))
  /\ j > 1 => Landed(Script(Now)[j - 1])
  /\ Possible(Script(Now)[j])
  /\ source' = [source EXCEPT ![Script(Now)[j].path] = Script(Now)[j].content]
  /\ j' = j + 1
  /\ UNCHANGED <<backup, copies, patchDir, record, patch, at, k, progress, told, counters,
                 observers>>

\* The change at hand is made, restored or put back, and verified.
Complete == j = Len(Script(Now)) + 1 /\ Landed(Script(Now)[j - 1])

ChangeMade ==
  /\ at = "mutate"
  /\ Complete
  /\ IF k < N THEN Goto("validate", k + 1) ELSE Goto("verify", 1)
  /\ UNCHANGED <<files, patch, progress, told, counters, observers>>

\* The whole tree is verified before success is recorded.
Verify ==
  /\ at = "verify"
  /\ k <= N
  /\ IF Made(Now) THEN Goto("verify", k + 1) /\ UNCHANGED reached
     ELSE Goto("rollback", N) /\ reached' = N
  /\ UNCHANGED <<files, patch, restored, held, told, counters, observers>>

RecordApplied ==
  /\ at = "verify"
  /\ k = N + 1
  /\ record' = [status |-> "applied", transaction |-> "applied"]
  /\ Return("applied", FALSE)
  /\ UNCHANGED <<source, backup, copies, patchDir, patch, counters, observers>>

-----------------------------------------------------------------------------
(* Apply fails: what was reached is restored, last change first.           *)

Restored ==
  /\ at = "rollback"
  /\ k >= 1
  /\ Complete
  /\ restored' = restored \cup {k}
  /\ Goto("rollback", k - 1)
  /\ UNCHANGED <<files, patch, reached, held, told, counters, observers>>

AllRestored == restored = 1 .. reached
RolledBack == [status |-> "apply-failed",
               transaction |-> IF AllRestored THEN "rolled-back" ELSE "rollback-failed"]

\* The failure is recorded; a failure to record it is ignored.
RecordFailure ==
  /\ at = "rollback"
  /\ k = 0
  /\ \/ record' = RolledBack /\ UNCHANGED faults
     \/ faults < MaxFaults /\ faults' = faults + 1 /\ record' \in {record, NoRecord}
  /\ Return("failed", ~AllRestored)
  /\ UNCHANGED <<source, backup, copies, patchDir, patch, calls, edits, crashes, observers>>

-----------------------------------------------------------------------------
(* Undo.                                                                   *)

\* A call of undo on a patch on record as applied; any other is refused at once.
BeginUndo ==
  /\ at = "idle"
  /\ calls < MaxCalls
  /\ record.status = "applied"
  /\ calls' = calls + 1
  /\ held' = record
  /\ Goto("inspect", 1)
  /\ start' = source /\ edited' = {} /\ late' = {}
  /\ UNCHANGED <<files, patch, reached, restored, told, edits, faults, crashes>>

\* Every file must still be what apply left.
Inspect ==
  /\ at = "inspect"
  /\ k <= N
  /\ IF Made(Now)
     THEN Goto("inspect", k + 1) /\ UNCHANGED <<reached, restored, held, told>>
     ELSE Return("conflict", FALSE)
  /\ late' = late \ Touched(Now)
  /\ UNCHANGED <<files, patch, counters, start, edited>>

\* A new recovery directory ...
OpenRecovery ==
  /\ at = "inspect"
  /\ k = N + 1
  /\ copies' = NoFiles
  /\ Goto("capture", 1)
  /\ UNCHANGED <<source, backup, patchDir, record, patch, progress, told, counters, observers>>

\* ... takes a verified copy of every file that undo will replace.
Capture ==
  /\ at = "capture"
  /\ k <= N
  /\ IF HasResult(Now) THEN copies' = [copies EXCEPT ![Now.path] = source[Now.path]]
     ELSE UNCHANGED copies
  /\ IF HasResult(Now) => source[Now.path] = "after"
     THEN Goto("capture", k + 1) /\ UNCHANGED <<reached, restored, held, told>>
     ELSE Return("failed", FALSE)
  /\ late' = IF HasResult(Now) THEN late \ {Now.path} ELSE late
  /\ UNCHANGED <<source, backup, patchDir, record, patch, counters, start, edited>>

Captured ==
  /\ at = "capture"
  /\ k = N + 1
  /\ Goto("undo", N)
  /\ UNCHANGED <<files, patch, progress, told, counters, observers>>

\* The last change is undone first.
ChangeUndone ==
  /\ at = "undo"
  /\ k >= 1
  /\ Complete
  /\ Goto("undo", k - 1)
  /\ UNCHANGED <<files, patch, progress, told, counters, observers>>

\* All is restored: the record says so, in memory and then on disk ...
StillApplied == [status |-> "applied", transaction |-> "undone"]
Undone == [status |-> "undone", transaction |-> "undone"]
RecordUndone ==
  /\ at = "undo"
  /\ k = 0
  /\ held' = Undone
  /\ record' = Undone
  /\ Goto("clearing", 1)
  /\ UNCHANGED <<source, backup, copies, patchDir, patch, reached, restored, told, counters,
                 observers>>

\* ... and the recovery copies go.
ClearCopies ==
  /\ at = "clearing"
  /\ copies' = NoFiles
  /\ Return("undone", FALSE)
  /\ UNCHANGED <<source, backup, patchDir, record, patch, counters, observers>>

-----------------------------------------------------------------------------
(* Undo fails: what it has reached is put back, the last undone first.     *)

PutBack ==
  /\ at = "reverse"
  /\ k <= N
  /\ Complete
  /\ restored' = restored \cup {k}
  /\ Goto("reverse", k + 1)
  /\ UNCHANGED <<files, patch, reached, held, told, counters, observers>>

\* What undo had reached: reached .. N.
AllPutBack == restored = reached .. N
Reversed ==
  IF AllPutBack THEN [held EXCEPT !.transaction = "undo-rolled-back"]
  ELSE [status |-> "undo-recovery-required", transaction |-> "undo-rollback-failed"]

\* A failure to write the record is ignored.  The copies go if all is put back; when
\* they cannot be removed the answer is that of a capture that failed.
RecordReversal ==
  /\ at = "reverse"
  /\ k = N + 1
  /\ \E failed \in SUBSET {"write", "removal"} :
       /\ faults' = faults + Cardinality(failed)
       /\ faults' <= MaxFaults
       /\ record' \in IF "write" \in failed THEN {record, NoRecord} ELSE {Reversed}
       /\ IF AllPutBack
          THEN /\ copies' = NoFiles
               /\ Return(IF "removal" \in failed THEN "failed" ELSE "undo-rolled-back", FALSE)
          ELSE /\ "removal" \notin failed
               /\ Return("undo-rollback-failed", TRUE)
               /\ UNCHANGED copies
  /\ UNCHANGED <<source, backup, patchDir, patch, calls, edits, crashes, observers>>

-----------------------------------------------------------------------------
(* Failures.                                                               *)

\* The change at hand cannot go on: a write did not land as written, or has nothing
\* to copy or to unlink.
Stuck ==
  \/ j > 1 /\ ~Landed(Script(Now)[j - 1])
  \/ j <= Len(Script(Now)) /\ ~Possible(Script(Now)[j])

\* What the operation does when the change at hand fails: mutate and undo include
\* the change in what they restore, the rollbacks skip it and report it.
FailChange ==
  \/ at = "mutate" /\ reached' = Attempted /\ Goto("rollback", Attempted) /\ UNCHANGED restored
  \/ at = "rollback" /\ Goto("rollback", k - 1) /\ UNCHANGED <<reached, restored>>
  \/ at = "undo" /\ reached' = k /\ Goto("reverse", k) /\ UNCHANGED restored
  \/ at = "reverse" /\ Goto("reverse", k + 1) /\ UNCHANGED <<reached, restored>>

ChangeFails ==
  /\ at \in {"mutate", "rollback", "undo", "reverse"}
  /\ k \in 1 .. N
  /\ \/ Stuck /\ UNCHANGED faults
     \/ faults < MaxFaults /\ faults' = faults + 1
  /\ FailChange
  /\ UNCHANGED <<files, patch, held, told, calls, edits, crashes, observers>>

\* Any other file operation of apply fails: also the write of its record, which may
\* leave it unreadable.
ApplyFails ==
  /\ at \in {"backup", "validate", "verify"}
  /\ faults < MaxFaults /\ faults' = faults + 1
  /\ reached' = CASE at = "backup" -> 0 [] at = "validate" -> k - 1 [] at = "verify" -> N
  /\ Goto("rollback", reached')
  /\ UNCHANGED <<files, patch, restored, held, told, calls, edits, crashes, observers>>

\* A file operation fails before undo has changed anything.
CaptureFails ==
  /\ at \in {"inspect", "capture"}
  /\ faults < MaxFaults /\ faults' = faults + 1
  /\ Return("failed", FALSE)
  /\ UNCHANGED <<files, patch, calls, edits, crashes, observers>>

\* Undo is complete but cannot be recorded, or its copies not all removed.
SettleFails ==
  /\ faults < MaxFaults /\ faults' = faults + 1
  /\ held' = Undone
  /\ \/ /\ at = "undo" /\ k = 0
        /\ record' \in {record, NoRecord}
        /\ UNCHANGED copies
     \/ /\ at = "clearing"
        /\ \E gone \in SUBSET Paths :
             copies' = [p \in Paths |-> IF p \in gone THEN "missing" ELSE copies[p]]
        /\ UNCHANGED record
  /\ reached' = 1
  /\ Goto("reverse", 1)
  /\ UNCHANGED <<source, backup, patchDir, patch, restored, told, calls, edits, crashes,
                 observers>>

\* The process dies: the files stay as they are, a record being written may be lost.
Die ==
  /\ at # "idle"
  /\ crashes < MaxCrashes /\ crashes' = crashes + 1
  /\ Return("died", FALSE)
  /\ \/ UNCHANGED record
     \/ /\ \/ at = "undo" /\ k = 0
           \/ at = "reverse" /\ k = N + 1
        /\ record' = NoRecord
  /\ UNCHANGED <<source, backup, copies, patchDir, patch, calls, edits, faults, observers>>

\* The user saves or deletes a file.
Edit(p) ==
  /\ edits < MaxEdits /\ edits' = edits + 1
  /\ \E c \in {"user", "missing"} \ {source[p]} : source' = [source EXCEPT ![p] = c]
  /\ edited' = edited \cup {p} /\ late' = late \cup {p}
  /\ UNCHANGED <<backup, copies, patchDir, record, patch, place, progress, told, calls,
                 faults, crashes, start>>

-----------------------------------------------------------------------------
ApplyStep ==
  \/ Preflight \/ Refuse \/ OpenPatch \/ AlreadyOpened \/ BackUp \/ BackedUp \/ Validate
  \/ ChangeMade \/ Verify \/ RecordApplied \/ Restored \/ RecordFailure

UndoStep ==
  \/ Inspect \/ OpenRecovery \/ Capture \/ Captured \/ ChangeUndone \/ RecordUndone
  \/ ClearCopies \/ PutBack \/ RecordReversal

Step == ApplyStep \/ UndoStep \/ WriteNext \/ ChangeFails
Fault == ApplyFails \/ CaptureFails \/ SettleFails

Next ==
  \/ BeginApply \/ BeginUndo \/ Step \/ Fault \/ Die
  \/ \E p \in Paths : Edit(p)

Spec == Init /\ [][Next]_vars

-----------------------------------------------------------------------------
(* Properties.                                                             *)

\* What the patch's files are when it is applied, and when it is not.
IsApplied == \A i \in 1 .. N : Made(patch[i])
IsUnapplied == \A i \in 1 .. N : Valid(patch[i])

\* "Verified rollback and transactional Undo" (README.md:109-110): a call of apply or
\* undo that did not die, that nobody edited into and that asks for no recovery has
\* done all of what it reports or nothing, whichever operations failed on the way.
CallAtomic ==
  at = "idle" /\ edited = {} /\ ~told.recovery =>
    /\ (told.status = "applied" => IsApplied)
    /\ (told.status = "undone" => IsUnapplied)
    /\ (told.status \in {"failed", "conflict", "undo-rolled-back"} => source = start)

\* "Apply uses private backups": what the review saw of a file is in the tree or in
\* the backup until the user replaces it, through failures, rollbacks, undos and deaths
\* in the middle of any of them.
BackupHolds ==
  edits = 0 => \A f \in Origins(patch) : source[f] = "before" \/ backup[f] = "before"

\* "Retain recovery material when needed" (docs/CHANGELOG.md:78-79): until an undo is on
\* record, what apply left of a file is in the tree or in the recovery directory, also
\* while the user edits the tree and the undo is being put back.
RecoveryHolds ==
  at \in {"undo", "reverse"} /\ record.status # "undone" =>
    \A i \in 1 .. N :
      patch[i].kind = "deleted" \/ source[patch[i].path] = "after"
                               \/ copies[patch[i].path] = "after"

\* The check right before a mutation "closes the preflight-to-write race window"
\* (apply.ts:413), and undo checks again when it captures: neither writes over what the
\* user wrote before that check.
NoBlindOverwrite ==
  [][\A p \in Paths :
       at \in {"mutate", "undo"} /\ source[p] = "user" /\ source'[p] # "user" /\ edits' = edits
         => p \in late]_source

\* A record of a finished operation tells the state of the tree (in a tree nobody
\* edits, while no operation has died or asked for recovery).
RecordTells ==
  at = "idle" /\ edits = 0 /\ crashes = 0 /\ ~told.asked =>
    /\ (record.status = "applied" => IsApplied)
    /\ (record.transaction = "rolled-back" => IsUnapplied)

\* "Transactionally restores the post-apply state when undo fails halfway"
\* (apply.test.ts:301-330, where the record stays applied): no tree that was put back is
\* on record as undone.
UndoneTells ==
  at = "idle" /\ edits = 0 /\ crashes = 0 /\ ~told.asked =>
    (record.status = "undone" => IsUnapplied)

\* "A patch identity is immutable. Never reuse or overwrite its backup/history"
\* (apply.ts:406): once a patch is recorded its backup stays, and no later call makes a
\* failed or undone patch applied.
HistoryKept ==
  [][record.status # "none" =>
       /\ backup' = backup
       /\ (record.status # "applied" => record'.status # "applied")]_<<backup, record>>
=============================================================================
