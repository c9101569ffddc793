-------------------------- MODULE PatchApplyProofs --------------------------
(***************************************************************************)
(* Proofs about applying and undoing a patch, for every patch of any       *)
(* length and any number of calls, edits, failing operations and deaths:   *)
(* its types, that its backup and its recovery copies hold what they must, *)
(* that its history is kept, that no checked edit is written over, that a  *)
(* call does all of what it reports or nothing, and that a record which    *)
(* says applied or rolled back is true of the tree.                        *)
(***************************************************************************)
EXTENDS PatchApply, FiniteSetTheorems, TLAPS

-----------------------------------------------------------------------------
(* Changes and their writes.                                               *)

\* The fields of a change.
LEMMA ChangeType ==
  ASSUME NEW c \in Changes
  PROVE  /\ c.kind \in {"added", "modified", "deleted", "renamed"}
         /\ c.path \in Paths /\ c.from \in Paths
BY DEF Changes

\* A patch is a sequence of one change or more; only a rename has another origin.
LEMMA PatchType ==
  ASSUME patch \in Patches
  PROVE  /\ N \in Nat /\ N >= 1
         /\ \A i \in 1 .. N :
              /\ patch[i] \in Changes
              /\ patch[i].kind # "renamed" => patch[i].from = patch[i].path
  <1>1. patch \in Seq(Changes) /\ patch # <<>>
    BY PatchAssumption
  <1>2. \A i \in 1 .. Len(patch) : patch[i].kind # "renamed" => patch[i].from = patch[i].path
    BY PatchAssumption
  <1> QED BY <1>1, <1>2 DEF N

\* Each write of a change is to one of the two files it touches; making a change never
\* writes what the user wrote, and restoring it writes the backup.
LEMMA ScriptWrites ==
  ASSUME NEW c \in Changes, TypeOK
  PROVE  /\ Len(Script(c)) \in 1 .. 2
         /\ \A n \in 1 .. Len(Script(c)) :
              /\ Script(c)[n].path \in Touched(c)
              /\ Script(c)[n].content \in Contents
              /\ at = "mutate" => Script(c)[n].content # "user"
              /\ at \in {"rollback", "undo"} =>
                   \/ Script(c)[n].content = "missing"
                   \/ HasOrigin(c) /\ Script(c)[n].content = backup[c.from]
  <1> USE ChangeType DEF Touched, Put, Unlink, Remove, TypeOK, Contents
  <1>1. Len(Mutation(c)) \in 1 .. 2 /\ \A n \in 1 .. Len(Mutation(c)) :
          Mutation(c)[n].path \in Touched(c) /\ Mutation(c)[n].content \in {"after", "missing"}
    BY DEF Mutation
  <1>2. Len(Restoration(c)) \in 1 .. 2 /\ \A n \in 1 .. Len(Restoration(c)) :
          /\ Restoration(c)[n].path \in Touched(c)
          /\ \/ Restoration(c)[n].content = "missing"
             \/ HasOrigin(c) /\ Restoration(c)[n].content = backup[c.from]
    BY DEF Restoration, HasOrigin
  <1>3. Len(Reversal(c)) \in 1 .. 2 /\ \A n \in 1 .. Len(Reversal(c)) :
          Reversal(c)[n].path \in Touched(c) /\ Reversal(c)[n].content \in Contents
    BY DEF Reversal
  <1> HIDE DEF Touched, Put, Unlink, Remove
  <1>4. backup[c.from] \in Contents
    OBVIOUS
  <1>5. CASE at = "mutate"
    BY <1>1, <1>5 DEF Script
  <1>6. CASE at = "reverse"
    BY <1>3, <1>6 DEF Script
  <1>7. CASE at \notin {"mutate", "reverse"}
    BY <1>2, <1>4, <1>7 DEF Script
  <1> QED BY <1>5, <1>6, <1>7
-----------------------------------------------------------------------------
(* Types.                                                                  *)

\* TypeOK with what bounds the change at hand.
PInv ==
  /\ TypeOK
  /\ (at \notin {"rollback", "undo"} => k >= 1)
  /\ (at \in {"rollback", "undo"} => k <= N)

LEMMA InitPInv == Init => PInv
  <1> SUFFICES ASSUME Init PROVE PInv
    OBVIOUS
  <1>1. source \in [Paths -> Contents] /\ NoFiles \in [Paths -> Contents]
    BY DEF Init, Before, NoFiles, Contents
  <1>2. patch \in Patches /\ N \in Nat /\ N >= 1
    BY PatchType DEF Init
  <1>4. 1 \in 0 .. N + 1 /\ 0 \in 0 .. N
    BY <1>2
  <1>3. NoRecord \in Records /\ Nothing \in Answers
    BY DEF NoRecord, Records, Nothing, Answers
  <1>5. /\ backup \in [Paths -> Contents] /\ copies \in [Paths -> Contents]
        /\ start \in [Paths -> Contents] /\ patchDir \in BOOLEAN
        /\ edited \subseteq Paths /\ late \subseteq Paths
        /\ calls \in Nat /\ edits \in Nat /\ faults \in Nat /\ crashes \in Nat
    BY <1>1 DEF Init
  <1>6. record \in Records /\ held \in Records /\ told \in Answers
    BY <1>3 DEF Init
  <1>7. /\ at = "idle" /\ at \in Places /\ k = 1 /\ k \in 0 .. N + 1 /\ j \in 1 .. 3
        /\ reached \in 0 .. N /\ restored \subseteq 1 .. N
    BY <1>4 DEF Init, Places
  <1> QED BY <1>1, <1>2, <1>5, <1>6, <1>7 DEF PInv, TypeOK

\* What a call leaves behind when it returns.
LEMMA ReturnTypes ==
  ASSUME told \in Answers, NEW recovery \in BOOLEAN,
         NEW status \in {"applied", "failed", "undone", "undo-rolled-back",
                         "undo-rollback-failed", "conflict", "died"},
         Return(status, recovery)
  PROVE  /\ at' = "idle" /\ k' = 1 /\ j' = 1 /\ reached' = 0 /\ restored' = {}
         /\ held' \in Records /\ told' \in Answers
BY DEF Return, Goto, Answers, Records, NoRecord

\* No step leaves the types.
LEMMA PInvStep == PInv /\ [Next]_vars => PInv'
  <1> SUFFICES ASSUME PInv, [Next]_vars PROVE PInv'
    OBVIOUS
  <1>t. /\ N \in Nat /\ N >= 1
        /\ \A i \in 1 .. N : patch[i] \in Changes /\ patch[i].path \in Paths
                                                  /\ patch[i].from \in Paths
    BY PatchType, ChangeType DEF PInv, TypeOK
  <1> USE <1>t DEF PInv, TypeOK, Goto, Places, Now, files, place, progress, counters,
                  observers, N
  <1>1. CASE BeginApply
    BY <1>1 DEF BeginApply
  <1>2. CASE Preflight
    BY <1>2 DEF Preflight
  <1>3. CASE Refuse
    BY <1>3 DEF Refuse, Return, NoRecord, Records, Answers
  <1>4. CASE OpenPatch
    BY <1>4 DEF OpenPatch
  <1>5. CASE AlreadyOpened
    BY <1>5 DEF AlreadyOpened, Return, NoRecord, Records, Answers
  <1>6. CASE BackUp
    BY <1>6 DEF BackUp
  <1>7. CASE BackedUp
    BY <1>7 DEF BackedUp
  <1>8. CASE Validate
    BY <1>8 DEF Validate
  <1>9. CASE ChangeMade
    BY <1>9 DEF ChangeMade
  <1>10. CASE Verify
    BY <1>10 DEF Verify
  <1>11. CASE RecordApplied
    BY <1>11 DEF RecordApplied, Return, NoRecord, Records, Answers
  <1>12. CASE Restored
    BY <1>12 DEF Restored
  <1>13. CASE RecordFailure
    BY <1>13 DEF RecordFailure, RolledBack, Return, NoRecord, Records, Answers
  <1>14. CASE Inspect
    <2>1. late' \subseteq Paths
      BY <1>14 DEF Inspect
    <2>2. \/ /\ at' = "inspect" /\ k' = k + 1 /\ j' = 1 /\ reached' = reached
             /\ restored' = restored /\ held' = held /\ told' = told
          \/ Return("conflict", FALSE)
      BY <1>14 DEF Inspect
    <2>3. UNCHANGED <<files, patch, counters, start, edited>>
      BY <1>14 DEF Inspect
    <2>4. CASE Return("conflict", FALSE)
      <3>1. /\ at' = "idle" /\ k' = 1 /\ j' = 1 /\ reached' = 0 /\ restored' = {}
            /\ held' \in Records /\ told' \in Answers
        BY <2>4 DEF Return, NoRecord, Records, Answers
      <3> QED BY <2>1, <2>3, <3>1
    <2>5. CASE /\ at' = "inspect" /\ k' = k + 1 /\ j' = 1 /\ reached' = reached
               /\ restored' = restored /\ held' = held /\ told' = told
      <3>1. at' = "inspect" /\ k' \in 1 .. N + 1
        BY <1>14, <2>5 DEF Inspect
      <3> QED BY <2>1, <2>3, <2>5, <3>1
    <2> QED BY <2>2, <2>4, <2>5
  <1>15. CASE OpenRecovery
    BY <1>15 DEF OpenRecovery, NoFiles, Contents
  <1>16. CASE Capture
    <2>1. copies' \in [Paths -> Contents] /\ late' \subseteq Paths
      BY <1>16 DEF Capture, HasResult
    <2>2. \/ /\ at' = "capture" /\ k' = k + 1 /\ j' = 1 /\ reached' = reached
             /\ restored' = restored /\ held' = held /\ told' = told
          \/ Return("failed", FALSE)
      BY <1>16 DEF Capture
    <2>3. UNCHANGED <<source, backup, patchDir, record, patch, counters, start, edited>>
      BY <1>16 DEF Capture
    <2>4. CASE Return("failed", FALSE)
      <3>1. /\ at' = "idle" /\ k' = 1 /\ j' = 1 /\ reached' = 0 /\ restored' = {}
            /\ held' \in Records /\ told' \in Answers
        BY <2>4 DEF Return, NoRecord, Records, Answers
      <3> QED BY <2>1, <2>3, <3>1
    <2>5. CASE /\ at' = "capture" /\ k' = k + 1 /\ j' = 1 /\ reached' = reached
               /\ restored' = restored /\ held' = held /\ told' = told
      <3>1. at' = "capture" /\ k' \in 1 .. N + 1
        BY <1>16, <2>5 DEF Capture
      <3> QED BY <2>1, <2>3, <2>5, <3>1
    <2> QED BY <2>2, <2>4, <2>5
  <1>17. CASE Captured
    BY <1>17 DEF Captured
  <1>18. CASE ChangeUndone
    BY <1>18 DEF ChangeUndone
  <1>19. CASE RecordUndone
    BY <1>19 DEF RecordUndone, Undone, Records
  <1>20. CASE ClearCopies
    BY <1>20 DEF ClearCopies, NoFiles, Contents, Return, NoRecord, Records, Answers
  <1>21. CASE PutBack
    BY <1>21 DEF PutBack
  <1>22. CASE RecordReversal
    <2> PICK failed \in SUBSET {"write", "removal"} :
             /\ faults' = faults + Cardinality(failed)
             /\ record' \in IF "write" \in failed THEN {record, NoRecord} ELSE {Reversed}
             /\ IF AllPutBack
                THEN /\ copies' = NoFiles
                     /\ Return(IF "removal" \in failed THEN "failed" ELSE "undo-rolled-back", FALSE)
                ELSE /\ Return("undo-rollback-failed", TRUE)
                     /\ UNCHANGED copies
      BY <1>22 DEF RecordReversal
    <2>1. Cardinality(failed) \in Nat
      <3>1. IsFiniteSet({} \cup {"write"})
        BY FS_EmptySet, FS_AddElement
      <3>2. IsFiniteSet(({} \cup {"write"}) \cup {"removal"})
        BY <3>1, FS_AddElement
      <3>3. failed \subseteq ({} \cup {"write"}) \cup {"removal"}
        OBVIOUS
      <3> QED BY <3>2, <3>3, FS_Subset, FS_CardinalityType
    <2>2. NoRecord \in Records /\ Reversed \in Records
      BY DEF NoRecord, Reversed, Records
    <2>3. /\ at' = "idle" /\ k' = 1 /\ j' = 1 /\ reached' = 0 /\ restored' = {}
          /\ held' \in Records /\ told' \in Answers
      BY ReturnTypes
    <2>4. copies' \in [Paths -> Contents]
      BY DEF NoFiles, Contents
    <2> QED BY <1>22, <2>1, <2>2, <2>3, <2>4 DEF RecordReversal
  <1>23. CASE BeginUndo
    BY <1>23 DEF BeginUndo
  <1>24. CASE WriteNext
    <2>1. Now \in Changes /\ j \in 1 .. Len(Script(Now)) /\ Len(Script(Now)) \in 1 .. 2
      BY <1>24, ScriptWrites DEF WriteNext
    <2>2. Script(Now)[j].path \in Paths /\ Script(Now)[j].content \in Contents
      BY <2>1, ScriptWrites, ChangeType DEF Touched
    <2> QED BY <1>24, <2>1, <2>2 DEF WriteNext
  <1>25. CASE ChangeFails
    <2>1. faults' \in Nat
      BY <1>25 DEF ChangeFails
    <2>2. /\ at' \in {"rollback", "reverse"} /\ k' \in 0 .. N + 1 /\ j' = 1 /\ reached' \in 0 .. N
          /\ at' = "rollback" => k' <= N
          /\ at' = "reverse" => k' >= 1
          /\ restored' = restored
      BY <1>25 DEF ChangeFails, FailChange, Attempted
    <2> QED BY <1>25, <2>1, <2>2 DEF ChangeFails
  <1>26. CASE ApplyFails
    BY <1>26 DEF ApplyFails
  <1>27. CASE CaptureFails
    BY <1>27 DEF CaptureFails, Return, NoRecord, Records, Answers
  <1>28. CASE SettleFails
    BY <1>28 DEF SettleFails, Undone, NoRecord, Records, Contents
  <1>29. CASE Die
    BY <1>29 DEF Die, Return, NoRecord, Records, Answers
  <1>30. CASE \E p \in Paths : Edit(p)
    BY <1>30 DEF Edit, Contents
  <1>31. CASE UNCHANGED vars
    BY <1>31 DEF vars
  <1> QED
    BY <1>1, <1>2, <1>3, <1>4, <1>5, <1>6, <1>7, <1>8, <1>9, <1>10, <1>11, <1>12, <1>13,
       <1>14, <1>15, <1>16, <1>17, <1>18, <1>19, <1>20, <1>21, <1>22, <1>23, <1>24,
       <1>25, <1>26, <1>27, <1>28, <1>29, <1>30, <1>31 DEF Next, Step, Fault, ApplyStep,
       UndoStep

\* The operation stays within its types, for patches of any length: k, reached and
\* restored never leave the changes there are, whatever fails where.
THEOREM PatchTypeCorrect == Spec => []TypeOK
  <1>1. PInv => TypeOK
    BY DEF PInv
  <1> QED BY <1>1, InitPInv, PInvStep, PTL DEF Spec

-----------------------------------------------------------------------------
(* History.                                                                *)

\* What is on record, by where the operation is: a patch directory is opened before
\* anything is recorded, apply works on a patch without a record, undo on one that is
\* applied, and only an undo that is on record clears its copies.
HInv ==
  /\ (at \notin {"idle", "preflight"} => patchDir)
  /\ (record.status # "none" => patchDir)
  /\ (at \in {"backup", "validate", "mutate", "verify", "rollback"} => record.status = "none")
  /\ (at \in {"inspect", "capture", "undo"} =>
        held.status = "applied" /\ record.status = "applied")
  /\ (at = "clearing" => record.status = "undone")
  /\ (at = "reverse" /\ held.status = "applied" => record.status = "applied")

\* Putting an undo back writes the status it had in memory, or asks for recovery.
LEMMA ReversedStatus ==
  ASSUME held \in Records
  PROVE  Reversed.status = held.status \/ Reversed.status = "undo-recovery-required"
BY DEF Reversed, Records

\* Every step keeps this.
LEMMA HInvStep == PInv /\ HInv /\ [Next]_vars => HInv'
  <1> SUFFICES ASSUME PInv, HInv, [Next]_vars PROVE HInv'
    OBVIOUS
  <1> USE DEF HInv, Goto, files, place, progress, counters, observers
  <1>1. CASE BeginApply
    BY <1>1 DEF BeginApply
  <1>2. CASE Preflight
    BY <1>2 DEF Preflight
  <1>3. CASE Refuse
    BY <1>3 DEF Refuse, Return
  <1>4. CASE OpenPatch
    BY <1>4 DEF OpenPatch, Unused
  <1>5. CASE AlreadyOpened
    BY <1>5 DEF AlreadyOpened, Return
  <1>6. CASE BackUp
    BY <1>6 DEF BackUp
  <1>7. CASE BackedUp
    BY <1>7 DEF BackedUp
  <1>8. CASE Validate
    BY <1>8 DEF Validate
  <1>9. CASE ChangeMade
    BY <1>9 DEF ChangeMade
  <1>10. CASE Verify
    BY <1>10 DEF Verify
  <1>11. CASE RecordApplied
    BY <1>11 DEF RecordApplied, Return
  <1>12. CASE Restored
    BY <1>12 DEF Restored
  <1>13. CASE RecordFailure
    BY <1>13 DEF RecordFailure, Return, NoRecord, RolledBack
  <1>14. CASE BeginUndo
    BY <1>14 DEF BeginUndo
  <1>15. CASE Inspect
    BY <1>15 DEF Inspect, Return
  <1>16. CASE OpenRecovery
    BY <1>16 DEF OpenRecovery
  <1>17. CASE Capture
    BY <1>17 DEF Capture, Return
  <1>18. CASE Captured
    BY <1>18 DEF Captured
  <1>19. CASE ChangeUndone
    BY <1>19 DEF ChangeUndone
  <1>20. CASE RecordUndone
    BY <1>20 DEF RecordUndone, Undone
  <1>21. CASE ClearCopies
    BY <1>21 DEF ClearCopies, Return
  <1>22. CASE PutBack
    BY <1>22 DEF PutBack
  <1>23. CASE RecordReversal
    <2>1. record' \in {record, NoRecord, Reversed} /\ at' = "idle" /\ patchDir' = patchDir
      BY <1>23 DEF RecordReversal, Return
    <2>2. at = "reverse"
      BY <1>23 DEF RecordReversal
    <2>3. at = "reverse" /\ patchDir
      BY <2>2
    <2> QED BY <2>1, <2>3
  <1>24. CASE WriteNext
    BY <1>24 DEF WriteNext
  <1>25. CASE ChangeFails
    BY <1>25 DEF ChangeFails, FailChange
  <1>26. CASE ApplyFails
    BY <1>26 DEF ApplyFails
  <1>27. CASE CaptureFails
    BY <1>27 DEF CaptureFails, Return
  <1>28. CASE SettleFails
    BY <1>28 DEF SettleFails, Undone, NoRecord
  <1>29. CASE Die
    BY <1>29 DEF Die, Return, NoRecord
  <1>30. CASE \E p \in Paths : Edit(p)
    BY <1>30 DEF Edit
  <1>31. CASE UNCHANGED vars
    BY <1>31 DEF vars
  <1> QED
    BY <1>1, <1>2, <1>3, <1>4, <1>5, <1>6, <1>7, <1>8, <1>9, <1>10, <1>11, <1>12, <1>13,
       <1>14, <1>15, <1>16, <1>17, <1>18, <1>19, <1>20, <1>21, <1>22, <1>23, <1>24,
       <1>25, <1>26, <1>27, <1>28, <1>29, <1>30, <1>31 DEF Next, Step, Fault, ApplyStep,
       UndoStep

\* No step changes the backup of a recorded patch, or makes it applied again.
LEMMA HistoryStep ==
  ASSUME PInv, HInv, [Next]_vars, record.status # "none"
  PROVE  backup' = backup /\ (record.status # "applied" => record'.status # "applied")
  <1> USE DEF HInv, files
  <1>1. at \notin {"backup", "verify", "rollback"}
    OBVIOUS
  <1>2. backup' = backup
    BY <1>1 DEF Next, Step, Fault, ApplyStep, UndoStep, vars, BeginApply, Preflight, Refuse,
                OpenPatch, AlreadyOpened, BackUp, BackedUp, Validate, ChangeMade, Verify,
                RecordApplied, Restored, RecordFailure, BeginUndo, Inspect, OpenRecovery,
                Capture, Captured, ChangeUndone, RecordUndone, ClearCopies, PutBack,
                RecordReversal, WriteNext, ChangeFails, ApplyFails, CaptureFails,
                SettleFails, Die, Edit
  <1>3. ASSUME record.status # "applied", ~RecordReversal PROVE record'.status # "applied"
    <2>1. CASE RecordUndone \/ SettleFails \/ Die
      <3>1. record' = Undone \/ record' = NoRecord \/ record' = record
        BY <2>1 DEF RecordUndone, SettleFails, Die
      <3> QED BY <1>3, <3>1 DEF Undone, NoRecord
    <2>2. CASE RecordApplied \/ RecordFailure
      BY <1>1, <2>2 DEF RecordApplied, RecordFailure
    <2>3. CASE ~(RecordUndone \/ SettleFails \/ Die) /\ ~(RecordApplied \/ RecordFailure)
      <3>1. record' = record
        BY <1>1, <1>3, <2>3 DEF Next, Step, Fault, ApplyStep, UndoStep, vars, BeginApply,
             Preflight, Refuse, OpenPatch, AlreadyOpened, BackUp, BackedUp, Validate,
             ChangeMade, Verify, Restored, BeginUndo, Inspect, OpenRecovery, Capture,
             Captured, ChangeUndone, ClearCopies, PutBack, WriteNext, ChangeFails,
             ApplyFails, CaptureFails, Edit
      <3> QED BY <1>3, <3>1
    <2> QED BY <2>1, <2>2, <2>3
  <1>4. ASSUME record.status # "applied", RecordReversal PROVE record'.status # "applied"
    <2>1. record' \in {record, NoRecord, Reversed} /\ at = "reverse"
      BY <1>4 DEF RecordReversal
    <2>2. Reversed.status # "applied"
      BY <1>4, <2>1, ReversedStatus DEF PInv, TypeOK
    <2> QED BY <1>4, <2>1, <2>2 DEF NoRecord
  <1> QED BY <1>2, <1>3, <1>4

\* A recorded patch keeps its backup and is never applied again, for every patch and
\* whatever fails, dies or is edited in between.
THEOREM PatchHistoryKept == Spec => HistoryKept
  <1>1. Init => HInv
    BY DEF Init, HInv, NoRecord
  <1>2. PInv /\ HInv /\ [Next]_vars =>
          [record.status # "none" =>
             /\ backup' = backup
             /\ (record.status # "applied" => record'.status # "applied")]_<<backup, record>>
    BY HistoryStep
  <1> QED BY <1>1, <1>2, InitPInv, PInvStep, HInvStep, PTL DEF Spec, HistoryKept

-----------------------------------------------------------------------------
(* What is backed up, and what undo has copied.                            *)

Unsaved == {i \in 1 .. N : HasOrigin(patch[i]) /\ backup[patch[i].from] # "before"}
Uncopied == {i \in 1 .. N : HasResult(patch[i]) /\ copies[patch[i].path] # "after"}

\* The backup is complete before the first mutation, and stays so.
SInv ==
  /\ (at = "backup" => \A i \in Unsaved : i >= k)
  /\ (at \in {"validate", "mutate", "verify", "inspect", "capture", "undo", "clearing", "reverse"}
        => Unsaved = {})
  /\ (at = "rollback" /\ k >= 1 => Unsaved = {})
  /\ (record.status = "applied" => Unsaved = {})

\* The recovery copies are complete before undo restores the first file, until the
\* undo is on record.
CInv ==
  /\ (at = "capture" => \A i \in Uncopied : i >= k)
  /\ (at = "undo" => Uncopied = {})
  /\ (at = "reverse" /\ record.status # "undone" => Uncopied = {})

\* Every step keeps the backup complete.
LEMMA SInvStep == PInv /\ HInv /\ SInv /\ [Next]_vars => SInv'
  <1> SUFFICES ASSUME PInv, HInv, SInv, [Next]_vars PROVE SInv'
    OBVIOUS
  <1>t. /\ N \in Nat /\ N >= 1
        /\ \A i \in 1 .. N : patch[i] \in Changes /\ patch[i].path \in Paths
                                                  /\ patch[i].from \in Paths
    BY PatchType, ChangeType DEF PInv, TypeOK
  <1>k. k \in Int /\ (at \notin {"rollback", "undo"} => k >= 1)
    BY <1>t DEF PInv, TypeOK
  <1>a. backup' = backup /\ patch' = patch => Unsaved' = Unsaved
    BY DEF Unsaved, N
  <1> USE <1>t, <1>k, <1>a DEF SInv, HInv, Goto, files, place, progress, counters, observers, N
  <1>1. CASE BeginApply
    BY <1>1 DEF BeginApply
  <1>2. CASE Preflight
    BY <1>2 DEF Preflight
  <1>3. CASE Refuse
    BY <1>3 DEF Refuse, Return
  <1>4. CASE OpenPatch
    BY <1>4 DEF OpenPatch, Unsaved
  <1>5. CASE AlreadyOpened
    BY <1>5 DEF AlreadyOpened, Return
  <1>6. CASE BackUp
    <2>1. at = "backup" /\ k <= N /\ patch' = patch /\ record' = record /\ record.status = "none"
      BY <1>6 DEF BackUp
    <2>2. CASE HasOrigin(Now) => source[Now.from] = "before"
      <3>1. at' = "backup" /\ k' = k + 1
        BY <1>6, <2>2 DEF BackUp
      <3>2. ASSUME NEW i \in Unsaved' PROVE i \in Unsaved /\ i # k
        <4>1. CASE HasOrigin(Now)
          <5>1. backup' = [backup EXCEPT ![Now.from] = "before"]
            BY <1>6, <2>2, <4>1 DEF BackUp
          <5> QED BY <2>1, <3>2, <5>1 DEF Unsaved, Now, PInv, TypeOK
        <4>2. CASE ~HasOrigin(Now)
          <5>1. backup' = backup
            BY <1>6, <4>2 DEF BackUp
          <5> QED BY <2>1, <3>2, <4>2, <5>1 DEF Unsaved, Now
        <4> QED BY <4>1, <4>2
      <3>3. \A i \in Unsaved' : i \in Int
        BY DEF Unsaved
      <3> QED BY <2>1, <3>1, <3>2, <3>3
    <2>3. CASE ~(HasOrigin(Now) => source[Now.from] = "before")
      <3>1. at' = "rollback" /\ k' = 0
        BY <1>6, <2>3 DEF BackUp
      <3> QED BY <2>1, <3>1
    <2> QED BY <2>2, <2>3
  <1>7. CASE BackedUp
    BY <1>7 DEF BackedUp, Unsaved
  <1>8. CASE Validate
    BY <1>8 DEF Validate
  <1>9. CASE ChangeMade
    BY <1>9 DEF ChangeMade
  <1>10. CASE Verify
    BY <1>10 DEF Verify
  <1>11. CASE RecordApplied
    BY <1>11 DEF RecordApplied, Return
  <1>12. CASE Restored
    BY <1>12 DEF Restored
  <1>13. CASE RecordFailure
    BY <1>13 DEF RecordFailure, Return, NoRecord, RolledBack
  <1>14. CASE BeginUndo
    BY <1>14 DEF BeginUndo
  <1>15. CASE Inspect
    <2>1. patch' = patch /\ backup' = backup /\ record' = record /\ at = "inspect"
      BY <1>15 DEF Inspect
    <2>2. at' \in {"inspect", "idle"}
      BY <1>15 DEF Inspect, Return, Made
    <2> QED BY <2>1, <2>2
  <1>16. CASE OpenRecovery
    BY <1>16 DEF OpenRecovery
  <1>17. CASE Capture
    <2>1. patch' = patch /\ backup' = backup /\ record' = record /\ at = "capture"
      BY <1>17 DEF Capture
    <2>2. at' \in {"capture", "idle"}
      BY <1>17 DEF Capture, Return, HasResult
    <2> QED BY <2>1, <2>2
  <1>18. CASE Captured
    BY <1>18 DEF Captured
  <1>19. CASE ChangeUndone
    BY <1>19 DEF ChangeUndone
  <1>20. CASE RecordUndone
    BY <1>20 DEF RecordUndone, Undone
  <1>21. CASE ClearCopies
    BY <1>21 DEF ClearCopies, Return
  <1>22. CASE PutBack
    BY <1>22 DEF PutBack
  <1>23. CASE RecordReversal
    <2>1. at = "reverse" /\ at' = "idle" /\ UNCHANGED <<backup, patch>>
      BY <1>23 DEF RecordReversal, Return
    <2> QED BY <2>1
  <1>24. CASE WriteNext
    BY <1>24 DEF WriteNext
  <1>25. CASE ChangeFails
    BY <1>25 DEF ChangeFails, FailChange, Attempted
  <1>26. CASE ApplyFails
    BY <1>26 DEF ApplyFails
  <1>27. CASE CaptureFails
    BY <1>27 DEF CaptureFails, Return
  <1>28. CASE SettleFails
    BY <1>28 DEF SettleFails, Undone, NoRecord
  <1>29. CASE Die
    BY <1>29 DEF Die, Return, NoRecord
  <1>30. CASE \E p \in Paths : Edit(p)
    BY <1>30 DEF Edit
  <1>31. CASE UNCHANGED vars
    BY <1>31 DEF vars
  <1> QED
    BY <1>1, <1>2, <1>3, <1>4, <1>5, <1>6, <1>7, <1>8, <1>9, <1>10, <1>11, <1>12, <1>13,
       <1>14, <1>15, <1>16, <1>17, <1>18, <1>19, <1>20, <1>21, <1>22, <1>23, <1>24,
       <1>25, <1>26, <1>27, <1>28, <1>29, <1>30, <1>31 DEF Next, Step, Fault, ApplyStep,
       UndoStep

\* Every step keeps the copies complete.
LEMMA CInvStep == PInv /\ HInv /\ CInv /\ [Next]_vars => CInv'
  <1> SUFFICES ASSUME PInv, HInv, CInv, [Next]_vars PROVE CInv'
    OBVIOUS
  <1>t. /\ N \in Nat /\ N >= 1
        /\ \A i \in 1 .. N : patch[i] \in Changes /\ patch[i].path \in Paths
                                                  /\ patch[i].from \in Paths
    BY PatchType, ChangeType DEF PInv, TypeOK
  <1>k. k \in Int /\ (at \notin {"rollback", "undo"} => k >= 1)
    BY <1>t DEF PInv, TypeOK
  <1>a. copies' = copies /\ patch' = patch => Uncopied' = Uncopied
    BY DEF Uncopied, N
  <1> USE <1>t, <1>k, <1>a DEF CInv, HInv, Goto, files, place, progress, counters, observers, N
  <1>1. CASE BeginApply
    BY <1>1 DEF BeginApply
  <1>2. CASE Preflight
    BY <1>2 DEF Preflight
  <1>3. CASE Refuse
    BY <1>3 DEF Refuse, Return
  <1>4. CASE OpenPatch
    BY <1>4 DEF OpenPatch
  <1>5. CASE AlreadyOpened
    BY <1>5 DEF AlreadyOpened, Return
  <1>6. CASE BackUp
    BY <1>6 DEF BackUp
  <1>7. CASE BackedUp
    BY <1>7 DEF BackedUp
  <1>8. CASE Validate
    BY <1>8 DEF Validate
  <1>9. CASE ChangeMade
    BY <1>9 DEF ChangeMade
  <1>10. CASE Verify
    BY <1>10 DEF Verify
  <1>11. CASE RecordApplied
    BY <1>11 DEF RecordApplied, Return
  <1>12. CASE Restored
    BY <1>12 DEF Restored
  <1>13. CASE RecordFailure
    BY <1>13 DEF RecordFailure, Return, NoRecord, RolledBack
  <1>14. CASE BeginUndo
    BY <1>14 DEF BeginUndo
  <1>15. CASE Inspect
    BY <1>15 DEF Inspect, Return
  <1>16. CASE OpenRecovery
    BY <1>16 DEF OpenRecovery, Uncopied
  <1>17. CASE Capture
    <2>1. at = "capture" /\ k <= N /\ patch' = patch
      BY <1>17 DEF Capture
    <2>2. CASE HasResult(Now) => source[Now.path] = "after"
      <3>1. at' = "capture" /\ k' = k + 1
        BY <1>17, <2>2 DEF Capture
      <3>2. ASSUME NEW i \in Uncopied' PROVE i \in Uncopied /\ i # k
        <4>1. CASE HasResult(Now)
          <5>1. copies' = [copies EXCEPT ![Now.path] = "after"]
            BY <1>17, <2>2, <4>1 DEF Capture
          <5> QED BY <2>1, <3>2, <5>1 DEF Uncopied, Now, PInv, TypeOK
        <4>2. CASE ~HasResult(Now)
          <5>1. copies' = copies
            BY <1>17, <4>2 DEF Capture
          <5> QED BY <2>1, <3>2, <4>2, <5>1 DEF Uncopied, Now
        <4> QED BY <4>1, <4>2
      <3>3. \A i \in Uncopied' : i \in Int
        BY DEF Uncopied
      <3> QED BY <2>1, <3>1, <3>2, <3>3
    <2>3. CASE ~(HasResult(Now) => source[Now.path] = "after")
      <3>1. at' = "idle"
        BY <1>17, <2>3 DEF Capture, Return
      <3> QED BY <3>1
    <2> QED BY <2>2, <2>3
  <1>18. CASE Captured
    BY <1>18 DEF Captured, Uncopied
  <1>19. CASE ChangeUndone
    BY <1>19 DEF ChangeUndone
  <1>20. CASE RecordUndone
    BY <1>20 DEF RecordUndone, Undone
  <1>21. CASE ClearCopies
    BY <1>21 DEF ClearCopies, Return
  <1>22. CASE PutBack
    BY <1>22 DEF PutBack
  <1>23. CASE RecordReversal
    <2>1. at' = "idle"
      BY <1>23 DEF RecordReversal, Return
    <2> QED BY <2>1
  <1>24. CASE WriteNext
    BY <1>24 DEF WriteNext
  <1>25. CASE ChangeFails
    BY <1>25 DEF ChangeFails, FailChange, Attempted
  <1>26. CASE ApplyFails
    BY <1>26 DEF ApplyFails
  <1>27. CASE CaptureFails
    BY <1>27 DEF CaptureFails, Return
  <1>28. CASE SettleFails
    BY <1>28 DEF SettleFails, Undone, NoRecord
  <1>29. CASE Die
    BY <1>29 DEF Die, Return, NoRecord
  <1>30. CASE \E p \in Paths : Edit(p)
    BY <1>30 DEF Edit
  <1>31. CASE UNCHANGED vars
    BY <1>31 DEF vars
  <1> QED
    BY <1>1, <1>2, <1>3, <1>4, <1>5, <1>6, <1>7, <1>8, <1>9, <1>10, <1>11, <1>12, <1>13,
       <1>14, <1>15, <1>16, <1>17, <1>18, <1>19, <1>20, <1>21, <1>22, <1>23, <1>24,
       <1>25, <1>26, <1>27, <1>28, <1>29, <1>30, <1>31 DEF Next, Step, Fault, ApplyStep,
       UndoStep

\* The recovery copies hold what apply left until the undo is on record, for every patch
\* and whatever fails or is edited while the undo runs or is put back.
THEOREM PatchRecoveryHolds == Spec => []RecoveryHolds
  <1>1. Init => HInv /\ CInv
    BY DEF Init, HInv, CInv, NoRecord
  <1>2. CInv => RecoveryHolds
    BY DEF CInv, Uncopied, HasResult, RecoveryHolds
  <1> QED BY <1>1, <1>2, InitPInv, PInvStep, HInvStep, CInvStep, PTL DEF Spec

-----------------------------------------------------------------------------
(* What the review saw.                                                    *)

\* Until the backup is complete the tree nobody edits is the one the review saw.
EInv ==
  edits = 0 =>
    /\ (~patchDir \/ at = "backup" => \A f \in Origins(patch) : source[f] = "before")
    /\ \A f \in Origins(patch) : source[f] = "before" \/ backup[f] = "before"

\* With a complete backup every file the review saw is in it.
LEMMA BackedUpOrigins ==
  ASSUME Unsaved = {}, NEW f \in Origins(patch)
  PROVE  backup[f] = "before"
BY DEF Unsaved, HasOrigin, Origins, N

\* Every step keeps this: a file is written only after it is backed up.
LEMMA EInvStep == PInv /\ HInv /\ SInv /\ EInv /\ [Next]_vars => EInv'
  <1> SUFFICES ASSUME PInv, HInv, SInv, EInv, [Next]_vars PROVE EInv'
    OBVIOUS
  <1>1. CASE WriteNext
    <2>1. at \in {"mutate", "rollback", "undo", "reverse"} /\ k >= 1 /\ patchDir
      BY <1>1 DEF WriteNext, HInv
    <2>2. Unsaved = {}
      BY <2>1 DEF SInv
    <2>3. /\ patch' = patch /\ backup' = backup /\ at' = at /\ patchDir' = patchDir
      BY <1>1 DEF WriteNext
    <2> QED BY <2>1, <2>2, <2>3, BackedUpOrigins DEF EInv
  <1>2. CASE BackUp
    <2>1. /\ at = "backup" /\ patchDir /\ source' = source /\ patch' = patch
          /\ edits' = edits
      BY <1>2 DEF BackUp, counters, HInv
    <2> QED BY <2>1 DEF EInv
  <1>3. CASE \E p \in Paths : Edit(p)
    BY <1>3 DEF Edit, EInv, PInv, TypeOK
  <1>4. CASE UNCHANGED vars
    BY <1>4 DEF vars, files, place, counters, EInv
  <1>5. CASE ~WriteNext /\ ~BackUp /\ ~(\E p \in Paths : Edit(p)) /\ ~UNCHANGED vars
    <2>1. source' = source /\ backup' = backup /\ patch' = patch /\ edits' = edits
      BY <1>5 DEF Next, Step, Fault, ApplyStep, UndoStep, BeginApply, Preflight, Refuse,
           OpenPatch, AlreadyOpened, BackedUp, Validate, ChangeMade, Verify, RecordApplied,
           Restored, RecordFailure, BeginUndo, Inspect, OpenRecovery, Capture, Captured,
           ChangeUndone, RecordUndone, ClearCopies, PutBack, RecordReversal, ChangeFails,
           ApplyFails, CaptureFails, SettleFails, Die, files, counters
    <2>2. /\ at' = "backup" => at = "backup" \/ ~patchDir
          /\ patchDir => patchDir'
      BY <1>5 DEF Next, Step, Fault, ApplyStep, UndoStep, BeginApply, Preflight, Refuse,
           OpenPatch, AlreadyOpened, BackedUp, Validate, ChangeMade, Verify, RecordApplied,
           Restored, RecordFailure, BeginUndo, Inspect, OpenRecovery, Capture, Captured,
           ChangeUndone, RecordUndone, ClearCopies, PutBack, RecordReversal, ChangeFails,
           ApplyFails, CaptureFails, SettleFails, Die, FailChange, Return,
           Goto, Unused, files
    <2> QED BY <2>1, <2>2 DEF EInv
  <1> QED BY <1>1, <1>2, <1>3, <1>4, <1>5

\* What the review saw of a file is in the tree or in the backup, for every patch and
\* through every failure, rollback, undo and death.
THEOREM PatchBackupHolds == Spec => []BackupHolds
  <1>1. Init => HInv /\ SInv
    BY DEF Init, HInv, SInv, NoRecord
  <1>3. Init => EInv
    <2> SUFFICES ASSUME Init, NEW f \in Origins(patch) PROVE source[f] = "before"
      BY DEF EInv
    <2>1. f \in Paths
      BY PatchType, ChangeType DEF Init, Origins, N
    <2> QED BY <2>1 DEF Init, Before
  <1>2. EInv => BackupHolds
    BY DEF EInv, BackupHolds
  <1> QED BY <1>1, <1>2, <1>3, InitPInv, PInvStep, HInvStep, SInvStep, EInvStep, PTL DEF Spec

-----------------------------------------------------------------------------
(* What the user wrote.                                                    *)

\* The changes that would write over what the user wrote before the last check.
Blind == {i \in 1 .. N : \E p \in Touched(patch[i]) : source[p] = "user" /\ p \notin late}

\* Apply mutates only a change that is not blind; undo has checked every change.
VInv ==
  /\ (at = "mutate" => k \notin Blind)
  /\ (at = "inspect" => \A i \in Blind : i >= k)
  /\ (at \in {"capture", "undo"} => Blind = {})

\* A change that is valid, or made, touches no file of the user's.
LEMMA CheckedChange ==
  ASSUME PInv, NEW i \in 1 .. N, Valid(patch[i]) \/ Made(patch[i])
  PROVE  \A p \in Touched(patch[i]) : source[p] # "user"
  <1>1. patch[i].kind # "renamed" => patch[i].from = patch[i].path
    BY PatchType DEF PInv, TypeOK
  <1>2. patch[i].kind = "renamed" => patch[i].kind # "added"
    OBVIOUS
  <1>3. CASE Valid(patch[i])
    BY <1>1, <1>2, <1>3 DEF Valid, Touched
  <1>4. CASE Made(patch[i])
    BY <1>1, <1>4 DEF Made, Touched
  <1> QED BY <1>3, <1>4

\* With a complete backup neither making a change nor undoing it writes the user's content.
LEMMA WriteContent ==
  ASSUME PInv, SInv, at \in {"mutate", "undo"}, k \in 1 .. N, j <= Len(Script(patch[k]))
  PROVE  Script(patch[k])[j].content # "user"
  <1>1. patch[k] \in Changes /\ TypeOK /\ j \in 1 .. Len(Script(patch[k]))
    BY PatchType DEF PInv, TypeOK
  <1>2. HasOrigin(patch[k]) => backup[patch[k].from] = "before"
    BY DEF SInv, Unsaved
  <1> QED BY <1>1, <1>2, ScriptWrites

\* Every step keeps what is checked.
LEMMA VInvStep == PInv /\ SInv /\ VInv /\ [Next]_vars => VInv'
  <1> SUFFICES ASSUME PInv, SInv, VInv, [Next]_vars PROVE VInv'
    OBVIOUS
  <1>t. /\ N \in Nat /\ N >= 1 /\ k \in Int
        /\ at \notin {"rollback", "undo"} => k >= 1
    BY PatchType DEF PInv, TypeOK
  <1> USE DEF VInv, Goto, files, place, progress, counters, observers, N
  <1>1. CASE BeginApply
    BY <1>1 DEF BeginApply
  <1>2. CASE Preflight
    BY <1>2 DEF Preflight
  <1>3. CASE Refuse
    BY <1>3 DEF Refuse, Return
  <1>4. CASE OpenPatch
    BY <1>4 DEF OpenPatch
  <1>5. CASE AlreadyOpened
    BY <1>5 DEF AlreadyOpened, Return
  <1>6. CASE BackUp
    BY <1>6 DEF BackUp
  <1>7. CASE BackedUp
    BY <1>7 DEF BackedUp
  <1>8. CASE Validate
    <2>1. at = "validate" /\ k \in 1 .. N /\ UNCHANGED <<patch, source>>
      BY <1>8, <1>t DEF Validate
    <2>2. CASE Rechecked(Now)
      <3>1. \A p \in Touched(Now) : source[p] # "user"
        BY <2>1, <2>2, CheckedChange DEF Now, Rechecked
      <3>2. at' = "mutate" /\ k' = k
        BY <1>8, <2>2 DEF Validate
      <3> QED BY <2>1, <3>1, <3>2 DEF Blind, Now
    <2>3. CASE ~Rechecked(Now)
      <3>1. at' = "rollback"
        BY <1>8, <2>3 DEF Validate
      <3> QED BY <3>1
    <2> QED BY <2>2, <2>3
  <1>9. CASE ChangeMade
    BY <1>9 DEF ChangeMade
  <1>10. CASE Verify
    BY <1>10 DEF Verify
  <1>11. CASE RecordApplied
    BY <1>11 DEF RecordApplied, Return
  <1>12. CASE Restored
    BY <1>12 DEF Restored
  <1>13. CASE RecordFailure
    BY <1>13 DEF RecordFailure, Return
  <1>14. CASE BeginUndo
    <2>1. at' = "inspect" /\ k' = 1
      BY <1>14 DEF BeginUndo
    <2> QED BY <2>1 DEF Blind
  <1>15. CASE Inspect
    <2>1. at = "inspect" /\ k \in 1 .. N /\ UNCHANGED <<patch, source>>
      BY <1>15, <1>t DEF Inspect
    <2>2. CASE Made(Now)
      <3>1. at' = "inspect" /\ k' = k + 1 /\ late' = late \ Touched(Now)
        BY <1>15, <2>2 DEF Inspect
      <3>2. \A p \in Touched(Now) : source[p] # "user"
        BY <2>1, <2>2, CheckedChange DEF Now
      <3>3. \A i \in Blind' : i \in Blind /\ i # k
        BY <2>1, <3>1, <3>2 DEF Blind, Now
      <3>4. \A i \in Blind' : i \in Int
        BY DEF Blind
      <3> QED BY <2>1, <3>1, <3>3, <3>4
    <2>3. CASE ~Made(Now)
      <3>1. at' = "idle"
        BY <1>15, <2>3 DEF Inspect, Return
      <3> QED BY <3>1
    <2> QED BY <2>2, <2>3
  <1>16. CASE OpenRecovery
    <2>1. at = "inspect" /\ k = N + 1 /\ at' = "capture" /\ UNCHANGED <<patch, source, late>>
      BY <1>16 DEF OpenRecovery
    <2>2. Blind' = Blind /\ \A i \in Blind : i \in 1 .. N
      BY <2>1 DEF Blind
    <2> QED BY <2>1, <2>2, <1>t
  <1>17. CASE Capture
    <2>1. at = "capture" /\ UNCHANGED <<patch, source>>
      BY <1>17 DEF Capture
    <2>2. CASE HasResult(Now) => source[Now.path] = "after"
      <3>1. at' = "capture"
        BY <1>17, <2>2 DEF Capture
      <3>2. \/ late' = late
            \/ late' = late \ {Now.path} /\ source[Now.path] = "after"
        BY <1>17, <2>2 DEF Capture
      <3>3. Blind' \subseteq Blind
        BY <2>1, <3>2 DEF Blind
      <3> QED BY <2>1, <3>1, <3>3
    <2>3. CASE ~(HasResult(Now) => source[Now.path] = "after")
      <3>1. at' = "idle"
        BY <1>17, <2>3 DEF Capture, Return
      <3> QED BY <3>1
    <2> QED BY <2>2, <2>3
  <1>18. CASE Captured
    BY <1>18 DEF Captured, Blind
  <1>19. CASE ChangeUndone
    <2>1. at = "undo" /\ at' = "undo" /\ UNCHANGED <<patch, source, late>>
      BY <1>19 DEF ChangeUndone
    <2> QED BY <2>1 DEF Blind
  <1>20. CASE RecordUndone
    BY <1>20 DEF RecordUndone
  <1>21. CASE ClearCopies
    BY <1>21 DEF ClearCopies, Return
  <1>22. CASE PutBack
    BY <1>22 DEF PutBack
  <1>23. CASE RecordReversal
    BY <1>23 DEF RecordReversal, Return
  <1>24. CASE WriteNext
    <2>1. /\ at \in {"mutate", "rollback", "undo", "reverse"} /\ k \in 1 .. N
          /\ j <= Len(Script(Now))
          /\ source' = [source EXCEPT ![Script(Now)[j].path] = Script(Now)[j].content]
          /\ UNCHANGED <<patch, at, k, late>>
      BY <1>24 DEF WriteNext
    <2>2. CASE at \in {"mutate", "undo"}
      <3>1. Script(Now)[j].content # "user"
        BY <2>1, <2>2, WriteContent DEF Now
      <3>2. Blind' \subseteq Blind
        BY <2>1, <3>1 DEF Blind, PInv, TypeOK
      <3> QED BY <2>1, <2>2, <3>2
    <2>3. CASE at \in {"rollback", "reverse"}
      BY <2>1, <2>3
    <2> QED BY <2>1, <2>2, <2>3
  <1>25. CASE ChangeFails
    BY <1>25 DEF ChangeFails, FailChange, Attempted
  <1>26. CASE ApplyFails
    BY <1>26 DEF ApplyFails
  <1>27. CASE CaptureFails
    BY <1>27 DEF CaptureFails, Return
  <1>28. CASE SettleFails
    BY <1>28 DEF SettleFails
  <1>29. CASE Die
    BY <1>29 DEF Die, Return
  <1>30. CASE \E p \in Paths : Edit(p)
    <2>1. PICK p \in Paths : Edit(p)
      BY <1>30
    <2>2. PICK c \in {"user", "missing"} : source' = [source EXCEPT ![p] = c]
      BY <2>1 DEF Edit
    <2>3. UNCHANGED <<patch, at, k>> /\ late' = late \cup {p}
      BY <2>1 DEF Edit
    <2>4. Blind' \subseteq Blind
      BY <2>2, <2>3 DEF Blind, PInv, TypeOK
    <2> QED BY <2>3, <2>4
  <1>31. CASE UNCHANGED vars
    BY <1>31 DEF vars, Blind
  <1> QED
    BY <1>1, <1>2, <1>3, <1>4, <1>5, <1>6, <1>7, <1>8, <1>9, <1>10, <1>11, <1>12, <1>13,
       <1>14, <1>15, <1>16, <1>17, <1>18, <1>19, <1>20, <1>21, <1>22, <1>23, <1>24,
       <1>25, <1>26, <1>27, <1>28, <1>29, <1>30, <1>31 DEF Next, Step, Fault, ApplyStep,
       UndoStep

\* No step writes over a file of the user's that was there at the last check.
LEMMA BlindStep ==
  ASSUME PInv, SInv, VInv, [Next]_vars, NEW p \in Paths, at \in {"mutate", "undo"},
         source[p] = "user", source'[p] # "user", edits' = edits
  PROVE  p \in late
  <1>1. WriteNext
    <2>1. ~(\E q \in Paths : Edit(q))
      BY DEF Edit, PInv, TypeOK
    <2> QED BY <2>1 DEF Next, Step, Fault, ApplyStep, UndoStep, vars, BackUp, BeginApply,
           Preflight, Refuse,
           OpenPatch, AlreadyOpened, BackedUp, Validate, ChangeMade, Verify, RecordApplied,
           Restored, RecordFailure, BeginUndo, Inspect, OpenRecovery, Capture, Captured,
           ChangeUndone, RecordUndone, ClearCopies, PutBack, RecordReversal, ChangeFails,
           ApplyFails, CaptureFails, SettleFails, Die, files
  <1>2. k \in 1 .. N /\ source' = [source EXCEPT ![Script(Now)[j].path] = Script(Now)[j].content]
    BY <1>1 DEF WriteNext
  <1>3. p = Script(Now)[j].path
    BY <1>2 DEF PInv, TypeOK
  <1>4. Now \in Changes /\ TypeOK /\ j \in 1 .. Len(Script(Now))
    BY <1>1, PatchType DEF WriteNext, PInv, TypeOK, Now
  <1>5. p \in Touched(Now)
    BY <1>3, <1>4, ScriptWrites
  <1>6. k \notin Blind
    BY DEF VInv
  <1> QED BY <1>2, <1>5, <1>6 DEF Blind, Now

\* Neither apply nor undo writes over what the user wrote before the operation last
\* checked that file, for every patch and any number of edits.
THEOREM PatchNoBlindOverwrite == Spec => NoBlindOverwrite
  <1>1. Init => HInv /\ SInv /\ VInv
    BY DEF Init, HInv, SInv, VInv, NoRecord
  <1>2. PInv /\ SInv /\ VInv /\ [Next]_vars =>
          [\A p \in Paths :
             at \in {"mutate", "undo"} /\ source[p] = "user" /\ source'[p] # "user"
                                       /\ edits' = edits => p \in late]_source
    BY BlindStep
  <1> QED BY <1>1, <1>2, InitPInv, PInvStep, HInvStep, SInvStep, VInvStep, PTL
          DEF Spec, NoBlindOverwrite

-----------------------------------------------------------------------------
(* All or nothing.                                                         *)

\* Valid and Made of a given tree.
ValidIn(tree, c) ==
  IF c.kind = "added" THEN tree[c.path] = "missing"
  ELSE tree[c.from] = "before" /\ (c.kind = "renamed" => tree[c.path] = "missing")
MadeIn(tree, c) ==
  /\ tree[c.path] = IF c.kind = "deleted" THEN "missing" ELSE "after"
  /\ c.kind = "renamed" => tree[c.from] = "missing"

\* The changes that may have left f other than it was when the operation began.
Blamed ==
  CASE at = "validate" -> {i \in 1 .. N : i < k}
    [] at = "mutate"   -> {i \in 1 .. N : i <= k}
    [] at = "rollback" -> 1 .. reached \ restored
    [] at = "undo"     -> {i \in 1 .. N : i >= k}
    [] at = "reverse"  -> {i \in 1 .. N : i >= reached} \ restored
    [] at \in {"verify", "clearing"} -> 1 .. N
    [] OTHER -> {}

\* The writes of the change at hand that are done.
Written == IF k \in 1 .. N THEN {n \in 1 .. Len(Script(Now)) : n < j} ELSE {}

\* What the operation has checked is what it began with: apply a tree the review saw, undo
\* a tree apply left.
CheckedStart ==
  /\ (at = "preflight" => \A i \in 1 .. N : i < k => ValidIn(start, patch[i]))
  /\ (at \in {"backup", "validate", "mutate", "verify", "rollback"} =>
        \A i \in 1 .. N : ValidIn(start, patch[i]))
  /\ (at = "inspect" => \A i \in 1 .. N : i < k => MadeIn(start, patch[i]))
  /\ (at \in {"capture", "undo", "clearing", "reverse"} =>
        \A i \in 1 .. N : MadeIn(start, patch[i]))

\* A file that differs from the start is one of a change that is to blame for it; what a
\* rollback has written is as it was.
OnlyBlamed ==
  /\ at # "idle" =>
       \A f \in Paths : source[f] # start[f] => \E i \in Blamed : f \in Touched(patch[i])
  /\ at \in {"rollback", "reverse"} =>
       \A n \in Written : source[Script(Now)[n].path] = start[Script(Now)[n].path]

\* The changes that undo has passed.
Passed ==
  IF at = "undo" THEN {i \in 1 .. N : i > k} ELSE IF at = "clearing" THEN 1 .. N ELSE {}

\* What undo has passed is what the review saw.
UndoneSoFar ==
  /\ \A i \in Passed : \A f \in Touched(patch[i]) : source[f] = Before(patch)[f]
  /\ at = "undo" =>
       \A n \in Written : source[Script(Now)[n].path] = Before(patch)[Script(Now)[n].path]

\* The final verification has seen what is made.
VerifiedSoFar == at = "verify" => \A i \in 1 .. N : i < k => Made(patch[i])

\* Only a rollback counts what it has restored.
NoneRestored == at \notin {"rollback", "reverse"} => restored = {}

\* A recovery copy is what apply left, or is gone.
CopiesTrue ==
  at \in {"undo", "clearing", "reverse"} =>
    \A i \in 1 .. N : HasResult(patch[i]) => copies[patch[i].path] \in {"after", "missing"}

\* In a tree that nobody edits a call knows what it has done.
AInv ==
  /\ NoneRestored
  /\ CopiesTrue
  /\ edited = {} => CheckedStart /\ OnlyBlamed /\ UndoneSoFar /\ VerifiedSoFar
  /\ CallAtomic

\* What is on record, in a tree that nobody edits, while nothing has died or asked for
\* recovery.
RInv ==
  /\ (record.transaction = "rolled-back" =>
        record.status = "apply-failed" /\ at \in {"idle", "preflight"})
  /\ (edits = 0 => edited = {})
  /\ edits = 0 /\ crashes = 0 /\ ~told.asked =>
       /\ (record.status = "applied" /\ at \notin {"undo", "reverse"} => IsApplied)
       /\ (record.transaction = "rolled-back" => IsUnapplied)
\* A tree in which nothing is to blame is the one the operation began with.
LEMMA NothingChanged ==
  ASSUME TypeOK, OnlyBlamed, at # "idle", Blamed = {}
  PROVE  source = start
  <1>1. \A f \in Paths : source[f] = start[f]
    BY DEF OnlyBlamed
  <1> QED BY <1>1 DEF TypeOK

\* The changes of a patch have files of their own, and no two the same destination.
LEMMA PatchFiles ==
  ASSUME patch \in Patches
  PROVE  /\ \A i \in 1 .. N : patch[i].path \in Paths /\ patch[i].from \in Paths
         /\ \A i, n \in 1 .. N : patch[i].path = patch[n].path => i = n
  <1>1. \A i \in 1 .. N : patch[i].path \in Paths /\ patch[i].from \in Paths
    BY PatchType, ChangeType
  <1> QED BY <1>1, PatchAssumption DEF N

\* Of the tree that was left by a patch, a destination that an undo removes is no file
\* the review saw.
LEMMA NoDestinationSeen ==
  ASSUME patch \in Patches, NEW tree, \A i \in 1 .. N : MadeIn(tree, patch[i]), NEW i \in 1 .. N
  PROVE  /\ patch[i].kind \in {"added", "renamed"} => Before(patch)[patch[i].path] = "missing"
         /\ patch[i].kind # "added" => Before(patch)[patch[i].from] = "before"
  <1>1. /\ patch[i].path \in Paths /\ patch[i].from \in Paths
        /\ Origins(patch) = {patch[n].from : n \in {m \in 1 .. N : patch[m].kind # "added"}}
    BY PatchFiles DEF Origins, N
  <1>2. ASSUME patch[i].kind \in {"added", "renamed"}, patch[i].path \in Origins(patch)
        PROVE  FALSE
    <2>1. PICK n \in 1 .. N : patch[n].kind # "added" /\ patch[n].from = patch[i].path
      BY <1>1, <1>2
    <2>2. CASE patch[n].kind = "renamed"
      <3>1. tree[patch[n].from] = "missing" /\ tree[patch[i].path] = "after"
        BY <1>2, <2>2 DEF MadeIn
      <3> QED BY <2>1, <3>1
    <2>3. CASE patch[n].kind # "renamed"
      <3>1. patch[n].path = patch[i].path
        BY <2>1, <2>3, PatchType
      <3>2. n = i
        BY <3>1, PatchFiles
      <3> QED BY <1>2, <2>1, <2>3, <3>2
    <2> QED BY <2>2, <2>3
  <1> QED BY <1>1, <1>2 DEF Before

\* A script ends when it has written each file of its change, but for that of apply.
LEMMA ScriptCovers ==
  ASSUME NEW i \in 1 .. N, patch \in Patches, at \in {"rollback", "undo", "reverse"},
         NEW f \in Touched(patch[i])
  PROVE  \E n \in 1 .. Len(Script(patch[i])) : Script(patch[i])[n].path = f
  <1>1. /\ patch[i].kind \in {"added", "modified", "deleted", "renamed"}
        /\ patch[i].kind # "renamed" => patch[i].from = patch[i].path
    BY PatchType, ChangeType
  <1>2. CASE at = "reverse"
    <2>1. Script(patch[i]) = Reversal(patch[i])
      BY <1>2 DEF Script
    <2> QED BY <1>1, <2>1 DEF Reversal, Touched, Put, Remove
  <1>3. CASE at # "reverse"
    <2>1. Script(patch[i]) = Restoration(patch[i])
      BY <1>3 DEF Script
    <2> QED BY <1>1, <2>1 DEF Restoration, Touched, Put, Remove
  <1> QED BY <1>2, <1>3

\* What a rollback may write is what the operation began with; what undo writes is what
\* the review saw.
LEMMA RestoredContent ==
  ASSUME PInv, SInv, AInv, edited = {}, at \in {"rollback", "undo", "reverse"}, k \in 1 .. N,
         NEW n \in 1 .. Len(Script(Now)), at = "reverse" => Possible(Script(Now)[n])
  PROVE  /\ Script(Now)[n].path \in Touched(Now)
         /\ at = "undo" => Script(Now)[n].content = Before(patch)[Script(Now)[n].path]
         /\ at # "undo" => Script(Now)[n].content = start[Script(Now)[n].path]
  <1> DEFINE c == patch[k]
  <1>1. /\ c \in Changes /\ c.kind \in {"added", "modified", "deleted", "renamed"}
        /\ c.path \in Paths /\ c.from \in Paths
        /\ c.kind # "renamed" => c.from = c.path
    BY PatchType, ChangeType DEF PInv, TypeOK
  <1>2. c.kind # "added" /\ at # "reverse" => backup[c.from] = "before"
    BY DEF SInv, Unsaved, HasOrigin
  <1>3. Script(Now)[n].path \in Touched(Now)
    BY <1>1, ScriptWrites DEF Now, PInv
  <1>4. CASE at = "rollback"
    <2>1. ValidIn(start, c) /\ Script(Now) = Restoration(c)
      BY <1>4 DEF AInv, CheckedStart, Script, Now
    <2> QED BY <1>1, <1>2, <1>3, <1>4, <2>1 DEF ValidIn, Restoration, Put, Remove
  <1>5. CASE at = "undo"
    <2>1. Script(Now) = Restoration(c)
      BY <1>5 DEF Script, Now
    <2>2. /\ c.kind \in {"added", "renamed"} => Before(patch)[c.path] = "missing"
          /\ c.kind # "added" => Before(patch)[c.from] = "before"
      BY <1>5, NoDestinationSeen DEF AInv, CheckedStart, PInv, TypeOK
    <2> QED BY <1>1, <1>2, <1>3, <1>5, <2>1, <2>2 DEF Restoration, Put, Remove
  <1>6. CASE at = "reverse"
    <2>1. MadeIn(start, c) /\ Script(Now) = Reversal(c)
      BY <1>6 DEF AInv, CheckedStart, Script, Now
    <2>2. c.kind # "deleted" => copies[c.path] \in {"after", "missing"}
      BY <1>6 DEF AInv, CopiesTrue, HasResult
    <2> QED BY <1>1, <1>3, <1>6, <2>1, <2>2 DEF MadeIn, Reversal, Put, Remove, Possible
  <1> QED BY <1>4, <1>5, <1>6

\* Only an edit by the user adds to what is edited, and only a new operation forgets it.
LEMMA NobodyEdits ==
  ASSUME PInv, [Next]_vars, edited' = {}
  PROVE  /\ ~\E p \in Paths : Edit(p)
         /\ BeginApply \/ BeginUndo \/ (edited = {} /\ start' = start)
  <1>1. ~\E p \in Paths : Edit(p)
    BY DEF Edit
  <1> QED
    BY <1>1 DEF Next, Step, Fault, ApplyStep, UndoStep, vars, BackUp, BeginApply, Preflight, Refuse,
         OpenPatch, AlreadyOpened, BackedUp, Validate, ChangeMade, Verify, RecordApplied,
         Restored, RecordFailure, BeginUndo, Inspect, OpenRecovery, Capture, Captured,
         ChangeUndone, RecordUndone, ClearCopies, PutBack, RecordReversal, WriteNext, ChangeFails,
         ApplyFails, CaptureFails, SettleFails, Die, observers

\* The checks of a call are about the tree it began with.
LEMMA CheckedStep ==
  PInv /\ AInv /\ [Next]_vars /\ edited' = {} => CheckedStart'
  <1> SUFFICES ASSUME PInv, AInv, [Next]_vars, edited' = {} PROVE CheckedStart'
    OBVIOUS
  <1>t. /\ N \in Nat /\ N >= 1 /\ k \in Int
        /\ at \notin {"rollback", "undo"} => k >= 1
    BY PatchType DEF PInv, TypeOK
  <1>p. patch' = patch
    BY DEF Next, Step, Fault, ApplyStep, UndoStep, vars, BackUp, BeginApply, Preflight, Refuse,
         OpenPatch, AlreadyOpened, BackedUp, Validate, ChangeMade, Verify, RecordApplied,
         Restored, RecordFailure, BeginUndo, Inspect, OpenRecovery, Capture, Captured,
         ChangeUndone, RecordUndone, ClearCopies, PutBack, RecordReversal, WriteNext, ChangeFails,
         ApplyFails, CaptureFails, SettleFails, Die, Edit
  <1>1. CASE BeginApply
    BY <1>1, <1>p DEF BeginApply, Goto, CheckedStart, N
  <1>2. CASE BeginUndo
    BY <1>2, <1>p DEF BeginUndo, Goto, CheckedStart, N
  <1> SUFFICES ASSUME ~BeginApply, ~BeginUndo PROVE CheckedStart'
    BY <1>1, <1>2
  <1>3. edited = {} /\ start' = start /\ ~\E p \in Paths : Edit(p)
    BY NobodyEdits
  <1>4. CheckedStart /\ OnlyBlamed
    BY <1>3 DEF AInv
  <1> USE <1>t, <1>p, <1>3, <1>4 DEF CheckedStart, Goto, N
  <1>5. ASSUME at \in {"preflight", "backup", "inspect", "capture"} PROVE source = start
    BY <1>5, NothingChanged DEF Blamed, PInv
  <1>6. CASE Preflight
    <2>1. ValidIn(start, patch[k]) /\ at = "preflight" /\ at' = "preflight" /\ k' = k + 1 /\ k <= N
      BY <1>5, <1>6 DEF Preflight, Valid, ValidIn, Now
    <2> QED BY <2>1
  <1>7. CASE OpenPatch
    BY <1>7 DEF OpenPatch
  <1>8. CASE BackUp \/ BackedUp \/ Validate \/ ChangeMade \/ Verify \/ Restored \/ ApplyFails
    <2>1. /\ at \in {"backup", "validate", "mutate", "verify", "rollback"}
          /\ at' \in {"backup", "validate", "mutate", "verify", "rollback"}
      BY <1>8 DEF BackUp, BackedUp, Validate, ChangeMade, Verify, Restored, ApplyFails
    <2> QED BY <2>1
  <1>9. CASE Inspect
    <2>1. CASE Made(Now)
      <3>1. MadeIn(start, patch[k]) /\ at = "inspect" /\ at' = "inspect" /\ k' = k + 1 /\ k <= N
        BY <1>5, <1>9, <2>1 DEF Inspect, Made, MadeIn, Now
      <3> QED BY <3>1
    <2>2. CASE ~Made(Now)
      BY <1>9, <2>2 DEF Inspect, Return
    <2> QED BY <2>1, <2>2
  <1>10. CASE OpenRecovery
    BY <1>10 DEF OpenRecovery
  <1>11. CASE Capture \/ Captured \/ ChangeUndone \/ RecordUndone \/ PutBack \/ SettleFails
    <2>1. /\ at \in {"capture", "undo", "clearing", "reverse"}
          /\ at' \in {"idle", "capture", "undo", "clearing", "reverse"}
      BY <1>11 DEF Capture, Captured, ChangeUndone, RecordUndone, PutBack, SettleFails, Return
    <2> QED BY <2>1
  <1>12. CASE WriteNext \/ UNCHANGED vars
    BY <1>12 DEF WriteNext, vars, place
  <1>13. CASE ChangeFails
    BY <1>13 DEF ChangeFails, FailChange
  <1>14. CASE \/ Refuse \/ AlreadyOpened \/ RecordApplied \/ RecordFailure \/ ClearCopies
              \/ CaptureFails \/ Die
    <2>1. at' = "idle"
      BY <1>14 DEF Refuse, AlreadyOpened, RecordApplied, RecordFailure, ClearCopies, CaptureFails,
           Die, Return
    <2> QED BY <2>1
  <1>15. CASE RecordReversal
    <2>1. at' = "idle"
      BY <1>15 DEF RecordReversal, Return
    <2> QED BY <2>1
  <1> QED
    BY <1>6, <1>7, <1>8, <1>9, <1>10, <1>11, <1>12, <1>13, <1>14, <1>15
    DEF Next, Step, Fault, ApplyStep, UndoStep

\* A write touches the change at hand, which is to blame, or makes a file what it was.
LEMMA WriteBlamed ==
  ASSUME PInv, SInv, AInv, edited = {}, WriteNext
  PROVE  OnlyBlamed'
  <1>1. /\ at \in {"mutate", "rollback", "undo", "reverse"} /\ k \in 1 .. N
        /\ j \in 1 .. Len(Script(Now)) /\ Len(Script(Now)) \in 1 .. 2
        /\ Possible(Script(Now)[j])
        /\ source' = [source EXCEPT ![Script(Now)[j].path] = Script(Now)[j].content]
        /\ j' = j + 1
        /\ UNCHANGED <<backup, copies, patch, at, k, reached, restored, start>>
    <2>1. Now \in Changes /\ j \in Nat /\ j >= 1
      BY PatchType DEF WriteNext, PInv, TypeOK, Now
    <2> QED BY <2>1, ScriptWrites DEF WriteNext, PInv, progress, observers
  <1>2. /\ Blamed' = Blamed /\ N' = N /\ Script(Now)' = Script(Now) /\ Now' = Now
    BY <1>1 DEF Blamed, N, Script, Now, Mutation, Restoration, Reversal
  <1>3. Script(Now)[j].path \in Touched(Now)
    BY <1>1, ScriptWrites, PatchType DEF PInv, TypeOK, Now
  <1>4. OnlyBlamed /\ source \in [Paths -> Contents]
    BY DEF AInv, PInv, TypeOK
  <1>5. CASE at \in {"mutate", "undo"}
    <2>1. k \in Blamed
      BY <1>1, <1>5 DEF Blamed
    <2>2. \A f \in Paths : source'[f] # start[f] => \E i \in Blamed : f \in Touched(patch[i])
      BY <1>1, <1>3, <1>4, <1>5, <2>1 DEF OnlyBlamed, Now
    <2> QED BY <1>1, <1>2, <1>5, <2>2 DEF OnlyBlamed, Touched
  <1>6. CASE at \in {"rollback", "reverse"}
    <2>1. Script(Now)[j].content = start[Script(Now)[j].path]
      BY <1>1, <1>6, RestoredContent
    <2>2. \A f \in Paths : source'[f] # start[f] => source[f] # start[f]
      BY <1>1, <1>4, <2>1
    <2>3. \A f \in Paths : source'[f] # start[f] => \E i \in Blamed : f \in Touched(patch[i])
      BY <1>4, <1>6, <2>2 DEF OnlyBlamed
    <2>4. /\ Written' = {n \in 1 .. Len(Script(Now)) : n < j + 1}
          /\ Written = {n \in 1 .. Len(Script(Now)) : n < j}
      BY <1>1, <1>2 DEF Written
    <2>5. \A n \in 1 .. Len(Script(Now)) : Script(Now)[n].path \in Paths
      BY <1>1, ScriptWrites, PatchFiles, PatchType DEF PInv, TypeOK, Now, Touched
    <2>6. \A n \in Written' : source'[Script(Now)[n].path] = start[Script(Now)[n].path]
      <3> TAKE n \in Written'
      <3>1. n \in Written \/ n = j
        BY <1>1, <2>4
      <3>2. n \in Written => source[Script(Now)[n].path] = start[Script(Now)[n].path]
        BY <1>4, <1>6 DEF OnlyBlamed
      <3> QED BY <1>1, <1>4, <2>1, <2>4, <2>5, <3>1, <3>2
    <2> QED BY <1>1, <1>2, <1>6, <2>3, <2>6 DEF OnlyBlamed, Touched
  <1> QED BY <1>1, <1>5, <1>6

\* A change that is restored is not to blame any more.
LEMMA RestoredBlamed ==
  ASSUME PInv, SInv, AInv, edited = {}, Restored \/ PutBack
  PROVE  OnlyBlamed'
  <1>1. /\ at \in {"rollback", "reverse"} /\ at' = at /\ k \in 1 .. N /\ j = Len(Script(Now)) + 1
        /\ restored' = restored \cup {k} /\ j' = 1
        /\ UNCHANGED <<source, patch, reached, start>>
    BY DEF Restored, PutBack, Complete, Goto, PInv, TypeOK, files, progress, observers
  <1>2. Blamed' = Blamed \ {k}
    BY <1>1 DEF Blamed, N
  <1>3. OnlyBlamed
    BY DEF AInv
  <1>4. \A f \in Touched(patch[k]) : source[f] = start[f]
    <2> TAKE f \in Touched(patch[k])
    <2>1. PICK n \in 1 .. Len(Script(patch[k])) : Script(patch[k])[n].path = f
      BY <1>1, ScriptCovers DEF PInv, TypeOK
    <2>2. Len(Script(Now)) \in Nat
      BY <1>1, ScriptWrites, PatchType DEF PInv, TypeOK, Now
    <2>3. n \in Written
      BY <1>1, <2>2 DEF Written, Now
    <2> QED BY <1>1, <1>3, <2>1, <2>3 DEF OnlyBlamed, Now
  <1>5. \A f \in Paths : source[f] # start[f] => \E i \in Blamed \ {k} : f \in Touched(patch[i])
    BY <1>1, <1>3, <1>4 DEF OnlyBlamed
  <1>6. Written' = {}
    BY <1>1 DEF Written
  <1> QED BY <1>1, <1>2, <1>5, <1>6 DEF OnlyBlamed, Touched

\* Any other step leaves the files; what it takes the blame from was as it began.
LEMMA BlamedStep ==
  PInv /\ SInv /\ AInv /\ [Next]_vars /\ edited' = {} => OnlyBlamed'
  <1> SUFFICES ASSUME PInv, SInv, AInv, [Next]_vars, edited' = {} PROVE OnlyBlamed'
    OBVIOUS
  <1>t. /\ N \in Nat /\ N >= 1 /\ k \in Int
        /\ at \notin {"rollback", "undo"} => k >= 1
    BY PatchType DEF PInv, TypeOK
  <1>1. CASE BeginApply \/ BeginUndo
    BY <1>1 DEF BeginApply, BeginUndo, Goto, files, OnlyBlamed
  <1> SUFFICES ASSUME ~BeginApply, ~BeginUndo PROVE OnlyBlamed'
    BY <1>1
  <1>2. edited = {} /\ start' = start /\ ~\E p \in Paths : Edit(p)
    BY NobodyEdits
  <1>3. OnlyBlamed /\ NoneRestored
    BY <1>2 DEF AInv
  <1>4. CASE WriteNext
    BY <1>2, <1>4, WriteBlamed
  <1>5. CASE Restored \/ PutBack
    BY <1>2, <1>5, RestoredBlamed
  <1>6. ASSUME UNCHANGED <<source, patch>>, at # "idle", j' = 1, Blamed \subseteq Blamed'
        PROVE  OnlyBlamed'
    <2>1. Written' = {}
      BY <1>6 DEF Written
    <2> QED BY <1>2, <1>3, <1>6, <2>1 DEF OnlyBlamed, Touched
  <1>7. CASE at' = "idle"
    BY <1>7 DEF OnlyBlamed
  <1> USE <1>t DEF Goto, files, N
  <1>8. CASE Preflight \/ OpenPatch \/ BackedUp \/ OpenRecovery
    <2>1. UNCHANGED <<source, patch>> /\ at # "idle" /\ j' = 1 /\ Blamed = {}
      BY <1>8 DEF Preflight, OpenPatch, BackedUp, OpenRecovery, Blamed
    <2> QED BY <1>6, <2>1
  <1>9. CASE BackUp \/ Inspect \/ Capture
    <2>1. at' = "idle" \/ (UNCHANGED <<source, patch>> /\ at # "idle" /\ j' = 1 /\ Blamed = {})
      BY <1>9 DEF BackUp, Inspect, Capture, Return, Blamed
    <2> QED BY <1>6, <1>7, <2>1
  <1>10. CASE Validate
    <2>1. UNCHANGED <<source, patch>> /\ at # "idle" /\ j' = 1 /\ restored' = {} /\ at = "validate"
      BY <1>3, <1>10 DEF Validate, NoneRestored
    <2>2. \/ at' = "mutate" /\ k' = k
          \/ at' = "rollback" /\ reached' = k - 1
      BY <1>10 DEF Validate
    <2>3. Blamed \subseteq Blamed'
      BY <2>1, <2>2 DEF Blamed
    <2> QED BY <1>6, <2>1, <2>3
  <1>11. CASE ChangeMade
    <2>1. /\ UNCHANGED <<source, patch>> /\ at = "mutate" /\ j' = 1
          /\ \/ k < N /\ at' = "validate" /\ k' = k + 1
             \/ k >= N /\ at' = "verify"
      BY <1>11 DEF ChangeMade
    <2>2. Blamed \subseteq Blamed'
      BY <2>1 DEF Blamed
    <2> QED BY <1>6, <2>1, <2>2
  <1>12. CASE Verify
    <2>1. /\ UNCHANGED <<source, patch>> /\ at = "verify" /\ j' = 1 /\ restored' = {}
          /\ at' = "verify" \/ (at' = "rollback" /\ reached' = N)
      BY <1>3, <1>12 DEF Verify, NoneRestored
    <2>2. Blamed \subseteq Blamed'
      BY <2>1 DEF Blamed
    <2> QED BY <1>6, <2>1, <2>2
  <1>13. CASE Captured \/ ChangeUndone
    <2>1. /\ UNCHANGED <<source, patch>> /\ at \in {"capture", "undo"} /\ at' = "undo" /\ j' = 1
          /\ at = "undo" => k' = k - 1
      BY <1>13 DEF Captured, ChangeUndone
    <2>2. Blamed \subseteq Blamed'
      BY <2>1 DEF Blamed
    <2> QED BY <1>6, <2>1, <2>2
  <1>14. CASE RecordUndone
    <2>1. UNCHANGED <<source, patch>> /\ at = "undo" /\ at' = "clearing" /\ j' = 1
      BY <1>14 DEF RecordUndone
    <2>2. Blamed \subseteq Blamed'
      BY <2>1 DEF Blamed
    <2> QED BY <1>6, <2>1, <2>2
  <1>15. CASE ChangeFails
    <2>1. UNCHANGED <<source, patch>> /\ at # "idle" /\ j' = 1
          /\ \/ at = "mutate" /\ at' = "rollback" /\ reached' = k /\ restored' = {}
             \/ at = "rollback" /\ at' = "rollback" /\ UNCHANGED <<reached, restored>>
             \/ at = "undo" /\ at' = "reverse" /\ reached' = k /\ restored' = {}
             \/ at = "reverse" /\ at' = "reverse" /\ UNCHANGED <<reached, restored>>
      BY <1>3, <1>15 DEF ChangeFails, FailChange, Attempted, NoneRestored
    <2>2. Blamed \subseteq Blamed'
      BY <2>1 DEF Blamed
    <2> QED BY <1>6, <2>1, <2>2
  <1>16. CASE ApplyFails
    <2>1. UNCHANGED <<source, patch>> /\ at # "idle" /\ j' = 1 /\ at' = "rollback" /\ restored' = {}
          /\ \/ at = "backup" \/ (at = "validate" /\ reached' = k - 1)
             \/ (at = "verify" /\ reached' = N)
      BY <1>3, <1>16 DEF ApplyFails, NoneRestored
    <2>2. Blamed \subseteq Blamed'
      BY <2>1 DEF Blamed
    <2> QED BY <1>6, <2>1, <2>2
  <1>17. CASE SettleFails
    <2>1. UNCHANGED <<source, patch>> /\ at \in {"undo", "clearing"} /\ j' = 1 /\ at' = "reverse"
          /\ reached' = 1 /\ restored' = {}
      BY <1>3, <1>17 DEF SettleFails, NoneRestored
    <2>2. Blamed \subseteq Blamed'
      BY <2>1 DEF Blamed
    <2> QED BY <1>6, <2>1, <2>2
  <1>18. CASE \/ Refuse \/ AlreadyOpened \/ RecordApplied \/ RecordFailure \/ ClearCopies
              \/ CaptureFails \/ Die
    BY <1>7, <1>18 DEF Refuse, AlreadyOpened, RecordApplied, RecordFailure, ClearCopies,
       CaptureFails, Die, Return
  <1>19. CASE RecordReversal
    BY <1>7, <1>19 DEF RecordReversal, Return
  <1>20. CASE UNCHANGED vars
    BY <1>3, <1>20 DEF vars, place, progress, observers, OnlyBlamed, Blamed, Written, Script, Now,
       Touched, Mutation, Restoration, Reversal
  <1> QED
    BY <1>2, <1>4, <1>5, <1>8, <1>9, <1>10, <1>11, <1>12, <1>13, <1>14, <1>15, <1>16, <1>17, <1>18,
       <1>19, <1>20 DEF Next, Step, Fault, ApplyStep, UndoStep

\* Undo has left each file it has passed as the review saw it.
LEMMA UndoneStep ==
  PInv /\ SInv /\ AInv /\ [Next]_vars /\ edited' = {} => UndoneSoFar'
  <1> SUFFICES ASSUME PInv, SInv, AInv, [Next]_vars, edited' = {} PROVE UndoneSoFar'
    OBVIOUS
  <1>t. /\ N \in Nat /\ N >= 1 /\ k \in Int
        /\ at \notin {"rollback", "undo"} => k >= 1
    BY PatchType DEF PInv, TypeOK
  <1>1. CASE at' \notin {"undo", "clearing"}
    BY <1>1 DEF UndoneSoFar, Passed
  <1> SUFFICES ASSUME at' \in {"undo", "clearing"} PROVE UndoneSoFar'
    BY <1>1
  <1>2. ~BeginApply /\ ~BeginUndo
    BY DEF BeginApply, BeginUndo, Goto
  <1>3. edited = {} /\ UndoneSoFar /\ ~\E p \in Paths : Edit(p)
    BY <1>2, NobodyEdits DEF AInv
  <1>4. WriteNext \/ Captured \/ ChangeUndone \/ RecordUndone \/ UNCHANGED vars
    BY <1>2, <1>3 DEF Next, Step, Fault, ApplyStep, UndoStep, Preflight, Refuse, OpenPatch,
       AlreadyOpened, BackUp, BackedUp, Validate, ChangeMade, Verify, RecordApplied, Restored,
       RecordFailure, Inspect, OpenRecovery, Capture, ClearCopies, PutBack, RecordReversal,
       ChangeFails, FailChange, ApplyFails, CaptureFails, SettleFails, Die, Return, Goto
  <1>5. CASE WriteNext
    <2>1. /\ at = "undo" /\ k \in 1 .. N /\ j <= Len(Script(Now))
          /\ source' = [source EXCEPT ![Script(Now)[j].path] = Script(Now)[j].content]
          /\ j' = j + 1
          /\ UNCHANGED <<backup, copies, patch, at, k>>
      BY <1>5 DEF WriteNext
    <2>2. Now \in Changes /\ Len(Script(Now)) \in 1 .. 2 /\ j \in 1 .. Len(Script(Now))
      BY <2>1, ScriptWrites, PatchType DEF PInv, TypeOK, Now
    <2>3. /\ Script(Now)[j].path \in Paths
          /\ Script(Now)[j].content = Before(patch)[Script(Now)[j].path]
      BY <1>3, <2>1, <2>2, RestoredContent, PatchFiles DEF PInv, TypeOK, Now, Touched
    <2>4. \A f \in Paths : source[f] = Before(patch)[f] => source'[f] = Before(patch)[f]
      BY <2>1, <2>3 DEF PInv, TypeOK
    <2>5. /\ Before(patch)' = Before(patch) /\ Passed' = Passed /\ N' = N
          /\ Script(Now)' = Script(Now) /\ Now' = Now
      BY <2>1 DEF Before, Origins, Passed, N, Script, Now, Mutation, Restoration, Reversal
    <2>6. \A i \in Passed' : \A f \in Touched(patch[i]) : source'[f] = Before(patch)[f]
      BY <1>3, <2>1, <2>4, <2>5, PatchFiles DEF UndoneSoFar, Passed, Touched, PInv, TypeOK
    <2>7. \A n \in 1 .. Len(Script(Now)) : Script(Now)[n].path \in Paths
      BY <2>1, <2>2, ScriptWrites, PatchFiles DEF PInv, TypeOK, Now, Touched
    <2>8. ASSUME NEW n \in Written'
          PROVE  source'[Script(Now)[n].path] = Before(patch)[Script(Now)[n].path]
      <3>1. n \in 1 .. Len(Script(Now)) /\ (n \in Written \/ n = j)
        BY <2>1, <2>2, <2>5 DEF Written
      <3>2. CASE n \in Written
        BY <1>3, <2>1, <2>4, <2>7, <3>1, <3>2 DEF UndoneSoFar
      <3>3. CASE n = j
        BY <2>1, <2>3, <3>3 DEF PInv, TypeOK
      <3> QED BY <3>1, <3>2, <3>3
    <2> QED BY <2>1, <2>5, <2>6, <2>8 DEF UndoneSoFar, Touched
  <1> USE <1>t DEF Goto, files, N
  <1>6. CASE Captured
    <2>1. at' = "undo" /\ k' = N /\ j' = 1 /\ patch' = patch
      BY <1>6 DEF Captured
    <2>2. Passed' = {} /\ Written' = {}
      BY <2>1 DEF Passed, Written
    <2> QED BY <2>2 DEF UndoneSoFar
  <1>7. CASE ChangeUndone
    <2>1. /\ at = "undo" /\ at' = "undo" /\ k \in 1 .. N /\ k' = k - 1 /\ j' = 1
          /\ j = Len(Script(Now)) + 1
          /\ UNCHANGED <<source, patch>>
      BY <1>7 DEF ChangeUndone, Complete, PInv, TypeOK
    <2>2. Passed' = Passed \cup {k} /\ Written' = {} /\ Before(patch)' = Before(patch)
      BY <2>1 DEF Passed, Written, Before, Origins
    <2>3. Len(Script(Now)) \in Nat
      BY <2>1, ScriptWrites, PatchType DEF PInv, TypeOK, Now
    <2>4. ASSUME NEW f \in Touched(patch[k]) PROVE source[f] = Before(patch)[f]
      <3>1. PICK n \in 1 .. Len(Script(patch[k])) : Script(patch[k])[n].path = f
        BY <2>1, ScriptCovers DEF PInv, TypeOK
      <3>2. n \in Written
        BY <2>1, <2>3 DEF Written, Now
      <3> QED BY <1>3, <2>1, <3>1, <3>2 DEF UndoneSoFar, Now
    <2> QED BY <1>3, <2>1, <2>2, <2>4 DEF UndoneSoFar, Touched
  <1>8. CASE RecordUndone
    <2>1. at = "undo" /\ k = 0 /\ at' = "clearing" /\ UNCHANGED <<source, patch>>
      BY <1>8 DEF RecordUndone
    <2>2. Passed' = Passed /\ Before(patch)' = Before(patch)
      BY <2>1 DEF Passed, Before, Origins
    <2> QED BY <1>3, <2>1, <2>2 DEF UndoneSoFar, Touched
  <1>9. CASE UNCHANGED vars
    <2>1. UNCHANGED <<source, backup, copies, patch, at, k, j>>
      BY <1>9 DEF vars, place
    <2>2. /\ Before(patch)' = Before(patch) /\ Passed' = Passed
          /\ Now' = Now /\ Script(Now)' = Script(Now)
      BY <2>1 DEF Before, Origins, Passed, Now, Script, Mutation, Restoration, Reversal
    <2>3. Written' = Written
      BY <2>1, <2>2 DEF Written
    <2> QED BY <1>3, <2>1, <2>2, <2>3 DEF UndoneSoFar, Touched
  <1> QED BY <1>4, <1>5, <1>6, <1>7, <1>8, <1>9

\* The final verification looks at a tree that nothing writes to.
LEMMA VerifiedStep ==
  PInv /\ AInv /\ [Next]_vars /\ edited' = {} => VerifiedSoFar'
  <1> SUFFICES ASSUME PInv, AInv, [Next]_vars, edited' = {}, at' = "verify" PROVE VerifiedSoFar'
    BY DEF VerifiedSoFar
  <1>t. N \in Nat /\ N >= 1 /\ k \in Int
    BY PatchType DEF PInv, TypeOK
  <1>1. ~BeginApply /\ ~BeginUndo
    BY DEF BeginApply, BeginUndo, Goto
  <1>2. edited = {} /\ VerifiedSoFar /\ ~\E p \in Paths : Edit(p)
    BY <1>1, NobodyEdits DEF AInv
  <1>3. ChangeMade \/ Verify \/ UNCHANGED vars
    BY <1>1, <1>2 DEF Next, Step, Fault, ApplyStep, UndoStep, Preflight, Refuse, OpenPatch,
       AlreadyOpened, BackUp, BackedUp, Validate, WriteNext, RecordApplied, Restored,
       RecordFailure, Inspect, OpenRecovery, Capture, Captured, ChangeUndone, RecordUndone,
       ClearCopies, PutBack, RecordReversal,
       ChangeFails, FailChange, ApplyFails, CaptureFails, SettleFails, Die, Return, Goto
  <1>4. CASE ChangeMade
    <2>1. k' = 1
      BY <1>4 DEF ChangeMade, Goto
    <2> QED BY <2>1 DEF VerifiedSoFar
  <1>5. CASE Verify
    <2>1. at = "verify" /\ Made(patch[k]) /\ k' = k + 1 /\ UNCHANGED <<source, patch>>
      BY <1>5 DEF Verify, Goto, files, Now
    <2>2. \A i \in 1 .. N : Made(patch[i])' <=> Made(patch[i])
      BY <2>1 DEF Made
    <2>3. N' = N /\ \A i \in 1 .. N : i < k + 1 => i < k \/ i = k
      BY <1>t, <2>1 DEF N
    <2> QED BY <1>2, <2>1, <2>2, <2>3 DEF VerifiedSoFar
  <1>6. CASE UNCHANGED vars
    BY <1>2, <1>6 DEF vars, files, place, VerifiedSoFar, Made, N
  <1> QED BY <1>3, <1>4, <1>5, <1>6

\* Nothing counts as restored when a rollback begins.
LEMMA NoneRestoredStep == PInv /\ AInv /\ [Next]_vars => NoneRestored'
  <1> SUFFICES ASSUME PInv, NoneRestored, [Next]_vars PROVE NoneRestored'
    BY DEF AInv
  <1> USE DEF NoneRestored
  <1>1. CASE Restored \/ PutBack
    BY <1>1 DEF Restored, PutBack, Goto
  <1>2. CASE ChangeFails
    BY <1>2 DEF ChangeFails, FailChange, Goto
  <1>3. CASE RecordReversal
    BY <1>3 DEF RecordReversal, Return
  <1>4. CASE Inspect \/ Capture
    BY <1>4 DEF Inspect, Capture, Goto, Return
  <1>5. CASE ~(Restored \/ PutBack \/ ChangeFails \/ RecordReversal \/ Inspect \/ Capture)
    <2>1. restored' = {} \/ (restored' = restored /\ (at \in {"rollback", "reverse"} => at' = at))
      BY <1>5 DEF Next, Step, Fault, ApplyStep, UndoStep, vars, BeginApply, BeginUndo, Preflight,
         Refuse, OpenPatch, AlreadyOpened, BackUp, BackedUp, Validate, ChangeMade, Verify,
         RecordApplied, RecordFailure, OpenRecovery, Captured, ChangeUndone, RecordUndone,
         ClearCopies, WriteNext, ApplyFails, CaptureFails, SettleFails, Die, Edit, Return, Goto,
         progress, place
    <2> QED BY <2>1
  <1> QED BY <1>1, <1>2, <1>3, <1>4, <1>5

\* The copies are complete and true when undo begins to write, and only ever removed.
LEMMA CopiesStep == PInv /\ CInv /\ AInv /\ [Next]_vars => CopiesTrue'
  <1> SUFFICES ASSUME PInv, CInv, CopiesTrue, [Next]_vars, at' \in {"undo", "clearing", "reverse"}
               PROVE  CopiesTrue'
    BY DEF AInv, CopiesTrue
  <1>t. N \in Nat /\ k \in Int
    BY PatchType DEF PInv, TypeOK
  <1>p. patch' = patch
    BY DEF Next, Step, Fault, ApplyStep, UndoStep, vars, BackUp, BeginApply, Preflight, Refuse,
         OpenPatch, AlreadyOpened, BackedUp, Validate, ChangeMade, Verify, RecordApplied,
         Restored, RecordFailure, BeginUndo, Inspect, OpenRecovery, Capture, Captured,
         ChangeUndone, RecordUndone, ClearCopies, PutBack, RecordReversal, WriteNext, ChangeFails,
         ApplyFails, CaptureFails, SettleFails, Die, Edit
  <1>1. CASE Captured
    <2>1. at = "capture" /\ k = N + 1 /\ copies' = copies
      BY <1>1 DEF Captured, files
    <2>2. \A i \in 1 .. N : i \notin Uncopied
      BY <1>t, <2>1 DEF CInv
    <2> QED BY <1>p, <2>1, <2>2 DEF CopiesTrue, Uncopied, N
  <1>2. CASE ~Captured
    <2>1. at \in {"undo", "clearing", "reverse"}
      BY <1>2 DEF Next, Step, Fault, ApplyStep, UndoStep, vars, BeginApply, BeginUndo, Preflight,
         Refuse, OpenPatch, AlreadyOpened, BackUp, BackedUp, Validate, ChangeMade, Verify,
         RecordApplied, RecordFailure, Inspect, OpenRecovery, Capture, ChangeUndone, RecordUndone,
         ClearCopies, WriteNext, ApplyFails, CaptureFails, SettleFails, Die, Edit, Return, Goto,
         place, Restored, PutBack, RecordReversal, ChangeFails, FailChange
    <2>2. CASE SettleFails
      <3>1. \A f \in Paths : copies'[f] \in {copies[f], "missing"}
        BY <2>2 DEF SettleFails, PInv, TypeOK
      <3>2. \A i \in 1 .. N : patch[i].path \in Paths
        BY PatchFiles DEF PInv, TypeOK
      <3> QED BY <1>p, <2>1, <3>1, <3>2 DEF CopiesTrue, N
    <2>3. CASE ~SettleFails
      <3>1. copies' = copies
        BY <1>2, <2>1, <2>3 DEF Next, Step, Fault, ApplyStep, UndoStep, vars, BeginApply, BeginUndo,
           Preflight, Refuse, OpenPatch, AlreadyOpened, BackUp, BackedUp, Validate, ChangeMade,
           Verify, RecordApplied, RecordFailure, Inspect, OpenRecovery, Capture, ChangeUndone,
           RecordUndone, ClearCopies, WriteNext, ApplyFails, CaptureFails, Die, Edit, Return,
           Goto, files, Restored, PutBack, RecordReversal, ChangeFails
      <3> QED BY <1>p, <2>1, <3>1 DEF CopiesTrue, N
    <2> QED BY <2>2, <2>3
  <1> QED BY <1>1, <1>2

\* An answer that asks for recovery is remembered, and no other is.
LEMMA ReturnAsked ==
  ASSUME NEW status, NEW recovery \in BOOLEAN, Return(status, recovery)
  PROVE  /\ told.asked => told'.asked
         /\ recovery => told'.asked
  <1>1. told'.asked = (told.asked \/ recovery)
    BY DEF Return
  <1> QED BY <1>1, Zenon

\* A tree in which undo has passed every change is the one the review saw.
LEMMA AllUndone ==
  ASSUME PInv, at = "clearing", CheckedStart, UndoneSoFar
  PROVE  IsUnapplied
  <1> SUFFICES ASSUME NEW i \in 1 .. N PROVE Valid(patch[i])
    BY DEF IsUnapplied
  <1>1. \A n \in 1 .. N : MadeIn(start, patch[n])
    BY DEF CheckedStart
  <1>2. /\ patch[i].kind \in {"added", "renamed"} => Before(patch)[patch[i].path] = "missing"
        /\ patch[i].kind # "added" => Before(patch)[patch[i].from] = "before"
    BY <1>1, NoDestinationSeen DEF PInv, TypeOK
  <1>3. /\ source[patch[i].path] = Before(patch)[patch[i].path]
        /\ source[patch[i].from] = Before(patch)[patch[i].from]
    BY DEF UndoneSoFar, Passed, Touched
  <1> QED BY <1>2, <1>3 DEF Valid

\* A rollback that has restored, or put back, all it had to leaves what the call began with.
LEMMA AllAsItWas ==
  ASSUME PInv, OnlyBlamed,
         \/ at = "rollback" /\ AllRestored
         \/ at = "reverse" /\ AllPutBack
  PROVE  source = start
  <1>1. N \in Nat /\ reached \in 0 .. N
    BY PatchType DEF PInv, TypeOK
  <1>2. Blamed = {}
    BY <1>1 DEF Blamed, AllRestored, AllPutBack
  <1> QED BY <1>2, NothingChanged DEF PInv

\* A call that returns has done all of what it reports or nothing.
LEMMA AtomicStep == PInv /\ AInv /\ [Next]_vars => CallAtomic'
  <1> SUFFICES ASSUME PInv, AInv, [Next]_vars, at' = "idle", edited' = {}, ~told'.recovery
               PROVE  CallAtomic'
    BY DEF CallAtomic
  <1>t. N \in Nat /\ k \in Int
    BY PatchType DEF PInv, TypeOK
  <1>1. ~BeginApply /\ ~BeginUndo
    BY DEF BeginApply, BeginUndo, Goto
  <1>2. edited = {} /\ start' = start /\ ~\E p \in Paths : Edit(p)
    BY <1>1, NobodyEdits
  <1>3. CheckedStart /\ OnlyBlamed /\ UndoneSoFar /\ VerifiedSoFar
    BY <1>2 DEF AInv
  <1>4. ASSUME source' = source, source = start, told'.status \notin {"applied", "undone"}
        PROVE  CallAtomic'
    BY <1>2, <1>4 DEF CallAtomic
  <1>5. ASSUME at \in {"preflight", "inspect", "capture"} PROVE source = start
    BY <1>3, <1>5, NothingChanged DEF Blamed, PInv
  <1>6. CASE Refuse \/ AlreadyOpened \/ CaptureFails
    <2>1. /\ source' = source /\ at \in {"preflight", "inspect", "capture"}
          /\ told'.status = "failed"
      BY <1>6 DEF Refuse, AlreadyOpened, CaptureFails, Return, files
    <2> QED BY <1>4, <1>5, <2>1
  <1>7. CASE Inspect \/ Capture
    <2>1. /\ source' = source /\ at \in {"inspect", "capture"}
          /\ told'.status \in {"failed", "conflict"}
      BY <1>7 DEF Inspect, Capture, Return, Goto, files
    <2> QED BY <1>4, <1>5, <2>1
  <1>8. CASE RecordApplied
    <2>1. /\ at = "verify" /\ k = N + 1 /\ UNCHANGED <<source, patch>>
          /\ told'.status = "applied"
      BY <1>8 DEF RecordApplied, Return
    <2>2. IsApplied
      BY <1>3, <1>t, <2>1 DEF VerifiedSoFar, IsApplied
    <2>3. IsApplied'
      BY <2>1, <2>2 DEF IsApplied, Made, N
    <2> QED BY <2>1, <2>3 DEF CallAtomic
  <1>9. CASE ClearCopies
    <2>1. at = "clearing" /\ UNCHANGED <<source, patch>> /\ told'.status = "undone"
      BY <1>9 DEF ClearCopies, Return
    <2>2. IsUnapplied
      BY <1>3, <2>1, AllUndone
    <2>3. IsUnapplied'
      BY <2>1, <2>2 DEF IsUnapplied, Valid, N
    <2> QED BY <2>1, <2>3 DEF CallAtomic
  <1>10. CASE RecordFailure
    <2>1. /\ at = "rollback" /\ AllRestored /\ source' = source /\ told'.status = "failed"
      BY <1>10 DEF RecordFailure, Return
    <2> QED BY <1>3, <1>4, <2>1, AllAsItWas
  <1>11. CASE RecordReversal
    <2>1. /\ at = "reverse" /\ AllPutBack /\ source' = source
          /\ told'.status \in {"failed", "undo-rolled-back"}
      BY <1>11 DEF RecordReversal, Return
    <2> QED BY <1>3, <1>4, <2>1, AllAsItWas
  <1>12. CASE Die
    BY <1>12 DEF Die, Return, CallAtomic
  <1>13. CASE UNCHANGED vars
    BY <1>13 DEF vars, files, place, observers, AInv, CallAtomic, IsApplied, IsUnapplied, Made,
       Valid, N
  <1> QED
    BY <1>1, <1>2, <1>6, <1>7, <1>8, <1>9, <1>10, <1>11, <1>12, <1>13 DEF Next, Step, Fault,
       ApplyStep, UndoStep, Preflight, OpenPatch, BackUp, BackedUp, Validate, ChangeMade, Verify,
       Restored, OpenRecovery, Captured, ChangeUndone, RecordUndone, PutBack, WriteNext,
       ChangeFails, FailChange, ApplyFails, SettleFails, Goto

\* Every step keeps this.
LEMMA AInvStep == PInv /\ SInv /\ CInv /\ AInv /\ [Next]_vars => AInv'
BY CheckedStep, BlamedStep, UndoneStep, VerifiedStep, NoneRestoredStep, CopiesStep, AtomicStep
   DEF AInv

\* At first nothing has been called.
LEMMA InitAInv == Init => AInv
BY DEF Init, AInv, NoneRestored, CopiesTrue, CheckedStart, OnlyBlamed, UndoneSoFar, Passed,
   VerifiedSoFar, CallAtomic, Nothing

\* A call of apply or undo that did not die, that nobody edited into and that asks for no
\* recovery has done all of what it reports or nothing: for every patch, and whichever
\* operations failed at whichever point of it.
THEOREM PatchCallAtomic == Spec => []CallAtomic
  <1>1. Init => HInv /\ SInv /\ CInv
    BY DEF Init, HInv, SInv, CInv, NoRecord
  <1>2. AInv => CallAtomic
    BY DEF AInv
  <1> QED BY <1>1, <1>2, InitPInv, InitAInv, PInvStep, HInvStep, SInvStep, CInvStep, AInvStep,
          PTL DEF Spec

\* The record of a finished operation tells the state of the tree: every step keeps it.
LEMMA RInvStep == PInv /\ HInv /\ AInv /\ RInv /\ [Next]_vars => RInv'
  <1> SUFFICES ASSUME PInv, HInv, AInv, RInv, [Next]_vars PROVE RInv'
    OBVIOUS
  <1>t. /\ edits \in Nat /\ crashes \in Nat /\ record \in Records /\ told \in Answers
    BY DEF PInv, TypeOK
  <1>1. CASE \E p \in Paths : Edit(p)
    <2>1. edits' = edits + 1 /\ record' = record /\ at' = at
      BY <1>1 DEF Edit, place
    <2> QED BY <1>t, <2>1 DEF RInv
  <1>2. CASE Die
    <2>1. crashes' = crashes + 1 /\ record' \in {record, NoRecord} /\ at' = "idle"
          /\ edits' = edits /\ edited' = edited
      BY <1>2 DEF Die, Return, Goto, observers
    <2> QED BY <1>t, <2>1 DEF RInv, NoRecord
  <1>3. CASE WriteNext
    <2>1. /\ at \in {"mutate", "rollback", "undo", "reverse"}
          /\ UNCHANGED <<record, at, edits, edited>>
      BY <1>3 DEF WriteNext, counters, observers
    <2>2. record.transaction # "rolled-back"
      BY <2>1 DEF RInv
    <2>3. at \in {"mutate", "rollback"} => record.status # "applied"
      BY DEF HInv
    <2> QED BY <2>1, <2>2, <2>3 DEF RInv
  <1> SUFFICES ASSUME ~(\E p \in Paths : Edit(p)), ~Die, ~WriteNext PROVE RInv'
    BY <1>1, <1>2, <1>3
  <1>r. ASSUME RecordReversal
        PROVE  /\ at = "reverse" /\ at' = "idle"
               /\ record' \in {Reversed, record, NoRecord}
               /\ told.asked => told'.asked
               /\ ~told'.asked => AllPutBack
    <2>1. /\ at = "reverse" /\ record' \in {Reversed, record, NoRecord}
          /\ \/ AllPutBack /\ Return("failed", FALSE)
             \/ AllPutBack /\ Return("undo-rolled-back", FALSE)
             \/ ~AllPutBack /\ Return("undo-rollback-failed", TRUE)
      BY <1>r DEF RecordReversal
    <2>2. at' = "idle"
      BY <2>1 DEF Return, Goto
    <2> QED BY <2>1, <2>2, ReturnAsked
  <1>a. told.asked => told'.asked
    <2>1. CASE RecordReversal
      BY <1>r, <2>1
    <2>2. CASE \/ Refuse \/ AlreadyOpened \/ RecordApplied \/ RecordFailure \/ ClearCopies
               \/ CaptureFails
      BY <2>2, ReturnAsked DEF Refuse, AlreadyOpened, RecordApplied, RecordFailure, ClearCopies,
         CaptureFails
    <2>3. CASE Inspect \/ Capture
      BY <2>3, ReturnAsked DEF Inspect, Capture
    <2>4. CASE ~(RecordReversal \/ Refuse \/ AlreadyOpened \/ RecordApplied \/ RecordFailure
                 \/ ClearCopies \/ CaptureFails \/ Inspect \/ Capture)
      <3>1. told' = told
        BY <2>4 DEF Next, Step, Fault, ApplyStep, UndoStep, vars, BeginApply, BeginUndo,
           Preflight, OpenPatch, BackUp, BackedUp, Validate, ChangeMade, Verify, Restored,
           OpenRecovery, Captured, ChangeUndone, RecordUndone, PutBack, ChangeFails, ApplyFails,
           SettleFails, progress
      <3> QED BY <3>1
    <2> QED BY <2>1, <2>2, <2>3, <2>4
  <1>4. /\ UNCHANGED <<source, patch, edits, crashes>>
        /\ told.asked => told'.asked
        /\ edited' = edited \/ edited' = {}
    BY <1>a DEF Next, Step, Fault, ApplyStep, UndoStep, vars, BeginApply, BeginUndo, Preflight,
       Refuse, OpenPatch, AlreadyOpened, BackUp, BackedUp, Validate, ChangeMade, Verify, RecordApplied,
       Restored, RecordFailure, Inspect, OpenRecovery, Capture, Captured, ChangeUndone,
       RecordUndone, ClearCopies, PutBack, RecordReversal, ChangeFails, ApplyFails, CaptureFails,
       SettleFails, files, counters, observers
  <1>5. (IsApplied' <=> IsApplied) /\ (IsUnapplied' <=> IsUnapplied)
    BY <1>4 DEF IsApplied, IsUnapplied, Made, Valid, N
  <1>6. edits = 0 => edited = {} /\ edited' = {}
    BY <1>4 DEF RInv
  <1>7. edits = 0 /\ edited' = {} => CallAtomic' /\ edited = {} /\ CheckedStart /\ OnlyBlamed
    BY <1>6, AtomicStep DEF AInv
  <1>8. CASE RecordApplied
    <2>1. /\ at' = "idle" /\ told'.status = "applied" /\ ~told'.recovery
          /\ record' = [status |-> "applied", transaction |-> "applied"]
      BY <1>8 DEF RecordApplied, Return, Goto
    <2> QED BY <1>4, <1>6, <1>7, <2>1 DEF RInv, CallAtomic
  <1>9. CASE RecordFailure
    <2>1. /\ at = "rollback" /\ at' = "idle" /\ (~told'.asked => AllRestored)
          /\ record' \in {RolledBack, record, NoRecord}
      BY <1>9 DEF RecordFailure, Return, Goto
    <2>2. record.status = "none" /\ record.transaction # "rolled-back"
      BY <2>1 DEF HInv, RInv
    <2>3. /\ record'.status # "applied"
          /\ record'.transaction = "rolled-back" => record'.status = "apply-failed"
      BY <2>1, <2>2 DEF RolledBack, NoRecord
    <2>4. ASSUME edits = 0, ~told'.asked PROVE IsUnapplied
      <3>1. source = start
        BY <1>6, <1>7, <2>1, <2>4, AllAsItWas
      <3>2. \A i \in 1 .. N : ValidIn(start, patch[i])
        BY <1>6, <1>7, <2>1, <2>4 DEF CheckedStart
      <3> QED BY <3>1, <3>2 DEF IsUnapplied, Valid, ValidIn
    <2> QED BY <1>4, <1>5, <1>6, <2>1, <2>3, <2>4 DEF RInv
  <1>10. CASE RecordReversal
    <2>1. /\ at = "reverse" /\ at' = "idle" /\ (~told'.asked => AllPutBack)
          /\ record' \in {Reversed, record, NoRecord}
      BY <1>r, <1>10
    <2>2. record'.transaction # "rolled-back"
      BY <1>t, <2>1 DEF RInv, Reversed, NoRecord, PInv, TypeOK, Records
    <2>3. ASSUME edits = 0, ~told'.asked PROVE IsApplied
      <3>1. source = start
        BY <1>6, <1>7, <2>1, <2>3, AllAsItWas
      <3>2. \A i \in 1 .. N : MadeIn(start, patch[i])
        BY <1>6, <1>7, <2>1, <2>3 DEF CheckedStart
      <3> QED BY <3>1, <3>2 DEF IsApplied, Made, MadeIn
    <2> QED BY <1>4, <1>5, <1>6, <2>1, <2>2, <2>3 DEF RInv
  <1>11. CASE RecordUndone \/ SettleFails
    <2>1. /\ at \in {"undo", "clearing"} /\ at' \in {"clearing", "reverse"}
          /\ record' \in {Undone, record, NoRecord}
          /\ at' = "clearing" => record' = Undone
      BY <1>11 DEF RecordUndone, SettleFails, Goto
    <2>2. record'.transaction # "rolled-back"
      BY <2>1 DEF RInv, Undone, NoRecord
    <2> QED BY <1>4, <1>6, <2>1, <2>2 DEF RInv, Undone
  <1>12. CASE ~(RecordApplied \/ RecordFailure \/ RecordReversal \/ RecordUndone \/ SettleFails)
    <2>1. /\ record' = record
          /\ at \in {"undo", "reverse"} => at' \in {"undo", "reverse"}
      BY <1>12 DEF Next, Step, Fault, ApplyStep, UndoStep, vars, BeginApply, BeginUndo, Preflight,
         Refuse, OpenPatch, AlreadyOpened, BackUp, BackedUp, Validate, ChangeMade, Verify,
         Restored, Inspect, OpenRecovery, Capture, Captured, ChangeUndone, ClearCopies, PutBack,
         ChangeFails, FailChange, ApplyFails, CaptureFails, Return, Goto, files, place
    <2>2. ASSUME at \in {"idle", "preflight"}, at' \notin {"idle", "preflight"}
          PROVE  record.status # "apply-failed"
      <3>1. OpenPatch \/ BeginUndo
        BY <1>12, <2>2 DEF Next, Step, Fault, ApplyStep, UndoStep, vars, BeginApply, Preflight,
           Refuse, AlreadyOpened, BackUp, BackedUp, Validate, ChangeMade, Verify,
           Restored, Inspect, OpenRecovery, Capture, Captured, ChangeUndone, ClearCopies, PutBack,
           ChangeFails, ApplyFails, CaptureFails, Return, Goto, place
      <3> QED BY <3>1 DEF OpenPatch, Unused, BeginUndo, HInv
    <2> QED BY <1>4, <1>5, <1>6, <2>1, <2>2 DEF RInv
  <1> QED BY <1>8, <1>9, <1>10, <1>11, <1>12

\* The record of a patch that says applied, or rolled back, is true of the tree: for every
\* patch, in a tree nobody edits, while no operation has died or asked for recovery.
THEOREM PatchRecordTells == Spec => []RecordTells
  <1>1. Init => HInv /\ SInv /\ CInv /\ RInv
    BY DEF Init, HInv, SInv, CInv, RInv, NoRecord
  <1>2. RInv => RecordTells
    BY DEF RInv, RecordTells
  <1> QED BY <1>1, <1>2, InitPInv, InitAInv, PInvStep, HInvStep, SInvStep, CInvStep, AInvStep,
          RInvStep, PTL DEF Spec
=============================================================================
