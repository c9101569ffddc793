----------------------- MODULE BackgroundWorkerProofs -----------------------
(***************************************************************************)
(* Proofs about the background worker for every set of items, every        *)
(* configuration and any number of exits and failing writes: the inductive *)
(* invariant of its accounting, its types, that completed means published, *)
(* and what that invariant is for: the worker implements CallBudget, its   *)
(* run never gives up with work left, it never takes back an item it       *)
(* completed, leaves nothing half done when it resolves, and has every     *)
(* call under way on record.                                               *)
(***************************************************************************)
EXTENDS BackgroundWorker, FiniteSetTheorems, TLAPS

-----------------------------------------------------------------------------
(* The inductive invariant.                                                *)

TasksOf(k) == {i \in Items : task[i] # "off" /\ KindOf[i] = k}

\* active[kind] is the number of tasks of that kind in flight.
SlotsCounted == \A k \in Kinds : active[k] = Cardinality(TasksOf(k))

\* Until its outcome is decided, a launched item is processing in memory.
LaunchedProcessing ==
  \A i \in Items :
    task[i] \in {"running", "staging", "publishing"} => mem[i] = "processing"

\* An item that nothing hands off and that is pending has no task.
PendingIdle == \A i \in Items \ HandedOver : mem[i] = "pending" => task[i] = "off"

\* What is left of a snapshot is still pending.
BatchPending == \A i \in batch : mem[i] = "pending"

\* What was checked before a reservation still holds when its write lands.
Reservation ==
  phase = "reserving" =>
    \A w \in cur :
      /\ w.status = "processing"
      /\ mem[w.item] = "processing"
      /\ task[w.item] = "off"
      /\ calls < MaxCalls
      /\ active[KindOf[w.item]] < Limit(KindOf[w.item])
      /\ Summarizes(w.item) => ~circuit

\* Without a process there is nothing in memory and nothing in flight.
DownIdle ==
  phase = "down" =>
    /\ mem = NoRecords /\ batch = {} /\ cur = {}
    /\ \A i \in Items : task[i] = "off"
    /\ \A d \in DocItems : proc[d] = "off"

IInv ==
  /\ TypeOK
  /\ SlotsCounted
  /\ LaunchedProcessing
  /\ PendingIdle
  /\ BatchPending
  /\ Reservation
  /\ DownIdle

-----------------------------------------------------------------------------
(* Lemmas about the operators of the model.                                *)

\* Math.max(1, n) is between one and what the configuration says or one.
LEMMA LimitPositive == \A k \in Kinds : Limit(k) \in Nat /\ Limit(k) >= 1
  BY WorkerAssumption DEF Limit

\* The kinds that the circuit and the hand-off concern run one call at a time.
LEMMA SingleLimit == Limit("ocr") = 1 /\ Limit("summarize-local") = 1
  BY WorkerAssumption DEF Limit, Kinds

\* The public status of any records is a status.
LEMMA ShownType == ASSUME NEW records PROVE Shown(records) \in Status
  BY DEF Shown, Status

LEMMA NoViewType == NoView \in Status
  BY DEF NoView, Status

\* The OCR item of a document is an OCR item.
LEMMA OcrOfType == \A d \in DocItems : d \in Items /\ OcrOf[d] \in Items /\ KindOf[OcrOf[d]] = "ocr"
  BY WorkerAssumption DEF DocItems

\* The tasks of a kind are finitely many, and a task in flight holds a slot.
LEMMA SlotsFinite == \A k : IsFiniteSet(TasksOf(k))
  <1>1. TAKE k
  <1>2. TasksOf(k) \subseteq Items
    BY DEF TasksOf
  <1> QED
    BY <1>2, WorkerAssumption, FS_Subset

LEMMA TaskHoldsSlot ==
  ASSUME TypeOK, SlotsCounted, NEW i \in Items, task[i] # "off"
  PROVE  KindOf[i] \in Kinds /\ active[KindOf[i]] >= 1
  <1>1. KindOf[i] \in Kinds
    BY WorkerAssumption
  <1>2. i \in TasksOf(KindOf[i])
    BY DEF TasksOf
  <1>3. Cardinality(TasksOf(KindOf[i])) # 0
    BY <1>2, SlotsFinite, FS_EmptySet
  <1>4. Cardinality(TasksOf(KindOf[i])) \in Nat
    BY SlotsFinite, FS_CardinalityType
  <1> QED
    BY <1>1, <1>3, <1>4 DEF SlotsCounted

-----------------------------------------------------------------------------
(* Type correctness.                                                       *)

LEMMA InitIInv == Init => IInv
  <1> SUFFICES ASSUME Init PROVE IInv
    OBVIOUS
  <1>1. TypeOK
    <2>1. disk \in [Items -> Slot] /\ NoRecords \in [Items -> Slot]
      BY DEF Init, NoRecords, Slot, Statuses
    <2>2. NoView \in Status
      BY DEF NoView, Status
    <2>3. exits \in Nat /\ faults \in Nat
      BY WorkerAssumption DEF Init
    <2> QED
      BY <2>1, <2>2, <2>3 DEF Init, TypeOK, Phases, TaskPlaces
  <1>2. SlotsCounted
    <2>1. \A k \in Kinds : TasksOf(k) = {}
      BY DEF Init, TasksOf
    <2> QED
      BY <2>1, FS_EmptySet DEF Init, SlotsCounted
  <1>3. LaunchedProcessing /\ PendingIdle /\ BatchPending /\ Reservation /\ DownIdle
    BY DEF Init, LaunchedProcessing, PendingIdle, BatchPending, Reservation, DownIdle
  <1> QED
    BY <1>1, <1>2, <1>3 DEF IInv

\* The write the loop awaited leaves a record of some item.
LEMMA LoopRecordedType ==
  ASSUME TypeOK, LoopRecorded
  PROVE  disk' \in [Items -> Slot] /\ cur' = {}
  <1>1. ASSUME NEW i \in Items, \E w \in cur : w.item = i
        PROVE  (CHOOSE w \in cur : w.item = i).status \in Slot
    BY <1>1 DEF TypeOK, Slot
  <1> QED
    BY <1>1 DEF LoopRecorded, TypeOK

\* finalize leaves the tables it writes well typed.
LEMMA FinalizeType ==
  ASSUME TypeOK, NEW i \in Items, NEW s \in Statuses, Finalize(i, s)
  PROVE  /\ mem' \in [Items -> Slot]
         /\ saving' \in [Items -> Slot]
         /\ task' \in [Items -> TaskPlaces]
  BY DEF Finalize, TypeOK, Slot, TaskPlaces

LEMMA TypeStep == IInv /\ [WorkerNext]_workerVars => TypeOK'
  <1> SUFFICES ASSUME IInv, [WorkerNext]_workerVars PROVE TypeOK'
    OBVIOUS
  <1> USE DEF files, loop, tasks, shared, bounds, Slot, Statuses, Phases, TaskPlaces
  <1>0. TypeOK
    BY DEF IInv
  <1>1. CASE StartRun
    BY <1>0, <1>1 DEF StartRun, TypeOK, Recovered
  <1>2. CASE TakeSnapshot
    BY <1>0, <1>2 DEF TakeSnapshot, TypeOK, Pending
  <1>3. CASE Abort
    BY <1>0, <1>3 DEF Abort, TypeOK
  <1>4. ASSUME NEW i \in Items, Reserve(i) PROVE TypeOK'
    BY <1>0, <1>4 DEF Reserve, Reaches, LoopUpdate, TypeOK
  <1>5. ASSUME NEW i \in Items, Launch(i) PROVE TypeOK'
    <2>1. disk' \in [Items -> Slot] /\ cur' = {}
      BY <1>0, <1>5, LoopRecordedType DEF Launch
    <2>2. /\ mem' \in [Items -> Slot]
          /\ saving' \in [Items -> Slot]
          /\ task' \in [Items -> TaskPlaces]
      BY <1>0, <1>5, FinalizeType DEF Launch, TypeOK
    <2>3. trip' \subseteq {j \in Items : Summarizes(j)}
      BY <1>0, <1>5 DEF Launch, TypeOK, Trips
    <2>4. proc' \in [DocItems -> {"off", "running", "enqueuing"}]
      BY <1>0, <1>5 DEF Launch, TypeOK
    <2>5. active' \in [Kinds -> Nat] /\ calls' \in Nat
      BY <1>0, <1>5, WorkerAssumption DEF Launch, TypeOK
    <2> QED
      BY <1>0, <1>5, <2>1, <2>2, <2>3, <2>4, <2>5 DEF Launch, TypeOK
  <1>6. ASSUME NEW i \in Items, TaskEnds(i) PROVE TypeOK'
    <2>1. KindOf[i] \in Kinds /\ active[KindOf[i]] >= 1
      BY <1>6, TaskHoldsSlot DEF IInv, TaskEnds
    <2> QED
    BY <1>0, <2>1, <1>6 DEF TaskEnds, TypeOK
  <1>7. CASE NothingLeft \/ SeeAbort \/ EndPass \/ Drained
    BY <1>0, <1>7 DEF NothingLeft, SeeAbort, EndPass, Drained, Pending, TypeOK
  <1>8. CASE MarkRecorded
    BY <1>0, <1>8, LoopRecordedType, ShownType DEF MarkRecorded, TypeOK
  <1>9. CASE DrainRecorded
    BY <1>0, <1>9, LoopRecordedType DEF DrainRecorded, TypeOK
  <1>10. CASE MarkShown \/ Resolve \/ Close
    BY <1>0, <1>10, ShownType, NoViewType DEF MarkShown, Resolve, Close, TypeOK
  <1>11. ASSUME NEW i \in Items, CancelPending(i) \/ Shed(i) \/ DrainOne(i) PROVE TypeOK'
    <2>1. CASE CancelPending(i)
      BY <1>0, <2>1 DEF CancelPending, Reaches, LoopUpdate, TypeOK
    <2>2. CASE Shed(i)
      BY <1>0, <2>2 DEF Shed, Reaches, LoopUpdate, TypeOK
    <2>3. CASE DrainOne(i)
      BY <1>0, <2>3 DEF DrainOne, LoopUpdate, TypeOK
    <2> QED
      BY <1>11, <2>1, <2>2, <2>3
  <1>12. ASSUME NEW i \in Items, ReturnText(i) \/ ThrowError(i) \/ ThrowUnavailable(i) \/ Timeout(i)
         PROVE  TypeOK'
    <2>1. /\ mem' \in [Items -> Slot]
          /\ saving' \in [Items -> Slot]
          /\ task' \in [Items -> TaskPlaces]
      BY <1>0, <1>12, FinalizeType
      DEF ReturnText, ThrowError, ThrowUnavailable, Timeout, TypeOK
    <2>2. /\ trip' \subseteq {j \in Items : Summarizes(j)}
          /\ proc' \in [DocItems -> {"off", "running", "enqueuing"}]
      BY <1>0, <1>12 DEF ReturnText, ThrowError, ThrowUnavailable, Timeout, Answers, Trips, TypeOK
    <2> QED
      BY <1>0, <1>12, <2>1, <2>2
      DEF ReturnText, ThrowError, ThrowUnavailable, Timeout, OutcomeFrame, TaskFrame, TypeOK
  <1>13. ASSUME NEW i \in Items, StageArtifact(i) \/ PublishArtifact(i) PROVE TypeOK'
    <2>1. /\ mem' \in [Items -> Slot]
          /\ saving' \in [Items -> Slot]
          /\ task' \in [Items -> TaskPlaces]
      BY <1>0, <1>13, FinalizeType DEF StageArtifact, PublishArtifact, TypeOK
    <2> QED
      BY <1>0, <1>13, <2>1 DEF StageArtifact, PublishArtifact, TaskFrame, TypeOK
  <1>14. ASSUME NEW i \in Items, TaskRecorded(i) PROVE TypeOK'
    BY <1>0, <1>14, ShownType DEF TaskRecorded, TaskFrame, TypeOK
  <1>15. ASSUME NEW i \in Items, TaskShown(i) \/ TaskWriteFails(i) PROVE TypeOK'
    BY <1>0, <1>15, NoViewType DEF TaskShown, TaskWriteFails, TypeOK
  <1>16. ASSUME NEW d \in DocItems,
                HandOff(d) \/ HandedOff(d) \/ HandOffDedupes(d) \/ LateAnswer(d) \/ EnqueueWriteFails(d)
         PROVE  TypeOK'
    <2>1. d \in Items /\ OcrOf[d] \in Items
      BY OcrOfType
    <2>2. /\ mem' \in [Items -> Slot]
          /\ saving' \in [Items -> Slot]
          /\ task' \in [Items -> TaskPlaces]
      BY <1>0, <1>16, <2>1, FinalizeType
      DEF HandOff, HandedOff, HandOffDedupes, LateAnswer, EnqueueWriteFails, KeepLocalIfHeard, TypeOK
    <2>3. /\ disk' \in [Items -> Slot]
          /\ proc' \in [DocItems -> {"off", "running", "enqueuing"}]
      BY <1>0, <1>16, <2>1
      DEF HandOff, HandedOff, HandOffDedupes, LateAnswer, EnqueueWriteFails, OutcomeFrame, TypeOK
    <2> QED
      BY <1>0, <1>16, <2>2, <2>3
      DEF HandOff, HandedOff, HandOffDedupes, LateAnswer, EnqueueWriteFails, OutcomeFrame,
          TaskFrame, TypeOK
  <1>17. CASE LoopWriteFails
    BY <1>0, <1>17 DEF LoopWriteFails, TypeOK
  <1>20. CASE BudgetRunsOut
    BY <1>0, <1>20 DEF BudgetRunsOut, TypeOK
  <1>18. CASE ProcessExits
    <2>1. NoRecords \in [Items -> Slot]
      BY DEF NoRecords
    <2>2. /\ task' \in [Items -> TaskPlaces]
          /\ view' \in [Items -> Status]
          /\ proc' \in [DocItems -> {"off", "running", "enqueuing"}]
          /\ active' \in [Kinds -> Nat]
      BY <1>18, NoViewType DEF ProcessExits
    <2>3. /\ mem' \in [Items -> Slot] /\ saving' \in [Items -> Slot]
          /\ loopView' \in Status
      BY <1>18, <2>1, NoViewType DEF ProcessExits
    <2>4. /\ phase' \in Phases /\ batch' = {} /\ cur' = {} /\ trip' = {} /\ calls' = 0
          /\ progressed' = FALSE /\ circuit' = FALSE /\ aborted' = FALSE /\ budgetSpent' = FALSE
          /\ exits' \in Nat /\ UNCHANGED <<files, faults>>
      BY <1>0, <1>18 DEF ProcessExits, TypeOK
    <2> QED
      BY <1>0, <2>2, <2>3, <2>4 DEF TypeOK
  <1>19. CASE UNCHANGED workerVars
    BY <1>0, <1>19 DEF workerVars, TypeOK
  <1> QED
    BY <1>1, <1>2, <1>3, <1>4, <1>5, <1>6, <1>7, <1>8, <1>9, <1>10, <1>11, <1>12, <1>13, <1>14,
       <1>15, <1>16, <1>17, <1>18, <1>19, <1>20
    DEF WorkerNext, LoopStep, TaskStep, ProcessorStep, ExtractionStep, FaultStep

-----------------------------------------------------------------------------
(* The other conjuncts of the invariant.                                   *)

\* Steps that neither start nor end a task keep the count.
LEMMA SameSlots ==
  ASSUME SlotsCounted, active' = active,
         \A j \in Items : task'[j] = "off" <=> task[j] = "off"
  PROVE  SlotsCounted'
  <1>1. \A k \in Kinds : TasksOf(k)' = TasksOf(k)
    BY DEF TasksOf
  <1> QED
    BY <1>1 DEF SlotsCounted

LEMMA SlotsStep == IInv /\ [WorkerNext]_workerVars => SlotsCounted'
  <1> SUFFICES ASSUME IInv, [WorkerNext]_workerVars PROVE SlotsCounted'
    OBVIOUS
  <1> USE DEF tasks, shared
  <1>0. TypeOK /\ SlotsCounted
    BY DEF IInv
  <1>1. CASE UNCHANGED <<task, active>>
    BY <1>0, <1>1, SameSlots
  <1>2. ASSUME NEW i \in Items, Launch(i) PROVE SlotsCounted'
    <2>1. KindOf[i] \in Kinds /\ task[i] = "off"
      BY <1>2, WorkerAssumption DEF IInv, Reservation, Launch
    <2>2. active' = [active EXCEPT ![KindOf[i]] = @ + 1]
      BY <1>2 DEF Launch
    <2>3. task'[i] # "off" /\ \A j \in Items \ {i} : task'[j] = task[j]
      BY <1>0, <1>2 DEF Launch, Finalize, TypeOK
    <2>4. TasksOf(KindOf[i])' = TasksOf(KindOf[i]) \cup {i} /\ i \notin TasksOf(KindOf[i])
      BY <2>1, <2>3 DEF TasksOf
    <2>5. \A k \in Kinds \ {KindOf[i]} : TasksOf(k)' = TasksOf(k)
      BY <2>3 DEF TasksOf
    <2>6. Cardinality(TasksOf(KindOf[i])') = Cardinality(TasksOf(KindOf[i])) + 1
      BY <2>4, SlotsFinite, FS_AddElement
    <2> QED
      BY <1>0, <2>1, <2>2, <2>5, <2>6 DEF SlotsCounted, TypeOK
  <1>3. ASSUME NEW i \in Items, TaskEnds(i) PROVE SlotsCounted'
    <2>1. KindOf[i] \in Kinds /\ task[i] # "off"
      BY <1>3, WorkerAssumption DEF TaskEnds
    <2>2. active' = [active EXCEPT ![KindOf[i]] = @ - 1]
      BY <1>3 DEF TaskEnds
    <2>3. task'[i] = "off" /\ \A j \in Items \ {i} : task'[j] = task[j]
      BY <1>0, <1>3 DEF TaskEnds, TypeOK
    <2>4. TasksOf(KindOf[i])' = TasksOf(KindOf[i]) \ {i} /\ i \in TasksOf(KindOf[i])
      BY <2>1, <2>3 DEF TasksOf
    <2>5. \A k \in Kinds \ {KindOf[i]} : TasksOf(k)' = TasksOf(k)
      BY <2>3 DEF TasksOf
    <2>6. Cardinality(TasksOf(KindOf[i])') = Cardinality(TasksOf(KindOf[i])) - 1
      BY <2>4, SlotsFinite, FS_RemoveElement
    <2> QED
      BY <1>0, <2>1, <2>2, <2>5, <2>6 DEF SlotsCounted, TypeOK
  <1>4. CASE ProcessExits
    <2>1. \A k \in Kinds : TasksOf(k)' = {} /\ active'[k] = 0
      BY <1>4 DEF ProcessExits, TasksOf
    <2> QED
      BY <2>1, FS_EmptySet DEF SlotsCounted
  <1>5. ASSUME NEW i \in Items, ReturnText(i) \/ ThrowError(i) \/ ThrowUnavailable(i) \/ Timeout(i)
        PROVE  SlotsCounted'
    BY <1>0, <1>5, SameSlots
    DEF ReturnText, ThrowError, ThrowUnavailable, Timeout, Answers, Awaited, Finalize,
        OutcomeFrame, TaskFrame, TypeOK
  <1>6. ASSUME NEW i \in Items, TaskStep(i) \/ TaskWriteFails(i), ~TaskEnds(i) PROVE SlotsCounted'
    BY <1>0, <1>6, SameSlots
    DEF TaskStep, StageArtifact, PublishArtifact, TaskRecorded, TaskShown, TaskWriteFails,
        Finalize, TaskFrame, TypeOK
  <1>7. ASSUME NEW d \in DocItems, ExtractionStep(d) \/ EnqueueWriteFails(d) PROVE SlotsCounted'
    BY <1>0, <1>7, SameSlots, OcrOfType
    DEF ExtractionStep, HandOff, HandedOff, HandOffDedupes, LateAnswer, EnqueueWriteFails,
        KeepLocalIfHeard, Finalize, OutcomeFrame, TaskFrame, TypeOK
  <1>8. CASE Abort
    BY <1>0, <1>8, SameSlots DEF Abort, TypeOK
  <1>9. CASE LoopStep \/ StartRun \/ LoopWriteFails \/ BudgetRunsOut \/ UNCHANGED workerVars
    BY <1>1, <1>2, <1>9
    DEF LoopStep, StartRun, TakeSnapshot, NothingLeft, SeeAbort, CancelPending, Shed, Reserve,
        MarkRecorded, MarkShown, EndPass, DrainOne, DrainRecorded, Drained, Resolve, Close,
        LoopWriteFails, BudgetRunsOut, workerVars
  <1> QED
    BY <1>2, <1>3, <1>4, <1>5, <1>6, <1>7, <1>8, <1>9
    DEF WorkerNext, ProcessorStep, FaultStep, TaskStep

\* Only a start leaves "down", and only an exit leads there.
LEMMA DownStep == IInv /\ [WorkerNext]_workerVars => DownIdle'
  <1> SUFFICES ASSUME IInv, [WorkerNext]_workerVars, phase' = "down" PROVE DownIdle'
    BY DEF DownIdle
  <1> USE DEF files, loop, tasks, shared, bounds
  <1>0. TypeOK /\ DownIdle
    BY DEF IInv
  <1>1. CASE ProcessExits
    BY <1>1 DEF ProcessExits, DownIdle
  <1>2. CASE phase = "down" /\ ~ProcessExits
    <2>1. UNCHANGED <<mem, batch, cur, task, proc>>
      BY <1>0, <1>2
      DEF DownIdle, WorkerNext, StartRun, LoopStep, TakeSnapshot, NothingLeft, SeeAbort,
          CancelPending, Shed, Reserve, Reaches, Launch, MarkRecorded, MarkShown, EndPass,
          DrainOne, DrainRecorded, Drained, Resolve, Close, TaskStep, StageArtifact,
          PublishArtifact, TaskRecorded, TaskShown, TaskEnds, ProcessorStep, ReturnText,
          ThrowError, ThrowUnavailable, Answers, Timeout, Awaited, ExtractionStep, HandOff,
          HandedOff, HandOffDedupes, LateAnswer, FaultStep, LoopWriteFails, TaskWriteFails,
          EnqueueWriteFails, BudgetRunsOut, Abort, workerVars
    <2> QED
      BY <1>0, <1>2, <2>1 DEF DownIdle
  <1>3. CASE phase # "down" /\ ~ProcessExits
    BY <1>0, <1>3
    DEF TypeOK, WorkerNext, StartRun, LoopStep, TakeSnapshot, NothingLeft, SeeAbort,
        CancelPending, Shed, Reserve, Launch, MarkRecorded, MarkShown, EndPass,
        DrainOne, DrainRecorded, Drained, Resolve, Close, TaskStep, StageArtifact,
        PublishArtifact, TaskRecorded, TaskShown, TaskEnds, ProcessorStep, ReturnText,
        ThrowError, ThrowUnavailable, Timeout, ExtractionStep, HandOff, HandedOff,
        HandOffDedupes, LateAnswer, OutcomeFrame, TaskFrame, FaultStep, LoopWriteFails,
        TaskWriteFails, EnqueueWriteFails, BudgetRunsOut, Abort, workerVars
  <1> QED
    BY <1>1, <1>2, <1>3

LEMMA BatchStep == IInv /\ [WorkerNext]_workerVars => BatchPending'
  <1> SUFFICES ASSUME IInv, [WorkerNext]_workerVars PROVE BatchPending'
    OBVIOUS
  <1> USE DEF files, loop, tasks, shared, bounds
  <1>0. TypeOK /\ BatchPending /\ LaunchedProcessing /\ DownIdle
    BY DEF IInv
  <1>1. CASE UNCHANGED <<mem, batch>> \/ batch' = {}
    BY <1>0, <1>1 DEF BatchPending
  <1>2. CASE StartRun
    BY <1>0, <1>1, <1>2 DEF StartRun, DownIdle
  <1>3. CASE TakeSnapshot \/ SeeAbort
    BY <1>0, <1>3 DEF TakeSnapshot, SeeAbort, Pending, BatchPending
  <1>4. ASSUME NEW i \in Items, CancelPending(i) \/ Shed(i) \/ Reserve(i) PROVE BatchPending'
    <2>1. \A j \in batch' : j \in batch /\ j # i
      BY <1>0, <1>4, WorkerAssumption DEF CancelPending, Shed, Reserve, Reaches, TypeOK
    <2> QED
      BY <1>0, <1>4, <2>1 DEF CancelPending, Shed, Reserve, LoopUpdate, BatchPending, TypeOK
  <1>5. ASSUME NEW i \in Items, DrainOne(i) PROVE BatchPending'
    BY <1>0, <1>5 DEF DrainOne, LoopUpdate, BatchPending, TypeOK
  <1>6. ASSUME NEW i \in Items,
               \/ Launch(i) \/ TaskStep(i) \/ ProcessorStep(i) \/ Timeout(i) \/ TaskWriteFails(i)
        PROVE  BatchPending'
    BY <1>0, <1>6
    DEF Launch, Finalize, TaskStep, StageArtifact, PublishArtifact, TaskRecorded, TaskShown,
        TaskEnds, ProcessorStep, ReturnText, ThrowError, ThrowUnavailable, Timeout,
        TaskWriteFails, OutcomeFrame, TaskFrame, BatchPending, TypeOK
  <1>7. ASSUME NEW d \in DocItems, ExtractionStep(d) \/ EnqueueWriteFails(d) PROVE BatchPending'
    BY <1>0, <1>7, OcrOfType
    DEF ExtractionStep, HandOff, HandedOff, HandOffDedupes, LateAnswer, EnqueueWriteFails,
        KeepLocalIfHeard, Finalize, OutcomeFrame, TaskFrame, BatchPending, TypeOK
  <1>8. CASE Abort
    BY <1>0, <1>8 DEF Abort, BatchPending, LaunchedProcessing, TypeOK
  <1>9. CASE \/ NothingLeft \/ MarkRecorded \/ MarkShown \/ EndPass \/ DrainRecorded \/ Drained
             \/ Resolve \/ Close \/ LoopWriteFails \/ BudgetRunsOut \/ ProcessExits
             \/ UNCHANGED workerVars
    BY <1>1, <1>9
    DEF NothingLeft, MarkRecorded, MarkShown, EndPass, DrainRecorded, Drained, Resolve, Close,
        LoopWriteFails, BudgetRunsOut, ProcessExits, workerVars
  <1> QED
    BY <1>2, <1>3, <1>4, <1>5, <1>6, <1>7, <1>8, <1>9 DEF WorkerNext, LoopStep, FaultStep

LEMMA LaunchedStep == IInv /\ [WorkerNext]_workerVars => LaunchedProcessing'
  <1> SUFFICES ASSUME IInv, [WorkerNext]_workerVars PROVE LaunchedProcessing'
    OBVIOUS
  <1> USE DEF files, loop, tasks, shared, bounds
  <1>0. TypeOK /\ BatchPending /\ LaunchedProcessing /\ DownIdle /\ Reservation
    BY DEF IInv
  <1>1. CASE UNCHANGED <<mem, task>>
    BY <1>0, <1>1 DEF LaunchedProcessing
  <1>2. CASE StartRun \/ ProcessExits
    BY <1>0, <1>2 DEF StartRun, ProcessExits, DownIdle, LaunchedProcessing
  <1>3. ASSUME NEW i \in Items, CancelPending(i) \/ Shed(i) \/ Reserve(i) \/ DrainOne(i)
        PROVE  LaunchedProcessing'
    <2>1. mem[i] = "pending"
      BY <1>0, <1>3 DEF CancelPending, Shed, Reserve, DrainOne, Reaches, BatchPending
    <2> QED
      BY <1>0, <1>3, <2>1
      DEF CancelPending, Shed, Reserve, DrainOne, LoopUpdate, LaunchedProcessing, TypeOK
  <1>4. ASSUME NEW i \in Items, Launch(i) PROVE LaunchedProcessing'
    BY <1>0, <1>4 DEF Launch, Finalize, Reservation, LaunchedProcessing, TypeOK
  <1>5. ASSUME NEW i \in Items,
               TaskStep(i) \/ ProcessorStep(i) \/ Timeout(i) \/ TaskWriteFails(i)
        PROVE  LaunchedProcessing'
    BY <1>0, <1>5
    DEF Finalize, TaskStep, StageArtifact, PublishArtifact, TaskRecorded, TaskShown,
        TaskEnds, ProcessorStep, ReturnText, ThrowError, ThrowUnavailable, Answers, Timeout,
        TaskWriteFails, OutcomeFrame, TaskFrame, LaunchedProcessing, TypeOK
  <1>6. ASSUME NEW d \in DocItems, ExtractionStep(d) \/ EnqueueWriteFails(d)
        PROVE  LaunchedProcessing'
    BY <1>0, <1>6, OcrOfType
    DEF ExtractionStep, HandOff, HandedOff, HandOffDedupes, LateAnswer, EnqueueWriteFails,
        LiveStatuses, KeepLocalIfHeard, Finalize, OutcomeFrame, TaskFrame, LaunchedProcessing,
        TypeOK
  <1>7. CASE Abort
    BY <1>0, <1>7 DEF Abort, LaunchedProcessing, TypeOK
  <1>8. CASE \/ TakeSnapshot \/ SeeAbort \/ NothingLeft \/ MarkRecorded \/ MarkShown \/ EndPass
             \/ DrainRecorded \/ Drained \/ Resolve \/ Close \/ LoopWriteFails
             \/ BudgetRunsOut \/ UNCHANGED workerVars
    BY <1>1, <1>8
    DEF TakeSnapshot, SeeAbort, NothingLeft, MarkRecorded, MarkShown, EndPass, DrainRecorded,
        Drained, Resolve, Close, LoopWriteFails, BudgetRunsOut, workerVars
  <1> QED
    BY <1>2, <1>3, <1>4, <1>5, <1>6, <1>7, <1>8 DEF WorkerNext, LoopStep, FaultStep

LEMMA PendingIdleStep == IInv /\ [WorkerNext]_workerVars => PendingIdle'
  <1> SUFFICES ASSUME IInv, [WorkerNext]_workerVars PROVE PendingIdle'
    OBVIOUS
  <1> USE DEF files, loop, tasks, shared, bounds
  <1>0. TypeOK /\ PendingIdle /\ LaunchedProcessing /\ DownIdle /\ Reservation
    BY DEF IInv
  <1>1. CASE UNCHANGED <<mem, task>>
    BY <1>0, <1>1 DEF PendingIdle, HandedOver
  <1>2. CASE StartRun \/ ProcessExits
    BY <1>0, <1>2 DEF StartRun, ProcessExits, DownIdle, PendingIdle
  <1>3. ASSUME NEW i \in Items, CancelPending(i) \/ Shed(i) \/ Reserve(i) \/ DrainOne(i)
        PROVE  PendingIdle'
    BY <1>0, <1>3
    DEF CancelPending, Shed, Reserve, DrainOne, LoopUpdate, PendingIdle, HandedOver, TypeOK
  <1>4. ASSUME NEW i \in Items, Launch(i) PROVE PendingIdle'
    BY <1>0, <1>4 DEF Launch, Finalize, Reservation, PendingIdle, HandedOver, TypeOK
  <1>5. ASSUME NEW i \in Items,
               TaskStep(i) \/ ProcessorStep(i) \/ Timeout(i) \/ TaskWriteFails(i)
        PROVE  PendingIdle'
    BY <1>0, <1>5
    DEF Finalize, TaskStep, StageArtifact, PublishArtifact, TaskRecorded, TaskShown,
        TaskEnds, ProcessorStep, ReturnText, ThrowError, ThrowUnavailable, Answers, Timeout,
        Awaited, TaskWriteFails, OutcomeFrame, TaskFrame, PendingIdle, HandedOver, TypeOK
  <1>6. ASSUME NEW d \in DocItems, ExtractionStep(d) \/ EnqueueWriteFails(d)
        PROVE  PendingIdle'
    BY <1>0, <1>6, OcrOfType
    DEF ExtractionStep, HandOff, HandedOff, HandOffDedupes, LateAnswer, EnqueueWriteFails,
        KeepLocalIfHeard, Finalize, OutcomeFrame, TaskFrame, PendingIdle, HandedOver, TypeOK
  <1>7. CASE Abort
    BY <1>0, <1>7 DEF Abort, PendingIdle, HandedOver, TypeOK
  <1>8. CASE \/ TakeSnapshot \/ SeeAbort \/ NothingLeft \/ MarkRecorded \/ MarkShown \/ EndPass
             \/ DrainRecorded \/ Drained \/ Resolve \/ Close \/ LoopWriteFails
             \/ BudgetRunsOut \/ UNCHANGED workerVars
    BY <1>1, <1>8
    DEF TakeSnapshot, SeeAbort, NothingLeft, MarkRecorded, MarkShown, EndPass, DrainRecorded,
        Drained, Resolve, Close, LoopWriteFails, BudgetRunsOut, workerVars
  <1> QED
    BY <1>2, <1>3, <1>4, <1>5, <1>6, <1>7, <1>8 DEF WorkerNext, LoopStep, FaultStep

\* A reservation survives everything that happens while its write is on the way.
LEMMA ReservationStep == IInv /\ [WorkerNext]_workerVars => Reservation'
  <1> SUFFICES ASSUME IInv, [WorkerNext]_workerVars, phase' = "reserving", NEW w \in cur'
               PROVE  /\ w.status = "processing"
                      /\ mem'[w.item] = "processing"
                      /\ task'[w.item] = "off"
                      /\ calls' < MaxCalls
                      /\ active'[KindOf[w.item]] < Limit(KindOf[w.item])
                      /\ Summarizes(w.item) => ~circuit'
    BY DEF Reservation, Limit, Summarizes
  <1> USE DEF files, loop, tasks, shared, bounds
  <1>0. TypeOK /\ SlotsCounted /\ LaunchedProcessing /\ PendingIdle /\ BatchPending /\ Reservation
        /\ DownIdle
    BY DEF IInv
  <1>1. ASSUME NEW i \in Items, Reserve(i)
        PROVE  /\ w.status = "processing"
               /\ mem'[w.item] = "processing"
               /\ task'[w.item] = "off"
               /\ calls' < MaxCalls
               /\ active'[KindOf[w.item]] < Limit(KindOf[w.item])
               /\ Summarizes(w.item) => ~circuit'
    <2>1. w = [item |-> i, status |-> "processing"]
      BY <1>1 DEF Reserve, LoopUpdate
    <2>2. mem'[i] = "processing" /\ mem[i] = "pending"
      BY <1>0, <1>1 DEF Reserve, Reaches, LoopUpdate, BatchPending, TypeOK
    <2>3. calls' < MaxCalls
      BY <1>0, <1>1, WorkerAssumption DEF Reserve, BudgetExceeded, TypeOK
    <2>4. task[i] = "off"
      <3>1. CASE i \notin HandedOver
        BY <1>0, <2>2, <3>1 DEF PendingIdle
      <3>2. CASE i \in HandedOver
        <4>1. KindOf[i] = "ocr"
          BY <3>2, OcrOfType DEF HandedOver
        <4>2. active["ocr"] < 1
          BY <1>1, <4>1, SingleLimit DEF Reserve
        <4> QED
          BY <1>0, <4>1, <4>2, TaskHoldsSlot DEF TypeOK, Kinds
      <3> QED
        BY <3>1, <3>2
    <2> QED
      BY <1>1, <2>1, <2>2, <2>3, <2>4 DEF Reserve
  <1>2. CASE phase = "reserving" /\ cur' = cur
    <2>1. /\ w \in cur /\ w.item \in Items
          /\ w.status = "processing" /\ mem[w.item] = "processing" /\ task[w.item] = "off"
          /\ calls < MaxCalls /\ active[KindOf[w.item]] < Limit(KindOf[w.item])
          /\ Summarizes(w.item) => ~circuit
      BY <1>0, <1>2 DEF Reservation, TypeOK
    <2>2. CASE UNCHANGED <<mem, task, calls, active, circuit>>
      BY <2>1, <2>2
    <2>3. ASSUME NEW i \in Items, TaskStep(i), ~TaskEnds(i)
          PROVE  mem'[w.item] = "processing" /\ task'[w.item] = "off"
                 /\ UNCHANGED <<calls, active, circuit>>
      BY <1>0, <2>1, <2>3
      DEF TaskStep, StageArtifact, PublishArtifact, TaskRecorded, TaskShown, Finalize,
          TaskFrame, TypeOK
    <2>4. ASSUME NEW i \in Items, ProcessorStep(i) \/ Timeout(i) \/ TaskWriteFails(i)
          PROVE  mem'[w.item] = "processing" /\ task'[w.item] = "off"
                 /\ UNCHANGED <<calls, active, circuit>>
      BY <1>0, <2>1, <2>4
      DEF ProcessorStep, ReturnText, ThrowError, ThrowUnavailable, Answers, Timeout, Awaited,
          TaskWriteFails, Finalize, OutcomeFrame, TaskFrame, TypeOK
    <2>5. ASSUME NEW d \in DocItems, ExtractionStep(d) \/ EnqueueWriteFails(d)
          PROVE  mem'[w.item] = "processing" /\ task'[w.item] = "off"
                 /\ UNCHANGED <<calls, active, circuit>>
      BY <1>0, <2>1, <2>5, OcrOfType
      DEF ExtractionStep, HandOff, HandedOff, HandOffDedupes, LateAnswer, EnqueueWriteFails,
          KeepLocalIfHeard, LiveStatuses, Finalize, OutcomeFrame, TaskFrame, TypeOK
    <2>6. CASE Abort
      BY <1>0, <2>1, <2>6 DEF Abort, TypeOK
    <2>7. ASSUME NEW i \in Items, TaskEnds(i)
          PROVE  /\ mem'[w.item] = "processing" /\ task'[w.item] = "off" /\ calls' = calls
                 /\ active'[KindOf[w.item]] < Limit(KindOf[w.item])
                 /\ Summarizes(w.item) => ~circuit'
      <3>1. KindOf[i] \in Kinds /\ KindOf[w.item] \in Kinds
        BY <2>1, WorkerAssumption
      <3>2. active'[KindOf[w.item]] <= active[KindOf[w.item]]
        BY <1>0, <2>7, <3>1 DEF TaskEnds, TypeOK
      <3>3. active'[KindOf[w.item]] < Limit(KindOf[w.item])
        <4>1. active[KindOf[w.item]] \in Nat /\ active'[KindOf[w.item]] \in Int
          BY <1>0, <2>7, <3>1 DEF TaskEnds, TypeOK
        <4> QED
          BY <2>1, <3>1, <3>2, <4>1, LimitPositive
      <3>4. ASSUME Summarizes(w.item) PROVE ~circuit'
        <4>1. active["summarize-local"] < 1
          BY <2>1, <3>4, SingleLimit DEF Summarizes
        <4>2. ~Summarizes(i)
          BY <1>0, <2>7, <4>1, TaskHoldsSlot DEF TaskEnds, Summarizes, TypeOK, Kinds
        <4> QED
          BY <1>0, <2>1, <2>7, <3>4, <4>2 DEF TaskEnds, TypeOK
      <3> QED
        BY <1>0, <2>1, <2>7, <3>3, <3>4 DEF TaskEnds, TypeOK
    <2>8. CASE BudgetRunsOut \/ UNCHANGED workerVars
      BY <2>1, <2>8 DEF BudgetRunsOut, workerVars
    <2>9. \/ \E i \in Items : TaskStep(i) \/ ProcessorStep(i) \/ Timeout(i) \/ TaskWriteFails(i)
          \/ \E d \in DocItems : ExtractionStep(d) \/ EnqueueWriteFails(d)
          \/ Abort \/ BudgetRunsOut \/ UNCHANGED workerVars
      BY <1>2
      DEF WorkerNext, StartRun, LoopStep, TakeSnapshot, NothingLeft, SeeAbort, CancelPending,
          Shed, Reserve, Reaches, Launch, LoopRecorded, MarkRecorded, MarkShown, EndPass,
          DrainOne, DrainRecorded, Drained, Resolve, Close, FaultStep, LoopWriteFails,
          ProcessExits
    <2> QED
      BY <2>1, <2>3, <2>4, <2>5, <2>6, <2>7, <2>8, <2>9
  <1>3. (\E i \in Items : Reserve(i)) \/ (phase = "reserving" /\ cur' = cur)
    BY <1>0
    DEF WorkerNext, StartRun, LoopStep, TakeSnapshot, NothingLeft, SeeAbort, CancelPending,
        Shed, Launch, MarkRecorded, MarkShown, EndPass, DrainOne, DrainRecorded, Drained,
        Resolve, Close, TaskStep, StageArtifact, PublishArtifact, TaskRecorded, TaskShown,
        TaskEnds, ProcessorStep, ReturnText, ThrowError, ThrowUnavailable, Timeout,
        ExtractionStep, HandOff, HandedOff, HandOffDedupes, LateAnswer, OutcomeFrame, TaskFrame,
        FaultStep, LoopWriteFails, TaskWriteFails, EnqueueWriteFails, BudgetRunsOut, Abort,
        ProcessExits, workerVars
  <1> QED
    BY <1>1, <1>2, <1>3

-----------------------------------------------------------------------------
(* The invariant holds.                                                    *)

LEMMA IInvStep == IInv /\ [WorkerNext]_workerVars => IInv'
  BY TypeStep, SlotsStep, LaunchedStep, PendingIdleStep, BatchStep, ReservationStep, DownStep
  DEF IInv

THEOREM WorkerInvariant == WorkerSpec => []IInv
  BY InitIInv, IInvStep, PTL DEF WorkerSpec

\* The worker never leaves its types, in particular never frees a slot it does not
\* hold: active[kind] stays a count (worker.ts:291-299).
THEOREM WorkerTypeCorrect == WorkerSpec => []TypeOK
  <1>1. IInv => TypeOK
    BY DEF IInv
  <1> QED
    BY WorkerInvariant, <1>1, PTL

-----------------------------------------------------------------------------
(* Completed means published.                                              *)

\* Nothing on its way to a file claims more than the files may: outcomes being
\* written, status files being written, the loop's own records.
ClaimsPublished ==
  /\ \A i \in Items : saving[i] = "completed" => i \in agentRoot
  /\ \A i \in Items : view[i].completed \subseteq agentRoot
  /\ loopView.completed \subseteq agentRoot
  /\ \A w \in cur : w.status # "completed"

PInv == TypeOK /\ CompletedMeansPublished /\ ClaimsPublished

\* A status of records that are published lists published items only.
LEMMA ShownPublished ==
  ASSUME NEW records, \A i \in Items : records[i] = "completed" => i \in agentRoot
  PROVE  Shown(records).completed \subseteq agentRoot
  BY DEF Shown

\* The write the loop awaited completes no item.
LEMMA LoopRecordedPublished ==
  ASSUME PInv, LoopRecorded, NEW i \in Items, disk'[i] = "completed"
  PROVE  disk[i] = "completed"
  <1>1. CASE \E w \in cur : w.item = i
    <2>1. (CHOOSE w \in cur : w.item = i) \in cur
      BY <1>1
    <2> QED
      BY <1>1, <2>1 DEF LoopRecorded, PInv, ClaimsPublished
  <1>2. CASE ~\E w \in cur : w.item = i
    BY <1>2 DEF LoopRecorded
  <1> QED
    BY <1>1, <1>2

\* An outcome other than completed claims nothing new.
LEMMA FinalizePublished ==
  ASSUME PInv, NEW j \in Items, NEW s \in Statuses, Finalize(j, s), NEW root,
         agentRoot \subseteq root, s = "completed" => j \in root
  PROVE  \A i \in Items : mem'[i] = "completed" \/ saving'[i] = "completed" => i \in root
  BY DEF Finalize, PInv, TypeOK, CompletedMeansPublished, ClaimsPublished

LEMMA PublishedStep == PInv /\ IInv /\ [WorkerNext]_workerVars => PInv'
  <1> SUFFICES ASSUME PInv, IInv, [WorkerNext]_workerVars
               PROVE  CompletedMeansPublished' /\ ClaimsPublished'
    BY TypeStep DEF PInv
  <1> USE DEF files, loop, tasks, shared, bounds, CompletedMeansPublished, ClaimsPublished
  <1>0. TypeOK /\ CompletedMeansPublished /\ ClaimsPublished
    BY DEF PInv
  <1>1. CASE UNCHANGED <<disk, statusFile, agentRoot, mem, saving, view, loopView, cur>>
    BY <1>0, <1>1
  <1>2. CASE StartRun
    BY <1>0, <1>2 DEF StartRun, Recovered
  <1>3. ASSUME NEW i \in Items, CancelPending(i) \/ Shed(i) \/ Reserve(i) \/ DrainOne(i)
        PROVE  CompletedMeansPublished' /\ ClaimsPublished'
    BY <1>0, <1>3 DEF CancelPending, Shed, Reserve, DrainOne, LoopUpdate, TypeOK
  <1>4. ASSUME NEW i \in Items, Launch(i) PROVE CompletedMeansPublished' /\ ClaimsPublished'
    <2>1. \A j \in Items : mem'[j] = "completed" \/ saving'[j] = "completed" => j \in agentRoot
      BY <1>0, <1>4, FinalizePublished DEF Launch, Statuses, PInv
    <2>2. \A j \in Items : disk'[j] = "completed" => disk[j] = "completed"
      BY <1>4, LoopRecordedPublished DEF Launch
    <2>3. UNCHANGED <<statusFile, agentRoot, view, loopView>> /\ cur' = {}
      BY <1>4 DEF Launch, LoopRecorded
    <2> QED
      BY <1>0, <2>1, <2>2, <2>3
  <1>5. CASE MarkRecorded
    <2>1. \A j \in Items : disk'[j] = "completed" => disk[j] = "completed"
      BY <1>5, LoopRecordedPublished DEF MarkRecorded
    <2>2. Shown(mem).completed \subseteq agentRoot
      BY <1>0, ShownPublished
    <2> QED
      BY <1>0, <1>5, <2>1, <2>2 DEF MarkRecorded, LoopRecorded
  <1>6. CASE DrainRecorded
    <2>1. \A j \in Items : disk'[j] = "completed" => disk[j] = "completed"
      BY <1>6, LoopRecordedPublished DEF DrainRecorded
    <2> QED
      BY <1>0, <1>6, <2>1 DEF DrainRecorded, LoopRecorded
  <1>7. CASE MarkShown \/ Close
    BY <1>0, <1>7 DEF MarkShown, Close, NoView
  <1>8. CASE Resolve
    <2>1. Shown(mem).completed \subseteq agentRoot
      BY <1>0, ShownPublished
    <2> QED
      BY <1>0, <1>8, <2>1 DEF Resolve
  <1>9. ASSUME NEW i \in Items, ProcessorStep(i) \/ Timeout(i)
        PROVE  CompletedMeansPublished' /\ ClaimsPublished'
    <2>1. \A j \in Items : mem'[j] = "completed" \/ saving'[j] = "completed" => j \in agentRoot
      BY <1>0, <1>9, FinalizePublished
      DEF ProcessorStep, ReturnText, ThrowError, ThrowUnavailable, Timeout, Statuses, PInv
    <2>2. UNCHANGED <<disk, statusFile, agentRoot, view, loopView, cur>>
      BY <1>9
      DEF ProcessorStep, ReturnText, ThrowError, ThrowUnavailable, Timeout, OutcomeFrame, TaskFrame
    <2> QED
      BY <1>0, <2>1, <2>2
  <1>10. ASSUME NEW i \in Items, StageArtifact(i) PROVE CompletedMeansPublished' /\ ClaimsPublished'
    BY <1>0, <1>10, FinalizePublished DEF StageArtifact, TaskFrame, Statuses, PInv
  <1>11. ASSUME NEW i \in Items, PublishArtifact(i)
         PROVE CompletedMeansPublished' /\ ClaimsPublished'
    <2>1. \A j \in Items : mem'[j] = "completed" \/ saving'[j] = "completed" => j \in agentRoot'
      BY <1>0, <1>11, FinalizePublished DEF PublishArtifact, Statuses, PInv
    <2>2. agentRoot \subseteq agentRoot' /\ UNCHANGED <<disk, statusFile, view, loopView, cur>>
      BY <1>11 DEF PublishArtifact, TaskFrame
    <2> QED
      BY <1>0, <2>1, <2>2
  <1>12. ASSUME NEW i \in Items, TaskRecorded(i) PROVE CompletedMeansPublished' /\ ClaimsPublished'
    <2>1. Shown(mem).completed \subseteq agentRoot
      BY <1>0, ShownPublished
    <2> QED
      BY <1>0, <1>12, <2>1 DEF TaskRecorded, TaskFrame, TypeOK
  <1>13. ASSUME NEW i \in Items, TaskShown(i) PROVE CompletedMeansPublished' /\ ClaimsPublished'
    BY <1>0, <1>13 DEF TaskShown, NoView, TypeOK
  <1>14. ASSUME NEW i \in Items, TaskWriteFails(i)
         PROVE  CompletedMeansPublished' /\ ClaimsPublished'
    BY <1>0, <1>14 DEF TaskWriteFails, TypeOK
  <1>15. ASSUME NEW d \in DocItems, ExtractionStep(d) \/ EnqueueWriteFails(d)
         PROVE  CompletedMeansPublished' /\ ClaimsPublished'
    <2>1. d \in Items /\ OcrOf[d] \in Items
      BY OcrOfType
    <2>2. \A j \in Items : mem'[j] = "completed" \/ saving'[j] = "completed" => j \in agentRoot
      BY <1>0, <1>15, <2>1, FinalizePublished
      DEF ExtractionStep, HandOff, HandedOff, HandOffDedupes, LateAnswer, EnqueueWriteFails,
          KeepLocalIfHeard, Statuses, PInv, TypeOK
    <2>3. \A j \in Items : disk'[j] = "completed" => j \in agentRoot
      BY <1>0, <1>15, <2>1
      DEF ExtractionStep, HandOff, HandedOff, HandOffDedupes, LateAnswer, EnqueueWriteFails,
          OutcomeFrame, TypeOK
    <2>4. UNCHANGED <<statusFile, agentRoot, view, loopView, cur>>
      BY <1>15
      DEF ExtractionStep, HandOff, HandedOff, HandOffDedupes, LateAnswer, EnqueueWriteFails,
          OutcomeFrame, TaskFrame
    <2> QED
      BY <1>0, <2>2, <2>3, <2>4
  <1>16. CASE Abort
    BY <1>0, <1>16 DEF Abort
  <1>17. CASE ProcessExits
    BY <1>0, <1>17 DEF ProcessExits, NoRecords, NoView
  <1>18. CASE LoopWriteFails
    BY <1>0, <1>18 DEF LoopWriteFails
  <1>19. ASSUME NEW i \in Items, TaskEnds(i) PROVE CompletedMeansPublished' /\ ClaimsPublished'
    BY <1>1, <1>19 DEF TaskEnds
  <1>20. CASE \/ TakeSnapshot \/ NothingLeft \/ SeeAbort \/ EndPass \/ Drained \/ BudgetRunsOut
              \/ UNCHANGED workerVars
    BY <1>1, <1>20
    DEF TakeSnapshot, NothingLeft, SeeAbort, EndPass, Drained, BudgetRunsOut, workerVars
  <1> QED
    BY <1>2, <1>3, <1>4, <1>5, <1>6, <1>7, <1>8, <1>9, <1>10, <1>11, <1>12, <1>13, <1>14, <1>15,
       <1>16, <1>17, <1>18, <1>19, <1>20
    DEF WorkerNext, LoopStep, TaskStep, FaultStep

LEMMA InitPublished == Init => PInv
  <1> SUFFICES ASSUME Init PROVE PInv
    OBVIOUS
  <1>1. TypeOK
    BY InitIInv DEF IInv
  <1> QED
    BY <1>1 DEF Init, PInv, CompletedMeansPublished, ClaimsPublished, NoRecords, NoView

\* Whatever is recorded or shown as completed is in the agent-visible workspace, for
\* every run, through exits, failing writes and status files that land out of order
\* (worker.ts:405-418, publisher.ts:160-166).
THEOREM WorkerPublishes == WorkerSpec => []CompletedMeansPublished
  <1>1. PInv => CompletedMeansPublished
    BY DEF PInv
  <1> QED
    BY WorkerInvariant, InitPublished, PublishedStep, <1>1, PTL DEF WorkerSpec

-----------------------------------------------------------------------------
(* The call budget.                                                        *)

LEMMA BudgetInitial == Init => Budget!BudgetInit
  BY DEF Init, Budget!BudgetInit

\* Steps that start and end no call.
LEMMA BudgetStutters ==
  ASSUME UNCHANGED <<calls, active, circuit>>
  PROVE  [Budget!BudgetNext]_(Budget!budgetVars)
  BY DEF Budget!budgetVars

LEMMA BudgetStep == IInv /\ [WorkerNext]_workerVars => [Budget!BudgetNext]_(Budget!budgetVars)
  <1> SUFFICES ASSUME IInv, [WorkerNext]_workerVars
               PROVE  [Budget!BudgetNext]_(Budget!budgetVars)
    OBVIOUS
  <1> USE DEF loop, shared
  <1>0. TypeOK
    BY DEF IInv
  <1>1. ASSUME NEW i \in Items, Launch(i) PROVE [Budget!BudgetNext]_(Budget!budgetVars)
    <2>1. KindOf[i] \in Kinds
      BY WorkerAssumption
    <2>2. /\ calls < MaxCalls
          /\ active[KindOf[i]] < Limit(KindOf[i])
          /\ ~(KindOf[i] \in {"summarize-local"} /\ circuit)
      BY <1>1 DEF IInv, Reservation, Launch, Summarizes
    <2>3. Budget!StartCall(KindOf[i])
      BY <1>1, <2>1, <2>2 DEF Budget!StartCall, Launch
    <2> QED
      BY <2>1, <2>3 DEF Budget!BudgetNext
  <1>2. ASSUME NEW i \in Items, TaskEnds(i) PROVE [Budget!BudgetNext]_(Budget!budgetVars)
    <2>1. KindOf[i] \in Kinds /\ active[KindOf[i]] >= 1
      BY <1>2, TaskHoldsSlot DEF IInv, TaskEnds
    <2>2. active[KindOf[i]] > 0
      BY <1>0, <2>1 DEF TypeOK
    <2>3. circuit' = circuit \/ (KindOf[i] \in {"summarize-local"} /\ circuit' = TRUE)
      BY <1>0, <1>2 DEF TaskEnds, TypeOK, Summarizes
    <2>4. Budget!EndCall(KindOf[i])
      BY <1>2, <2>2, <2>3 DEF Budget!EndCall, TaskEnds
    <2> QED
      BY <2>1, <2>4 DEF Budget!BudgetNext
  <1>3. CASE ProcessExits
    <2>1. Budget!NewRun
      BY <1>3 DEF Budget!NewRun, ProcessExits
    <2> QED
      BY <2>1 DEF Budget!BudgetNext
  <1>4. ASSUME NEW i \in Items,
               TaskStep(i) \/ ProcessorStep(i) \/ Timeout(i) \/ TaskWriteFails(i), ~TaskEnds(i)
        PROVE  UNCHANGED <<calls, active, circuit>>
    BY <1>4
    DEF TaskStep, StageArtifact, PublishArtifact, TaskRecorded, TaskShown, ProcessorStep,
        ReturnText, ThrowError, ThrowUnavailable, Timeout, TaskWriteFails, OutcomeFrame, TaskFrame
  <1>5. ASSUME NEW d \in DocItems, ExtractionStep(d) \/ EnqueueWriteFails(d)
        PROVE  UNCHANGED <<calls, active, circuit>>
    BY <1>5
    DEF ExtractionStep, HandOff, HandedOff, HandOffDedupes, LateAnswer, EnqueueWriteFails,
        OutcomeFrame, TaskFrame
  <1>6. CASE LoopStep /\ ~\E i \in Items : Launch(i)
    <2>1. UNCHANGED <<calls, active, circuit>>
      BY <1>6
      DEF LoopStep, TakeSnapshot, NothingLeft, SeeAbort, CancelPending, Shed, Reserve,
          MarkRecorded, MarkShown, EndPass, DrainOne, DrainRecorded, Drained, Resolve, Close
    <2> QED
      BY <2>1, BudgetStutters
  <1>7. CASE StartRun \/ LoopWriteFails \/ BudgetRunsOut \/ Abort \/ UNCHANGED workerVars
    <2>1. UNCHANGED <<calls, active, circuit>>
      BY <1>7 DEF StartRun, LoopWriteFails, BudgetRunsOut, Abort, workerVars
    <2> QED
      BY <2>1, BudgetStutters
  <1> QED
    BY <1>1, <1>2, <1>3, <1>4, <1>5, <1>6, <1>7, BudgetStutters
    DEF WorkerNext, FaultStep, TaskStep

\* The worker implements the abstract budget: whatever ends or fails while a
\* reservation is being written, no run starts more calls than its budget, more of a
\* kind than its limit, or a summary through an open circuit (worker.ts:263-300).
THEOREM WorkerKeepsCallBudget == WorkerSpec => KeepsCallBudget
  BY WorkerInvariant, BudgetInitial, BudgetStep, PTL
  DEF WorkerSpec, KeepsCallBudget, Budget!BudgetSpec

-----------------------------------------------------------------------------
(* A run never gives up.                                                   *)

\* A pass that has nothing left to look at has a task in flight or has done something.
PassHasWork ==
  /\ phase = "scan" /\ ~progressed => batch # {} \/ InFlight # {}
  /\ phase \in {"marking", "marked"} => progressed

LEMMA PassHasWorkStep == TypeOK /\ PassHasWork /\ [WorkerNext]_workerVars => PassHasWork'
  <1> SUFFICES ASSUME TypeOK, PassHasWork, [WorkerNext]_workerVars PROVE PassHasWork'
    OBVIOUS
  <1> USE DEF PassHasWork, loop, tasks, shared
  <1>1. CASE UNCHANGED <<phase, progressed, batch, task>>
    BY <1>1 DEF InFlight
  <1>2. CASE TakeSnapshot
    BY <1>2 DEF TakeSnapshot, InFlight
  <1>3. CASE phase' \notin {"scan", "marking", "marked"}
    BY <1>3
  <1>4. CASE progressed'
    BY <1>4
  <1>5. CASE phase \notin {"scan", "marking", "marked"} /\ phase' = phase
    BY <1>3, <1>5
  <1>6. ASSUME NEW i \in Items, TaskStep(i) \/ ProcessorStep(i) \/ Timeout(i) \/ TaskWriteFails(i)
        PROVE  phase # "scan" /\ (phase' = phase \/ phase' = "top") /\ progressed' = progressed
    BY <1>6
    DEF TaskStep, StageArtifact, PublishArtifact, TaskRecorded, TaskShown, TaskEnds,
        ProcessorStep, ReturnText, ThrowError, ThrowUnavailable, Answers, Timeout,
        TaskWriteFails, LoopHasTurn, OutcomeFrame, TaskFrame
  <1>7. ASSUME NEW d \in DocItems, ExtractionStep(d) \/ EnqueueWriteFails(d)
        PROVE  phase # "scan" /\ phase' = phase /\ progressed' = progressed
    BY <1>7
    DEF ExtractionStep, HandOff, HandedOff, HandOffDedupes, LateAnswer, EnqueueWriteFails,
        LoopHasTurn, OutcomeFrame, TaskFrame
  <1>8. CASE Abort
    BY <1>8 DEF Abort, LoopHasTurn
  <1>9. CASE LoopStep /\ ~TakeSnapshot
    BY <1>3, <1>4, <1>9
    DEF LoopStep, NothingLeft, SeeAbort, CancelPending, Shed, Reserve, Launch, MarkRecorded,
        MarkShown, EndPass, DrainOne, DrainRecorded, Drained, Resolve, Close, TypeOK
  <1>10. CASE StartRun \/ LoopWriteFails \/ ProcessExits
    BY <1>3, <1>10 DEF StartRun, LoopWriteFails, ProcessExits
  <1>11. CASE BudgetRunsOut \/ UNCHANGED workerVars
    BY <1>1, <1>11 DEF BudgetRunsOut, workerVars
  <1> QED
    BY <1>2, <1>6, <1>7, <1>8, <1>9, <1>10, <1>11 DEF WorkerNext, FaultStep

\* A full kind has a task in flight, because every limit is at least one.
LEMMA GateMeansTask ==
  ASSUME IInv, NEW j \in Items, Gated(j)
  PROVE  InFlight # {}
  <1>1. KindOf[j] \in Kinds
    BY WorkerAssumption
  <1>2. active[KindOf[j]] >= 1 /\ active[KindOf[j]] = Cardinality(TasksOf(KindOf[j]))
    BY <1>1, LimitPositive DEF IInv, TypeOK, SlotsCounted, Gated
  <1>3. TasksOf(KindOf[j]) # {}
    BY <1>2, FS_EmptySet
  <1> QED
    BY <1>3 DEF TasksOf, InFlight

\* With work in the pass the loop does not give up.
LEMMA PassNeverGivesUp == IInv /\ PassHasWork => NeverGivesUp
  <1> SUFFICES ASSUME IInv, PassHasWork, phase = "scan", \A j \in batch : Gated(j), ~progressed
               PROVE  InFlight # {}
    BY DEF NeverGivesUp
  <1>1. CASE batch = {}
    BY <1>1 DEF PassHasWork
  <1>2. ASSUME NEW j \in batch PROVE InFlight # {}
    <2>1. j \in Items
      BY DEF IInv, TypeOK
    <2> QED
      BY <2>1, GateMeansTask
  <1> QED
    BY <1>1, <1>2

\* The give-up branch of the loop (worker.ts:308-312) is dead code: for every set of
\* items and every configuration, a zero concurrency included, a pass whose rest is
\* gated has a task in flight or has done something.
THEOREM WorkerNeverGivesUp == WorkerSpec => []NeverGivesUp
  <1>1. Init => PassHasWork
    BY DEF Init, PassHasWork
  <1>2. IInv => TypeOK
    BY DEF IInv
  <1> QED
    BY WorkerInvariant, PassHasWorkStep, PassNeverGivesUp, <1>1, <1>2, PTL DEF WorkerSpec

-----------------------------------------------------------------------------
(* A completed item stays completed.                                       *)

\* Of an item that nothing hands off: memory knows what the record says it completed,
\* and what is on its way to the record is what memory says.
RecordAgrees ==
  \A i \in Items \ HandedOver :
    /\ phase # "down" /\ disk[i] = "completed" => mem[i] = "completed"
    /\ task[i] = "finalizing" => mem[i] = saving[i]
    /\ \A w \in cur : w.item = i => mem[i] = w.status /\ w.status # "completed" /\ task[i] = "off"

\* The record of i is untouched or is what the loop was writing.
LEMMA LoopRecordedWrites ==
  ASSUME TypeOK, LoopRecorded, NEW i \in Items
  PROVE  disk'[i] = disk[i] \/ \E w \in cur : w.item = i /\ disk'[i] = w.status
  <1>1. CASE \E w \in cur : w.item = i
    <2>1. /\ (CHOOSE w \in cur : w.item = i) \in cur
          /\ (CHOOSE w \in cur : w.item = i).item = i
      BY <1>1
    <2> QED
      BY <1>1, <2>1 DEF LoopRecorded
  <1>2. CASE ~\E w \in cur : w.item = i
    BY <1>2 DEF LoopRecorded
  <1> QED
    BY <1>1, <1>2

\* A landed write of the loop keeps the agreement of the records with memory.
LEMMA LoopRecordedAgrees ==
  ASSUME TypeOK, RecordAgrees, LoopRecorded, phase # "down", NEW i \in Items \ HandedOver
  PROVE  /\ disk[i] = "completed" => disk'[i] = "completed"
         /\ disk'[i] = "completed" => mem[i] = "completed"
  BY LoopRecordedWrites DEF RecordAgrees

\* finalize keeps it too: it writes to memory what it saves.
LEMMA FinalizeAgrees ==
  ASSUME TypeOK, RecordAgrees, phase # "down", NEW j \in Items, NEW s \in Statuses, Finalize(j, s),
         task[j] # "off", UNCHANGED <<disk, cur, phase>>
  PROVE  RecordAgrees'
  BY DEF TypeOK, RecordAgrees, HandedOver, Finalize

LEMMA RecordAgreesStep == IInv /\ RecordAgrees /\ [WorkerNext]_workerVars => RecordAgrees'
  <1> SUFFICES ASSUME IInv, RecordAgrees, [WorkerNext]_workerVars PROVE RecordAgrees'
    OBVIOUS
  <1> USE DEF files, loop, tasks, shared, HandedOver
  <1>0. TypeOK /\ LaunchedProcessing /\ PendingIdle /\ BatchPending /\ DownIdle
    BY DEF IInv
  <1>1. CASE UNCHANGED <<phase, disk, mem, task, saving, cur>>
    BY <1>1 DEF RecordAgrees
  <1>2. CASE StartRun
    BY <1>0, <1>2 DEF RecordAgrees, StartRun, Recovered, DownIdle, TypeOK
  <1>3. ASSUME NEW i \in Items, CancelPending(i) \/ Shed(i) \/ Reserve(i) \/ DrainOne(i)
        PROVE  RecordAgrees'
    <2>1. mem[i] = "pending" /\ phase # "down"
      BY <1>0, <1>3 DEF CancelPending, Shed, Reserve, Reaches, DrainOne, BatchPending
    <2>2. /\ UNCHANGED <<disk, task, saving>>
          /\ \E s \in {"cancelled", "kept-local", "processing"} : LoopUpdate(i, s)
      BY <1>3 DEF CancelPending, Shed, Reserve, DrainOne
    <2>3. i \notin HandedOver => task[i] = "off"
      BY <1>0, <2>1 DEF PendingIdle
    <2> QED
      BY <1>0, <2>1, <2>2, <2>3 DEF RecordAgrees, LoopUpdate, TypeOK
  <1>4. ASSUME NEW i \in Items, Launch(i) PROVE RecordAgrees'
    <2>1. phase # "down" /\ LoopRecorded /\ cur' = {}
      BY <1>4 DEF Launch, LoopRecorded
    <2>2. \A j \in Items \ HandedOver : disk'[j] = "completed" => mem[j] = "completed"
      BY <1>0, <2>1, LoopRecordedAgrees
    <2>3. mem[i] = "processing" /\ task[i] = "off"
      BY <1>4 DEF IInv, Reservation, Launch
    <2>4. /\ \A j \in Items : mem[j] = "completed" => mem'[j] = "completed"
          /\ \A j \in Items \ {i} : mem'[j] = mem[j] /\ saving'[j] = saving[j] /\ task'[j] = task[j]
          /\ task'[i] = "finalizing" => mem'[i] = saving'[i]
      BY <1>0, <1>4, <2>3 DEF Launch, Finalize, TypeOK
    <2> QED
      BY <2>1, <2>2, <2>4 DEF RecordAgrees
  <1>5. CASE MarkRecorded \/ DrainRecorded
    <2>1. phase # "down" /\ LoopRecorded /\ cur' = {} /\ UNCHANGED <<mem, task, saving>>
      BY <1>5 DEF MarkRecorded, DrainRecorded, LoopRecorded
    <2>2. \A j \in Items \ HandedOver : disk'[j] = "completed" => mem[j] = "completed"
      BY <1>0, <2>1, LoopRecordedAgrees
    <2> QED
      BY <2>1, <2>2 DEF RecordAgrees
  <1>6. ASSUME NEW i \in Items, ProcessorStep(i) \/ Timeout(i) PROVE RecordAgrees'
    <2>1. task[i] = "running" /\ phase # "down"
      BY <1>0, <1>6
      DEF ProcessorStep, ReturnText, ThrowError, ThrowUnavailable, Answers, Timeout, Awaited, DownIdle
    <2>2. UNCHANGED <<disk, cur, phase>>
      BY <1>6
      DEF ProcessorStep, ReturnText, ThrowError, ThrowUnavailable, Timeout, OutcomeFrame, TaskFrame
    <2>3. \/ \E s \in Statuses : Finalize(i, s)
          \/ task' = [task EXCEPT ![i] = "staging"] /\ UNCHANGED <<mem, saving>>
      BY <1>6 DEF ProcessorStep, ReturnText, ThrowError, ThrowUnavailable, Timeout, Statuses
    <2>4. CASE task' = [task EXCEPT ![i] = "staging"] /\ UNCHANGED <<mem, saving>>
      BY <1>0, <2>1, <2>2, <2>4 DEF RecordAgrees, TypeOK
    <2> QED
      BY <1>0, <2>1, <2>2, <2>3, <2>4, FinalizeAgrees
  <1>7. ASSUME NEW i \in Items, StageArtifact(i) \/ PublishArtifact(i) PROVE RecordAgrees'
    <2>1. task[i] # "off" /\ phase # "down"
      BY <1>0, <1>7 DEF StageArtifact, PublishArtifact, DownIdle
    <2>2. UNCHANGED <<disk, cur, phase>>
      BY <1>7 DEF StageArtifact, PublishArtifact, TaskFrame
    <2>3. \/ \E s \in Statuses : Finalize(i, s)
          \/ task' = [task EXCEPT ![i] = "publishing"] /\ UNCHANGED <<mem, saving>>
      BY <1>7 DEF StageArtifact, PublishArtifact, Statuses
    <2>4. CASE task' = [task EXCEPT ![i] = "publishing"] /\ UNCHANGED <<mem, saving>>
      BY <1>0, <2>1, <2>2, <2>4 DEF RecordAgrees, TypeOK
    <2> QED
      BY <1>0, <2>1, <2>2, <2>3, <2>4, FinalizeAgrees
  <1>8. ASSUME NEW i \in Items, TaskRecorded(i) PROVE RecordAgrees'
    BY <1>0, <1>8 DEF TaskRecorded, TaskFrame, RecordAgrees, TypeOK
  <1>9. ASSUME NEW i \in Items, TaskShown(i) \/ TaskWriteFails(i) \/ TaskEnds(i) PROVE RecordAgrees'
    <2>1. /\ task'[i] # "finalizing" /\ task[i] # "off"
          /\ \A j \in Items \ {i} : task'[j] = task[j] /\ saving'[j] = saving[j]
          /\ UNCHANGED <<disk, mem, cur>>
          /\ phase' = phase \/ (phase # "down" /\ phase' # "down")
      BY <1>0, <1>9 DEF TaskShown, TaskWriteFails, TaskEnds, TypeOK
    <2> QED
      BY <2>1 DEF RecordAgrees
  <1>10. ASSUME NEW d \in DocItems, HandOff(d) PROVE RecordAgrees'
    BY <1>0, <1>10, OcrOfType DEF HandOff, OutcomeFrame, TaskFrame, RecordAgrees, TypeOK
  <1>11. ASSUME NEW d \in DocItems, HandedOff(d) \/ HandOffDedupes(d) \/ EnqueueWriteFails(d)
         PROVE  RecordAgrees'
    <2>1. d \in Items /\ OcrOf[d] \in Items /\ phase # "down" /\ UNCHANGED <<cur, phase>>
      BY <1>0, <1>11, OcrOfType
      DEF HandedOff, HandOffDedupes, EnqueueWriteFails, OutcomeFrame, TaskFrame, DownIdle
    <2>2. \A j \in Items \ HandedOver : disk'[j] = disk[j]
      BY <1>0, <1>11
      DEF HandedOff, HandOffDedupes, EnqueueWriteFails, OutcomeFrame, TypeOK
    <2>3. \/ task[d] = "running" /\ \E s \in Statuses : Finalize(d, s)
          \/ UNCHANGED <<mem, saving, task>>
      BY <1>11 DEF HandedOff, HandOffDedupes, EnqueueWriteFails, KeepLocalIfHeard, Statuses
    <2>4. CASE UNCHANGED <<mem, saving, task>>
      BY <2>1, <2>2, <2>4 DEF RecordAgrees
    <2>5. ASSUME NEW s \in Statuses, task[d] = "running", Finalize(d, s) PROVE RecordAgrees'
      BY <1>0, <2>1, <2>2, <2>5 DEF TypeOK, RecordAgrees, Finalize
    <2> QED
      BY <2>3, <2>4, <2>5
  <1>12. CASE Abort
    BY <1>0, <1>12 DEF Abort, RecordAgrees, LaunchedProcessing, TypeOK
  <1>13. CASE ProcessExits
    BY <1>13 DEF ProcessExits, RecordAgrees
  <1>14. CASE LoopWriteFails
    BY <1>0, <1>14 DEF LoopWriteFails, RecordAgrees, DownIdle
  <1>15. CASE \/ TakeSnapshot \/ NothingLeft \/ SeeAbort \/ MarkShown \/ EndPass \/ Drained
              \/ Resolve \/ Close \/ BudgetRunsOut \/ UNCHANGED workerVars
    <2>1. UNCHANGED <<disk, mem, task, saving, cur>> /\ (phase' = phase \/ phase # "down")
      BY <1>15
      DEF TakeSnapshot, NothingLeft, SeeAbort, MarkShown, EndPass, Drained, Resolve, Close,
          BudgetRunsOut, workerVars
    <2> QED
      BY <2>1 DEF RecordAgrees
  <1>16. ASSUME NEW d \in DocItems, LateAnswer(d) PROVE RecordAgrees'
    BY <1>1, <1>16 DEF LateAnswer, OutcomeFrame, TaskFrame
  <1> QED
    BY <1>2, <1>3, <1>4, <1>5, <1>6, <1>7, <1>8, <1>9, <1>10, <1>11, <1>12, <1>13, <1>14, <1>15, <1>16
    DEF WorkerNext, LoopStep, TaskStep, ExtractionStep, FaultStep

\* No step of a live process takes a completed item back in memory.
LEMMA MemoryKeepsCompleted ==
  IInv /\ [WorkerNext]_workerVars =>
    \A i \in Items : mem[i] = "completed" => mem'[i] = "completed" \/ phase' = "down"
  <1> SUFFICES ASSUME IInv, [WorkerNext]_workerVars, NEW i \in Items, mem[i] = "completed"
               PROVE  mem'[i] = "completed" \/ phase' = "down"
    OBVIOUS
  <1> USE DEF files, loop, tasks, shared
  <1>0. TypeOK /\ LaunchedProcessing /\ BatchPending /\ DownIdle
    BY DEF IInv
  <1>1. CASE UNCHANGED mem \/ ProcessExits
    BY <1>1 DEF ProcessExits
  <1>2. CASE StartRun
    BY <1>0, <1>2 DEF StartRun, DownIdle, NoRecords
  <1>3. ASSUME NEW j \in Items, CancelPending(j) \/ Shed(j) \/ Reserve(j) \/ DrainOne(j)
        PROVE  mem'[i] = "completed"
    BY <1>0, <1>3
    DEF CancelPending, Shed, Reserve, DrainOne, Reaches, LoopUpdate, BatchPending, TypeOK
  <1>4. ASSUME NEW j \in Items,
               Launch(j) \/ TaskStep(j) \/ ProcessorStep(j) \/ Timeout(j) \/ TaskWriteFails(j)
        PROVE  mem'[i] = "completed"
    BY <1>0, <1>4
    DEF Launch, TaskStep, StageArtifact, PublishArtifact, TaskRecorded, TaskShown, TaskEnds,
        ProcessorStep, ReturnText, ThrowError, ThrowUnavailable, Timeout, TaskWriteFails,
        Finalize, OutcomeFrame, TaskFrame, TypeOK
  <1>5. ASSUME NEW d \in DocItems, ExtractionStep(d) \/ EnqueueWriteFails(d)
        PROVE  mem'[i] = "completed"
    BY <1>0, <1>5, OcrOfType
    DEF ExtractionStep, HandOff, HandedOff, HandOffDedupes, LateAnswer, EnqueueWriteFails,
        KeepLocalIfHeard, LiveStatuses, Finalize, OutcomeFrame, TaskFrame, TypeOK
  <1>6. CASE Abort
    BY <1>0, <1>6 DEF Abort, LaunchedProcessing, TypeOK
  <1> QED
    BY <1>1, <1>2, <1>3, <1>4, <1>5, <1>6
    DEF WorkerNext, LoopStep, FaultStep, TakeSnapshot, NothingLeft, SeeAbort, MarkRecorded,
        MarkShown, EndPass, DrainRecorded, Drained, Resolve, Close, LoopWriteFails,
        BudgetRunsOut, workerVars

\* No write undoes the record of a completed item that nothing hands off.
LEMMA RecordKeepsCompleted ==
  IInv /\ RecordAgrees /\ [WorkerNext]_workerVars =>
    \A i \in Items \ HandedOver : disk[i] = "completed" => disk'[i] = "completed"
  <1> SUFFICES ASSUME IInv, RecordAgrees, [WorkerNext]_workerVars,
                      NEW i \in Items \ HandedOver, disk[i] = "completed"
               PROVE  disk'[i] = "completed"
    OBVIOUS
  <1> USE DEF files, loop, tasks, shared
  <1>0. TypeOK /\ DownIdle
    BY DEF IInv
  <1>1. CASE UNCHANGED disk
    BY <1>1
  <1>2. CASE StartRun
    BY <1>2 DEF StartRun, Recovered
  <1>3. ASSUME LoopRecorded, phase # "down" PROVE disk'[i] = "completed"
    BY <1>0, <1>3, LoopRecordedAgrees
  <1>4. ASSUME NEW j \in Items, TaskRecorded(j) PROVE disk'[i] = "completed"
    <2>1. phase # "down"
      BY <1>0, <1>4 DEF TaskRecorded, DownIdle
    <2>2. mem[i] = "completed"
      BY <2>1 DEF RecordAgrees
    <2> QED
      BY <1>0, <1>4, <2>2 DEF TaskRecorded, RecordAgrees, TypeOK
  <1>5. ASSUME NEW d \in DocItems, HandedOff(d) PROVE disk'[i] = "completed"
    BY <1>0, <1>5 DEF HandedOff, HandedOver, TypeOK
  <1>6. ASSUME NEW j \in Items, Launch(j) PROVE disk'[i] = "completed"
    BY <1>3, <1>6 DEF Launch
  <1>7. CASE MarkRecorded \/ DrainRecorded
    BY <1>3, <1>7 DEF MarkRecorded, DrainRecorded
  <1>8. ASSUME NEW j \in Items,
               TaskStep(j) \/ ProcessorStep(j) \/ Timeout(j) \/ TaskWriteFails(j), ~TaskRecorded(j)
        PROVE  UNCHANGED disk
    BY <1>8
    DEF TaskStep, StageArtifact, PublishArtifact, TaskShown, TaskEnds, ProcessorStep, ReturnText,
        ThrowError, ThrowUnavailable, Timeout, TaskWriteFails, OutcomeFrame
  <1>9. ASSUME NEW d \in DocItems, ExtractionStep(d) \/ EnqueueWriteFails(d), ~HandedOff(d)
        PROVE  UNCHANGED disk
    BY <1>9
    DEF ExtractionStep, HandOff, HandOffDedupes, LateAnswer, EnqueueWriteFails, OutcomeFrame
  <1> QED
    BY <1>1, <1>2, <1>4, <1>5, <1>6, <1>7, <1>8, <1>9
    DEF WorkerNext, LoopStep, FaultStep, TakeSnapshot, NothingLeft, SeeAbort, CancelPending, Shed,
        Reserve, MarkShown, EndPass, DrainOne, Drained, Resolve, Close, TaskStep, LoopWriteFails,
        BudgetRunsOut, Abort, ProcessExits, workerVars

\* "A completed item is never re-run": no step of the worker takes back an item it
\* completed, in memory for as long as the process lives, on record for ever, through
\* restarts, late writes and hand-offs (state-store.ts:19-20, worker.ts:450-466).
THEOREM WorkerCompletedStays == WorkerSpec => CompletedStays
  <1>1. Init => RecordAgrees
    BY DEF Init, RecordAgrees
  <1>2. IInv /\ RecordAgrees /\ [WorkerNext]_workerVars =>
          [\A i \in Items :
             /\ mem[i] = "completed" => mem'[i] = "completed" \/ phase' = "down"
             /\ disk[i] = "completed" /\ i \notin HandedOver => disk'[i] = "completed"]_<<mem, disk>>
    BY MemoryKeepsCompleted, RecordKeepsCompleted
  <1> QED
    BY WorkerInvariant, RecordAgreesStep, <1>1, <1>2, PTL DEF WorkerSpec, CompletedStays

-----------------------------------------------------------------------------
(* A run that is over leaves nothing half done.                            *)

\* The loop awaits a record write only where it says so.
WritesInTurn == cur # {} => phase \in {"reserving", "marking", "drain"}

\* From the resolution of the run on nothing is in flight, and what the loop shows,
\* or has shown, is what memory holds.
ClosesWhole ==
  /\ phase \in {"closing", "done"} => \A i \in Items : task[i] = "off"
  /\ phase = "closing" => loopView.completed = Shown(mem).completed
  /\ phase = "done" => statusFile.completed = Shown(mem).completed /\ staging = {}

\* Without a failing write a record differs from memory only while a write is under way.
RecordFollows ==
  faults = 0 /\ phase # "down" =>
    \A i \in Items \ HandedOver :
      disk[i] = mem[i] \/ (\E w \in cur : w.item = i) \/ task[i] = "finalizing"

SettleInv == WritesInTurn /\ ClosesWhole /\ RecordFollows

\* Each await of the loop on a record ends with that write landed or failed.
LEMMA WritesInTurnStep ==
  IInv /\ WritesInTurn /\ [WorkerNext]_workerVars => WritesInTurn'
  <1> SUFFICES ASSUME IInv, WritesInTurn, [WorkerNext]_workerVars PROVE WritesInTurn'
    OBVIOUS
  <1> USE DEF files, loop, tasks, shared
  <1>0. DownIdle
    BY DEF IInv
  <1>1. CASE UNCHANGED <<cur, phase>> \/ cur' = {}
    BY <1>1 DEF WritesInTurn
  <1>2. CASE StartRun \/ TakeSnapshot \/ NothingLeft \/ SeeAbort \/ MarkShown \/ EndPass \/ Drained \/ Resolve \/ Close
    <2>1. cur = {} /\ cur' = cur
      BY <1>0, <1>2
      DEF WritesInTurn, DownIdle, StartRun, TakeSnapshot, NothingLeft, SeeAbort, MarkShown, EndPass,
          Drained, Resolve, Close
    <2> QED
      BY <2>1 DEF WritesInTurn
  <1>3. ASSUME NEW i \in Items, CancelPending(i) \/ Shed(i) \/ Reserve(i) \/ DrainOne(i)
        PROVE  WritesInTurn'
    BY <1>3 DEF CancelPending, Shed, Reserve, DrainOne, WritesInTurn
  <1>4. ASSUME NEW i \in Items, Launch(i) PROVE cur' = {}
    BY <1>4 DEF Launch, LoopRecorded
  <1>5. CASE MarkRecorded \/ DrainRecorded \/ LoopWriteFails \/ ProcessExits
    BY <1>5 DEF MarkRecorded, DrainRecorded, LoopRecorded, LoopWriteFails, ProcessExits, WritesInTurn
  <1>6. ASSUME NEW i \in Items, TaskEnds(i) PROVE WritesInTurn'
    BY <1>6 DEF TaskEnds, WritesInTurn
  <1>7. ASSUME NEW i \in Items,
               TaskStep(i) \/ ProcessorStep(i) \/ Timeout(i) \/ TaskWriteFails(i), ~TaskEnds(i)
        PROVE  UNCHANGED <<cur, phase>>
    BY <1>7
    DEF TaskStep, StageArtifact, PublishArtifact, TaskRecorded, TaskShown, ProcessorStep, ReturnText,
        ThrowError, ThrowUnavailable, Timeout, TaskWriteFails, OutcomeFrame, TaskFrame
  <1>8. ASSUME NEW d \in DocItems, ExtractionStep(d) \/ EnqueueWriteFails(d)
        PROVE  UNCHANGED <<cur, phase>>
    BY <1>8
    DEF ExtractionStep, HandOff, HandedOff, HandOffDedupes, LateAnswer, EnqueueWriteFails,
        OutcomeFrame, TaskFrame
  <1>9. CASE BudgetRunsOut \/ Abort \/ UNCHANGED workerVars
    BY <1>1, <1>9 DEF BudgetRunsOut, Abort, workerVars
  <1> QED
    BY <1>1, <1>2, <1>3, <1>4, <1>5, <1>6, <1>7, <1>8, <1>9
    DEF WorkerNext, LoopStep, FaultStep

\* Only a task that runs can complete an item or stage an artifact, and only a task
\* or the loop writes the public status.
LEMMA ClosesWholeStep ==
  IInv /\ WritesInTurn /\ ClosesWhole /\ [WorkerNext]_workerVars => ClosesWhole'
  <1> SUFFICES ASSUME IInv, WritesInTurn, ClosesWhole, [WorkerNext]_workerVars PROVE ClosesWhole'
    OBVIOUS
  <1> USE DEF files, loop, tasks, shared
  <1>0. TypeOK
    BY DEF IInv
  <1>1. CASE phase' \notin {"closing", "done"}
    BY <1>1 DEF ClosesWhole
  <1>2. CASE UNCHANGED <<phase, task, mem, loopView, statusFile, staging>>
    BY <1>2 DEF ClosesWhole, Shown
  <1>3. CASE Resolve
    <2>1. \A i \in Items : task'[i] = "off"
      BY <1>3 DEF Resolve, AllSettled, InFlight
    <2> QED
      BY <1>3, <2>1 DEF Resolve, ClosesWhole, Shown
  <1>4. CASE Close
    BY <1>4 DEF Close, ClosesWhole, Shown
  <1>5. ASSUME phase \in {"closing", "done"}, NEW i \in Items,
               TaskStep(i) \/ ProcessorStep(i) \/ Timeout(i) \/ TaskWriteFails(i)
        PROVE  FALSE
    <2>1. task[i] = "off"
      BY <1>5 DEF ClosesWhole
    <2> QED
      BY <1>5, <2>1
      DEF TaskStep, StageArtifact, PublishArtifact, TaskRecorded, TaskShown, TaskEnds, ProcessorStep,
          ReturnText, ThrowError, ThrowUnavailable, Answers, Timeout, Awaited, TaskWriteFails
  <1>6. ASSUME phase \in {"closing", "done"}, phase' = phase,
               UNCHANGED <<task, loopView, statusFile, staging>>,
               {i \in Items : mem'[i] = "completed"} = {i \in Items : mem[i] = "completed"}
        PROVE  ClosesWhole'
    BY <1>6 DEF ClosesWhole, Shown
  <1>7. ASSUME phase \in {"closing", "done"}, NEW d \in DocItems, ExtractionStep(d) \/ EnqueueWriteFails(d)
        PROVE  ClosesWhole'
    <2>1. task[d] # "running" /\ d \in Items
      BY <1>7 DEF ClosesWhole, DocItems
    <2>2. UNCHANGED <<phase, task, loopView, statusFile, staging>>
      BY <1>7, <2>1
      DEF ExtractionStep, HandOff, HandedOff, HandOffDedupes, LateAnswer, EnqueueWriteFails,
          KeepLocalIfHeard, OutcomeFrame, TaskFrame
    <2>3. \/ UNCHANGED mem
          \/ mem' = [mem EXCEPT ![OcrOf[d]] = "pending"] /\ mem[OcrOf[d]] # "completed"
      BY <1>7, <2>1
      DEF ExtractionStep, HandOff, HandedOff, HandOffDedupes, LateAnswer, EnqueueWriteFails,
          KeepLocalIfHeard, OutcomeFrame, LiveStatuses
    <2>4. {i \in Items : mem'[i] = "completed"} = {i \in Items : mem[i] = "completed"}
      BY <1>0, <2>3, OcrOfType DEF TypeOK
    <2> QED
      BY <1>6, <1>7, <2>2, <2>4
  <1>8. CASE phase \in {"closing", "done"} /\ Abort
    <2>1. \A i \in Items : task[i] # "running"
      BY <1>8 DEF ClosesWhole
    <2>2. UNCHANGED <<phase, task, mem, loopView, statusFile, staging>>
      BY <1>0, <1>8, <2>1 DEF Abort, TypeOK
    <2> QED
      BY <1>2, <2>2
  <1>9. CASE phase \in {"closing", "done"} /\ cur # {}
    BY <1>9 DEF WritesInTurn
  <1>10. CASE BudgetRunsOut \/ UNCHANGED workerVars
    BY <1>2, <1>10 DEF BudgetRunsOut, workerVars
  <1>11. CASE phase \notin {"closing", "done"} /\ ~Resolve /\ ~(UNCHANGED phase)
    <2>1. phase' \notin {"closing", "done"}
      BY <1>11
      DEF WorkerNext, StartRun, LoopStep, TakeSnapshot, NothingLeft, SeeAbort, CancelPending, Shed,
          Reserve, Launch, MarkRecorded, MarkShown, EndPass, DrainOne, DrainRecorded, Drained, Close,
          TaskStep, StageArtifact, PublishArtifact, TaskRecorded, TaskShown, TaskEnds, ProcessorStep,
          ReturnText, ThrowError, ThrowUnavailable, Timeout, ExtractionStep, HandOff, HandedOff,
          HandOffDedupes, LateAnswer, FaultStep, LoopWriteFails, TaskWriteFails, EnqueueWriteFails,
          BudgetRunsOut, Abort, ProcessExits, OutcomeFrame, TaskFrame, workerVars
    <2> QED
      BY <1>1, <2>1
  <1>12. CASE phase \in {"closing", "done"} /\ (StartRun \/ LoopStep)
    <2>1. Close
      BY <1>12
      DEF StartRun, LoopStep, TakeSnapshot, NothingLeft, SeeAbort, CancelPending, Shed, Reserve, Reaches,
          Launch, MarkRecorded, MarkShown, EndPass, DrainOne, DrainRecorded, Drained, Resolve
    <2> QED
      BY <1>4, <2>1
  <1>13. CASE ProcessExits \/ LoopWriteFails
    BY <1>1, <1>13 DEF ProcessExits, LoopWriteFails
  <1> QED
    BY <1>1, <1>3, <1>5, <1>7, <1>8, <1>10, <1>11, <1>12, <1>13 DEF WorkerNext, FaultStep

\* What finalize leaves unwritten is on its way to the record.
LEMMA FinalizeFollows ==
  ASSUME TypeOK, RecordFollows, phase # "down", NEW j \in Items, NEW s \in Statuses, Finalize(j, s),
         task[j] # "finalizing", UNCHANGED <<cur, phase, faults>>,
         \A i \in Items \ HandedOver : disk'[i] = disk[i]
  PROVE  RecordFollows'
  BY DEF TypeOK, RecordFollows, HandedOver, Finalize

\* A landed write of the loop is what memory holds.
LEMMA LoopRecordedFollows ==
  ASSUME TypeOK, RecordAgrees, RecordFollows, LoopRecorded, phase # "down", faults = 0,
         NEW i \in Items \ HandedOver
  PROVE  disk'[i] = mem[i] \/ task[i] = "finalizing"
  <1>1. CASE \E w \in cur : w.item = i
    <2>1. /\ (CHOOSE w \in cur : w.item = i) \in cur
          /\ (CHOOSE w \in cur : w.item = i).item = i
      BY <1>1
    <2> QED
      BY <1>1, <2>1 DEF LoopRecorded, RecordAgrees
  <1>2. CASE ~\E w \in cur : w.item = i
    BY <1>2 DEF LoopRecorded, RecordFollows
  <1> QED
    BY <1>1, <1>2

\* Memory moves ahead of a record only by an update whose write is then under way.
LEMMA RecordFollowsStep ==
  IInv /\ RecordAgrees /\ WritesInTurn /\ RecordFollows /\ [WorkerNext]_workerVars => RecordFollows'
  <1> SUFFICES ASSUME IInv, RecordAgrees, WritesInTurn, RecordFollows, [WorkerNext]_workerVars
               PROVE  RecordFollows'
    OBVIOUS
  <1> USE DEF files, loop, tasks, shared, bounds, HandedOver
  <1>0. TypeOK /\ LaunchedProcessing /\ BatchPending /\ DownIdle
    BY DEF IInv
  <1>1. ASSUME UNCHANGED <<disk, mem, task, cur, faults>>, phase' = phase \/ phase # "down"
        PROVE  RecordFollows'
    BY <1>1 DEF RecordFollows
  <1>2. CASE StartRun
    BY <1>2 DEF StartRun, RecordFollows
  <1>3. ASSUME NEW i \in Items, CancelPending(i) \/ Shed(i) \/ Reserve(i) \/ DrainOne(i)
        PROVE  RecordFollows'
    <2>1. cur = {} /\ phase # "down"
      BY <1>3 DEF CancelPending, Shed, Reserve, Reaches, DrainOne, WritesInTurn
    <2>2. /\ UNCHANGED <<disk, task, faults>>
          /\ \E s \in Statuses : LoopUpdate(i, s)
      BY <1>3 DEF CancelPending, Shed, Reserve, DrainOne, Statuses
    <2> QED
      BY <1>0, <2>1, <2>2 DEF RecordFollows, LoopUpdate, TypeOK
  <1>4. ASSUME NEW i \in Items, Launch(i) PROVE RecordFollows'
    <2>1. phase # "down" /\ LoopRecorded /\ cur' = {} /\ faults' = faults
      BY <1>4 DEF Launch, LoopRecorded
    <2>2. mem[i] = "processing" /\ task[i] = "off"
      BY <1>4 DEF IInv, Reservation, Launch
    <2>3. /\ \A j \in Items \ {i} : mem'[j] = mem[j] /\ task'[j] = task[j]
          /\ mem'[i] = mem[i] \/ task'[i] = "finalizing"
      BY <1>0, <1>4, <2>2 DEF Launch, Finalize, TypeOK
    <2> QED
      BY <1>0, <2>1, <2>2, <2>3, LoopRecordedFollows DEF RecordFollows
  <1>5. CASE MarkRecorded \/ DrainRecorded
    <2>1. phase # "down" /\ LoopRecorded /\ cur' = {} /\ UNCHANGED <<mem, task, faults>>
      BY <1>5 DEF MarkRecorded, DrainRecorded, LoopRecorded
    <2> QED
      BY <1>0, <2>1, LoopRecordedFollows DEF RecordFollows
  <1>6. ASSUME NEW i \in Items, ProcessorStep(i) \/ Timeout(i) \/ StageArtifact(i) \/ PublishArtifact(i)
        PROVE  RecordFollows'
    <2>1. task[i] \in {"running", "staging", "publishing"} /\ phase # "down"
      BY <1>0, <1>6
      DEF ProcessorStep, ReturnText, ThrowError, ThrowUnavailable, Answers, Timeout, Awaited,
          StageArtifact, PublishArtifact, DownIdle
    <2>2. UNCHANGED <<disk, cur, phase, faults>>
      BY <1>6
      DEF ProcessorStep, ReturnText, ThrowError, ThrowUnavailable, Timeout, StageArtifact,
          PublishArtifact, OutcomeFrame, TaskFrame
    <2>3. \/ \E s \in Statuses : Finalize(i, s)
          \/ (\E p \in {"staging", "publishing"} : task' = [task EXCEPT ![i] = p]) /\ UNCHANGED mem
      BY <1>6
      DEF ProcessorStep, ReturnText, ThrowError, ThrowUnavailable, Timeout, StageArtifact,
          PublishArtifact, Statuses
    <2>4. ASSUME NEW p \in {"staging", "publishing"}, task' = [task EXCEPT ![i] = p], UNCHANGED mem
          PROVE  RecordFollows'
      BY <1>0, <2>1, <2>2, <2>4 DEF RecordFollows, TypeOK
    <2> QED
      BY <1>0, <2>1, <2>2, <2>3, <2>4, FinalizeFollows
  <1>7. ASSUME NEW i \in Items, TaskRecorded(i) PROVE RecordFollows'
    BY <1>0, <1>7 DEF TaskRecorded, TaskFrame, RecordFollows, RecordAgrees, TypeOK
  <1>8. ASSUME NEW i \in Items, TaskShown(i) \/ TaskEnds(i) PROVE RecordFollows'
    <2>1. /\ task[i] # "finalizing" /\ phase # "down"
          /\ \A j \in Items \ {i} : task'[j] = task[j]
          /\ UNCHANGED <<disk, mem, cur, faults>>
      BY <1>0, <1>8 DEF TaskShown, TaskEnds, DownIdle, TypeOK
    <2> QED
      BY <2>1 DEF RecordFollows
  <1>9. ASSUME NEW d \in DocItems, HandOff(d) PROVE RecordFollows'
    BY <1>0, <1>9, OcrOfType DEF HandOff, OutcomeFrame, TaskFrame, RecordFollows, DownIdle, TypeOK
  <1>10. ASSUME NEW d \in DocItems, HandedOff(d) \/ HandOffDedupes(d) PROVE RecordFollows'
    <2>1. d \in Items /\ phase # "down" /\ UNCHANGED <<cur, phase, faults>>
      BY <1>0, <1>10, OcrOfType DEF HandedOff, HandOffDedupes, OutcomeFrame, TaskFrame, DownIdle
    <2>2. \A j \in Items \ HandedOver : disk'[j] = disk[j]
      BY <1>0, <1>10 DEF HandedOff, HandOffDedupes, OutcomeFrame, TypeOK
    <2>3. \/ task[d] = "running" /\ \E s \in Statuses : Finalize(d, s)
          \/ UNCHANGED <<mem, task>>
      BY <1>10 DEF HandedOff, HandOffDedupes, KeepLocalIfHeard, Statuses
    <2>4. CASE UNCHANGED <<mem, task>>
      BY <2>1, <2>2, <2>4 DEF RecordFollows
    <2> QED
      BY <1>0, <2>1, <2>2, <2>3, <2>4, FinalizeFollows
  <1>11. CASE Abort
    BY <1>0, <1>11 DEF Abort, RecordFollows, TypeOK
  <1>12. CASE ProcessExits
    BY <1>12 DEF ProcessExits, RecordFollows
  <1>13. CASE FaultStep
    <2>1. faults' # 0
      BY <1>0, <1>13 DEF FaultStep, LoopWriteFails, TaskWriteFails, EnqueueWriteFails, TypeOK
    <2> QED
      BY <2>1 DEF RecordFollows
  <1>14. ASSUME NEW d \in DocItems, LateAnswer(d) PROVE RecordFollows'
    BY <1>1, <1>14 DEF LateAnswer, OutcomeFrame, TaskFrame
  <1>15. CASE \/ TakeSnapshot \/ NothingLeft \/ SeeAbort \/ MarkShown \/ EndPass \/ Drained
              \/ Resolve \/ Close \/ BudgetRunsOut \/ UNCHANGED workerVars
    <2>1. UNCHANGED <<disk, mem, task, cur, faults>> /\ (phase' = phase \/ phase # "down")
      BY <1>15
      DEF TakeSnapshot, NothingLeft, SeeAbort, MarkShown, EndPass, Drained, Resolve, Close,
          BudgetRunsOut, workerVars
    <2> QED
      BY <1>1, <2>1
  <1> QED
    BY <1>2, <1>3, <1>4, <1>5, <1>6, <1>7, <1>8, <1>9, <1>10, <1>11, <1>12, <1>13, <1>14, <1>15
    DEF WorkerNext, LoopStep, TaskStep, ExtractionStep

\* A run that resolved left nothing half done, in whatever order its tasks, their
\* writes and their status updates ended (worker.ts:317-333, wiring.ts:633-653).
THEOREM WorkerRunSettled == WorkerSpec => []RunSettled
  <1>1. Init => RecordAgrees /\ SettleInv
    BY DEF Init, RecordAgrees, SettleInv, WritesInTurn, ClosesWhole, RecordFollows
  <1>2. IInv /\ RecordAgrees /\ SettleInv /\ [WorkerNext]_workerVars => SettleInv'
    BY WritesInTurnStep, ClosesWholeStep, RecordFollowsStep DEF SettleInv
  <1>3. SettleInv => RunSettled
    BY DEF SettleInv, WritesInTurn, ClosesWhole, RecordFollows, RunSettled, InFlight
  <1> QED
    BY WorkerInvariant, RecordAgreesStep, <1>1, <1>2, <1>3, PTL DEF WorkerSpec

-----------------------------------------------------------------------------
(* A launched item is on record.                                           *)

\* Only the record says after a crash which calls were under way.
Reserved ==
  \A i \in Items : task[i] # "off" /\ mem[i] = "processing" =>
    /\ task[i] \in {"running", "staging", "publishing"}
    /\ disk[i] = "processing" \/ (i \in HandedOver /\ disk[i] = "pending")

\* The loop overwrites the record of no item in processing but to reserve it.
WritesAside == \A w \in cur : phase = "reserving" \/ mem[w.item] # "processing"

\* An item that is pending and has a free slot has no task, handed off or not.
LEMMA FreeSlotIdle ==
  ASSUME IInv, NEW i \in Items, mem[i] = "pending", active[KindOf[i]] < Limit(KindOf[i])
  PROVE  task[i] = "off"
  <1>0. TypeOK /\ PendingIdle
    BY DEF IInv
  <1>1. CASE i \notin HandedOver
    BY <1>0, <1>1 DEF PendingIdle
  <1>2. CASE i \in HandedOver
    <2>1. KindOf[i] = "ocr"
      BY <1>2, OcrOfType DEF HandedOver
    <2>2. active["ocr"] < 1
      BY <2>1, SingleLimit
    <2> QED
      BY <1>0, <2>1, <2>2, TaskHoldsSlot DEF IInv, TypeOK, Kinds
  <1> QED
    BY <1>1, <1>2

\* finalize takes an item out of processing, or finds that it no longer is.
LEMMA FinalizeReserved ==
  ASSUME TypeOK, Reserved, NEW j \in Items, NEW s \in Statuses \ {"processing"}, Finalize(j, s),
         \A i \in Items \ HandedOver : disk'[i] = disk[i],
         \A i \in HandedOver : disk'[i] \in {disk[i], "pending", mem[i]}
  PROVE  Reserved'
  BY DEF TypeOK, Reserved, HandedOver, Finalize

\* Nobody but the loop puts an item in processing.
LEMMA WritesAsideStep ==
  IInv /\ WritesInTurn /\ WritesAside /\ [WorkerNext]_workerVars => WritesAside'
  <1> SUFFICES ASSUME IInv, WritesInTurn, WritesAside, [WorkerNext]_workerVars PROVE WritesAside'
    OBVIOUS
  <1> USE DEF files, loop, tasks, shared
  <1>0. TypeOK /\ LaunchedProcessing /\ DownIdle
    BY DEF IInv
  <1>1. CASE cur' = {} \/ phase' = "reserving" \/ UNCHANGED <<cur, mem, phase>>
    BY <1>1 DEF WritesAside
  <1>2. ASSUME NEW i \in Items, CancelPending(i) \/ Shed(i) \/ DrainOne(i) PROVE WritesAside'
    BY <1>0, <1>2 DEF CancelPending, Shed, DrainOne, LoopUpdate, WritesAside, TypeOK
  <1>3. ASSUME UNCHANGED <<cur, phase>>,
               \A i \in Items : mem'[i] = "processing" => mem[i] = "processing"
        PROVE  WritesAside'
    BY <1>0, <1>3 DEF WritesAside, TypeOK
  <1>4. ASSUME NEW i \in Items,
               TaskStep(i) \/ ProcessorStep(i) \/ Timeout(i) \/ TaskWriteFails(i), ~TaskEnds(i)
        PROVE  WritesAside'
    <2>1. UNCHANGED <<cur, phase>>
      BY <1>4
      DEF TaskStep, StageArtifact, PublishArtifact, TaskRecorded, TaskShown, ProcessorStep, ReturnText,
          ThrowError, ThrowUnavailable, Timeout, TaskWriteFails, OutcomeFrame, TaskFrame
    <2>2. \A j \in Items : mem'[j] = "processing" => mem[j] = "processing"
      BY <1>0, <1>4
      DEF TaskStep, StageArtifact, PublishArtifact, TaskRecorded, TaskShown, ProcessorStep, ReturnText,
          ThrowError, ThrowUnavailable, Timeout, TaskWriteFails, Finalize, OutcomeFrame, TaskFrame, TypeOK
    <2> QED
      BY <1>3, <2>1, <2>2
  <1>5. ASSUME NEW d \in DocItems, ExtractionStep(d) \/ EnqueueWriteFails(d) PROVE WritesAside'
    <2>1. UNCHANGED <<cur, phase>>
      BY <1>5
      DEF ExtractionStep, HandOff, HandedOff, HandOffDedupes, LateAnswer, EnqueueWriteFails,
          OutcomeFrame, TaskFrame
    <2>2. \A j \in Items : mem'[j] = "processing" => mem[j] = "processing"
      BY <1>0, <1>5, OcrOfType
      DEF ExtractionStep, HandOff, HandedOff, HandOffDedupes, LateAnswer, EnqueueWriteFails,
          KeepLocalIfHeard, Finalize, OutcomeFrame, TypeOK
    <2> QED
      BY <1>3, <2>1, <2>2
  <1>6. CASE Abort
    <2>1. UNCHANGED <<cur, phase>> /\ \A j \in Items : mem'[j] = "processing" => mem[j] = "processing"
      BY <1>0, <1>6 DEF Abort, TypeOK
    <2> QED
      BY <1>3, <2>1
  <1>7. ASSUME NEW i \in Items, TaskEnds(i) PROVE WritesAside'
    BY <1>7 DEF TaskEnds, WritesAside
  <1>8. CASE StartRun \/ TakeSnapshot \/ NothingLeft \/ SeeAbort \/ MarkShown \/ EndPass \/ Drained \/ Resolve \/ Close
    <2>1. cur = {} /\ cur' = cur
      BY <1>0, <1>8
      DEF WritesInTurn, DownIdle, StartRun, TakeSnapshot, NothingLeft, SeeAbort, MarkShown, EndPass,
          Drained, Resolve, Close
    <2> QED
      BY <1>1, <2>1
  <1>9. ASSUME NEW i \in Items, Reserve(i) \/ Launch(i) PROVE WritesAside'
    BY <1>1, <1>9 DEF Reserve, Launch, LoopRecorded
  <1>10. CASE \/ MarkRecorded \/ DrainRecorded \/ LoopWriteFails \/ ProcessExits \/ BudgetRunsOut
              \/ UNCHANGED workerVars
    BY <1>1, <1>10
    DEF MarkRecorded, DrainRecorded, LoopRecorded, LoopWriteFails, ProcessExits, BudgetRunsOut, workerVars
  <1> QED
    BY <1>2, <1>4, <1>5, <1>6, <1>7, <1>8, <1>9, <1>10 DEF WorkerNext, LoopStep, FaultStep

\* The reservation landed before its launch, and nothing replaces it until the outcome.
LEMMA ReservedStep ==
  IInv /\ WritesAside /\ Reserved /\ [WorkerNext]_workerVars => Reserved'
  <1> SUFFICES ASSUME IInv, WritesAside, Reserved, [WorkerNext]_workerVars PROVE Reserved'
    OBVIOUS
  <1> USE DEF files, loop, tasks, shared, HandedOver
  <1>0. TypeOK /\ LaunchedProcessing /\ BatchPending /\ DownIdle
    BY DEF IInv
  <1>1. CASE UNCHANGED <<disk, mem, task>>
    BY <1>1 DEF Reserved
  <1>2. CASE StartRun \/ ProcessExits
    BY <1>0, <1>2 DEF StartRun, ProcessExits, DownIdle, Reserved
  <1>3. ASSUME NEW i \in Items, CancelPending(i) \/ Shed(i) \/ DrainOne(i) PROVE Reserved'
    BY <1>0, <1>3 DEF CancelPending, Shed, DrainOne, LoopUpdate, Reserved, TypeOK
  <1>4. ASSUME NEW i \in Items, Reserve(i) PROVE Reserved'
    <2>1. task[i] = "off"
      BY <1>0, <1>4, FreeSlotIdle DEF Reserve, Reaches, BatchPending
    <2> QED
      BY <1>0, <1>4, <2>1 DEF Reserve, LoopUpdate, Reserved, TypeOK
  <1>5. ASSUME NEW i \in Items, Launch(i) PROVE Reserved'
    <2>1. /\ LoopRecorded /\ \E w \in cur : w.item = i
          /\ \A w \in cur : w.status = "processing" /\ task[w.item] = "off" /\ mem[w.item] = "processing"
      BY <1>5 DEF IInv, Reservation, Launch
    <2>2. disk'[i] = "processing"
      <3>1. (CHOOSE w \in cur : w.item = i) \in cur
        BY <2>1
      <3> QED
        BY <2>1, <3>1 DEF LoopRecorded
    <2>3. \A j \in Items \ {i} : disk'[j] = disk[j] \/ task[j] = "off"
      BY <1>0, <2>1, LoopRecordedWrites
    <2>4. /\ \A j \in Items \ {i} : mem'[j] = mem[j] /\ task'[j] = task[j]
          /\ task'[i] = "running" \/ mem'[i] # "processing"
      BY <1>0, <1>5, <2>1 DEF Launch, Finalize, TypeOK
    <2> QED
      BY <2>2, <2>3, <2>4 DEF Reserved
  <1>6. CASE MarkRecorded \/ DrainRecorded
    <2>1. phase # "reserving" /\ LoopRecorded /\ UNCHANGED <<mem, task>>
      BY <1>6 DEF MarkRecorded, DrainRecorded
    <2> QED
      BY <1>0, <2>1, LoopRecordedWrites DEF Reserved, WritesAside
  <1>7. ASSUME NEW i \in Items, ProcessorStep(i) \/ Timeout(i) \/ StageArtifact(i) \/ PublishArtifact(i)
        PROVE  Reserved'
    <2>1. task[i] \in {"running", "staging", "publishing"} /\ UNCHANGED disk
      BY <1>7
      DEF ProcessorStep, ReturnText, ThrowError, ThrowUnavailable, Answers, Timeout, Awaited,
          StageArtifact, PublishArtifact, OutcomeFrame
    <2>2. \/ \E s \in Statuses \ {"processing"} : Finalize(i, s)
          \/ (\E p \in {"staging", "publishing"} : task' = [task EXCEPT ![i] = p]) /\ UNCHANGED mem
      BY <1>7
      DEF ProcessorStep, ReturnText, ThrowError, ThrowUnavailable, Timeout, StageArtifact,
          PublishArtifact, Statuses
    <2>3. ASSUME NEW p \in {"staging", "publishing"}, task' = [task EXCEPT ![i] = p], UNCHANGED mem
          PROVE  Reserved'
      BY <1>0, <2>1, <2>3 DEF Reserved, TypeOK
    <2> QED
      BY <1>0, <2>1, <2>2, <2>3, FinalizeReserved
  <1>8. ASSUME NEW i \in Items, TaskRecorded(i) \/ TaskShown(i) \/ TaskEnds(i) \/ TaskWriteFails(i)
        PROVE  Reserved'
    <2>1. /\ task[i] \in {"finalizing", "refreshing", "settled"} /\ UNCHANGED mem
          /\ \A j \in Items \ {i} : disk'[j] = disk[j] /\ task'[j] = task[j]
      BY <1>0, <1>8 DEF TaskRecorded, TaskShown, TaskEnds, TaskWriteFails, TypeOK
    <2> QED
      BY <2>1 DEF Reserved
  <1>9. ASSUME NEW d \in DocItems, HandOff(d) PROVE Reserved'
    BY <1>0, <1>9, OcrOfType DEF HandOff, OutcomeFrame, Reserved, TypeOK
  <1>10. ASSUME NEW d \in DocItems, HandedOff(d) \/ HandOffDedupes(d) \/ EnqueueWriteFails(d)
         PROVE  Reserved'
    <2>1. d \in Items /\ OcrOf[d] \in HandedOver /\ OcrOf[d] \in Items
      BY OcrOfType
    <2>2. /\ \A i \in Items \ HandedOver : disk'[i] = disk[i]
          /\ \A i \in HandedOver : disk'[i] \in {disk[i], "pending", mem[i]}
      BY <1>0, <1>10, <2>1, OcrOfType
      DEF HandedOff, HandOffDedupes, EnqueueWriteFails, OutcomeFrame, TypeOK
    <2>3. \/ \E s \in Statuses \ {"processing"} : Finalize(d, s)
          \/ UNCHANGED <<mem, task>>
      BY <1>10 DEF HandedOff, HandOffDedupes, EnqueueWriteFails, KeepLocalIfHeard, Statuses
    <2>4. CASE UNCHANGED <<mem, task>>
      BY <2>2, <2>4 DEF Reserved
    <2> QED
      BY <1>0, <2>1, <2>2, <2>3, <2>4, FinalizeReserved
  <1>11. CASE Abort
    BY <1>0, <1>11 DEF Abort, Reserved, TypeOK
  <1>12. ASSUME NEW d \in DocItems, LateAnswer(d) PROVE Reserved'
    BY <1>1, <1>12 DEF LateAnswer, OutcomeFrame
  <1>13. CASE \/ TakeSnapshot \/ NothingLeft \/ SeeAbort \/ MarkShown \/ EndPass \/ Drained
              \/ Resolve \/ Close \/ LoopWriteFails \/ BudgetRunsOut \/ UNCHANGED workerVars
    BY <1>1, <1>13
    DEF TakeSnapshot, NothingLeft, SeeAbort, MarkShown, EndPass, Drained, Resolve, Close,
        LoopWriteFails, BudgetRunsOut, workerVars
  <1> QED
    BY <1>2, <1>3, <1>4, <1>5, <1>6, <1>7, <1>8, <1>9, <1>10, <1>11, <1>12, <1>13
    DEF WorkerNext, LoopStep, TaskStep, ExtractionStep, FaultStep

\* Whatever the order of the record writes, a crash finds every call that was under
\* way on record, so that recovery queues it again (worker.ts:285-290).
THEOREM WorkerReservedOnDisk == WorkerSpec => []ReservedOnDisk
  <1>1. Init => WritesInTurn /\ WritesAside /\ Reserved
    BY DEF Init, WritesInTurn, WritesAside, Reserved
  <1>2. Reserved => ReservedOnDisk
    BY DEF Reserved, ReservedOnDisk
  <1> QED
    BY WorkerInvariant, WritesInTurnStep, WritesAsideStep, ReservedStep, <1>1, <1>2, PTL
    DEF WorkerSpec
=============================================================================
