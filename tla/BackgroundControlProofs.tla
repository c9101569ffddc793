----------------------- MODULE BackgroundControlProofs ----------------------
(***************************************************************************)
(* Proofs about the worker with cancel and retry commands beside it, for   *)
(* any number of controllers and commands: what the worker promises alone  *)
(* and still promises with its files changed under it, that a cancel on    *)
(* file holds, and that it holds for ever when no two cancels overlap.     *)
(***************************************************************************)
EXTENDS BackgroundControl, BackgroundWorkerProofs

-----------------------------------------------------------------------------
(* What a command changes.                                                 *)

\* A command has a copy of the records, and items it has still to read or to write.
CommandStates ==
  [at : {"idle", "load", "request", "apply"}, cmd : Commands \cup {NoCommand},
   own : [Items -> Slot], left : SUBSET Items, reset : SUBSET Items,
   seen : [run : BOOLEAN, items : SUBSET Items]]
ControlType == ctl \in [Controllers -> CommandStates]

\* A command is about items, and leaves those it affects cancelled or pending.
LEMMA CommandType ==
  ASSUME NEW cmd \in Commands \cup {NoCommand}
  PROVE  cmd.targets \subseteq Items /\ Outcome(cmd) \in {"cancelled", "pending"}
  BY DEF Commands, NoCommand, Outcome

\* A command changes the files it shares with the worker and nothing else of it.
LEMMA ControlFrame ==
  ASSUME NEW c \in Controllers, ControlStep(c)
  PROVE  UNCHANGED <<agentRoot, staging, mem, loop, tasks, proc, shared, bounds>>
  BY DEF ControlStep, Begin, LoadRecord, ResetRecord, Loaded, RequestLands, Apply, Finish,
         WorkerFrame

\* A controller without a command has a state.
LEMMA IdleType == Idle \in CommandStates
  BY DEF Idle, NoRecords, CommandStates, Slot

\* What a command reads and requests is well formed.
LEMMA ControlTypeStep ==
  ASSUME TypeOK, ControlType, NEW c \in Controllers, ControlStep(c)
  PROVE  /\ ControlType'
         /\ disk' \in [Items -> Slot]
         /\ cancelFile' \in [run : BOOLEAN, items : SUBSET Items]
         /\ statusFile' \in Status
  <1> DEFINE s == ctl[c]
  <1>0. /\ disk \in [Items -> Slot] /\ statusFile \in Status
        /\ cancelFile \in [run : BOOLEAN, items : SUBSET Items]
    BY DEF TypeOK
  <1>s. /\ s \in CommandStates
        /\ s.at \in {"idle", "load", "request", "apply"}
        /\ s.cmd \in Commands \cup {NoCommand} /\ s.cmd.targets \subseteq Items
        /\ s.own \in [Items -> Slot]
        /\ s.left \subseteq Items /\ s.reset \subseteq Items
        /\ s.seen \in [run : BOOLEAN, items : SUBSET Items]
        /\ Outcome(s.cmd) \in Slot
        /\ Affected(s.cmd, s.own) \subseteq Items
    <2>1. s \in CommandStates
      BY DEF ControlType
    <2>2. s.cmd \in Commands \cup {NoCommand}
      BY <2>1 DEF CommandStates
    <2>3. s.cmd.targets \subseteq Items /\ Outcome(s.cmd) \in {"cancelled", "pending"}
      BY <2>2, CommandType
    <2>4. Affected(s.cmd, s.own) \subseteq Items
      BY <2>3 DEF Affected
    <2> HIDE DEF s
    <2> QED BY <2>1, <2>2, <2>3, <2>4 DEF CommandStates, Slot, Statuses
  <1>t. ASSUME NEW r \in CommandStates, ctl' = [ctl EXCEPT ![c] = r] PROVE ControlType'
    BY <1>t DEF ControlType
  <1>1. ASSUME NEW cmd \in Commands, Begin(c, cmd)
        PROVE  ControlType' /\ UNCHANGED <<disk, cancelFile, statusFile>>
    <2>1. [Idle EXCEPT !.at = "load", !.cmd = cmd, !.left = {i \in Items : disk[i] # "absent"}]
            \in CommandStates
      BY IdleType DEF CommandStates
    <2> QED BY <1>1, <1>t, <2>1 DEF Begin
  <1>2. ASSUME NEW i \in Items, LoadRecord(c, i)
        PROVE  ControlType' /\ UNCHANGED <<disk, cancelFile, statusFile>>
    <2> DEFINE v == IF disk[i] = "processing" THEN {i} ELSE {}
               o == [s.own EXCEPT ![i] = Recovered(disk[i])]
               r == [s EXCEPT !.left = @ \ {i}, !.own = o, !.reset = v]
    <2>1. Recovered(disk[i]) \in Slot /\ v \subseteq Items
      BY <1>0 DEF Recovered, Slot, Statuses
    <2>2. ctl' = [ctl EXCEPT ![c] = r]
      BY <1>2 DEF LoadRecord, ControlType
    <2>3. r \in CommandStates
      <3>1. o \in [Items -> Slot]
        BY <1>s, <2>1
      <3> HIDE DEF o, v, s
      <3> QED BY <1>s, <2>1, <3>1 DEF CommandStates
    <2> HIDE DEF r
    <2> QED BY <1>2, <1>t, <2>2, <2>3 DEF LoadRecord
  <1>3. ASSUME NEW i \in Items, ResetRecord(c, i)
        PROVE  ControlType' /\ disk' \in [Items -> Slot] /\ UNCHANGED <<cancelFile, statusFile>>
    <2>1. [s EXCEPT !.reset = {}] \in CommandStates
      BY <1>s DEF CommandStates
    <2>2. ctl' = [ctl EXCEPT ![c] = [s EXCEPT !.reset = {}]]
      BY <1>3 DEF ResetRecord, ControlType
    <2>3. ControlType'
      BY <1>t, <2>1, <2>2
    <2> QED BY <1>0, <1>3, <2>3 DEF ResetRecord, Slot, Statuses
  <1>4. CASE Loaded(c)
    <2>1. /\ [s EXCEPT !.at = "request", !.seen = cancelFile] \in CommandStates
          /\ [s EXCEPT !.at = "apply", !.left = Affected(s.cmd, s.own)] \in CommandStates
      BY <1>0, <1>s DEF CommandStates
    <2>2. \/ ctl' = [ctl EXCEPT ![c] = [s EXCEPT !.at = "request", !.seen = cancelFile]]
          \/ ctl' = [ctl EXCEPT ![c] = [s EXCEPT !.at = "apply", !.left = Affected(s.cmd, s.own)]]
      BY <1>4 DEF Loaded, ControlType
    <2>3. ControlType'
      BY <1>t, <2>1, <2>2
    <2> QED BY <1>0, <1>4, <2>3 DEF Loaded
  <1>5. CASE RequestLands(c)
    <2>1. [s EXCEPT !.at = "apply", !.seen = Idle.seen, !.left = Affected(s.cmd, s.own)]
            \in CommandStates
      BY <1>s, IdleType DEF CommandStates
    <2>2. ctl' = [ctl EXCEPT ![c] =
                    [s EXCEPT !.at = "apply", !.seen = Idle.seen, !.left = Affected(s.cmd, s.own)]]
      BY <1>5 DEF RequestLands, ControlType
    <2>3. Requested(s.cmd, s.seen) \in [run : BOOLEAN, items : SUBSET Items]
      BY <1>s DEF Requested
    <2>4. ControlType'
      BY <1>t, <2>1, <2>2
    <2> QED BY <1>0, <1>5, <2>3, <2>4 DEF RequestLands
  <1>6. ASSUME NEW i \in Items, Apply(c, i)
        PROVE  ControlType' /\ disk' \in [Items -> Slot] /\ UNCHANGED <<cancelFile, statusFile>>
    <2> DEFINE o == [s.own EXCEPT ![i] = Outcome(s.cmd)]
               r == [s EXCEPT !.left = @ \ {i}, !.own = o]
    <2>1. ctl' = [ctl EXCEPT ![c] = r]
      BY <1>6 DEF Apply, ControlType
    <2>2. r \in CommandStates
      <3>1. o \in [Items -> Slot]
        BY <1>s
      <3> HIDE DEF o, s
      <3> QED BY <1>s, <3>1 DEF CommandStates
    <2> HIDE DEF r
    <2>3. ControlType'
      BY <1>t, <2>1, <2>2
    <2>4. disk' \in [Items -> Slot]
      BY <1>0, <1>6, <1>s DEF Apply
    <2> QED BY <1>6, <2>3, <2>4 DEF Apply
  <1>7. CASE Finish(c)
    BY <1>0, <1>7, <1>t, IdleType, ShownType DEF Finish
  <1> QED BY <1>0, <1>1, <1>2, <1>3, <1>4, <1>5, <1>6, <1>7 DEF ControlStep

-----------------------------------------------------------------------------
(* What the worker promises beside commands.                               *)

\* The accounting of the worker is in its memory, which no command touches.
LEMMA ControlKeepsIInv ==
  ASSUME IInv, ControlType, NEW c \in Controllers, ControlStep(c)
  PROVE  IInv'
  <1> USE ControlFrame DEF loop, tasks, shared, bounds
  <1>1. TypeOK'
    BY ControlTypeStep DEF IInv, TypeOK
  <1>2. SlotsCounted'
    BY SameSlots DEF IInv
  <1>3. LaunchedProcessing' /\ PendingIdle' /\ BatchPending' /\ DownIdle'
    BY DEF IInv, LaunchedProcessing, PendingIdle, BatchPending, DownIdle
  <1>4. Reservation'
    BY DEF IInv, Reservation
  <1> QED BY <1>1, <1>2, <1>3, <1>4 DEF IInv

\* The accounting of the worker, and well-formed commands beside it.
CInv == IInv /\ ControlType

\* It holds before anything has run.
LEMMA InitCInv == ControlInit => CInv
  <1> SUFFICES ASSUME ControlInit PROVE ControlType
    BY InitIInv DEF ControlInit, CInv
  <1> QED BY IdleType DEF ControlInit, ControlType

\* A step is one of the worker, which leaves the commands alone, or one of a command.
LEMMA StepCases ==
  ASSUME [Next]_allVars
  PROVE  \/ [WorkerNext]_workerVars /\ UNCHANGED controlVars
         \/ \E c \in Controllers : ControlStep(c)
  BY DEF Next, allVars

\* Every step keeps it.
LEMMA CInvStep == CInv /\ [Next]_allVars => CInv'
  <1> SUFFICES ASSUME CInv, [Next]_allVars PROVE CInv'
    OBVIOUS
  <1>1. CASE [WorkerNext]_workerVars /\ UNCHANGED controlVars
    BY <1>1, IInvStep DEF CInv, ControlType, controlVars
  <1>2. ASSUME NEW c \in Controllers, ControlStep(c) PROVE CInv'
    BY <1>2, ControlTypeStep, ControlKeepsIInv DEF CInv, IInv
  <1> QED BY <1>1, <1>2, StepCases

\* Commands beside the worker do not disturb its accounting: the invariant of the worker
\* alone holds with any number of them, whatever they write to the records meanwhile.
THEOREM ControlInvariant == Spec => []CInv
  BY InitCInv, CInvStep, PTL DEF Spec

\* Nor do they make it start a call more than it may: with retries that put items back
\* while it drains, the worker implements CallBudget (worker.ts:263-300).
THEOREM ControlKeepsCallBudget == Spec => KeepsCallBudget
  <1>1. ControlInit => Budget!BudgetInit
    BY BudgetInitial DEF ControlInit
  <1>2. CInv /\ [Next]_allVars => [Budget!BudgetNext]_(Budget!budgetVars)
    <2> SUFFICES ASSUME CInv, [Next]_allVars PROVE [Budget!BudgetNext]_(Budget!budgetVars)
      OBVIOUS
    <2>1. CASE [WorkerNext]_workerVars
      BY <2>1, BudgetStep DEF CInv
    <2>2. ASSUME NEW c \in Controllers, ControlStep(c) PROVE UNCHANGED <<calls, active, circuit>>
      BY <2>2, ControlFrame DEF loop, shared
    <2> QED BY <2>1, <2>2, StepCases, BudgetStutters
  <1> QED BY <1>1, <1>2, ControlInvariant, PTL DEF Spec, KeepsCallBudget, Budget!BudgetSpec

\* The worker never gives up with work left, whatever is cancelled or retried beside it.
THEOREM ControlNeverGivesUp == Spec => []NeverGivesUp
  <1>1. ControlInit => PassHasWork
    BY DEF ControlInit, Init, PassHasWork
  <1>2. CInv /\ PassHasWork /\ [Next]_allVars => PassHasWork'
    <2> SUFFICES ASSUME CInv, PassHasWork, [Next]_allVars PROVE PassHasWork'
      OBVIOUS
    <2>1. CASE [WorkerNext]_workerVars
      BY <2>1, PassHasWorkStep DEF CInv, IInv
    <2>2. ASSUME NEW c \in Controllers, ControlStep(c) PROVE PassHasWork'
      BY <2>2, ControlFrame DEF loop, tasks, PassHasWork, InFlight
    <2> QED BY <2>1, <2>2, StepCases
  <1>3. CInv /\ PassHasWork => NeverGivesUp
    BY PassNeverGivesUp DEF CInv
  <1> QED BY <1>1, <1>2, <1>3, ControlInvariant, PTL DEF Spec

-----------------------------------------------------------------------------
(* Completed means published.                                              *)

\* A command knows an item as completed only if a record said so.
ReadPublished ==
  \A c \in Controllers : \A i \in Items : ctl[c].own[i] = "completed" => i \in agentRoot

\* No step takes a companion out of the workspace.
LEMMA RootGrows == [WorkerNext]_workerVars => agentRoot \subseteq agentRoot'
  <1> USE DEF files
  <1>1. ASSUME NEW i \in Items, TaskStep(i) \/ ProcessorStep(i) \/ Timeout(i) \/ TaskWriteFails(i)
        PROVE  agentRoot \subseteq agentRoot'
    BY <1>1 DEF TaskStep, StageArtifact, PublishArtifact, TaskRecorded, TaskShown, TaskEnds,
       ProcessorStep, ReturnText, ThrowError, ThrowUnavailable, Timeout, TaskWriteFails, OutcomeFrame
  <1>2. ASSUME NEW d \in DocItems, ExtractionStep(d) \/ EnqueueWriteFails(d)
        PROVE  agentRoot \subseteq agentRoot'
    BY <1>2 DEF ExtractionStep, HandOff, HandedOff, HandOffDedupes, LateAnswer, EnqueueWriteFails,
       OutcomeFrame
  <1>3. CASE \/ LoopStep \/ StartRun \/ LoopWriteFails \/ BudgetRunsOut \/ Abort \/ ProcessExits
             \/ UNCHANGED workerVars
    BY <1>3 DEF LoopStep, TakeSnapshot, NothingLeft, SeeAbort, CancelPending, Shed, Reserve, Launch,
       MarkRecorded, MarkShown, EndPass, DrainOne, DrainRecorded, Drained, Resolve, Close, StartRun,
       LoopWriteFails, BudgetRunsOut, Abort, ProcessExits, workerVars
  <1> QED BY <1>1, <1>2, <1>3 DEF WorkerNext, FaultStep

\* A command publishes, records and shows nothing that was not on record as completed.
LEMMA ControlPublishes ==
  ASSUME CInv, PInv, ReadPublished, NEW c \in Controllers, ControlStep(c)
  PROVE  PInv' /\ ReadPublished'
  <1> USE ControlFrame DEF loop, tasks, shared, bounds
  <1>1. TypeOK'
    BY ControlKeepsIInv DEF CInv, IInv
  <1>2. ClaimsPublished' /\ agentRoot' = agentRoot /\ mem' = mem
    BY DEF PInv, ClaimsPublished
  <1>t. /\ TypeOK /\ ControlType /\ CompletedMeansPublished
        /\ ctl[c].own \in [Items -> Slot] /\ ctl[c].cmd \in Commands \cup {NoCommand}
    BY DEF CInv, PInv, ControlType, CommandStates
  <1>3. /\ \A i \in Items : disk'[i] = "completed" => i \in agentRoot
        /\ statusFile'.completed \subseteq agentRoot
    <2>0. statusFile.completed \subseteq Items
      BY <1>t DEF TypeOK, Status
    <2>1. ASSUME NEW cmd \in Commands, Begin(c, cmd) PROVE UNCHANGED <<disk, statusFile>>
      BY <2>1 DEF Begin
    <2>2. ASSUME NEW i \in Items, LoadRecord(c, i) PROVE UNCHANGED <<disk, statusFile>>
      BY <2>2 DEF LoadRecord
    <2>3. ASSUME NEW i \in Items, ResetRecord(c, i)
          PROVE  disk' = [disk EXCEPT ![i] = "pending"] /\ statusFile' = statusFile
      BY <2>3 DEF ResetRecord
    <2>4. CASE Loaded(c) \/ RequestLands(c)
      BY <1>t, <2>0, <2>4 DEF Loaded, RequestLands, CompletedMeansPublished
    <2>5. ASSUME NEW i \in Items, Apply(c, i)
          PROVE  disk' = [disk EXCEPT ![i] = Outcome(ctl[c].cmd)] /\ statusFile' = statusFile
                 /\ Outcome(ctl[c].cmd) # "completed"
      BY <1>t, <2>5, CommandType DEF Apply
    <2>6. CASE Finish(c)
      <3>1. Shown(ctl[c].own).completed \subseteq agentRoot
        BY ShownPublished DEF ReadPublished
      <3> QED BY <1>t, <2>6, <3>1 DEF Finish, CompletedMeansPublished
    <2> QED BY <1>t, <2>0, <2>1, <2>2, <2>3, <2>4, <2>5, <2>6
        DEF ControlStep, CompletedMeansPublished, TypeOK
  <1>4. CompletedMeansPublished'
    BY <1>t, <1>2, <1>3 DEF CompletedMeansPublished
  <1>5. ReadPublished'
    <2>1. ASSUME NEW cmd \in Commands, Begin(c, cmd) PROVE ReadPublished'
      BY <1>2, <1>t, <2>1 DEF Begin, ReadPublished, ControlType, CommandStates, Idle, NoRecords
    <2>2. ASSUME NEW i \in Items, LoadRecord(c, i) PROVE ReadPublished'
      BY <1>2, <1>t, <2>2
      DEF LoadRecord, ReadPublished, ControlType, CommandStates, Recovered,
          CompletedMeansPublished
    <2>3. ASSUME NEW i \in Items, ResetRecord(c, i) PROVE ReadPublished'
      BY <1>2, <1>t, <2>3 DEF ResetRecord, ReadPublished, ControlType, CommandStates
    <2>4. CASE Loaded(c)
      BY <1>2, <1>t, <2>4 DEF Loaded, ReadPublished, ControlType, CommandStates
    <2>5. CASE RequestLands(c)
      BY <1>2, <1>t, <2>5 DEF RequestLands, ReadPublished, ControlType, CommandStates
    <2>6. ASSUME NEW i \in Items, Apply(c, i) PROVE ReadPublished'
      BY <1>2, <1>t, <2>6, CommandType DEF Apply, ReadPublished, ControlType, CommandStates
    <2>7. CASE Finish(c)
      BY <1>2, <1>t, <2>7 DEF Finish, ReadPublished, ControlType, CommandStates, Idle, NoRecords
    <2> QED BY <2>1, <2>2, <2>3, <2>4, <2>5, <2>6, <2>7 DEF ControlStep
  <1> QED BY <1>1, <1>2, <1>4, <1>5 DEF PInv

\* Whatever is recorded or shown as completed is in the agent-visible workspace, also
\* after a command has written the records and the public status from a copy of its own
\* (wiring.ts:670-725).
THEOREM ControlCompletedMeansPublished == Spec => []CompletedMeansPublished
  <1>1. ControlInit => PInv /\ ReadPublished
    BY InitPublished DEF ControlInit, ReadPublished, Idle, NoRecords
  <1>2. CInv /\ PInv /\ ReadPublished /\ [Next]_allVars => PInv' /\ ReadPublished'
    <2> SUFFICES ASSUME CInv, PInv, ReadPublished, [Next]_allVars PROVE PInv' /\ ReadPublished'
      OBVIOUS
    <2>1. CASE [WorkerNext]_workerVars /\ UNCHANGED controlVars
      BY <2>1, PublishedStep, RootGrows DEF CInv, ReadPublished, controlVars
    <2>2. ASSUME NEW c \in Controllers, ControlStep(c) PROVE PInv' /\ ReadPublished'
      BY <2>2, ControlPublishes
    <2> QED BY <2>1, <2>2, StepCases
  <1>3. PInv => CompletedMeansPublished
    BY DEF PInv
  <1> QED BY <1>1, <1>2, <1>3, ControlInvariant, PTL DEF Spec

-----------------------------------------------------------------------------
(* A cancel on file holds.                                                 *)

\* The worker only reads the cancellations.
LEMMA CancelFileKept == [WorkerNext]_workerVars => cancelFile' = cancelFile
  <1> USE DEF files
  <1>1. ASSUME NEW i \in Items, TaskStep(i) \/ ProcessorStep(i) \/ Timeout(i) \/ TaskWriteFails(i)
        PROVE  cancelFile' = cancelFile
    BY <1>1 DEF TaskStep, StageArtifact, PublishArtifact, TaskRecorded, TaskShown, TaskEnds,
       ProcessorStep, ReturnText, ThrowError, ThrowUnavailable, Timeout, TaskWriteFails,
       OutcomeFrame, TaskFrame
  <1>2. ASSUME NEW d \in DocItems, ExtractionStep(d) \/ EnqueueWriteFails(d)
        PROVE  cancelFile' = cancelFile
    BY <1>2 DEF ExtractionStep, HandOff, HandedOff, HandOffDedupes, LateAnswer, EnqueueWriteFails,
       OutcomeFrame, TaskFrame
  <1>3. CASE \/ LoopStep \/ StartRun \/ LoopWriteFails \/ BudgetRunsOut \/ Abort \/ ProcessExits
             \/ UNCHANGED workerVars
    BY <1>3 DEF LoopStep, TakeSnapshot, NothingLeft, SeeAbort, CancelPending, Shed, Reserve, Launch,
       MarkRecorded, MarkShown, EndPass, DrainOne, DrainRecorded, Drained, Resolve, Close, StartRun,
       LoopWriteFails, BudgetRunsOut, Abort, ProcessExits, workerVars
  <1> QED BY <1>1, <1>2, <1>3 DEF WorkerNext, FaultStep

\* The worker looks at the file after the processor has answered and before it publishes;
\* nothing else begins a publication, and only a publication that has begun is made.
LEMMA WorkerObeysCancel ==
  ASSUME TypeOK, [WorkerNext]_workerVars, NEW i \in Items, OnFile(i), ~Publishing(i)
  PROVE  /\ ~Publishing(i)'
         /\ i \in agentRoot' => i \in agentRoot
  <1> USE DEF Publishing, OnFile, TypeOK, files, tasks
  <1>1. ASSUME NEW n \in Items, TaskStep(n)
        PROVE  /\ task'[i] \notin {"staging", "publishing"}
               /\ i \in agentRoot' => i \in agentRoot
    BY <1>1 DEF TaskStep, StageArtifact, PublishArtifact, TaskRecorded, TaskShown, TaskEnds,
       Finalize, TaskFrame
  <1>2. ASSUME NEW n \in Items, ProcessorStep(n) \/ Timeout(n) \/ TaskWriteFails(n)
        PROVE  /\ task'[i] \notin {"staging", "publishing"}
               /\ agentRoot' = agentRoot
    BY <1>2 DEF ProcessorStep, ReturnText, Answers, Cancelled, ThrowError, ThrowUnavailable, Timeout,
       TaskWriteFails, Finalize, OutcomeFrame, TaskFrame
  <1>3. ASSUME NEW d \in DocItems, ExtractionStep(d) \/ EnqueueWriteFails(d)
        PROVE  /\ task'[i] \notin {"staging", "publishing"}
               /\ agentRoot' = agentRoot
    BY <1>3 DEF ExtractionStep, HandOff, HandedOff, HandOffDedupes, LateAnswer, EnqueueWriteFails,
       KeepLocalIfHeard, Finalize, OutcomeFrame, TaskFrame
  <1>4. ASSUME NEW n \in Items, Launch(n)
        PROVE  /\ task'[i] \notin {"staging", "publishing"}
               /\ agentRoot' = agentRoot
    BY <1>4 DEF Launch, Finalize
  <1>5. CASE LoopStep /\ ~\E n \in Items : Launch(n)
    BY <1>5 DEF LoopStep, TakeSnapshot, NothingLeft, SeeAbort, CancelPending, Shed, Reserve,
       MarkRecorded, MarkShown, EndPass, DrainOne, DrainRecorded, Drained, Resolve, Close
  <1>6. CASE StartRun \/ LoopWriteFails \/ BudgetRunsOut \/ UNCHANGED workerVars
    BY <1>6 DEF StartRun, LoopWriteFails, BudgetRunsOut, workerVars
  <1>7. CASE Abort
    BY <1>7 DEF Abort
  <1>8. CASE ProcessExits
    BY <1>8 DEF ProcessExits
  <1> QED BY <1>1, <1>2, <1>3, <1>4, <1>5, <1>6, <1>7, <1>8 DEF WorkerNext, FaultStep

\* Once a cancel of an item is on file and its publication has not begun, no step begins
\* or makes it: for any number of controllers, commands and exits of the worker.
THEOREM ControlCancelHolds == Spec => CancelHolds
  <1>1. CInv /\ [Next]_allVars =>
          [\A i \in Items : OnFile(i) /\ ~Publishing(i) =>
             ~Publishing(i)' /\ (i \in agentRoot' => i \in agentRoot)]_allVars
    <2> SUFFICES ASSUME CInv, [Next]_allVars, NEW i \in Items, OnFile(i), ~Publishing(i)
                 PROVE  ~Publishing(i)' /\ (i \in agentRoot' => i \in agentRoot)
      OBVIOUS
    <2>1. CASE [WorkerNext]_workerVars
      BY <2>1, WorkerObeysCancel DEF CInv, IInv
    <2>2. ASSUME NEW c \in Controllers, ControlStep(c) PROVE UNCHANGED <<task, agentRoot>>
      BY <2>2, ControlFrame DEF tasks
    <2> QED BY <2>1, <2>2, StepCases DEF Publishing
  <1> QED BY <1>1, ControlInvariant, PTL DEF Spec, CancelHolds

\* At most one command is between reading cancellations.json and writing it.
OneRequest ==
  \A c, d \in Controllers : ctl[c].at = "request" /\ ctl[d].at = "request" => c = d

\* What that command has read is what is there.
SeenCurrent == \A c \in Controllers : ctl[c].at = "request" => ctl[c].seen = cancelFile

\* An item that was cancelled before its publication began is never published.
CancelFinal ==
  [][\A i \in Items : OnFile(i) /\ ~Publishing(i) /\ i \notin agentRoot =>
       OnFile(i)' /\ ~Publishing(i)' /\ i \notin agentRoot']_allVars

\* Only a cancel writes the file, and while one does so no other has read it.
LEMMA SeenCurrentStep ==
  CInv /\ SeenCurrent /\ OneRequest /\ [Next]_allVars => SeenCurrent'
  <1> SUFFICES ASSUME CInv, SeenCurrent, OneRequest, [Next]_allVars PROVE SeenCurrent'
    OBVIOUS
  <1> USE DEF SeenCurrent, CInv, ControlType, CommandStates
  <1>1. CASE [WorkerNext]_workerVars /\ UNCHANGED controlVars
    <2>1. cancelFile' = cancelFile
      BY <1>1, CancelFileKept
    <2> QED BY <1>1, <2>1 DEF controlVars
  <1>2. ASSUME NEW c \in Controllers, ControlStep(c) PROVE SeenCurrent'
    <2>1. ASSUME NEW cmd \in Commands, Begin(c, cmd) PROVE SeenCurrent'
      BY <2>1 DEF Begin
    <2>2. ASSUME NEW i \in Items, LoadRecord(c, i) \/ ResetRecord(c, i) \/ Apply(c, i)
          PROVE  SeenCurrent'
      BY <2>2 DEF LoadRecord, ResetRecord, Apply
    <2>3. CASE Loaded(c)
      BY <2>3 DEF Loaded
    <2>4. CASE RequestLands(c)
      BY <2>4 DEF RequestLands, OneRequest
    <2>5. CASE Finish(c)
      BY <2>5 DEF Finish, Idle
    <2> QED BY <1>2, <2>1, <2>2, <2>3, <2>4, <2>5 DEF ControlStep
  <1> QED BY <1>1, <1>2, StepCases

\* Where no two cancels overlap, a cancel on file stays on file, and an item cancelled
\* before its publication began is never published, however often the worker starts
\* again and whatever is retried.  (Two cancels at once may lose one: cancel-store.ts
\* reads, adds and writes without a lock.)
THEOREM ControlCancelFinal == Spec /\ []OneRequest => CancelFinal
  <1>1. ControlInit => SeenCurrent
    BY DEF ControlInit, SeenCurrent, Idle
  <1>2. CInv /\ SeenCurrent /\ [Next]_allVars =>
          [\A i \in Items : OnFile(i) /\ ~Publishing(i) /\ i \notin agentRoot =>
             OnFile(i)' /\ ~Publishing(i)' /\ i \notin agentRoot']_allVars
    <2> SUFFICES ASSUME CInv, SeenCurrent, [Next]_allVars,
                        NEW i \in Items, OnFile(i), ~Publishing(i), i \notin agentRoot
                 PROVE  OnFile(i)' /\ ~Publishing(i)' /\ i \notin agentRoot'
      OBVIOUS
    <2>1. CASE [WorkerNext]_workerVars
      BY <2>1, WorkerObeysCancel, CancelFileKept DEF CInv, IInv, OnFile
    <2>2. ASSUME NEW c \in Controllers, ControlStep(c)
          PROVE  OnFile(i)' /\ UNCHANGED <<task, agentRoot>>
      <3>1. UNCHANGED <<task, agentRoot>>
        BY <2>2, ControlFrame DEF tasks
      <3>2. CASE RequestLands(c)
        <4>1. cancelFile' = Requested(ctl[c].cmd, cancelFile)
          BY <3>2 DEF RequestLands, SeenCurrent
        <4>2. cancelFile \in [run : BOOLEAN, items : SUBSET Items]
          BY DEF CInv, IInv, TypeOK
        <4> QED BY <3>1, <4>1, <4>2 DEF Requested, OnFile
      <3>3. CASE ~RequestLands(c)
        <4>1. cancelFile' = cancelFile
          BY <2>2, <3>3 DEF ControlStep, Begin, LoadRecord, ResetRecord, Loaded, Apply, Finish
        <4> QED BY <3>1, <4>1 DEF OnFile
      <3> QED BY <3>1, <3>2, <3>3
    <2> QED BY <2>1, <2>2, StepCases DEF Publishing
  <1> QED BY <1>1, <1>2, SeenCurrentStep, ControlInvariant, PTL DEF Spec, CancelFinal
=============================================================================
