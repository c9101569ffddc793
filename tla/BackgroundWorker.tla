-------------------------- MODULE BackgroundWorker --------------------------
(***************************************************************************)
(* The background preparation worker of packages/core/src/background: one  *)
(* process that drains the pending queue of a prepared run (run, execute,  *)
(* runWithDeadline of worker.ts) over its own in-memory copy of the queue  *)
(* (state-store.ts), publishes verified companions (publisher.ts), honours *)
(* durable cancellations (cancel-store.ts) and keeps the public status     *)
(* file current (refreshStatus of wiring.ts).                              *)
(*                                                                         *)
(* A step is what the JavaScript runs without giving up its turn.  A file   *)
(* write carries what memory held when it was started and lands with the   *)
(* step that resumes after it, which may be much later: meanwhile memory   *)
(* and the files of other writers move on.  The process may exit at any    *)
(* time: memory and the writes in flight are lost, files stay.             *)
(***************************************************************************)
EXTENDS Integers, FiniteSets

CONSTANTS
  Items,        \* the work items the run can ever hold
  KindOf,       \* item -> its kind
  OcrOf,        \* document-extraction item -> the OCR item it can hand off to
  Rank,         \* item -> place in the order of pending(): priority, then age
  Queued,       \* the items preparing the run may have enqueued
  Wired,        \* the kinds that have a processor
  Concurrency,  \* kind -> configured concurrency
  MaxCalls,     \* the call budget of a run
  MaxExits,     \* bound: how often the worker's process exits
  MaxFaults     \* bound: how many record writes fail

Kinds == {"document-extraction", "ocr", "summarize-local"}
Statuses == {"pending", "processing", "completed", "failed", "timed-out",
             "cancelled", "kept-local"}
LiveButUndone == {"pending", "processing"}     \* (faulty LiveStatuses)
LiveStatuses == {"pending", "processing", "completed"}
Slot == Statuses \cup {"absent"}      \* "absent": no record under that id

Summarizes(i) == KindOf[i] = "summarize-local"
DocItems == {i \in Items : KindOf[i] = "document-extraction"}

ASSUME WorkerAssumption ==
  /\ IsFiniteSet(Items)
  /\ KindOf \in [Items -> Kinds]
  /\ OcrOf \in [DocItems -> {i \in Items : KindOf[i] = "ocr"}]
  /\ Rank \in [Items -> Nat]
  /\ \A i, j \in Items : Rank[i] = Rank[j] => i = j
  /\ Queued \subseteq Items
  /\ Wired \subseteq Kinds
  /\ Concurrency \in [Kinds -> Nat]
  \* As in DEFAULT_WORKER_CONFIG.  With one OCR call at a time an OCR item that is
  \* handed off again is not launched while its former task still ends, so that a
  \* task can be named by its item.
  /\ Concurrency["ocr"] <= 1
  /\ Concurrency["summarize-local"] <= 1
  /\ MaxCalls \in Nat
  /\ MaxExits \in Nat
  /\ MaxFaults \in Nat

VARIABLES
  (* files, shared with every other process *)
  disk,        \* items/<itemId>.json: the status on record
  cancelFile,  \* cancellations.json
  statusFile,  \* .yuhi/background-status.json: what it shows
  agentRoot,   \* items whose companion is in the agent-visible workspace
  staging,     \* items with a temporary artifact in the private staging dir
  (* the worker's process *)
  mem,         \* the in-memory records of its queue
  phase,       \* where run() is
  batch,       \* what is left of the pass's snapshot of pending()
  cur,         \* the record write run() awaits (at most one)
  loopView,    \* the public status run() is writing
  progressed,  \* the pass changed something
  calls,       \* callsMade
  active,      \* tasks per kind
  circuit,     \* summarizeCircuitOpen
  aborted,     \* the parent signal
  budgetSpent, \* the wall-time budget is over
  task,        \* item -> where its execute() is
  saving,      \* item -> the outcome its task is writing to disk
  view,        \* item -> the public status its task is writing
  trip,        \* tasks whose execute() will report openedCircuit
  proc,        \* document item -> its extraction, which may outlive the task
  (* bounds *)
  exits, faults

files == <<disk, cancelFile, statusFile, agentRoot, staging>>
loop == <<phase, batch, cur, loopView, progressed, calls>>
tasks == <<task, saving, view, trip>>
shared == <<active, circuit, aborted, budgetSpent>>
bounds == <<exits, faults>>
workerVars == <<files, mem, loop, tasks, proc, shared, bounds>>

Phases == {"down", "top", "scan", "reserving", "marking", "marked", "wait",
           "drain", "settle", "closing", "done", "rejected"}
TaskPlaces == {"off", "running", "staging", "publishing", "finalizing",
               "refreshing", "settled"}

\* buildPublicStatus, as far as it matters here: the companions it lists, which
\* are the revision, and whether it reports work in progress.
Status == [completed : SUBSET Items, running : BOOLEAN]
Shown(records) ==
  [completed |-> {i \in Items : records[i] = "completed"},
   running |-> \E i \in Items : records[i] \in {"pending", "processing"}]

NoRecords == [i \in Items |-> "absent"]
NoView == [completed |-> {}, running |-> FALSE]

TypeOK ==
  /\ disk \in [Items -> Slot]
  /\ cancelFile \in [run : BOOLEAN, items : SUBSET Items]
  /\ statusFile \in Status
  /\ agentRoot \subseteq Items
  /\ staging \subseteq Items
  /\ mem \in [Items -> Slot]
  /\ phase \in Phases
  /\ batch \subseteq Items
  /\ cur \subseteq [item : Items, status : Statuses]
  /\ loopView \in Status
  /\ progressed \in BOOLEAN
  /\ calls \in Nat
  /\ active \in [Kinds -> Nat]
  /\ circuit \in BOOLEAN
  /\ aborted \in BOOLEAN
  /\ budgetSpent \in BOOLEAN
  /\ task \in [Items -> TaskPlaces]
  /\ saving \in [Items -> Slot]
  /\ view \in [Items -> Status]
  /\ trip \subseteq {i \in Items : Summarizes(i)}
  /\ proc \in [DocItems -> {"off", "running", "enqueuing"}]
  /\ exits \in Nat
  /\ faults \in Nat

Init ==
  /\ \E queued \in SUBSET Queued :
       disk = [i \in Items |-> IF i \in queued THEN "pending" ELSE "absent"]
  /\ cancelFile \in [run : BOOLEAN, items : SUBSET Items]
  /\ statusFile = NoView
  /\ agentRoot = {}
  /\ staging = {}
  /\ mem = NoRecords
  /\ phase = "down"
  /\ batch = {}
  /\ cur = {}
  /\ loopView = NoView
  /\ progressed = FALSE
  /\ calls = 0
  /\ active = [k \in Kinds |-> 0]
  /\ circuit = FALSE
  /\ aborted = FALSE
  /\ budgetSpent = FALSE
  /\ task = [i \in Items |-> "off"]
  /\ saving = NoRecords
  /\ view = [i \in Items |-> NoView]
  /\ trip = {}
  /\ proc = [d \in DocItems |-> "off"]
  /\ exits \in 0 .. MaxExits
  /\ faults \in 0 .. MaxFaults

-----------------------------------------------------------------------------
(* Helpers.  A definition marked "faulty X" is X with a bug the code could  *)
(* have; no specification uses it: it shows that a property can fail.       *)

\* CancelStore.isCancelled
RunCancelled(i) == cancelFile.run     \* (faulty Cancelled)
Cancelled(i) == cancelFile.run \/ i \in cancelFile.items

\* BackgroundStateStore.pending
Pending == {i \in Items : mem[i] = "pending"}

InFlight == {i \in Items : task[i] # "off"}

UnclampedLimit(k) == Concurrency[k]     \* (faulty Limit)
Limit(k) == IF Concurrency[k] > 1 THEN Concurrency[k] ELSE 1

BudgetOffByOne == budgetSpent \/ calls > MaxCalls     \* (faulty BudgetExceeded)
BudgetExceeded == budgetSpent \/ calls >= MaxCalls

\* Promise.allSettled over the tasks in flight.
NoneAwaited == TRUE     \* (faulty AllSettled)
AllSettled == InFlight = {}

\* The per-item deadline is armed while the processor is awaited.
DeadlineForSummaries(i) == task[i] = "running" /\ Summarizes(i)     \* (faulty Awaited)
Awaited(i) == task[i] = "running"

\* execute reports openedCircuit for a failing summarize item.
AnyKindTrips(i) == trip \cup {i}     \* (faulty Trips)
Trips(i) == IF Summarizes(i) THEN trip \cup {i} ELSE trip

\* The loop is between two awaits, or about to resume from its last one: no other
\* code of the process runs.  At "top" it may still be waking up, with other tasks
\* ending in the same turn.
LoopHasTurn ==
  \/ phase = "scan"
  \/ phase = "drain" /\ cur = {}
  \/ phase = "settle" /\ AllSettled

\* BackgroundStateStore.update by the loop: memory at once, the file later.
LoopUpdate(i, s) ==
  /\ mem' = [mem EXCEPT ![i] = s]
  /\ cur' = {[item |-> i, status |-> s]}

\* The record write the loop awaited has landed.
OnlyInMemory == cur # {} /\ cur' = {} /\ UNCHANGED disk     \* (faulty LoopRecorded)
LoopRecorded ==
  /\ cur # {}
  /\ disk' = [i \in Items |-> IF \E w \in cur : w.item = i
                              THEN (CHOOSE w \in cur : w.item = i).status ELSE disk[i]]
  /\ cur' = {}

\* finalize: only an item that is still processing is written.
Finalize(i, s) ==
  IF mem[i] = "processing"
  THEN /\ mem' = [mem EXCEPT ![i] = s]
       /\ saving' = [saving EXCEPT ![i] = s]
       /\ task' = [task EXCEPT ![i] = "finalizing"]
  ELSE /\ task' = [task EXCEPT ![i] = "settled"]
       /\ UNCHANGED <<mem, saving>>

\* What recovery makes of a record left on disk.
Recovered(s) == IF s = "processing" THEN "pending" ELSE s

-----------------------------------------------------------------------------
(* The run: open, drain, close.                                            *)

\* runBackgroundForRun opens the queue: records are read, those left
\* processing are reset to pending, in memory and on disk.
StartRun ==
  /\ phase = "down"
  /\ mem' = [i \in Items |-> Recovered(disk[i])]
  /\ disk' = [i \in Items |-> Recovered(disk[i])]
  /\ phase' = "top"
  /\ UNCHANGED <<cancelFile, statusFile, agentRoot, staging, batch, cur, loopView,
                 progressed, calls, tasks, proc, shared, bounds>>

\* The top of the loop: a snapshot of what is pending.
TakeSnapshot ==
  /\ phase = "top"
  /\ ~aborted
  /\ Pending # {} \/ InFlight # {}
  /\ phase' = "scan"
  /\ batch' = Pending
  /\ progressed' = FALSE
  /\ UNCHANGED <<files, mem, cur, loopView, calls, tasks, proc, shared, bounds>>

\* Nothing pending and nothing running.
NothingLeft ==
  /\ phase = "top"
  /\ ~aborted
  /\ Pending = {} /\ InFlight = {}
  /\ phase' = "settle"
  /\ UNCHANGED <<files, mem, batch, cur, loopView, progressed, calls, tasks, proc,
                 shared, bounds>>

\* The signal is seen only here; what is pending now will be cancelled.
SeeAbort ==
  /\ phase = "top"
  /\ aborted
  /\ phase' = "drain"
  /\ batch' = Pending
  /\ UNCHANGED <<files, mem, cur, loopView, progressed, calls, tasks, proc, shared,
                 bounds>>

\* The concurrency gate: nothing else disposes of the item and its kind is full.
Gated(i) ==
  /\ ~Cancelled(i)
  /\ ~BudgetExceeded
  /\ ~(Summarizes(i) /\ circuit)
  /\ active[KindOf[i]] >= Limit(KindOf[i])

\* The pass reaches i: everything before it in the snapshot was skipped by the gate.
Reaches(i) ==
  /\ phase = "scan"
  /\ i \in batch
  /\ \A j \in batch : Rank[j] < Rank[i] => Gated(j)
  /\ batch' = {j \in batch : Rank[j] > Rank[i]}

\* A pending item with a durable cancel, no call.
CancelPending(i) ==
  /\ Reaches(i)
  /\ Cancelled(i)
  /\ LoopUpdate(i, "cancelled")
  /\ phase' = "marking"
  /\ progressed' = TRUE
  /\ UNCHANGED <<files, loopView, calls, tasks, proc, shared, bounds>>

\* shed: a budget is spent, or the circuit is open for a summarize item.
Shed(i) ==
  /\ Reaches(i)
  /\ ~Cancelled(i)
  /\ BudgetExceeded \/ (Summarizes(i) /\ circuit)
  /\ LoopUpdate(i, "kept-local")
  /\ phase' = "marking"
  /\ progressed' = TRUE
  /\ UNCHANGED <<files, loopView, calls, tasks, proc, shared, bounds>>

\* "processing" is put on record before the call is made.
Reserve(i) ==
  /\ Reaches(i)
  /\ ~Cancelled(i)
  /\ ~BudgetExceeded
  /\ ~(Summarizes(i) /\ circuit)
  /\ active[KindOf[i]] < Limit(KindOf[i])
  /\ LoopUpdate(i, "processing")
  /\ phase' = "reserving"
  /\ UNCHANGED <<files, loopView, progressed, calls, tasks, proc, shared, bounds>>

\* The reservation is on record: execute up to its first await.  Without a
\* processor, or under an aborted signal, no provider is called.
Launch(i) ==
  /\ phase = "reserving"
  /\ \E w \in cur : w.item = i
  /\ LoopRecorded
  /\ active' = [active EXCEPT ![KindOf[i]] = @ + 1]
  /\ calls' = calls + 1
  /\ progressed' = TRUE
  /\ phase' = "scan"
  /\ \/ /\ KindOf[i] \notin Wired
        /\ Finalize(i, "kept-local")
        /\ trip' = Trips(i)
        /\ UNCHANGED proc
     \/ /\ KindOf[i] \in Wired
        /\ aborted
        /\ Finalize(i, "cancelled")
        /\ UNCHANGED <<proc, trip>>
     \/ /\ KindOf[i] \in Wired
        /\ ~aborted
        /\ task' = [task EXCEPT ![i] = "running"]
        /\ proc' = IF i \in DocItems THEN [proc EXCEPT ![i] = "running"] ELSE proc
        /\ UNCHANGED <<mem, saving, trip>>
  /\ UNCHANGED <<cancelFile, statusFile, agentRoot, staging, batch, loopView, view,
                 circuit, aborted, budgetSpent, bounds>>

\* The cancel or the shed is on record: rewrite the public status ...
MarkRecorded ==
  /\ phase = "marking"
  /\ LoopRecorded
  /\ loopView' = Shown(mem)
  /\ phase' = "marked"
  /\ UNCHANGED <<cancelFile, statusFile, agentRoot, staging, mem, batch, progressed,
                 calls, tasks, proc, shared, bounds>>

\* ... and go on with the pass.
MarkShown ==
  /\ phase = "marked"
  /\ statusFile' = loopView
  /\ loopView' = NoView
  /\ phase' = "scan"
  /\ UNCHANGED <<disk, cancelFile, agentRoot, staging, mem, batch, cur, progressed,
                 calls, tasks, proc, shared, bounds>>

\* The rest of the snapshot is gated: wait for a task, look again, or give up.
EndPass ==
  /\ phase = "scan"
  /\ \A j \in batch : Gated(j)
  /\ phase' = IF InFlight # {} THEN "wait"
              ELSE IF progressed THEN "top"
              ELSE IF aborted THEN "drain" ELSE "settle"
  /\ batch' = {}
  /\ UNCHANGED <<files, mem, cur, loopView, progressed, calls, tasks, proc, shared,
                 bounds>>

\* After an abort the pending items of the snapshot are cancelled one by one.
DrainOne(i) ==
  /\ phase = "drain"
  /\ cur = {}
  /\ i \in batch
  /\ \A j \in batch : Rank[i] <= Rank[j]
  /\ batch' = batch \ {i}
  /\ LoopUpdate(i, "cancelled")
  /\ UNCHANGED <<files, phase, loopView, progressed, calls, tasks, proc, shared,
                 bounds>>

DrainRecorded ==
  /\ phase = "drain"
  /\ LoopRecorded
  /\ UNCHANGED <<cancelFile, statusFile, agentRoot, staging, mem, phase, batch, loopView,
                 progressed, calls, tasks, proc, shared, bounds>>

Drained ==
  /\ phase = "drain"
  /\ cur = {}
  /\ batch = {}
  /\ phase' = "settle"
  /\ UNCHANGED <<files, mem, batch, cur, loopView, progressed, calls, tasks, proc,
                 shared, bounds>>

\* run() resolves; runBackgroundForRun writes the public status once more ...
Resolve ==
  /\ phase = "settle"
  /\ AllSettled
  /\ loopView' = Shown(mem)
  /\ phase' = "closing"
  /\ UNCHANGED <<files, mem, batch, cur, progressed, calls, tasks, proc, shared, bounds>>

\* ... and removes the private staging directory.
Close ==
  /\ phase = "closing"
  /\ statusFile' = loopView
  /\ loopView' = NoView
  /\ staging' = {}
  /\ phase' = "done"
  /\ UNCHANGED <<disk, cancelFile, agentRoot, mem, batch, cur, progressed, calls, tasks,
                 proc, shared, bounds>>

-----------------------------------------------------------------------------
(* One task: the processor under its deadline, then publication.           *)

TaskFrame == UNCHANGED <<cancelFile, statusFile, loop, shared, bounds>>
OutcomeFrame == TaskFrame /\ UNCHANGED <<disk, agentRoot, staging, view>>

\* An extraction that is handing off to OCR answers only when the hand-off is over.
Answers(i) ==
  /\ ~LoopHasTurn
  /\ task[i] = "running"
  /\ i \in DocItems => proc[i] = "running"
  /\ proc' = IF i \in DocItems THEN [proc EXCEPT ![i] = "off"] ELSE proc

\* The processor returned text: a durable cancel discards it, a failed safety
\* check keeps it local, an unusable path fails; else publication starts.
ReturnText(i) ==
  /\ Answers(i)
  /\ \/ /\ Cancelled(i)
        /\ Finalize(i, "cancelled")
     \/ /\ ~Cancelled(i)
        /\ \E s \in {"kept-local", "failed"} : Finalize(i, s)
     \/ /\ ~Cancelled(i)
        /\ task' = [task EXCEPT ![i] = "staging"]
        /\ UNCHANGED <<mem, saving>>
  /\ UNCHANGED trip
  /\ OutcomeFrame

\* The processor threw: keep-local, aborted by itself, or plainly failed.
ThrowError(i) ==
  /\ Answers(i)
  /\ \E s \in {"kept-local", "cancelled", "failed"} : Finalize(i, s)
  /\ UNCHANGED trip
  /\ OutcomeFrame

\* The provider is unavailable: kept local; a summarize item opens the circuit.
ThrowUnavailable(i) ==
  /\ KindOf[i] # "document-extraction"
  /\ Answers(i)
  /\ Finalize(i, "kept-local")
  /\ trip' = Trips(i)
  /\ OutcomeFrame

\* The hard timeout fires first; the extraction itself goes on.
Timeout(i) ==
  /\ ~LoopHasTurn
  /\ Awaited(i)
  /\ Finalize(i, "timed-out")
  /\ trip' = Trips(i)
  /\ UNCHANGED proc
  /\ OutcomeFrame

\* KeepLocalError after a hand-off is heard only if the deadline still stands.
KeepLocalIfHeard(d, s) ==
  IF task[d] = "running" THEN Finalize(d, s) ELSE UNCHANGED <<mem, saving, task>>

\* Too little text in a PDF: enqueue the dependent OCR item.  Nothing here looks
\* at the abort signal, or whether anyone still waits for the extraction.
HandOff(d) ==
  /\ ~LoopHasTurn
  /\ proc[d] = "running"
  /\ mem[OcrOf[d]] \notin LiveStatuses
  /\ mem' = [mem EXCEPT ![OcrOf[d]] = "pending"]
  /\ proc' = [proc EXCEPT ![d] = "enqueuing"]
  /\ UNCHANGED <<task, saving, trip>>
  /\ OutcomeFrame

\* The enqueued record is on disk, as it was first or as the worker has changed it
\* since: persist serialises the live record only after its mkdir, and nothing orders
\* this write with the later ones of the same record.  (A stale "processing" reads
\* like a stale "pending": every load resets it.)
HandedOff(d) ==
  /\ ~LoopHasTurn
  /\ proc[d] = "enqueuing"
  /\ \E s \in {"pending", mem[OcrOf[d]]} : disk' = [disk EXCEPT ![OcrOf[d]] = s]
  /\ proc' = [proc EXCEPT ![d] = "off"]
  /\ KeepLocalIfHeard(d, "kept-local")
  /\ UNCHANGED <<agentRoot, staging, view, trip>>
  /\ TaskFrame

\* The OCR item is live already: enqueue dedupes to it and writes nothing.
HandOffDedupes(d) ==
  /\ ~LoopHasTurn
  /\ proc[d] = "running"
  /\ mem[OcrOf[d]] \in LiveStatuses
  /\ proc' = [proc EXCEPT ![d] = "off"]
  /\ KeepLocalIfHeard(d, "kept-local")
  /\ UNCHANGED trip
  /\ OutcomeFrame

\* An extraction whose task is over returns or throws: nobody listens.
LateAnswer(d) ==
  /\ ~LoopHasTurn
  /\ proc[d] = "running"
  /\ task[d] # "running"
  /\ proc' = [proc EXCEPT ![d] = "off"]
  /\ UNCHANGED <<mem, saving, task, trip>>
  /\ OutcomeFrame

\* publish, stage 6: the verified text goes to the private staging directory.
StageArtifact(i) ==
  /\ ~LoopHasTurn
  /\ task[i] = "staging"
  /\ \/ /\ staging' = staging \cup {i}
        /\ task' = [task EXCEPT ![i] = "publishing"]
        /\ UNCHANGED <<mem, saving>>
     \/ /\ Finalize(i, "failed")
        /\ UNCHANGED staging
  /\ UNCHANGED <<disk, agentRoot, view, trip, proc>>
  /\ TaskFrame

\* (faulty PublishArtifact: a failed rename is recorded as completed)
PublishUnrenamed(i) ==
  /\ ~LoopHasTurn
  /\ task[i] = "publishing"
  /\ staging' = staging \ {i}
  /\ Finalize(i, "completed")
  /\ UNCHANGED <<disk, agentRoot, view, trip, proc>>
  /\ TaskFrame

\* publish, stage 7: the rename, which fails if the temporary is gone.
PublishArtifact(i) ==
  /\ ~LoopHasTurn
  /\ task[i] = "publishing"
  /\ staging' = staging \ {i}
  /\ \/ /\ i \in staging
        /\ agentRoot' = agentRoot \cup {i}
        /\ Finalize(i, "completed")
     \/ /\ Finalize(i, "failed")
        /\ UNCHANGED agentRoot
  /\ UNCHANGED <<disk, view, trip, proc>>
  /\ TaskFrame

\* The outcome is on record: rewrite the public status ...
TaskRecorded(i) ==
  /\ ~LoopHasTurn
  /\ task[i] = "finalizing"
  /\ disk' = [disk EXCEPT ![i] = saving[i]]
  /\ saving' = [saving EXCEPT ![i] = "absent"]
  /\ view' = [view EXCEPT ![i] = Shown(mem)]
  /\ task' = [task EXCEPT ![i] = "refreshing"]
  /\ UNCHANGED <<agentRoot, staging, mem, trip, proc>>
  /\ TaskFrame

\* ... which lands whenever it does, over whatever is there.
TaskShown(i) ==
  /\ ~LoopHasTurn
  /\ task[i] = "refreshing"
  /\ statusFile' = view[i]
  /\ view' = [view EXCEPT ![i] = NoView]
  /\ task' = [task EXCEPT ![i] = "settled"]
  /\ UNCHANGED <<disk, cancelFile, agentRoot, staging, mem, loop, saving, trip, proc,
                 shared, bounds>>

\* The task is over: its slot is free, the circuit may open, the loop wakes.
TaskEnds(i) ==
  /\ ~LoopHasTurn
  /\ task[i] = "settled"
  /\ task' = [task EXCEPT ![i] = "off"]
  /\ active' = [active EXCEPT ![KindOf[i]] = @ - 1]
  /\ circuit' = (circuit \/ i \in trip)
  /\ trip' = trip \ {i}
  /\ phase' = IF phase = "wait" THEN "top" ELSE phase
  /\ UNCHANGED <<files, mem, batch, cur, loopView, progressed, calls, saving, view,
                 proc, aborted, budgetSpent, bounds>>

-----------------------------------------------------------------------------
(* Failing writes, time, the signal, the process.                          *)

\* A record write of the loop fails: run() rejects, staging is removed, the
\* tasks in flight go on.
LoopWriteFails ==
  /\ faults < MaxFaults
  /\ cur # {}
  /\ faults' = faults + 1
  /\ phase' = "rejected"
  /\ staging' = {}
  /\ batch' = {}
  /\ cur' = {}
  /\ UNCHANGED <<disk, cancelFile, statusFile, agentRoot, mem, loopView, progressed,
                 calls, tasks, proc, shared, exits>>

\* A record write of a task fails: memory already holds the outcome, so the
\* backstop finds nothing to do; the status is not rewritten and the circuit
\* stays as it is.
TaskWriteFails(i) ==
  /\ ~LoopHasTurn
  /\ faults < MaxFaults
  /\ task[i] = "finalizing"
  /\ faults' = faults + 1
  /\ saving' = [saving EXCEPT ![i] = "absent"]
  /\ task' = [task EXCEPT ![i] = "settled"]
  /\ trip' = trip \ {i}
  /\ UNCHANGED <<files, mem, loop, view, proc, shared, exits>>

\* The write of the enqueued record fails: the extraction throws that error.
EnqueueWriteFails(d) ==
  /\ ~LoopHasTurn
  /\ faults < MaxFaults
  /\ proc[d] = "enqueuing"
  /\ faults' = faults + 1
  /\ proc' = [proc EXCEPT ![d] = "off"]
  /\ KeepLocalIfHeard(d, "failed")
  /\ UNCHANGED <<files, loop, view, trip, shared, exits>>

\* totalBudgetMs have passed since run() started.
BudgetRunsOut ==
  /\ phase \notin {"down", "done", "rejected"}
  /\ ~budgetSpent
  /\ budgetSpent' = TRUE
  /\ UNCHANGED <<files, mem, loop, tasks, proc, active, circuit, aborted, bounds>>

\* The caller aborts: every running task resolves as aborted in the same turn.
Abort ==
  /\ ~LoopHasTurn
  /\ phase \notin {"down", "done", "rejected"}
  /\ ~aborted
  /\ aborted' = TRUE
  /\ LET hit == {i \in Items : task[i] = "running"} IN
       /\ mem' = [i \in Items |-> IF i \in hit THEN "cancelled" ELSE mem[i]]
       /\ saving' = [i \in Items |-> IF i \in hit THEN "cancelled" ELSE saving[i]]
       /\ task' = [i \in Items |-> IF i \in hit THEN "finalizing" ELSE task[i]]
  /\ UNCHANGED <<files, loop, view, trip, proc, active, circuit, budgetSpent, bounds>>

\* The process ends, by a crash or because its host closes.
ProcessExits ==
  /\ phase # "down"
  /\ exits < MaxExits
  /\ exits' = exits + 1
  /\ mem' = NoRecords
  /\ phase' = "down"
  /\ batch' = {}
  /\ cur' = {}
  /\ loopView' = NoView
  /\ progressed' = FALSE
  /\ calls' = 0
  /\ active' = [k \in Kinds |-> 0]
  /\ circuit' = FALSE
  /\ aborted' = FALSE
  /\ budgetSpent' = FALSE
  /\ task' = [i \in Items |-> "off"]
  /\ saving' = NoRecords
  /\ view' = [i \in Items |-> NoView]
  /\ trip' = {}
  /\ proc' = [d \in DocItems |-> "off"]
  /\ UNCHANGED <<files, faults>>

-----------------------------------------------------------------------------
LoopStep ==
  \/ TakeSnapshot \/ NothingLeft \/ SeeAbort
  \/ \E i \in Items : CancelPending(i) \/ Shed(i) \/ Reserve(i) \/ Launch(i)
  \/ MarkRecorded \/ MarkShown \/ EndPass
  \/ \E i \in Items : DrainOne(i)
  \/ DrainRecorded \/ Drained \/ Resolve \/ Close

TaskStep(i) ==
  \/ StageArtifact(i) \/ PublishArtifact(i)
  \/ TaskRecorded(i) \/ TaskShown(i) \/ TaskEnds(i)

ProcessorStep(i) == ReturnText(i) \/ ThrowError(i) \/ ThrowUnavailable(i)

ExtractionStep(d) == HandOff(d) \/ HandedOff(d) \/ HandOffDedupes(d) \/ LateAnswer(d)

FaultStep ==
  \/ LoopWriteFails
  \/ \E i \in Items : TaskWriteFails(i)
  \/ \E d \in DocItems : EnqueueWriteFails(d)

WorkerNext ==
  \/ StartRun
  \/ LoopStep
  \/ \E i \in Items : TaskStep(i) \/ ProcessorStep(i) \/ Timeout(i)
  \/ \E d \in DocItems : ExtractionStep(d)
  \/ FaultStep
  \/ BudgetRunsOut
  \/ Abort
  \/ ProcessExits

\* Once started, the loop is scheduled, file operations end and timers fire; nothing
\* makes a processor answer, a user abort, a budget run out or a run start.
WorkerFairness ==
  /\ WF_workerVars(LoopStep)
  /\ \A i \in Items : WF_workerVars(TaskStep(i)) /\ WF_workerVars(Timeout(i))

WorkerSpec == Init /\ [][WorkerNext]_workerVars
FairWorkerSpec == WorkerSpec /\ WorkerFairness

-----------------------------------------------------------------------------
(* Properties.                                                             *)

\* The worker keeps what CallBudget promises: calls are charged when they start,
\* although the budget, the limit and the circuit were looked at before the
\* reservation was written, with tasks ending meanwhile (worker.ts:263-292).
Budget == INSTANCE CallBudget WITH
  CallKinds <- Kinds, Allowed <- [k \in Kinds |-> Limit(k)], MostCalls <- MaxCalls,
  Guarded <- {"summarize-local"}, made <- calls, busy <- active, open <- circuit
KeepsCallBudget == Budget!BudgetSpec

\* The give-up branch of worker.ts:308-312 is never needed: whenever the rest of a
\* pass is gated, a task is in flight or the pass has done something.  The queue
\* never ends a run with work left because of its own accounting.
NeverGivesUp ==
  phase = "scan" /\ (\A j \in batch : Gated(j)) => InFlight # {} \/ progressed

\* The items whose record a hand-off writes as well, unordered with the other writes.
HandedOver == {OcrOf[d] : d \in DocItems}

\* "processing" is on disk for as long as memory says so of a launched item, so
\* that recovery finds it after a crash (worker.ts:285-290, state-store.ts:17-18); a
\* hand-off that lands late may leave "pending", which is as good.
ReservedOnDisk ==
  \A i \in Items : task[i] # "off" /\ mem[i] = "processing" =>
    disk[i] = "processing" \/ (i \in HandedOver /\ disk[i] = "pending")

\* When the run is over, nothing is left half done: no task is in flight, the outcome
\* of every item queued from the start is on disk unless a write failed, the public
\* status lists exactly what was completed, whatever the order in which earlier
\* versions of it landed, and no temporary artifact remains (worker.ts:317-333,
\* wiring.ts:633-653).
RunSettled ==
  phase = "done" =>
    /\ InFlight = {}
    /\ faults = 0 => \A i \in Items \ HandedOver : disk[i] = mem[i]
    /\ statusFile.completed = Shown(mem).completed
    /\ staging = {}

\* Wherever an item counts as completed, its companion is in the workspace: the
\* record follows the rename, never the other way round (worker.ts:405-418).
CompletedMeansPublished ==
  \A i \in Items :
    disk[i] = "completed" \/ mem[i] = "completed" \/ i \in statusFile.completed
      => i \in agentRoot

\* "A completed item is never re-run" (state-store.ts:19-20): the process that knows
\* an item completed never takes that back, not for an OCR hand-off that arrives
\* again, and no crash or failed write undoes the record of an item nothing hands off.
CompletedStays ==
  [][\A i \in Items :
       /\ mem[i] = "completed" => mem'[i] = "completed" \/ phase' = "down"
       /\ disk[i] = "completed" /\ i \notin HandedOver => disk'[i] = "completed"]_<<mem, disk>>

\* "The queue terminates in bounded time" (worker.ts:18-19): a run that was started
\* ends, even if no processor ever answers.
RunTerminates == phase = "top" ~> phase \in {"done", "rejected", "down"}
=============================================================================
