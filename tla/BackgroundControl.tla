------------------------- MODULE BackgroundControl --------------------------
(***************************************************************************)
(* The control plane of the background queue beside the worker: the cancel *)
(* and retry commands of the CLI and of VS Code (requestBackgroundCancel,  *)
(* retryBackgroundItem, retryBackgroundTerminal of wiring.ts).  Each       *)
(* command opens its OWN copy of the queue from disk, changes that copy    *)
(* and the files, and writes the public status from it; it shares nothing  *)
(* with the worker but the files.                                          *)
(***************************************************************************)
EXTENDS BackgroundWorker

CONSTANTS
  Controllers,  \* processes that can run a command
  MaxCommands   \* bound: how many commands are ever given

ASSUME ControlAssumption == MaxCommands \in Nat

VARIABLES
  ctl,       \* controller -> the command it runs and where it is
  commands,  \* how many commands were given
  wish       \* observer: the user's last completed request for an item

controlVars == <<ctl, commands, wish>>
allVars == <<workerVars, controlVars>>

NoCommand == [op |-> "none", targets |-> {}, failedOnly |-> FALSE]
Commands ==
  {[op |-> "cancel-item", targets |-> {i}, failedOnly |-> FALSE] : i \in Items}
  \cup {[op |-> "cancel-run", targets |-> Items, failedOnly |-> FALSE]}
  \cup {[op |-> "retry-item", targets |-> {i}, failedOnly |-> FALSE] : i \in Items}
  \cup {[op |-> "retry-terminal", targets |-> Items, failedOnly |-> b] : b \in BOOLEAN}

\* at: where the command is; own: its copy of the records; left: the records
\* still to read, or the items still to update; reset: a record it is writing back
\* as pending; seen: cancellations.json as read
Idle == [at |-> "idle", cmd |-> NoCommand, own |-> NoRecords, left |-> {},
         reset |-> {}, seen |-> [run |-> FALSE, items |-> {}]]

ControlInit ==
  /\ Init
  /\ cancelFile = [run |-> FALSE, items |-> {}]
  /\ ctl = [c \in Controllers |-> Idle]
  /\ commands \in 0 .. MaxCommands
  /\ wish = [i \in Items |-> "prepare"]

IsCancel(cmd) == cmd.op \in {"cancel-item", "cancel-run"}

\* What retry and retryTerminal requeue; cancel touches what is still live.
Retryable(cmd) ==
  IF cmd.op = "retry-item" THEN Statuses \ {"completed"}
  ELSE IF cmd.failedOnly THEN {"failed", "timed-out"}
  ELSE {"failed", "timed-out", "cancelled", "kept-local"}
Cancellable == {"pending", "processing"}
Affected(cmd, own) ==
  {i \in cmd.targets : own[i] \in (IF IsCancel(cmd) THEN Cancellable ELSE Retryable(cmd))}
Outcome(cmd) == IF IsCancel(cmd) THEN "cancelled" ELSE "pending"

\* What CancelStore.requestItem and requestRun write over what they have read.
Requested(cmd, seen) ==
  IF cmd.op = "cancel-run" THEN [seen EXCEPT !.run = TRUE]
  ELSE [seen EXCEPT !.items = @ \cup cmd.targets]

\* A command is sequential and its copy is its own, so each of its writes is the
\* moment it lands; what matters is what it had read before.
WorkerFrame == UNCHANGED <<agentRoot, staging, mem, loop, tasks, proc, shared, bounds>>

\* A command is given: the directory of records is listed.
Begin(c, cmd) ==
  /\ ctl[c].at = "idle"
  /\ commands < MaxCommands
  /\ commands' = commands + 1
  /\ ctl' = [ctl EXCEPT ![c] =
       [Idle EXCEPT !.at = "load", !.cmd = cmd, !.left = {i \in Items : disk[i] # "absent"}]]
  /\ UNCHANGED <<wish, disk, cancelFile, statusFile>>
  /\ WorkerFrame

\* BackgroundStateStore.load reads the next record; one left processing becomes
\* pending, whoever is processing it ...
LoadRecord(c, i) ==
  /\ ctl[c].at = "load"
  /\ ctl[c].reset = {}
  /\ i \in ctl[c].left
  /\ ctl' = [ctl EXCEPT ![c].left = @ \ {i}, ![c].own[i] = Recovered(disk[i]),
                        ![c].reset = IF disk[i] = "processing" THEN {i} ELSE {}]
  /\ UNCHANGED <<commands, wish, disk, cancelFile, statusFile>>
  /\ WorkerFrame

\* ... and is written back so.
ResetRecord(c, i) ==
  /\ i \in ctl[c].reset
  /\ disk' = [disk EXCEPT ![i] = "pending"]
  /\ ctl' = [ctl EXCEPT ![c].reset = {}]
  /\ UNCHANGED <<commands, wish, cancelFile, statusFile>>
  /\ WorkerFrame

\* The copy is open: a cancel reads cancellations.json, a retry picks its items.
Loaded(c) ==
  /\ ctl[c].at = "load"
  /\ ctl[c].left = {}
  /\ ctl[c].reset = {}
  /\ ctl' = IF IsCancel(ctl[c].cmd)
            THEN [ctl EXCEPT ![c].at = "request", ![c].seen = cancelFile]
            ELSE [ctl EXCEPT ![c].at = "apply",
                             ![c].left = Affected(ctl[c].cmd, ctl[c].own)]
  /\ UNCHANGED <<commands, wish, disk, cancelFile, statusFile>>
  /\ WorkerFrame

\* The rename over cancellations.json, from what was read before.
RequestLands(c) ==
  /\ ctl[c].at = "request"
  /\ cancelFile' = Requested(ctl[c].cmd, ctl[c].seen)
  /\ ctl' = [ctl EXCEPT ![c].at = "apply", ![c].seen = Idle.seen,
                        ![c].left = Affected(ctl[c].cmd, ctl[c].own)]
  /\ wish' = [i \in Items |-> IF i \in ctl[c].cmd.targets THEN "cancel" ELSE wish[i]]
  /\ UNCHANGED <<commands, disk, statusFile>>
  /\ WorkerFrame

\* BackgroundQueue.cancel, retry or retryTerminal writes the next item of the copy.
Apply(c, i) ==
  /\ ctl[c].at = "apply"
  /\ i \in ctl[c].left
  /\ disk' = [disk EXCEPT ![i] = Outcome(ctl[c].cmd)]
  /\ ctl' = [ctl EXCEPT ![c].left = @ \ {i}, ![c].own[i] = Outcome(ctl[c].cmd)]
  /\ wish' = IF IsCancel(ctl[c].cmd) THEN wish ELSE [wish EXCEPT ![i] = "prepare"]
  /\ UNCHANGED <<commands, cancelFile, statusFile>>
  /\ WorkerFrame

\* Everything is written: the public status is rewritten from the copy.
Finish(c) ==
  /\ ctl[c].at = "apply"
  /\ ctl[c].left = {}
  /\ statusFile' = Shown(ctl[c].own)
  /\ ctl' = [ctl EXCEPT ![c] = Idle]
  /\ UNCHANGED <<commands, wish, disk, cancelFile>>
  /\ WorkerFrame

ControlStep(c) ==
  \/ \E cmd \in Commands : Begin(c, cmd)
  \/ \E i \in Items : LoadRecord(c, i) \/ ResetRecord(c, i) \/ Apply(c, i)
  \/ Loaded(c) \/ RequestLands(c) \/ Finish(c)

Next ==
  \/ WorkerNext /\ UNCHANGED controlVars
  \/ \E c \in Controllers : ControlStep(c)

Spec == ControlInit /\ [][Next]_allVars

-----------------------------------------------------------------------------
(* Properties.                                                             *)

OnFile(i) == cancelFile.run \/ i \in cancelFile.items
Publishing(i) == task[i] \in {"staging", "publishing"}

\* "A provider result that arrives after a cancel is discarded and never published"
\* (cancel-store.ts:8-10): once a cancel of an item is on file and its publication
\* has not begun, no step of the worker begins or makes it, whatever the item was
\* doing, whoever cancelled it and however often the worker was restarted.
CancelHolds ==
  [][\A i \in Items : OnFile(i) /\ ~Publishing(i) =>
        ~Publishing(i)' /\ (i \in agentRoot' => i \in agentRoot)]_allVars

\* A retry is "meaningful for ... cancelled" items (queue.ts:83-87): an item the user
\* has retried since cancelling it is not marked cancelled by the worker.
RetryUndoesCancel ==
  [][\A i \in Items : ~aborted /\ wish[i] = "prepare" /\ mem[i] = "pending" =>
        mem'[i] # "cancelled"]_mem
=============================================================================
