# A formal model of Yuhi

Yuhi prepares a privacy-filtered copy of a workspace for AI coding agents, keeps improving
that copy in the background, shows what the agents did as a patch, and applies the patch to
the user's tree after review. This directory models the parts of it in which several actors
share state, or in which a failure half way must leave something recoverable: the preparation
and its policy, the background queue, the gateway that serves the agent while it works, and the
patch that is applied afterwards. TLC checks the models on small instances; TLAPS proves the
main results about the worker, patches and their reviews, preparation, the gateway's deliveries
and the editor window for every value of the constants. All source paths below are relative to `src/`.

## Inventory

| Component | State | Operations, interaction, what is hard | What makes it correct |
|---|---|---|---|
| Background worker, `packages/core/src/background/worker.ts`, `state-store.ts`, `publisher.ts`, `wiring.ts` | `items/<id>.json`, the public status file, the staging directory, the agent-visible workspace; in memory: its copy of the records, calls made, active tasks per kind, the circuit | One async loop plus one task per launched item in one JavaScript process. Everything awaits file writes, so tasks end, time out and abort between any check of the loop and the write it awaits. The process may exit anywhere. | call and concurrency budgets, no item lost or run twice, nothing called completed that is not published, a run that ends and leaves nothing half done |
| Background control plane, `queue.ts`, `cancel-store.ts`, `wiring.ts` | the same files; each command its own in-memory copy | `cancel` and `retry` of the CLI and the VS Code extension run in other processes and share only files with the worker: no lock | a cancel is honoured, completed is never taken back, a retry does what it says |
| Apply and undo of a patch, `packages/core/src/patch/apply.ts` | the user's tree, the private backup, the recovery directory, `record.json` | a long sequence of file operations, any of which may fail; rollback, which may fail too; the user edits meanwhile; the process may die | all or nothing unless recovery is asked for; nothing the user had is lost; the record tells the truth |
| Patch sessions and trusted apply, `patch/session.ts`, `diff.ts`, `validator.ts`, `trusted-apply.ts`, called by `apps/vscode/src/extension.ts` and `apps/cli/src/patch.ts` | the private baseline of the prepared tree, the review a panel shows and the one its handler holds | capture, review, select, review again, materialise a private overlay, review again, apply; discard. The agent writes, the user edits and the worker publishes between any two reads | what is applied is what was confirmed; a discard gives back what the agent got |
| Policy resolution and safety modes, `packages/policy/src/resolve.ts`, `core/src/safety-mode.ts` | none (pure) | a fold over rules by most restrictive action, then file-type routes that assign actions | rules only add restrictions; a stricter mode never delivers more |
| Native gateway sessions, `packages/context-gateway/src/native` | a session lock, the lifecycle state, a gateway, an attach server, a window | start against start, heartbeats against takeover, close against attach, cleanup of what a crash left | one live session for a workspace; every started session ends cleaned up |
| Gateway proxy and live zone, `context-gateway/src/server.ts`, `anthropic/transform.ts`, `session/prefix-state.ts` | `(tool_use_id, hash)` to exact bytes, persisted; pseudonyms and pins in memory | concurrent requests, failing writes, restarts | the same result is delivered with the same bytes on every turn |
| Context store, `packages/context-store/src/store.ts` | objects, metadata, per-session authorisation, evidence | a put of several writes; garbage collection that reads its roots and then deletes | an authorised reference can be read; nothing reachable is deleted |
| Context runtime, `packages/context-runtime/src` | ledger rows, sequence numbers, pins | concurrent deliveries of one session | sequence numbers are unique; retrieval is confined to exposed omissions |
| Planner, scanner, processors, compression, de-identification, reports, diff and validation | none or a cache | pure transformations; the models take their outcomes as choices | left to the unit tests |
| Workspace preparation, `core/src/prepare-workspace.ts` | one output directory, the report, the queue it fills | a long sequential pipeline over files the user may edit, with a local model that times out, reads and writes that fail, and an abort | nothing is delivered that the decision withholds; a credential never is; report, queue and directory agree; an edit under way is noticed |
| A VS Code window, `apps/vscode/src/extension.ts`, `launch.ts`, `dynamic-context.ts`, with `context-gateway/src/launch-session.ts` | the guard, the last report and its root, the open panel, the dynamic session, the window's colours | commands, panel messages and a restart, which go on from await to await over shared variables; preparations that hang; gateways that do not come up | an agent starts only where it should; no session leaves a gateway or its colours; no command blocks the others for ever |
| External agents, local models, CLI, configuration, audit log, MCP server, benchmarks, site, scripts | external programs and files | I/O and front ends | not state machines of their own |

The hard behaviours are listed one by one, with their lines and the properties that cover
them, under `hazards` of `PROJECT.json`.

## Modules

| Module | What it is |
|---|---|
| `BackgroundWorker` | the worker process, its files, and the processors it calls |
| `CallBudget` | what the worker promises about provider calls, and nothing else |
| `BackgroundControl` | `BackgroundWorker` composed with the cancel and retry commands |
| `PatchApply` | `applyPatchAtomically` and `undoPatch` on one patch |
| `PatchReview` | one patch session: capture, reviews, selection, trusted apply, discard, beside the agent, the user and the worker |
| `NativeSession` | one native session: broker, window, lock, record, and a recovery sweep |
| `LiveZone` | what the gateway sends for the tool results of one session: live zone, runtime, ledger, object store |
| `PolicyDecision` | `resolvePolicy`, the capability registry and the safety modes |
| `PrepareWorkspace` | one preparation, over the decisions of `PolicyDecision` |
| `EditorWindow` | a window on a source folder: its commands, review panel, restart and dynamic sessions |
| `MC...` | instances for TLC |
| `BackgroundWorkerProofs`, `BackgroundControlProofs`, `PatchApplyProofs`, `PatchReviewProofs`, `PrepareWorkspaceProofs`, `LiveZoneProofs`, `EditorWindowProofs`, `NativeSessionProofs` | theorems |

`PrepareWorkspace` extends `PolicyDecision` and fills the queue `BackgroundWorker` starts from;
the prepared files and the worker's artifacts are the tree a session of `PatchReview` is about,
whose single step `Apply` is what `PatchApply` takes apart. `NativeSession` and `LiveZone` are the two halves of the gateway
that runs meanwhile: who owns the process, and what it sends.

### The background worker

A step is what JavaScript runs without giving up its turn. `run()` is the loop whose place
is `phase`; `top` is `while (true)`, `scan` the `for` over the snapshot (`batch`),
`reserving` and `showing` the two awaited writes of a launch, `drain*` the end of an
aborted run. `execute()` of an item is `task[i]`, with `runWithDeadline` as the choice
between the processor's answer, `Timeout` and `Abort`; `proc[d]` is the part of a document
extraction that goes on after its task was given up, because `documentExtraction` never
looks at the signal (`wiring.ts:393-414`).

`BackgroundStateStore.update` changes memory at once and writes later: `mem` is the memory,
`disk` the files, and a write in flight is `cur` (of the loop), `saving[i]` (of a task) or
`proc[d] = "enqueuing"` (of a hand-off). A write carries the status it was started with
and lands with the step that continues after it. `statusFile`, `loopView` and `view[i]` are
the same for the public status, which is computed before its write and lands in any order.
`load()` is `StartRun`: it reads the files and puts back to pending what an exit left
processing. `disk = "absent"` is an item without a record, as the OCR item of a document is
until the hand-off enqueues it.

Simplifications. A write lands in one step with the code that awaits it (nothing reads the
file between the two but other processes, which the composition interleaves before or
after). `load` is one step for the worker, and one step per record for the commands. A
new run starts only after the process ended. A failed write of the public status is
swallowed by the code and not modelled; nor is a record that cannot be parsed. The verdict
of the safety scan of an artifact is a free choice. `Concurrency` for OCR and summaries is
at most one, as in `DEFAULT_WORKER_CONFIG` (an assumption of the module, used to name a
task by its item).

### The control plane

A command (`ctl[c]`) opens its own copy of the queue record by record, writing back as
pending what it finds processing, whoever is processing it; a cancel then reads
`cancellations.json` and writes it back with its request; then it updates the items that its
copy says are affected, and writes the public status from that copy. Nothing but the files
connects it with the worker, so every interleaving of its steps with those of the worker
and of the other commands is explored.

### Apply and undo

`at` is the place in the code, `k` the change and `j` the write of that change
(`Script`): a rename is two writes, its restoration a removal and a write. `WriteNext`
is one `rename`, `unlink` or `rm`, and the next step of the operation sees whether what
`atomicWriteFrom` compares after its rename still matches (`Landed`). A file is only what
the comparisons of hashes can tell apart: missing, what the review saw, what it
proposes, or something the user wrote. `ChangeFails` fails a write before it, between two of
a change, or after the last (the `fsync` or comparison that follows the rename);
`ApplyFails`, `CaptureFails` and `SettleFails` fail any other file operation; `Die` ends the
process anywhere. `reached` and `restored` stand for the lists `recovery` and
`rolledBack` of apply, and `attempted` and `rolledBack` of undo.

Simplifications. A failed write of `record.json` leaves the old file or an unreadable one,
never the new one. The policy's verdict on a change's contents is the free choice
`Refuse` in the preflight; at the second check the contents are the same or the check
fails anyway. Paths that are unsafe, aliased or symbolic links are refused before
anything is written and are not modelled. One operation runs at a time: two front ends
that apply or undo one patch at the same moment are outside the model (two applies exclude
each other by `mkdir`; two undos do not). The proposed files are the private overlay that
`trusted-apply.ts` materialised and are not edited. The module covers neither
`discardPreparedChanges` nor `patchHistory`.

### Patch sessions

`Init` is a workspace as preparation leaves it, `CaptureScan` and `CaptureSources` are
`capturePatchSession`, and `reviewPatchSession` is read by read `Scan`, `Validate` and
`ReadHunks`. `at` says whose review it is: the one rendered (`show`), the one made at the click
(`fresh`) or the first one of the call (`call`). `check`, `recheck`, `materialize`, `final` and
`apply` are the steps of `applyPatchSession`. `shown` is what the panel renders and `opened` what
its message handler closes over, which is the first review as long as the panel stays open.
`Detected` is the diff of two scans: deleted, added and modified files, and renames where one of
each has the same text. `Changes` leaves out the artifacts on record, and `Blocked` is the
validation as far as it can block a text. A text is a sequence of words, one for each place a hunk
can be at; the word "secret" stands for what the scanner finds. Between any two steps the agent
writes, deletes or moves a file, the user edits the source, and the worker publishes an artifact
(`Publish`) and later records it (`Record`).

Simplifications. A scan is one step, although it hashes file after file: of the reviews inside a
call only identities are used, and each is compared with one taken at another moment. The
second and third review of a call are reduced to the scan that gives these identities. The
writes to the source are one step. Whether Git finds the source dirty is asked once and answered
for all files. There is one session: a later one inherits the baseline of the first unchanged.
Only renames of equal text exist, as in the code. Left out are binary files, modes, symbolic
links, paths that are refused, risk levels that do not block, hunks that change the number of
lines, and `diff`, `stopYuhi` and `switchWorkspace` of the panel, which change none of this state.

### Native sessions

`at` walks `startNativeClaudeGuiSession` from await to await, `closing` the steps of
`cleanupSession` (each may fail), `sweep` those of `recoverStaleSessions` in another process.
`late` holds the halves of the attach and heartbeat handlers that run after their first await,
when a close may have begun. `touch` is a rewrite of `lock.json`: `writeFile` truncates the file
before it fills it, and a torn file reads like a missing one. `monitor`, `attached` and
`exiting` are what the two timers and the signal handlers know. `After` is the lifecycle table:
an illegal transition is recorded as `failed`. `close()` called before the start has returned
reads a variable that is not initialised yet and ends the process (`Close`).

A step may also return without having done anything. Settings or an MCP file that cannot be read
or parsed are taken for cleared (`settings-merge.ts:118-126`, `mcp-registration.ts:82-93`), and the
failure to mark a recovered record is swallowed (`recovery.ts:171`). `Outcomes` has "missed" beside
"done" and "threw", and the history variable `missed` holds the steps whose last run did nothing; a
later sweep that does clear takes them out again. `ClosedMeansClean` and `SweptMeansClean` except
the entries of these steps and nothing else: with an unreadable file the record says `closed`
while the endpoint or the tools are still written there, and nobody comes back for them.

Simplifications. A transition is recorded in the step that takes it, because nobody else writes
the record of a living process but `MarkRecovered`, which is a step of its own. A failing write of the record
inside a close is an unhandled rejection, so the end of the process (`Die`). One rewrite of
the lock is followed at a time. There is one session. The memory of a process that died is reset
by `Exit`. A lock ages only when nothing rewrites it (the process is gone, or a signal stopped
its timer): a machine that was suspended for longer than the timeout is not modelled.

### The live zone

A request walks from await to await (`at`): it finds a `PrefixState` or loads one from the
ledger (two requests may load at once, the later `Adopt` wins), then handles the tool results
of its transcript in order. A block that was delivered before is looked up; a new one is stored
raw, transformed, compressed, pinned, recorded as evidence, and remembered as an object and a
ledger row; a scan is delivered anew each time. `row`, `last`, `evidence` and `torn` are the
disk, `current`, `known`, `texts` and `pins` the memory. An object is rewritten in place: a
concurrent reader, or a reader after a crash, may find it torn (`Reads`); or the read fails, and the
state forgets the block, which is then delivered as a new one (`LookupFails`). The history variable
`spoilt` holds the objects this happened to, or that a crash or a failed write left torn. A named content gets a
pseudonym no delivery of the process used before, so equal bytes come only from the ledger and
the pins, never by construction.

Simplifications. The text of a delivery is what the properties tell apart: content, pseudonym,
how much is shown, and the marker. Whether a content shrinks, pays for its marker or is withheld
by the exact-output scan is a property of the content. One session; the egress guard, metrics
and HTTP are left out.

### The editor window

A click is a handler (`handler[t]`) with the command it runs, the await it is at, the run it is
about and that run's source. `guard` is `visibleCommandRunning`: `Finish` is the `finally` that
clears it, whoever holds it by then. Preparing from the menu, the messages of the panel and
`restartFlow` go round the guard. `panel` is the report and the root that the message handler
closed over when the panel was created, `last` the pair of `lastReport` and `lastReportRoot`,
which any preparation that ends replaces, and `done` the preparation that `activePrepareDone`
stands for. `Settle` is the end of a preparation, `Watchdog` the timer that lets its command go
while it may still run. `Answer` is every question before a preparation, `Confirm` every one
after it. A dynamic session begins with `Resolve`, goes through `Verify`, `Trust` and
`StartGateway` and is on hand (`dynamicSession`) only after `GatewayReady`. What follows a gateway
that listens may throw, and then nobody can close it (`StartThrows`, the history variable
`thrown`); the colours may not be applied (`GatewayReady`) or not be put back (`StopGateway`, the
history variable `unrestored`), which the code swallows. Terminals carry one name, so closing any of
them ends the session on hand (`CloseTerminal`); which are open makes no difference to the rest.

Simplifications. What a preparation does is `PrepareWorkspace`; here it is complete, partial
(`Failed` in `classifyOutcome`) or comes to nothing. A click prepares at most once; a Retry is
another click, as is a dynamic start after one that threw. The folder chosen in a dialog is not the one the window shows, so that a mix of
the two would be noticed. Reading and writing the colours is one step. A run opened in
a new window and one opened in a terminal with the CLI are the same `Open`. Left out are windows opened
on a prepared workspace, the agent picker, the question about the privacy mode, the gate of the
safety mode on Launch (it only refuses), native commands, and `deactivate`. Two observers,
`restarted` and `overlapped`, name what `SessionLeavesNothing` does not speak of: a restart under
a visible command, and a session that starts while an earlier one is being closed. The guard taken from
another command after a restart is told below; `GuardReleased` asks only that it is given up.

### Policy and preparation

`ApplyRule` folds one rule a step over all files; `Escalated` merges what a safety mode appends;
`Migrated`, `RouteUnverified`, `RouteVerified` and `Settle` are the rest of `resolvePolicy`, in
its order. Globs are sets of files and detectors are classes with a severity. `PrepareWorkspace` takes the files one by
one: `Disposal` is the route of a file before it is read, `held` what was read of it, `work` the
output directory, `entry` the report, `wanted` and `queue` the background items in memory and on
disk. `circuit`, `calls` and `asked` are the gate of the local model. Then come the safety-mode
pass, the final gate against the source of that moment, the second capture and the queue.
`Edit`, `Abort`, and failing reads and writes happen between any two steps.

Simplifications. Content is the set of sensitive ingredients and the edition of the source. A
processor removes what it can remove, or nothing, or fails. Left out are summaries of the whole
context, pseudonymised file names, compression, the gate of document companions, duplicate
aliases, symbolic links, deferred document inspection, reports and manifest, findings of low
severity, the trusted-local privacy mode, the model's time budget (it acts like its call limit,
earlier), the failure of the removal after an abort, and empty workspaces.

## What the runs check

| Run | Instance | Question and answer |
|---|---|---|
| `worker` | two of three queued items (a document with its OCR item, two files to summarise), 3 items reachable at once, one exit or one failed write, at most one cancel on file | types, budgets (`KeepsCallBudget`, a refinement of `CallBudget`), reservations on disk, nothing completed without its companion, completed stays, a finished run leaves nothing in flight, and with fairness a started run ends even if no processor ever answers: all hold |
| `control` | two items to summarise and one command at a time, one exit | completed means published beside any commands; once a cancel is on file and publication has not begun, the item is never published |
| `retry_cancelled` | one item, two commands | violated: the request in `cancellations.json` outlives the retry |
| `patch` | every patch of two changes over three files (also a rename beside a change of its origin), four calls, one edit, three failing operations, one death | a call is all or nothing unless it asks for recovery; the user's originals and what apply left are always somewhere; the record is right; no blind overwrite of what the user wrote before the last check; history is kept: all hold |
| `patch_undone` | the same, two calls, one failure | violated: an undo that is put back because its record or its cleanup failed stays on record as undone, and can never be undone again |
| `review` | a sanitized file, a full one and a name the worker publishes at, which the source may have too; two writes or moves of the agent, one edit of the user, one artifact | an apply writes exactly the ticked hunks of the panel, or the text of the confirmed review, over what the agent got, and takes in no secret; a discard gives back what the agent got and keeps the artifacts: all hold |
| `native` | one session with its window, timers, signals, stop and detach; one sweep; one cleanup step that fails or does nothing; death anywhere | closed means clean but for what an unreadable settings or MCP file hid from a step, states past the attach are told only of an attached window, a late handler never undoes a close, a sweep over a dead owner leaves nothing but such an entry or an unmarked record; a close ends with the gateway down and an abandoned session ends: all hold |
| `native_live` | the same | violated: a sweep cleans a session that is still starting, because its lock is written only right before the window is launched |
| `live_zone` | five blocks of four contents, four transcripts, three requests, two at once, one failure, one restart | one by one, a block keeps its bytes over restarts and failures unless one of its objects was left half written or could not be read; what was sent is on record; in one process the pins hold for all requests and a scan is steady: all hold |
| `live_restart` | a scan and a search result with a name each, two requests, one restart | violated: the scan comes back with another pseudonym |
| `prepare` | fifteen kinds of a first file, a second that needs the model, fourteen policies, six options (modes, wishes, deferral), two edits, one failing read or write, an abort | the fold is the most restrictive, withholding rules hold against every route, stricter modes expose less, no credential is delivered, an edit is caught, report, queue and directory agree: all hold |
| `window` | one window, a folder it shows and one it is told to prepare, three clicks, two preparations, one of which may hang | an agent starts only in a run that ended with a report, under a policy that was written and under the source it was prepared from; a gateway belongs to a session or a start unless that start threw, and the colours come back unless they could not be written; the guard is given up or a command asks the user: all hold |

Every violated property states what a comment, a test or a document of the repository says,
quoted in `PROJECT.json` under `findings` with the line.

### Bounds

All bounds are constants that guard the actions of the environment: `MaxClicks`,
`MaxRuns`, `MaxExits`, `MaxFaults`, `MaxCommands`, `MaxEdits`, `MaxWrites`, `MaxCrashes`, `MaxFailures`, `MaxSweeps`, `MaxRequests`
and `AtOnce`, and `MaxCalls` of `PatchApply` (calls of apply and undo). `MaxCalls` of the worker
and of preparation is not a bound: it is the call budget of the code. Why they are enough: a run
of the worker forgets everything but the files when the process exits, so one exit gives every
combination of files that a second run can start from; two items already give a task that ends
while another is being reserved, one that holds the slot the other needs, and a status computed
before and written after that of another. A command has one read and one write per file, so two
commands give every lost update. A patch of two changes has a first change that is complete when
the second fails, and three failures are one more than the two that a recovery request needs
(the operation and its rollback), so that calls after it are explored too. In the control
instances `WithinBudget` leaves out aborts and the wall-time budget, which `worker` covers.

A native session owes its sweep nothing but the disk, which one sweep reads in two steps and
writes in four, so one sweep placed anywhere shows every mixture; one step that fails or does
nothing is enough for
`cleanup-failed`, and the sweep may be the one that fails. Of the live zone's three requests two
can race for a load or a block and the third, possibly after the restart, sees what they left.
Preparation treats files one after the other and only the model's circuit and the aborted run
connect them, so two files suffice: one of each kind, and one that comes after it and needs the
model. Two edits are the least that can deceive the two captures (see `EditCaught`).

A patch session compares what was read at one moment with what is read at the next, and a write of
the agent between two reads either shows in the second or is undone by another write: two writes
give both, and the third name gives the race of an artifact with its record. One edit of the user
is enough, since nothing the session does depends on how the source came to differ.

Three clicks are a command, one that disturbs it (a panel message, a restart) and one that meets
what both left; two runs under different sources are enough to mix up.

Deadlock is checked in the preparation and review runs. In the others it is not: when the budgets of the
environment are used up the systems rest. A run or a session that hangs is what `RunTerminates`,
`GatewayGone`, `AbandonedEnds` and `GuardReleased` look for.

### Fairness

Of the worker the loop, each task and each hard timer are weakly fair: the loop and the tasks are
resumed by the event loop when their file operation ends, and a `setTimeout` fires; a processor
is never assumed to answer, a run is never assumed to be started, and nobody to abort. Of a
native session the same holds for the cleanup steps, the broker's poll (`Leave`), the attach
timer, the continuations of handlers, and the heartbeat timer once the window no longer beats;
users, windows and sweeps owe nothing. For the step that closes the gateway this is generous:
`server.close` is awaited without a deadline (`context-gateway/src/server.ts:306`), so `GatewayGone`
says that the gateway goes down if the connections it has open end. In the
editor window the extension host goes on with every handler and the watchdog fires, while the
user need never answer and a preparation need never end (no fairness of `Settle`). Every other property is a safety property.

## What is proved

All theorems are checked by TLAPS to the last leaf.

About the worker, for every set of items, configuration, budget, and any number of exits,
failed writes, aborts and timeouts:

- `WorkerInvariant` (`WorkerSpec => []IInv`). `TypeOK` alone is not inductive: freeing a
  slot needs `active[k] > 0`, which needs that slots are exactly the tasks in flight
  (`SlotsCounted`), which in turn needs that an item is not launched twice
  (`PendingIdle`, `BatchPending`) and that what the loop checked before it awaited the
  reservation is still true when that write lands (`Reservation`). `LaunchedProcessing` and
  `DownIdle` close the induction.
- `WorkerTypeCorrect` and, with the `Published` strengthening, `WorkerPublishes`: every
  place that says completed (memory, record, status, and each write in flight that will say
  so) is behind the rename into the workspace.
- `WorkerKeepsCallBudget`: the worker implements `CallBudget`. Initial states map to initial
  states and each step to a call that starts, a call that ends, a new run, or a stutter.
- `WorkerNeverGivesUp`: a gated item means a task in flight or progress in this pass, so
  the give-up branch of the loop is dead code.
- `WorkerCompletedStays`: from `RecordAgrees` (record and memory agree about items without a
  write in flight), no record or memory of a completed item changes.
- `WorkerRunSettled`, from `SettleInv`: the loop awaits a record write only at three places
  (`WritesInTurn`), nothing runs once the run resolved and what it shows last is what memory
  holds (`ClosesWhole`), and memory is ahead of a record only while a write is under way, unless
  one failed (`RecordFollows`).
- `WorkerReservedOnDisk`, from `Reserved` (an item in processing whose task has not decided its
  outcome is on record) and `WritesAside` (the loop overwrites the record of no such item).

Assumptions are `WorkerAssumption` only: finite items, distinct ranks, and the concurrency
of at most one for OCR and summaries.

About the worker with cancel and retry commands beside it, for any number of controllers and
commands, from the same assumption:

- `ControlInvariant`: a command changes records, cancellations and public status and nothing
  else of the worker (`ControlFrame`), so that `IInv`, which is about the memory of the worker,
  survives whatever a command writes. `ControlKeepsCallBudget` and `ControlNeverGivesUp` follow
  the same way from the lemmas about the worker's own steps.
- `ControlCompletedMeansPublished`: here commands do write what the property is about. It needs
  `ReadPublished` (a command knows an item as completed only if a record said so) and that no
  step takes a companion out of the workspace (`RootGrows`), since a command shows what it read
  long after it read it.
- `ControlCancelHolds`: a worker looks at the file after the processor has answered and before it
  publishes, and no other step begins a publication (`WorkerObeysCancel`).
- `ControlCancelFinal`: an item cancelled before its publication began is never published. Its
  hypothesis `OneRequest` (no two cancels between reading and writing `cancellations.json`) is
  what keeps the request on file: two cancels at once may lose one, because
  `cancel-store.ts` reads, adds and writes without a lock. With one controller it always holds.

`CompletedStays`, `RunSettled` and `ReservedOnDisk` are promises of the worker alone: a command
rewrites the records from a copy of its own, so that with one beside it none of them can be
expected.

About a patch, for patches of any length and any number of calls, edits, failing operations
and deaths, from `PatchAssumption` only (a patch is not empty, only a rename has an origin
of its own, and no two changes have the same destination; only the last two theorems use that
destinations differ):

- `PatchTypeCorrect`, from `PInv`: `TypeOK` with the range of `k` at each place.
- `PatchHistoryKept`, from `HInv`, which ties the place to the record: apply works on a
  patch without a record, undo on one that is applied, and putting an undo back writes the
  status it holds in memory. The last needs `held` in the invariant, because
  `record.json` may be unreadable by then.
- `PatchRecoveryHolds`, from `CInv`: the changes without a copy are those not yet captured,
  and none once the first file is restored.
- `PatchBackupHolds`, from `SInv` (the changes without a backup; none once a file may be
  written) and `EInv`: a tree nobody edits is intact while it is being backed up, so the
  backup of a file is never a copy of something else.
- `PatchNoBlindOverwrite`, from `VInv`: the changes that would write over the user's
  content (`Blind`) are those not yet checked; one check may free a file for several
  changes, when one's destination is another's origin.
- `PatchCallAtomic`, from `AInv`, which keeps for a tree nobody edits into what a call knows. Each
  place has a set of changes that may have left a file other than it was (`Blamed`): it grows
  before a change is made and shrinks only when every write of a restoration is done
  (`OnlyBlamed`), so a call that ends with nothing to blame leaves the tree it began with. What
  a rollback writes is what was there, because the checks of the call were about that same tree
  (`CheckedStart`, with `SInv` for the backup and `CopiesTrue` for the recovery copies). An undo
  that reports success has passed every change (`UndoneSoFar`); that a destination it removes is no
  file the review saw follows from the destinations being different (`NoDestinationSeen`).
- `PatchRecordTells`, from `RInv` on top of it: the three writes that put `applied` or
  `rolled-back` on record happen in a tree of which it is true, and no operation begins to write
  while the record says `rolled-back`.

About a patch session, for any names, texts of equal length, workspaces and number of writes,
edits and publications, from `ReviewAssumption`:

- `ReviewInvariant`, from `DInv` and `AInv`. Both rest on `SInv`: every change of a review says
  what the baseline has at its names (`WellFormed`), and no name belongs to two changes of one
  review (`Consistent`), which is where renames are paired one to one.
- `ReviewDiscardRestores`, from `DInv`: what the discard has passed is as in the baseline
  (`Passed`), and no change of the handler's review is about an artifact on record (`KnownStay`).
- `ReviewAppliedAsConfirmed`, from `AInv`: a file without the text of the review of the call was
  written since (`Noticed`), the request is about that review (`Agreed`), and a candidate with
  another text was written twice once the final review has passed (`Overlaid`). `Quiet` is
  exactly what is missing otherwise.

About preparation, for every workspace, rule list, mode, wish and order, and any number of files,
edits and failures, from `PolicyAssumption`, `PrepareAssumption` and `NothingAssumption` (the last two
theorems each have one more condition, on the names of rules):

- `PrepareInvariant` and `PrepareTypeCorrect`, from `TInv`: types with the place of each loop
  (`Places`), and that exactly the files before the turn have their entry (`Handled`).
- `FoldMostRestrictive`, by induction over the rules: merging is a join that names its rule.
- `RulesHoldThroughout`, from `Routed`: a file that is delivered went through a route that
  its decision allows, and what that decision can be is summarised for the four stages of
  `resolvePolicy` before it is related to the rules.
- `ReportMatches`, from `Disposed` and `Reported`: entry and directory agree on each file the
  loop has passed; the safety-mode pass and the final gate change both or neither.
- `QueueTellsAlways`, from `Tells`: an item says whether its original was shared, and a later
  pass only takes originals away.
- `SingleEditCaught`, from `Captured`: with one edit, every edition read is that of the first
  capture or the present source differs from it, and the second capture sees that.
- `ModesNarrowThroughout`, under `NamesWithhold`. The rule that a mode appends is overruled or
  withholds the file (`StructuredStays`), or the file is a binary and the routes treat what the rule
  replaces in the same way (`BinaryDecision`); the rest of a mode is what it includes
  (`SameDecision`).
- `CredentialStaysThroughout`, under `NamesNeverAllow`, from `Clean` and `Reported`: a text with a
  credential was seen by the scan or goes through a transformation (`CredentialRoute`), no outcome of
  a transformation delivers one (`ResultClean`), and the final gate takes out what remains in the
  types it looks at.

The two conditions are about the names of rules and cannot be dropped. `resolvePolicy` exempts
content the scan could not verify from the transformation if the name of the deciding rule contains
`credential`, `private-key` or `secret-director` (`resolve.ts:144-147`), whatever its action. A rule
of the user with such a name and the action `metadata-only` keeps an image out in strict mode, but in
maximum privacy the appended rule takes its place, and with the wish to include the file it is copied
as it is; one with the action `allow` delivers a text that is too large for the scan. With such a rule
in the instance TLC finds both. The policies of the run and the generated ones meet the conditions;
`MCPrepareWorkspace` has TLC evaluate them (`MCNames`).

About deliveries, for any blocks, contents, transcripts and number of requests, failures and
restarts, from `LiveZoneAssumption` and `NoneAssumption`:

- `LiveZoneTypeCorrect` and `LiveZoneInvariant`, from `LInv`: a place of a request tells which
  of its locals are set, and a state it uses was loaded.
- `LiveZoneSentOnRecord`, from `OnRecord`: what a request has handled, what a state knows and
  what was sent is in the rows, and a delivery passes through its evidence row before either.
- `LiveZonePinsHold`: evidence of this process is what is pinned (`Pinning`), and a content
  the scan withholds is never pinned.
- `LiveZoneScanSteady`: the texts of a scan are fixed by its pin in this process
  (`HandledFixed`).
- `LiveZoneSameBytesAlone`, from `Alone`: while requests come one by one, at most one row
  exists for a block, the one state in use knows exactly the rows, and only a block without a
  row is delivered, as far as no object of the block is in `spoilt` (`Ordered`). Torn bytes in a
  state, a request or what was sent are those of such a block (`Intact`): while requests come one by
  one nobody writes while another reads, so only a crash or a failed write leaves an object torn.

About native sessions, for any number of sweeps and failing cleanup steps, with or without
retrieval, from `BoundsAssumption`:

- `SessionInvariant` (`NInv`): `Dead` (a process that does not run has nothing to write and,
  once it ran, never runs again), `Closes` (a close begins only after the start has returned and
  from then on the state is one of its own), `Cleaned` (what an unbroken close has taken away at
  each of its steps, or put into `missed`) and `Swept` (the same for a sweep over a dead owner).
- `SessionTypeCorrect`; `SessionClosedMeansClean`, from `Cleaned`: a broken close is reported as
  `cleanup-failed`, never as `closed`; `SessionToldTruth`, whose only hard step is a window that
  detaches, where `Closes` shows that the state no longer speaks of an attach;
  `SessionSweptMeansClean`, from `Swept` and `Dead`: the one thing that could write the lock again
  is the owner; `SessionNeverBack`, from `Closes`.

About the editor window, for any number of clicks and preparations and any folders, from
`WindowAssumption`:

- `WindowInvariant` (`WInv`) and `WindowStartedInside`: the last report, the panel and each
  handler past a preparation speak of a run with a report under its own source (`Reported`), and a
  click that has not yet asked has no run, so that no preparation begins over a used one
  (`Before`). Policies and reports are never taken back (`Grown`).
- `WindowSessionLeavesNothing`, from `SInv`: without a restart under a command the guard admits
  one command (`OneCommand`), so one start at a time and none over a session on hand
  (`NoneOnHand`), and the colours change hands once for a session and once for its close
  (`ColoursFit`), as long as no restore failed (`unrestored`). Without the guard the second start
  would save Yuhi's colours as the user's.

Model-checked only: `RunTerminates`, `GatewayGone`, `AbandonedEnds` and `GuardReleased`: liveness
is beyond the prover.

## What is not modelled

Enqueueing and sidecars, the planner, reports, the local model,
the CLI beyond its queue commands, configuration, audit log and MCP server; and inside modelled components what their
sections above leave out. The pure transformations and the I/O layers are left to tests, each for
the reason given under `components` of `PROJECT.json`. Two workers over one run (CLI and VS Code
both draining), two undos at the same time, and garbage collection of the context store (called
by its tests only) are hazards noted but not modelled.

## Observed, without a run of its own

Reading and modelling showed more than the violated runs say. Of the background queue: two
cancels at once lose one request (`cancel-store.ts:54`); an older public status may land over a
newer one; a retry that read its record early puts a completed item back to pending, which
`apps/cli/src/background.ts:287-289` says never happens; the outcome of a failing call overwrites
a cancelled record (`worker.ts:445-448`). Of native sessions: a session whose cleanup failed
counts as finished and is never retried (`recovery.ts:91`); nor is one that closed over a settings or
MCP file it could not parse, which the record calls `closed` (`settings-merge.ts:123-126`,
`mcp-registration.ts:88-93`).

Of the live zone: bytes of an object left half written by a crash are sent as they are, and a compact
object that cannot be read makes a block be delivered anew, after a restart with another pseudonym;
`prefix-state.ts:9` says a restart reproduces the bytes and `store.ts:92-93` that rewriting is a
no-op "by construction".

Of patch sessions: a file the agent writes twice while an apply runs, away before materialisation
and back after it, is applied with the text in between, since materialised bytes are compared with
no reviewed hash (`trusted-apply.ts:79` closes the race of one write only; `Quiet` in
`AppliedAsConfirmed`). The panel confirms the identities of a review made at the click, not of the
one it shows, so whole files are applied with a text nobody has seen (`extension.ts:2034-2074`;
ticked hunks are safe); a ticked file the agent deletes before the click is deleted in the
source; discarding uses the review of the first opening (`extension.ts:1946`). Every rename is
shown as eligible and dropped without a word, because its bytes equal those before
(`session.ts`, `afterHash === change.beforeHash`); alone it is `patch-selection-empty`. An artifact
published but not yet on record is taken for a file of the agent: it may be applied, and a discard
removes it, although `README.md:110` says artifacts stay blocked. Discarding the rename of a
sanitized file removes the new name and then fails, for the baseline has no bytes of an
artifact. The identity of a patch does not contain the origin of a rename. After an apply the
baseline is not renewed, so a second apply of the same file is blocked as a conflict.

Of policy and preparation: archives over 128 MB are copied raw (`prepare-workspace.ts:1812` comes
before 1849, whose comment says that archives never reach the workspace); findings of the categories access token, private key and database url
are not of category credential (`prepare-workspace.ts:1175-1193`), so such a token in a table too large to
scan is delivered best effort; a residual of medium severity passes; local-only, ask, inject or
metadata-only of the user on a file that cannot be inspected is overridden by the routes
(`resolve.ts:139-190`); a default stricter than every rule keeps the winner `default` and is
taken for nobody's; a private key too large for memory is delivered although blocked; a block
with processors on an inspected document becomes local-only and the document is shared; the final
gate after the safety-mode pass may leave an unverified file in maximum privacy; maximum privacy
takes back files the user included while their queue item still says shared; an edit between the
scan and the first capture, or a pair of edits that restores a file, is not noticed.

Of policy also: a former generated rule that stands before a block of the user takes the file and
is upgraded to a sanitized copy (`resolve.ts:63,102`), although the comment there (98-99) says a user's
block stays authoritative.

Of the window: `openClaudeHere` (`extension.ts:2397-2398`) and the automatic launch after a
preparation start an agent without the safety-mode gate, although the comment at 3081-3083 calls it
the host-side guarantee that survives an "alternate invocation". A restart awaits `activePrepareDone`
(2456), for ever if the preparation hangs, although 3685-3686 says recovery always lets a user
escape an interrupted prepare; `restartFlowRunning` then refuses every later restart. A restart
clears the guard while the old command goes on: two dynamic starts may leave two gateways, although
231 says one session per window; and a preparation that completes in spite of the abort sets the
last report after the reset. "Switch Workspace" on the failure message (2550-2552) is refused,
because the guard is cleared only after that message closes (2565). The panel stays open over a
newer preparation, shows the newer report and launches the one it was created with. A keep-local
decision is forgotten by the next one, which passes only its own path (3029-3030). A dynamic session
started while the previous one is being closed saves Yuhi's colours as the user's (241-243). So does
any session after a restore that failed: the saved value is forgotten before the setting is written
(259) and the failure is swallowed (411), so that Yuhi's colours stay. If opening the terminal or
showing the session throws, the gateway that already listens is left to nobody
(`dynamic-context.ts:130-166`, `extension.ts:388-396`).

## Plan

Written, in this order: `CallBudget`, `BackgroundWorker`, `BackgroundControl`, `PatchApply`,
`NativeSession`, `LiveZone`, `PolicyDecision`, `PrepareWorkspace`, `PatchReview` and `EditorWindow`,
each with its instance and, but for `CallBudget` and `PolicyDecision`, which are proved about in the
modules that use them, its proofs. What could come next:

1. An abstract specification of a patch (unapplied, applied, needs recovery) that `PatchApply`
   implements; today its parts are the invariants above.
2. The context store with garbage collection, once a program calls it, and retrieval on top.
3. A second worker over the same run, whose shared staging directory is a known hazard.
4. The deactivation of a window with a session on hand (`extension.ts:3739-3749`), whose two last
   calls nobody awaits.
