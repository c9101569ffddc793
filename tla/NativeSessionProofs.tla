------------------------ MODULE NativeSessionProofs ------------------------
(***************************************************************************)
(* What a native session tells, how it closes and what a sweep leaves, for *)
(* any number of sweeps and of cleanup steps that fail, with or without    *)
(* retrieval.                                                              *)
(***************************************************************************)
EXTENDS NativeSession, TLAPS

\* What a session may record once its close has begun.
Ending   == {"closing", "closed", "failed", "cleanup-failed"}
Attached == {"vscode-attached", "claude-activating", "claude-ready", "active"}

\* A process that does not run has no sockets, no memory and nothing to write.
Dead ==
  /\ alive <=> at \in Starting \cup {"running"}
  /\ ~alive => /\ ~gateway /\ ~server /\ closing = "no" /\ touch = "idle" /\ late = {}
               /\ state = "created"

\* A close begins after the start, and is never taken back.
Closes ==
  /\ closing # "no" => at = "running" /\ state \in Ending
  /\ state = "closed" => closing = "done"
  /\ record = "closed" => at = "ended" \/ closing = "done"

\* What has been cleaned at each step of a close in which none threw.
Cleaned ==
  /\ closing \in {"close-gateway", "clear-settings", "revoke-token", "release-lock", "report"} /\ ~broken =>
       (tools => "flush-evidence" \in missed)
  /\ closing \in {"clear-settings", "revoke-token", "release-lock", "report"} /\ ~broken => ~gateway
  /\ closing \in {"revoke-token", "release-lock", "report"} /\ ~broken =>
       (settings => "clear-settings" \in missed)
  /\ closing \in {"release-lock", "report"} /\ ~broken => ~token

\* The same for a sweep over a dead owner, who does not come back.
Swept ==
  /\ sweep.at # "idle" => at # "unborn"
  /\ sweep.at \in SweepSteps \cup {"read", "mark", "swept"} /\ ~sweep.living =>
       /\ ~alive
       /\ sweep.at # "clear-settings" /\ ~sweep.failed => (settings => "clear-settings" \in missed)
       /\ sweep.at \notin {"clear-settings", "revoke-token"} /\ ~sweep.failed => ~token
       /\ sweep.at \in {"read", "mark", "swept"} => lock = "none" /\ ~sweep.failed
       /\ sweep.at = "swept" => record = "none" \/ isTerminal(record) \/ "mark" \in missed

\* The type invariant in three parts: the process, what others see, the sweep.
ProcessType ==
  /\ alive \in BOOLEAN /\ at \in {"unborn", "running", "ended"} \cup Starting /\ state \in States
  /\ gateway \in BOOLEAN /\ server \in BOOLEAN /\ isAttached \in BOOLEAN
  /\ monitor \in {"off", "armed", "beaten", "disposed"} /\ attached \in {"pending", "settled"}
  /\ late \in SUBSET {"attach", "ready"} /\ touch \in {"idle", "read", "writing"}
  /\ closing \in {"no", "report", "done"} \cup CleanupSteps
  /\ broken \in BOOLEAN /\ exiting \in BOOLEAN

DiskType ==
  /\ record \in States \cup {"none"} /\ lock \in LockValues
  /\ settings \in BOOLEAN /\ tools \in BOOLEAN /\ token \in BOOLEAN
  /\ missed \in SUBSET {"clear-settings", "flush-evidence", "mark"}
  /\ window \in {"none", "opening", "joined", "stray", "gone"} /\ panel \in BOOLEAN

SweepType ==
  /\ sweep \in [at : {"idle", "lock", "read", "mark", "swept"} \cup SweepSteps,
                seen : States \cup {"none"}, living : BOOLEAN, failed : BOOLEAN]
  /\ sweeps \in 0..MaxSweeps /\ failures \in 0..MaxFailures

NInv ==
  /\ ProcessType /\ DiskType /\ SweepType
  /\ Dead /\ Closes /\ ToldTruth /\ ClosedMeansClean /\ Cleaned /\ Swept

-----------------------------------------------------------------------------
\* What the recorder makes of a state: the one it is told, or failed.
LEMMA AfterFacts ==
  ASSUME NEW s \in States
  PROVE  /\ \A to : After(s, to) \in {to, "failed"}
         /\ s \in Ending => \A to \in Attached : After(s, to) = "failed"
         /\ After(s, "claude-activating") = "claude-activating" => s \in Attached
         /\ After(s, "active") = "active" => s \in {"claude-ready", "active"}
<1>1. \A to : After(s, to) \in {to, "failed"}
  BY DEF After
<1>2. ASSUME s \in Ending, NEW to \in Attached PROVE After(s, to) = "failed"
  <2>1. s # to /\ ~canTransition(s, to)
    BY <1>2 DEF Ending, Attached, canTransition, Forward, Launched, Terminal
  <2> QED BY <2>1 DEF After
<1>3. After(s, "claude-activating") = "claude-activating" => s \in Attached
  BY DEF After, canTransition, Forward, Attached
<1>4. After(s, "active") = "active" => s \in {"claude-ready", "active"}
  BY DEF After, canTransition, Forward
<1> QED BY <1>1, <1>2, <1>3, <1>4

\* What a step of the process may change keeps its type.
LEMMA StateNames == {"created", "failed", "orphaned"} \cup Ending \cup Attached \subseteq States
BY DEF States, Terminal, Ending, Attached

\* Every step that ends the process.
LEMMA ExitStep ==
  ASSUME NInv, alive, Exit, UNCHANGED <<lock, settings, token, missed, failures, sweep, sweeps, panel>>,
         record' \in {record, "failed"}, tools' = tools, window' \in {window, "gone"}
  PROVE  NInv'
<1>1. ProcessType'
  BY StateNames DEF Exit, ProcessType
<1>2. DiskType' /\ SweepType'
  BY StateNames DEF NInv, DiskType, SweepType
<1>3. Dead' /\ ToldTruth' /\ Cleaned'
  BY DEF Exit, Dead, ToldTruth, Cleaned, Starting
<1>4. Closes' /\ ClosedMeansClean'
  BY DEF NInv, Exit, Closes, ClosedMeansClean
<1>5. Swept'
  BY DEF NInv, Exit, Swept, isTerminal, Terminal
<1> QED BY <1>1, <1>2, <1>3, <1>4, <1>5 DEF NInv

EndOfProcess == RefuseStart \/ Leave \/ Die

\* A start that is refused, a broker that leaves, and a crash.
LEMMA EndStep ==
  ASSUME NInv, EndOfProcess
  PROVE  NInv'
<1>1. CASE RefuseStart
  <2>1. state \in States /\ record' = After(state, "failed") /\ Exit
    BY <1>1 DEF RefuseStart, NInv, ProcessType
  <2>2. record' = "failed"
    BY <2>1, AfterFacts
  <2> QED BY <1>1, <2>1, <2>2, ExitStep DEF RefuseStart, notWindow, notSweep
<1>2. CASE Leave
  BY <1>2, ExitStep DEF Leave, Unmoved, notWindow, notSweep
<1>3. CASE Die
  BY <1>3, ExitStep DEF Die, Unmoved, notWindow, notSweep
<1> QED BY <1>1, <1>2, <1>3 DEF EndOfProcess

-----------------------------------------------------------------------------
\* A step of the start: one place further, with a state that claims no attach.
Advance ==
  /\ alive /\ at \in Starting /\ at' \in Starting \cup {"running"} /\ alive' = alive
  /\ state' \in {state} \cup (States \ ({"closed"} \cup Attached))
  /\ record' \in {record, state'}
  /\ gateway' \in BOOLEAN /\ server' \in BOOLEAN
  /\ monitor' \in {monitor, "armed"} /\ window' \in {window, "opening"}
  /\ lock' \in {lock, "fresh"} /\ settings' \in BOOLEAN /\ tools' \in BOOLEAN /\ token' \in BOOLEAN
  /\ UNCHANGED <<isAttached, attached, late, closing, broken, exiting, touch, missed, panel,
                 sweep, sweeps, failures>>

\* A start that goes on claims no attach and closes nothing.
LEMMA AdvanceStep ==
  ASSUME NInv, Advance
  PROVE  NInv'
<1>0. closing = "no" /\ state # "closed" /\ record # "closed"
  BY DEF NInv, Advance, Closes, Starting
<1>1. ProcessType'
  BY DEF NInv, Advance, ProcessType
<1>2. DiskType' /\ SweepType'
  BY DEF NInv, Advance, ProcessType, DiskType, SweepType, LockValues
<1>3. Dead' /\ Cleaned'
  BY <1>0 DEF Advance, Dead, Cleaned
<1>4. ToldTruth'
  BY DEF NInv, Advance, ToldTruth, Attached
<1>5. Closes' /\ ClosedMeansClean'
  BY <1>0 DEF Advance, Closes, ClosedMeansClean
<1>6. Swept'
  BY DEF NInv, Advance, Swept, Starting
<1> QED BY <1>1, <1>2, <1>3, <1>4, <1>5, <1>6 DEF NInv

\* Every step of the start that goes on is one.
LEMMA StartStep ==
  ASSUME NInv, Start
  PROVE  NInv'
<1>0. /\ state \in States /\ {"prepared", "gateway-starting", "gateway-ready", "profile-provisioning",
           "extension-installing", "vscode-launching", "vscode-started", "vscode-attaching", "failed"}
           \subseteq States \ ({"closed"} \cup Attached)
  BY DEF NInv, ProcessType, States, Terminal, Attached
<1>1. ASSUME NEW from \in Starting, NEW to \in Starting, NEW recorded \in
               {"prepared", "gateway-starting", "gateway-ready", "profile-provisioning",
                "extension-installing", "vscode-launching", "vscode-started", "vscode-attaching"},
             Step(from, to, recorded),
             gateway' \in BOOLEAN, window' \in {window, "opening"},
             UNCHANGED <<lock, settings, tools, token, server, panel>>, notRunning
      PROVE  NInv'
  <2>1. After(state, recorded) \in {recorded, "failed"}
    BY <1>0, AfterFacts
  <2>2. state' \in States \ ({"closed"} \cup Attached) /\ record' = state'
    BY <1>0, <1>1, <2>1 DEF Step, transition
  <2>3. /\ alive /\ alive' = alive /\ at \in Starting /\ at' \in Starting
        /\ UNCHANGED <<isAttached, monitor, attached, late, closing, broken, exiting, touch,
                       missed, sweep, sweeps, failures>>
    BY <1>1 DEF Step, notRunning, notSweep
  <2>4. server \in BOOLEAN /\ settings \in BOOLEAN /\ tools \in BOOLEAN /\ token \in BOOLEAN
    BY DEF NInv, ProcessType, DiskType
  <2> QED BY <1>1, <2>2, <2>3, <2>4, AdvanceStep DEF Advance
<1>2. ASSUME NEW from \in SUBSET Starting, NEW to \in Starting, Quietly(from, to),
             lock' \in {lock, "fresh"}, settings' \in BOOLEAN, tools' \in BOOLEAN, token' \in BOOLEAN,
             server' \in BOOLEAN
      PROVE  NInv'
  <2>1. gateway' \in BOOLEAN
    BY <1>2 DEF Quietly, NInv, ProcessType
  <2> QED BY <1>2, <2>1, AdvanceStep DEF Advance, Quietly, notWindow, notSweep, notRunning
<1>3. /\ gateway \in BOOLEAN /\ server \in BOOLEAN /\ settings \in BOOLEAN /\ tools \in BOOLEAN
      /\ token \in BOOLEAN /\ WithTools \in BOOLEAN
  BY BoundsAssumption DEF NInv, ProcessType, DiskType
<1>4. {"tree", "prepared", "gateway-starting", "gateway-ready", "provisioning", "installing",
       "settings", "tools", "token", "server", "endpoint", "locked", "launching", "launched",
       "attaching"} = Starting
  BY DEF Starting
<1>5. CASE Prepare \/ StartGateway
  BY <1>1, <1>3, <1>4, <1>5 DEF Prepare, StartGateway, notWindow
<1>6. CASE GatewayReady \/ Provision \/ InstallExtension
  BY <1>1, <1>3, <1>4, <1>6 DEF GatewayReady, Provision, InstallExtension, notWindow
<1>7. CASE LaunchWindow \/ AwaitAttach
  BY <1>1, <1>3, <1>4, <1>7 DEF LaunchWindow, AwaitAttach, notWindow
<1>8. CASE ApplySettings \/ RegisterTools \/ WriteToken
  BY <1>2, <1>3, <1>4, <1>8 DEF ApplySettings, RegisterTools, WriteToken
<1>9. CASE StartAttachServer \/ PublishEndpoint \/ WriteLock
  BY <1>2, <1>3, <1>4, <1>9 DEF StartAttachServer, PublishEndpoint, WriteLock
<1>10. CASE RefuseStart
  BY <1>10, EndStep DEF EndOfProcess
<1>11. CASE Return
  BY <1>3, <1>4, <1>11, AdvanceStep DEF Return, Advance, disk, notWindow, notSweep
<1> QED BY <1>5, <1>6, <1>7, <1>8, <1>9, <1>10, <1>11 DEF Start

\* The broker is spawned: nothing was on disk, and no sweep ran before.
LEMMA SpawnStep ==
  ASSUME NInv, Spawn
  PROVE  NInv'
<1>1. ProcessType'
  BY DEF NInv, Spawn, ProcessType, Starting, notRunning
<1>2. DiskType' /\ SweepType'
  BY DEF NInv, Spawn, DiskType, SweepType, disk, notWindow, notSweep
<1>3. Dead' /\ Cleaned' /\ Closes' /\ ClosedMeansClean'
  BY DEF NInv, Spawn, Dead, Cleaned, Closes, ClosedMeansClean, disk, notRunning, Starting
<1>4. ToldTruth'
  BY DEF NInv, Spawn, ToldTruth, Dead, Starting
<1>5. Swept'
  <2>1. sweep.at = "idle" /\ sweep' = sweep
    BY DEF NInv, Spawn, Swept, notSweep
  <2> QED BY <2>1 DEF Swept, SweepSteps
<1> QED BY <1>1, <1>2, <1>3, <1>4, <1>5 DEF NInv

-----------------------------------------------------------------------------
(* Closing and what runs beside it.                                        *)

\* A step of the running process that records what a close may record, or begins one.
Closing ==
  /\ alive /\ at = "running" /\ alive' = alive /\ at' = at
  /\ \/ closing' = closing /\ closing # "no"
     \/ closing' = "stop-heartbeat" /\ closing = "no"
  /\ \/ state' = state /\ record' = record /\ closing' = closing
     \/ closing = "no" /\ state' \in {"closing", "failed"} /\ record' = state'
  /\ isAttached' \in BOOLEAN /\ monitor' \in {monitor, "disposed"} /\ attached' \in {attached, "settled"}
  /\ exiting' \in BOOLEAN /\ window' \in {window, "gone"}
  /\ UNCHANGED <<gateway, server, lock, settings, tools, token, missed, late, broken, touch, panel,
                 sweep, sweeps, failures>>

\* A close that begins, or is asked for again, forgets the attach only with its state.
LEMMA ClosingStep ==
  ASSUME NInv, Closing
  PROVE  NInv'
<1>1. ProcessType'
  BY StateNames DEF NInv, Closing, ProcessType, CleanupSteps, Ending
<1>2. DiskType' /\ SweepType'
  BY StateNames DEF NInv, Closing, DiskType, SweepType, Ending
<1>3. Dead' /\ Cleaned'
  BY DEF NInv, Closing, Dead, Cleaned
<1>4. ToldTruth'
  BY DEF NInv, Closing, ToldTruth, Closes, Ending
<1>5. Closes'
  BY DEF NInv, Closing, Closes, Ending
<1>6. ClosedMeansClean'
  BY DEF NInv, Closing, ClosedMeansClean
<1>7. Swept'
  BY DEF NInv, Closing, Swept
<1> QED BY <1>1, <1>2, <1>3, <1>4, <1>5, <1>6, <1>7 DEF NInv

\* What a close begins with, in the process that runs.
LEMMA BeginCloseClosing ==
  ASSUME NInv, alive, at = "running", BeginClose, UNCHANGED <<alive, at>>,
         isAttached' \in BOOLEAN, monitor' \in {monitor, "disposed"}, attached' \in {attached, "settled"},
         exiting' \in BOOLEAN, window' \in {window, "gone"},
         UNCHANGED <<gateway, server, lock, settings, tools, token, missed, late, broken, touch, panel,
                     sweep, sweeps, failures>>
  PROVE  Closing
<1>1. state \in States
  BY DEF NInv, ProcessType
<1>2. After(state, "closing") \in {"closing", "failed"}
  BY <1>1, AfterFacts
<1> QED BY <1>2 DEF Closing, BeginClose, transition

\* Timers, signals, the window that goes and the stop command.
LEMMA CloseStep ==
  ASSUME NInv, HeartbeatExpires \/ AttachTimeout \/ Signal \/ Detach \/ Stop
  PROVE  NInv'
<1>0. isAttached \in BOOLEAN /\ exiting \in BOOLEAN
  BY DEF NInv, ProcessType
<1>1. CASE HeartbeatExpires
  BY <1>0, <1>1, BeginCloseClosing, ClosingStep DEF HeartbeatExpires, Close, Unmoved, notWindow, notSweep
<1>2. CASE AttachTimeout \/ Signal
  BY <1>0, <1>2, BeginCloseClosing, ClosingStep DEF AttachTimeout, Signal, Unmoved, notWindow, notSweep
<1>3. CASE Detach
  <2>1. CASE at = "running"
    BY <1>0, <1>3, <2>1, BeginCloseClosing, ClosingStep DEF Detach, Close, served, notSweep
  <2>2. CASE at # "running"
    BY <1>3, <2>2, ExitStep DEF Detach, Close, served, notSweep
  <2> QED BY <2>1, <2>2
<1>4. CASE Stop
  <2>1. CASE at = "running"
    BY <1>0, <1>4, <2>1, BeginCloseClosing, ClosingStep DEF Stop, Close, served, Unmoved, notWindow, notSweep
  <2>2. CASE at # "running"
    BY <1>4, <2>2, ExitStep DEF Stop, Close, served, Unmoved, notWindow, notSweep
  <2> QED BY <2>1, <2>2
<1> QED BY <1>1, <1>2, <1>3, <1>4

\* What is known of the steps that missed: the last outcome of each, and nothing else.
LEMMA MissedFacts ==
  ASSUME NEW step, NEW outcome \in Outcomes, outcome = "missed" => step \in MayMiss,
         missed \in SUBSET {"clear-settings", "flush-evidence", "mark"},
         missed' = MissedAfter(step, outcome)
  PROVE  /\ missed' \in SUBSET {"clear-settings", "flush-evidence", "mark"}
         /\ missed \ {step} \subseteq missed'
         /\ outcome = "missed" => step \in missed'
         /\ outcome # "done" => missed \subseteq missed'
BY DEF Outcomes, MissedAfter, MayMiss

\* A cleanup step that succeeded cleans what it is for, or has missed it; one that threw is
\* remembered.
LEMMA CleanupLemma ==
  ASSUME NInv, NEW step \in CleanupSteps, NEW outcome \in Outcomes, CleanupStep(step, outcome)
  PROVE  NInv'
<1>1. /\ alive /\ closing = step /\ at = "running" /\ closing' = Following(step)
      /\ state \in Ending /\ state # "closed" /\ record # "closed"
  BY DEF NInv, CleanupStep, Closes, CleanupSteps, Dead
<1>2. Following(step) \in CleanupSteps \cup {"report"}
  BY DEF CleanupSteps, Following
<1>3. ProcessType'
  BY <1>1, <1>2 DEF NInv, CleanupStep, ProcessType
<1>9. /\ missed' \in SUBSET {"clear-settings", "flush-evidence", "mark"}
      /\ missed \ {step} \subseteq missed'
      /\ outcome = "missed" => step \in missed'
      /\ outcome # "done" => missed \subseteq missed'
  BY MissedFacts DEF NInv, CleanupStep, DiskType
<1>4. DiskType'
  BY <1>9 DEF NInv, CleanupStep, DiskType, LockValues, notWindow
<1>5. SweepType'
  BY BoundsAssumption DEF NInv, CleanupStep, Counted, SweepType, notSweep
<1>6. Dead' /\ Closes' /\ ToldTruth' /\ ClosedMeansClean'
  <2>1. closing' # "no"
    BY <1>1, <1>2 DEF CleanupSteps
  <2>2. UNCHANGED <<alive, at, state, record, isAttached, panel>>
    BY DEF CleanupStep, notWindow
  <2> QED BY <1>1, <2>1, <2>2 DEF NInv, Dead, Closes, ToldTruth, ClosedMeansClean
<1>7. Cleaned'
  <2>1. /\ outcome \in {"done", "missed", "threw"} /\ broken' = (broken \/ outcome = "threw")
        /\ outcome = "missed" => step \in {"clear-settings", "flush-evidence"}
        /\ tools' = (tools /\ ~(step = "flush-evidence" /\ outcome = "done"))
        /\ gateway' = (gateway /\ ~(step = "close-gateway" /\ outcome = "done"))
        /\ settings' = (settings /\ ~(step = "clear-settings" /\ outcome = "done"))
        /\ token' = (token /\ ~(step = "revoke-token" /\ outcome = "done"))
    BY DEF CleanupStep, MayMiss, Outcomes
  <2>2. closing' \in {"close-gateway", "clear-settings", "revoke-token", "release-lock", "report"} /\ ~broken' =>
          (tools' => "flush-evidence" \in missed')
    BY <1>1, <1>9, <2>1 DEF NInv, Cleaned, CleanupSteps, Following
  <2>3. closing' \in {"clear-settings", "revoke-token", "release-lock", "report"} /\ ~broken' => ~gateway'
    BY <1>1, <2>1 DEF NInv, Cleaned, CleanupSteps, Following
  <2>4. closing' \in {"revoke-token", "release-lock", "report"} /\ ~broken' =>
          (settings' => "clear-settings" \in missed')
    BY <1>1, <1>9, <2>1 DEF NInv, Cleaned, CleanupSteps, Following
  <2>5. closing' \in {"release-lock", "report"} /\ ~broken' => ~token'
    BY <1>1, <2>1 DEF NInv, Cleaned, CleanupSteps, Following
  <2> QED BY <2>2, <2>3, <2>4, <2>5 DEF Cleaned
<1>8. Swept'
  BY <1>1 DEF NInv, CleanupStep, Swept, notSweep
<1> QED BY <1>3, <1>4, <1>5, <1>6, <1>7, <1>8 DEF NInv

\* The outcome is "closed" only when everything was cleaned.
LEMMA ReportStep ==
  ASSUME NInv, Report
  PROVE  NInv'
<1> DEFINE outcome == IF broken THEN "cleanup-failed" ELSE "closed"
<1>1. /\ alive /\ closing = "report" /\ at = "running" /\ closing' = "done" /\ state \in States
      /\ state' = After(state, outcome) /\ record' = state'
  BY DEF NInv, Report, Closes, ProcessType, transition
<1>2. After(state, outcome) \in {outcome, "failed"}
  BY <1>1, AfterFacts
<1>3. state' \in {"closed", "failed", "cleanup-failed"} /\ (state' = "closed" => ~broken)
  BY <1>1, <1>2
<1>4. ProcessType' /\ DiskType' /\ SweepType'
  BY <1>1, <1>3, StateNames DEF NInv, Report, ProcessType, DiskType, SweepType, notWindow, notSweep, Ending
<1>5. Dead' /\ Closes' /\ ToldTruth' /\ Cleaned'
  BY <1>1, <1>3 DEF NInv, Report, Dead, Closes, ToldTruth, Cleaned, Ending
<1>6. ClosedMeansClean'
  BY <1>1, <1>3 DEF NInv, Report, Cleaned, ClosedMeansClean
<1>7. Swept'
  BY <1>1 DEF NInv, Report, Swept, notSweep
<1> QED BY <1>4, <1>5, <1>6, <1>7 DEF NInv

-----------------------------------------------------------------------------
(* Requests of the window.                                                 *)

\* A request records a state past the attach only while nothing closes.
Told ==
  /\ alive /\ alive' = alive /\ closing' = closing
  /\ state' \in {state, "failed"} \cup Attached
  /\ state' \in Attached \ {state} => closing = "no" /\ isAttached'
  /\ state' \in {"claude-ready", "active"} => panel
  /\ isAttached => isAttached'
  /\ record' \in {record, state'} /\ (record' = record \/ state' # state \/ state # "closed")
  /\ isAttached' \in BOOLEAN /\ monitor' \in {monitor, "beaten"} /\ attached' \in {attached, "settled"}
  /\ late' \in SUBSET {"attach", "ready"} /\ touch' \in {touch, "read"}
  /\ window' \in {window, "joined"}
  /\ UNCHANGED <<at, gateway, server, broken, exiting, lock, settings, tools, token, missed, panel,
                 sweep, sweeps, failures>>

\* A request that comes during a close is recorded as failed at most.
LEMMA ToldStep ==
  ASSUME NInv, Told
  PROVE  NInv'
<1>1. ProcessType' /\ DiskType' /\ SweepType'
  BY StateNames DEF NInv, Told, ProcessType, DiskType, SweepType
<1>2. Dead' /\ Cleaned'
  BY DEF NInv, Told, Dead, Cleaned
<1>3. Closes' /\ ClosedMeansClean'
  BY DEF NInv, Told, Closes, ClosedMeansClean, Ending, Attached
<1>4. ToldTruth'
  BY DEF NInv, Told, ToldTruth, Attached
<1>5. Swept'
  BY DEF NInv, Told, Swept
<1> QED BY <1>1, <1>2, <1>3, <1>4, <1>5 DEF NInv

\* The requests of the window, and what their handlers do after their first await.
LEMMA RequestStep ==
  ASSUME NInv, Attach \/ AttachContinues \/ Heartbeat \/ ReadyContinues
  PROVE  NInv'
<1>0. /\ state \in States /\ isAttached \in BOOLEAN /\ late \in SUBSET {"attach", "ready"}
      /\ alive => /\ state \in Attached => isAttached
                  /\ state \in {"claude-ready", "active"} => panel
      /\ closing # "no" => state \in Ending
  BY DEF NInv, ProcessType, ToldTruth, Attached, Closes
<1>1. \A to \in Attached : closing # "no" => After(state, to) = "failed"
  BY <1>0, AfterFacts
<1>2. CASE Attach
  <2>1. After(state, "vscode-attached") \in {"vscode-attached", "failed"}
    BY <1>0, AfterFacts
  <2> QED BY <1>0, <1>1, <1>2, <2>1, ToldStep
       DEF Attach, transition, Told, Attached, served, notSweep
<1>3. CASE AttachContinues
  <2>1. /\ After(state, "claude-activating") \in {"claude-activating", "failed"}
        /\ After(state, "claude-activating") = "claude-activating" => state \in Attached
    BY <1>0, AfterFacts
  <2> QED BY <1>0, <1>1, <1>3, <2>1, ToldStep
       DEF AttachContinues, transition, Told, Attached, Unmoved, Beaten, notWindow, notSweep
<1>4. CASE Heartbeat
  <2>1. After(state, "claude-ready") \in {"claude-ready", "failed"}
    BY <1>0, AfterFacts
  <2> QED BY <1>0, <1>1, <1>4, <2>1, ToldStep
       DEF Heartbeat, Ready, transition, Told, Attached, Unmoved, Beaten, served, notWindow, notSweep
<1>5. CASE ReadyContinues
  <2>1. /\ After(state, "active") \in {"active", "failed"}
        /\ After(state, "active") = "active" => state \in {"claude-ready", "active"}
    BY <1>0, AfterFacts
  <2> QED BY <1>0, <1>1, <1>5, <2>1, ToldStep
       DEF ReadyContinues, transition, Told, Attached, Unmoved, notWindow, notSweep
<1> QED BY <1>2, <1>3, <1>4, <1>5

-----------------------------------------------------------------------------
(* The window by itself, the lock, and the sweep.                          *)

\* What the window does by itself touches neither process nor disk.
LEMMA WindowStep ==
  ASSUME NInv, JoinFails \/ PanelOpens \/ WindowVanishes
  PROVE  NInv'
<1>1. /\ UNCHANGED <<process, disk, touch, failures, sweep, sweeps>>
      /\ window' \in {window, "stray", "gone"} /\ panel' \in {panel, TRUE}
  BY DEF JoinFails, PanelOpens, WindowVanishes, notSweep
<1>2. UNCHANGED <<alive, at, state, gateway, server, isAttached, monitor, attached, late, closing,
                  broken, exiting, record, lock, settings, tools, token, missed>>
  BY <1>1 DEF process, disk
<1>3. ProcessType' /\ SweepType'
  BY <1>1, <1>2 DEF NInv, ProcessType, SweepType
<1>4. DiskType'
  BY <1>1, <1>2 DEF NInv, DiskType
<1>5. Dead' /\ Closes' /\ Cleaned' /\ ClosedMeansClean'
  BY <1>1, <1>2 DEF NInv, Dead, Closes, Cleaned, ClosedMeansClean
<1>6. ToldTruth'
  <2>1. panel => panel'
    BY <1>1
  <2> QED BY <1>2, <2>1 DEF NInv, ToldTruth
<1>7. Swept'
  BY <1>1, <1>2 DEF NInv, Swept, isTerminal
<1> QED BY <1>3, <1>4, <1>5, <1>6, <1>7 DEF NInv

\* Nobody rewrites the lock of a process that is gone.
LEMMA LockStep ==
  ASSUME NInv, KeepAlive \/ TouchLock \/ LockAges
  PROVE  NInv'
<1>1. /\ UNCHANGED <<process, record, settings, tools, token, missed, failures, window, panel, sweep,
                   sweeps>>
      /\ touch' \in {"idle", "read", "writing"} /\ lock' \in LockValues
      /\ ~alive => touch' = touch /\ (lock = "none" => lock' = "none")
  BY DEF NInv, ProcessType, DiskType, KeepAlive, TouchLock, LockAges, LockMoves, LockValues, notWindow, notSweep
<1>2. ProcessType' /\ DiskType' /\ SweepType'
  BY <1>1 DEF NInv, ProcessType, DiskType, SweepType, process
<1>3. Dead' /\ Closes' /\ Cleaned' /\ ClosedMeansClean'
  BY <1>1 DEF NInv, Dead, Closes, Cleaned, ClosedMeansClean, process
<1>4. ToldTruth' /\ Swept'
  BY <1>1 DEF NInv, ToldTruth, Swept, isTerminal, process
<1> QED BY <1>2, <1>3, <1>4 DEF NInv

\* A sweep takes away and marks, and leaves the process as it is.
LEMMA SweepMovesStep ==
  ASSUME NInv, SweepMoves, SweepType', Swept', lock' \in LockValues,
         touch' \in {touch, "idle"},
         record' \in {record, "orphaned"},
         settings' \in BOOLEAN, token' \in BOOLEAN, settings' => settings, token' => token,
         missed' \in SUBSET {"clear-settings", "flush-evidence", "mark"},
         "flush-evidence" \in missed => "flush-evidence" \in missed',
         settings' /\ "clear-settings" \in missed => "clear-settings" \in missed'
  PROVE  NInv'
<1>1. UNCHANGED <<alive, at, state, gateway, server, isAttached, monitor, attached, late, closing,
                  broken, exiting, tools, window, panel>>
  BY DEF SweepMoves, process, notWindow
<1>2. "orphaned" \in States
  BY StateNames
<1>3. ProcessType'
  BY <1>1 DEF NInv, ProcessType
<1>4. DiskType'
  BY <1>1, <1>2 DEF NInv, DiskType
<1>5. Dead' /\ Closes'
  BY <1>1 DEF NInv, ProcessType, Dead, Closes
<1>6. (~settings => ~settings') /\ (~token => ~token') /\ (record' = "closed" => record = "closed")
  OBVIOUS
<1>7. Cleaned'
  BY <1>1, <1>6 DEF NInv, Cleaned
<1>8. ToldTruth'
  BY <1>1 DEF NInv, ToldTruth
<1>9. ClosedMeansClean'
  BY <1>1, <1>6 DEF NInv, ClosedMeansClean
<1> QED BY <1>3, <1>4, <1>5, <1>7, <1>8, <1>9 DEF NInv

\* A step of a sweep that succeeded has taken away what it is for.
LEMMA SweepLemma ==
  ASSUME NInv, NEW step \in SweepSteps, NEW outcome \in Outcomes, SweepStep(step, outcome)
  PROVE  NInv'
<1> DEFINE next == CASE step = "clear-settings" -> "revoke-token"
                     [] step = "revoke-token"   -> "release-lock"
                     [] step = "release-lock"   -> IF sweep.failed \/ outcome = "threw" THEN "idle" ELSE "read"
<1>0. /\ sweep \in [at : {"idle", "lock", "read", "mark", "swept"} \cup SweepSteps,
                    seen : States \cup {"none"}, living : BOOLEAN, failed : BOOLEAN]
      /\ settings \in BOOLEAN /\ token \in BOOLEAN /\ lock \in LockValues
      /\ missed \in SUBSET {"clear-settings", "flush-evidence", "mark"}
      /\ failures \in 0..MaxFailures /\ sweeps \in 0..MaxSweeps
  BY DEF NInv, SweepType, DiskType
<1>1. /\ sweep' \in [at : {"idle", "lock", "read", "mark", "swept"} \cup SweepSteps,
                     seen : States \cup {"none"}, living : BOOLEAN, failed : BOOLEAN]
      /\ sweep'.at = next
      /\ next # "idle" => sweep'.living = sweep.living
      /\ next \in SweepSteps => sweep'.failed = (sweep.failed \/ outcome = "threw")
      /\ next = "read" => outcome # "threw" /\ ~sweep.failed /\ ~sweep'.failed
  <2>1. CASE step = "release-lock" /\ (sweep.failed \/ outcome = "threw")
    BY <1>0, <2>1 DEF SweepStep, NoSweep, SweepSteps
  <2>2. CASE step = "release-lock" /\ ~(sweep.failed \/ outcome = "threw")
    BY <1>0, <2>2 DEF SweepStep, SweepSteps
  <2>3. CASE step \in {"clear-settings", "revoke-token"}
    <3>1. Following(step) = next /\ next \in SweepSteps
      BY <2>3 DEF Following, SweepSteps
    <3>2. sweep' = [sweep EXCEPT !.at = Following(step), !.failed = sweep.failed \/ outcome = "threw"]
      BY <2>3 DEF SweepStep
    <3> QED BY <1>0, <2>3, <3>1, <3>2 DEF SweepSteps
  <2> QED BY <2>1, <2>2, <2>3 DEF SweepSteps
<1>2. SweepType'
  BY <1>0, <1>1, BoundsAssumption DEF SweepStep, Counted, SweepType
<1>3. /\ sweep.at = step /\ SweepMoves /\ record' = record
      /\ settings' = (settings /\ ~(step = "clear-settings" /\ outcome = "done"))
      /\ token' = (token /\ ~(step = "revoke-token" /\ outcome = "done"))
      /\ lock' = IF step = "release-lock" /\ outcome = "done" THEN "none" ELSE lock
      /\ outcome = "missed" => step \in MayMiss
      /\ step \in {"revoke-token", "release-lock"} => outcome # "missed"
      /\ touch' \in {touch, "idle"}
  BY DEF SweepStep, MayMiss
<1>4. UNCHANGED <<alive, at>>
  BY <1>3 DEF SweepMoves, process
<1>8. /\ missed' \in SUBSET {"clear-settings", "flush-evidence", "mark"}
      /\ missed \ {step} \subseteq missed'
      /\ outcome = "missed" => step \in missed'
      /\ outcome # "done" => missed \subseteq missed'
  BY <1>0, <1>3, MissedFacts DEF SweepStep
<1>5. Swept'
  BY <1>0, <1>1, <1>3, <1>4, <1>8 DEF NInv, Swept, SweepSteps, Outcomes
<1>6. lock' \in LockValues /\ settings' \in BOOLEAN /\ token' \in BOOLEAN /\ (settings' => settings) /\ (token' => token)
  BY <1>0, <1>3 DEF LockValues
<1>7. /\ "flush-evidence" \in missed => "flush-evidence" \in missed'
      /\ settings' /\ "clear-settings" \in missed => "clear-settings" \in missed'
  BY <1>3, <1>8 DEF SweepSteps
<1> QED BY <1>2, <1>3, <1>5, <1>6, <1>7, <1>8, SweepMovesStep

\* The rest of a sweep: what it reads, and what it says at the end.
LEMMA SweepReads ==
  ASSUME NInv, \/ DiscoverRecord \/ DiscoverLock \/ ReadAgain \/ SweepEnds
               \/ \E outcome \in Outcomes : MarkRecovered(outcome)
  PROVE  NInv'
<1>0. /\ sweep \in [at : {"idle", "lock", "read", "mark", "swept"} \cup SweepSteps,
                    seen : States \cup {"none"}, living : BOOLEAN, failed : BOOLEAN]
      /\ failures \in 0..MaxFailures /\ sweeps \in 0..MaxSweeps
      /\ record \in States \cup {"none"} /\ alive \in BOOLEAN /\ lock \in LockValues
      /\ settings \in BOOLEAN /\ token \in BOOLEAN
      /\ missed \in SUBSET {"clear-settings", "flush-evidence", "mark"}
      /\ (alive <=> at \in Starting \cup {"running"})
  BY DEF NInv, SweepType, DiskType, ProcessType, Dead
<1>1. SweepMoves /\ UNCHANGED <<settings, token, lock, touch>> /\ record' \in {record, "orphaned"}
      /\ missed' \in {missed, missed \ {"mark"}, missed \cup {"mark"}}
  BY DEF DiscoverRecord, DiscoverLock, ReadAgain, MarkRecovered, SweepEnds, disk
<1>2. UNCHANGED <<alive, at>>
  BY <1>1 DEF SweepMoves, process
<1>3. SweepType' /\ Swept'
  <2>1. CASE DiscoverRecord
    <3>1. sweep' = [at |-> "lock", seen |-> record, living |-> FALSE, failed |-> FALSE] /\ at # "unborn"
      BY <2>1 DEF DiscoverRecord, NoSweep
    <3>2. sweeps' \in 0..MaxSweeps /\ failures' = failures
      BY <1>0, <2>1, BoundsAssumption DEF DiscoverRecord
    <3> QED BY <1>0, <1>2, <3>1, <3>2 DEF SweepType, Swept, SweepSteps
  <2>2. CASE DiscoverLock
    <3>1. /\ sweep' \in {NoSweep, [at |-> "clear-settings", seen |-> "none", living |-> alive, failed |-> FALSE]}
          /\ sweep.at = "lock" /\ UNCHANGED <<sweeps, failures>>
      BY <2>2 DEF DiscoverLock, NoSweep
    <3>2. at # "unborn"
      BY <3>1 DEF NInv, Swept
    <3>3. CASE sweep' = NoSweep
      BY <1>0, <3>1, <3>3 DEF SweepType, Swept, SweepSteps, NoSweep
    <3>4. CASE sweep' = [at |-> "clear-settings", seen |-> "none", living |-> alive, failed |-> FALSE]
      BY <1>0, <1>2, <3>1, <3>2, <3>4 DEF SweepType, Swept, SweepSteps
    <3> QED BY <3>1, <3>3, <3>4
  <2>3. CASE ReadAgain
    <3>1. /\ sweep' = [sweep EXCEPT !.at = IF record = "none" \/ isTerminal(record) THEN "swept" ELSE "mark"]
          /\ sweep.at = "read" /\ UNCHANGED <<record, missed, sweeps, failures>>
      BY <2>3 DEF ReadAgain, disk
    <3> QED BY <1>0, <1>1, <1>2, <3>1 DEF NInv, SweepType, Swept, SweepSteps, isTerminal
  <2>4. ASSUME NEW outcome \in Outcomes, MarkRecovered(outcome) PROVE SweepType' /\ Swept'
    <3>1. /\ sweep' = [sweep EXCEPT !.at = "swept"] /\ sweep.at = "mark" /\ sweeps' = sweeps
          /\ missed' \in {missed \ {"mark"}, missed \cup {"mark"}}
          /\ record' = "orphaned" \/ "mark" \in missed'
      BY <2>4 DEF MarkRecovered
    <3>2. failures' \in 0..MaxFailures
      BY <1>0, <2>4, BoundsAssumption DEF MarkRecovered, Counted
    <3> QED BY <1>0, <1>1, <1>2, <3>1, <3>2 DEF NInv, SweepType, Swept, SweepSteps, isTerminal, Terminal
  <2>5. CASE SweepEnds
    <3>1. sweep' = NoSweep /\ sweep.at = "swept" /\ UNCHANGED <<sweeps, failures>>
      BY <2>5 DEF SweepEnds
    <3> QED BY <1>0, <1>2, <3>1 DEF SweepType, Swept, SweepSteps, NoSweep
  <2> QED BY <2>1, <2>2, <2>3, <2>4, <2>5
<1> QED BY <1>0, <1>1, <1>3, SweepMovesStep

-----------------------------------------------------------------------------
\* The invariant of a session, however often it is swept and whatever fails.
THEOREM SessionInvariant == Spec => []NInv
<1>1. Init => NInv
  <2> SUFFICES ASSUME Init PROVE NInv
    OBVIOUS
  <2>1. ProcessType /\ DiskType
    BY StateNames DEF Init, ProcessType, DiskType, LockValues
  <2>2. SweepType /\ Swept
    BY BoundsAssumption DEF Init, NoSweep, SweepType, Swept, SweepSteps
  <2>3. Dead /\ Closes /\ ToldTruth /\ ClosedMeansClean /\ Cleaned
    BY DEF Init, Dead, Starting, Closes, ToldTruth, ClosedMeansClean, Cleaned
  <2> QED BY <2>1, <2>2, <2>3 DEF NInv
<1>2. NInv /\ [Next]_vars => NInv'
  <2> SUFFICES ASSUME NInv, [Next]_vars PROVE NInv'
    OBVIOUS
  <2>1. CASE Spawn \/ Start
    BY <2>1, SpawnStep, StartStep
  <2>2. CASE Cleanup
    BY <2>2, CleanupLemma, ReportStep DEF Cleanup
  <2>3. CASE HeartbeatExpires \/ AttachTimeout \/ Signal \/ Detach \/ Stop \/ Leave \/ Die
    BY <2>3, CloseStep, EndStep DEF EndOfProcess
  <2>4. CASE Attach \/ AttachContinues \/ Heartbeat \/ ReadyContinues
    BY <2>4, RequestStep
  <2>5. CASE JoinFails \/ PanelOpens \/ WindowVanishes \/ KeepAlive \/ TouchLock \/ LockAges
    BY <2>5, WindowStep, LockStep
  <2>6. CASE \/ DiscoverRecord \/ DiscoverLock \/ ReadAgain \/ SweepEnds
             \/ \E outcome \in Outcomes :
                  MarkRecovered(outcome) \/ \E step \in SweepSteps : SweepStep(step, outcome)
    BY <2>6, SweepLemma, SweepReads
  <2>7. CASE UNCHANGED vars
    <3>1. ProcessType' /\ DiskType' /\ SweepType'
      BY <2>7 DEF NInv, vars, process, disk, ProcessType, DiskType, SweepType
    <3>2. Dead' /\ Closes' /\ ToldTruth' /\ ClosedMeansClean' /\ Cleaned' /\ Swept'
      BY <2>7 DEF NInv, vars, process, disk, Dead, Closes, ToldTruth, ClosedMeansClean, Cleaned, Swept
    <3> QED BY <3>1, <3>2 DEF NInv
  <2> QED BY <2>1, <2>2, <2>3, <2>4, <2>5, <2>6, <2>7 DEF Next
<1> QED BY <1>1, <1>2, PTL DEF Spec

\* Every variable keeps its type, also after an illegal transition, which the
\* recorder takes for a failure (lifecycle.ts:88-95).
THEOREM SessionTypeCorrect == Spec => []TypeOK
<1>1. NInv => TypeOK
  BY DEF NInv, ProcessType, DiskType, SweepType, TypeOK
<1> QED BY <1>1, SessionInvariant, PTL

\* A record that says closed is about a session that left nothing behind
\* (native-session.ts:407-421).
THEOREM SessionClosedMeansClean == Spec => []ClosedMeansClean
<1>1. NInv => ClosedMeansClean
  BY DEF NInv
<1> QED BY <1>1, SessionInvariant, PTL

\* Ready and active are told only of a window that attached and saw the panel
\* open (lifecycle.ts:4-5).
THEOREM SessionToldTruth == Spec => []ToldTruth
<1>1. NInv => ToldTruth
  BY DEF NInv
<1> QED BY <1>1, SessionInvariant, PTL

\* A sweep that succeeded over a dead owner leaves nothing to sweep (recovery.ts:128).
THEOREM SessionSweptMeansClean == Spec => []SweptMeansClean
<1>1. NInv => SweptMeansClean
  BY DEF NInv, Swept, SweptMeansClean
<1> QED BY <1>1, SessionInvariant, PTL

\* Once a close has begun no late handler brings the session back (lifecycle.ts:88-95).
THEOREM SessionNeverBack == Spec => NeverBack
<1>1. NInv /\ NInv' /\ [Next]_vars =>
        [closing # "no" /\ alive' => state' \in {"closing", "closed", "failed", "cleanup-failed"}]_vars
  <2> SUFFICES ASSUME NInv, NInv', Next, closing # "no", alive' PROVE state' \in Ending
    BY DEF Ending
  <2>1. alive /\ at = "running"
    BY DEF NInv, Closes, Dead
  <2>2. CASE Spawn \/ Start
    BY <2>1, <2>2
    DEF Spawn, Start, Prepare, StartGateway, GatewayReady, Provision, InstallExtension, RefuseStart,
        ApplySettings, RegisterTools, WriteToken, StartAttachServer, PublishEndpoint, WriteLock,
        LaunchWindow, AwaitAttach, Return, Step, Quietly
  <2>3. CASE Cleanup
    <3>1. closing' # "no"
      BY <2>3 DEF Cleanup, CleanupStep, Report, CleanupSteps, Following
    <3> QED BY <3>1 DEF NInv, Closes
  <2>4. CASE HeartbeatExpires \/ AttachTimeout \/ Signal \/ Detach \/ Stop \/ Leave \/ Die
    <3>1. closing' = closing
      BY <2>1, <2>4 DEF HeartbeatExpires, AttachTimeout, Signal, Detach, Stop, Leave, Die, Close, BeginClose, Exit
    <3> QED BY <3>1 DEF NInv, Closes
  <2>5. CASE \/ Attach \/ JoinFails \/ AttachContinues \/ PanelOpens \/ Heartbeat \/ ReadyContinues
             \/ WindowVanishes
    <3>1. closing' = closing
      BY <2>5 DEF Attach, JoinFails, AttachContinues, PanelOpens, Heartbeat, ReadyContinues, WindowVanishes, process
    <3> QED BY <3>1 DEF NInv, Closes
  <2>6. CASE \/ KeepAlive \/ TouchLock \/ LockAges
             \/ DiscoverRecord \/ DiscoverLock \/ ReadAgain \/ SweepEnds
             \/ \E outcome \in Outcomes :
                  MarkRecovered(outcome) \/ \E step \in SweepSteps : SweepStep(step, outcome)
    <3>1. closing' = closing
      BY <2>6 DEF KeepAlive, TouchLock, LockAges, LockMoves, DiscoverRecord, DiscoverLock, ReadAgain,
                  MarkRecovered, SweepEnds, SweepStep, SweepMoves, process
    <3> QED BY <3>1 DEF NInv, Closes
  <2> QED BY <2>2, <2>3, <2>4, <2>5, <2>6 DEF Next
<1> QED BY <1>1, SessionInvariant, PTL DEF Spec, NeverBack
=============================================================================
