---------------------------- MODULE NativeSession ----------------------------
(***************************************************************************)
(* One Native GUI session of the context gateway                           *)
(* (packages/context-gateway/src/native): the detached broker process that *)
(* owns the gateway, the isolated VS Code window that attaches to it, the  *)
(* lock and the public record on disk, and the recovery sweep another      *)
(* window may run at any time.                                             *)
(*                                                                         *)
(* at walks startNativeClaudeGuiSession from await to await; closing walks *)
(* the steps of cleanupSession; sweep those of recoverStaleSessions.       *)
(* recorder.transition is one step: it assigns the state at once and       *)
(* writes the record after two awaits, and the record is written by nobody *)
(* else while the process lives, but for markRecovered.                    *)
(***************************************************************************)
EXTENDS Naturals, FiniteSets

CONSTANTS
    MaxSweeps,    \* recovery sweeps a run may start
    MaxFailures,  \* cleanup steps that may fail, in the process and in sweeps
    WithTools     \* retrieval is offered: the MCP server is registered

ASSUME BoundsAssumption == MaxSweeps \in Nat /\ MaxFailures \in Nat /\ WithTools \in BOOLEAN

VARIABLES
    alive,     \* the broker process runs
    at,        \* where its start is
    state,     \* LifecycleRecorder.current
    record,    \* the state in session.json, "none" before the first persist
    lock,      \* lock.json: "none", "fresh", "old", or "torn" while it is rewritten
    settings,  \* the isolated profile's settings hold the managed endpoint
    tools,     \* .mcp.json of the prepared workspace names this session's server
    token,     \* private/bootstrap-token exists
    missed,    \* history: cleanup steps that last answered ok and had done nothing
    gateway,   \* the gateway listens
    server,    \* the attach server listens
    isAttached,\* the attach server's flag
    window,    \* the isolated window
    panel,     \* the window saw the official panel open
    monitor,   \* the heartbeat monitor: "off", "armed" (never beaten), "beaten", "disposed"
    attached,  \* the promise the broker waits for: "pending" or "settled"
    late,      \* what handlers still have to do after their first await
    touch,     \* a rewrite of the lock, by the broker's timer or a heartbeat: idle, read, writing
    closing,   \* "no", the cleanup step under way, or "done"
    broken,    \* a step of this cleanup failed
    exiting,   \* SIGTERM or SIGINT was seen
    sweep,     \* the recovery sweep
    sweeps, failures  \* how many sweeps and failures happened

process == <<alive, at, state, gateway, server, isAttached, monitor, attached, late, closing, broken, exiting>>
disk    == <<record, lock, settings, tools, token, missed>>
vars    == <<process, disk, window, panel, touch, sweep, sweeps, failures>>

(***************************************************************************)
(* The lifecycle.                                                          *)
(***************************************************************************)
Terminal == {"closed", "failed", "orphaned", "cleanup-failed"}

States == {"created", "preparing", "prepared", "gateway-starting", "gateway-ready",
           "profile-provisioning", "extension-installing", "vscode-launching", "vscode-started",
           "vscode-attaching", "vscode-attached", "claude-activating", "claude-ready", "active",
           "closing"} \cup Terminal

Forward ==
    { <<"created", "preparing">>, <<"created", "prepared">>, <<"preparing", "prepared">>,
      <<"prepared", "gateway-starting">>, <<"gateway-starting", "gateway-ready">>,
      <<"gateway-ready", "profile-provisioning">>,
      <<"profile-provisioning", "extension-installing">>,
      <<"profile-provisioning", "vscode-launching">>,
      <<"extension-installing", "vscode-launching">>, <<"vscode-launching", "vscode-started">>,
      <<"vscode-started", "vscode-attaching">>, <<"vscode-attaching", "vscode-attached">>,
      <<"vscode-attached", "claude-activating">>, <<"claude-activating", "claude-ready">>,
      <<"claude-ready", "active">>,
      <<"closing", "closed">>, <<"closing", "cleanup-failed">>, <<"failed", "closed">>,
      <<"orphaned", "closed">>, <<"orphaned", "cleanup-failed">>, <<"cleanup-failed", "closed">> }

Launched == {"vscode-started", "vscode-attaching", "vscode-attached", "claude-activating",
             "claude-ready", "active"}

\* Every live state may fail or close.
canTransition(from, to) ==
    \/ <<from, to>> \in Forward
    \/ to = "failed" /\ from \notin Terminal \cup {"closing"}
    \/ to = "closing" /\ from \notin {"closing", "closed"}
    \/ to = "orphaned" /\ from \in Launched

\* Mutants: an illegal transition is recorded under a name of its own, or is simply taken.
AfterUnknown(from, to) == IF from = to \/ canTransition(from, to) THEN to ELSE "illegal"
AfterUnchecked(from, to) == to

\* An illegal transition is recorded as failed.
After(from, to) == IF from = to \/ canTransition(from, to) THEN to ELSE "failed"

transition(to) == /\ state' = After(state, to)
                  /\ record' = After(state, to)

isTerminal(s) == s \in Terminal

(***************************************************************************)
(* The lock, and what a sweep makes of record and lock.                    *)
(***************************************************************************)
LockValues == {"none", "fresh", "old", "torn"}

\* A torn file does not parse: readLock returns undefined, as for a missing one.
Verdict(l, living) ==
    IF l \in {"none", "torn"} THEN "free"
    ELSE IF living /\ l = "fresh" THEN "held" ELSE "stale"

Health(r, l, verdict) ==
    IF r = "none" /\ verdict = "free" THEN "unreadable"
    ELSE IF r # "none" /\ isTerminal(r) /\ verdict # "held" THEN "finished"
    ELSE IF verdict = "held" THEN "live"
    ELSE IF verdict = "stale" THEN "stale"
    ELSE IF r # "none" /\ ~isTerminal(r) THEN "stale" ELSE "finished"

(***************************************************************************)
(* Cleanup: every step is tried, in this order.                            *)
(***************************************************************************)
CleanupSteps == {"stop-heartbeat", "stop-attach-server", "flush-evidence", "close-gateway",
                 "clear-settings", "revoke-token", "release-lock"}
\* Mutant: the token is not revoked.
FollowingKeepsToken(step) ==
    CASE step = "clear-settings" -> "release-lock"
      [] step = "stop-heartbeat" -> "stop-attach-server"
      [] step = "stop-attach-server" -> "flush-evidence"
      [] step = "flush-evidence" -> "close-gateway"
      [] step = "close-gateway" -> "clear-settings"
      [] OTHER -> "report"
Following(step) == CASE step = "stop-heartbeat"     -> "stop-attach-server"
                     [] step = "stop-attach-server" -> "flush-evidence"
                     [] step = "flush-evidence"     -> "close-gateway"
                     [] step = "close-gateway"      -> "clear-settings"
                     [] step = "clear-settings"     -> "revoke-token"
                     [] step = "revoke-token"       -> "release-lock"
                     [] step = "release-lock"       -> "report"
MayFail == {"flush-evidence", "close-gateway", "clear-settings", "revoke-token", "release-lock"}

\* Two steps take an entry out of a JSON file. One that cannot be read or parsed is taken for
\* one without the entry: the step answers ok, and the entry stays.
MayMiss == { step \in {"clear-settings", "flush-evidence"} :
               IF step = "clear-settings" THEN settings ELSE tools }

Outcomes == {"done", "missed", "threw"}

MissedAfter(step, outcome) ==
    CASE outcome = "done"   -> missed \ {step}
      [] outcome = "missed" -> missed \cup {step}
      [] outcome = "threw"  -> missed

\* A failure is a step that throws or that misses its entry.
Counted(outcome) ==
    /\ outcome # "done" => failures < MaxFailures
    /\ failures' = IF outcome = "done" THEN failures ELSE failures + 1

Starting == {"tree", "prepared", "gateway-starting", "gateway-ready", "provisioning", "installing",
             "settings", "tools", "token", "server", "endpoint", "locked", "launching", "launched",
             "attaching"}
SweepSteps == {"clear-settings", "revoke-token", "release-lock"}

NoSweep == [at |-> "idle", seen |-> "none", living |-> FALSE, failed |-> FALSE]

Init ==
    /\ alive = FALSE /\ at = "unborn" /\ state = "created" /\ record = "none" /\ lock = "none"
    /\ settings = FALSE /\ tools = FALSE /\ token = FALSE /\ missed = {}
    /\ gateway = FALSE /\ server = FALSE /\ isAttached = FALSE /\ window = "none" /\ panel = FALSE /\ monitor = "off"
    /\ attached = "pending" /\ late = {} /\ touch = "idle"
    /\ closing = "no" /\ broken = FALSE /\ exiting = FALSE
    /\ sweep = NoSweep
    /\ sweeps = 0 /\ failures = 0

(***************************************************************************)
(* The broker process: startNativeClaudeGuiSession.                        *)
(***************************************************************************)
notWindow  == UNCHANGED <<window, panel>>
notSweep   == UNCHANGED <<sweep, sweeps>>
notRunning == UNCHANGED <<isAttached, monitor, attached, late, closing, broken, exiting, touch>>

\* The process ends: its sockets close with it, its memory and its pending writes are lost.
Exit ==
    /\ alive' = FALSE /\ gateway' = FALSE /\ server' = FALSE
    /\ at' = "ended" /\ state' = "created" /\ isAttached' = FALSE /\ monitor' = "off"
    /\ attached' = "pending" /\ late' = {} /\ touch' = "idle"
    /\ closing' = "no" /\ broken' = FALSE /\ exiting' = FALSE

\* The window spawns the broker; it creates the session's directories.
Spawn ==
    /\ at = "unborn"
    /\ at' = "tree" /\ alive' = TRUE
    /\ UNCHANGED <<state, disk, gateway, server, failures>> /\ notWindow /\ notSweep /\ notRunning

\* One await of the start: it goes on from one place to the next and records a state.
Step(from, to, recorded) ==
    /\ alive /\ at = from /\ at' = to
    /\ transition(recorded)
    /\ UNCHANGED <<alive, missed, failures>> /\ notSweep

Prepare == /\ Step("tree", "prepared", "prepared")
           /\ UNCHANGED <<lock, settings, tools, token, gateway, server>> /\ notWindow /\ notRunning

StartGateway ==
    /\ Step("prepared", "gateway-starting", "gateway-starting")
    /\ UNCHANGED <<lock, settings, tools, token, gateway, server>> /\ notWindow /\ notRunning

GatewayReady ==
    /\ Step("gateway-starting", "gateway-ready", "gateway-ready")
    /\ gateway' = TRUE
    /\ UNCHANGED <<lock, settings, tools, token, server>> /\ notWindow /\ notRunning

Provision ==
    /\ Step("gateway-ready", "provisioning", "profile-provisioning")
    /\ UNCHANGED <<lock, settings, tools, token, gateway, server>> /\ notWindow /\ notRunning

\* The official extension, Yuhi's own, or both: minutes, on a first run.
InstallExtension ==
    /\ Step("provisioning", "installing", "extension-installing")
    /\ UNCHANGED <<lock, settings, tools, token, gateway, server>> /\ notWindow /\ notRunning

\* No VS Code, no gateway, or no usable extension: what runs is closed and the start throws.
RefuseStart ==
    /\ alive /\ at \in {"prepared", "gateway-starting", "provisioning", "installing"}
    /\ record' = After(state, "failed") /\ Exit
    /\ UNCHANGED <<lock, settings, tools, token, missed, failures>>
    /\ notWindow /\ notSweep

\* Parts of the start that record nothing.
Quietly(from, to) ==
    /\ alive /\ at \in from /\ at' = to
    /\ UNCHANGED <<alive, state, record, missed, gateway, failures>>
    /\ notWindow /\ notSweep /\ notRunning

ApplySettings ==
    /\ Quietly({"provisioning", "installing"}, "settings")
    /\ settings' = TRUE
    /\ UNCHANGED <<lock, tools, token, server>>

RegisterTools ==
    /\ Quietly({"settings"}, "tools")
    /\ tools' = WithTools
    /\ UNCHANGED <<lock, settings, token, server>>

WriteToken ==
    /\ Quietly({"tools"}, "token")
    /\ token' = TRUE
    /\ UNCHANGED <<lock, settings, tools, server>>

StartAttachServer ==
    /\ Quietly({"token"}, "server")
    /\ server' = TRUE
    /\ UNCHANGED <<lock, settings, tools, token>>

\* The settings again, now with the control URL, and attach-endpoint.json.
PublishEndpoint ==
    /\ Quietly({"server"}, "endpoint")
    /\ settings' = TRUE
    /\ UNCHANGED <<lock, tools, token, server>>

\* The first moment at which a sweep can see that somebody owns this session.
WriteLock ==
    /\ Quietly({"endpoint"}, "locked")
    /\ lock' = "fresh"
    /\ UNCHANGED <<settings, tools, token, server>>

LaunchWindow ==
    /\ \/ Step("locked", "launching", "vscode-launching") /\ UNCHANGED window
       \/ Step("launching", "launched", "vscode-started") /\ window' = "opening"
    /\ UNCHANGED <<panel, lock, settings, tools, token, gateway, server>> /\ notRunning

AwaitAttach ==
    /\ Step("launched", "attaching", "vscode-attaching")
    /\ UNCHANGED <<lock, settings, tools, token, gateway, server>> /\ notWindow /\ notRunning

\* The attach timer and the monitor are set up, closing is initialised, the broker is told.
Return ==
    /\ alive /\ at = "attaching"
    /\ at' = "running" /\ monitor' = "armed"
    /\ UNCHANGED <<alive, state, disk, gateway, server, isAttached, attached, late, touch, closing,
                   broken, exiting, failures>>
    /\ notWindow /\ notSweep

(***************************************************************************)
(* Closing.                                                                *)
(***************************************************************************)

BeginClose ==
    IF closing = "no" THEN closing' = "stop-heartbeat" /\ transition("closing")
                      ELSE UNCHANGED <<closing, state, record>>

\* What close() does before its first await. Before the start has returned its variable
\* "closing" is not initialised: the call throws and nobody catches it, so the process ends.
Close ==
    IF at = "running"
    THEN BeginClose /\ UNCHANGED <<alive, at, gateway, server, attached, late, touch, broken, exiting>>
    ELSE Exit /\ UNCHANGED record

CleanupStep(step, outcome) ==
    /\ alive /\ closing = step /\ closing' = Following(step)
    /\ outcome = "threw" => step \in MayFail
    /\ outcome = "missed" => step \in MayMiss
    /\ Counted(outcome) /\ missed' = MissedAfter(step, outcome)
    /\ broken' = (broken \/ outcome = "threw")
    /\ monitor' = IF step = "stop-heartbeat" THEN "disposed" ELSE monitor
    /\ server' = (server /\ step # "stop-attach-server")
    /\ tools' = (tools /\ ~(step = "flush-evidence" /\ outcome = "done"))
    /\ gateway' = (gateway /\ ~(step = "close-gateway" /\ outcome = "done"))
    /\ settings' = (settings /\ ~(step = "clear-settings" /\ outcome = "done"))
    /\ token' = (token /\ ~(step = "revoke-token" /\ outcome = "done"))
    /\ lock' = IF step = "release-lock" /\ outcome = "done" THEN "none" ELSE lock
    \* A rewrite under way goes on in the file that was unlinked.
    /\ touch' = IF step = "release-lock" /\ outcome = "done" /\ touch = "writing"
                   THEN "idle" ELSE touch
    /\ UNCHANGED <<alive, at, state, record, isAttached, attached, late, exiting>>
    /\ notWindow /\ notSweep

\* Mutant: the outcome is "closed" whatever the steps answered.
ReportClosed ==
    /\ alive /\ closing = "report" /\ closing' = "done"
    /\ transition("closed")
    /\ UNCHANGED <<alive, at, gateway, server, isAttached, monitor, attached, late, broken, exiting,
                   lock, settings, tools, token, missed, touch, failures>>
    /\ notWindow /\ notSweep

\* The outcome is recorded: every step succeeded, or not.
Report ==
    /\ alive /\ closing = "report" /\ closing' = "done"
    /\ transition(IF broken THEN "cleanup-failed" ELSE "closed")
    /\ UNCHANGED <<alive, at, gateway, server, isAttached, monitor, attached, late, broken, exiting,
                   lock, settings, tools, token, missed, touch, failures>>
    /\ notWindow /\ notSweep

Unmoved == UNCHANGED <<lock, settings, tools, token, missed, failures>> /\ notWindow /\ notSweep

\* A beat was seen once and not again for HEARTBEAT_TIMEOUT_MS.
HeartbeatExpires ==
    /\ alive /\ at = "running" /\ monitor = "beaten" /\ monitor' = "disposed"
    /\ Close /\ UNCHANGED isAttached /\ Unmoved

\* Mutant: the timer only rejects the promise.
TimeoutOnlyTells ==
    /\ alive /\ at = "running" /\ attached = "pending" /\ ~isAttached
    /\ attached' = "settled"
    /\ UNCHANGED <<alive, at, state, record, gateway, server, isAttached, monitor, late, touch,
                   closing, broken, exiting>>
    /\ Unmoved

\* ATTACH_TIMEOUT_MS after the launch; a window that is attached by then is left alone.
AttachTimeout ==
    /\ alive /\ at = "running" /\ attached = "pending" /\ ~isAttached
    /\ attached' = "settled" /\ BeginClose
    /\ UNCHANGED <<alive, at, gateway, server, isAttached, monitor, late, touch, broken, exiting>>
    /\ Unmoved

\* SIGTERM or SIGINT, handled once the start has returned.
Signal ==
    /\ alive /\ at = "running" /\ ~exiting /\ exiting' = TRUE /\ BeginClose
    /\ UNCHANGED <<alive, at, gateway, server, isAttached, monitor, attached, late, touch, broken>>
    /\ Unmoved

\* Mutant: the poll does not know of a cleanup that failed.
FinalIfClean == {"closed", "failed"}
FinalStates == {"closed", "failed", "cleanup-failed"}

\* The broker ends after a signal, or when its poll reads a final state, and cleans nothing.
Leave ==
    /\ alive /\ at = "running"
    /\ \/ exiting /\ closing = "done"
       \/ attached = "settled" /\ state \in FinalStates
    /\ Exit /\ UNCHANGED record /\ Unmoved

\* A crash, a kill, or an error of the start that nothing catches.
Die == alive /\ Exit /\ UNCHANGED record /\ Unmoved

(***************************************************************************)
(* The window, and the requests it and the originating window make.        *)
(***************************************************************************)
served == alive /\ server

\* joinNativeSession reads the control URL, which no cleanup takes out of the settings, and the
\* token from disk.
Attach ==
    /\ window = "opening" /\ served /\ token /\ ~isAttached
    /\ window' = "joined" /\ isAttached' = TRUE /\ late' = late \cup {"attach"}
    /\ transition("vscode-attached")
    /\ UNCHANGED <<alive, at, gateway, server, monitor, attached, closing, broken, exiting,
                   lock, settings, tools, token, missed, panel, touch, failures>> /\ notSweep

\* Settings or a token that cannot be read, nobody to ask, a request that fails: this window
\* never attaches.
JoinFails ==
    /\ window = "opening" /\ window' = "stray"
    /\ UNCHANGED <<process, disk, panel, touch, failures>> /\ notSweep

Beaten == IF monitor \in {"armed", "beaten"} THEN "beaten" ELSE monitor

\* onAttach after its first await.
AttachContinues ==
    /\ alive /\ "attach" \in late /\ late' = late \ {"attach"}
    /\ monitor' = Beaten /\ attached' = "settled"
    /\ transition("claude-activating")
    /\ UNCHANGED <<alive, at, gateway, server, isAttached, closing, broken, exiting, touch>>
    /\ Unmoved

PanelOpens ==
    /\ window = "joined" /\ ~panel /\ panel' = TRUE
    /\ UNCHANGED <<process, disk, window, touch, failures>> /\ notSweep

\* Mutant: any heartbeat makes the session ready.
ReadyUntold == state = "claude-activating"

\* The window reports that the official panel is open while the session waits for it.
Ready == panel /\ state = "claude-activating"

Heartbeat ==
    /\ window = "joined" /\ served
    /\ monitor' = Beaten
    /\ touch' = IF touch = "idle" /\ lock \notin {"none", "torn"} THEN "read" ELSE touch
    /\ IF Ready
         THEN transition("claude-ready") /\ late' = late \cup {"ready"}
         ELSE UNCHANGED <<state, record, late>>
    /\ UNCHANGED <<alive, at, gateway, server, isAttached, attached, closing, broken, exiting>>
    /\ Unmoved

\* onHeartbeat after its first await.
ReadyContinues ==
    /\ alive /\ "ready" \in late /\ late' = late \ {"ready"}
    /\ transition("active")
    /\ UNCHANGED <<alive, at, gateway, server, isAttached, monitor, attached, closing, broken,
                   exiting, touch>>
    /\ Unmoved

\* The window is closed and says so, if anyone listens.
Detach ==
    /\ window = "joined" /\ served /\ window' = "gone"
    /\ isAttached' = FALSE /\ Close /\ (at = "running" => UNCHANGED monitor)
    /\ UNCHANGED <<lock, settings, tools, token, missed, panel, failures>> /\ notSweep

\* The window goes without a word.
WindowVanishes ==
    /\ window \in {"opening", "joined"} /\ window' = "gone"
    /\ UNCHANGED <<process, disk, panel, touch, failures>> /\ notSweep

\* The stop command of the originating window: it needs the token and the endpoint file.
Stop ==
    /\ served /\ token /\ at \notin {"server"}
    /\ Close /\ (at = "running" => UNCHANGED <<isAttached, monitor>>) /\ Unmoved

(***************************************************************************)
(* The lock is rewritten in place by the broker's timer and by heartbeats; *)
(* one rewrite is followed at a time, another adds no new content.         *)
(***************************************************************************)
LockMoves == /\ UNCHANGED <<process, record, settings, tools, token, missed, failures>>
             /\ notWindow /\ notSweep

KeepAlive ==
    /\ alive /\ at = "running" /\ ~exiting /\ touch = "idle" /\ lock \notin {"none", "torn"}
    /\ touch' = "read"
    /\ UNCHANGED lock /\ LockMoves

\* touchLock: writeFile truncates the file, creating it if it is gone, and then fills it.
TouchLock ==
    /\ alive
    /\ \/ touch = "read" /\ touch' = "writing" /\ lock' = "torn"
       \/ touch = "writing" /\ touch' = "idle" /\ lock' = "fresh"
    /\ LockMoves

\* HEARTBEAT_TIMEOUT_MS without a rewrite: only when no timer rewrites it every five seconds.
LockAges ==
    /\ lock = "fresh" /\ (~alive \/ exiting) /\ lock' = "old"
    /\ UNCHANGED touch /\ LockMoves

(***************************************************************************)
(* The sweep of another process: discoverSessions, then cleanupSession     *)
(* without the hooks of the process, then markRecovered.                   *)
(***************************************************************************)
SweepMoves == /\ UNCHANGED <<process, tools>> /\ notWindow

DiscoverRecord ==
    /\ at # "unborn" /\ sweep.at = "idle" /\ sweeps < MaxSweeps
    /\ sweeps' = sweeps + 1
    /\ sweep' = [NoSweep EXCEPT !.at = "lock", !.seen = record]
    /\ UNCHANGED <<disk, touch, failures>> /\ SweepMoves

DiscoverLock ==
    /\ sweep.at = "lock"
    /\ sweep' = IF Health(sweep.seen, lock, Verdict(lock, alive)) \in {"stale", "unreadable"}
                   THEN [NoSweep EXCEPT !.at = "clear-settings", !.living = alive] ELSE NoSweep
    /\ UNCHANGED <<disk, touch, sweeps, failures>> /\ SweepMoves

SweepStep(step, outcome) ==
    /\ sweep.at = step
    /\ outcome = "missed" => step \in MayMiss
    /\ Counted(outcome) /\ missed' = MissedAfter(step, outcome)
    /\ LET failed == sweep.failed \/ outcome = "threw"
       IN  sweep' = IF step = "release-lock"
                      THEN IF failed THEN NoSweep ELSE [sweep EXCEPT !.at = "read"]
                      ELSE [sweep EXCEPT !.at = Following(step), !.failed = failed]
    /\ settings' = (settings /\ ~(step = "clear-settings" /\ outcome = "done"))
    /\ token' = (token /\ ~(step = "revoke-token" /\ outcome = "done"))
    /\ lock' = IF step = "release-lock" /\ outcome = "done" THEN "none" ELSE lock
    /\ touch' = IF step = "release-lock" /\ outcome = "done" /\ touch = "writing"
                   THEN "idle" ELSE touch
    /\ UNCHANGED <<record, sweeps>> /\ SweepMoves

\* markRecovered reads the record again and writes it only if it is not terminal.
ReadAgain ==
    /\ sweep.at = "read"
    /\ sweep' = [sweep EXCEPT !.at = IF record = "none" \/ isTerminal(record) THEN "swept" ELSE "mark"]
    /\ UNCHANGED <<disk, touch, sweeps, failures>> /\ SweepMoves

\* The session counts as recovered even when its record could not be written.
MarkRecovered(outcome) ==
    /\ sweep.at = "mark" /\ outcome \in {"done", "threw"}
    /\ Counted(outcome)
    /\ sweep' = [sweep EXCEPT !.at = "swept"]
    /\ IF outcome = "done" THEN record' = "orphaned" /\ missed' = missed \ {"mark"}
                           ELSE record' = record /\ missed' = missed \cup {"mark"}
    /\ UNCHANGED <<lock, settings, token, touch, sweeps>> /\ SweepMoves

SweepEnds ==
    /\ sweep.at = "swept" /\ sweep' = NoSweep
    /\ UNCHANGED <<disk, touch, sweeps, failures>> /\ SweepMoves

Start == \/ Prepare \/ StartGateway \/ GatewayReady \/ Provision \/ InstallExtension \/ RefuseStart
         \/ ApplySettings \/ RegisterTools \/ WriteToken \/ StartAttachServer \/ PublishEndpoint
         \/ WriteLock \/ LaunchWindow \/ AwaitAttach \/ Return

Cleanup == (\E step \in CleanupSteps, outcome \in Outcomes : CleanupStep(step, outcome)) \/ Report

Next == \/ Spawn \/ Start \/ Cleanup
        \/ HeartbeatExpires \/ AttachTimeout \/ Signal \/ Leave \/ Die
        \/ Attach \/ JoinFails \/ AttachContinues \/ PanelOpens \/ Heartbeat \/ ReadyContinues
        \/ Detach \/ WindowVanishes \/ Stop
        \/ KeepAlive \/ TouchLock \/ LockAges
        \/ DiscoverRecord \/ DiscoverLock \/ ReadAgain \/ SweepEnds
        \/ \E outcome \in Outcomes :
             MarkRecovered(outcome) \/ \E step \in SweepSteps : SweepStep(step, outcome)

\* What the event loop and its timers will do by themselves; users and sweeps owe nothing.
Fairness ==
    /\ WF_vars(Cleanup) /\ WF_vars(Leave) /\ WF_vars(AttachTimeout)
    /\ WF_vars(AttachContinues) /\ WF_vars(ReadyContinues)
    /\ WF_vars(window # "joined" /\ HeartbeatExpires)

Spec == Init /\ [][Next]_vars
FairSpec == Spec /\ Fairness

-----------------------------------------------------------------------------
TypeOK ==
    /\ alive \in BOOLEAN /\ at \in {"unborn", "running", "ended"} \cup Starting
    /\ state \in States /\ record \in States \cup {"none"} /\ lock \in LockValues
    /\ settings \in BOOLEAN /\ tools \in BOOLEAN /\ token \in BOOLEAN
    /\ missed \in SUBSET {"clear-settings", "flush-evidence", "mark"}
    /\ gateway \in BOOLEAN /\ server \in BOOLEAN /\ isAttached \in BOOLEAN
    /\ window \in {"none", "opening", "joined", "stray", "gone"} /\ panel \in BOOLEAN
    /\ monitor \in {"off", "armed", "beaten", "disposed"} /\ attached \in {"pending", "settled"}
    /\ late \in SUBSET {"attach", "ready"}
    /\ touch \in {"idle", "read", "writing"}
    /\ closing \in {"no", "report", "done"} \cup CleanupSteps
    /\ broken \in BOOLEAN /\ exiting \in BOOLEAN
    /\ sweep \in [at : {"idle", "lock", "read", "mark", "swept"} \cup SweepSteps,
                  seen : States \cup {"none"}, living : BOOLEAN, failed : BOOLEAN]
    /\ sweeps \in 0..MaxSweeps /\ failures \in 0..MaxFailures

\* A session whose record says "closed" has left nothing behind: its gateway is down, its
\* token is revoked, its endpoint is out of the settings and its tools are unregistered,
\* whatever sweeps, late handlers and rewriters did meanwhile (native-session.ts:407-421); but
\* for an entry in a file that could not be read or parsed when it was to be cleared, which the
\* code takes for cleared (settings-merge.ts:118-126, mcp-registration.ts:85-91).
ClosedMeansClean ==
    record = "closed" =>
        /\ ~gateway /\ ~token
        /\ settings => "clear-settings" \in missed
        /\ tools => "flush-evidence" \in missed

\* "A session that reports active without ever having attached would make the status bar
\* lie" (lifecycle.ts:4-5): a state past the attach is recorded only while the window is
\* attached, and active only after the official panel was seen open.
ToldTruth == alive =>
    /\ state \in {"vscode-attached", "claude-activating", "claude-ready", "active"} => isAttached
    /\ state \in {"claude-ready", "active"} => panel

\* Once the close has begun, no handler that was still waiting brings the session back: the
\* process records nothing but closing and the ends of a close (lifecycle.ts:88-95).
NeverBack ==
    [][closing # "no" /\ alive' => state' \in {"closing", "closed", "failed", "cleanup-failed"}]_vars

\* A sweep that succeeded over a dead owner has taken away the token, the lock and, unless the
\* settings could not be read or parsed, the endpoint; and the record is terminal, so that no
\* later sweep starts over, unless it could not be written (recovery.ts:128,169-172).
SweptMeansClean ==
    sweep.at = "swept" /\ ~sweep.living /\ ~alive =>
        /\ ~token /\ lock = "none"
        /\ settings => "clear-settings" \in missed
        /\ record = "none" \/ isTerminal(record) \/ "mark" \in missed

\* "It exits once the session closes, leaving no gateway behind" (broker.ts:6-7): a close
\* that has begun ends with the gateway down, although any of its steps may fail.
GatewayGone == (closing # "no") ~> ~gateway

\* A window that is gone, or that never attached, does not keep the broker: its timers close
\* the session and the process ends. (A window that attached before the monitor existed and
\* went before its first beat is left out: native-session.ts:317 then beats nothing.)
AbandonedEnds ==
    (alive /\ at = "running" /\ window \in {"gone", "stray"} /\ (isAttached => monitor # "armed"))
      ~> ~alive

\* "Clean up everything stale, leave everything live alone" (recovery.ts:143): a sweep never
\* cleans a session whose owner lived when its lock was read.
LiveLeftAlone == sweep.at \in SweepSteps => ~sweep.living
=============================================================================
