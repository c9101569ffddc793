---------------------------- MODULE EditorWindow ----------------------------
(***************************************************************************)
(* A VS Code window on a source folder: the commands that prepare a        *)
(* folder, open the result for an agent or run a dynamic session, as the   *)
(* extension host interleaves them (apps/vscode/src/extension.ts,          *)
(* launch.ts, dynamic-context.ts, context-gateway/src/launch-session.ts).  *)
(*                                                                         *)
(* Every click is a handler that runs to its next await and then shares    *)
(* the variables of the window with every other handler. A guard admits    *)
(* one visible command at a time; preparing from the menu, the review      *)
(* panel and a restart go round it. What a preparation does is the subject *)
(* of PrepareWorkspace: here it settles, or hangs. The run it makes has    *)
(* the number of the click that began it.                                  *)
(***************************************************************************)
EXTENDS Naturals, FiniteSets

CONSTANTS
  Window,    \* the source folder this window shows
  Chosen,    \* the folders the user picks when asked for one
  None,
  MaxClicks, \* handlers in one behaviour, each with at most one preparation
  MaxRuns    \* preparations in one behaviour

ASSUME WindowAssumption ==
  MaxClicks \in Nat /\ MaxRuns \in Nat /\ None \notin Chosen \cup {Window, "user", "yuhi"} \cup Nat

VARIABLES
  handler,         \* of each click: its command, the await it is at, the run and its source
  run,             \* of each run: what is prepared, and what is written into it
  guard,           \* visibleCommandRunning
  done,            \* activePrepareDone: the preparation it stands for
  last,            \* lastReport and lastReportRoot
  panel,           \* the report and root the handler of the open review panel closed over
  gateway,         \* of the dynamic session of each click
  dynamicSession,
  colours,         \* workbench.colorCustomizations: the user's, or Yuhi's
  before,          \* brandingBeforeDynamic
  thrown,          \* history: the clicks whose start threw although its gateway listened
  unrestored,      \* history: a session ended and the colours saved for it were not put back
  restarted,       \* observer: a restart reset the window under a visible command
  overlapped       \* observer: a session began while an earlier one was being closed

shared  == <<guard, done, last, panel>>
branding == <<colours, before, unrestored>>
dynamic == <<gateway, dynamicSession, branding, thrown, overlapped>>
vars    == <<handler, run, shared, dynamic, restarted>>

Clicks   == 1 .. MaxClicks
Visible  == {"start", "open", "here", "dynamic", "dismiss"}
\* The awaits that only the user ends: questions, pickers, modal and awaited messages.
Asking   == {"ask", "confirm", "message", "trust", "failed"}
Settled  == {"complete", "partial", "nothing"}
Prepared == {"complete", "partial"}

Pair(r, s)  == [run |-> r, root |-> s]
Running(t)  == handler[t].at \notin {"off", "ended"}
At(t, p)    == handler[t].at = p
Kind(t)     == handler[t].kind

NoHandler(p) == [kind |-> "none", at |-> p, of |-> None, from |-> None]

Init ==
  /\ handler = [t \in Clicks |-> NoHandler("off")]
  /\ run = [t \in Clicks |->
       [root |-> None, prep |-> "none", policy |-> FALSE, session |-> None, opened |-> FALSE]]
  /\ guard = FALSE /\ done = None /\ last = None /\ panel = None
  /\ gateway = [t \in Clicks |-> "none"] /\ dynamicSession = None
  /\ colours = "user" /\ before = None /\ unrestored = FALSE /\ thrown = {}
  /\ restarted = FALSE /\ overlapped = FALSE

-----------------------------------------------------------------------------
(* How a handler goes on: each says what becomes of handler and guard.    *)

Become(t, k, p, r, s) ==
  handler' = [handler EXCEPT ![t] = [kind |-> k, at |-> p, of |-> r, from |-> s]]

Goto(t, p) == handler' = [handler EXCEPT ![t].at = p] /\ UNCHANGED guard

\* A message or question at the end of the command, awaited: the guard stays until it is closed.
Tell(t, p) == Become(t, Kind(t), p, None, None) /\ UNCHANGED guard

\* The finally of runVisibleCommand clears the guard, whoever holds it by then.
Finish(t) ==
  /\ handler' = [handler EXCEPT ![t] = NoHandler("ended")]
  /\ guard' = (guard /\ Kind(t) \notin Visible)

\* What a command throws is a modal message; elsewhere the handler just ends.
Fail(t) == IF Kind(t) \in {"start", "open", "here", "launch"} THEN Tell(t, "message") ELSE Finish(t)

\* resolveDynamicPreparedRoot goes on with whatever is the last report by now.
Resolve(t, report) ==
  IF report = None THEN Finish(t)
  ELSE Become(t, "dynamic", "resolved", report.run, report.root) /\ UNCHANGED guard

\* No preparation came of it: a dynamic start still looks for a report.
WithoutRun(t, otherwise) == IF Kind(t) = "dynamic" THEN Resolve(t, last) ELSE otherwise

Cancelled(t) ==
  WithoutRun(t, IF Kind(t) \in {"start", "open", "restart"} THEN Tell(t, "message") ELSE Finish(t))

\* commandOpenClaudeHere: the last report, or else a fresh preparation of this folder.
OpenHere(t) ==
  IF last # None THEN Become(t, "here", "artifacts", last.run, last.root)
  ELSE Become(t, "start", "ask", None, Window)

\* commandLaunchClaudeDynamic up to its first await.
BeginDynamic(t) ==
  IF last # None THEN Become(t, "dynamic", "resolved", last.run, last.root)
  ELSE Become(t, "dynamic", "ask", None, Window)

-----------------------------------------------------------------------------
(* Clicks.                                                                *)

Fresh(t) == At(t, "off") /\ \A u \in Clicks : u < t => ~At(u, "off")

\* runVisibleCommand: a second one is refused while the first runs.
ClickVisible(t) ==
  /\ Fresh(t) /\ ~guard
  /\ guard' = TRUE
  /\ \/ Become(t, "start", "ask", None, None) /\ UNCHANGED <<last, panel>>
     \/ Become(t, "open", "ask", None, Window) /\ UNCHANGED <<last, panel>>
     \/ OpenHere(t) /\ UNCHANGED <<last, panel>>
     \/ BeginDynamic(t) /\ UNCHANGED <<last, panel>>
     \/ Become(t, "dismiss", "message", None, None) /\ last' = None /\ panel' = None
  /\ UNCHANGED <<run, done, dynamic, restarted>>

\* Prepare and Review from the menu, and the panel's requests to prepare again.
ClickUnguarded(t) ==
  /\ Fresh(t)
  /\ \/ Become(t, "prepare", "ask", None, Window)
     \/ last # None /\ Become(t, "review", "review", last.run, last.root)
     \/ panel # None /\ Become(t, "reprepare", "ask", None, panel.root)
  /\ UNCHANGED <<run, shared, dynamic, restarted>>

\* Mutant: the report of the panel is launched under the last root.
LaunchMixed(t) ==
  /\ Fresh(t) /\ panel # None /\ last # None
  /\ Become(t, "launch", "artifacts", panel.run, last.root)
  /\ UNCHANGED <<run, shared, dynamic, restarted>>

\* Launch on the panel: the report and the root its handler was created with.
ClickLaunch(t) ==
  /\ Fresh(t) /\ panel # None
  /\ Become(t, "launch", "artifacts", panel.run, panel.root)
  /\ UNCHANGED <<run, shared, dynamic, restarted>>

\* commandRestartFlow: one at a time; it waits for the preparation it has told to stop.
ClickRestart(t) ==
  /\ Fresh(t) /\ \A u \in Clicks : Kind(u) = "restart" => ~Running(u)
  /\ Become(t, "restart", "waiting", done, None)
  /\ UNCHANGED <<run, shared, dynamic, restarted>>

Reset(t) ==
  /\ At(t, "waiting")
  /\ handler[t].of # None => run[handler[t].of].prep \in Settled
  /\ Become(t, "restart", "ask", None, None)
  /\ panel' = None /\ last' = None /\ guard' = FALSE
  /\ restarted' = (restarted \/ \E u \in Clicks : Kind(u) \in Visible /\ Running(u))
  /\ UNCHANGED <<run, done, dynamic>>

ClosePanel ==
  /\ panel # None /\ panel' = None
  /\ UNCHANGED <<handler, run, guard, done, last, dynamic, restarted>>

-----------------------------------------------------------------------------
(* Preparing.                                                             *)

\* The target, the folder, yuhi.yaml and the privacy mode are asked for, if need be.
Answer(t) ==
  /\ At(t, "ask")
  /\ \/ \E s \in IF handler[t].from = None THEN Chosen ELSE {handler[t].from} :
          /\ Cardinality({u \in Clicks : run[u].root # None}) < MaxRuns
          /\ Become(t, Kind(t), "preparing", t, s)
          /\ run' = [run EXCEPT ![t].root = s, ![t].prep = "running"]
          /\ done' = t /\ UNCHANGED guard
     \/ Cancelled(t) /\ UNCHANGED <<run, done>>
  /\ UNCHANGED <<last, panel, dynamic, restarted>>

\* The preparation ends; whether it was told to stop or not it may still be complete.
\* The finally forgets activePrepareDone, also when it stands for another by now.
Settle(t) ==
  /\ run[t].prep = "running"
  /\ \E outcome \in IF At(t, "preparing") THEN Settled ELSE {"nothing"} :
       /\ run' = [run EXCEPT ![t].prep = outcome]
       /\ IF ~At(t, "preparing") THEN UNCHANGED <<handler, guard, done>>
          ELSE /\ done' = None
               /\ \/ outcome \in Prepared /\ Goto(t, "returned")
                  \/ outcome = "nothing" /\ (Cancelled(t) \/ WithoutRun(t, Fail(t)))
  /\ UNCHANGED <<last, panel, dynamic, restarted>>

\* Mutant: it only tells the preparation to stop.
WatchdogAborts(t) ==
  /\ At(t, "preparing") /\ run[t].prep = "running"
  /\ UNCHANGED vars

\* Ten minutes: the command gives up on it, whatever it still does.
Watchdog(t) ==
  /\ At(t, "preparing") /\ run[t].prep = "running"
  /\ WithoutRun(t, Fail(t))
  /\ done' = None
  /\ UNCHANGED <<run, last, panel, dynamic, restarted>>

\* rememberReport, commandPrepare and the panel set the last report a little later.
Remember(t) ==
  /\ At(t, "returned")
  /\ LET mine == Pair(t, handler[t].from)
         ok   == run[t].prep = "complete"
     IN /\ last' = mine
        /\ panel' = IF Kind(t) = "reprepare" THEN None ELSE panel
        /\ CASE Kind(t) = "reprepare"           -> Goto(t, "review")
             [] Kind(t) = "prepare"             -> IF ok THEN Goto(t, "review") ELSE Finish(t)
             [] Kind(t) = "dynamic"             -> IF ok THEN Goto(t, "review") ELSE Resolve(t, mine)
             [] Kind(t) = "open"                -> Goto(t, IF ok THEN "confirm" ELSE "blocked")
             [] Kind(t) \in {"start", "restart"} -> Goto(t, IF ok THEN "policy" ELSE "blocked")
  /\ UNCHANGED <<run, done, dynamic, restarted>>

\* commandReview: an open panel keeps the handler, and so the report, it was created with.
Show(report) == panel' = IF panel = None THEN report ELSE panel

Review(t) ==
  /\ At(t, "review")
  /\ Show(Pair(handler[t].of, handler[t].from))
  /\ WithoutRun(t, IF Kind(t) = "prepare" THEN Tell(t, "message") ELSE Finish(t))
  /\ UNCHANGED <<run, done, last, dynamic, restarted>>

\* A failed preparation is not opened: its command shows what is the last report by now.
ReviewBlocked(t) ==
  /\ At(t, "blocked")
  /\ IF last = None THEN Tell(t, "message") /\ UNCHANGED panel ELSE Finish(t) /\ Show(last)
  /\ UNCHANGED <<run, done, last, dynamic, restarted>>

-----------------------------------------------------------------------------
(* Opening a run for an agent.                                            *)

\* writeAndVerifyClaudeSandboxPolicy; unresolved findings ask for an override.
WritePolicy(t) ==
  /\ At(t, "policy")
  /\ \/ /\ run' = [run EXCEPT ![handler[t].of].policy = TRUE]
        /\ Goto(t, "confirm") \/ Goto(t, "artifacts")
     \/ Fail(t) /\ UNCHANGED run
  /\ UNCHANGED <<done, last, panel, dynamic, restarted>>

Confirm(t) ==
  /\ At(t, "confirm")
  /\ \/ Goto(t, "artifacts") /\ UNCHANGED panel
     \/ Finish(t) /\ UNCHANGED panel
     \/ Tell(t, "message") /\ UNCHANGED panel
     \/ /\ Kind(t) = "open" /\ last # None
        /\ Show(last) /\ UNCHANGED <<handler, guard>>
  /\ UNCHANGED <<run, done, last, dynamic, restarted>>

\* writePreparedArtifacts: the policy, and the session metadata last.
WriteArtifacts(t) ==
  /\ At(t, "artifacts")
  /\ \/ /\ run' = [run EXCEPT ![handler[t].of].policy = TRUE,
                              ![handler[t].of].session = handler[t].from]
        /\ Goto(t, "opening")
     \/ Fail(t) /\ run' \in {run, [run EXCEPT ![handler[t].of].policy = TRUE]}
  /\ UNCHANGED <<done, last, panel, dynamic, restarted>>

\* A new window, or a terminal with the CLI; without an installed agent only a message.
Open(t) ==
  /\ At(t, "opening")
  /\ \/ /\ run' = [run EXCEPT ![handler[t].of].opened = TRUE]
        /\ IF Kind(t) \in {"launch", "here"} THEN Finish(t) /\ panel' = None
           ELSE Tell(t, "message") /\ UNCHANGED panel
     \/ /\ Kind(t) \in {"start", "restart"} /\ Tell(t, "message")
        /\ UNCHANGED <<run, panel>>
     \/ Fail(t) /\ UNCHANGED <<run, panel>>
  /\ UNCHANGED <<done, last, dynamic, restarted>>

\* A message is closed; a Retry is a click of its own.
Dismiss(t) ==
  /\ At(t, "message")
  /\ Finish(t)
  /\ UNCHANGED <<run, done, last, panel, dynamic, restarted>>

-----------------------------------------------------------------------------
(* Dynamic sessions.                                                      *)

\* The policy is written, or found valid although it could not be; the CLI is there and no
\* session runs: but a dialog and a start follow before this one is on hand.
Verify(t) ==
  /\ At(t, "resolved")
  /\ \E written \in {run[handler[t].of].policy, TRUE} :
       /\ run' = [run EXCEPT ![handler[t].of].policy = written]
       /\ Finish(t) \/ (written /\ dynamicSession = None /\ Goto(t, "trust"))
  /\ UNCHANGED <<done, last, panel, dynamic, restarted>>

Trust(t) ==
  /\ At(t, "trust")
  /\ Goto(t, "starting") \/ Finish(t)
  /\ UNCHANGED <<run, done, last, panel, dynamic, restarted>>

StartGateway(t) ==
  /\ At(t, "starting") /\ gateway[t] = "none"
  /\ \/ gateway' = [gateway EXCEPT ![t] = "listening"] /\ UNCHANGED <<handler, guard>>
     \/ Tell(t, "failed") /\ UNCHANGED gateway
  /\ UNCHANGED <<run, done, last, panel, dynamicSession, branding, thrown, overlapped, restarted>>

\* It answers in time: the terminal opens and the window takes Yuhi's colours, or keeps its own
\* when the setting cannot be written. They are saved before that.
GatewayReady(t) ==
  /\ At(t, "starting") /\ gateway[t] = "listening"
  /\ dynamicSession' = t
  /\ before' = colours /\ colours' \in {"yuhi", colours}
  /\ overlapped' = (overlapped \/ \E s \in Clicks : gateway[s] = "closing")
  /\ Finish(t)
  /\ UNCHANGED <<run, done, last, panel, gateway, thrown, unrestored, restarted>>

\* Opening the terminal, or telling of the session, throws: nothing is left that could close the
\* gateway.
StartThrows(t) ==
  /\ At(t, "starting") /\ gateway[t] = "listening"
  /\ Tell(t, "failed")
  /\ thrown' = thrown \cup {t}
  /\ UNCHANGED <<run, done, last, panel, gateway, dynamicSession, branding, overlapped, restarted>>

\* Mutant: the gateway that is not ready in time is left running.
GatewayLeft(t) ==
  /\ At(t, "starting") /\ gateway[t] = "listening"
  /\ Tell(t, "failed")
  /\ UNCHANGED <<run, done, last, panel, dynamic, restarted>>

GatewayNotReady(t) ==
  /\ At(t, "starting") /\ gateway[t] = "listening"
  /\ gateway' = [gateway EXCEPT ![t] = "none"]
  /\ Tell(t, "failed")
  /\ UNCHANGED <<run, done, last, panel, dynamicSession, branding, thrown, overlapped, restarted>>

\* Retry and Start normal Claude Code go on inside the same command. A click listens once: after
\* a start that threw, the next dynamic one is another click's.
AfterFailure(t) ==
  /\ At(t, "failed")
  /\ \/ Finish(t)
     \/ /\ last # None \/ run[t].root = None
        /\ (gateway[t] = "none" /\ BeginDynamic(t)) \/ OpenHere(t)
        /\ UNCHANGED guard
  /\ UNCHANGED <<run, done, last, panel, dynamic, restarted>>

\* Terminals are told apart by name only: closing any of them, the one of the session or of one
\* before it, ends the session on hand. Without a session it does nothing.
CloseTerminal ==
  /\ dynamicSession # None
  /\ gateway' = [gateway EXCEPT ![dynamicSession] = "closing"]
  /\ dynamicSession' = None
  /\ UNCHANGED <<handler, run, shared, branding, thrown, overlapped, restarted>>

\* The saved colours are forgotten and put back, unless the setting cannot be written. When the
\* close throws before, they are kept, but only to be overwritten by the next start.
StopGateway(t) ==
  /\ gateway[t] = "closing"
  /\ gateway' = [gateway EXCEPT ![t] = "none"]
  /\ before' = None
  /\ \/ colours' = (IF before = None THEN colours ELSE before) /\ UNCHANGED unrestored
     \/ unrestored' = TRUE /\ UNCHANGED colours
  /\ UNCHANGED <<handler, run, shared, dynamicSession, thrown, overlapped, restarted>>

-----------------------------------------------------------------------------
\* What the extension host does on its own; a preparation may hang for ever.
Host(t) ==
  \/ Watchdog(t) \/ Remember(t) \/ Review(t) \/ ReviewBlocked(t) \/ Reset(t)
  \/ WritePolicy(t) \/ WriteArtifacts(t) \/ Open(t)
  \/ Verify(t) \/ StartGateway(t) \/ GatewayReady(t) \/ GatewayNotReady(t) \/ StartThrows(t)

User(t) ==
  \/ ClickVisible(t) \/ ClickUnguarded(t) \/ ClickLaunch(t) \/ ClickRestart(t)
  \/ Answer(t) \/ Confirm(t) \/ Dismiss(t) \/ Trust(t) \/ AfterFailure(t)

Next ==
  \/ ClosePanel \/ CloseTerminal
  \/ \E t \in Clicks : Settle(t) \/ Host(t) \/ User(t) \/ StopGateway(t)

Spec == Init /\ [][Next]_vars /\ \A t \in Clicks : WF_vars(Host(t))

-----------------------------------------------------------------------------
(* An agent is started only in a run whose preparation ended with a        *)
(* report, under a policy that was written, and never under the name of    *)
(* another source: the session metadata of an opened run names the folder  *)
(* it was prepared from (launch.ts:778-803), whichever of the last report  *)
(* and the pair the open panel closed over its handler went by.            *)
StartedInside ==
  \A r \in Clicks :
    /\ run[r].opened =>
         run[r].prep \in Prepared /\ run[r].policy /\ run[r].session = run[r].root
    /\ \A t \in Clicks : handler[t].of = r /\ handler[t].at \in {"trust", "starting"} =>
         run[r].prep \in Prepared /\ run[r].policy

(* A gateway that listens belongs to a session on hand or to a start that  *)
(* is under way, and when neither is there nor being closed the window has *)
(* the user's colours again (extension.ts:241-243,3742). Left out are the  *)
(* gateway of a start that throws after it listened                        *)
(* (dynamic-context.ts:130-166) and a restore that fails                   *)
(* (extension.ts:256-263,411): those do stay behind. So are a restart      *)
(* under a visible command and a start during a close: see README.         *)
SessionLeavesNothing ==
  ~restarted =>
    /\ \A t \in Clicks : gateway[t] = "listening" => dynamicSession = t \/ At(t, "starting") \/ t \in thrown
    /\ (dynamicSession = None /\ ~overlapped /\ ~unrestored /\ \A t \in Clicks : gateway[t] # "closing")
         => colours = "user"

(* The guard that refuses every other command is given up, or a command    *)
(* is asking the user something, whatever a preparation or a gateway does  *)
(* (extension.ts:1483-1489,2565-2567).                                     *)
Held == guard /\ ~\E t \in Clicks : Kind(t) \in Visible /\ handler[t].at \in Asking
GuardReleased == []<>~Held
=============================================================================
