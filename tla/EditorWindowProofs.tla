------------------------- MODULE EditorWindowProofs -------------------------
(***************************************************************************)
(* An agent is started only in a run that was prepared with a report,      *)
(* under its policy and its own source: for any number of clicks and       *)
(* preparations, any folders chosen, and preparations that hang. And a     *)
(* dynamic session leaves neither a gateway nor its colours behind.        *)
(***************************************************************************)
EXTENDS EditorWindow, TLAPS

Before    == {"off", "ask", "waiting"}
Preparing == {"prepare", "reprepare", "dynamic", "open", "start", "restart"}
\* The awaits at which a handler is about a run, with and without need of what is written there.
Plain     == {"returned", "review", "policy", "confirm", "artifacts", "resolved"}
Trusting  == {"trust", "starting"}

Sources   == Chosen \cup {Window}
Kinds     == Preparing \cup {"none", "here", "review", "launch", "dismiss"}
Places    == Before \cup Plain \cup Trusting
               \cup {"preparing", "blocked", "opening", "message", "failed", "ended"}
Handlers  == [kind : Kinds, at : Places, of : Clicks \cup {None}, from : Sources \cup {None}]
Runs      == [root : Sources \cup {None}, prep : Settled \cup {"none", "running"}, policy : BOOLEAN,
              session : Sources \cup {None}, opened : BOOLEAN]

Types == handler \in [Clicks -> Handlers] /\ run \in [Clicks -> Runs] /\ done \in Clicks \cup {None}

Reported(r, s) == r \in Clicks /\ s \in Sources /\ run[r].prep \in Prepared /\ run[r].root = s

\* What a run is before it is prepared, and once an agent was started in it.
RunFits(r) ==
  /\ run[r].root = None => run[r].prep = "none"
  /\ run[r].opened => run[r].prep \in Prepared /\ run[r].policy /\ run[r].session = run[r].root

HandlerFits(t) ==
  LET h == handler[t]
  IN /\ h.at \in Plain \cup Trusting \cup {"opening"} => Reported(h.of, h.from)
     /\ h.at \in {"preparing", "returned"} => h.of = t /\ run[t].root = h.from
     /\ h.at \in {"ask", "preparing", "returned"} => h.kind \in Preparing
     /\ h.at \in Before => run[t].root = None
     /\ h.at = "opening" => run[h.of].policy /\ run[h.of].session = run[h.of].root
     /\ h.at \in Trusting => run[h.of].policy

ReportsFit ==
  /\ last # None => Reported(last.run, last.root)
  /\ panel # None => Reported(panel.run, panel.root)

WInv ==
  /\ Types /\ ReportsFit
  /\ \A r \in Clicks : RunFits(r)
  /\ \A t \in Clicks : HandlerFits(t)

-----------------------------------------------------------------------------
(* What a step leaves of the runs: a report stays a report, a policy and   *)
(* the right session stay, and only the click of the step gets a root.     *)
Grown(t) ==
  /\ run' \in [Clicks -> Runs]
  /\ \A r \in Clicks :
       /\ run[r].prep \in Prepared => run'[r].prep \in Prepared /\ run'[r].root = run[r].root
       /\ run[r].policy => run'[r].policy
       /\ run[r].prep \in Prepared /\ run[r].session = run[r].root => run'[r].session = run[r].root
       /\ r # t => run'[r].root = run[r].root
       /\ run'[r].root = None => run'[r].prep = "none"

\* Only the handler of the step moves.
Moved(t) ==
  /\ handler' \in [Clicks -> Handlers]
  /\ \A u \in Clicks \ {t} : handler'[u] = handler[u]

\* Where a handler goes when nothing need be known of what was written into its run.
Idle(t)    == \E h \in Handlers : /\ h.at \notin Plain \cup Trusting \cup Before \cup {"preparing", "opening"}
                                  /\ handler' = [handler EXCEPT ![t] = h]
Asks(t)    == \E h \in Handlers : /\ h.at \in {"ask", "waiting"} /\ h.kind \in Preparing
                                  /\ run[t].root = None
                                  /\ handler' = [handler EXCEPT ![t] = h]
Reports(t) == \E h \in Handlers : /\ h.at \in Plain \ {"returned"} /\ Reported(h.of, h.from)
                                  /\ handler' = [handler EXCEPT ![t] = h]
Arrives(t) == Idle(t) \/ Asks(t) \/ Reports(t)

\* A step that grows the runs, moves one handler to where it fits and
\* keeps the reports keeps the invariant.
LEMMA StepFits ==
  ASSUME WInv, NEW t \in Clicks, Grown(t), Moved(t), HandlerFits(t)', done' \in Clicks \cup {None},
         last' # None => Reported(last.run, last.root)',
         panel' # None => Reported(panel.run, panel.root)',
         \A r \in Clicks : run'[r].opened =>
           \/ run[r].opened
           \/ run'[r].prep \in Prepared /\ run'[r].policy /\ run'[r].session = run'[r].root
  PROVE  WInv'
<1>1. Types'
  BY DEF Grown, Moved, Types
<1>2. ReportsFit'
  BY DEF ReportsFit
<1>3. ASSUME NEW r \in Clicks PROVE RunFits(r)'
  BY <1>3 DEF WInv, RunFits, Grown
<1>4. ASSUME NEW u \in Clicks PROVE HandlerFits(u)'
  <2>1. CASE u = t
    BY <2>1
  <2>2. CASE u # t
    <3>1. handler'[u] = handler[u] /\ run'[u].root = run[u].root
      BY <1>4, <2>2 DEF Moved, Grown
    <3>2. \A r, s : Reported(r, s) => Reported(r, s)'
      BY DEF Reported, Grown
    <3>3. \A r, s : Reported(r, s) /\ run[r].policy => run'[r].policy
      BY DEF Reported, Grown
    <3>4. \A r, s : Reported(r, s) /\ run[r].session = run[r].root => run'[r].session = run'[r].root
      BY DEF Reported, Grown
    <3> QED BY <1>4, <3>1, <3>2, <3>3, <3>4 DEF WInv, HandlerFits, Before, Trusting, Plain
  <2> QED BY <2>1, <2>2
<1> QED BY <1>1, <1>2, <1>3, <1>4 DEF WInv

\* A handler that arrives where nothing written is needed fits, as long as
\* reports stay reports and its own run stays unasked for while it asks.
LEMMA ArrivalFits ==
  ASSUME WInv, NEW t \in Clicks, Grown(t),
         Idle(t) \/ Reports(t) \/ (Asks(t) /\ UNCHANGED run)
  PROVE  Moved(t) /\ HandlerFits(t)'
<1>1. Moved(t)
  BY DEF Idle, Asks, Reports, Moved, WInv, Types
<1>2. \A r, s : Reported(r, s) => Reported(r, s)'
  BY DEF Reported, Grown
<1>3. CASE Idle(t)
  <2>1. PICK h \in Handlers : /\ h.at \notin Plain \cup Trusting \cup Before \cup {"preparing", "opening"}
                              /\ handler' = [handler EXCEPT ![t] = h]
    BY <1>3 DEF Idle
  <2>2. handler'[t] = h
    BY <2>1 DEF WInv, Types
  <2> QED BY <1>1, <2>1, <2>2 DEF HandlerFits, Plain, Trusting, Before
<1>4. CASE Asks(t) /\ UNCHANGED run
  <2>1. PICK h \in Handlers : /\ h.at \in {"ask", "waiting"} /\ h.kind \in Preparing
                              /\ run[t].root = None
                              /\ handler' = [handler EXCEPT ![t] = h]
    BY <1>4 DEF Asks
  <2>2. handler'[t] = h /\ run' = run
    BY <1>4, <2>1 DEF WInv, Types
  <2> QED BY <1>1, <2>1, <2>2 DEF HandlerFits, Plain, Trusting, Before
<1>5. CASE Reports(t)
  <2>1. PICK h \in Handlers : /\ h.at \in Plain \ {"returned"} /\ Reported(h.of, h.from)
                              /\ handler' = [handler EXCEPT ![t] = h]
    BY <1>5 DEF Reports
  <2>2. handler'[t] = h /\ Reported(h.of, h.from)'
    BY <1>2, <2>1 DEF WInv, Types
  <2> QED BY <1>1, <2>1, <2>2 DEF HandlerFits, Plain, Trusting, Before
<1> QED BY <1>3, <1>4, <1>5

\* The same in a step that leaves the runs alone.
LEMMA QuietStep ==
  ASSUME WInv, NEW t \in Clicks, UNCHANGED run, Arrives(t), done' \in Clicks \cup {None},
         last' # None => Reported(last'.run, last'.root),
         panel' # None => Reported(panel'.run, panel'.root)
  PROVE  WInv'
<1>1. Grown(t)
  BY DEF Grown, WInv, Types, RunFits
<1>2. Moved(t) /\ HandlerFits(t)'
  BY <1>1, ArrivalFits DEF Arrives
<1>3. \A r, s : Reported(r, s) => Reported(r, s)'
  BY DEF Reported
<1>4. last' # None => Reported(last.run, last.root)'
  BY <1>3
<1>5. panel' # None => Reported(panel.run, panel.root)'
  BY <1>3
<1> QED BY <1>1, <1>2, <1>4, <1>5, StepFits

-----------------------------------------------------------------------------
\* The ways a handler goes on, each with where it arrives.

\* A handler that ends, waits for a message or goes to a harmless await is idle.
LEMMA EndsIdle ==
  ASSUME WInv, NEW t \in Clicks
  PROVE  /\ \A p \in {"message", "failed"} : Tell(t, p) => Idle(t)
         /\ Finish(t) => Idle(t)
         /\ Fail(t) => Idle(t)
<1>1. handler[t] \in Handlers /\ t \in Clicks
  BY DEF WInv, Types
<1>2. \A p \in {"message", "failed"} : Tell(t, p) => Idle(t)
  <2>1. ASSUME NEW p \in {"message", "failed"}, Tell(t, p) PROVE Idle(t)
    <3> DEFINE h == [kind |-> Kind(t), at |-> p, of |-> None, from |-> None]
    <3>1. h \in Handlers
      BY <1>1 DEF Handlers, Kind, Kinds, Places, Preparing, Before, Plain, Trusting
    <3>2. handler' = [handler EXCEPT ![t] = h]
      BY <2>1 DEF Tell, Become
    <3> QED BY <3>1, <3>2 DEF Idle, Plain, Trusting, Before
  <2> QED BY <2>1
<1>3. Finish(t) => Idle(t)
  <2>1. NoHandler("ended") \in Handlers
    BY DEF NoHandler, Handlers, Kinds, Places, Preparing, Before, Plain, Trusting
  <2> QED BY <2>1 DEF Finish, Idle, Plain, Trusting, Before, NoHandler
<1> QED BY <1>2, <1>3 DEF Fail

\* resolveDynamicPreparedRoot goes on with a report, or ends.
LEMMA ResolveArrives ==
  ASSUME WInv, NEW t \in Clicks, NEW report, Resolve(t, report),
         report # None => Reported(report.run, report.root)
  PROVE  Idle(t) \/ Reports(t)
<1>1. CASE report = None
  BY <1>1, EndsIdle DEF Resolve
<1>2. CASE report # None
  <2> DEFINE h == [kind |-> "dynamic", at |-> "resolved", of |-> report.run, from |-> report.root]
  <2>1. Reported(h.of, h.from)
    BY <1>2
  <2>2. h \in Handlers
    BY <2>1 DEF Handlers, Reported, Kinds, Places, Preparing, Before, Plain, Trusting
  <2>3. handler' = [handler EXCEPT ![t] = h]
    BY <1>2 DEF Resolve, Become
  <2> QED BY <2>1, <2>2, <2>3 DEF Reports, Plain
<1> QED BY <1>1, <1>2

\* What comes of a preparation without a report.
LEMMA WithoutRunArrives ==
  ASSUME WInv, NEW t \in Clicks
  PROVE  /\ Cancelled(t) => Idle(t) \/ Reports(t)
         /\ WithoutRun(t, Fail(t)) => Idle(t) \/ Reports(t)
         /\ WithoutRun(t, Finish(t)) => Idle(t) \/ Reports(t)
         /\ WithoutRun(t, Tell(t, "message")) => Idle(t) \/ Reports(t)
<1>1. Resolve(t, last) => Idle(t) \/ Reports(t)
  BY ResolveArrives DEF WInv, ReportsFit
<1> QED BY <1>1, EndsIdle DEF Cancelled, WithoutRun

\* A handler with a report goes on about it, or takes up another one.
LEMMA GoesOn ==
  ASSUME WInv, NEW t \in Clicks
  PROVE  /\ \A p \in Plain \ {"returned"} :
              handler[t].at \in Plain \cup Trusting \cup {"opening"} /\ Goto(t, p) => Reports(t)
         /\ Goto(t, "blocked") => Idle(t)
<1>1. handler[t] \in Handlers
  BY DEF WInv, Types
<1>2. ASSUME NEW p \in Places, Goto(t, p)
      PROVE  /\ [handler[t] EXCEPT !.at = p] \in Handlers
             /\ handler' = [handler EXCEPT ![t] = [handler[t] EXCEPT !.at = p]]
  BY <1>1, <1>2 DEF Goto, Handlers, WInv, Types
<1>3. ASSUME NEW p \in Plain \ {"returned"}, Goto(t, p),
             handler[t].at \in Plain \cup Trusting \cup {"opening"}
      PROVE  Reports(t)
  <2> DEFINE h == [handler[t] EXCEPT !.at = p]
  <2>1. h \in Handlers /\ handler' = [handler EXCEPT ![t] = h]
    BY <1>2, <1>3 DEF Places
  <2>2. h.at = p /\ h.of = handler[t].of /\ h.from = handler[t].from
    BY <1>1 DEF Handlers
  <2>3. Reported(h.of, h.from)
    BY <1>3, <2>2 DEF WInv, HandlerFits
  <2> QED BY <1>3, <2>1, <2>2, <2>3 DEF Reports
<1>4. ASSUME Goto(t, "blocked") PROVE Idle(t)
  <2> DEFINE h == [handler[t] EXCEPT !.at = "blocked"]
  <2>1. h \in Handlers /\ handler' = [handler EXCEPT ![t] = h]
    BY <1>2, <1>4 DEF Places
  <2>2. h.at = "blocked"
    BY <1>1 DEF Handlers
  <2> QED BY <2>1, <2>2 DEF Idle, Plain, Trusting, Before
<1> QED BY <1>3, <1>4

\* A handler begins about a report that is there, or asks for a folder.
LEMMA Begins ==
  ASSUME WInv, NEW t \in Clicks, NEW k \in Kinds
  PROVE  /\ \A p \in Plain \ {"returned"}, r \in Clicks, s \in Sources :
              Reported(r, s) /\ Become(t, k, p, r, s) => Reports(t)
         /\ \A p \in {"ask", "waiting"}, r \in Clicks \cup {None}, s \in Sources \cup {None} :
              k \in Preparing /\ run[t].root = None /\ Become(t, k, p, r, s) => Asks(t)
<1>1. ASSUME NEW p \in Plain \ {"returned"}, NEW r \in Clicks, NEW s \in Sources,
             Reported(r, s), Become(t, k, p, r, s)
      PROVE  Reports(t)
  <2> DEFINE h == [kind |-> k, at |-> p, of |-> r, from |-> s]
  <2>1. h \in Handlers
    BY DEF Handlers, Places
  <2>2. handler' = [handler EXCEPT ![t] = h]
    BY <1>1 DEF Become
  <2> QED BY <1>1, <2>1, <2>2 DEF Reports
<1>2. ASSUME NEW p \in {"ask", "waiting"}, NEW r \in Clicks \cup {None}, NEW s \in Sources \cup {None},
             k \in Preparing, run[t].root = None, Become(t, k, p, r, s)
      PROVE  Asks(t)
  <2> DEFINE h == [kind |-> k, at |-> p, of |-> r, from |-> s]
  <2>1. h \in Handlers
    BY DEF Handlers, Places, Before
  <2>2. handler' = [handler EXCEPT ![t] = h]
    BY <1>2 DEF Become
  <2> QED BY <1>2, <2>1, <2>2 DEF Asks
<1> QED BY <1>1, <1>2

\* commandOpenClaudeHere and commandLaunchClaudeDynamic go by the last report.
LEMMA LastBegins ==
  ASSUME WInv, NEW t \in Clicks, last # None \/ run[t].root = None, OpenHere(t) \/ BeginDynamic(t)
  PROVE  Arrives(t)
<1>1. last # None => last.run \in Clicks /\ last.root \in Sources /\ Reported(last.run, last.root)
  BY DEF WInv, ReportsFit, Reported
<1>2. {"here", "start", "dynamic"} \subseteq Kinds /\ {"start", "dynamic"} \subseteq Preparing
  BY DEF Kinds, Preparing
<1>3. {"artifacts", "resolved"} \subseteq Plain \ {"returned"} /\ Window \in Sources
  BY DEF Plain, Sources
<1>4. CASE last # None
  BY <1>1, <1>2, <1>3, <1>4, Begins DEF OpenHere, BeginDynamic, Arrives
<1>5. CASE last = None
  BY <1>2, <1>3, <1>5, Begins DEF OpenHere, BeginDynamic, Arrives
<1> QED BY <1>4, <1>5

-----------------------------------------------------------------------------
(* The steps that leave the runs alone.                                    *)

\* Clicks.
LEMMA ClickStep ==
  ASSUME WInv, NEW t \in Clicks,
         ClickVisible(t) \/ ClickUnguarded(t) \/ ClickLaunch(t) \/ ClickRestart(t) \/ Reset(t)
  PROVE  WInv'
<1>0. /\ last # None => last.run \in Clicks /\ last.root \in Sources /\ Reported(last.run, last.root)
      /\ panel # None => panel.run \in Clicks /\ panel.root \in Sources /\ Reported(panel.run, panel.root)
      /\ done \in Clicks \cup {None} /\ Window \in Sources
  BY DEF WInv, ReportsFit, Reported, Types, Sources
<1>1. Fresh(t) \/ At(t, "waiting") => run[t].root = None
  BY DEF Fresh, At, WInv, HandlerFits, Before
<1>2. CASE ClickVisible(t)
  <2>1. UNCHANGED <<run, done>> /\ last' \in {last, None} /\ panel' \in {panel, None}
    BY <1>2 DEF ClickVisible
  <2>2. Become(t, "dismiss", "message", None, None) => Idle(t)
    <3> DEFINE h == [kind |-> "dismiss", at |-> "message", of |-> None, from |-> None]
    <3>1. h \in Handlers
      BY DEF Handlers, Kinds, Places
    <3> QED BY <3>1 DEF Become, Idle, Plain, Trusting, Before
  <2>3. Arrives(t)
    <3>1. {"start", "open"} \subseteq Kinds \cap Preparing
      BY DEF Kinds, Preparing
    <3> QED BY <1>0, <1>1, <1>2, <2>2, <3>1, Begins, LastBegins DEF ClickVisible, Arrives
  <2> QED BY <1>0, <2>1, <2>3, QuietStep
<1>3. CASE ClickUnguarded(t)
  <2>1. UNCHANGED <<run, done, last, panel>>
    BY <1>3 DEF ClickUnguarded, shared
  <2>2. Arrives(t)
    <3>1. {"prepare", "reprepare"} \subseteq Kinds \cap Preparing /\ "review" \in Kinds
          /\ "review" \in Plain \ {"returned"}
      BY DEF Kinds, Preparing, Plain
    <3> QED BY <1>0, <1>1, <1>3, <3>1, Begins DEF ClickUnguarded, Arrives
  <2> QED BY <1>0, <2>1, <2>2, QuietStep
<1>4. CASE ClickLaunch(t)
  <2>1. UNCHANGED <<run, done, last, panel>>
    BY <1>4 DEF ClickLaunch, shared
  <2>2. Arrives(t)
    <3>1. "launch" \in Kinds /\ "artifacts" \in Plain \ {"returned"}
      BY DEF Kinds, Plain
    <3> QED BY <1>0, <1>4, <3>1, Begins DEF ClickLaunch, Arrives
  <2> QED BY <1>0, <2>1, <2>2, QuietStep
<1>5. CASE ClickRestart(t)
  <2>1. UNCHANGED <<run, done, last, panel>>
    BY <1>5 DEF ClickRestart, shared
  <2>2. Arrives(t)
    <3>1. "restart" \in Kinds /\ "restart" \in Preparing
      BY DEF Kinds, Preparing
    <3> QED BY <1>0, <1>1, <1>5, <3>1, Begins DEF ClickRestart, Arrives
  <2> QED BY <1>0, <2>1, <2>2, QuietStep
<1>6. CASE Reset(t)
  <2>1. UNCHANGED <<run, done>> /\ last' = None /\ panel' = None
    BY <1>6 DEF Reset
  <2>2. Arrives(t)
    <3>1. "restart" \in Kinds /\ "restart" \in Preparing
      BY DEF Kinds, Preparing
    <3> QED BY <1>1, <1>6, <3>1, Begins DEF Reset, Arrives
  <2> QED BY <1>0, <2>1, <2>2, QuietStep
<1> QED BY <1>2, <1>3, <1>4, <1>5, <1>6

\* The watchdog gives up on a preparation, and messages and questions end.
LEMMA GivenUpStep ==
  ASSUME WInv, NEW t \in Clicks,
         \/ Watchdog(t) \/ Confirm(t) \/ Dismiss(t) \/ AfterFailure(t)
         \/ Review(t) \/ ReviewBlocked(t)
  PROVE  WInv'
<1>0. /\ last # None => Reported(last.run, last.root)
      /\ panel # None => Reported(panel.run, panel.root)
      /\ done \in Clicks \cup {None}
  BY DEF WInv, ReportsFit, Types
<1>1. CASE Watchdog(t)
  <2>1. UNCHANGED <<run, last, panel>> /\ done' = None
    BY <1>1 DEF Watchdog
  <2>2. Arrives(t)
    BY <1>1, WithoutRunArrives DEF Watchdog, Arrives
  <2> QED BY <1>0, <2>1, <2>2, QuietStep
<1>2. CASE Dismiss(t)
  <2>1. UNCHANGED <<run, done, last, panel>>
    BY <1>2 DEF Dismiss
  <2>2. Arrives(t)
    BY <1>2, EndsIdle DEF Dismiss, Arrives
  <2> QED BY <1>0, <2>1, <2>2, QuietStep
<1>3. CASE AfterFailure(t)
  <2>1. UNCHANGED <<run, done, last, panel>>
    BY <1>3 DEF AfterFailure
  <2>2. Arrives(t)
    BY <1>3, EndsIdle, LastBegins DEF AfterFailure, Arrives
  <2> QED BY <1>0, <2>1, <2>2, QuietStep
<1>4. CASE Review(t)
  <2>1. Reported(handler[t].of, handler[t].from)
    BY <1>4 DEF Review, At, WInv, HandlerFits, Plain
  <2>2. UNCHANGED <<run, done, last>>
    BY <1>4 DEF Review
  <2>3. panel' = panel \/ panel' = Pair(handler[t].of, handler[t].from)
    BY <1>4 DEF Review, Show
  <2>4. panel' # None => Reported(panel'.run, panel'.root)
    BY <1>0, <2>1, <2>3 DEF Pair
  <2>5. Arrives(t)
    BY <1>4, EndsIdle, WithoutRunArrives DEF Review, Arrives
  <2> QED BY <1>0, <2>2, <2>4, <2>5, QuietStep
<1>5. CASE ReviewBlocked(t)
  <2>1. UNCHANGED <<run, done, last>> /\ panel' \in {panel, last}
    BY <1>5 DEF ReviewBlocked, Show
  <2>2. Arrives(t)
    BY <1>5, EndsIdle DEF ReviewBlocked, Arrives
  <2> QED BY <1>0, <2>1, <2>2, QuietStep
<1>6. CASE Confirm(t)
  <2>1. UNCHANGED <<run, done, last>> /\ panel' \in {panel, last}
    BY <1>6 DEF Confirm, Show
  <2>2. CASE UNCHANGED handler
    <3>1. Grown(t) /\ Moved(t) /\ HandlerFits(t)'
      BY <2>1, <2>2 DEF Grown, Moved, WInv, Types, RunFits, HandlerFits, Reported
    <3>2. /\ last' # None => Reported(last.run, last.root)'
          /\ panel' # None => Reported(panel.run, panel.root)'
      BY <1>0, <2>1 DEF Reported
    <3> QED BY <1>0, <2>1, <3>1, <3>2, StepFits
  <2>3. CASE Arrives(t)
    BY <1>0, <2>1, <2>3, QuietStep
  <2>4. UNCHANGED handler \/ Arrives(t)
    <3>1. "artifacts" \in Plain \ {"returned"} /\ (At(t, "confirm") => handler[t].at \in Plain)
      BY DEF Plain, At
    <3> QED BY <1>6, <3>1, EndsIdle, GoesOn DEF Confirm, Arrives
  <2> QED BY <2>2, <2>3, <2>4
<1> QED BY <1>1, <1>2, <1>3, <1>4, <1>5, <1>6

\* The command of a preparation that ended takes its report for the last one.
LEMMA RememberStep ==
  ASSUME WInv, NEW t \in Clicks, Remember(t)
  PROVE  WInv'
<1> DEFINE mine == Pair(t, handler[t].from)
<1>1. /\ handler[t].of = t /\ Reported(t, handler[t].from) /\ handler[t].kind \in Preparing
      /\ handler[t].at \in Plain
  BY DEF Remember, At, WInv, HandlerFits, Plain
<1>2. UNCHANGED <<run, done>> /\ last' = mine /\ panel' \in {panel, None}
  BY DEF Remember
<1>3. Reported(mine.run, mine.root)
  BY <1>1 DEF Pair
<1>4. Arrives(t)
  <2>1. Resolve(t, mine) => Idle(t) \/ Reports(t)
    BY <1>3, ResolveArrives
  <2>2. {"review", "confirm", "policy"} \subseteq Plain \ {"returned"}
    BY DEF Plain
  <2>3. \A p \in {"review", "confirm", "policy"} : Goto(t, p) => Reports(t)
    BY <1>1, <2>2, GoesOn
  <2>4. CASE Kind(t) = "reprepare"
    BY <2>3, <2>4 DEF Remember, Arrives
  <2>5. CASE Kind(t) = "prepare"
    BY <2>3, <2>5, EndsIdle DEF Remember, Arrives
  <2>6. CASE Kind(t) = "dynamic"
    BY <2>1, <2>3, <2>6 DEF Remember, Arrives
  <2>7. CASE Kind(t) = "open"
    <3>1. Goto(t, IF run[t].prep = "complete" THEN "confirm" ELSE "blocked")
      BY <2>7 DEF Remember
    <3> QED BY <2>3, <3>1, GoesOn DEF Arrives
  <2>8. CASE Kind(t) \in {"start", "restart"}
    <3>1. Goto(t, IF run[t].prep = "complete" THEN "policy" ELSE "blocked")
      BY <2>8 DEF Remember
    <3> QED BY <2>3, <3>1, GoesOn DEF Arrives
  <2> QED BY <1>1, <2>4, <2>5, <2>6, <2>7, <2>8 DEF Kind, Preparing
<1>5. done' \in Clicks \cup {None} /\ (panel' # None => Reported(panel'.run, panel'.root))
  BY <1>2 DEF WInv, Types, ReportsFit
<1> QED BY <1>2, <1>3, <1>4, <1>5, QuietStep

\* Between trust and the terminal nothing is written into the run.
LEMMA SessionStep ==
  ASSUME WInv, NEW t \in Clicks,
         Trust(t) \/ StartGateway(t) \/ GatewayReady(t) \/ GatewayNotReady(t) \/ StartThrows(t)
  PROVE  WInv'
<1>1. UNCHANGED <<run, done, last, panel>>
  BY DEF Trust, StartGateway, GatewayReady, GatewayNotReady, StartThrows
<1>2. Grown(t) /\ done' \in Clicks \cup {None}
  BY <1>1 DEF Grown, WInv, Types, RunFits
<1>3. /\ last' # None => Reported(last.run, last.root)'
      /\ panel' # None => Reported(panel.run, panel.root)'
  BY <1>1 DEF WInv, ReportsFit, Reported
<1>4. CASE UNCHANGED handler
  <2>1. Moved(t) /\ HandlerFits(t)'
    BY <1>1, <1>4 DEF Moved, WInv, Types, HandlerFits, Reported
  <2> QED BY <1>1, <1>2, <1>3, <2>1, StepFits
<1>5. CASE Trust(t) /\ Goto(t, "starting")
  <2> DEFINE h == [handler[t] EXCEPT !.at = "starting"]
  <2>1. h \in Handlers /\ handler' = [handler EXCEPT ![t] = h]
    BY <1>5 DEF Goto, WInv, Types, Handlers, Places, Trusting
  <2>2. Moved(t) /\ handler'[t] = h
    BY <2>1 DEF Moved, WInv, Types
  <2>3. handler[t].at = "trust" /\ h.at = "starting" /\ h.of = handler[t].of /\ h.from = handler[t].from
    BY <1>5 DEF Trust, At, WInv, Types, Handlers
  <2>4. Reported(handler[t].of, handler[t].from) /\ run[handler[t].of].policy
    BY <2>3 DEF WInv, HandlerFits, Trusting
  <2>5. HandlerFits(t)'
    BY <1>1, <2>2, <2>3, <2>4 DEF HandlerFits, Reported, Plain, Trusting, Before
  <2> QED BY <1>1, <1>2, <1>3, <2>2, <2>5, StepFits
<1>6. CASE Finish(t) \/ Tell(t, "failed")
  <2>1. Arrives(t)
    BY <1>6, EndsIdle DEF Arrives
  <2>2. last # None => Reported(last.run, last.root)
    BY DEF WInv, ReportsFit
  <2>3. panel # None => Reported(panel.run, panel.root)
    BY DEF WInv, ReportsFit
  <2> QED BY <1>1, <1>2, <2>1, <2>2, <2>3, QuietStep
<1> QED BY <1>4, <1>5, <1>6 DEF Trust, StartGateway, GatewayReady, GatewayNotReady, StartThrows

-----------------------------------------------------------------------------
(* The steps that write into a run.                                        *)

\* What is written into a run with a report: its policy, and its own source as session.
LEMMA WritesGrow ==
  ASSUME WInv, NEW t \in Clicks, NEW r \in Clicks, run[r].prep \in Prepared, NEW w \in Runs,
         w.root = run[r].root, w.prep = run[r].prep,
         run[r].policy => w.policy,
         run[r].session = run[r].root => w.session = w.root,
         run' = [run EXCEPT ![r] = w]
  PROVE  Grown(t) /\ run'[r] = w /\ \A q \in Clicks \ {r} : run'[q] = run[q]
<1>1. run \in [Clicks -> Runs]
  BY DEF WInv, Types
<1>2. run'[r] = w /\ \A q \in Clicks \ {r} : run'[q] = run[q]
  BY <1>1
<1>3. run' \in [Clicks -> Runs]
  BY <1>1, <1>2
<1>4. \A q \in Clicks : run[q].root = None => run[q].prep = "none"
  BY DEF WInv, RunFits
<1> QED BY <1>2, <1>3, <1>4 DEF Grown

\* The policy is written, by any of the commands that need it.
LEMMA PolicyStep ==
  ASSUME WInv, NEW t \in Clicks, WritePolicy(t) \/ Verify(t)
  PROVE  WInv'
<1> DEFINE r == handler[t].of
<1>1. Reported(r, handler[t].from) /\ handler[t] \in Handlers /\ handler[t].at \in {"policy", "resolved"}
  BY DEF WritePolicy, Verify, At, WInv, Types, HandlerFits, Plain
<1>2. UNCHANGED <<done, last, panel>>
  BY DEF WritePolicy, Verify
<1>3. PICK p \in {run[r].policy, TRUE} : run' = [run EXCEPT ![r].policy = p]
  BY <1>1 DEF WritePolicy, Verify, WInv, Types, Runs, Reported
<1> DEFINE w == [run[r] EXCEPT !.policy = p]
<1>4. /\ w \in Runs /\ w.root = run[r].root /\ w.prep = run[r].prep /\ w.policy = p
      /\ w.session = run[r].session /\ w.opened = run[r].opened /\ (run[r].policy => p)
      /\ run' = [run EXCEPT ![r] = w] /\ r \in Clicks /\ run[r].prep \in Prepared
  BY <1>1, <1>3 DEF WInv, Types, Runs, Reported
<1>5. Grown(t) /\ run'[r] = w /\ \A q \in Clicks \ {r} : run'[q] = run[q]
  <2> HIDE DEF w, r
  <2> QED BY <1>4, WritesGrow
<1>6. /\ last' # None => Reported(last.run, last.root)'
      /\ panel' # None => Reported(panel.run, panel.root)'
      /\ done' \in Clicks \cup {None}
  BY <1>2, <1>5 DEF WInv, Types, ReportsFit, Reported, Grown
<1>7. \A q \in Clicks : run'[q].opened => run[q].opened
  BY <1>4, <1>5
<1>8. CASE Idle(t) \/ Reports(t)
  <2>1. Moved(t) /\ HandlerFits(t)'
    BY <1>5, <1>8, ArrivalFits
  <2> QED BY <1>5, <1>6, <1>7, <2>1, StepFits
<1>9. CASE Goto(t, "trust") /\ run'[r].policy
  <2> DEFINE h == [handler[t] EXCEPT !.at = "trust"]
  <2>1. h \in Handlers /\ handler' = [handler EXCEPT ![t] = h]
    BY <1>9 DEF Goto, WInv, Types, Handlers, Places, Trusting
  <2>2. Moved(t) /\ handler'[t] = h
    BY <2>1 DEF Moved, WInv, Types
  <2>3. h.at = "trust" /\ h.of = r /\ h.from = handler[t].from
    BY <1>1 DEF Handlers
  <2>4. Reported(r, handler[t].from)'
    BY <1>1, <1>5, <2>2, <2>3 DEF Reported, Grown
  <2>5. HandlerFits(t)'
    BY <1>9, <2>2, <2>3, <2>4 DEF HandlerFits, Reported, Plain, Trusting, Before
  <2> QED BY <1>5, <1>6, <1>7, <2>2, <2>5, StepFits
<1>10. \/ Goto(t, "trust") /\ run'[r].policy
       \/ Idle(t) \/ Reports(t)
  <2>1. CASE WritePolicy(t)
    <3>1. {"confirm", "artifacts"} \subseteq Plain \ {"returned"} /\ handler[t].at \in Plain
      BY <1>1 DEF Plain
    <3> QED BY <2>1, <3>1, EndsIdle, GoesOn DEF WritePolicy
  <2>2. CASE Verify(t)
    <3>1. PICK written \in {run[r].policy, TRUE} :
            /\ run' = [run EXCEPT ![r].policy = written]
            /\ Finish(t) \/ (written /\ dynamicSession = None /\ Goto(t, "trust"))
      BY <2>2 DEF Verify
    <3>2. run'[r].policy = written
      BY <1>1, <3>1 DEF WInv, Types, Runs, Reported
    <3> QED BY <3>1, <3>2, EndsIdle
  <2> QED BY <2>1, <2>2
<1> QED BY <1>8, <1>9, <1>10

\* writePreparedArtifacts writes the session of the source the handler has with the run.
LEMMA ArtifactsStep ==
  ASSUME WInv, NEW t \in Clicks, WriteArtifacts(t)
  PROVE  WInv'
<1> DEFINE r == handler[t].of
<1>1. Reported(r, handler[t].from) /\ handler[t] \in Handlers /\ handler[t].at = "artifacts"
  BY DEF WriteArtifacts, At, WInv, Types, HandlerFits, Plain
<1>2. UNCHANGED <<done, last, panel>>
  BY DEF WriteArtifacts
<1>3. r \in Clicks /\ run[r] \in Runs /\ run[r].prep \in Prepared /\ run[r].root = handler[t].from
  BY <1>1 DEF Reported, WInv, Types
<1>4. PICK w \in Runs :
        /\ run' = [run EXCEPT ![r] = w]
        /\ w.root = run[r].root /\ w.prep = run[r].prep /\ w.opened = run[r].opened
        /\ run[r].policy => w.policy
        /\ run[r].session = run[r].root => w.session = w.root
        /\ \/ Goto(t, "opening") /\ w.policy /\ w.session = w.root
           \/ Fail(t)
  <2>1. CASE /\ run' = [run EXCEPT ![r].policy = TRUE, ![r].session = handler[t].from]
             /\ Goto(t, "opening")
    <3> DEFINE w == [run[r] EXCEPT !.policy = TRUE, !.session = run[r].root]
    <3>1. /\ w \in Runs /\ w.root = run[r].root /\ w.prep = run[r].prep /\ w.opened = run[r].opened
          /\ w.policy /\ w.session = w.root
      BY <1>3 DEF Runs
    <3>2. run' = [run EXCEPT ![r] = w]
      BY <1>3, <2>1 DEF WInv, Types, Runs
    <3> QED BY <2>1, <3>1, <3>2
  <2>2. CASE Fail(t) /\ run' \in {run, [run EXCEPT ![r].policy = TRUE]}
    <3>1. CASE run' = run
      <4>1. run' = [run EXCEPT ![r] = run[r]]
        BY <1>3, <3>1 DEF WInv, Types
      <4> QED BY <1>3, <2>2, <4>1
    <3>2. CASE run' = [run EXCEPT ![r].policy = TRUE]
      <4> DEFINE w == [run[r] EXCEPT !.policy = TRUE]
      <4>1. /\ w \in Runs /\ w.root = run[r].root /\ w.prep = run[r].prep /\ w.opened = run[r].opened
            /\ w.policy /\ w.session = run[r].session
        BY <1>3 DEF Runs
      <4>2. run' = [run EXCEPT ![r] = w]
        BY <1>3, <3>2 DEF WInv, Types, Runs
      <4> QED BY <2>2, <4>1, <4>2
    <3> QED BY <2>2, <3>1, <3>2
  <2> QED BY <2>1, <2>2 DEF WriteArtifacts
<1>5. Grown(t) /\ run'[r] = w /\ \A q \in Clicks \ {r} : run'[q] = run[q]
  <2> HIDE DEF r
  <2> QED BY <1>3, <1>4, WritesGrow
<1>6. /\ last' # None => Reported(last.run, last.root)'
      /\ panel' # None => Reported(panel.run, panel.root)'
      /\ done' \in Clicks \cup {None}
  BY <1>2, <1>5 DEF WInv, Types, ReportsFit, Reported, Grown
<1>7. \A q \in Clicks : run'[q].opened => run[q].opened
  BY <1>3, <1>4, <1>5
<1>8. CASE Fail(t)
  <2>1. Moved(t) /\ HandlerFits(t)'
    BY <1>5, <1>8, EndsIdle, ArrivalFits
  <2> QED BY <1>5, <1>6, <1>7, <2>1, StepFits
<1>9. CASE Goto(t, "opening") /\ w.policy /\ w.session = w.root
  <2> DEFINE h == [handler[t] EXCEPT !.at = "opening"]
  <2>1. h \in Handlers /\ handler' = [handler EXCEPT ![t] = h]
    BY <1>9 DEF Goto, WInv, Types, Handlers, Places
  <2>2. Moved(t) /\ handler'[t] = h
    BY <2>1 DEF Moved, WInv, Types
  <2>3. h.at = "opening" /\ h.of = r /\ h.from = handler[t].from
    BY <1>1 DEF Handlers
  <2>4. Reported(r, handler[t].from)' /\ run'[r].policy /\ run'[r].session = run'[r].root
    BY <1>1, <1>4, <1>5, <1>9, <2>2, <2>3 DEF Reported, Grown
  <2>5. HandlerFits(t)'
    BY <2>2, <2>3, <2>4 DEF HandlerFits, Reported, Plain, Trusting, Before
  <2> QED BY <1>5, <1>6, <1>7, <2>2, <2>5, StepFits
<1> QED BY <1>4, <1>8, <1>9

\* An agent is started in the run the artifacts were written into.
LEMMA OpenStep ==
  ASSUME WInv, NEW t \in Clicks, Open(t)
  PROVE  WInv'
<1> DEFINE r == handler[t].of
<1>1. /\ Reported(r, handler[t].from) /\ handler[t] \in Handlers
      /\ run[r].policy /\ run[r].session = run[r].root
  BY DEF Open, At, WInv, Types, HandlerFits
<1>2. UNCHANGED <<done, last>> /\ panel' \in {panel, None} /\ Idle(t)
  BY EndsIdle DEF Open
<1>3. r \in Clicks /\ run[r] \in Runs /\ run[r].prep \in Prepared
  BY <1>1 DEF Reported, WInv, Types
<1>4. PICK o \in {run[r].opened, TRUE} : run' = [run EXCEPT ![r].opened = o]
  BY <1>3 DEF Open, WInv, Types, Runs
<1> DEFINE w == [run[r] EXCEPT !.opened = o]
<1>5. /\ w \in Runs /\ w.root = run[r].root /\ w.prep = run[r].prep
      /\ w.policy /\ w.session = w.root
      /\ run' = [run EXCEPT ![r] = w]
  BY <1>1, <1>3, <1>4 DEF WInv, Types, Runs
<1>6. Grown(t) /\ run'[r] = w /\ \A q \in Clicks \ {r} : run'[q] = run[q]
  <2> HIDE DEF w, r
  <2> QED BY <1>3, <1>5, WritesGrow
<1>7. /\ last' # None => Reported(last.run, last.root)'
      /\ panel' # None => Reported(panel.run, panel.root)'
      /\ done' \in Clicks \cup {None}
  BY <1>2, <1>6 DEF WInv, Types, ReportsFit, Reported, Grown
<1>8. \A q \in Clicks : run'[q].opened =>
        \/ run[q].opened
        \/ run'[q].prep \in Prepared /\ run'[q].policy /\ run'[q].session = run'[q].root
  BY <1>3, <1>5, <1>6
<1>9. Moved(t) /\ HandlerFits(t)'
  BY <1>2, <1>6, ArrivalFits
<1> QED BY <1>6, <1>7, <1>8, <1>9, StepFits

-----------------------------------------------------------------------------
(* Preparing.                                                              *)

\* A preparation begins for a folder, as the run of its click.
LEMMA AnswerStep ==
  ASSUME WInv, NEW t \in Clicks, Answer(t)
  PROVE  WInv'
<1>1. /\ handler[t] \in Handlers /\ handler[t].kind \in Preparing
      /\ run[t] \in Runs /\ run[t].root = None /\ run[t].prep = "none" /\ ~run[t].opened
  BY DEF Answer, At, WInv, Types, HandlerFits, RunFits, Before, Prepared
<1>2. UNCHANGED <<last, panel>>
  BY DEF Answer
<1>3. CASE Cancelled(t) /\ UNCHANGED <<run, done>>
  <2>1. Arrives(t)
    BY <1>3, WithoutRunArrives DEF Arrives
  <2> QED BY <1>2, <1>3, <2>1, QuietStep DEF WInv, Types, ReportsFit
<1>4. ASSUME NEW s \in IF handler[t].from = None THEN Chosen ELSE {handler[t].from},
             Become(t, Kind(t), "preparing", t, s),
             run' = [run EXCEPT ![t].root = s, ![t].prep = "running"], done' = t
      PROVE  WInv'
  <2> DEFINE h == [kind |-> Kind(t), at |-> "preparing", of |-> t, from |-> s]
  <2>1. s \in Sources /\ s # None
    BY <1>1, <1>4, WindowAssumption DEF Handlers, Sources
  <2>2. h \in Handlers /\ handler' = [handler EXCEPT ![t] = h]
    BY <1>1, <1>4, <2>1 DEF Become, Handlers, Kind, Places
  <2>3. Moved(t) /\ handler'[t] = h
    BY <2>2 DEF Moved, WInv, Types
  <2>4. run'[t] = [run[t] EXCEPT !.root = s, !.prep = "running"]
        /\ \A q \in Clicks \ {t} : run'[q] = run[q]
    BY <1>4 DEF WInv, Types
  <2>5. [run[t] EXCEPT !.root = s, !.prep = "running"] \in Runs
    BY <1>1, <2>1 DEF Runs
  <2>6. run' \in [Clicks -> Runs]
    BY <1>4, <2>4, <2>5 DEF WInv, Types
  <2>7. run'[t].root = s /\ ~run'[t].opened /\ run'[t].policy = run[t].policy
    BY <1>1, <2>4 DEF Runs
  <2>8. run[t].prep \notin Prepared /\ \A q \in Clicks : run[q].root = None => run[q].prep = "none"
    BY <1>1 DEF WInv, RunFits, Prepared
  <2>9. Grown(t)
    BY <2>1, <2>4, <2>6, <2>7, <2>8 DEF Grown
  <2>10. /\ last' # None => Reported(last.run, last.root)'
         /\ panel' # None => Reported(panel.run, panel.root)'
    BY <1>2, <2>9 DEF WInv, ReportsFit, Reported, Grown
  <2>11. HandlerFits(t)'
    BY <1>1, <2>3, <2>7 DEF HandlerFits, Plain, Trusting, Before, Kind
  <2>12. \A q \in Clicks : run'[q].opened => run[q].opened
    BY <2>4, <2>7
  <2>13. done' \in Clicks \cup {None}
    BY <1>4
  <2> QED BY <2>3, <2>9, <2>10, <2>11, <2>12, <2>13, StepFits
<1> QED BY <1>3, <1>4 DEF Answer

\* A preparation ends, with a report for the command that still waits for it.
LEMMA SettleStep ==
  ASSUME WInv, NEW t \in Clicks, Settle(t)
  PROVE  WInv'
<1>1. /\ handler[t] \in Handlers /\ run[t] \in Runs /\ run[t].prep = "running"
      /\ run[t].root # None /\ ~run[t].opened
  BY DEF Settle, WInv, Types, RunFits, Prepared
<1>2. UNCHANGED <<last, panel>> /\ done' \in {done, None}
  BY DEF Settle
<1>3. PICK outcome \in Settled :
        /\ run' = [run EXCEPT ![t].prep = outcome]
        /\ \/ ~At(t, "preparing") /\ UNCHANGED handler
           \/ At(t, "preparing") /\ outcome \in Prepared /\ Goto(t, "returned")
           \/ Cancelled(t) \/ WithoutRun(t, Fail(t))
  BY DEF Settle, Settled
<1>4. run'[t] = [run[t] EXCEPT !.prep = outcome] /\ \A q \in Clicks \ {t} : run'[q] = run[q]
  BY <1>3 DEF WInv, Types
<1>5. [run[t] EXCEPT !.prep = outcome] \in Runs
  BY <1>1 DEF Runs
<1>6. run' \in [Clicks -> Runs]
  BY <1>3, <1>5 DEF WInv, Types
<1>7. run'[t].root = run[t].root /\ run'[t].prep = outcome /\ ~run'[t].opened /\ run'[t].policy = run[t].policy
  BY <1>1, <1>4 DEF Runs
<1>8. run[t].prep \notin Prepared /\ \A q \in Clicks : run[q].root = None => run[q].prep = "none"
  BY <1>1 DEF WInv, RunFits, Prepared
<1>9. Grown(t)
  <2>1. ASSUME NEW q \in Clicks, q # t PROVE run'[q] = run[q]
    BY <1>4, <2>1
  <2>2. run[t].prep \notin Prepared /\ run'[t].root # None /\ run'[t].policy = run[t].policy
    BY <1>1, <1>7, <1>8
  <2> QED BY <1>6, <1>8, <2>1, <2>2 DEF Grown
<1>10. /\ last' # None => Reported(last.run, last.root)'
       /\ panel' # None => Reported(panel.run, panel.root)'
       /\ done' \in Clicks \cup {None}
  BY <1>2, <1>9 DEF WInv, Types, ReportsFit, Reported, Grown
<1>11. \A q \in Clicks : run'[q].opened => run[q].opened
  BY <1>4, <1>7
<1>12. Moved(t) /\ HandlerFits(t)'
  <2>1. CASE ~At(t, "preparing") /\ UNCHANGED handler
    <3>1. Moved(t)
      BY <2>1 DEF Moved, WInv, Types
    <3>2. handler[t].at # "preparing" /\ handler[t].at # "returned"
      BY <1>1, <2>1 DEF At, WInv, HandlerFits, Plain, Reported, Prepared
    <3>3. \A r, s : Reported(r, s) => Reported(r, s)'
      BY <1>9 DEF Reported, Grown
    <3>4. \A r, s : Reported(r, s) => r # t
      BY <1>8 DEF Reported
    <3>5. \A r, s : Reported(r, s) => run'[r] = run[r]
      BY <1>4, <3>4 DEF Reported
    <3> QED BY <1>1, <2>1, <3>1, <3>2, <3>3, <3>5 DEF WInv, HandlerFits, Plain, Trusting, Before
  <2>2. CASE At(t, "preparing") /\ outcome \in Prepared /\ Goto(t, "returned")
    <3> DEFINE h == [handler[t] EXCEPT !.at = "returned"]
    <3>1. h \in Handlers /\ handler' = [handler EXCEPT ![t] = h]
      BY <1>1, <2>2 DEF Goto, Handlers, Places, Plain, WInv, Types
    <3>2. Moved(t) /\ handler'[t] = h
      BY <3>1 DEF Moved, WInv, Types
    <3>3. h.at = "returned" /\ h.of = handler[t].of /\ h.from = handler[t].from /\ h.kind = handler[t].kind
      BY <1>1 DEF Handlers
    <3>4. handler[t].of = t /\ run[t].root = handler[t].from /\ handler[t].kind \in Preparing
      BY <2>2 DEF At, WInv, HandlerFits
    <3>5. run[t].root \in Sources
      BY <1>1 DEF Runs
    <3>6. Reported(t, handler[t].from)'
      BY <1>7, <2>2, <3>2, <3>3, <3>4, <3>5 DEF Reported
    <3> QED BY <1>7, <3>2, <3>3, <3>4, <3>6 DEF HandlerFits, Reported, Plain, Trusting, Before
  <2>3. CASE Cancelled(t) \/ WithoutRun(t, Fail(t))
    <3>1. Idle(t) \/ Reports(t)
      BY <2>3, WithoutRunArrives
    <3> QED BY <1>9, <3>1, ArrivalFits
  <2> QED BY <1>3, <2>1, <2>2, <2>3
<1> QED BY <1>9, <1>10, <1>11, <1>12, StepFits

-----------------------------------------------------------------------------
\* Closing the panel, a terminal or a gateway leaves handlers and runs alone.
LEMMA ClosingStep ==
  ASSUME WInv,
         \/ ClosePanel \/ UNCHANGED vars
         \/ CloseTerminal \/ \E t \in Clicks : StopGateway(t)
  PROVE  WInv'
<1>1. UNCHANGED <<handler, run, done, last>> /\ panel' \in {panel, None}
  BY DEF ClosePanel, CloseTerminal, StopGateway, vars, shared
<1> QED BY <1>1 DEF WInv, Types, ReportsFit, RunFits, HandlerFits, Reported

\* The invariant holds in every state of a window, whatever its user does
\* and however many preparations and sessions it begins.
THEOREM WindowInvariant == Spec => []WInv
<1>1. Init => WInv
  <2> SUFFICES ASSUME Init PROVE WInv
    OBVIOUS
  <2>1. NoHandler("off") \in Handlers
    BY DEF NoHandler, Handlers, Kinds, Places, Before
  <2>2. [root |-> None, prep |-> "none", policy |-> FALSE, session |-> None, opened |-> FALSE] \in Runs
    BY DEF Runs
  <2>3. Types /\ ReportsFit
    BY <2>1, <2>2 DEF Init, Types, ReportsFit
  <2>4. \A t \in Clicks : RunFits(t) /\ HandlerFits(t)
    BY DEF Init, RunFits, HandlerFits, NoHandler, Plain, Trusting, Before
  <2> QED BY <2>3, <2>4 DEF WInv
<1>2. WInv /\ [Next]_vars => WInv'
  <2> SUFFICES ASSUME WInv, [Next]_vars PROVE WInv'
    OBVIOUS
  <2>1. CASE ClosePanel \/ UNCHANGED vars \/ CloseTerminal \/ \E t \in Clicks : StopGateway(t)
    BY <2>1, ClosingStep
  <2>2. ASSUME NEW t \in Clicks, Settle(t) \/ Answer(t) PROVE WInv'
    BY <2>2, SettleStep, AnswerStep
  <2>3. ASSUME NEW t \in Clicks, Host(t) PROVE WInv'
    BY <2>3, GivenUpStep, RememberStep, ClickStep, PolicyStep, ArtifactsStep, OpenStep, SessionStep DEF Host
  <2>4. ASSUME NEW t \in Clicks, User(t) PROVE WInv'
    BY <2>1, <2>4, ClickStep, AnswerStep, GivenUpStep, SessionStep DEF User
  <2> QED BY <2>1, <2>2, <2>3, <2>4 DEF Next
<1> QED BY <1>1, <1>2, PTL DEF Spec

\* An agent starts only in a run that ended with a report, under its policy
\* and its own source (launch.ts:778-803, extension.ts:322-334).
THEOREM WindowStartedInside == Spec => []StartedInside
<1>1. WInv => StartedInside
  <2> SUFFICES ASSUME WInv, NEW r \in Clicks
      PROVE  /\ run[r].opened =>
                  run[r].prep \in Prepared /\ run[r].policy /\ run[r].session = run[r].root
             /\ \A t \in Clicks : handler[t].of = r /\ handler[t].at \in {"trust", "starting"} =>
                  run[r].prep \in Prepared /\ run[r].policy
    BY DEF StartedInside
  <2>1. run[r].opened => run[r].prep \in Prepared /\ run[r].policy /\ run[r].session = run[r].root
    BY DEF WInv, RunFits
  <2>2. ASSUME NEW t \in Clicks, handler[t].of = r, handler[t].at \in {"trust", "starting"}
        PROVE  run[r].prep \in Prepared /\ run[r].policy
    BY <2>2 DEF WInv, HandlerFits, Reported, Trusting
  <2> QED BY <2>1, <2>2
<1> QED BY <1>1, WindowInvariant, PTL

-----------------------------------------------------------------------------
(* What a dynamic session leaves: the guard admits one command, so one     *)
(* start at a time, and the colours change hands once per session.         *)

InCommand(t) == Kind(t) \in Visible /\ Running(t)

OneCommand == \A t \in Clicks : InCommand(t) => guard /\ \A u \in Clicks : InCommand(u) => u = t

\* The awaits of a dynamic start, which only a dynamic command reaches.
Starting == {"resolved", "trust", "starting", "failed"}

\* While a session is started none is on hand.
NoneOnHand == \A t \in Clicks : handler[t].at \in Trusting => dynamicSession = None

Closing == {t \in Clicks : gateway[t] = "closing"}

ColoursFit ==
  IF dynamicSession = None /\ Closing = {} THEN colours = "user" /\ before = None
  ELSE /\ colours \in {"user", "yuhi"} /\ before = "user"
       /\ dynamicSession # None => Closing = {}
       /\ \A s, t \in Closing : s = t

ListenersFit ==
  \A t \in Clicks : gateway[t] = "listening" => dynamicSession = t \/ At(t, "starting") \/ t \in thrown

SInv ==
  /\ guard \in BOOLEAN /\ gateway \in [Clicks -> {"none", "listening", "closing"}]
  /\ dynamicSession \in Clicks \cup {None}
  /\ \A t \in Clicks : handler[t].at \in Starting => Kind(t) = "dynamic"
  /\ ~restarted => /\ OneCommand /\ NoneOnHand /\ ListenersFit
                   /\ ~overlapped /\ ~unrestored => ColoursFit

\* One handler moves: it keeps the guard, gives it up or takes it when it is free,
\* and it begins to start a session only when none is on hand.
Orderly(t) ==
  LET h    == handler'[t]
      then == h.kind \in Visible /\ h.at \notin {"off", "ended"}
  IN /\ \A u \in Clicks \ {t} : handler'[u] = handler[u]
     /\ h.at \in Starting => h.kind = "dynamic"
     /\ h.at \in Trusting => dynamicSession = None \/ handler[t].at \in Trusting
     /\ guard' \in BOOLEAN
     /\ \/ guard' = guard /\ (then => InCommand(t))
        \/ InCommand(t) /\ ~then
        \/ ~guard /\ guard'

\* The part of the invariant that is about the commands.
LEMMA OrderlyCommands ==
  ASSUME SInv, NEW t \in Clicks, Orderly(t)
  PROVE  /\ guard' \in BOOLEAN
         /\ \A u \in Clicks : handler'[u].at \in Starting => handler'[u].kind = "dynamic"
         /\ ~restarted => OneCommand'
         /\ ~restarted => \A u \in Clicks : handler'[u].at \in Trusting => dynamicSession = None
<1> DEFINE then == handler'[t].kind \in Visible /\ handler'[t].at \notin {"off", "ended"}
<1>1. \A u \in Clicks \ {t} : handler'[u] = handler[u]
  BY DEF Orderly
<1>2. \A u \in Clicks \ {t} : InCommand(u)' <=> InCommand(u)
  BY <1>1 DEF InCommand, Kind, Running
<1>3. InCommand(t)' <=> then
  BY DEF InCommand, Kind, Running
<1>4. ASSUME ~restarted PROVE OneCommand'
  <2>1. OneCommand
    BY <1>4 DEF SInv
  <2>2. CASE guard' = guard /\ (then => InCommand(t))
    BY <1>2, <1>3, <2>1, <2>2 DEF OneCommand
  <2>3. CASE InCommand(t) /\ ~then
    BY <1>2, <1>3, <2>1, <2>3 DEF OneCommand
  <2>4. CASE ~guard /\ guard'
    BY <1>2, <1>3, <2>1, <2>4 DEF OneCommand
  <2> QED BY <2>2, <2>3, <2>4 DEF Orderly
<1>5. \A u \in Clicks : handler'[u].at \in Starting => handler'[u].kind = "dynamic"
  BY <1>1 DEF Orderly, SInv, Kind
<1>6. ASSUME ~restarted, NEW u \in Clicks, handler'[u].at \in Trusting PROVE dynamicSession = None
  BY <1>1, <1>6 DEF Orderly, SInv, NoneOnHand
<1> QED BY <1>4, <1>5, <1>6 DEF Orderly

\* A step of the window that leaves the sessions alone keeps the invariant,
\* unless it takes the handler of a gateway that listens away from its start.
LEMMA OrderlyStep ==
  ASSUME SInv, NEW t \in Clicks, Orderly(t), UNCHANGED <<dynamic, restarted>>,
         At(t, "starting") => gateway[t] # "listening"
  PROVE  SInv'
<1>1. /\ guard' \in BOOLEAN
      /\ \A u \in Clicks : handler'[u].at \in Starting => handler'[u].kind = "dynamic"
      /\ ~restarted => OneCommand'
      /\ ~restarted => \A u \in Clicks : handler'[u].at \in Trusting => dynamicSession = None
  BY OrderlyCommands
<1>2. UNCHANGED <<gateway, dynamicSession, colours, before, unrestored, thrown, overlapped, restarted>>
  BY DEF dynamic, branding
<1>3. ~restarted => NoneOnHand'
  BY <1>1, <1>2 DEF NoneOnHand
<1>4. ~restarted => ListenersFit'
  BY <1>2 DEF SInv, ListenersFit, Orderly, At
<1>5. ColoursFit => ColoursFit'
  BY <1>2 DEF ColoursFit, Closing
<1> QED BY <1>1, <1>2, <1>3, <1>4, <1>5 DEF SInv, Kind

\* What does not touch handlers, the guard or the sessions.
LEMMA SessionStutter ==
  ASSUME SInv, UNCHANGED <<handler, guard, dynamic, restarted>>
  PROVE  SInv'
BY DEF SInv, dynamic, branding, OneCommand, InCommand, Running, Kind, At, NoneOnHand, ListenersFit, ColoursFit, Closing

\* The ways a handler that runs goes on are orderly.
LEMMA WaysOrderly ==
  ASSUME WInv, SInv, NEW t \in Clicks, Running(t)
  PROVE  /\ Tell(t, "message") => Orderly(t)
         /\ Kind(t) = "dynamic" /\ Tell(t, "failed") => Orderly(t)
         /\ \A r, s : Become(t, Kind(t), "preparing", r, s) /\ UNCHANGED guard => Orderly(t)
         /\ \A p : Goto(t, p) /\ p \notin Starting \cup {"ended", "off"} => Orderly(t)
         /\ Finish(t) => Orderly(t)
         /\ Fail(t) => Orderly(t)
         /\ \A report : Kind(t) = "dynamic" /\ Resolve(t, report) => Orderly(t)
<1>1. handler[t] \in Handlers /\ handler \in [Clicks -> Handlers] /\ guard \in BOOLEAN
  BY DEF WInv, Types, SInv
<1>2. ASSUME NEW k, NEW p, NEW r, NEW s, Become(t, k, p, r, s), UNCHANGED guard,
             p \notin Trusting, p \in Starting => k = "dynamic",
             k = Kind(t) \/ InCommand(t)
      PROVE  Orderly(t)
  <2>1. /\ handler'[t] = [kind |-> k, at |-> p, of |-> r, from |-> s]
        /\ \A u \in Clicks \ {t} : handler'[u] = handler[u]
    BY <1>1, <1>2 DEF Become
  <2>2. handler'[t].kind = k /\ handler'[t].at = p
    BY <2>1
  <2>3. k \in Visible => InCommand(t)
    BY <1>2 DEF InCommand
  <2> QED BY <1>1, <1>2, <2>1, <2>2, <2>3 DEF Orderly
<1>3. ASSUME NEW p, Goto(t, p), p \notin Starting \cup {"ended", "off"} PROVE Orderly(t)
  <2>1. /\ handler'[t] = [handler[t] EXCEPT !.at = p]
        /\ \A u \in Clicks \ {t} : handler'[u] = handler[u]
    BY <1>1, <1>3 DEF Goto
  <2>2. handler'[t].kind = Kind(t) /\ handler'[t].at = p
    BY <1>1, <2>1 DEF Handlers, Kind
  <2>3. Kind(t) \in Visible => InCommand(t)
    BY DEF InCommand
  <2> QED BY <1>1, <1>3, <2>1, <2>2, <2>3 DEF Orderly, Goto, Starting, Trusting
<1>4. ASSUME Finish(t) PROVE Orderly(t)
  <2>1. /\ handler'[t] = NoHandler("ended")
        /\ \A u \in Clicks \ {t} : handler'[u] = handler[u]
    BY <1>1, <1>4 DEF Finish
  <2>2. handler'[t].at = "ended"
    BY <2>1 DEF NoHandler
  <2>3. guard' = (guard /\ Kind(t) \notin Visible)
    BY <1>4 DEF Finish
  <2>4. guard' \in BOOLEAN
    BY <2>3
  <2>5. CASE Kind(t) \in Visible
    <3>1. InCommand(t)
      BY <2>5 DEF InCommand
    <3> QED BY <2>1, <2>2, <2>4, <3>1 DEF Orderly, Starting, Trusting
  <2>6. CASE Kind(t) \notin Visible
    <3>1. guard' = guard
      BY <1>1, <2>3, <2>6
    <3> QED BY <2>1, <2>2, <2>4, <3>1 DEF Orderly, Starting, Trusting
  <2> QED BY <2>5, <2>6
<1>5. Tell(t, "message") => Orderly(t)
  BY <1>2 DEF Tell, Starting, Trusting
<1>6. Kind(t) = "dynamic" /\ Tell(t, "failed") => Orderly(t)
  BY <1>2 DEF Tell, Trusting
<1>7. ASSUME NEW r, NEW s, Become(t, Kind(t), "preparing", r, s), UNCHANGED guard PROVE Orderly(t)
  BY <1>2, <1>7 DEF Starting, Trusting
<1>8. ASSUME NEW report, Kind(t) = "dynamic", Resolve(t, report) PROVE Orderly(t)
  BY <1>2, <1>4, <1>8 DEF Resolve, Trusting
<1>9. Fail(t) => Orderly(t)
  BY <1>4, <1>5 DEF Fail
<1> QED BY <1>3, <1>4, <1>5, <1>6, <1>7, <1>8, <1>9

\* So is what comes of a preparation without a report.
LEMMA WithoutRunOrderly ==
  ASSUME WInv, SInv, NEW t \in Clicks, Running(t)
  PROVE  /\ Cancelled(t) => Orderly(t)
         /\ WithoutRun(t, Fail(t)) => Orderly(t)
         /\ WithoutRun(t, Finish(t)) => Orderly(t)
         /\ WithoutRun(t, Tell(t, "message")) => Orderly(t)
BY WaysOrderly DEF Cancelled, WithoutRun

\* A click that begins a command finds the guard free; the others are not commands.
LEMMA ClickOrderly ==
  ASSUME WInv, SInv, NEW t \in Clicks,
         ClickVisible(t) \/ ClickUnguarded(t) \/ ClickLaunch(t) \/ ClickRestart(t)
  PROVE  SInv'
<1>1. handler \in [Clicks -> Handlers] /\ guard \in BOOLEAN
  BY DEF WInv, Types, SInv
<1>2. At(t, "off")
  BY DEF ClickVisible, ClickUnguarded, ClickLaunch, ClickRestart, Fresh
<1>3. ASSUME NEW k, NEW p, NEW r, NEW s, Become(t, k, p, r, s), p \notin Trusting, p \in Starting => k = "dynamic",
             (~guard /\ guard') \/ (guard' = guard /\ k \notin Visible), guard' \in BOOLEAN
      PROVE  Orderly(t)
  <2>1. /\ handler'[t] = [kind |-> k, at |-> p, of |-> r, from |-> s]
        /\ \A u \in Clicks \ {t} : handler'[u] = handler[u]
    BY <1>1, <1>3 DEF Become
  <2>2. handler'[t].kind = k /\ handler'[t].at = p
    BY <2>1
  <2> QED BY <1>3, <2>1, <2>2 DEF Orderly
<1>4. CASE ClickVisible(t)
  <2>1. ~guard /\ guard' /\ guard' \in BOOLEAN /\ UNCHANGED <<dynamic, restarted>>
    BY <1>4 DEF ClickVisible
  <2>2. \A k, p, r, s : Become(t, k, p, r, s) /\ p \notin Trusting /\ (p \in Starting => k = "dynamic") => Orderly(t)
    BY <1>3, <2>1
  <2>3. Orderly(t)
    BY <1>4, <2>2 DEF ClickVisible, OpenHere, BeginDynamic, Starting, Trusting
  <2> QED BY <1>2, <2>1, <2>3, OrderlyStep DEF At
<1>5. CASE ClickUnguarded(t) \/ ClickLaunch(t) \/ ClickRestart(t)
  <2>1. guard' = guard /\ guard' \in BOOLEAN /\ UNCHANGED <<dynamic, restarted>>
    BY <1>1, <1>5 DEF ClickUnguarded, ClickLaunch, ClickRestart, shared
  <2>2. \A k, p, r, s : Become(t, k, p, r, s) /\ p \notin Starting \cup Trusting /\ k \notin Visible => Orderly(t)
    BY <1>3, <2>1
  <2>3. Orderly(t)
    BY <1>5, <2>2 DEF ClickUnguarded, ClickLaunch, ClickRestart, Starting, Trusting, Visible
  <2> QED BY <1>2, <2>1, <2>3, OrderlyStep DEF At
<1> QED BY <1>4, <1>5

\* A restart frees the guard: under no command, or the observer says so.
LEMMA ResetOrderly ==
  ASSUME WInv, SInv, NEW t \in Clicks, Reset(t)
  PROVE  SInv'
<1>1. /\ handler'[t] = [kind |-> "restart", at |-> "ask", of |-> None, from |-> None]
      /\ \A u \in Clicks \ {t} : handler'[u] = handler[u]
      /\ At(t, "waiting") /\ guard' = FALSE
      /\ UNCHANGED <<gateway, dynamicSession, colours, before, unrestored, thrown, overlapped>>
  BY DEF Reset, Become, WInv, Types, dynamic, branding
<1>2. handler'[t].kind = "restart" /\ handler'[t].at = "ask"
  BY <1>1
<1>3. \A u \in Clicks : handler'[u].at \in Starting \cup Trusting =>
        u # t /\ handler'[u] = handler[u]
  BY <1>1, <1>2 DEF Starting, Trusting
<1>4. ASSUME ~restarted' PROVE ~restarted /\ OneCommand' /\ NoneOnHand' /\ ListenersFit'
  <2>1. ~restarted /\ \A u \in Clicks : ~InCommand(u)
    BY <1>4 DEF Reset, InCommand
  <2>2. \A u \in Clicks : ~InCommand(u)'
    BY <1>1, <1>2, <2>1 DEF InCommand, Kind, Running, Visible
  <2>3. NoneOnHand'
    BY <1>1, <1>3, <2>1 DEF SInv, NoneOnHand
  <2>4. ListenersFit'
    BY <1>1, <2>1 DEF SInv, ListenersFit, At
  <2> QED BY <2>1, <2>2, <2>3, <2>4 DEF OneCommand
<1>5. ColoursFit => ColoursFit'
  BY <1>1 DEF ColoursFit, Closing
<1>6. \A u \in Clicks : handler'[u].at \in Starting => handler'[u].kind = "dynamic"
  BY <1>3 DEF SInv, Kind
<1> QED BY <1>1, <1>4, <1>5, <1>6 DEF SInv, Kind

\* The steps of a handler that leave the sessions alone.
LEMMA HandlerOrderly ==
  ASSUME WInv, SInv, NEW t \in Clicks,
         \/ Answer(t) \/ Settle(t) \/ Watchdog(t) \/ Remember(t) \/ Review(t) \/ ReviewBlocked(t)
         \/ WritePolicy(t) \/ Confirm(t) \/ WriteArtifacts(t) \/ Open(t) \/ Dismiss(t)
  PROVE  SInv'
<1>1. UNCHANGED <<dynamic, restarted>>
  BY DEF Answer, Settle, Watchdog, Remember, Review, ReviewBlocked, WritePolicy, Confirm,
         WriteArtifacts, Open, Dismiss
<1>2. CASE UNCHANGED <<handler, guard>>
  BY <1>1, <1>2, SessionStutter
<1>3. CASE ~UNCHANGED <<handler, guard>>
  <2>1. handler[t].at \in {"ask", "preparing", "returned", "review", "blocked", "policy", "confirm",
                           "artifacts", "opening", "message"}
    BY <1>3 DEF Answer, Settle, Watchdog, Remember, Review, ReviewBlocked, WritePolicy, Confirm,
                WriteArtifacts, Open, Dismiss, At
  <2>2. Running(t)
    BY <2>1 DEF Running
  <2>3. /\ Tell(t, "message") => Orderly(t)
        /\ \A r, s : Become(t, Kind(t), "preparing", r, s) /\ UNCHANGED guard => Orderly(t)
        /\ \A p \in {"returned", "review", "policy", "blocked", "confirm", "artifacts", "opening"} :
             Goto(t, p) => Orderly(t)
        /\ Finish(t) => Orderly(t)
        /\ Fail(t) => Orderly(t)
        /\ \A report : Kind(t) = "dynamic" /\ Resolve(t, report) => Orderly(t)
    BY <2>2, WaysOrderly DEF Starting
  <2>4. /\ Cancelled(t) => Orderly(t)
        /\ WithoutRun(t, Fail(t)) => Orderly(t)
        /\ WithoutRun(t, Finish(t)) => Orderly(t)
        /\ WithoutRun(t, Tell(t, "message")) => Orderly(t)
    BY <2>2, WithoutRunOrderly
  <2>5. Orderly(t)
    <3>1. CASE Answer(t)
      BY <1>3, <2>3, <2>4, <3>1 DEF Answer
    <3>2. CASE Settle(t) \/ Watchdog(t)
      BY <1>3, <2>3, <2>4, <3>2 DEF Settle, Watchdog
    <3>3. CASE Remember(t)
      <4>1. handler[t].kind \in Preparing
        BY <3>3 DEF Remember, At, WInv, HandlerFits
      <4> QED BY <2>3, <3>3, <4>1 DEF Remember, Kind, Preparing
    <3>4. CASE Review(t) \/ ReviewBlocked(t)
      BY <2>3, <2>4, <3>4 DEF Review, ReviewBlocked
    <3>5. CASE WritePolicy(t) \/ Confirm(t) \/ WriteArtifacts(t) \/ Open(t) \/ Dismiss(t)
      BY <1>3, <2>3, <3>5 DEF WritePolicy, Confirm, WriteArtifacts, Open, Dismiss
    <3> QED BY <3>1, <3>2, <3>3, <3>4, <3>5
  <2> QED BY <1>1, <2>1, <2>5, OrderlyStep DEF At
<1> QED BY <1>2, <1>3

\* A dynamic start up to its gateway, and after it failed.
LEMMA StartOrderly ==
  ASSUME WInv, SInv, NEW t \in Clicks, Verify(t) \/ Trust(t) \/ AfterFailure(t)
  PROVE  SInv'
<1>1. UNCHANGED <<dynamic, restarted>> /\ handler[t].at \in {"resolved", "trust", "failed"}
  BY DEF Verify, Trust, AfterFailure, At
<1>2. Running(t) /\ Kind(t) = "dynamic" /\ InCommand(t)
  BY <1>1 DEF Running, InCommand, SInv, Starting, Visible
<1>3. handler[t] \in Handlers /\ handler \in [Clicks -> Handlers] /\ guard \in BOOLEAN
  BY DEF WInv, Types, SInv
<1>4. ASSUME NEW p \in Trusting, Goto(t, p), dynamicSession = None \/ handler[t].at \in Trusting
      PROVE  Orderly(t)
  <2>1. /\ handler'[t] = [handler[t] EXCEPT !.at = p]
        /\ \A u \in Clicks \ {t} : handler'[u] = handler[u]
    BY <1>3, <1>4 DEF Goto
  <2>2. handler'[t].kind = "dynamic"
    BY <1>2, <1>3, <2>1 DEF Handlers, Kind
  <2>3. guard' = guard
    BY <1>4 DEF Goto
  <2> QED BY <1>2, <1>3, <1>4, <2>1, <2>2, <2>3 DEF Orderly
<1>5. CASE Verify(t)
  <2>1. Finish(t) \/ (dynamicSession = None /\ Goto(t, "trust"))
    BY <1>5 DEF Verify
  <2> QED BY <1>1, <1>2, <1>4, <2>1, WaysOrderly, OrderlyStep DEF Trusting, At
<1>6. CASE Trust(t)
  <2>1. handler[t].at \in Trusting /\ (Goto(t, "starting") \/ Finish(t))
    BY <1>6 DEF Trust, At, Trusting
  <2> QED BY <1>1, <1>2, <1>4, <1>6, <2>1, WaysOrderly, OrderlyStep DEF Trust, Trusting, At
<1>7. CASE AfterFailure(t)
  <2>1. CASE Finish(t)
    BY <1>1, <1>2, <2>1, WaysOrderly, OrderlyStep DEF At
  <2>2. CASE (BeginDynamic(t) \/ OpenHere(t)) /\ UNCHANGED guard
    <3>1. PICK k, p, r, s : /\ Become(t, k, p, r, s) /\ p \notin Trusting
                            /\ p \in Starting => k = "dynamic"
      BY <2>2 DEF BeginDynamic, OpenHere, Trusting, Starting
    <3>2. /\ handler'[t] = [kind |-> k, at |-> p, of |-> r, from |-> s]
          /\ \A u \in Clicks \ {t} : handler'[u] = handler[u]
      BY <1>3, <3>1 DEF Become
    <3>3. handler'[t].kind = k /\ handler'[t].at = p
      BY <3>2
    <3>4. Orderly(t)
      BY <1>2, <1>3, <2>2, <3>1, <3>2, <3>3 DEF Orderly
    <3> QED BY <1>1, <3>4, OrderlyStep DEF At
  <2> QED BY <1>7, <2>1, <2>2 DEF AfterFailure
<1> QED BY <1>5, <1>6, <1>7

-----------------------------------------------------------------------------
(* The steps of the sessions themselves.                                   *)

\* A gateway is started; it fails at once, or in time, or the session is on hand.
LEMMA GatewayStep ==
  ASSUME WInv, SInv, NEW t \in Clicks,
         StartGateway(t) \/ GatewayReady(t) \/ GatewayNotReady(t) \/ StartThrows(t)
  PROVE  SInv'
<1>1. At(t, "starting") /\ gateway[t] # "closing" /\ restarted' = restarted
  BY DEF StartGateway, GatewayReady, GatewayNotReady, StartThrows
<1>2. Running(t) /\ Kind(t) = "dynamic" /\ InCommand(t)
  BY <1>1 DEF At, Running, InCommand, SInv, Starting, Visible
<1>3. gateway \in [Clicks -> {"none", "listening", "closing"}] /\ handler \in [Clicks -> Handlers]
  BY DEF SInv, WInv, Types
<1>4. ASSUME ~restarted
      PROVE  /\ dynamicSession = None /\ ListenersFit /\ OneCommand
             /\ \A u \in Clicks : handler[u].at \in Trusting => u = t
  <2>1. OneCommand /\ NoneOnHand /\ ListenersFit
    BY <1>4 DEF SInv
  <2>2. \A u \in Clicks : handler[u].at \in Trusting => InCommand(u)
    BY DEF SInv, InCommand, Running, Starting, Trusting, Visible
  <2> QED BY <1>1, <1>2, <2>1, <2>2 DEF OneCommand, NoneOnHand, At, Trusting
<1>5. CASE StartGateway(t) /\ gateway' = [gateway EXCEPT ![t] = "listening"] /\ UNCHANGED <<handler, guard>>
  <2>1. UNCHANGED <<handler, guard, dynamicSession, colours, before, unrestored, thrown, overlapped, restarted>>
    BY <1>5 DEF StartGateway, branding
  <2>2. gateway' \in [Clicks -> {"none", "listening", "closing"}] /\ Closing' = Closing
    BY <1>1, <1>3, <1>5 DEF Closing
  <2>3. ListenersFit => ListenersFit'
    BY <1>1, <1>3, <1>5, <2>1 DEF ListenersFit, At
  <2>4. ColoursFit => ColoursFit'
    BY <2>1, <2>2 DEF ColoursFit
  <2>5. (OneCommand => OneCommand') /\ (NoneOnHand => NoneOnHand')
    BY <2>1 DEF OneCommand, InCommand, Kind, Running, NoneOnHand
  <2> QED BY <2>1, <2>2, <2>3, <2>4, <2>5 DEF SInv, Kind
<1>6. CASE StartGateway(t) /\ Tell(t, "failed") /\ UNCHANGED gateway
  <2>1. Orderly(t)
    BY <1>2, <1>6, WaysOrderly
  <2> QED BY <1>6, <2>1, OrderlyStep DEF StartGateway, dynamic
<1>7. CASE GatewayReady(t)
  <2>1. /\ dynamicSession' = t /\ before' = colours /\ colours' \in {"yuhi", colours}
        /\ UNCHANGED <<gateway, thrown, unrestored>>
        /\ ~overlapped' => ~overlapped /\ Closing = {}
    BY <1>7 DEF GatewayReady, Closing
  <2>2. Orderly(t) /\ handler'[t].at = "ended"
    BY <1>2, <1>3, <1>7, WaysOrderly DEF GatewayReady, Finish, NoHandler
  <2>3. \A u \in Clicks \ {t} : handler'[u] = handler[u]
    BY <2>2 DEF Orderly
  <2>4. ASSUME ~restarted PROVE NoneOnHand' /\ ListenersFit' /\ (~overlapped' /\ ~unrestored' => ColoursFit')
    <3>1. NoneOnHand'
      BY <1>4, <2>2, <2>3, <2>4 DEF NoneOnHand, Trusting
    <3>2. ListenersFit'
      BY <1>1, <1>4, <2>1, <2>4, WindowAssumption DEF ListenersFit, At, Trusting, Clicks
    <3>3. ASSUME ~overlapped', ~unrestored' PROVE ColoursFit'
      <4>1. ColoursFit /\ Closing = {} /\ t # None
        BY <2>1, <2>4, <3>3, WindowAssumption DEF SInv, Clicks
      <4>2. colours = "user" /\ Closing' = {}
        BY <1>4, <2>1, <2>4, <4>1 DEF ColoursFit, Closing
      <4> QED BY <2>1, <4>1, <4>2 DEF ColoursFit
    <3> QED BY <3>1, <3>2, <3>3
  <2> QED BY <1>1, <1>3, <2>1, <2>2, <2>4, OrderlyCommands DEF SInv, Kind
<1>8. CASE GatewayNotReady(t)
  <2>1. /\ gateway' = [gateway EXCEPT ![t] = "none"]
        /\ UNCHANGED <<dynamicSession, colours, before, unrestored, thrown, overlapped>>
    BY <1>8 DEF GatewayNotReady, branding
  <2>2. Orderly(t) /\ handler'[t].at = "failed"
    BY <1>2, <1>3, <1>8, WaysOrderly DEF GatewayNotReady, Tell, Become
  <2>3. gateway' \in [Clicks -> {"none", "listening", "closing"}] /\ Closing' = Closing
    BY <1>1, <1>3, <2>1 DEF Closing
  <2>4. ColoursFit => ColoursFit'
    BY <2>1, <2>3 DEF ColoursFit
  <2>5. ListenersFit => ListenersFit'
    BY <1>3, <2>1, <2>2 DEF ListenersFit, At, Orderly
  <2>6. ~restarted => NoneOnHand'
    BY <2>1, <2>2, OrderlyCommands DEF NoneOnHand
  <2> QED BY <1>1, <2>1, <2>2, <2>3, <2>4, <2>5, <2>6, OrderlyCommands DEF SInv, Kind
<1>9. CASE StartThrows(t)
  <2>1. /\ thrown' = thrown \cup {t}
        /\ UNCHANGED <<gateway, dynamicSession, colours, before, unrestored, overlapped>>
    BY <1>9 DEF StartThrows, branding
  <2>2. Orderly(t)
    BY <1>2, <1>9, WaysOrderly DEF StartThrows
  <2>3. ColoursFit => ColoursFit'
    BY <2>1 DEF ColoursFit, Closing
  <2>4. ListenersFit => ListenersFit'
    BY <2>1, <2>2 DEF ListenersFit, At, Orderly
  <2>5. ~restarted => NoneOnHand'
    BY <2>1, <2>2, OrderlyCommands DEF NoneOnHand
  <2> QED BY <1>1, <2>1, <2>2, <2>3, <2>4, <2>5, OrderlyCommands DEF SInv, Kind
<1> QED BY <1>5, <1>6, <1>7, <1>8, <1>9 DEF StartGateway

\* A terminal closes, and the gateway of the session on hand with it.
LEMMA CloseStep ==
  ASSUME WInv, SInv, CloseTerminal \/ \E t \in Clicks : StopGateway(t)
  PROVE  SInv'
<1>1. UNCHANGED <<handler, guard, thrown, overlapped, restarted>>
  BY DEF CloseTerminal, StopGateway, shared
<1>2. gateway \in [Clicks -> {"none", "listening", "closing"}] /\ dynamicSession \in Clicks \cup {None} /\ None \notin Clicks
  BY WindowAssumption DEF SInv, Clicks
<1>3. (OneCommand => OneCommand') /\ \A u \in Clicks : handler'[u].at \in Starting => Kind(u)' = "dynamic"
  BY <1>1 DEF OneCommand, InCommand, Kind, Running, SInv
<1>4. CASE CloseTerminal
  <2>1. /\ dynamicSession # None /\ gateway' = [gateway EXCEPT ![dynamicSession] = "closing"]
        /\ dynamicSession' = None /\ UNCHANGED <<colours, before, unrestored>>
    BY <1>4 DEF CloseTerminal, branding
  <2>2. gateway' \in [Clicks -> {"none", "listening", "closing"}] /\ NoneOnHand'
    BY <1>2, <2>1 DEF NoneOnHand
  <2>3. ListenersFit => ListenersFit'
    BY <1>1, <1>2, <2>1 DEF ListenersFit, At
  <2>4. ASSUME ColoursFit PROVE ColoursFit'
    <3>1. Closing = {}
      BY <2>1, <2>4 DEF ColoursFit
    <3>2. Closing' = {dynamicSession}
      BY <1>2, <2>1, <3>1 DEF Closing
    <3> QED BY <2>1, <2>4, <3>2 DEF ColoursFit
  <2> QED BY <1>1, <1>3, <2>1, <2>2, <2>3, <2>4 DEF SInv
<1>5. ASSUME NEW t \in Clicks, StopGateway(t) PROVE SInv'
  <2>1. /\ t \in Closing /\ gateway' = [gateway EXCEPT ![t] = "none"] /\ dynamicSession' = dynamicSession
        /\ before' = None
        /\ unrestored' \/ (unrestored' = unrestored /\ colours' = IF before = None THEN colours ELSE before)
    BY <1>5 DEF StopGateway, Closing
  <2>2. gateway' \in [Clicks -> {"none", "listening", "closing"}] /\ Closing' = Closing \ {t}
    BY <1>2, <2>1 DEF Closing
  <2>3. (ListenersFit => ListenersFit') /\ (NoneOnHand => NoneOnHand')
    BY <1>1, <1>2, <2>1 DEF ListenersFit, NoneOnHand, At
  <2>4. ASSUME ColoursFit, ~unrestored' PROVE ColoursFit'
    <3>1. dynamicSession = None /\ before = "user" /\ before # None /\ Closing = {t}
      BY <2>1, <2>4, WindowAssumption DEF ColoursFit
    <3>2. Closing' = {}
      BY <2>2, <3>1
    <3> QED BY <2>1, <2>4, <3>1, <3>2 DEF ColoursFit
  <2>5. ~unrestored' => ~unrestored
    BY <1>5 DEF StopGateway
  <2> QED BY <1>1, <1>2, <1>3, <2>1, <2>2, <2>3, <2>4, <2>5 DEF SInv
<1> QED BY <1>4, <1>5

\* No gateway is left listening and the user's colours come back, unless a start threw after
\* its gateway listened, the colours could not be put back, or a restart or an overlap came
\* between (extension.ts:241-243,3742).
THEOREM WindowSessionLeavesNothing == Spec => []SessionLeavesNothing
<1>1. Init => SInv
  <2> SUFFICES ASSUME Init PROVE SInv
    OBVIOUS
  <2>1. \A t \in Clicks : handler[t].at = "off" /\ gateway[t] = "none"
    BY DEF Init, NoHandler
  <2>2. OneCommand /\ NoneOnHand /\ ListenersFit
    BY <2>1 DEF OneCommand, InCommand, Running, NoneOnHand, Trusting, ListenersFit
  <2>3. ColoursFit
    BY <2>1 DEF Init, ColoursFit, Closing
  <2> QED BY <2>1, <2>2, <2>3 DEF Init, SInv, Starting
<1>2. WInv /\ SInv /\ [Next]_vars => SInv'
  <2> SUFFICES ASSUME WInv, SInv, [Next]_vars PROVE SInv'
    OBVIOUS
  <2>1. CASE ClosePanel \/ UNCHANGED vars
    BY <2>1, SessionStutter DEF ClosePanel, vars, shared
  <2>2. ASSUME NEW t \in Clicks, Settle(t) \/ Answer(t) PROVE SInv'
    BY <2>2, HandlerOrderly
  <2>3. ASSUME NEW t \in Clicks, Host(t) PROVE SInv'
    BY <2>3, HandlerOrderly, ResetOrderly, StartOrderly, GatewayStep DEF Host
  <2>4. ASSUME NEW t \in Clicks, User(t) PROVE SInv'
    BY <2>4, ClickOrderly, HandlerOrderly, StartOrderly DEF User
  <2>5. CASE CloseTerminal \/ \E t \in Clicks : StopGateway(t)
    BY <2>5, CloseStep
  <2> QED BY <2>1, <2>2, <2>3, <2>4, <2>5 DEF Next
<1>3. SInv => SessionLeavesNothing
  BY DEF SInv, ListenersFit, ColoursFit, Closing, SessionLeavesNothing
<1> QED BY <1>1, <1>2, <1>3, WindowInvariant, PTL DEF Spec

=============================================================================
