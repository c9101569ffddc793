----------------------- MODULE PrepareWorkspaceProofs -----------------------
(***************************************************************************)
(* Proofs about a preparation, for every workspace, rule list, safety mode *)
(* and wish, and any number of files, edits and failures: its types, what  *)
(* the fold decides, that rules hold against every route, and that the     *)
(* report and the queue tell what is on disk, that an edit is noticed, and *)
(* under a condition on the names of rules that the safety modes are       *)
(* ordered and that credentials stay.                                      *)
(***************************************************************************)
EXTENDS PrepareWorkspace, SequenceTheorems, TLAPS

-----------------------------------------------------------------------------
(* What the fold decides.                                                  *)

Decisions == [action : Actions, winner : RuleNames \cup {"default"}, processors : SUBSET Processors]

PolicyOK ==
    /\ file \in [Files -> Kinds] /\ rules \in Seq(Rules) /\ default \in Actions
    /\ next \in Nat \ {0} /\ folded \in [Files -> Decisions]

PolicyInv == PolicyOK /\ MostRestrictive

\* A rank is a number.
LEMMA RankType == ASSUME NEW a \in Actions PROVE Rank[a] \in 0 .. 8
BY DEF Rank, Actions

\* The decisions before any rule.
LEMMA InitPolicyInv == PolicyInit => PolicyInv
  <1> SUFFICES ASSUME PolicyInit PROVE PolicyInv
    OBVIOUS
  <1>1. PICK p \in Policies : rules = p.rules /\ default = p.default
    BY DEF PolicyInit
  <1>2. rules \in Seq(Rules) /\ default \in Actions
    BY <1>1, PolicyAssumption
  <1>3. PolicyOK
    BY <1>2, PolicyAssumption DEF PolicyInit, PolicyOK, Decisions
  <1>4. MostRestrictive
    <2>1. Rank[default] <= Rank[default] /\ 1 .. (next - 1) = {}
      BY <1>2, RankType DEF PolicyInit
    <2> QED BY <2>1 DEF PolicyInit, MostRestrictive
  <1> QED BY <1>3, <1>4 DEF PolicyInv

\* Merging a rule gives the more restrictive of the two actions, and names its rule.
LEMMA MergeJoins ==
  ASSUME NEW d \in Decisions, NEW rule \in Rules
  PROVE  /\ Merge(d, rule) \in Decisions
         /\ Rank[d.action] <= Rank[Merge(d, rule).action]
         /\ Rank[rule.action] <= Rank[Merge(d, rule).action]
         /\ \/ Merge(d, rule) = d
            \/ Merge(d, rule).action = rule.action /\ Merge(d, rule).winner = rule.name
  <1>1. d.action \in Actions /\ rule.action \in Actions
    BY DEF Decisions, Rules
  <1>2. Rank[d.action] \in Nat /\ Rank[rule.action] \in Nat
    BY <1>1, RankType
  <1>3. rule.name \in RuleNames /\ rule.processors \in SUBSET Processors
    BY DEF Rules
  <1>4. CASE Merge(d, rule) = d
    BY <1>2, <1>4 DEF Merge
  <1>5. CASE Merge(d, rule) # d
    <2>1. Merge(d, rule) = [action |-> rule.action, winner |-> rule.name, processors |-> rule.processors]
      BY <1>5 DEF Merge
    <2>2. Rank[d.action] <= Rank[rule.action]
      BY <1>2, <1>5 DEF Merge
    <2> QED BY <1>1, <1>2, <1>3, <2>1, <2>2 DEF Decisions
  <1> QED BY <1>4, <1>5

\* Looking at one more rule keeps what the decisions owe to the rules before it.
LEMMA FoldPolicyInv == ASSUME PolicyInv, ApplyRule PROVE PolicyInv'
  <1> USE DEF PolicyInv
  <1>1. rules[next] \in Rules /\ next \in Nat \ {0}
    BY LenProperties DEF ApplyRule, PolicyOK
  <1>2. \A f \in Files : folded[f] \in Decisions
    BY DEF PolicyOK
  <1>3. PolicyOK'
    BY <1>1, <1>2, MergeJoins DEF ApplyRule, PolicyOK
  <1>4. ASSUME NEW f \in Files
        PROVE  /\ folded'[f] \in Decisions
               /\ Rank[folded[f].action] <= Rank[folded'[f].action]
               /\ Matches(rules[next], f) => Rank[rules[next].action] <= Rank[folded'[f].action]
               /\ \/ folded'[f] = folded[f]
                  \/ /\ Matches(rules[next], f)
                     /\ folded'[f].winner = rules[next].name /\ folded'[f].action = rules[next].action
    <2>1. folded[f].action \in Actions /\ Rank[folded[f].action] \in Nat
      BY <1>2, RankType DEF Decisions
    <2>2. CASE Matches(rules[next], f)
      BY <1>1, <1>2, <2>2, MergeJoins DEF ApplyRule
    <2>3. CASE ~Matches(rules[next], f)
      BY <1>2, <2>1, <2>3 DEF ApplyRule
    <2> QED BY <2>2, <2>3
  <1>5. ASSUME NEW f \in Files, NEW i \in 1 .. (next' - 1)
        PROVE  rules' = rules /\ (Matches(rules[i], f)' <=> Matches(rules[i], f))
    BY DEF ApplyRule, Matches, Findings, FileType, Scanned
  <1>6. MostRestrictive'
    <2> SUFFICES ASSUME NEW f \in Files
                 PROVE  /\ Rank[default] <= Rank[folded'[f].action]
                        /\ \A i \in 1 .. next :
                             Matches(rules[i], f) => Rank[rules[i].action] <= Rank[folded'[f].action]
                        /\ \/ folded'[f].winner = "default" /\ folded'[f].action = default
                           \/ \E i \in 1 .. next : /\ Matches(rules[i], f)
                                                   /\ folded'[f].winner = rules[i].name
                                                   /\ folded'[f].action = rules[i].action
      <3>1. rules' = rules /\ default' = default /\ next' - 1 = next /\ file' = file
        BY <1>1 DEF ApplyRule
      <3>2. \A g \in Files : Findings(g)' = Findings(g)
        BY <3>1 DEF Findings, FileType, Scanned
      <3> QED BY <3>1, <3>2 DEF MostRestrictive, Matches
    <2>1. /\ Rank[default] \in Nat /\ Rank[folded[f].action] \in Nat /\ Rank[folded'[f].action] \in Nat
          /\ \A i \in 1 .. next : rules[i] \in Rules /\ Rank[rules[i].action] \in Nat
      <3>1. \A i \in 1 .. next : rules[i] \in Rules
        BY <1>1, LenProperties DEF ApplyRule, PolicyOK
      <3>2. folded[f].action \in Actions /\ folded'[f].action \in Actions /\ default \in Actions
        BY <1>2, <1>4 DEF Decisions, PolicyOK
      <3>3. \A i \in 1 .. next : rules[i].action \in Actions
        BY <3>1 DEF Rules
      <3> QED BY <3>1, <3>2, <3>3, RankType
    <2>2. Rank[default] <= Rank[folded'[f].action]
      BY <1>4, <2>1 DEF MostRestrictive
    <2>3. ASSUME NEW i \in 1 .. next, Matches(rules[i], f)
          PROVE  Rank[rules[i].action] <= Rank[folded'[f].action]
      <3>1. CASE i = next
        BY <1>4, <2>3, <3>1
      <3>2. CASE i # next
        <4>1. i \in 1 .. (next - 1)
          BY <1>1, <3>2
        <4>2. Rank[rules[i].action] <= Rank[folded[f].action]
          BY <2>3, <4>1 DEF MostRestrictive
        <4> QED BY <1>4, <2>1, <4>2
      <3> QED BY <3>1, <3>2
    <2>4. \/ folded'[f].winner = "default" /\ folded'[f].action = default
          \/ \E i \in 1 .. next : /\ Matches(rules[i], f)
                                  /\ folded'[f].winner = rules[i].name
                                  /\ folded'[f].action = rules[i].action
      <3>1. CASE folded'[f] = folded[f]
        <4>1. \A i \in 1 .. (next - 1) : i \in 1 .. next
          BY <1>1
        <4> QED BY <3>1, <4>1 DEF MostRestrictive
      <3>2. CASE folded'[f] # folded[f]
        <4>1. next \in 1 .. next
          BY <1>1
        <4> QED BY <1>4, <3>2, <4>1
      <3> QED BY <3>1, <3>2
    <2> QED BY <2>2, <2>3, <2>4
  <1> QED BY <1>3, <1>6

-----------------------------------------------------------------------------
(* What handling a file does, whatever its route.                          *)

\* The files the loop is done with.
Handled ==
    CASE phase = "files" -> {Order[i] : i \in 1 .. (turn - 1)}
      [] phase \in {"escalate", "gate", "after", "enqueue", "done"} -> Files
      [] OTHER -> {}

Places ==
    /\ phase = "rules" => turn = 1
    /\ phase \notin {"rules", "cancelled"} => next > Len(rules)
    /\ phase # "files" => held = Nothing
    /\ \A f \in Handled : entry[f] \in Entry
    /\ phase \in {"rules", "files"} =>
         \A f \in Files \ Handled : work[f] = Nothing /\ entry[f] = Nothing /\ wanted[f] = Nothing
    /\ phase \notin {"enqueue", "done"} => \A f \in Files : queue[f] = Nothing
    /\ phase = "cancelled" => \A f \in Files : work[f] = Nothing

TInv == PolicyInv /\ options \in Options /\ PrepareTypeOK /\ Places

\* The number of files, and the place of each.
LEMMA OrderType ==
  /\ Order \in Seq(Files) /\ Len(Order) \in Nat /\ Len(Order) >= 1 /\ DOMAIN Order = 1 .. Len(Order)
  /\ Files = {Order[i] : i \in 1 .. Len(Order)}
  /\ \A i, j \in 1 .. Len(Order) : Order[i] = Order[j] => i = j
  <1>1. Order \in Seq(Files) /\ Order # <<>>
    BY PrepareAssumption
  <1>2. Len(Order) \in Nat \ {0} /\ DOMAIN Order = 1 .. Len(Order)
    BY <1>1, LenProperties, EmptySeq
  <1> QED BY <1>1, <1>2, PrepareAssumption

\* The next file: one that was not handled before.
LEMMA Advancing ==
  ASSUME phase = "files", turn \in DOMAIN Order, Advance("escalate")
  PROVE  /\ held' = Nothing /\ turn' \in DOMAIN Order /\ phase' \in {"files", "escalate"}
         /\ Current \in Files \ Handled /\ Handled' = Handled \cup {Current}
  <1> USE OrderType
  <1>1. turn \in 1 .. Len(Order)
    OBVIOUS
  <1>2. Handled = {Order[i] : i \in 1 .. (turn - 1)}
    BY DEF Handled
  <1>3. Current \in Files \ Handled
    <2>1. \A i \in 1 .. (turn - 1) : i \in 1 .. Len(Order) /\ i # turn
      BY <1>1
    <2> QED BY <1>1, <1>2, <2>1 DEF Current
  <1>4. CASE turn < Len(Order)
    <2>1. turn' = turn + 1 /\ phase' = "files" /\ held' = Nothing
      BY <1>4 DEF Advance
    <2>2. Handled' = {Order[i] : i \in 1 .. turn}
      BY <1>1, <2>1 DEF Handled
    <2>3. 1 .. turn = 1 .. (turn - 1) \cup {turn}
      BY <1>1
    <2>4. Handled' = Handled \cup {Current}
      BY <1>2, <2>2, <2>3 DEF Current
    <2> QED BY <1>1, <1>3, <1>4, <2>1, <2>4
  <1>5. CASE ~(turn < Len(Order))
    <2>1. turn' = 1 /\ phase' = "escalate" /\ held' = Nothing
      BY <1>5 DEF Advance
    <2>2. Handled' = Files
      BY <2>1 DEF Handled
    <2>3. turn = Len(Order)
      BY <1>1, <1>5
    <2>4. 1 .. Len(Order) = 1 .. (turn - 1) \cup {turn}
      BY <1>1, <2>3
    <2>5. Files = Handled \cup {Current}
      BY <1>2, <2>4 DEF Current
    <2> QED BY <1>3, <2>1, <2>2, <2>5
  <1> QED BY <1>4, <1>5

\* Every route is one of four things: the file is read or asked about and the loop stays at
\* it; it is left out; it is put into the output; or putting it there fails.
Routed(f) ==
    /\ phase = "files" /\ f = Current
    /\ UNCHANGED <<runVars, source, queue, aborted, edits>>
    /\ circuit' \in {"on", "deferred", "timeout", "calls"} /\ calls' \in 0 .. MaxCalls
    /\ asked' \in [Files -> {"unasked", "done", "timeout", "skipped"}]
    /\ failures' \in 0 .. MaxFailures /\ failed' \in SUBSET Files
Wanted(f, w) == /\ wanted' \in [Files -> BOOLEAN \cup {Nothing}] /\ wanted'[f] \in {w, Nothing}
                /\ \A g \in Files \ {f} : wanted'[g] = wanted[g]
Stays(f) ==
    /\ held' \in Source /\ held' = (IF held = Nothing THEN source[f] ELSE held)
    /\ UNCHANGED <<entry, work, wanted, phase, turn, failed>>
Left(f) ==
    /\ Advance("escalate")
    /\ \E o \in Outcomes \ {"pending"} : entry' = [entry EXCEPT ![f] = Kept(o)]
    /\ work' = work /\ failed \subseteq failed' /\ Wanted(f, FALSE)
Edition(f) == (IF held = Nothing THEN source[f] ELSE held).edition
Put(f) ==
    /\ Advance("escalate") /\ Exposure(Disposal(Mode, Wish(f), f)) # 0
    /\ \E c \in Source, e \in Entry :
         /\ c.edition = Edition(f) /\ ~e.omitted /\ e.outcome # "pending"
         /\ work' = [work EXCEPT ![f] = c] /\ entry' = [entry EXCEPT ![f] = e]
    /\ failed' = failed /\ Wanted(f, TRUE)
PutFails(f) ==
    /\ Advance("escalate") /\ Exposure(Disposal(Mode, Wish(f), f)) # 0
    /\ \E c \in Source : c.edition = Edition(f) /\ work' \in {work, [work EXCEPT ![f] = c]}
    /\ entry' = [entry EXCEPT ![f] = Kept("unreadable")]
    /\ failed' = failed \cup {f} /\ Wanted(f, Nothing)

\* Entries of the report.
LEMMA EntryType ==
  ASSUME NEW o \in Outcomes
  PROVE  /\ Kept(o) \in Entry /\ Kept(o).omitted = TRUE /\ Kept(o).outcome = o
         /\ Given(o) \in Entry /\ Given(o).omitted = FALSE /\ Given(o).outcome = o
BY DEF Kept, Given, Entry

\* The entry of a transformed file, with or without something masked.
LEMMA MaskedType ==
  ASSUME NEW m \in BOOLEAN
  PROVE  LET e == [Given("included-transformed") EXCEPT !.masked = m] IN
         e \in Entry /\ e.omitted = FALSE /\ e.outcome = "included-transformed"
  <1>1. CASE m = TRUE
    BY <1>1 DEF Given, Kept, Entry, Outcomes
  <1>2. CASE m = FALSE
    BY <1>2 DEF Given, Kept, Entry, Outcomes
  <1> QED BY <1>1, <1>2

\* Delivering: the file is put, or putting it fails.
LEMMA Delivering ==
  ASSUME TInv, NEW f \in Files, NEW c \in Source, NEW e \in Entry, c.edition = Edition(f),
         e.omitted = FALSE, e.outcome # "pending", Exposure(Disposal(Mode, Wish(f), f)) # 0,
         Deliver(f, c, e)
  PROVE  /\ failures' \in 0 .. MaxFailures /\ failed' \in SUBSET Files
         /\ \/ entry'[f] = e /\ (Wanted(f, TRUE) => Put(f))
            \/ entry'[f] = Kept("unreadable") /\ (Wanted(f, Nothing) => PutFails(f))
  <1>1. /\ failures \in 0 .. MaxFailures /\ failed \in SUBSET Files /\ MaxFailures \in Nat
        /\ entry \in [Files -> Entry \cup {Nothing}]
    BY PrepareAssumption DEF TInv, PrepareTypeOK
  <1>2. Advance("escalate")
    BY DEF Deliver
  <1>3. CASE /\ work' = [work EXCEPT ![f] = c] /\ entry' = [entry EXCEPT ![f] = e]
             /\ UNCHANGED <<failures, failed>>
    BY <1>1, <1>2, <1>3 DEF Put
  <1>4. CASE /\ failures < MaxFailures
             /\ failures' = failures + 1 /\ failed' = failed \cup {f}
             /\ work' \in {work, [work EXCEPT ![f] = c]}
             /\ entry' = [entry EXCEPT ![f] = Kept("unreadable")]
    <2>1. failures' \in 0 .. MaxFailures /\ failed' \in SUBSET Files
      BY <1>1, <1>4
    <2>2. entry'[f] = Kept("unreadable")
      BY <1>1, <1>4
    <2>3. Wanted(f, Nothing) => PutFails(f)
      BY <1>2, <1>4 DEF PutFails
    <2> QED BY <2>1, <2>2, <2>3
  <1> QED BY <1>3, <1>4 DEF Deliver

\* The current file has not been handled, so nothing is wanted of it.
LEMMA NothingWanted ==
  ASSUME TInv, NEW f \in Files, phase = "files", f = Current
  PROVE  /\ wanted[f] = Nothing /\ wanted \in [Files -> BOOLEAN \cup {Nothing}]
         /\ \A w \in {TRUE, FALSE, Nothing} : wanted' = wanted => Wanted(f, w)
  <1> USE OrderType
  <1>1. turn \in 1 .. Len(Order) /\ wanted \in [Files -> BOOLEAN \cup {Nothing}]
    BY DEF TInv, PrepareTypeOK
  <1>2. f \in Files \ Handled
    <2>1. \A i \in 1 .. (turn - 1) : i \in 1 .. Len(Order) /\ i # turn
      BY <1>1
    <2> QED BY <1>1, <2>1 DEF Current, Handled
  <1>3. wanted[f] = Nothing
    BY <1>2 DEF TInv, Places
  <1> QED BY <1>1, <1>3 DEF Wanted

\* Leaving a file out.
LEMMA Keeping ==
  ASSUME TInv, NEW f \in Files, phase = "files", f = Current,
         NEW o \in Outcomes \ {"pending"}, Keep(f, o)
  PROVE  /\ failures' \in 0 .. MaxFailures /\ failed' \in SUBSET Files
         /\ (Wanted(f, FALSE) => Left(f))
         /\ (wanted' = wanted => Left(f))
BY NothingWanted DEF Keep, Left, TInv, PrepareTypeOK

\* The types a route needs to know.
LEMMA RouteTypes ==
  ASSUME TInv, NEW f \in Files
  PROVE  /\ source[f] \in Source /\ held \in Source \cup {Nothing} /\ Nothing \notin Source
         /\ circuit \in {"on", "deferred", "timeout", "calls"} /\ calls \in 0 .. MaxCalls
         /\ asked \in [Files -> {"unasked", "done", "timeout", "skipped"}]
         /\ failures \in 0 .. MaxFailures /\ failed \in SUBSET Files /\ MaxCalls \in Nat
         /\ MaxFailures \in Nat
BY PrepareAssumption, NothingAssumption DEF TInv, PrepareTypeOK

\* Each route does one of the four things.
LEMMA RoutedStep ==
  ASSUME TInv, NEW f \in Files, ProcessFile(f)
  PROVE  Routed(f) /\ (Stays(f) \/ Left(f) \/ Put(f) \/ PutFails(f))
  <1> USE RouteTypes
  <1>0. phase = "files" /\ f = Current
    BY DEF ProcessFile, Exclude, KeepLocal, CopyRaw, RouteDocument, Read, Verbatim, Workbook, SkipModel,
           AskModel, Transform, Look, Holding
  <1>1. CASE Exclude(f)
    <2>1. Keep(f, "excluded-by-user") /\ wanted' = wanted
      BY <1>1 DEF Exclude
    <2> QED BY <1>0, <1>1, <2>1, Keeping DEF Exclude, Routed, Outcomes
  <1>2. CASE KeepLocal(f)
    <2>1. (Keep(f, "kept-local") \/ Keep(f, "excluded-by-policy")) /\ wanted' = wanted
      BY <1>2 DEF KeepLocal
    <2> QED BY <1>0, <1>2, <2>1, Keeping DEF KeepLocal, Routed, Outcomes
  <1>3. CASE CopyRaw(f)
    <2>1. /\ Deliver(f, source[f], Given("included-unverified")) /\ wanted' = wanted
          /\ Exposure(Disposal(Mode, Wish(f), f)) # 0 /\ held = Nothing
      BY <1>3 DEF CopyRaw, Look, Exposure
    <2>2. Given("included-unverified") \in Entry /\ Given("included-unverified").omitted = FALSE
          /\ Given("included-unverified").outcome # "pending"
      BY EntryType DEF Outcomes
    <2>3. source[f].edition = Edition(f)
      BY <2>1 DEF Edition
    <2>4. Wanted(f, TRUE) /\ Wanted(f, Nothing)
      BY <1>0, <2>1, NothingWanted
    <2>5. /\ failures' \in 0 .. MaxFailures /\ failed' \in SUBSET Files
          /\ Put(f) \/ PutFails(f)
      BY <2>1, <2>2, <2>3, <2>4, Delivering
    <2> QED BY <1>0, <1>3, <2>5 DEF CopyRaw, Routed
  <1>4. CASE RouteDocument(f)
    <2>1. CASE Look(f, "document-shared")
               /\ Deliver(f, source[f], [Given("included-unverified") EXCEPT !.document = TRUE])
      <3> DEFINE e == [Given("included-unverified") EXCEPT !.document = TRUE]
      <3>1. e \in Entry /\ e.omitted = FALSE /\ e.outcome = "included-unverified"
        BY DEF Given, Kept, Entry, Outcomes
      <3>2. Kept("unreadable").outcome = "unreadable"
        BY DEF Kept
      <3>3. /\ Deliver(f, source[f], e) /\ source[f].edition = Edition(f)
            /\ Exposure(Disposal(Mode, Wish(f), f)) # 0
        BY <2>1 DEF Look, Exposure, Edition
      <3>4. wanted' = [wanted EXCEPT ![f] =
              IF entry'[f].outcome = "unreadable" THEN Nothing ELSE ~entry'[f].omitted]
        BY <1>4 DEF RouteDocument
      <3>5. wanted \in [Files -> BOOLEAN \cup {Nothing}]
        BY <1>0, NothingWanted
      <3> HIDE DEF e
      <3>6. entry'[f] = e => Wanted(f, TRUE)
        BY <3>1, <3>4, <3>5 DEF Wanted
      <3>7. entry'[f] = Kept("unreadable") => Wanted(f, Nothing)
        BY <3>2, <3>4, <3>5 DEF Wanted
      <3>8. /\ failures' \in 0 .. MaxFailures /\ failed' \in SUBSET Files
            /\ Put(f) \/ PutFails(f)
        BY <3>1, <3>3, <3>6, <3>7, Delivering
      <3> QED BY <1>0, <1>4, <3>8 DEF RouteDocument, Routed
    <2>2. CASE Look(f, "document-local") /\ Keep(f, "kept-local")
      <3>1. Kept("kept-local").outcome = "kept-local" /\ Kept("kept-local").omitted = TRUE
        BY DEF Kept
      <3>2. entry'[f] = Kept("kept-local")
        BY <2>2 DEF Keep, TInv, PrepareTypeOK
      <3>3. wanted' = [wanted EXCEPT ![f] =
              IF entry'[f].outcome = "unreadable" THEN Nothing ELSE ~entry'[f].omitted]
        BY <1>4 DEF RouteDocument
      <3>4. Wanted(f, FALSE)
        BY <1>0, <3>1, <3>2, <3>3, NothingWanted DEF Wanted
      <3>5. failures' \in 0 .. MaxFailures /\ failed' \in SUBSET Files /\ Left(f)
        BY <1>0, <2>2, <3>4, Keeping DEF Outcomes
      <3> QED BY <1>0, <1>4, <3>5 DEF RouteDocument, Routed
    <2> QED BY <1>4, <2>1, <2>2 DEF RouteDocument
  <1>5. CASE Read(f)
    <2>1. CASE held' = source[f] /\ UNCHANGED <<entry, turn, phase, failures, failed>>
      <3>1. held = Nothing
        BY <1>5 DEF Read, Look
      <3>2. Stays(f)
        BY <1>5, <2>1, <3>1 DEF Read, Stays
      <3> QED BY <1>0, <1>5, <2>1, <3>2 DEF Read, Routed
    <2>2. CASE /\ failures < MaxFailures
               /\ failures' = failures + 1 /\ failed' = failed \cup {f}
               /\ entry' = [entry EXCEPT ![f] = Kept("unreadable")]
               /\ Advance("escalate")
      <3>1. wanted' = wanted /\ work' = work
        BY <1>5 DEF Read
      <3>2. Left(f)
        BY <1>0, <2>2, <3>1, NothingWanted DEF Left, Outcomes
      <3> QED BY <1>0, <1>5, <2>2, <3>2 DEF Read, Routed
    <2> QED BY <1>5, <2>1, <2>2 DEF Read
  <1>6. CASE Verbatim(f)
    <2>1. CASE Holding(f, "verbatim") /\ Deliver(f, held, Given("included-unchanged"))
      <3>1. held \in Source /\ held.edition = Edition(f) /\ Exposure(Disposal(Mode, Wish(f), f)) # 0
        BY <2>1 DEF Holding, Edition, Exposure
      <3>2. Given("included-unchanged") \in Entry /\ Given("included-unchanged").omitted = FALSE
            /\ Given("included-unchanged").outcome # "pending"
        BY EntryType DEF Outcomes
      <3>3. Wanted(f, TRUE) /\ Wanted(f, Nothing)
        BY <1>0, <1>6, NothingWanted DEF Verbatim
      <3>4. /\ failures' \in 0 .. MaxFailures /\ failed' \in SUBSET Files
            /\ Put(f) \/ PutFails(f)
        BY <2>1, <3>1, <3>2, <3>3, Delivering
      <3> QED BY <1>0, <1>6, <3>4 DEF Verbatim, Routed
    <2>2. CASE Keep(f, "transformation-failed")
      BY <1>0, <1>6, <2>2, Keeping DEF Verbatim, Routed, Outcomes
    <2> QED BY <1>6, <2>1, <2>2 DEF Verbatim
  <1>7. CASE Workbook(f)
    <2> DEFINE c == [held EXCEPT !.has = @ \ {"names"}]
               e == [Given("included-transformed") EXCEPT !.masked = "names" \in held.has]
    <2>1. CASE Holding(f, "workbook") /\ Deliver(f, c, e)
      <3>1. held \in Source
        BY <2>1 DEF Holding
      <3>2. c \in Source /\ c.edition = Edition(f)
        BY <3>1 DEF Source, Edition
      <3>3. e \in Entry /\ e.omitted = FALSE /\ e.outcome # "pending"
        <4>1. ("names" \in held.has) \in BOOLEAN
          OBVIOUS
        <4> QED BY <4>1, MaskedType
      <3>4. Exposure(Disposal(Mode, Wish(f), f)) # 0
        BY <2>1 DEF Holding, Exposure
      <3>5. Wanted(f, TRUE) /\ Wanted(f, Nothing)
        BY <1>0, <1>7, NothingWanted DEF Workbook
      <3> HIDE DEF c, e
      <3>6. /\ failures' \in 0 .. MaxFailures /\ failed' \in SUBSET Files
            /\ Put(f) \/ PutFails(f)
        BY <2>1, <3>2, <3>3, <3>4, <3>5, Delivering
      <3> QED BY <1>0, <1>7, <3>6 DEF Workbook, Routed
    <2>2. CASE Keep(f, "transformation-failed")
      BY <1>0, <1>7, <2>2, Keeping DEF Workbook, Routed, Outcomes
    <2> QED BY <1>7, <2>1, <2>2 DEF Workbook
  <1>8. CASE SkipModel(f)
    <2>1. Wanted(f, FALSE)
      BY <1>0, <1>8, NothingWanted DEF SkipModel, Wanted
    <2>2. failures' \in 0 .. MaxFailures /\ failed' \in SUBSET Files /\ Left(f)
      BY <1>0, <1>8, <2>1, Keeping DEF SkipModel, Outcomes
    <2>3. circuit' \in {"on", "deferred", "timeout", "calls"}
          /\ asked' \in [Files -> {"unasked", "done", "timeout", "skipped"}]
      BY <1>8 DEF SkipModel
    <2> QED BY <1>0, <1>8, <2>2, <2>3 DEF SkipModel, Routed
  <1>9. CASE AskModel(f)
    <2>1. calls' \in 0 .. MaxCalls /\ wanted' = wanted
      BY <1>9 DEF AskModel, CallsSpent
    <2>2. CASE /\ asked' = [asked EXCEPT ![f] = "done"]
               /\ UNCHANGED <<circuit, entry, turn, phase, held, work, failures, failed>>
      <3>1. held \in Source
        BY <1>9 DEF AskModel, Holding
      <3>2. Stays(f)
        BY <2>1, <2>2, <3>1 DEF Stays
      <3> QED BY <1>0, <1>9, <2>1, <2>2, <3>2 DEF AskModel, Routed
    <2>3. CASE /\ asked' = [asked EXCEPT ![f] = "timeout"] /\ circuit' = "timeout"
               /\ Keep(f, "transformation-failed")
      BY <1>0, <1>9, <2>1, <2>3, Keeping DEF AskModel, Routed, Outcomes
    <2> QED BY <1>9, <2>2, <2>3 DEF AskModel
  <1>10. CASE Transform(f)
    <2>1. PICK ok \in BOOLEAN, out \in {held.has, held.has \ Removable(Pipeline(Decided(f)))} :
            IF Result(f, ok, out).content = Nothing THEN Keep(f, Result(f, ok, out).entry.outcome)
            ELSE Deliver(f, [held EXCEPT !.has = Result(f, ok, out).content], Result(f, ok, out).entry)
      BY <1>10 DEF Transform
    <2> DEFINE r == Result(f, ok, out)
    <2>2. held \in Source /\ held.has \in SUBSET Ingredients /\ out \in SUBSET Ingredients
      BY <1>10 DEF Transform, Holding, Source
    <2>3. /\ \/ r.content = Nothing
             \/ r.content \in SUBSET Ingredients /\ r.entry.omitted = FALSE
          /\ r.entry \in Entry /\ r.entry.outcome \in Outcomes \ {"pending"}
      <3>1. /\ Kept("transformation-failed") \in Entry
            /\ Kept("transformation-failed").outcome = "transformation-failed"
            /\ Given("included-unverified") \in Entry
            /\ Given("included-unverified").omitted = FALSE
            /\ Given("included-unverified").outcome = "included-unverified"
        BY EntryType DEF Outcomes
      <3>3. \/ r = [content |-> Nothing, entry |-> Kept("transformation-failed")]
            \/ \E x \in {out, held.has} : r = [content |-> x, entry |-> Given("included-unverified")]
            \/ \E m \in BOOLEAN :
                 r = [content |-> out, entry |-> [Given("included-transformed") EXCEPT !.masked = m]]
        <4> DEFINE changed == "names" \in held.has \ out
                   masked == IF "redact-secrets" \in Pipeline(Decided(f)) THEN changed ELSE out # held.has
        <4>1. masked \in BOOLEAN
          <5>1. (out # held.has) \in BOOLEAN /\ changed \in BOOLEAN
            OBVIOUS
          <5> HIDE DEF changed
          <5>2. CASE "redact-secrets" \in Pipeline(Decided(f))
            BY <5>1, <5>2
          <5>3. CASE "redact-secrets" \notin Pipeline(Decided(f))
            BY <5>1, <5>3
          <5> QED BY <5>2, <5>3
        <4>2. \/ r = [content |-> Nothing, entry |-> Kept("transformation-failed")]
              \/ \E x \in {out, held.has} : r = [content |-> x, entry |-> Given("included-unverified")]
              \/ r = [content |-> out, entry |-> [Given("included-transformed") EXCEPT !.masked = masked]]
          BY DEF Result
        <4> QED BY <4>1, <4>2
      <3> HIDE DEF r
      <3>4. CASE r = [content |-> Nothing, entry |-> Kept("transformation-failed")]
        BY <3>1, <3>4 DEF Outcomes
      <3>5. CASE \E x \in {out, held.has} : r = [content |-> x, entry |-> Given("included-unverified")]
        BY <2>2, <3>1, <3>5 DEF Outcomes
      <3>6. CASE \E m \in BOOLEAN :
                   r = [content |-> out, entry |-> [Given("included-transformed") EXCEPT !.masked = m]]
        <4>1. PICK m \in BOOLEAN :
                r = [content |-> out, entry |-> [Given("included-transformed") EXCEPT !.masked = m]]
          BY <3>6
        <4> QED BY <2>2, <4>1, MaskedType DEF Outcomes
      <3> QED BY <3>3, <3>4, <3>5, <3>6
    <2>4. IF r.content = Nothing THEN Keep(f, r.entry.outcome)
          ELSE Deliver(f, [held EXCEPT !.has = r.content], r.entry)
      BY <2>1
    <2>5. wanted' = wanted /\ Exposure(Disposal(Mode, Wish(f), f)) # 0
      BY <1>10 DEF Transform, Holding, Exposure
    <2> HIDE DEF r
    <2>6. CASE r.content = Nothing
      BY <1>0, <1>10, <2>3, <2>4, <2>5, <2>6, Keeping DEF Transform, Routed
    <2>7. CASE r.content # Nothing
      <3> DEFINE c == [held EXCEPT !.has = r.content]
      <3>1. c \in Source /\ c.edition = Edition(f)
        BY <2>2, <2>3, <2>7 DEF Source, Edition
      <3>2. Deliver(f, c, r.entry)
        BY <2>4, <2>7
      <3>3. Wanted(f, TRUE) /\ Wanted(f, Nothing)
        BY <1>0, <2>5, NothingWanted
      <3> HIDE DEF c
      <3>4. /\ failures' \in 0 .. MaxFailures /\ failed' \in SUBSET Files
            /\ Put(f) \/ PutFails(f)
        BY <2>3, <2>5, <2>7, <3>1, <3>2, <3>3, Delivering
      <3> QED BY <1>0, <1>10, <3>4 DEF Transform, Routed
    <2> QED BY <2>6, <2>7
  <1> QED BY <1>1, <1>2, <1>3, <1>4, <1>5, <1>6, <1>7, <1>8, <1>9, <1>10 DEF ProcessFile

-----------------------------------------------------------------------------
(* Types.                                                                  *)

\* What the fold decided stays as long as nobody folds.
LEMMA PolicyKept == ASSUME PolicyInv, UNCHANGED policyVars PROVE PolicyInv'
  <1>1. PolicyOK'
    BY DEF PolicyInv, PolicyOK, policyVars
  <1>2. \A f \in Files : Findings(f)' = Findings(f)
    BY DEF policyVars, Findings, FileType, Scanned
  <1>3. MostRestrictive'
    BY <1>2 DEF PolicyInv, MostRestrictive, Matches, policyVars
  <1> QED BY <1>1, <1>3 DEF PolicyInv

\* A preparation starts in its types.
LEMMA InitTInv == Init => TInv
  <1> SUFFICES ASSUME Init PROVE TInv
    OBVIOUS
  <1> USE OrderType
  <1>1. PolicyInv /\ options \in Options
    BY InitPolicyInv DEF Init
  <1>2. \A f \in Files : file[f].has \in SUBSET Ingredients
    BY <1>1 DEF PolicyInv, PolicyOK, Kinds
  <1>0. MaxEdits \in Nat /\ MaxCalls \in Nat /\ MaxFailures \in Nat
    BY PrepareAssumption
  <1>3. source \in [Files -> Source]
    <2>1. \A f \in Files : [edition |-> 0, has |-> file[f].has] \in Source
      BY <1>0, <1>2 DEF Source
    <2> QED BY <2>1 DEF Init
  <1>4. circuit \in {"on", "deferred", "timeout", "calls"}
    BY DEF Init
  <1>5. PrepareTypeOK
    <2>1. /\ phase = "rules" /\ turn = 1 /\ held = Nothing /\ calls = 0 /\ edits = 0 /\ failures = 0
          /\ failed = {} /\ aborted = FALSE
      BY DEF Init
    <2>2. /\ before \in [Files -> (0 .. MaxEdits) \cup {Nothing}]
          /\ work \in [Files -> Source \cup {Nothing}] /\ entry \in [Files -> Entry \cup {Nothing}]
          /\ wanted \in [Files -> BOOLEAN \cup {Nothing}] /\ queue \in [Files -> BOOLEAN \cup {Nothing}]
          /\ asked \in [Files -> {"unasked", "done", "timeout", "skipped"}]
      BY DEF Init
    <2>3. /\ turn \in DOMAIN Order /\ calls \in 0 .. MaxCalls /\ edits \in 0 .. MaxEdits
          /\ failures \in 0 .. MaxFailures /\ failed \subseteq Files /\ aborted \in BOOLEAN
      <3>1. 1 \in 1 .. Len(Order)
        OBVIOUS
      <3>2. turn \in DOMAIN Order
        BY <2>1, <3>1
      <3>3. 0 \in 0 .. MaxCalls /\ 0 \in 0 .. MaxEdits /\ 0 \in 0 .. MaxFailures
        BY <1>0
      <3>4. aborted \in BOOLEAN
        BY <2>1
      <3> QED BY <2>1, <3>2, <3>3, <3>4
    <2> QED BY <1>3, <1>4, <2>1, <2>2, <2>3 DEF PrepareTypeOK
  <1>6. Places
    BY DEF Init, Places, Handled
  <1> QED BY <1>1, <1>5, <1>6 DEF TInv

\* Handling a file keeps the types and enters the file into the report.
LEMMA HandlingTInv == ASSUME TInv, NEW f \in Files, ProcessFile(f) PROVE TInv'
  <1> USE OrderType
  <1>1. Routed(f) /\ (Stays(f) \/ Left(f) \/ Put(f) \/ PutFails(f))
    BY RoutedStep
  <1>2. PolicyInv' /\ (options \in Options)'
    BY <1>1, PolicyKept DEF Routed, runVars, TInv
  <1>3. /\ phase = "files" /\ f = Current /\ source' = source /\ before' = before /\ queue' = queue
        /\ aborted' = aborted /\ edits' = edits /\ rules' = rules /\ next' = next
        /\ circuit' \in {"on", "deferred", "timeout", "calls"} /\ calls' \in 0 .. MaxCalls
        /\ asked' \in [Files -> {"unasked", "done", "timeout", "skipped"}]
        /\ failures' \in 0 .. MaxFailures /\ failed' \in SUBSET Files
    BY <1>1 DEF Routed, runVars, policyVars
  <1>4. turn \in DOMAIN Order /\ entry \in [Files -> Entry \cup {Nothing}]
        /\ work \in [Files -> Source \cup {Nothing}] /\ wanted \in [Files -> BOOLEAN \cup {Nothing}]
    BY DEF TInv, PrepareTypeOK
  <1>5. CASE Stays(f)
    <2>1. PrepareTypeOK'
      BY <1>3, <1>4, <1>5 DEF Stays, TInv, PrepareTypeOK
    <2>2. Handled' = Handled
      BY <1>5 DEF Stays, Handled
    <2>3. Places'
      BY <1>3, <1>5, <2>2 DEF Stays, TInv, Places
    <2> QED BY <1>2, <2>1, <2>3 DEF TInv
  <1>6. ASSUME Advance("escalate"), Left(f) \/ Put(f) \/ PutFails(f)
        PROVE  TInv'
    <2>1. /\ held' = Nothing /\ turn' \in DOMAIN Order /\ phase' \in {"files", "escalate"}
          /\ f \in Files \ Handled /\ Handled' = Handled \cup {f}
      BY <1>3, <1>4, <1>6, Advancing
    <2>2. /\ wanted' \in [Files -> BOOLEAN \cup {Nothing}]
          /\ \A g \in Files \ {f} : wanted'[g] = wanted[g]
      BY <1>6 DEF Left, Put, PutFails, Wanted
    <2>3. PICK e \in Entry : entry' = [entry EXCEPT ![f] = e]
      <3>1. CASE Left(f)
        BY <3>1, EntryType DEF Left
      <3>2. CASE Put(f)
        BY <3>2 DEF Put
      <3>3. CASE PutFails(f)
        BY <3>3, EntryType DEF PutFails, Outcomes
      <3> QED BY <1>6, <3>1, <3>2, <3>3
    <2>4. /\ work' \in [Files -> Source \cup {Nothing}]
          /\ \A g \in Files \ {f} : work'[g] = work[g]
      <3>1. CASE Left(f)
        BY <1>4, <3>1 DEF Left
      <3>2. CASE Put(f)
        BY <1>4, <3>2 DEF Put
      <3>3. CASE PutFails(f)
        <4>1. PICK c \in Source : work' \in {work, [work EXCEPT ![f] = c]}
          BY <3>3 DEF PutFails
        <4> QED BY <1>4, <4>1
      <3> QED BY <1>6, <3>1, <3>2, <3>3
    <2>5. PrepareTypeOK'
      BY <1>3, <1>4, <2>1, <2>2, <2>3, <2>4 DEF TInv, PrepareTypeOK
    <2>6. \A g \in Handled' : entry'[g] \in Entry
      <3>1. \A g \in Handled : entry[g] \in Entry
        BY DEF TInv, Places
      <3>2. \A g \in Handled : g \in Files
        BY <1>3 DEF Handled, TInv, PrepareTypeOK
      <3> QED BY <1>4, <2>1, <2>3, <3>1, <3>2
    <2>7. \A g \in Files \ Handled' : work'[g] = Nothing /\ entry'[g] = Nothing /\ wanted'[g] = Nothing
      <3>1. \A g \in Files \ Handled : work[g] = Nothing /\ entry[g] = Nothing /\ wanted[g] = Nothing
        BY <1>3 DEF TInv, Places
      <3> QED BY <1>4, <2>1, <2>2, <2>3, <2>4, <3>1
    <2>8. next' > Len(rules') /\ \A g \in Files : queue'[g] = Nothing
      BY <1>3 DEF TInv, Places
    <2>9. Places'
      BY <2>1, <2>6, <2>7, <2>8 DEF Places
    <2> QED BY <1>2, <2>5, <2>9 DEF TInv
  <1> QED BY <1>1, <1>5, <1>6 DEF Left, Put, PutFails

\* The verdict of the gate, and what is left of the entry.
LEMMA GateType ==
  ASSUME NEW f \in Files, entry[f] \in Entry
  PROVE  /\ Gate(f) \in Entry
         /\ Gate(f).outcome \in {entry[f].outcome, "included-unverified", "transformation-failed"}
BY EntryType DEF Gate, Entry, Outcomes

\* The types as one list of facts.
LEMMA Types ==
  ASSUME TInv
  PROVE  /\ source \in [Files -> Source] /\ before \in [Files -> (0 .. MaxEdits) \cup {Nothing}]
         /\ turn \in DOMAIN Order /\ held \in Source \cup {Nothing}
         /\ work \in [Files -> Source \cup {Nothing}] /\ entry \in [Files -> Entry \cup {Nothing}]
         /\ wanted \in [Files -> BOOLEAN \cup {Nothing}] /\ queue \in [Files -> BOOLEAN \cup {Nothing}]
         /\ edits \in 0 .. MaxEdits /\ failures \in 0 .. MaxFailures /\ failed \in SUBSET Files
         /\ MaxEdits \in Nat /\ MaxFailures \in Nat
         /\ (phase \in {"escalate", "gate", "after", "enqueue", "done"} => entry \in [Files -> Entry])
  <1>1. phase \in {"escalate", "gate", "after", "enqueue", "done"} => \A f \in Files : entry[f] \in Entry
    BY DEF TInv, Places, Handled
  <1> QED BY <1>1, PrepareAssumption DEF TInv, PrepareTypeOK

\* The place of the loops after the first.
LEMMA PassAdvancing ==
  ASSUME turn \in DOMAIN Order, NEW then, phase # "files", then # "files", Advance(then)
  PROVE  held' = Nothing /\ turn' \in DOMAIN Order /\ phase' \in {phase, then}
  <1>1. turn \in 1 .. Len(Order) /\ DOMAIN Order = 1 .. Len(Order) /\ Len(Order) \in Nat
        /\ Len(Order) >= 1
    BY OrderType
  <1> QED BY <1>1 DEF Advance

\* Taking back, the final gate, the second capture and the queue keep the types.
LEMMA PassTInv ==
  ASSUME TInv, Escalate \/ CaptureAfter \/ \E f \in Files : FinalGate(f) \/ Enqueue(f)
  PROVE  TInv'
  <1> USE Types
  <1>1. /\ phase \in {"escalate", "gate", "after", "enqueue"} /\ UNCHANGED <<runVars, source, circuit,
           calls, asked, aborted, edits, wanted>>
    BY DEF Escalate, CaptureAfter, FinalGate, Enqueue
  <1>2. PolicyInv' /\ (options \in Options)' /\ next' > Len(rules') /\ held = Nothing
    <2>1. next > Len(rules) /\ held = Nothing
      BY <1>1 DEF TInv, Places
    <2> QED BY <1>1, <2>1, PolicyKept DEF runVars, policyVars, TInv
  <1>3. entry \in [Files -> Entry]
    BY <1>1
  <1>4. ASSUME /\ work' \in [Files -> Source \cup {Nothing}] /\ entry' \in [Files -> Entry]
               /\ queue' \in [Files -> BOOLEAN \cup {Nothing}]
               /\ failures' \in 0 .. MaxFailures /\ failed' \in SUBSET Files
               /\ turn' \in DOMAIN Order /\ held' = Nothing
               /\ phase' \in {"gate", "after", "enqueue", "done", "failed"}
               /\ phase' \notin {"enqueue", "done"} => \A f \in Files : queue'[f] = Nothing
        PROVE  TInv'
    <2>1. PrepareTypeOK'
      BY <1>1, <1>4 DEF TInv, PrepareTypeOK, runVars
    <2>2. Handled' \subseteq Files
      BY <1>4 DEF Handled
    <2>3. Places'
      BY <1>2, <1>4, <2>2 DEF Places
    <2> QED BY <1>2, <2>1, <2>3 DEF TInv
  <1>5. CASE Escalate
    <2>1. /\ phase = "escalate" /\ turn' = turn /\ held' = Nothing /\ queue' = queue /\ failed' = failed
          /\ phase' \in {"gate", "failed"} /\ failures' \in 0 .. MaxFailures
      BY <1>2, <1>5 DEF Escalate
    <2>2. \A f \in Files : queue[f] = Nothing
      BY <2>1 DEF TInv, Places
    <2>3. work' \in [Files -> Source \cup {Nothing}]
      BY <1>5 DEF Escalate, Remaining
    <2>4. entry' \in [Files -> Entry]
      BY <1>3, <1>5, EntryType DEF Escalate, Outcomes
    <2> QED BY <1>4, <2>1, <2>2, <2>3, <2>4
  <1>6. CASE CaptureAfter
    <2>1. \A f \in Files : queue[f] = Nothing
      BY <1>6 DEF CaptureAfter, TInv, Places
    <2>2. /\ phase' \in {"failed", "done", "enqueue"}
          /\ UNCHANGED <<work, entry, queue, failures, failed, turn, held>>
      BY <1>6 DEF CaptureAfter
    <2> QED BY <1>2, <1>3, <1>4, <2>1, <2>2
  <1>7. ASSUME NEW f \in Files, FinalGate(f) PROVE TInv'
    <2>1. held' = Nothing /\ turn' \in DOMAIN Order /\ phase' \in {"gate", "after"} /\ queue' = queue
      BY <1>7, PassAdvancing DEF FinalGate
    <2>2. \A g \in Files : queue[g] = Nothing
      BY <1>7 DEF FinalGate, TInv, Places
    <2>3. Gate(f) \in Entry
      BY <1>3, GateType
    <2>4. entry' \in [Files -> Entry]
      <3>1. CASE entry' = [entry EXCEPT ![f] = Gate(f)]
        BY <1>3, <2>3, <3>1
      <3>2. CASE entry' \in {[entry EXCEPT ![f].verified = FALSE],
                            [entry EXCEPT ![f].verified = FALSE, ![f].outcome =
                                IF @ = "included-transformed" THEN "included-unverified" ELSE @]}
        <4>1. [entry[f] EXCEPT !.verified = FALSE] \in Entry
          BY <1>3 DEF Entry
        <4>2. "included-unverified" \in Outcomes /\ entry[f].outcome \in Outcomes
          BY <1>3 DEF Entry, Outcomes
        <4>3. [entry[f] EXCEPT !.verified = FALSE, !.outcome =
                 IF @ = "included-transformed" THEN "included-unverified" ELSE @] \in Entry
          BY <1>3, <4>2 DEF Entry
        <4>4. CASE entry' = [entry EXCEPT ![f].verified = FALSE]
          BY <1>3, <4>1, <4>4
        <4>5. CASE entry' = [entry EXCEPT ![f].verified = FALSE, ![f].outcome =
                               IF @ = "included-transformed" THEN "included-unverified" ELSE @]
          <5>1. entry' = [entry EXCEPT ![f] = [entry[f] EXCEPT !.verified = FALSE, !.outcome =
                            IF @ = "included-transformed" THEN "included-unverified" ELSE @]]
            BY <1>3, <4>5
          <5> QED BY <1>3, <4>3, <5>1
        <4> QED BY <3>2, <4>4, <4>5
      <3> QED BY <1>3, <1>7, <3>1, <3>2 DEF FinalGate
    <2>5. work' \in [Files -> Source \cup {Nothing}]
      BY <1>7 DEF FinalGate
    <2>6. failures' \in 0 .. MaxFailures /\ failed' \in SUBSET Files
      BY <1>7 DEF FinalGate
    <2> QED BY <1>4, <2>1, <2>2, <2>4, <2>5, <2>6
  <1>8. ASSUME NEW f \in Files, Enqueue(f) PROVE TInv'
    <2>1. held' = Nothing /\ turn' \in DOMAIN Order /\ phase' \in {"enqueue", "done"} /\ work' = work
          /\ failed' = failed
      BY <1>8, PassAdvancing DEF Enqueue
    <2>2. entry' \in [Files -> Entry]
      BY <1>3, <1>8 DEF Enqueue, Entry, Outcomes
    <2>3. queue' \in [Files -> BOOLEAN \cup {Nothing}] /\ failures' \in 0 .. MaxFailures
      BY <1>8 DEF Enqueue, Item
    <2> QED BY <1>4, <2>1, <2>2, <2>3
  <1> QED BY <1>5, <1>6, <1>7, <1>8

\* Folding, the first capture, an abort and an edit keep the types.
LEMMA OtherTInv ==
  ASSUME TInv, FoldRule \/ CaptureBefore \/ Cancel \/ Abort \/ \E f \in Files : Edit(f)
  PROVE  TInv'
  <1> USE Types
  <1>1. CASE FoldRule
    <2>1. PolicyInv'
      BY <1>1, FoldPolicyInv DEF FoldRule, TInv
    <2>2. PrepareTypeOK' /\ (options \in Options)'
      BY <1>1 DEF FoldRule, TInv, PrepareTypeOK
    <2>3. Handled' = Handled /\ phase = "rules"
      BY <1>1 DEF FoldRule, Handled
    <2>4. Places'
      BY <1>1, <2>3 DEF FoldRule, TInv, Places
    <2> QED BY <2>1, <2>2, <2>4 DEF TInv
  <1>2. CASE CaptureBefore
    <2>1. PolicyInv' /\ (options \in Options)' /\ next' > Len(rules')
      BY <1>2, PolicyKept DEF CaptureBefore, policyVars, TInv
    <2>2. before' \in [Files -> 0 .. MaxEdits]
      BY <1>2 DEF CaptureBefore, Snapshot, Source
    <2>3. PrepareTypeOK'
      BY <1>2, <2>2 DEF CaptureBefore, TInv, PrepareTypeOK
    <2>4. turn = 1 /\ turn' = 1 /\ phase' = "files" /\ Handled = {}
      BY <1>2 DEF CaptureBefore, TInv, Places, Handled
    <2>5. Handled' = {}
      BY <2>4 DEF Handled
    <2>6. Places'
      BY <1>2, <2>1, <2>4, <2>5 DEF CaptureBefore, TInv, Places
    <2> QED BY <2>1, <2>3, <2>6 DEF TInv
  <1>3. CASE Cancel
    <2>1. /\ phase \in {"rules", "files", "after"} /\ phase' = "cancelled" /\ held' = Nothing /\ turn' = 1
          /\ queue' = queue
      BY <1>3 DEF Cancel
    <2>2. PolicyInv' /\ (options \in Options)'
      BY <1>3, PolicyKept DEF Cancel, runVars, TInv
    <2>3. turn' \in DOMAIN Order
      BY <2>1, OrderType
    <2>4. PrepareTypeOK'
      BY <1>3, <2>1, <2>3 DEF Cancel, runVars, TInv, PrepareTypeOK
    <2>5. Handled' = {}
      BY <2>1 DEF Handled
    <2>6. \A f \in Files : queue[f] = Nothing /\ work'[f] = Nothing
      BY <1>3, <2>1 DEF Cancel, TInv, Places
    <2>7. Places'
      BY <2>1, <2>5, <2>6 DEF Places
    <2> QED BY <2>2, <2>4, <2>7 DEF TInv
  <1>4. CASE Abort
    <2>1. PolicyInv' /\ (options \in Options)'
      BY <1>4, PolicyKept DEF Abort, runVars, TInv
    <2>2. PrepareTypeOK'
      BY <1>4 DEF Abort, runVars, TInv, PrepareTypeOK
    <2>3. Places'
      BY <1>4 DEF Abort, runVars, policyVars, TInv, Places, Handled
    <2> QED BY <2>1, <2>2, <2>3 DEF TInv
  <1>5. ASSUME NEW f \in Files, Edit(f) PROVE TInv'
    <2>1. PolicyInv' /\ (options \in Options)'
      BY <1>5, PolicyKept DEF Edit, runVars, TInv
    <2>2. edits' \in 0 .. MaxEdits
      BY <1>5 DEF Edit
    <2>3. source' \in [Files -> Source]
      <3>1. \A has \in EditedTo : [edition |-> edits + 1, has |-> has] \in Source
        <4>1. EditedTo \subseteq SUBSET Ingredients
          BY PrepareAssumption
        <4>2. edits + 1 \in 0 .. MaxEdits
          BY <1>5 DEF Edit
        <4> QED BY <4>1, <4>2 DEF Source
      <3>2. [edition |-> 0, has |-> file[f].has] \in Source
        BY DEF Source, TInv, PolicyInv, PolicyOK, Kinds
      <3> QED BY <1>5, <3>1, <3>2 DEF Edit
    <2>4. PrepareTypeOK'
      BY <1>5, <2>2, <2>3 DEF Edit, runVars, TInv, PrepareTypeOK
    <2>5. Places'
      BY <1>5 DEF Edit, runVars, policyVars, TInv, Places, Handled
    <2> QED BY <2>1, <2>4, <2>5 DEF TInv
  <1> QED BY <1>1, <1>2, <1>3, <1>4, <1>5

\* So does a step that changes nothing.
LEMMA StutterTInv == ASSUME TInv, UNCHANGED vars PROVE TInv'
  <1>1. PolicyInv' /\ (options \in Options)'
    BY PolicyKept DEF vars, TInv
  <1>2. PrepareTypeOK' /\ Places'
    BY DEF vars, policyVars, TInv, PrepareTypeOK, Places, Handled
  <1> QED BY <1>1, <1>2 DEF TInv

\* The types, with where the loop is and what it has entered, are inductive: the gate and the
\* queue change fields of entries and must know there are any.
THEOREM PrepareInvariant == Spec => []TInv
  <1>1. TInv /\ [Next]_vars => TInv'
    <2> SUFFICES ASSUME TInv, [Next]_vars PROVE TInv'
      OBVIOUS
    <2> QED BY HandlingTInv, PassTInv, OtherTInv, StutterTInv DEF Next, Prepare, Ended
  <1> QED BY <1>1, InitTInv, PTL DEF Spec

\* A preparation never leaves its types; in particular it never calls the local model more
\* often than it may.
THEOREM PrepareTypeCorrect == Spec => []PrepareTypeOK
BY PrepareInvariant, PTL DEF TInv

\* No order of the rules gives less than the most restrictive matching one, and the decision is
\* that of the rule it names.
THEOREM FoldMostRestrictive == Spec => []MostRestrictive
BY PrepareInvariant, PTL DEF TInv, PolicyInv

-----------------------------------------------------------------------------
(* Rules hold against every route.                                         *)

\* The routes know a file only by its kind.
LEMMA KindFacts ==
  ASSUME PolicyOK, NEW f \in Files
  PROVE  /\ folded[f] \in Decisions /\ file[f] \in Kinds
         /\ Verified(f) => file[f].size = "small"
         /\ (FileType(f) = "pdf" => Document(f))
         /\ (FileType(f) # "pdf" => file[f].type # "pdf")
         /\ (Document(f) /\ Verified(f) => FileType(f) = "pdf")
         /\ (HighRisk(f) => Findings(f) # {})
BY DEF PolicyOK, Kinds, Verified, Scanned, FileType, Document, HighRisk

\* A block that is neither upgraded nor weakened by processors reaches the disposal.
LEMMA BlockHolds ==
  ASSUME PolicyOK, NEW f \in Files, NEW mode, NEW wish,
         folded[f].action = "block", folded[f].winner # "default", ~Upgraded(f),
         Exposure(Disposal(mode, wish, f)) # 0
  PROVE  \/ file[f].name = "private-key" /\ file[f].size = "huge"
         \/ Document(f) /\ folded[f].processors # {}
  <1> USE KindFacts
  <1> DEFINE m == Migrated(Escalated(mode, f), f)
             d == Decide(mode, f)
  <1> SUFFICES ASSUME ~(file[f].name = "private-key" /\ file[f].size = "huge"),
                      ~(Document(f) /\ folded[f].processors # {})
               PROVE  Exposure(Disposal(mode, wish, f)) = 0
    OBVIOUS
  <1>1. Escalated(mode, f) = folded[f]
    BY DEF Escalated, Merge, Safety, Rank, Actions
  <1>2. /\ file[f].name = "private-key" => m = Local("file-type:private-key-local-only")
        /\ file[f].name # "private-key" => m = folded[f]
    BY <1>1 DEF Migrated, Upgraded, LegacyNames
  <1>3. d = Settle(IF Verified(f) THEN RouteVerified(m, f) ELSE RouteUnverified(m, f))
    BY DEF Decide
  <1>4. ASSUME \/ d.action = "block"
               \/ /\ d.action = "local-only" /\ d.winner \in CredentialNames /\ file[f].size # "huge"
               \/ /\ d.action = "local-only" /\ Verified(f)
                  /\ Document(f) => Findings(f) # {}
        PROVE  Exposure(Disposal(mode, wish, f)) = 0
    <2>1. Disposal(mode, wish, f) \in {"excluded", "local", "policy", "document-local"}
      BY <1>4 DEF Disposal, Excluded
    <2> QED BY <2>1 DEF Exposure
  <1>5. CASE file[f].name = "private-key"
    <2>1. m.action = "local-only" /\ m.winner \in CredentialNames /\ m.winner # "default"
          /\ m.processors = {} /\ file[f].size # "huge"
      BY <1>2, <1>5 DEF Local, CredentialNames
    <2> HIDE DEF m
    <2>2. CASE ~Verified(f)
      <3>1. d = Settle([m EXCEPT !.processors = {}])
        BY <1>3, <2>1, <2>2 DEF RouteUnverified
      <3>2. m = Local("file-type:private-key-local-only")
        BY <1>2, <1>5
      <3>3. d.action = "local-only" /\ d.winner \in CredentialNames
        BY <3>1, <3>2 DEF Settle, Local, CredentialNames
      <3> QED BY <1>4, <2>1, <3>3
    <2>3. CASE Verified(f)
      <3>1. \/ RouteVerified(m, f) = m
            \/ /\ RouteVerified(m, f) = Local("document:unresolved-secret-local-only")
               /\ HighRisk(f)
        BY <2>1 DEF RouteVerified, Rank
      <3>2. CASE RouteVerified(m, f) = m
        BY <1>3, <1>4, <2>1, <2>3, <3>2 DEF Settle
      <3>3. CASE RouteVerified(m, f) = Local("document:unresolved-secret-local-only") /\ HighRisk(f)
        BY <1>3, <1>4, <2>3, <3>3 DEF Settle, Local
      <3> QED BY <3>1, <3>2, <3>3
    <2> QED BY <2>2, <2>3
  <1>6. CASE file[f].name # "private-key"
    <2>1. m = folded[f]
      BY <1>2, <1>6
    <2> HIDE DEF m
    <2>2. CASE ~Verified(f)
      <3>1. d = Settle([m EXCEPT !.processors = {}])
        BY <1>3, <2>1, <2>2 DEF RouteUnverified
      <3>2. d.action = "block"
        BY <2>1, <3>1 DEF Settle, Decisions
      <3> QED BY <1>4, <3>2
    <2>3. CASE Verified(f)
      <3>1. \/ RouteVerified(m, f) = m
            \/ /\ RouteVerified(m, f) = Local("document:unresolved-secret-local-only")
               /\ HighRisk(f)
            \/ /\ RouteVerified(m, f) = Local("file-type:transformation-unavailable")
               /\ ~Document(f)
        BY <2>1 DEF RouteVerified, Rank
      <3>2. CASE RouteVerified(m, f) = m
        BY <1>3, <1>4, <2>1, <2>3, <3>2 DEF Settle
      <3>3. CASE RouteVerified(m, f) = Local("document:unresolved-secret-local-only") /\ HighRisk(f)
        BY <1>3, <1>4, <2>3, <3>3 DEF Settle, Local
      <3>4. CASE RouteVerified(m, f) = Local("file-type:transformation-unavailable") /\ ~Document(f)
        BY <1>3, <1>4, <2>3, <3>4 DEF Settle, Local
      <3> QED BY <3>1, <3>2, <3>3, <3>4
    <2> QED BY <2>2, <2>3
  <1> QED BY <1>5, <1>6

\* What a rule withholds by any other action stays withheld when the scan verified the content.
LEMMA WithheldHolds ==
  ASSUME PolicyOK, NEW f \in Files, NEW mode, NEW wish,
         folded[f].action \in {"inject", "local-only", "ask", "block"}, folded[f].winner # "default",
         ~Upgraded(f), Verified(f), ~Document(f)
  PROVE  Exposure(Disposal(mode, wish, f)) = 0
  <1> USE KindFacts
  <1> DEFINE e == Escalated(mode, f)
             m == Migrated(Escalated(mode, f), f)
             d == Decide(mode, f)
             Withheld == {"inject", "local-only", "ask", "block"}
  <1>1. e.action \in Withheld /\ e.winner # "default"
        /\ (e.winner = folded[f].winner \/ e.winner \notin LegacyNames)
    <2>1. \/ e = folded[f]
          \/ e = [action |-> "local-only", winner |-> "yuhi-safety-sensitive-structured", processors |-> {}]
          \/ e = [action |-> "local-only", winner |-> "yuhi-safety-non-source-binaries", processors |-> {}]
      BY DEF Escalated, Merge, Safety
    <2> HIDE DEF e
    <2> QED BY <2>1 DEF LegacyNames
  <1>2. m.action \in Withheld /\ m.winner # "default"
    <2>1. m = e \/ m = Local("file-type:private-key-local-only")
      BY <1>1 DEF Migrated, Upgraded, LegacyNames
    <2> HIDE DEF e, m
    <2> QED BY <1>1, <2>1 DEF Local
  <1> HIDE DEF e, m
  <1>3. d = Settle(RouteVerified(m, f))
    BY DEF Decide, m
  <1>4. RouteVerified(m, f).action \in Withheld
    <2>1. RouteVerified(m, f) = m \/ RouteVerified(m, f) = Local("file-type:transformation-unavailable")
      BY <1>2 DEF RouteVerified, Rank
    <2> QED BY <1>2, <2>1 DEF Local
  <1>5. d.action \in {"inject", "local-only", "block"}
    BY <1>3, <1>4 DEF Settle
  <1>6. Disposal(mode, wish, f) \in {"excluded", "local", "policy"}
    BY <1>5 DEF Disposal, Excluded
  <1> QED BY <1>6 DEF Exposure

\* Nothing that decides about a file changes once the rules are folded.
LEMMA DisposalKept ==
  ASSUME UNCHANGED policyVars, UNCHANGED options, NEW f \in Files
  PROVE  Exposure(Disposal(Mode, Wish(f), f))' = Exposure(Disposal(Mode, Wish(f), f))
  <1>1. file' = file /\ folded' = folded /\ options' = options
    BY DEF policyVars
  <1>2. Scanned(f)' = Scanned(f) /\ FileType(f)' = FileType(f)
    BY <1>1 DEF Scanned, FileType
  <1>3. Verified(f)' = Verified(f) /\ Findings(f)' = Findings(f)
    BY <1>1, <1>2 DEF Verified, Findings
  <1>4. HighRisk(f)' = HighRisk(f) /\ Document(f)' = Document(f)
    BY <1>1, <1>3 DEF HighRisk, Document
  <1>5. Mode' = Mode /\ Wish(f)' = Wish(f)
    BY <1>1 DEF Mode, Wish
  <1>6. Escalated(Mode, f)' = Escalated(Mode, f)
    BY <1>1, <1>3, <1>5 DEF Escalated
  <1>7. Migrated(Escalated(Mode, f), f)' = Migrated(Escalated(Mode, f), f)
    BY <1>1, <1>6 DEF Migrated
  <1>8. Decide(Mode, f)' = Decide(Mode, f)
    <2> DEFINE m == Migrated(Escalated(Mode, f), f)
    <2>1. RouteVerified(m, f)' = RouteVerified(m, f)
      BY <1>2, <1>3, <1>4, <1>7 DEF RouteVerified
    <2>2. RouteUnverified(m, f)' = RouteUnverified(m, f)
      BY <1>2, <1>3, <1>4, <1>7 DEF RouteUnverified
    <2> QED BY <1>3, <2>1, <2>2 DEF Decide
  <1>9. Disposal(Mode, Wish(f), f)' = Disposal(Mode, Wish(f), f)
    BY <1>1, <1>2, <1>3, <1>4, <1>5, <1>8 DEF Disposal
  <1> QED BY <1>9 DEF Exposure

\* What is in the output was given a disposal that puts it there.
Disposed == \A f \in Files : work[f] # Nothing => Exposure(Disposal(Mode, Wish(f), f)) # 0

\* While rules are folded the output is empty.
LEMMA EmptyAtFirst == ASSUME TInv, phase = "rules" PROVE \A f \in Files : work[f] = Nothing
BY DEF TInv, Places, Handled

\* Every step keeps it: only routes that deliver put a file into the output.
LEMMA DisposedStep == ASSUME TInv, Disposed, [Next]_vars PROVE Disposed'
  <1> USE Types
  <1>1. CASE FoldRule
    <2>1. \A f \in Files : work'[f] = Nothing
      BY <1>1, EmptyAtFirst DEF FoldRule
    <2> QED BY <2>1 DEF Disposed
  <1>2. ASSUME UNCHANGED policyVars, UNCHANGED options,
               \A f \in Files : \/ work'[f] \in {work[f], Nothing}
                               \/ Exposure(Disposal(Mode, Wish(f), f)) # 0
        PROVE  Disposed'
    BY <1>2, DisposalKept DEF Disposed
  <1>3. ASSUME NEW f \in Files, ProcessFile(f) PROVE Disposed'
    <2>1. Routed(f) /\ (Stays(f) \/ Left(f) \/ Put(f) \/ PutFails(f))
      BY <1>3, RoutedStep
    <2>2. UNCHANGED policyVars /\ UNCHANGED options
      BY <2>1 DEF Routed, runVars
    <2>3. CASE Stays(f) \/ Left(f)
      BY <1>2, <2>2, <2>3 DEF Stays, Left
    <2>4. CASE Put(f)
      BY <1>2, <2>2, <2>4 DEF Put
    <2>5. CASE PutFails(f)
      <3>1. PICK c \in Source : work' \in {work, [work EXCEPT ![f] = c]}
        BY <2>5 DEF PutFails
      <3> QED BY <1>2, <2>2, <2>5, <3>1 DEF PutFails
    <2> QED BY <2>1, <2>3, <2>4, <2>5
  <1>4. CASE Escalate
    BY <1>2, <1>4 DEF Escalate, Remaining, runVars
  <1>5. ASSUME NEW f \in Files, FinalGate(f) PROVE Disposed'
    BY <1>2, <1>5 DEF FinalGate, runVars
  <1>6. CASE CaptureBefore \/ CaptureAfter \/ Abort \/ Cancel
    BY <1>2, <1>6 DEF CaptureBefore, CaptureAfter, Abort, Cancel, runVars
  <1>7. ASSUME NEW f \in Files, Enqueue(f) \/ Edit(f) PROVE Disposed'
    BY <1>2, <1>7 DEF Enqueue, Edit, runVars
  <1>8. CASE UNCHANGED vars
    BY <1>2, <1>8 DEF vars
  <1> QED BY <1>1, <1>3, <1>4, <1>5, <1>6, <1>7, <1>8 DEF Next, Prepare, Ended

\* What is in the output obeys the rules: from the fold (the decision is at least as
\* restrictive as the rule) and the routes (none of them weakens it so far).
LEMMA DisposedRulesHold == ASSUME TInv, Disposed PROVE RulesHold
  <1> SUFFICES ASSUME NEW f \in Files, work[f] # Nothing, ~Upgraded(f), folded[f].winner # "default",
                      NEW i \in DOMAIN rules, Matches(rules[i], f)
               PROVE  /\ rules[i].action = "block" =>
                           \/ file[f].name = "private-key" /\ file[f].size = "huge"
                           \/ Document(f) /\ folded[f].processors # {}
                      /\ rules[i].action \in {"local-only", "ask", "inject"} => ~Verified(f) \/ Document(f)
    BY DEF RulesHold
  <1>1. PolicyOK /\ MostRestrictive
    BY DEF TInv, PolicyInv
  <1>2. Exposure(Disposal(Mode, Wish(f), f)) # 0
    BY DEF Disposed
  <1>3. CASE phase \in {"rules", "cancelled"}
    BY <1>3, EmptyAtFirst DEF TInv, Places
  <1>4. CASE phase \notin {"rules", "cancelled"}
    <2>1. rules \in Seq(Rules) /\ next \in Nat \ {0} /\ next > Len(rules)
      BY <1>4 DEF TInv, PolicyInv, PolicyOK, Places
    <2>2. DOMAIN rules = 1 .. Len(rules) /\ Len(rules) \in Nat /\ rules[i] \in Rules
      BY <2>1, LenProperties
    <2>3. i \in 1 .. (next - 1)
      BY <2>1, <2>2
    <2>4. Rank[rules[i].action] <= Rank[folded[f].action]
      BY <1>1, <2>3 DEF MostRestrictive
    <2>5. folded[f].action \in Actions
      BY <1>1 DEF PolicyOK, Decisions
    <2>6. ASSUME rules[i].action = "block"
          PROVE  \/ file[f].name = "private-key" /\ file[f].size = "huge"
                 \/ Document(f) /\ folded[f].processors # {}
      <3>1. folded[f].action = "block"
        BY <2>4, <2>5, <2>6 DEF Rank, Actions
      <3> QED BY <1>1, <1>2, <3>1, BlockHolds
    <2>7. ASSUME rules[i].action \in {"local-only", "ask", "inject"}
          PROVE  ~Verified(f) \/ Document(f)
      <3>1. folded[f].action \in {"inject", "local-only", "ask", "block"}
        BY <2>4, <2>5, <2>7 DEF Rank, Actions
      <3> QED BY <1>1, <1>2, <3>1, WithheldHolds
    <2> QED BY <2>6, <2>7
  <1> QED BY <1>3, <1>4

\* No route, wish or mode delivers what a rule withholds, within what RulesHold says.
THEOREM RulesHoldThroughout == Spec => []RulesHold
  <1>1. Init => Disposed
    BY DEF Init, Disposed
  <1>2. TInv /\ Disposed /\ [Next]_vars => Disposed'
    BY DisposedStep
  <1>3. TInv /\ Disposed => RulesHold
    BY DisposedRulesHold
  <1> QED BY <1>1, <1>2, <1>3, PrepareInvariant, PTL DEF Spec

-----------------------------------------------------------------------------
(* The report and the queue.                                               *)

\* From the moment a file was handled, the report says what is on disk, unless a read or a
\* write of it failed.
Reported == \A f \in Handled \ failed : entry[f].omitted <=> work[f] = Nothing

\* Every step keeps it: handling enters and puts together, the passes after the loop change
\* both or neither.
LEMMA ReportedStep == ASSUME TInv, Reported, [Next]_vars PROVE Reported'
  <1> USE Types
  <1>0. Nothing \notin Source
    BY NothingAssumption
  <1>1. ASSUME NEW f \in Files, ProcessFile(f) PROVE Reported'
    <2>1. Routed(f) /\ (Stays(f) \/ Left(f) \/ Put(f) \/ PutFails(f))
      BY <1>1, RoutedStep
    <2>2. CASE Stays(f)
      <3>1. Handled' = Handled
        BY <2>2 DEF Stays, Handled
      <3> QED BY <2>2, <3>1 DEF Stays, Reported
    <2>3. ASSUME Left(f) \/ Put(f) \/ PutFails(f) PROVE Reported'
      <3>1. Handled' = Handled \cup {f} /\ f \notin Handled
        BY <2>1, <2>3, Advancing DEF Routed, Left, Put, PutFails
      <3>2. work[f] = Nothing
        BY <2>1, <3>1 DEF Routed, TInv, Places
      <3>3. CASE Left(f)
        <4>1. PICK o \in Outcomes \ {"pending"} : entry' = [entry EXCEPT ![f] = Kept(o)]
          BY <3>3 DEF Left
        <4>2. /\ entry'[f].omitted = TRUE /\ work' = work /\ failed \subseteq failed'
              /\ \A g \in Files \ {f} : entry'[g] = entry[g]
          BY <3>3, <4>1, EntryType DEF Left
        <4>3. Handled \subseteq Files
          BY <2>1, OrderType DEF Routed, Handled
        <4> QED BY <3>1, <3>2, <4>2, <4>3 DEF Reported
      <3>4. CASE Put(f)
        <4>1. PICK c \in Source, e \in Entry :
                /\ ~e.omitted /\ work' = [work EXCEPT ![f] = c] /\ entry' = [entry EXCEPT ![f] = e]
          BY <3>4 DEF Put
        <4>2. /\ ~entry'[f].omitted /\ work'[f] # Nothing
              /\ \A g \in Files \ {f} : entry'[g] = entry[g] /\ work'[g] = work[g]
          BY <1>0, <4>1
        <4>3. Handled \subseteq Files
          BY <2>1, OrderType DEF Routed, Handled
        <4>4. failed' = failed
          BY <3>4 DEF Put
        <4> QED BY <3>1, <4>2, <4>3, <4>4 DEF Reported
      <3>5. CASE PutFails(f)
        <4>1. PICK c \in Source : work' \in {work, [work EXCEPT ![f] = c]}
          BY <3>5 DEF PutFails
        <4>2. \A g \in Files \ {f} : entry'[g] = entry[g] /\ work'[g] = work[g]
          BY <3>5, <4>1 DEF PutFails
        <4>3. Handled \subseteq Files
          BY <2>1, OrderType DEF Routed, Handled
        <4>4. failed' = failed \cup {f}
          BY <3>5 DEF PutFails
        <4> QED BY <3>1, <4>2, <4>3, <4>4 DEF Reported
      <3> QED BY <2>3, <3>3, <3>4, <3>5
    <2> QED BY <2>1, <2>2, <2>3
  <1>2. CASE Escalate
    <2>1. phase = "escalate" /\ phase' \in {"gate", "failed"} /\ failed' = failed
      BY <1>2 DEF Escalate
    <2>2. CASE phase' = "failed"
      BY <2>2 DEF Reported, Handled
    <2>3. CASE phase' = "gate"
      <3>1. /\ work' = Remaining
            /\ entry' = [f \in Files |-> IF f \in TakenBack THEN Kept("kept-local") ELSE entry[f]]
        BY <1>2, <2>3 DEF Escalate
      <3>2. Handled = Files /\ Handled' = Files
        BY <2>1, <2>3 DEF Handled
      <3>3. Kept("kept-local").omitted = TRUE
        BY DEF Kept
      <3>4. ASSUME NEW f \in Files \ failed PROVE entry'[f].omitted <=> work'[f] = Nothing
        <4>1. entry[f].omitted <=> work[f] = Nothing
          BY <3>2 DEF Reported
        <4>2. CASE f \in TakenBack
          BY <3>1, <3>3, <4>2 DEF Remaining
        <4>3. CASE f \notin TakenBack
          BY <3>1, <4>1, <4>3 DEF Remaining
        <4> QED BY <4>2, <4>3
      <3> QED BY <2>1, <3>2, <3>4 DEF Reported
    <2> QED BY <2>1, <2>2, <2>3
  <1>3. ASSUME NEW f \in Files, FinalGate(f) PROVE Reported'
    <2>1. Handled = Files /\ entry \in [Files -> Entry]
      BY <1>3 DEF FinalGate, Handled
    <2>2. Handled' = Files
      BY <1>3, PassAdvancing DEF FinalGate, Handled
    <2>3. ASSUME NEW g \in Files \ failed' PROVE entry'[g].omitted <=> work'[g] = Nothing
      <3>1. g \notin failed /\ (entry[g].omitted <=> work[g] = Nothing)
        BY <1>3, <2>1, <2>3 DEF FinalGate, Reported
      <3>2. CASE g # f
        <4>1. entry'[g] = entry[g] /\ work'[g] = work[g]
          BY <1>3, <2>1, <3>2 DEF FinalGate
        <4> QED BY <3>1, <4>1
      <3>3. CASE g = f
        <4>1. CASE entry' = entry /\ work' = work
          BY <3>1, <4>1
        <4>2. CASE /\ ~entry[f].omitted /\ work[f] # Nothing
                   /\ entry' = [entry EXCEPT ![f] = Gate(f)]
                   /\ work' = IF Gate(f).omitted THEN [work EXCEPT ![f] = Nothing] ELSE work
          <5>1. entry'[f] = Gate(f)
            BY <2>1, <4>2
          <5>2. CASE Gate(f).omitted
            BY <3>3, <4>2, <5>1, <5>2
          <5>3. CASE ~Gate(f).omitted
            BY <3>3, <4>2, <5>1, <5>3
          <5> QED BY <5>2, <5>3
        <4> QED BY <1>3, <2>3, <3>3, <4>1, <4>2 DEF FinalGate
      <3> QED BY <3>2, <3>3
    <2> QED BY <2>2, <2>3 DEF Reported
  <1>4. ASSUME NEW f \in Files, Enqueue(f) PROVE Reported'
    <2>1. Handled = Files /\ entry \in [Files -> Entry]
      BY <1>4 DEF Enqueue, Handled
    <2>2. work' = work /\ failed' = failed
      BY <1>4 DEF Enqueue
    <2>3. \A g \in Files : entry'[g].omitted = entry[g].omitted
      BY <1>4, <2>1 DEF Enqueue, Entry
    <2>4. Handled' = Files
      BY <1>4, PassAdvancing DEF Enqueue, Handled
    <2> QED BY <2>1, <2>2, <2>3, <2>4 DEF Reported
  <1>5. CASE CaptureAfter
    <2>1. Handled' \subseteq Handled
      BY <1>5 DEF CaptureAfter, Handled
    <2> QED BY <1>5, <2>1 DEF CaptureAfter, Reported
  <1>6. CASE Cancel \/ CaptureBefore \/ FoldRule
    <2>1. Handled' = {}
      BY <1>6 DEF Cancel, CaptureBefore, FoldRule, Handled, TInv, Places
    <2> QED BY <2>1 DEF Reported
  <1>7. CASE Abort \/ UNCHANGED vars
    BY <1>7 DEF Abort, vars, Reported, Handled
  <1>8. ASSUME NEW f \in Files, Edit(f) PROVE Reported'
    BY <1>8 DEF Edit, Reported, Handled
  <1> QED BY <1>1, <1>2, <1>3, <1>4, <1>5, <1>6, <1>7, <1>8 DEF Next, Prepare, Ended

\* Once the safety-mode pass is over, the report and the output directory agree.
THEOREM ReportMatches == Spec => []ReportMatchesDisk
  <1>1. Init => Reported
    BY DEF Init, Reported, Handled
  <1>2. TInv /\ Reported /\ [Next]_vars => Reported'
    BY ReportedStep
  <1>3. Reported => ReportMatchesDisk
    BY DEF Reported, ReportMatchesDisk, Handled
  <1> QED BY <1>1, <1>2, <1>3, PrepareInvariant, PTL DEF Spec

\* What will be queued of a file whose original is in the output says so; the queue repeats it.
Tells ==
    /\ \A f \in Files : wanted[f] # Nothing /\ work[f] # Nothing => wanted[f] = TRUE
    /\ \A f \in Files : queue[f] # Nothing => queue[f] = wanted[f]
    /\ \A f \in Files : entry[f] # Nothing /\ entry[f].outcome = "pending" => queue[f] # Nothing

\* Every step keeps it.
LEMMA TellsStep == ASSUME TInv, Tells, [Next]_vars PROVE Tells'
  <1> USE Types
  <1>1. ASSUME NEW f \in Files, ProcessFile(f) PROVE Tells'
    <2>1. Routed(f) /\ (Stays(f) \/ Left(f) \/ Put(f) \/ PutFails(f))
      BY <1>1, RoutedStep
    <2>2. queue' = queue /\ \A g \in Files : queue[g] = Nothing
      BY <2>1 DEF Routed, TInv, Places
    <2>3. CASE Stays(f)
      BY <2>2, <2>3 DEF Stays, Tells
    <2>4. ASSUME Left(f) \/ Put(f) \/ PutFails(f) PROVE Tells'
      <3>1. f \notin Handled
        BY <2>1, <2>4, Advancing DEF Routed, Left, Put, PutFails
      <3>2. work[f] = Nothing
        BY <2>1, <3>1 DEF Routed, TInv, Places
      <3>3. CASE Left(f)
        <4>1. PICK o \in Outcomes \ {"pending"} : entry' = [entry EXCEPT ![f] = Kept(o)]
          BY <3>3 DEF Left
        <4>2. entry'[f].outcome # "pending" /\ \A g \in Files \ {f} : entry'[g] = entry[g]
          BY <4>1, EntryType
        <4>3. work' = work /\ \A g \in Files \ {f} : wanted'[g] = wanted[g]
          BY <3>3 DEF Left, Wanted
        <4> QED BY <2>2, <3>2, <4>2, <4>3 DEF Tells
      <3>4. CASE Put(f)
        <4>1. PICK c \in Source, e \in Entry :
                /\ e.outcome # "pending" /\ work' = [work EXCEPT ![f] = c]
                /\ entry' = [entry EXCEPT ![f] = e]
          BY <3>4 DEF Put
        <4>2. /\ entry'[f].outcome # "pending"
              /\ \A g \in Files \ {f} : entry'[g] = entry[g] /\ work'[g] = work[g]
          BY <4>1
        <4>3. wanted'[f] \in {TRUE, Nothing} /\ \A g \in Files \ {f} : wanted'[g] = wanted[g]
          BY <3>4 DEF Put, Wanted
        <4> QED BY <2>2, <4>2, <4>3 DEF Tells
      <3>5. CASE PutFails(f)
        <4>1. PICK c \in Source : work' \in {work, [work EXCEPT ![f] = c]}
          BY <3>5 DEF PutFails
        <4>2. Kept("unreadable").outcome = "unreadable"
          BY DEF Kept
        <4>3. entry' = [entry EXCEPT ![f] = Kept("unreadable")]
          BY <3>5 DEF PutFails
        <4>4. /\ entry'[f].outcome # "pending"
              /\ \A g \in Files \ {f} : entry'[g] = entry[g] /\ work'[g] = work[g]
          BY <4>1, <4>2, <4>3
        <4>5. wanted'[f] = Nothing /\ \A g \in Files \ {f} : wanted'[g] = wanted[g]
          BY <3>5 DEF PutFails, Wanted
        <4> QED BY <2>2, <4>4, <4>5 DEF Tells
      <3> QED BY <2>4, <3>3, <3>4, <3>5
    <2> QED BY <2>1, <2>3, <2>4
  <1>2. CASE Escalate
    <2>1. UNCHANGED <<wanted, queue>> /\ \A f \in Files : work'[f] \in {work[f], Nothing}
      BY <1>2 DEF Escalate, Remaining
    <2>2. Kept("kept-local").outcome = "kept-local"
      BY DEF Kept
    <2>3. \A f \in Files : entry'[f] \in {entry[f], Kept("kept-local")}
      BY <1>2 DEF Escalate
    <2> QED BY <2>1, <2>2, <2>3 DEF Tells
  <1>3. ASSUME NEW f \in Files, FinalGate(f) PROVE Tells'
    <2>1. entry \in [Files -> Entry]
      BY <1>3 DEF FinalGate
    <2>2. UNCHANGED <<wanted, queue>> /\ \A g \in Files : work'[g] \in {work[g], Nothing}
      BY <1>3 DEF FinalGate
    <2>3. \A g \in Files : entry'[g].outcome = "pending" => entry[g].outcome = "pending"
      <3>1. Gate(f).outcome \in {entry[f].outcome, "included-unverified", "transformation-failed"}
        BY <2>1, GateType
      <3>2. CASE entry' = entry \/ entry' = [entry EXCEPT ![f] = Gate(f)]
        BY <2>1, <3>1, <3>2
      <3>3. CASE entry' = [entry EXCEPT ![f].verified = FALSE]
        BY <2>1, <3>3 DEF Entry
      <3>4. CASE entry' = [entry EXCEPT ![f].verified = FALSE, ![f].outcome =
                             IF @ = "included-transformed" THEN "included-unverified" ELSE @]
        BY <2>1, <3>4 DEF Entry
      <3> QED BY <1>3, <3>2, <3>3, <3>4 DEF FinalGate
    <2>4. \A g \in Files : entry[g] # Nothing
      BY <2>1, NothingAssumption
    <2> QED BY <2>2, <2>3, <2>4 DEF Tells
  <1>4. ASSUME NEW f \in Files, Enqueue(f) PROVE Tells'
    <2>1. entry \in [Files -> Entry]
      BY <1>4 DEF Enqueue
    <2>2. UNCHANGED <<wanted, work>>
      BY <1>4 DEF Enqueue
    <2>3. CASE UNCHANGED <<queue, entry>>
      BY <2>2, <2>3 DEF Tells
    <2>4. CASE /\ wanted[f] # Nothing /\ queue' = [queue EXCEPT ![f] = wanted[f]]
               /\ entry' = [entry EXCEPT ![f].outcome = "pending"]
      <3>1. queue'[f] = wanted[f] /\ \A g \in Files \ {f} : queue'[g] = queue[g] /\ entry'[g] = entry[g]
        BY <2>1, <2>4
      <3> QED BY <2>2, <2>4, <3>1 DEF Tells
    <2> QED BY <1>4, <2>3, <2>4 DEF Enqueue, Item
  <1>5. CASE Cancel
    <2>1. \A f \in Files : queue'[f] = Nothing /\ work'[f] = Nothing /\ entry'[f] = Nothing
      BY <1>5 DEF Cancel, TInv, Places
    <2> QED BY <2>1 DEF Tells
  <1>6. CASE FoldRule \/ CaptureBefore \/ CaptureAfter \/ Abort \/ UNCHANGED vars
    BY <1>6 DEF FoldRule, CaptureBefore, CaptureAfter, Abort, vars, Tells
  <1>7. ASSUME NEW f \in Files, Edit(f) PROVE Tells'
    BY <1>7 DEF Edit, Tells
  <1> QED BY <1>1, <1>2, <1>3, <1>4, <1>5, <1>6, <1>7 DEF Next, Prepare, Ended

\* The background queue knows of every original the agent can see.
THEOREM QueueTellsAlways == Spec => []QueueTells
  <1>1. Init => Tells
    BY DEF Init, Tells
  <1>2. TInv /\ Tells /\ [Next]_vars => Tells'
    BY TellsStep
  <1>3. Tells => QueueTells
    BY DEF Tells, QueueTells
  <1> QED BY <1>1, <1>2, <1>3, PrepareInvariant, PTL DEF Spec

-----------------------------------------------------------------------------
(* Source integrity.                                                       *)

Differs == \E f \in Files : source[f].edition # before[f]
Faithful ==
    /\ \A f \in Files : /\ source[f].edition = before[f]
                        /\ work[f] # Nothing => work[f].edition = before[f]
    /\ held # Nothing => held.edition = before[Current]

\* With at most one edit: before the first capture the output is empty; after it either the
\* source already differs, and stays so, or everything read and written is what was captured.
Captured == edits <= 1 =>
    /\ edits = 0 => \A f \in Files :
         source[f].edition = 0 /\ (phase \in {"rules", "cancelled"} \/ before[f] = 0)
    /\ phase \notin {"rules", "enqueue", "done", "cancelled"} => Differs \/ Faithful
    /\ phase \in {"enqueue", "done"} => \A f \in Files : work[f] # Nothing => work[f].edition = before[f]

\* Every step keeps it: the first edit makes the source differ from the capture for good.
LEMMA CapturedStep == ASSUME TInv, Captured, [Next]_vars PROVE Captured'
  <1> USE Types
  <1>0. edits \in Nat
    OBVIOUS
  <1>1. ASSUME edits <= 1, UNCHANGED <<source, before, edits>>, phase # "rules",
               phase \notin {"enqueue", "done", "cancelled"}, phase' \notin {"rules", "enqueue", "done"},
               Faithful => Faithful'
        PROVE  Captured'
    BY <1>1 DEF Captured, Differs
  <1>2. SUFFICES ASSUME edits' <= 1 PROVE Captured'
    BY DEF Captured
  <1>3. edits <= 1
    <2>1. edits' = edits \/ edits' = edits + 1
      BY DEF Next, Prepare, ProcessFile, Ended, vars, FoldRule, CaptureBefore, Escalate, CaptureAfter, Cancel,
             Exclude, KeepLocal, CopyRaw, RouteDocument, Read, Verbatim, Workbook, SkipModel, AskModel,
             Transform, FinalGate, Enqueue, Abort, Edit
    <2> QED BY <1>0, <1>2, <2>1
  <1>4. CASE FoldRule
    BY <1>4 DEF FoldRule, Captured
  <1>5. CASE CaptureBefore
    <2>1. before' = [f \in Files |-> source[f].edition] /\ phase = "rules" /\ held = Nothing
      BY <1>5 DEF CaptureBefore, Snapshot, TInv, Places
    <2>2. \A f \in Files : work[f] = Nothing
      BY <2>1, EmptyAtFirst
    <2>3. Faithful'
      BY <1>5, <2>1, <2>2 DEF CaptureBefore, Faithful
    <2>4. UNCHANGED <<source, edits>> /\ phase' = "files"
      BY <1>5 DEF CaptureBefore
    <2> QED BY <1>3, <2>1, <2>3, <2>4 DEF Captured
  <1>6. ASSUME NEW f \in Files, ProcessFile(f) PROVE Captured'
    <2>1. Routed(f) /\ (Stays(f) \/ Left(f) \/ Put(f) \/ PutFails(f))
      BY <1>6, RoutedStep
    <2>2. UNCHANGED <<source, before, edits>> /\ phase = "files" /\ f = Current
      BY <2>1 DEF Routed, runVars
    <2>3. Faithful => Edition(f) = before[f]
      BY <2>2 DEF Faithful, Edition
    <2>4. CASE Stays(f)
      <3>1. phase' = "files" /\ Current' = Current /\ work' = work
        BY <2>2, <2>4 DEF Stays, Current
      <3>2. held'.edition = Edition(f)
        BY <2>4 DEF Stays, Edition
      <3>3. Faithful => Faithful'
        BY <2>2, <2>3, <3>1, <3>2 DEF Faithful
      <3> QED BY <1>1, <1>3, <2>2, <3>1, <3>3
    <2>5. ASSUME Left(f) \/ Put(f) \/ PutFails(f) PROVE Captured'
      <3>1. held' = Nothing /\ phase' \in {"files", "escalate"}
        BY <2>2, <2>5, Advancing DEF Left, Put, PutFails
      <3>2. /\ work'[f] = work[f] \/ (work'[f] # Nothing => work'[f].edition = Edition(f))
            /\ \A g \in Files \ {f} : work'[g] = work[g]
        <4>1. CASE Left(f)
          BY <4>1 DEF Left
        <4>2. CASE Put(f)
          BY <4>2 DEF Put
        <4>3. CASE PutFails(f)
          <5>1. PICK c \in Source : c.edition = Edition(f) /\ work' \in {work, [work EXCEPT ![f] = c]}
            BY <4>3 DEF PutFails
          <5> QED BY <5>1
        <4> QED BY <2>5, <4>1, <4>2, <4>3
      <3>3. Faithful => Faithful'
        BY <2>2, <2>3, <3>1, <3>2 DEF Faithful
      <3> QED BY <1>1, <1>3, <2>2, <3>1, <3>3
    <2> QED BY <2>1, <2>4, <2>5
  <1>7. CASE Escalate
    <2>1. /\ phase = "escalate" /\ phase' \in {"gate", "failed"} /\ UNCHANGED <<source, before, edits>>
          /\ held = Nothing /\ held' = Nothing
      BY <1>7 DEF Escalate, runVars, TInv, Places
    <2>2. \A f \in Files : work'[f] \in {work[f], Nothing}
      BY <1>7 DEF Escalate, Remaining
    <2>3. Faithful => Faithful'
      BY <2>1, <2>2 DEF Faithful
    <2> QED BY <1>1, <1>3, <2>1, <2>3
  <1>8. ASSUME NEW f \in Files, FinalGate(f) PROVE Captured'
    <2>1. /\ phase = "gate" /\ phase' \in {"gate", "after"} /\ UNCHANGED <<source, before, edits>>
          /\ held' = Nothing
      BY <1>8, PassAdvancing DEF FinalGate, runVars
    <2>2. \A g \in Files : work'[g] \in {work[g], Nothing}
      BY <1>8 DEF FinalGate
    <2>3. Faithful => Faithful'
      BY <2>1, <2>2 DEF Faithful
    <2> QED BY <1>1, <1>3, <2>1, <2>3
  <1>9. CASE CaptureAfter
    <2>1. /\ phase = "after" /\ UNCHANGED <<source, before, edits, work, held>>
          /\ phase' = "failed" \/ (phase' \in {"done", "enqueue"} /\ Snapshot = before)
      BY <1>9 DEF CaptureAfter, runVars
    <2>2. CASE phase' = "failed"
      <3>1. held = Nothing
        BY <2>1 DEF TInv, Places
      <3>2. Faithful => Faithful'
        BY <2>1, <3>1 DEF Faithful
      <3> QED BY <1>1, <1>3, <2>1, <2>2, <3>2
    <2>3. CASE phase' \in {"done", "enqueue"} /\ Snapshot = before
      <3>1. ~Differs
        BY <2>3 DEF Differs, Snapshot
      <3>2. Faithful
        BY <1>3, <2>1, <3>1 DEF Captured
      <3> QED BY <1>3, <2>1, <2>3, <3>2 DEF Captured, Faithful
    <2> QED BY <2>1, <2>2, <2>3
  <1>10. ASSUME NEW f \in Files, Enqueue(f) PROVE Captured'
    <2>1. phase = "enqueue" /\ phase' \in {"enqueue", "done"} /\ UNCHANGED <<source, before, edits, work>>
      BY <1>10, PassAdvancing DEF Enqueue, runVars
    <2> QED BY <1>3, <2>1 DEF Captured
  <1>11. CASE Cancel
    <2>1. phase' = "cancelled" /\ UNCHANGED <<source, before, edits>>
      BY <1>11 DEF Cancel, runVars
    <2>2. edits = 0 => \A f \in Files : source[f].edition = 0
      BY <1>3 DEF Captured
    <2> QED BY <2>1, <2>2 DEF Captured
  <1>12. CASE Abort \/ UNCHANGED vars
    BY <1>12 DEF Abort, runVars, vars, Captured, Differs, Faithful, Current
  <1>13. ASSUME NEW f \in Files, Edit(f) PROVE Captured'
    <2>1. edits = 0 /\ edits' = 1 /\ UNCHANGED <<before, phase, work, held>>
      BY <1>0, <1>2, <1>13 DEF Edit, runVars
    <2>2. \A g \in Files : source[g].edition = 0 /\ (phase = "rules" \/ before[g] = 0)
      BY <1>3, <1>13, <2>1 DEF Captured, Edit, Running
    <2>3. PICK has \in EditedTo : source' = [source EXCEPT ![f] = [edition |-> edits + 1, has |-> has]]
      BY <1>13, <2>2 DEF Edit
    <2>4. source'[f].edition = 1
      BY <2>1, <2>3
    <2>5. phase # "rules" => Differs'
      BY <2>1, <2>2, <2>4 DEF Differs
    <2> QED BY <1>3, <2>1, <2>5 DEF Captured
  <1> QED BY <1>4, <1>5, <1>6, <1>7, <1>8, <1>9, <1>10, <1>11, <1>12, <1>13 DEF Next, Prepare, Ended

\* A preparation that a single edit ran through does not finish with anything but what the
\* first capture saw, wherever the edit falls between two awaits.
THEOREM SingleEditCaught == Spec => []EditCaught
  <1>1. Init => Captured
    BY DEF Init, Captured
  <1>2. TInv /\ Captured /\ [Next]_vars => Captured'
    BY CapturedStep
  <1>3. Captured => EditCaught
    BY DEF Captured, EditCaught, Finished
  <1> QED BY <1>1, <1>2, <1>3, PrepareInvariant, PTL DEF Spec

-----------------------------------------------------------------------------
(* The safety modes are ordered.                                           *)

\* The files and the rules are those the preparation began with; no more are folded than there are.
Began ==
    /\ file \in Workspaces /\ \E policy \in Policies : rules = policy.rules
    /\ next <= Len(rules) + 1

\* So it is at first.
LEMMA InitBegan == Init => Began
  <1>1. ASSUME Init PROVE Len(rules) \in Nat
    BY <1>1, InitTInv, LenProperties DEF TInv, PolicyInv, PolicyOK
  <1> QED BY <1>1 DEF Init, PolicyInit, Began

\* Neither changes while it runs.
LEMMA BeganStep == TInv /\ Began /\ [Next]_vars => Began'
  <1> SUFFICES ASSUME TInv, Began, [Next]_vars
               PROVE  /\ file' = file /\ rules' = rules
                      /\ next' = next \/ (next <= Len(rules) /\ next' = next + 1)
    BY LenProperties DEF Began, TInv, PolicyInv, PolicyOK
  <1>1. CASE FoldRule
    BY <1>1 DEF FoldRule, ApplyRule
  <1>2. ASSUME NEW f \in Files, ProcessFile(f) PROVE UNCHANGED policyVars
    BY <1>2, RoutedStep DEF Routed, runVars
  <1>3. ASSUME NEW f \in Files, FinalGate(f) \/ Enqueue(f) \/ Edit(f) PROVE UNCHANGED policyVars
    BY <1>3 DEF FinalGate, Enqueue, Edit, runVars
  <1>4. ASSUME CaptureBefore \/ Escalate \/ CaptureAfter \/ Cancel \/ Abort \/ UNCHANGED vars
        PROVE  UNCHANGED policyVars
    BY <1>4 DEF CaptureBefore, Escalate, CaptureAfter, Cancel, Abort, vars, runVars
  <1>5. FoldRule \/ UNCHANGED policyVars
    BY <1>2, <1>3, <1>4 DEF Next, Prepare, Ended
  <1> QED BY <1>1, <1>5 DEF policyVars

\* The decision has the name and the action of one rule that matches, unless it is the default.
LEMMA WinnerMatches ==
  ASSUME PolicyInv, Began, NEW f \in Files, folded[f].winner # "default"
  PROVE  \E i \in DOMAIN rules : /\ Matches(rules[i], f)
                                 /\ folded[f].winner = rules[i].name
                                 /\ folded[f].action = rules[i].action
  <1>1. PICK i \in 1 .. (next - 1) : /\ Matches(rules[i], f)
                                     /\ folded[f].winner = rules[i].name
                                     /\ folded[f].action = rules[i].action
    BY DEF PolicyInv, MostRestrictive
  <1>2. i \in DOMAIN rules
    BY LenProperties DEF PolicyInv, PolicyOK, Began
  <1> QED BY <1>1, <1>2

\* With the same decision a mode that includes less exposes less.
LEMMA SameDecision ==
  ASSUME NEW f \in Files, NEW wish, NEW m, NEW n, Decide(m, f) = Decide(n, f),
         Included(m, wish) => Included(n, wish)
  PROVE  Exposure(Disposal(m, wish, f)) <= Exposure(Disposal(n, wish, f))
  <1> DEFINE d == Decide(m, f)
  <1>0. \A x \in {m, n} : Exposure(Disposal(x, wish, f)) \in {0, 1, 2}
    BY DEF Exposure, Disposal
  <1>1. CASE Included(m, wish) <=> Included(n, wish)
    <2>1. Disposal(m, wish, f) = Disposal(n, wish, f)
      BY <1>1 DEF Disposal
    <2> QED BY <1>0, <2>1
  <1>2. CASE ~Included(m, wish) /\ Included(n, wish)
    <2>1. Disposal(m, wish, f) \in {"document-local", "local", "policy", Disposal(n, wish, f)}
      BY <1>2 DEF Disposal, Excluded
    <2>2. Exposure("document-local") = 0 /\ Exposure("local") = 0 /\ Exposure("policy") = 0
      BY DEF Exposure
    <2> QED BY <1>0, <2>1, <2>2
  <1> QED BY <1>1, <1>2

\* A file whose structure is sensitive: the rule of the mode is overruled, or nothing is given.
LEMMA StructuredStays ==
  ASSUME PolicyOK, NEW f \in Files, NEW wish, NEW mode \in {"strict", "maximum-privacy"},
         Findings(f) \cap {"direct-identifiers", "malformed-table"} # {},
         file[f].type \notin {"blob", "archive"}
  PROVE  Escalated(mode, f) = folded[f] \/ Exposure(Disposal(mode, wish, f)) = 0
  <1> DEFINE name == "yuhi-safety-sensitive-structured"
             m == Migrated(Local(name), f)
  <1>1. /\ Verified(f) /\ FileType(f) \in {"csv", "xlsx"} /\ file[f].size = "small" /\ ~Document(f)
        /\ file[f].type \notin {"archive", "pdf"}
    <2>1. Scanned(f) /\ FileType(f) \in {"csv", "xlsx"} /\ (FileType(f) = "xlsx" => file[f].legible)
      BY DEF Findings, FileType, Secrets
    <2>2. file[f].type \in {"csv", "xlsx"}
      BY <2>1, KindFacts DEF FileType, Kinds
    <2> QED BY <2>1, <2>2 DEF Verified, Scanned, Document
  <1>2. Escalated(mode, f) = folded[f] \/ Escalated(mode, f) = Local(name)
    BY DEF Escalated, Merge, Safety, Local
  <1>3. ASSUME Escalated(mode, f) = Local(name) PROVE Exposure(Disposal(mode, wish, f)) = 0
    <2>1. m = Local(name) \/ m = Local("file-type:private-key-local-only")
      BY DEF Migrated, Local, LegacyNames
    <2>2. m.action = "local-only" /\ m.winner # "default" /\ m.processors = {}
      BY <2>1 DEF Local
    <2> HIDE DEF m
    <2>3. RouteVerified(m, f) = m
      BY <1>1, <2>2 DEF RouteVerified
    <2>4. Decide(mode, f) = Settle(m)
      BY <1>1, <1>3, <2>3 DEF Decide, m
    <2>5. Decide(mode, f).action = "local-only"
      BY <2>2, <2>4 DEF Settle
    <2>6. Disposal(mode, wish, f) \in {"excluded", "policy"}
      BY <1>1, <2>5 DEF Disposal, Excluded
    <2> QED BY <2>6 DEF Exposure
  <1> QED BY <1>2, <1>3

\* A binary: a weaker decision than that of maximum privacy has no name the routes look for,
\* so that they treat both in the same way.
LEMMA BinaryDecision ==
  ASSUME PolicyInv, Began, NamesWithhold, NEW f \in Files, file[f].type \in {"blob", "archive"}
  PROVE  Decide("maximum-privacy", f) = Decide("strict", f)
  <1> DEFINE name == "yuhi-safety-non-source-binaries"
             e == Escalated("maximum-privacy", f)
             Known == CredentialNames \cup LegacyNames
  <1>0. PolicyOK /\ folded[f].action \in Actions
    BY KindFacts DEF PolicyInv, Decisions
  <1>1. Findings(f) = {} /\ ~Verified(f)
    BY DEF Findings, Verified, FileType, Scanned
  <1>2. Escalated("strict", f) = folded[f]
    BY <1>1 DEF Escalated
  <1>3. \/ e = folded[f]
        \/ /\ e = Local(name) /\ folded[f].action \notin {"ask", "block"}
           /\ folded[f].action = "local-only" => folded[f].winner = "default"
    BY <1>0, <1>1 DEF Escalated, Merge, Safety, Local, Rank, Actions
  <1> HIDE DEF e
  <1>4. CASE e = folded[f]
    BY <1>2, <1>4 DEF Decide, e
  <1>5. CASE /\ e = Local(name) /\ folded[f].action \notin {"ask", "block"}
             /\ folded[f].action = "local-only" => folded[f].winner = "default"
    <2>1. folded[f].winner \notin Known
      <3> SUFFICES ASSUME folded[f].winner \in Known PROVE FALSE
        OBVIOUS
      <3>1. folded[f].winner # "default"
        BY DEF CredentialNames, LegacyNames
      <3>2. PICK i \in DOMAIN rules : /\ Matches(rules[i], f)
                                      /\ folded[f].winner = rules[i].name
                                      /\ folded[f].action = rules[i].action
        BY <3>1, WinnerMatches
      <3>3. f \in rules[i].on
        BY <1>1, <3>2 DEF Matches
      <3>4. rules[i].action \in {"local-only", "ask", "block"}
        BY <3>2, <3>3 DEF NamesWithhold, Began
      <3> QED BY <1>5, <3>1, <3>2, <3>4
    <2>2. CASE file[f].name = "private-key"
      BY <2>2 DEF Decide, Migrated
    <2>3. CASE file[f].name # "private-key"
      <3>1. Migrated(folded[f], f) = folded[f] /\ Migrated(e, f) = e
        BY <1>5, <2>1, <2>3 DEF Migrated, Local, LegacyNames
      <3>2. RouteUnverified(folded[f], f) = RouteUnverified(e, f)
        BY <1>5, <2>1 DEF RouteUnverified, Local, CredentialNames
      <3> QED BY <1>1, <1>2, <3>1, <3>2 DEF Decide, e
    <2> QED BY <2>2, <2>3
  <1> QED BY <1>3, <1>4, <1>5

\* The order for one file and one wish.
LEMMA ModesOrdered ==
  ASSUME PolicyInv, Began, NamesWithhold, NEW f \in Files, NEW wish
  PROVE  /\ Exposure(Disposal("maximum-privacy", wish, f)) <= Exposure(Disposal("strict", wish, f))
         /\ Exposure(Disposal("strict", wish, f)) <= Exposure(Disposal("balanced", wish, f))
  <1> DEFINE Structured == Findings(f) \cap {"direct-identifiers", "malformed-table"} # {}
             Binary == file[f].type \in {"blob", "archive"}
  <1>0. /\ PolicyOK /\ \A mode : Exposure(Disposal(mode, wish, f)) \in {0, 1, 2}
        /\ Included("strict", wish) /\ Included("balanced", wish)
    BY DEF PolicyInv, Exposure, Disposal, Included
  <1>1. \A m, n : Escalated(m, f) = Escalated(n, f) => Decide(m, f) = Decide(n, f)
    BY DEF Decide
  <1>2. Decide("maximum-privacy", f) = Decide("strict", f)
    <2>1. CASE Binary
      BY <2>1, BinaryDecision
    <2>2. CASE ~Binary
      BY <1>1, <2>2 DEF Escalated
    <2> QED BY <2>1, <2>2
  <1>3. Binary => ~Structured
    BY DEF Findings, FileType
  <1>4. \/ Decide("strict", f) = Decide("balanced", f)
        \/ Exposure(Disposal("strict", wish, f)) = 0
    <2>1. Escalated("balanced", f) = folded[f]
      BY DEF Escalated
    <2>2. CASE Structured
      BY <1>0, <1>1, <1>3, <2>1, <2>2, StructuredStays
    <2>3. CASE ~Structured
      BY <1>1, <2>1, <2>3 DEF Escalated
    <2> QED BY <2>2, <2>3
  <1>5. Exposure(Disposal("maximum-privacy", wish, f)) <= Exposure(Disposal("strict", wish, f))
    BY <1>0, <1>2, SameDecision
  <1>6. Exposure(Disposal("strict", wish, f)) <= Exposure(Disposal("balanced", wish, f))
    BY <1>0, <1>4, SameDecision
  <1> QED BY <1>5, <1>6

\* Each mode exposes at most what the weaker one does, for every rule list in which a rule with
\* a name the routes look for (resolve.ts:102-147) withholds the binaries it matches. Such a name
\* exempts a binary the scan cannot verify from the route for unverified content; the rule that
\* maximum privacy appends takes the name away.
THEOREM ModesNarrowThroughout ==
  ASSUME NamesWithhold
  PROVE  Spec => []ModesNarrow
  <1>1. Init => Began
    BY InitBegan
  <1>2. TInv /\ Began => ModesNarrow
    BY ModesOrdered DEF TInv, ModesNarrow
  <1> QED BY <1>1, <1>2, BeganStep, PrepareInvariant, PTL DEF Spec

-----------------------------------------------------------------------------
(* Credentials stay.                                                       *)

\* A text the final gate does not look at: a source file, an environment file.
PlainText(f) == file[f].type = "text" /\ file[f].size # "huge"

\* What was read of an unedited file is what was scanned.
SourceScanned ==
    /\ \A f \in Files : source[f].edition = 0 => source[f].has = file[f].has
    /\ held # Nothing /\ held.edition = 0 => held.has = file[Current].has

\* The files the final gate has passed.
PastGate ==
    CASE phase = "gate" -> {Order[i] : i \in 1 .. (turn - 1)}
      [] phase \in {"after", "enqueue", "done"} -> Files
      [] OTHER -> {}

\* Plain texts are clean when they are written, the others once the gate has passed them.
CleanText(f) == PlainText(f) /\ work[f] # Nothing /\ work[f].edition = 0 =>
    "credential" \notin work[f].has
CleanAfterGate(f) == Gated(f) /\ file[f].size # "huge" /\ work[f] # Nothing =>
    "credential" \notin work[f].has
Clean ==
    /\ SourceScanned
    /\ phase = "escalate" => turn = 1
    /\ \A f \in Files : CleanText(f)
    /\ \A f \in PastGate \ failed : CleanAfterGate(f)

\* A text with a credential in it: the scan saw it, or no route takes the text as it is.
LEMMA CredentialRoute ==
  ASSUME PolicyInv, Began, NamesNeverAllow, NEW f \in Files, PlainText(f),
         "credential" \in file[f].has, NEW mode, NEW wish
  PROVE  Disposal(mode, wish, f) \in {"excluded", "policy", "pipeline", "risky"}
  <1> DEFINE e == Escalated(mode, f)
             m == Migrated(Escalated(mode, f), f)
             d == Decide(mode, f)
  <1>1. FileType(f) = "text" /\ ~Document(f) /\ file[f].type # "archive" /\ file[f].size # "huge"
    BY DEF PlainText, FileType, Document
  <1>2. CASE Scanned(f)
    <2>1. HighRisk(f) /\ Verified(f)
      BY <1>1, <1>2 DEF HighRisk, Findings, Secrets, Verified
    <2> QED BY <1>1, <2>1 DEF Disposal
  <1>3. CASE ~Scanned(f)
    <2>1. ~Verified(f)
      BY <1>3 DEF Verified
    <2>2. folded[f].action \in Actions
          /\ (folded[f].winner \in CredentialNames => folded[f].action # "allow")
      <3>1. folded[f].action \in Actions
        BY DEF PolicyInv, PolicyOK, Decisions
      <3>2. ASSUME folded[f].winner \in CredentialNames PROVE folded[f].action # "allow"
        <4>1. folded[f].winner # "default"
          BY <3>2 DEF CredentialNames
        <4>2. PICK i \in DOMAIN rules : /\ folded[f].winner = rules[i].name
                                        /\ folded[f].action = rules[i].action
          BY <4>1, WinnerMatches
        <4> QED BY <3>2, <4>2 DEF NamesNeverAllow, Began
      <3> QED BY <3>1, <3>2
    <2>3. e.action \in Actions /\ (e.winner \in CredentialNames => e.action # "allow")
      <3>1. \/ e = folded[f]
            \/ e = Local("yuhi-safety-sensitive-structured")
            \/ e = Local("yuhi-safety-non-source-binaries")
        BY DEF Escalated, Merge, Safety, Local
      <3> HIDE DEF e
      <3> QED BY <2>2, <3>1 DEF Local, Actions
    <2>4. m.action \in Actions /\ (m.winner \in CredentialNames => m.action # "allow")
      <3>1. \/ m = e
            \/ m = Prepared("yuhi:environment-sanitized-copy", {"sanitize-environment"})
            \/ m = Prepared("yuhi:credential-sanitized-copy", {"sanitize-credentials"})
            \/ m = Local("file-type:private-key-local-only")
        BY DEF Migrated
      <3> HIDE DEF e, m
      <3> QED BY <2>3, <3>1 DEF Local, Prepared, Actions
    <2> HIDE DEF e, m
    <2>5. d = Settle(RouteUnverified(m, f))
      BY <2>1 DEF Decide, m
    <2>6. d.action \in Actions \ {"allow"} /\ (d.action = "local-only" => d.winner \in CredentialNames)
      <3>1. \/ /\ RouteUnverified(m, f) = Prepared("file-type:transform-unverified", {"pseudonymize"})
            \/ /\ RouteUnverified(m, f) = [m EXCEPT !.processors = {}]
               /\ m.action = "block" \/ m.winner \in CredentialNames
        BY <1>1 DEF RouteUnverified
      <3>2. CASE RouteUnverified(m, f) = Prepared("file-type:transform-unverified", {"pseudonymize"})
        BY <2>5, <3>2 DEF Settle, Prepared, Actions
      <3>3. CASE /\ RouteUnverified(m, f) = [m EXCEPT !.processors = {}]
                 /\ m.action = "block" \/ m.winner \in CredentialNames
        <4>1. d.action = (IF m.action = "ask" THEN "block" ELSE m.action)
          BY <2>5, <3>3 DEF Settle
        <4> QED BY <2>4, <2>5, <3>3, <4>1 DEF Settle, Actions
      <3> QED BY <3>1, <3>2, <3>3
    <2> HIDE DEF d
    <2> QED BY <1>1, <2>6 DEF Disposal, Excluded, Actions, d
  <1> QED BY <1>2, <1>3

\* No outcome of a transformation puts a credential into a plain text.
LEMMA ResultClean ==
  ASSUME NEW f \in Files, PlainText(f), held.has \in SUBSET Ingredients, NEW ok \in BOOLEAN,
         NEW out \in SUBSET held.has, Result(f, ok, out).content # Nothing
  PROVE  "credential" \notin Result(f, ok, out).content
  <1>1. Seen(f, held.has) = held.has /\ Seen(f, out) = out
    BY DEF PlainText, Seen
  <1>2. CASE "credential" \notin held.has
    BY <1>2 DEF Result
  <1>3. CASE "credential" \in held.has
    <2>1. CASE ok /\ "credential" \in out
      BY <1>1, <2>1 DEF Result
    <2>2. CASE ok /\ "credential" \notin out
      BY <1>1, <2>2 DEF Result
    <2>3. CASE ~ok
      BY <1>1, <1>3, <2>3 DEF Result
    <2> QED BY <2>1, <2>2, <2>3
  <1> QED BY <1>2, <1>3

\* Nothing is written, or a text that is clean unless it is an edited one.
Writes(f) ==
    \/ work' = work
    \/ \E c \in Source :
         /\ work' = [work EXCEPT ![f] = c]
         /\ PlainText(f) /\ c.edition = 0 => "credential" \notin c.has

\* Whatever handling a file writes, also half way: of an unedited plain text no credential.
LEMMA WrittenClean ==
  ASSUME TInv, Began, Clean, NamesNeverAllow, NEW f \in Files, ProcessFile(f)
  PROVE  Writes(f)
  <1> USE RouteTypes
  <1>1. ASSUME NEW c \in Source, NEW e, Deliver(f, c, e),
               PlainText(f) /\ c.edition = 0 => "credential" \notin c.has
        PROVE  Writes(f)
    <2>1. work' = work \/ work' = [work EXCEPT ![f] = c]
      BY <1>1 DEF Deliver
    <2> QED BY <1>1, <2>1 DEF Writes
  <1>2. ASSUME NEW c \in Source, f = Current,
               \/ c = source[f]
               \/ held # Nothing /\ c.edition = held.edition /\ c.has \subseteq held.has,
               Disposal(Mode, Wish(f), f) \in {"raw", "document-shared", "workbook", "verbatim"},
               PlainText(f), c.edition = 0
        PROVE  "credential" \notin c.has
    <2>1. "credential" \notin file[f].has
      BY <1>2, CredentialRoute DEF TInv
    <2> QED BY <1>2, <2>1 DEF Clean, SourceScanned
  <1>3. CASE CopyRaw(f) \/ RouteDocument(f)
    <2>1. CASE Keep(f, "kept-local")
      BY <2>1 DEF Keep, Writes
    <2>2. CASE ~Keep(f, "kept-local")
      <3>1. /\ \E e : Deliver(f, source[f], e)
            /\ f = Current /\ Disposal(Mode, Wish(f), f) \in {"raw", "document-shared"}
        BY <1>3, <2>2 DEF CopyRaw, RouteDocument, Look
      <3> QED BY <1>1, <1>2, <3>1
    <2> QED BY <2>1, <2>2
  <1>4. CASE Verbatim(f) \/ Workbook(f)
    <2>1. held \in Source /\ held # Nothing /\ f = Current
      BY <1>4 DEF Verbatim, Workbook, Holding
    <2>2. CASE Keep(f, "transformation-failed")
      BY <2>2 DEF Keep, Writes
    <2>3. CASE Holding(f, "verbatim") /\ \E e : Deliver(f, held, e)
      BY <1>1, <1>2, <2>1, <2>3 DEF Holding
    <2>4. CASE Holding(f, "workbook") /\ \E e : Deliver(f, [held EXCEPT !.has = @ \ {"names"}], e)
      <3> DEFINE c == [held EXCEPT !.has = @ \ {"names"}]
      <3>1. c \in Source /\ c.edition = held.edition /\ c.has \subseteq held.has
        BY <2>1 DEF Source
      <3> HIDE DEF c
      <3> QED BY <1>1, <1>2, <2>1, <2>4, <3>1 DEF Holding, c
    <2> QED BY <1>4, <2>2, <2>3, <2>4 DEF Verbatim, Workbook
  <1>5. CASE Transform(f)
    <2>1. PICK ok \in BOOLEAN, out \in {held.has, held.has \ Removable(Pipeline(Decided(f)))} :
            IF Result(f, ok, out).content = Nothing THEN Keep(f, Result(f, ok, out).entry.outcome)
            ELSE Deliver(f, [held EXCEPT !.has = Result(f, ok, out).content], Result(f, ok, out).entry)
      BY <1>5 DEF Transform
    <2> DEFINE r == Result(f, ok, out)
               c == [held EXCEPT !.has = r.content]
    <2>2. held \in Source /\ held.has \in SUBSET Ingredients /\ out \in SUBSET held.has
      BY <1>5, <2>1 DEF Transform, Holding, Source
    <2>3. r.content = Nothing \/ r.content \in {out, held.has}
      BY DEF Result
    <2>4. PlainText(f) /\ r.content # Nothing => "credential" \notin r.content
      BY <2>2, ResultClean
    <2>5. IF r.content = Nothing THEN Keep(f, r.entry.outcome) ELSE Deliver(f, c, r.entry)
      BY <2>1
    <2> HIDE DEF r
    <2>6. CASE r.content = Nothing
      BY <2>5, <2>6 DEF Keep, Writes
    <2>7. CASE r.content # Nothing
      <3>1. c \in Source /\ c.has = r.content
        BY <2>2, <2>3, <2>7 DEF Source
      <3> HIDE DEF c
      <3> QED BY <1>1, <2>4, <2>5, <2>7, <3>1
    <2> QED BY <2>6, <2>7
  <1>6. CASE Exclude(f) \/ KeepLocal(f) \/ Read(f) \/ SkipModel(f) \/ AskModel(f)
    BY <1>6 DEF Exclude, KeepLocal, Read, SkipModel, AskModel, Keep, Writes
  <1> QED BY <1>3, <1>4, <1>5, <1>6 DEF ProcessFile

\* They are files.
LEMMA PastGateType == TInv => PastGate \subseteq Files
  <1> SUFFICES ASSUME TInv PROVE PastGate \subseteq Files
    OBVIOUS
  <1>1. turn \in 1 .. Len(Order)
    BY OrderType, Types
  <1> QED BY <1>1, OrderType DEF PastGate

\* The gate passes one file after the other.
LEMMA PastGateGrows ==
  ASSUME phase = "gate", turn \in DOMAIN Order, Advance("after")
  PROVE  PastGate' = PastGate \cup {Current}
  <1> USE OrderType
  <1>1. turn \in 1 .. Len(Order) /\ PastGate = {Order[i] : i \in 1 .. (turn - 1)}
    BY DEF PastGate
  <1>2. CASE turn < Len(Order)
    <2>1. PastGate' = {Order[i] : i \in 1 .. turn}
      BY <1>1, <1>2 DEF Advance, PastGate
    <2>2. 1 .. turn = 1 .. (turn - 1) \cup {turn}
      BY <1>1
    <2> QED BY <1>1, <2>1, <2>2 DEF Current
  <1>3. CASE ~(turn < Len(Order))
    <2>1. PastGate' = Files
      BY <1>3 DEF Advance, PastGate
    <2>2. 1 .. Len(Order) = 1 .. (turn - 1) \cup {turn}
      BY <1>1, <1>3
    <2>3. Files = {Order[i] : i \in 1 .. (turn - 1)} \cup {Order[turn]}
      BY <2>2
    <2> QED BY <1>1, <2>1, <2>3 DEF Current
  <1> QED BY <1>2, <1>3

\* Every step keeps it: a route writes clean texts, the gate takes out what is not clean.
LEMMA CleanStep ==
  ASSUME NamesNeverAllow, TInv, Began, Reported, Clean, [Next]_vars
  PROVE  Clean'
  <1> USE Types
  <1>0. Nothing \notin Source
    BY NothingAssumption
  <1>1. ASSUME file' = file, SourceScanned', phase' = "escalate" => turn' = 1,
               \A f \in Files : work'[f] \in {work[f], Nothing}, failed \subseteq failed',
               PastGate' \subseteq PastGate
        PROVE  Clean'
    <2>1. ASSUME NEW f \in Files PROVE CleanText(f)'
      BY <1>1 DEF Clean, CleanText, PlainText
    <2>2. ASSUME NEW f \in PastGate' \ failed' PROVE CleanAfterGate(f)'
      <3>1. f \in Files /\ CleanAfterGate(f)
        BY <1>1, <2>2, PastGateType DEF Clean
      <3> QED BY <1>1, <3>1 DEF CleanAfterGate, Gated
    <2> QED BY <1>1, <2>1, <2>2 DEF Clean
  <1>2. ASSUME UNCHANGED <<source, file>>, held' = Nothing \/ UNCHANGED <<held, turn>>
        PROVE  SourceScanned'
    BY <1>2 DEF Clean, SourceScanned, Current
  <1>3. ASSUME NEW f \in Files, ProcessFile(f) PROVE Clean'
    <2>1. Routed(f) /\ (Stays(f) \/ Left(f) \/ Put(f) \/ PutFails(f))
      BY <1>3, RoutedStep
    <2>2. file' = file /\ source' = source /\ f = Current /\ phase = "files"
      BY <2>1 DEF Routed, runVars, policyVars
    <2>3. /\ phase' \in {"files", "escalate"} /\ (phase' = "escalate" => turn' = 1)
          /\ held' = Nothing \/ (Stays(f) /\ turn' = turn)
      BY <2>1, <2>2 DEF Stays, Left, Put, PutFails, Advance
    <2>4. PastGate' = {}
      BY <2>3 DEF PastGate
    <2>5. SourceScanned'
      <3>1. CASE held' = Nothing
        BY <1>2, <2>2, <3>1
      <3>2. CASE Stays(f) /\ turn' = turn
        BY <2>2, <3>2 DEF Stays, Clean, SourceScanned, Current
      <3> QED BY <2>3, <3>1, <3>2
    <2>6. Writes(f)
      BY <1>3, WrittenClean
    <2>7. ASSUME NEW g \in Files PROVE CleanText(g)'
      <3>1. CleanText(g)
        BY DEF Clean
      <3>2. CASE work'[g] = work[g]
        BY <2>2, <3>1, <3>2 DEF CleanText, PlainText
      <3>3. CASE work'[g] # work[g]
        <4>1. PICK c \in Source :
                /\ work' = [work EXCEPT ![f] = c]
                /\ PlainText(f) /\ c.edition = 0 => "credential" \notin c.has
          BY <2>6, <3>3 DEF Writes
        <4>2. g = f /\ work'[g] = c
          BY <3>3, <4>1
        <4> QED BY <2>2, <4>1, <4>2 DEF CleanText, PlainText
      <3> QED BY <3>2, <3>3
    <2> QED BY <2>3, <2>4, <2>5, <2>7 DEF Clean
  <1>4. ASSUME NEW f \in Files, FinalGate(f) PROVE Clean'
    <2>1. /\ phase = "gate" /\ f = Current /\ Advance("after") /\ UNCHANGED <<source, file>>
          /\ entry \in [Files -> Entry] /\ failed \subseteq failed'
      BY <1>4 DEF FinalGate, runVars, policyVars
    <2>2. PastGate' = PastGate \cup {f} /\ held' = Nothing /\ phase' # "escalate"
      BY <2>1, PastGateGrows DEF Advance
    <2>3. \A g \in Files : work'[g] \in {work[g], Nothing} /\ (g # f => work'[g] = work[g])
      BY <1>4 DEF FinalGate
    <2>4. ASSUME f \notin failed', Gated(f), file[f].size # "huge", work'[f] # Nothing
          PROVE  "credential" \notin work'[f].has
      <3>1. work[f] # Nothing /\ work'[f] = work[f]
        BY <2>3, <2>4
      <3>2. entry[f].omitted <=> work[f] = Nothing
        BY <2>1, <2>4 DEF Reported, Handled
      <3>3. entry' = [entry EXCEPT ![f] = Gate(f)]
            /\ work' = IF Gate(f).omitted THEN [work EXCEPT ![f] = Nothing] ELSE work
        <4>1. entry[f].omitted = FALSE
          BY <2>1, <3>1, <3>2 DEF Entry
        <4> QED BY <1>4, <2>4, <3>1, <4>1 DEF FinalGate
      <3>4. Gate(f).omitted # TRUE
        BY <3>1, <3>3
      <3> QED BY <3>1, <3>4 DEF Gate, Kept
    <2>5. SourceScanned'
      BY <1>2, <2>1, <2>2
    <2>6. ASSUME NEW g \in Files PROVE CleanText(g)'
      <3>1. CleanText(g)
        BY DEF Clean
      <3> QED BY <2>1, <2>3, <3>1 DEF CleanText, PlainText
    <2>7. ASSUME NEW g \in PastGate' \ failed' PROVE CleanAfterGate(g)'
      <3>1. CASE g = f
        BY <2>1, <2>4, <2>7, <3>1 DEF CleanAfterGate, Gated
      <3>2. CASE g # f
        <4>1. g \in Files /\ CleanAfterGate(g)
          BY <2>1, <2>2, <2>7, <3>2, PastGateType DEF Clean
        <4> QED BY <2>1, <2>3, <3>2, <4>1 DEF CleanAfterGate, Gated
      <3> QED BY <3>1, <3>2
    <2> QED BY <2>2, <2>5, <2>6, <2>7 DEF Clean
  <1>5. CASE FoldRule \/ CaptureBefore
    <2>1. /\ UNCHANGED <<source, file, held, turn, failed>> /\ phase' \in {"rules", "files"}
          /\ work' = work
      BY <1>5 DEF FoldRule, ApplyRule, CaptureBefore, policyVars
    <2>2. PastGate' = {} /\ SourceScanned'
      BY <1>2, <2>1 DEF PastGate
    <2> QED BY <1>1, <2>1, <2>2
  <1>6. CASE Escalate
    <2>1. /\ UNCHANGED <<source, file, held, turn, failed>> /\ phase' \in {"gate", "failed"}
          /\ phase = "escalate"
      BY <1>6 DEF Escalate, runVars, policyVars
    <2>2. \A f \in Files : work'[f] \in {work[f], Nothing}
      BY <1>6 DEF Escalate, Remaining
    <2>3. PastGate' = {}
      <3>1. turn' = 1 /\ 1 .. (turn' - 1) = {}
        BY <2>1 DEF Clean
      <3> QED BY <2>1, <3>1 DEF PastGate
    <2> QED BY <1>1, <1>2, <2>1, <2>2, <2>3
  <1>7. ASSUME NEW f \in Files, CaptureAfter \/ Enqueue(f) PROVE Clean'
    <2>1. /\ UNCHANGED <<source, file, work, failed>> /\ phase \in {"after", "enqueue"}
          /\ phase' \in {"enqueue", "done", "failed"}
          /\ held' = Nothing \/ UNCHANGED <<held, turn>>
      BY <1>7 DEF CaptureAfter, Enqueue, Advance, runVars, policyVars
    <2>2. PastGate = Files /\ PastGate' \subseteq Files
      BY <2>1 DEF PastGate
    <2> QED BY <1>1, <1>2, <2>1, <2>2
  <1>8. CASE Cancel
    <2>1. /\ UNCHANGED <<source, file, failed>> /\ phase' = "cancelled" /\ held' = Nothing
          /\ \A f \in Files : work'[f] = Nothing
      BY <1>8 DEF Cancel, runVars, policyVars
    <2>2. PastGate' = {}
      BY <2>1 DEF PastGate
    <2> QED BY <1>1, <1>2, <2>1, <2>2
  <1>9. CASE Abort \/ UNCHANGED vars
    <2>1. UNCHANGED <<source, file, held, turn, failed, phase, work>>
      BY <1>9 DEF Abort, vars, runVars, policyVars
    <2>2. PastGate' = PastGate /\ (phase' = "escalate" => turn' = 1)
      BY <2>1 DEF PastGate, Clean
    <2> QED BY <1>1, <1>2, <2>1, <2>2
  <1>10. ASSUME NEW f \in Files, Edit(f) PROVE Clean'
    <2>1. UNCHANGED <<file, held, turn, failed, phase, work>>
      BY <1>10 DEF Edit, runVars, policyVars
    <2>2. /\ \A g \in Files \ {f} : source'[g] = source[g]
          /\ source'[f].edition = 0 => source'[f].has = file[f].has
      BY <1>10 DEF Edit
    <2>3. SourceScanned'
      BY <2>1, <2>2 DEF Clean, SourceScanned, Current
    <2>4. PastGate' = PastGate /\ (phase' = "escalate" => turn' = 1)
      BY <2>1 DEF PastGate, Clean
    <2> QED BY <1>1, <2>1, <2>3, <2>4
  <1>11. ASSUME CaptureAfter PROVE Clean'
    <2>1. \E f \in Files : TRUE
      BY OrderType
    <2> QED BY <1>7, <1>11, <2>1
  <1> QED BY <1>3, <1>4, <1>5, <1>6, <1>7, <1>8, <1>9, <1>10, <1>11 DEF Next, Prepare, Ended

\* No credential of an unedited text, table or workbook reaches the output of a finished
\* preparation, whatever route the file took, for every rule list in which no rule with a name
\* that stands for credentials allows what it matches: such a name would exempt a text too large
\* for the scan from the transformation (resolve.ts:144-160).
THEOREM CredentialStaysThroughout ==
  ASSUME NamesNeverAllow
  PROVE  Spec => []CredentialStays
  <1>1. Init => Began
    BY InitBegan
  <1>2. Init => Reported /\ Clean
    BY DEF Init, Reported, Handled, Clean, CleanText, SourceScanned, PastGate
  <1>3. TInv /\ Began /\ Reported /\ Clean /\ [Next]_vars => Reported' /\ Clean'
    BY ReportedStep, CleanStep
  <1>4. TInv /\ Clean => CredentialStays
    <2> SUFFICES ASSUME TInv, Clean, phase \in {"enqueue", "done"}, NEW f \in Files,
                        work[f] # Nothing, "credential" \in work[f].has,
                        file[f].type \notin {"pdf", "office", "blob", "archive"},
                        file[f].size # "huge", work[f].edition = 0, f \notin failed
                 PROVE  FALSE
      BY DEF CredentialStays, Finished
    <2>1. PlainText(f) \/ Gated(f)
      BY KindFacts DEF TInv, PolicyInv, Kinds, PlainText, Gated
    <2>2. PastGate = Files
      BY DEF PastGate
    <2> QED BY <2>1, <2>2 DEF Clean, CleanText, CleanAfterGate
  <1> QED BY <1>1, <1>2, <1>3, <1>4, BeganStep, PrepareInvariant, PTL DEF Spec
=============================================================================
