-------------------------- MODULE PrepareWorkspace --------------------------
(***************************************************************************)
(* One preparation: prepareWorkspace (core/src/prepare-workspace.ts) from  *)
(* the end of the scan to the report, over the decisions of PolicyDecision. *)
(* It walks the files one by one, from await to await, while the user      *)
(* edits them, aborts the run, or reads and writes fail. What it leaves in *)
(* the output directory is what the agent gets.                            *)
(*                                                                         *)
(* Content is the set of sensitive ingredients; edition tells an edited    *)
(* source from the one that was scanned. A transformation removes what its *)
(* processors can remove, or nothing, or fails.                            *)
(*                                                                         *)
(* A definition marked "Mutant" is a plausible bug of the one after it.     *)
(***************************************************************************)
EXTENDS PolicyDecision, FiniteSets

CONSTANTS
    Order,        \* the files in the order of the scan
    Options,      \* the safety mode, what the user said of the first file, deferLocalModel
    EditedTo,     \* contents an edit may leave behind
    MaxCalls,     \* localModelMaxCalls
    MaxEdits, MaxFailures,
    Nothing

ASSUME PrepareAssumption ==
    /\ Order \in Seq(Files) /\ Order # <<>> /\ Files = {Order[i] : i \in DOMAIN Order}
    /\ \A i, j \in DOMAIN Order : Order[i] = Order[j] => i = j
    /\ Options \subseteq [mode : Modes, wish : {"none", "include", "exclude"}, defer : BOOLEAN]
    /\ EditedTo \subseteq SUBSET Ingredients
    /\ MaxCalls \in Nat /\ MaxEdits \in Nat /\ MaxFailures \in Nat

VARIABLES
    options,   \* one of Options
    source,    \* the user's file: edition and has
    before,    \* sourceIntegrityBefore: the edition of each file, or Nothing
    phase,     \* "rules", "files", "escalate", "gate", "after", "enqueue", or how it ended
    turn,      \* the file a loop is at
    held,      \* what was read of it: the source when it was read, or Nothing
    work,      \* the output directory, per file: edition and has, or Nothing
    entry,     \* files, the report, per file: omitted, outcome, masked; or Nothing
    wanted,    \* backgroundEnqueue: per file, Nothing or whether its original was shared
    queue,     \* the background queue on disk, likewise
    circuit,   \* the local model: "on", "deferred", or why it was switched off
    calls,     \* localModelCallsMade
    asked,     \* per file: what came of the local model: "unasked", "done", "timeout", "skipped"
    aborted, edits, failures,
    failed     \* files a read or write failed for

vars == <<policyVars, options, source, before, phase, turn, held, work, entry, wanted, queue,
          circuit, calls, asked, aborted, edits, failures, failed>>
runVars == <<policyVars, options, before>>

Source == [edition : 0..MaxEdits, has : SUBSET Ingredients]
Outcomes == {"excluded-by-user", "excluded-by-policy", "included-unchanged", "included-transformed",
             "included-unverified", "kept-local", "transformation-failed", "unreadable", "pending"}
Entry == [omitted : BOOLEAN, outcome : Outcomes, masked : BOOLEAN, document : BOOLEAN,
          verified : BOOLEAN]

ASSUME NothingAssumption ==
    Nothing \notin Source /\ Nothing \notin Entry /\ (\A has \in SUBSET Ingredients : has # Nothing)

Mode == options.mode
Wish(f) == IF f = Order[1] THEN options.wish ELSE "none"
Decided(f) == Decide(Mode, f)
Current == Order[turn]

Document(f) == file[f].type \in {"pdf", "office"}
Gated(f) == file[f].type \in {"txt", "csv", "xlsx"}

Kept(outcome) == [omitted |-> TRUE, outcome |-> outcome, masked |-> FALSE, document |-> FALSE,
                  verified |-> FALSE]
Given(outcome) == [Kept(outcome) EXCEPT !.omitted = FALSE]

-----------------------------------------------------------------------------
(* What the loop does with a file, decided before its content is read.     *)

Excluded == {"block", "local-only", "ask", "inject", "metadata-only"}
Included(mode, wish) == mode # "maximum-privacy" \/ wish = "include"

Disposal(mode, wish, f) ==
    LET d == Decide(mode, f)
        blocked == d.action = "block"
        credential == d.winner \in CredentialNames
    IN
    CASE wish = "exclude" -> "excluded"
      [] wish # "exclude" /\ Document(f) /\ ~blocked /\ ~credential ->
            IF Findings(f) = {} /\ Included(mode, wish) THEN "document-shared" ELSE "document-local"
      [] OTHER ->
            IF file[f].size = "huge" /\ ~blocked
            THEN (IF Included(mode, wish) THEN "raw" ELSE "local")
            ELSE IF file[f].type = "archive" THEN "local"
            ELSE IF /\ ~Verified(f) /\ d.action = "local-only" /\ Included(mode, wish)
                    /\ ~HighRisk(f) /\ ~credential
            THEN "raw"
            ELSE IF d.action \in Excluded THEN "policy"
            ELSE IF FileType(f) = "xlsx" /\ d.action = "prepare-locally" THEN "workbook"
            ELSE IF d.action \in {"prepare-locally", "summarize-local", "redact"} THEN "pipeline"
            ELSE IF HighRisk(f) THEN "risky"
            ELSE "verbatim"

Pipeline(d) ==
    IF d.processors # {} THEN d.processors
    ELSE IF d.action = "redact" THEN {"redact-secrets", "pseudonymize", "safety-check"}
    ELSE {"summarize-local", "pseudonymize", "safety-check"}
NeedsModel(f) == "summarize-local" \in Pipeline(Decided(f))

\* What the detectors see in a text of a file: nothing in the bytes of a binary format.
Seen(f, has) == IF file[f].type \in {"xlsx", "office", "blob", "archive"} THEN {} ELSE has

\* Names go with every pseudonymizer and summary, secrets with the masker and the sanitizers.
Removable(processors) ==
    (IF processors \cap {"pseudonymize", "pseudonymize-records", "summarize-local"} # {}
     THEN {"names"} ELSE {})
    \cup (IF processors \cap {"redact-secrets", "sanitize-environment", "sanitize-credentials"} # {}
          THEN Secrets ELSE {})

-----------------------------------------------------------------------------
Init ==
    /\ PolicyInit
    /\ options \in Options
    /\ source = [f \in Files |-> [edition |-> 0, has |-> file[f].has]]
    /\ before = [f \in Files |-> Nothing]
    /\ phase = "rules" /\ turn = 1 /\ held = Nothing
    /\ work = [f \in Files |-> Nothing]
    /\ entry = [f \in Files |-> Nothing]
    /\ wanted = [f \in Files |-> Nothing] /\ queue = [f \in Files |-> Nothing]
    /\ circuit = (IF options.defer THEN "deferred" ELSE "on") /\ calls = 0
    /\ asked = [f \in Files |-> "unasked"]
    /\ aborted = FALSE /\ edits = 0 /\ failures = 0 /\ failed = {}

FoldRule ==
    /\ phase = "rules" /\ ApplyRule
    /\ UNCHANGED <<options, source, before, phase, turn, held, work, entry, wanted, queue, circuit,
                   calls, asked, aborted, edits, failures, failed>>

\* An abort is noticed by the captures, before a file, and by a call of the model.
Proceeds == ~aborted

\* Mutant: what the scan saw is taken for the snapshot.
SnapshotScanned == [f \in Files |-> 0]
Snapshot == [f \in Files |-> source[f].edition]

CaptureBefore ==
    /\ phase = "rules" /\ next > Len(rules) /\ Proceeds
    /\ before' = Snapshot
    /\ phase' = "files"
    /\ UNCHANGED <<policyVars, options, source, turn, held, work, entry, wanted, queue, circuit, calls,
                   asked, aborted, edits, failures, failed>>

\* The loop goes on with the next file, or with what follows the loop.
Advance(then) ==
    /\ held' = Nothing
    /\ IF turn < Len(Order) THEN turn' = turn + 1 /\ phase' = phase ELSE turn' = 1 /\ phase' = then

\* An entry that leaves nothing in the output directory.
Keep(f, outcome) ==
    /\ entry' = [entry EXCEPT ![f] = Kept(outcome)]
    /\ Advance("escalate")
    /\ UNCHANGED <<work, failures, failed>>

\* An entry with its file. The write may fail half way: the entry is then the one for a file
\* that could not be processed, whatever is on disk.
Deliver(f, content, e) ==
    /\ Advance("escalate")
    /\ \/ /\ work' = [work EXCEPT ![f] = content]
          /\ entry' = [entry EXCEPT ![f] = e]
          /\ UNCHANGED <<failures, failed>>
       \/ /\ failures < MaxFailures
          /\ failures' = failures + 1 /\ failed' = failed \cup {f}
          /\ work' \in {work, [work EXCEPT ![f] = content]}
          /\ entry' = [entry EXCEPT ![f] = Kept("unreadable")]

Look(f, disposal) ==
    /\ phase = "files" /\ f = Current /\ held = Nothing /\ Proceeds
    /\ disposal = Disposal(Mode, Wish(f), f)

\* Routes that need no content, or copy it in one go.
Exclude(f) ==
    /\ Look(f, "excluded") /\ Keep(f, "excluded-by-user")
    /\ UNCHANGED <<runVars, source, wanted, queue, circuit, calls, asked, aborted, edits>>
KeepLocal(f) ==
    /\ \/ Look(f, "local") /\ Keep(f, "kept-local")
       \/ Look(f, "policy") /\ Keep(f, "excluded-by-policy")
    /\ UNCHANGED <<runVars, source, wanted, queue, circuit, calls, asked, aborted, edits>>
CopyRaw(f) ==
    /\ Look(f, "raw") /\ Deliver(f, source[f], Given("included-unverified"))
    /\ UNCHANGED <<runVars, source, wanted, queue, circuit, calls, asked, aborted, edits>>
\* A document is always queued for a companion.
RouteDocument(f) ==
    /\ \/ /\ Look(f, "document-shared")
          /\ Deliver(f, source[f], [Given("included-unverified") EXCEPT !.document = TRUE])
       \/ /\ Look(f, "document-local")
          /\ Keep(f, "kept-local")
    /\ wanted' = [wanted EXCEPT ![f] =
            IF entry'[f].outcome = "unreadable" THEN Nothing ELSE ~entry'[f].omitted]
    /\ UNCHANGED <<runVars, source, queue, circuit, calls, asked, aborted, edits>>

Read(f) ==
    /\ \E disposal \in {"workbook", "pipeline", "risky", "verbatim"} : Look(f, disposal)
    /\ \/ /\ held' = source[f]
          /\ UNCHANGED <<entry, turn, phase, failures, failed>>
       \/ /\ failures < MaxFailures
          /\ failures' = failures + 1 /\ failed' = failed \cup {f}
          /\ entry' = [entry EXCEPT ![f] = Kept("unreadable")]
          /\ Advance("escalate")
    /\ UNCHANGED <<runVars, source, work, wanted, queue, circuit, calls, asked, aborted, edits>>

Holding(f, disposal) ==
    /\ phase = "files" /\ f = Current /\ held # Nothing
    /\ disposal = Disposal(Mode, Wish(f), f)

Verbatim(f) ==
    /\ \/ Holding(f, "verbatim") /\ Deliver(f, held, Given("included-unchanged"))
       \/ Holding(f, "risky") /\ Keep(f, "transformation-failed")
    /\ UNCHANGED <<runVars, source, wanted, queue, circuit, calls, asked, aborted, edits>>

\* A workbook is delivered when its pseudonymized copy is fully clean, and never raw.
Workbook(f) ==
    /\ \/ /\ Holding(f, "workbook")
          /\ Deliver(f, [held EXCEPT !.has = @ \ {"names"}],
                     [Given("included-transformed") EXCEPT !.masked = "names" \in held.has])
       \/ Holding(f, "workbook") /\ Keep(f, "transformation-failed")
    /\ UNCHANGED <<runVars, source, wanted, queue, circuit, calls, asked, aborted, edits>>

\* The time budget of the model ends its calls in the same way, earlier: it is left out.
CallsSpent == calls >= MaxCalls

\* localModelGateClosed, and keepFileLocalAfterLocalModel: nothing is delivered, and only what
\* was put off on purpose is queued.
SkipModel(f) ==
    /\ Holding(f, "pipeline") /\ NeedsModel(f) /\ asked[f] = "unasked"
    /\ circuit # "on" \/ CallsSpent
    /\ circuit' = IF circuit = "on" THEN "calls" ELSE circuit
    /\ asked' = [asked EXCEPT ![f] = "skipped"]
    /\ Keep(f, "transformation-failed")
    /\ wanted' = [wanted EXCEPT ![f] = IF circuit = "deferred" THEN FALSE ELSE Nothing]
    /\ UNCHANGED <<runVars, source, queue, calls, aborted, edits>>

\* runLocalModelCall. An answer that comes after the timeout is not waited for.
AskModel(f) ==
    /\ Holding(f, "pipeline") /\ NeedsModel(f) /\ asked[f] = "unasked"
    /\ circuit = "on" /\ ~CallsSpent /\ Proceeds
    /\ calls' = calls + 1
    /\ \/ /\ asked' = [asked EXCEPT ![f] = "done"]
          /\ UNCHANGED <<circuit, entry, turn, phase, held, work, failures, failed>>
       \/ /\ asked' = [asked EXCEPT ![f] = "timeout"]
          /\ circuit' = "timeout"
          /\ Keep(f, "transformation-failed")
    /\ UNCHANGED <<runVars, source, wanted, queue, aborted, edits>>

\* Mutant: a transformation that fails falls back to the original whatever it holds.
ResultAlways(f, ok, out) ==
    [content |-> out, entry |-> [Given("included-unverified") EXCEPT !.masked = out # held.has]]
\* What the loop makes of a transformation: its verification, the rescan and the fallbacks.
Result(f, ok, out) ==
    LET original == Seen(f, held.has)
        left == Seen(f, out)
        records == "pseudonymize-records" \in Pipeline(Decided(f))
        failure == \/ left \cap {"credential", "token"} # {}
                   \/ records /\ "names" \in left
        survives == left \cap {"credential", "entropy"} # {}
        changed == "names" \in held.has \ out
        \* What the masker of secrets changes is not counted.
        masked == IF "redact-secrets" \in Pipeline(Decided(f)) THEN changed ELSE out # held.has
    IN CASE ok /\ failure /\ survives -> [content |-> Nothing, entry |-> Kept("transformation-failed")]
         [] ok /\ failure /\ ~survives -> [content |-> out, entry |-> Given("included-unverified")]
         [] ok /\ ~failure ->
              [content |-> out, entry |-> [Given("included-transformed") EXCEPT !.masked = masked]]
         [] ~ok /\ "credential" \in original ->
              [content |-> Nothing, entry |-> Kept("transformation-failed")]
         [] OTHER -> [content |-> IF changed THEN out ELSE held.has, entry |-> Given("included-unverified")]

\* runLocalPreparation and what follows: it succeeds (if a safety-check approves), is blocked
\* by it, or throws, each with or without having removed what it can remove.
Transform(f) ==
    /\ Holding(f, "pipeline")
    /\ NeedsModel(f) => asked[f] = "done"
    /\ \E ok \in BOOLEAN, out \in {held.has, held.has \ Removable(Pipeline(Decided(f)))} :
         /\ ok => "safety-check" \in Pipeline(Decided(f))
         /\ LET result == Result(f, ok, out) IN
            IF result.content = Nothing THEN Keep(f, result.entry.outcome)
            ELSE Deliver(f, [held EXCEPT !.has = result.content], result.entry)
    /\ UNCHANGED <<runVars, source, wanted, queue, circuit, calls, asked, aborted, edits>>

-----------------------------------------------------------------------------
(* After the loop.                                                         *)

\* The safety-mode pass: maximum privacy takes back what is unverified or carried a finding,
\* one file after the other; a removal that fails ends the run.
TakenBack == {f \in Files : /\ Mode = "maximum-privacy" /\ ~entry[f].omitted
                            /\ \/ entry[f].outcome = "included-unverified"
                               \/ ~entry[f].document /\ entry[f].masked}
\* Mutant: the report is changed and the artifact left where it is.
LeftThere == work
Remaining == [f \in Files |-> IF f \in TakenBack THEN Nothing ELSE work[f]]

Escalate ==
    /\ phase = "escalate"
    /\ \/ /\ work' = Remaining
          /\ entry' = [f \in Files |-> IF f \in TakenBack THEN Kept("kept-local") ELSE entry[f]]
          /\ phase' = "gate"
          /\ UNCHANGED failures
       \/ /\ failures < MaxFailures /\ failures' = failures + 1
          /\ \E n \in DOMAIN Order :
               /\ Order[n] \in TakenBack
               /\ work' = [f \in Files |-> IF f \in TakenBack \cap {Order[i] : i \in 1..(n - 1)}
                                         THEN Nothing ELSE work[f]]
          /\ phase' = "failed"
          /\ UNCHANGED entry
    /\ UNCHANGED <<runVars, source, turn, held, wanted, queue, circuit, calls, asked, aborted, edits,
                   failed>>

\* The mandatory final gate for one file: the delivered bytes against the source of now.
Gate(f) ==
    LET left == work[f].has IN
    CASE "credential" \in left -> Kept("transformation-failed")
      [] "credential" \notin left /\ "names" \in left /\ "names" \in source[f].has ->
            [entry[f] EXCEPT !.outcome = "included-unverified", !.verified = FALSE]
      [] OTHER -> [entry[f] EXCEPT !.verified = TRUE]

FinalGate(f) ==
    /\ phase = "gate" /\ f = Current
    /\ Advance("after")
    /\ LET checked == Gated(f) /\ ~entry[f].omitted /\ file[f].size # "huge" /\ work[f] # Nothing
           verdict == Gate(f)
       IN \/ /\ checked
             /\ entry' = [entry EXCEPT ![f] = verdict]
             /\ work' = IF verdict.omitted THEN [work EXCEPT ![f] = Nothing] ELSE work
             /\ UNCHANGED <<failures, failed>>
          \/ /\ checked /\ failures < MaxFailures
             /\ failures' = failures + 1 /\ failed' = failed \cup {f}
             /\ entry' \in {[entry EXCEPT ![f].verified = FALSE],
                            [entry EXCEPT ![f].verified = FALSE, ![f].outcome =
                                IF @ = "included-transformed" THEN "included-unverified" ELSE @]}
             /\ UNCHANGED work
          \/ /\ ~checked
             /\ UNCHANGED <<entry, work, failures, failed>>
    /\ UNCHANGED <<runVars, source, wanted, queue, circuit, calls, asked, aborted, edits>>

\* The second capture, compared with the first; a difference fails the run and leaves the output.
CaptureAfter ==
    /\ phase = "after" /\ Proceeds
    /\ phase' = IF Snapshot # before THEN "failed"
                ELSE IF \A f \in Files : wanted[f] = Nothing THEN "done" ELSE "enqueue"
    /\ UNCHANGED <<runVars, source, turn, held, work, entry, wanted, queue, circuit, calls, asked,
                   aborted, edits, failures, failed>>

\* Mutant: every item is queued as if its original were kept.
ItemUnshared(f) == FALSE
Item(f) == wanted[f]

\* One item of the queue; the entry is pending only once the item is on disk.
Enqueue(f) ==
    /\ phase = "enqueue" /\ f = Current
    /\ Advance("done")
    /\ \/ /\ wanted[f] # Nothing
          /\ queue' = [queue EXCEPT ![f] = Item(f)]
          /\ entry' = [entry EXCEPT ![f].outcome = "pending"]
          /\ UNCHANGED failures
       \/ /\ wanted[f] # Nothing /\ failures < MaxFailures
          /\ failures' = failures + 1
          /\ UNCHANGED <<queue, entry>>
       \/ wanted[f] = Nothing /\ UNCHANGED <<queue, entry, failures>>
    /\ UNCHANGED <<runVars, source, work, wanted, circuit, calls, asked, aborted, edits, failed>>

\* The abort is noticed: the output directory is removed, the memory of the call is gone.
Cancel ==
    /\ aborted
    /\ \/ phase \in {"rules", "after"}
       \/ phase = "files" /\ held = Nothing
       \/ phase = "files" /\ held # Nothing /\ NeedsModel(Current) /\ asked[Current] = "unasked"
            /\ circuit = "on" /\ ~CallsSpent /\ Disposal(Mode, Wish(Current), Current) = "pipeline"
    /\ phase' = "cancelled"
    /\ work' = [f \in Files |-> Nothing] /\ entry' = work' /\ wanted' = work'
    /\ held' = Nothing /\ turn' = 1
    /\ UNCHANGED <<runVars, source, queue, circuit, calls, asked, aborted, edits, failures, failed>>

-----------------------------------------------------------------------------
(* The user.                                                               *)

Running == phase \notin {"done", "failed", "cancelled"}

\* A save: something new, or what the file was when it was scanned.
Edit(f) ==
    /\ Running /\ edits < MaxEdits
    /\ edits' = edits + 1
    /\ source' \in {[source EXCEPT ![f] = [edition |-> edits + 1, has |-> has]] : has \in EditedTo}
                   \cup (IF source[f].edition = 0 THEN {}
                         ELSE {[source EXCEPT ![f] = [edition |-> 0, has |-> file[f].has]]})
    /\ UNCHANGED <<runVars, phase, turn, held, work, entry, wanted, queue, circuit, calls, asked,
                   aborted, failures, failed>>

Abort ==
    /\ Running /\ ~aborted /\ aborted' = TRUE
    /\ UNCHANGED <<runVars, source, phase, turn, held, work, entry, wanted, queue, circuit, calls,
                   asked, edits, failures, failed>>

ProcessFile(f) ==
    \/ Exclude(f) \/ KeepLocal(f) \/ CopyRaw(f) \/ RouteDocument(f) \/ Read(f) \/ Verbatim(f)
    \/ Workbook(f) \/ SkipModel(f) \/ AskModel(f) \/ Transform(f)

Prepare ==
    \/ FoldRule \/ CaptureBefore \/ Escalate \/ CaptureAfter \/ Cancel
    \/ \E f \in Files : ProcessFile(f) \/ FinalGate(f) \/ Enqueue(f)

Ended == ~Running /\ UNCHANGED vars

Next == Prepare \/ Abort \/ (\E f \in Files : Edit(f)) \/ Ended

Spec == Init /\ [][Next]_vars

-----------------------------------------------------------------------------
(* Properties.                                                             *)

PrepareTypeOK ==
    /\ source \in [Files -> Source]
    /\ before \in [Files -> (0..MaxEdits) \cup {Nothing}]
    /\ phase \in {"rules", "files", "escalate", "gate", "after", "enqueue", "done", "failed", "cancelled"}
    /\ turn \in DOMAIN Order /\ held \in Source \cup {Nothing}
    /\ work \in [Files -> Source \cup {Nothing}] /\ entry \in [Files -> Entry \cup {Nothing}]
    /\ wanted \in [Files -> BOOLEAN \cup {Nothing}] /\ queue \in [Files -> BOOLEAN \cup {Nothing}]
    /\ circuit \in {"on", "deferred", "timeout", "calls"} /\ calls \in 0..MaxCalls
    /\ asked \in [Files -> {"unasked", "done", "timeout", "skipped"}]
    /\ aborted \in BOOLEAN /\ edits \in 0..MaxEdits /\ failures \in 0..MaxFailures
    /\ failed \subseteq Files

\* What a rule of a former generated yuhi.yaml blocks is given as a sanitized copy.
Upgraded(f) == file[f].name \in {"environment", "credentials"} /\ folded[f].winner \in LegacyNames

\* A rule that withholds a file holds against every route, wish and mode: a file some rule
\* blocks is never in the output, nor one that a rule keeps local, asks about or injects, if
\* the scan verified its content and it is no document. Outside this: the upgrade of former
\* generated rules, files for which the default is stricter than every rule (the routes take
\* them for nobody's), key files that do not fit into memory, and inspected documents whose
\* blocking rule also lists processors.
RulesHold == \A f \in Files : work[f] # Nothing /\ ~Upgraded(f) /\ folded[f].winner # "default" =>
    \A i \in DOMAIN rules : Matches(rules[i], f) =>
        /\ rules[i].action = "block" =>
             \/ file[f].name = "private-key" /\ file[f].size = "huge"
             \/ Document(f) /\ folded[f].processors # {}
        /\ rules[i].action \in {"local-only", "ask", "inject"} => ~Verified(f) \/ Document(f)

\* How much of a file a disposal can put into the output.
Exposure(disposal) ==
    CASE disposal \in {"excluded", "local", "policy", "document-local", "risky"} -> 0
      [] disposal \in {"workbook", "pipeline"} -> 1
      [] disposal \in {"raw", "verbatim", "document-shared"} -> 2

\* Binaries that a rule matches whose name the routes look for, it withholds. Generated rules do:
\* the one that does not withhold, sanitize-credential-files, matches no binary.
NamesWithhold == \A workspace \in Workspaces, policy \in Policies : \A i \in DOMAIN policy.rules :
    LET rule == policy.rules[i] IN
    /\ rule.name \in CredentialNames \cup LegacyNames
    /\ \E f \in rule.on : workspace[f].type \in {"blob", "archive"}
    => rule.action \in {"local-only", "ask", "block"}

\* No rule with a name that stands for credentials allows what it matches.
NamesNeverAllow == \A policy \in Policies : \A i \in DOMAIN policy.rules :
    policy.rules[i].name \in CredentialNames => policy.rules[i].action # "allow"

\* The safety modes are ordered (safety-mode.ts: each withholds a superset of the one below):
\* whatever the rules, the default and the wish, a stricter mode never exposes more of a file.
\* Rules must be as in NamesWithhold for that.
ModesNarrow == next > Len(rules) /\ phase = "rules" =>
    \A f \in Files, wish \in {"none", "include", "exclude"} :
        LET exposed(mode) == Exposure(Disposal(mode, wish, f)) IN
        exposed("maximum-privacy") <= exposed("strict") /\ exposed("strict") <= exposed("balanced")

\* In a finished preparation no credential is in a text, a table or a workbook that fits into
\* memory, whatever route it took (verbatim, transformed, best effort, raw fallback): unless
\* the file changed after the scan, or one of its reads and writes failed.
Finished == phase \in {"enqueue", "done"}
CredentialStays == Finished => \A f \in Files :
    /\ work[f] # Nothing
    /\ "credential" \in work[f].has
    => \/ file[f].type \in {"pdf", "office", "blob", "archive"} \/ file[f].size = "huge"
       \/ work[f].edition # 0 \/ f \in failed

\* Source integrity: a preparation that an edit ran through does not finish. Two edits may
\* bring a file back to what the first capture saw.
EditCaught == Finished /\ edits <= 1 =>
    \A f \in Files : work[f] # Nothing => work[f].edition = before[f]

\* Once the safety-mode pass is over, what the report calls omitted is not on disk and what it
\* calls delivered is, but for files whose reads or writes failed.
ReportMatchesDisk == phase \in {"gate", "after", "enqueue", "done"} =>
    \A f \in Files \ failed : entry[f].omitted <=> work[f] = Nothing

\* The queue knows of every original the agent can see: an item whose original is in the
\* output says so, and only a queued file is reported as pending.
QueueTells == \A f \in Files :
    /\ queue[f] # Nothing /\ work[f] # Nothing => queue[f] = TRUE
    /\ entry[f] # Nothing /\ entry[f].outcome = "pending" => queue[f] # Nothing
=============================================================================
