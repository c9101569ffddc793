----------------------------- MODULE PatchReview -----------------------------
(***************************************************************************)
(* One patch session: the baseline taken before the agent starts, the      *)
(* reviews of what it did since, the selection, the trusted apply and the  *)
(* discard (packages/core/src/patch: session, snapshot, diff, validator,   *)
(* hunks, trusted-apply) as the panel of VS Code and the CLI call them.    *)
(* The agent goes on writing all the time, the user edits the source, and  *)
(* the background worker publishes artifacts into the prepared workspace:  *)
(* first the file, then the record that says whose it is.                  *)
(*                                                                         *)
(* A text is a sequence of words, one for every part of it that can be a   *)
(* hunk of its own.  The writes to the source are one step here; PatchApply *)
(* has them one by one.                                                    *)
(***************************************************************************)
EXTENDS Naturals, Sequences, FiniteSets, Functions

CONSTANTS
  Paths,        \* names in either tree: numbers, in the order they sort
  Artifacts,    \* the names at which the worker publishes
  Derived,      \* the text it publishes
  Starts,       \* workspaces as preparation leaves them: [source, prepared, rep]
  AgentTexts,   \* what the agent may write
  UserTexts,    \* what the user may leave in a file
  MaxWrites,    \* bound: writes of the agent
  MaxEdits      \* bound: edits of the user

Absent == <<>>
Nowhere == [p \in Paths |-> Absent]

Reps == {"full", "compressed", "background-artifact"}

ASSUME ReviewAssumption ==
  /\ Paths \subseteq Nat /\ Artifacts \subseteq Paths
  /\ Derived \in Seq(STRING) /\ Derived # <<>>
  /\ AgentTexts \subseteq Seq(STRING) /\ UserTexts \subseteq Seq(STRING)
  /\ Starts \subseteq [source : [Paths -> Seq(STRING)], prepared : [Paths -> Seq(STRING)],
                       rep : [Paths -> Reps]]
  \* No write changes the number of words.
  /\ \A text \in AgentTexts \cup UserTexts \cup
                UNION {Range(start.source) \cup Range(start.prepared) : start \in Starts} :
       text # Absent => Len(text) = Len(Derived)

VARIABLES
  source,       \* path -> text in the user's tree
  prepared,     \* path -> text in the tree the agent works on
  rep,          \* path -> representation in manifest.json
  published,    \* artifacts the worker has renamed into the workspace
  records,      \* those whose record says so
  baseline,     \* the private session: [text, rep, hash, dirty]
  at,           \* what runs: a review (show, fresh, call), or a step after it
  stage,        \* where the review is
  review,       \* the last review: [live, changes, blocked, hunks]
  shown,        \* the review the panel has rendered
  opened,       \* the one its message handler closes over
  request,      \* the call: [picked, hunks, expected]
  overlay,      \* the candidate changes
  left,         \* changes still to discard
  writes, edits,   \* bounds
  moves,        \* observer: path -> writes since the call began (2: or more)
  touched,      \* observer: paths written since the review in "opened"
  known         \* observer: artifacts on record and there at that review

trees == <<source, prepared, rep, published, records>>
panel == <<shown, opened>>
call == <<request, overlay, left>>
bounds == <<writes, edits>>
observers == <<moves, touched, known>>
vars == <<trees, baseline, at, stage, review, panel, call, bounds, observers>>

NoReview == [live |-> FALSE, changes |-> {}, blocked |-> {}, hunks |-> [p \in Paths |-> {}]]
NoRequest == [picked |-> {}, hunks |-> <<>>, expected |-> {}]

Init ==
  /\ \E start \in Starts :
       source = start.source /\ prepared = start.prepared /\ rep = start.rep
  /\ published = {} /\ records = {}
  /\ baseline = [text |-> Nowhere, rep |-> rep, hash |-> Nowhere, dirty |-> {}]
  /\ at = "capture" /\ stage = "scan"
  /\ review = NoReview /\ shown = NoReview /\ opened = NoReview
  /\ request = NoRequest /\ overlay = {} /\ left = {}
  /\ writes = 0 /\ edits = 0
  /\ moves = [p \in Paths |-> 0] /\ touched = {} /\ known = {}

-----------------------------------------------------------------------------
(* Texts, hunks and secrets.                                               *)

\* A new file is one hunk; otherwise each word that differs is.
Hunks(before, after) ==
  IF after = Absent THEN {}
  ELSE IF before = Absent THEN {<<0, after>>}
  ELSE {<<i, <<after[i]>>>> : i \in {n \in DOMAIN before : before[n] # after[n]}}

\* applyTextPatchHunks: the text before with the selected hunks; of a new file the text
\* or, with none, an empty one.
Merge(before, ids) ==
  IF before = Absent THEN IF ids = {} THEN <<"">> ELSE (CHOOSE id \in ids : TRUE)[2]
  ELSE [i \in DOMAIN before |->
     IF \E id \in ids : id[1] = i THEN (CHOOSE id \in ids : id[1] = i)[2][1] ELSE before[i]]

\* hasNewMatch: a secret the text before did not have.
NewSecret(before, after) == "secret" \in Range(after) \ Range(before)

-----------------------------------------------------------------------------
(* What a scan of the prepared tree finds (diffPreparedSnapshots).         *)

Change(kind, path, from, after) ==
  [kind |-> kind, path |-> path, from |-> from,
   before |-> IF kind = "added" THEN Absent ELSE baseline.text[from],
   after |-> after,
   \* The private snapshot rules; then a background record; then "full".
   rep |-> IF baseline.text[path] # Absent THEN baseline.rep[path]
           ELSE IF path \in records THEN "background-artifact" ELSE "full"]

Deleted == {p \in Paths : baseline.text[p] # Absent /\ prepared[p] = Absent}
Added == {p \in Paths : baseline.text[p] = Absent /\ prepared[p] # Absent}
Modified == {p \in Paths : /\ baseline.text[p] # Absent /\ prepared[p] # Absent
                           /\ prepared[p] # baseline.text[p]}

\* A deleted and an added file with the same text, which no other of them has.
Renames ==
  {m \in Deleted \X Added :
     /\ prepared[m[2]] = baseline.text[m[1]]
     /\ \A p \in Deleted : baseline.text[p] = baseline.text[m[1]] => p = m[1]
     /\ \A p \in Added : prepared[p] = prepared[m[2]] => p = m[2]}

Detected ==
  {Change("renamed", m[2], m[1], prepared[m[2]]) : m \in Renames}
  \cup {Change("deleted", p, p, Absent) : p \in {d \in Deleted : \A m \in Renames : m[1] # d}}
  \cup {Change("added", p, p, prepared[p]) : p \in {a \in Added : \A m \in Renames : m[2] # a}}
  \cup {Change("modified", p, p, prepared[p]) : p \in Modified}

\* Artifacts on record that came during the session are not the agent's.
Agents(c) == ~(/\ c.rep = "background-artifact" /\ baseline.text[c.path] = Absent
               /\ c.path \in records)
Changes == {c \in Detected : Agents(c)}

\* The working tree and patch identities: not the origin of a rename.
Identity(changes) ==
  {[path |-> c.path, kind |-> c.kind, before |-> c.before, after |-> c.after] : c \in changes}

\* What the private baseline holds of the file: nothing of an artifact.
Kept(p) == IF baseline.rep[p] = "background-artifact" THEN Absent ELSE baseline.text[p]
OldText(c) == IF c.kind = "added" THEN Absent ELSE Kept(c.from)

\* validatePatchChange with the input of validationInput.
Blocked(c, after) ==
  \/ c.rep # "full"
  \/ baseline.hash[c.from] # Absent /\ source[c.from] # baseline.hash[c.from]
  \/ c.from \in baseline.dirty
  \/ c.kind = "added" /\ source[c.path] # Absent /\ baseline.hash[c.path] = Absent
  \/ NewSecret(OldText(c), after)

-----------------------------------------------------------------------------
(* Everyone else.                                                          *)

\* The observers look at the prepared tree while a panel is open or a call runs.
Calls == {"call", "check", "recheck", "materialize", "final", "apply"}
Written(ps) ==
  /\ touched' = IF opened.live \/ at = "show" THEN touched \cup ps ELSE touched
  /\ moves' = IF at \in Calls
              THEN [p \in Paths |-> IF p \in ps /\ moves[p] < 2 THEN moves[p] + 1 ELSE moves[p]]
              ELSE moves

\* The agent writes, makes or deletes a file.
AgentWrites(p, text) ==
  /\ at # "capture" /\ writes < MaxWrites
  /\ text # prepared[p]
  /\ prepared' = [prepared EXCEPT ![p] = text]
  /\ Written({p})
  /\ writes' = writes + 1
  /\ UNCHANGED <<source, rep, published, records, baseline, at, stage, review, panel, call,
                 edits, known>>

AgentMoves(p, q) ==
  /\ at # "capture" /\ writes < MaxWrites
  /\ prepared[p] # Absent /\ prepared[q] = Absent
  /\ prepared' = [prepared EXCEPT ![q] = prepared[p], ![p] = Absent]
  /\ Written({p, q})
  /\ writes' = writes + 1
  /\ UNCHANGED <<source, rep, published, records, baseline, at, stage, review, panel, call,
                 edits, known>>

UserEdits(p, text) ==
  /\ edits < MaxEdits /\ text # source[p]
  /\ source' = [source EXCEPT ![p] = text]
  /\ edits' = edits + 1
  /\ UNCHANGED <<prepared, rep, published, records, baseline, at, stage, review, panel, call,
                 writes, observers>>

\* The worker renames the artifact into the workspace, and later records it.
Publish(p) ==
  /\ p \notin published
  /\ prepared' = [prepared EXCEPT ![p] = Derived]
  /\ Written({p})
  /\ published' = published \cup {p}
  /\ UNCHANGED <<source, rep, records, baseline, at, stage, review, panel, call, bounds, known>>

Record(p) ==
  /\ p \in published \ records
  /\ records' = records \cup {p}
  /\ UNCHANGED <<source, prepared, rep, published, baseline, at, stage, review, panel, call,
                 bounds, observers>>

-----------------------------------------------------------------------------
(* Capture and review.                                                     *)

\* capturePatchSession: the scan of the prepared tree, before the agent starts.
CaptureScan ==
  /\ at = "capture" /\ stage = "scan"
  /\ baseline' = [baseline EXCEPT !.text = prepared,
                    !.rep = [p \in Paths |->
                               IF p \in records THEN "background-artifact" ELSE rep[p]]]
  /\ stage' = "sources"
  /\ UNCHANGED <<trees, at, review, panel, call, bounds, observers>>

\* The hashes of the sources of its full files.  A file that Git calls dirty is blocked
\* for the session; if Git cannot tell, all are.
CaptureSources ==
  /\ at = "capture" /\ stage = "sources"
  /\ LET full == {p \in Paths : baseline.text[p] # Absent /\ baseline.rep[p] = "full"}
     IN \E dirty \in {{}, Paths} :
          baseline' = [baseline EXCEPT
            !.hash = [p \in Paths |-> IF p \in full THEN source[p] ELSE Absent],
            !.dirty = dirty]
  /\ at' = "idle" /\ stage' = "scan"
  /\ UNCHANGED <<trees, review, panel, call, bounds, observers>>

\* The panel is opened (again), or a command of the CLI starts.
Open ==
  /\ at \in {"idle", "choose"}
  /\ at' = "show" /\ stage' = "scan"
  /\ UNCHANGED <<trees, baseline, review, panel, call, bounds, observers>>

Closed ==
  /\ at' = "idle"
  /\ shown' = NoReview /\ opened' = NoReview /\ review' = NoReview
  /\ moves' = [p \in Paths |-> 0] /\ touched' = {} /\ known' = {}

Close ==
  /\ at = "choose"
  /\ Closed
  /\ UNCHANGED <<trees, baseline, stage, call, bounds>>

\* reviewPatchSession reads the workspace three times: the scan ...
Scan ==
  /\ at \in {"show", "fresh", "call"} /\ stage = "scan"
  /\ review' = [NoReview EXCEPT !.live = TRUE, !.changes = Changes]
  /\ stage' = "validate"
  \* A panel that is open keeps its handler, and the handler its review.
  /\ IF at = "show" /\ ~opened.live
     THEN touched' = {} /\ known' = {p \in records : prepared[p] # Absent}
     ELSE UNCHANGED <<touched, known>>
  /\ moves' = [p \in Paths |-> 0]
  /\ UNCHANGED <<trees, baseline, at, panel, call, bounds>>

\* ... the validation of what it found ...
Validate ==
  /\ at \in {"show", "fresh", "call"} /\ stage = "validate"
  /\ review' = [review EXCEPT
       !.blocked = {c.path : c \in {d \in review.changes : Blocked(d, prepared[d.path])}}]
  \* The hunks of the review made at the click are looked at only if it is rendered.
  /\ IF at = "fresh" THEN at' = "confirm" /\ stage' = "scan" ELSE stage' = "hunks" /\ UNCHANGED at
  /\ UNCHANGED <<trees, baseline, panel, call, bounds, observers>>

Hunked(c) == c.kind # "deleted" /\ c.path \notin review.blocked

\* ... and the hunks of what is not blocked.
ReadHunks ==
  /\ at \in {"show", "call"} /\ stage = "hunks"
  /\ review' = [review EXCEPT
       !.hunks = [p \in Paths |->
          UNION {Hunks(OldText(c), prepared[p]) :
                   c \in {d \in review.changes : d.path = p /\ Hunked(d)}}]]
  /\ stage' = "scan"
  /\ IF at = "show"
     THEN /\ at' = "choose" /\ shown' = review'
          /\ opened' = IF opened.live THEN opened ELSE review'
     ELSE at' = "check" /\ UNCHANGED panel
  /\ UNCHANGED <<trees, baseline, call, bounds, observers>>

-----------------------------------------------------------------------------
(* Selection and apply.                                                    *)

Eligible(r) == {c.path : c \in r.changes} \ r.blocked

\* The panel sends the ticked files, and hunks where there is more than one.
Click ==
  /\ at = "choose"
  /\ \E picked \in SUBSET Eligible(shown) \ {{}} :
       LET several == {p \in picked : Cardinality(shown.hunks[p]) > 1}
       IN \E hunks \in [several -> SUBSET UNION {shown.hunks[p] : p \in several}] :
            /\ \A p \in several : hunks[p] \subseteq shown.hunks[p]
            /\ request' = [picked |-> picked, hunks |-> hunks, expected |-> {}]
  /\ at' = "fresh" /\ stage' = "scan"
  /\ UNCHANGED <<trees, baseline, review, panel, overlay, left, bounds, observers>>

\* The identities are those of the review made at the click.
Confirm ==
  /\ at = "confirm"
  /\ request.picked \cap Eligible(review) # {}
  /\ request' = [request EXCEPT !.expected = Identity(review.changes)]
  /\ at' = "call" /\ stage' = "scan"
  /\ UNCHANGED <<trees, baseline, review, panel, overlay, left, bounds, observers>>

\* Nothing of the selection is left: the panel renders the new review.
NothingLeft ==
  /\ at = "confirm"
  /\ request.picked \cap Eligible(review) = {}
  /\ at' = "show" /\ stage' = "hunks"
  /\ request' = NoRequest
  /\ UNCHANGED <<trees, baseline, review, panel, overlay, left, bounds, observers>>

Decline ==
  /\ at = "confirm"
  /\ at' = "choose" /\ review' = shown
  /\ request' = NoRequest
  /\ UNCHANGED <<trees, baseline, stage, panel, overlay, left, bounds, observers>>

\* The CLI confirms the review it has made itself; it selects files only.
ConfirmFiles ==
  /\ at = "choose" /\ shown = opened
  /\ \E picked \in SUBSET Eligible(shown) \ {{}} :
       request' = [picked |-> picked, hunks |-> <<>>, expected |-> Identity(shown.changes)]
  /\ at' = "call" /\ stage' = "scan"
  /\ UNCHANGED <<trees, baseline, review, panel, overlay, left, bounds, observers>>

\* Any refusal: the panel renders a new review.
Refuse ==
  /\ at' = "show"
  /\ request' = NoRequest /\ overlay' = {}
  /\ UNCHANGED <<trees, baseline, stage, review, panel, left, bounds, observers>>

\* applyPatchSession: identities, then the selection, of the review it made.
Acceptable ==
  /\ Identity(review.changes) = request.expected
  /\ request.picked \subseteq Eligible(review)
  /\ \A p \in DOMAIN request.hunks : request.hunks[p] \subseteq review.hunks[p]

Check ==
  /\ at = "check"
  /\ IF Acceptable
     THEN at' = "recheck" /\ UNCHANGED <<trees, baseline, stage, review, panel, call, bounds, observers>>
     ELSE Refuse

\* The first thing materializePatchSelection does is another review.
StillReviewed == Identity(Changes) = Identity(review.changes)

Recheck ==
  /\ at = "recheck"
  /\ IF StillReviewed
     THEN at' = "materialize"
          /\ UNCHANGED <<trees, baseline, stage, review, panel, call, bounds, observers>>
     ELSE Refuse

\* The bytes of a candidate: those on disk now, or the baseline with the hunks.
Candidate(c) ==
  IF c.kind = "deleted" THEN Absent
  ELSE IF c.path \in DOMAIN request.hunks THEN Merge(baseline.text[c.from], request.hunks[c.path])
  ELSE prepared[c.path]

Chosen == {c \in review.changes : c.path \in request.picked}

\* What equals the text before is left out: a file none of whose hunks is ticked, and
\* every rename, unless its bytes are others by now.
Candidates ==
  {[c EXCEPT !.after = Candidate(c)] :
     c \in {d \in Chosen : d.kind = "deleted" \/ Candidate(d) # d.before}}

Materializable ==
  /\ \A c \in Chosen : c.kind # "deleted" =>
       /\ prepared[c.path] # Absent
       /\ c.path \in DOMAIN request.hunks =>
            /\ c.kind = "added" \/ Kept(c.from) # Absent
            /\ request.hunks[c.path] \subseteq Hunks(OldText(c), prepared[c.path])
  /\ \A c \in Candidates : c.kind # "deleted" => ~Blocked(c, c.after)
  /\ Candidates # {}

Materialize ==
  /\ at = "materialize"
  /\ IF Materializable
     THEN /\ overlay' = Candidates
          /\ at' = "final"
          /\ UNCHANGED <<trees, baseline, stage, review, panel, request, left, bounds, observers>>
     ELSE Refuse

\* Mutant: the review after materialization is not compared.
NotCompared == TRUE

\* The review after materialization.
FinallyReviewed == Identity(Changes) = Identity(review.changes)

FinalReview ==
  /\ at = "final"
  /\ IF FinallyReviewed
     THEN at' = "apply" /\ UNCHANGED <<trees, baseline, stage, review, panel, call, bounds, observers>>
     ELSE Refuse

\* validateChange of apply.ts, over the exact bytes on both sides.
Preflight(c) ==
  /\ c.rep = "full"
  /\ source[c.from] = c.before
  /\ c.kind = "renamed" => source[c.path] = Absent
  /\ ~NewSecret(source[c.from], c.after)

Applied ==
  [p \in Paths |->
     IF \E c \in overlay : c.path = p THEN (CHOOSE c \in overlay : c.path = p).after
     ELSE IF \E c \in overlay : c.kind = "renamed" /\ c.from = p THEN Absent
     ELSE source[p]]

\* applyPatchAtomically; on success the panel is closed.
Apply ==
  /\ at = "apply"
  /\ IF \A c \in overlay : Preflight(c)
     THEN /\ source' = Applied
          /\ Closed
          /\ request' = NoRequest /\ overlay' = {}
          /\ UNCHANGED <<prepared, rep, published, records, baseline, stage, left, bounds>>
     ELSE Refuse

-----------------------------------------------------------------------------
(* Discard.                                                                *)

\* The handler discards the changes of the review it was made with.
BeginDiscard ==
  /\ at = "choose"
  /\ left' = opened.changes
  /\ at' = "discard"
  /\ UNCHANGED <<trees, baseline, stage, review, panel, request, overlay, bounds, observers>>

\* Mutant: of a rename only the new name is removed.
OriginLeft(c) ==
  IF c.kind \in {"added", "renamed"} THEN [prepared EXCEPT ![c.path] = Absent]
  ELSE [prepared EXCEPT ![c.from] = baseline.text[c.from]]

\* The prepared tree without the change; a rename also loses its new name.
Restored(c) ==
  IF c.kind = "added" THEN [prepared EXCEPT ![c.path] = Absent]
  ELSE IF c.kind = "renamed"
       THEN [prepared EXCEPT ![c.path] = Absent, ![c.from] = baseline.text[c.from]]
       ELSE [prepared EXCEPT ![c.from] = baseline.text[c.from]]

\* The baseline has no bytes of a transformed file: its rename stops the discard.
Restorable(c) == c.kind = "added" \/ Kept(c.from) # Absent

Discarded(c) ==
  IF c.rep = "background-artifact" THEN prepared
  ELSE IF Restorable(c) THEN Restored(c) ELSE [prepared EXCEPT ![c.path] = Absent]

DiscardNext ==
  /\ at = "discard"
  /\ \E c \in left :
       /\ \A d \in left : c.path <= d.path
       /\ left' = left \ {c}
       /\ prepared' = Discarded(c)
       /\ IF c.rep = "background-artifact" \/ Restorable(c) THEN UNCHANGED at ELSE at' = "choose"
  /\ UNCHANGED <<source, rep, published, records, baseline, stage, review, panel,
                 request, overlay, bounds, observers>>

DiscardEnds ==
  /\ at = "discard" /\ left = {}
  /\ Closed
  /\ UNCHANGED <<trees, baseline, stage, call, bounds>>

-----------------------------------------------------------------------------

Next ==
  \/ \E p \in Paths, text \in AgentTexts \cup {Absent} : AgentWrites(p, text)
  \/ \E p \in Paths, text \in UserTexts : UserEdits(p, text)
  \/ \E p, q \in Paths : AgentMoves(p, q)
  \/ \E p \in Artifacts : Publish(p) \/ Record(p)
  \/ CaptureScan \/ CaptureSources
  \/ Open \/ Close \/ Scan \/ Validate \/ ReadHunks
  \/ Click \/ Confirm \/ NothingLeft \/ Decline \/ ConfirmFiles
  \/ Check \/ Recheck \/ Materialize \/ FinalReview \/ Apply
  \/ BeginDiscard \/ DiscardNext \/ DiscardEnds

Spec == Init /\ [][Next]_vars

-----------------------------------------------------------------------------
(* Properties.                                                             *)

\* What an apply does to the source is what was confirmed.  Every file it
\* changes still has the text the agent got.  A file of which hunks were ticked
\* gets exactly those, as the panel showed them.  And unless the agent wrote a
\* selected file twice while the call ran (away and back is not noticed), every
\* file it changes was selected, was prepared in full or is new, takes in no
\* secret, and a whole file gets the text the confirmed review found.
Applying == at = "apply" /\ at' = "idle"
Ticked(p) == p \in DOMAIN request.hunks /\ request.hunks[p] # {}
Quiet == \A p \in request.picked : moves[p] < 2

AppliedAsConfirmed ==
  [][Applying =>
       \A p \in {f \in Paths : source'[f] # source[f]} :
         /\ source[p] = baseline.text[p]
         /\ source[p] # Absent /\ Ticked(p) =>
              source'[p] = Merge(baseline.text[p], request.hunks[p])
         /\ Quiet =>
              /\ p \in request.picked
              /\ source[p] # Absent => baseline.rep[p] = "full"
              /\ ~NewSecret(source[p], source'[p])
              /\ p \notin DOMAIN request.hunks =>
                   \E c \in request.expected : c.path = p /\ c.after = source'[p]]_vars

\* A discard that goes through leaves every file it was to discard as the agent
\* got it, at its old name, unless someone has written it since the review; and
\* an artifact that was on record then is still there.
DiscardRestores ==
  at = "discard" /\ left = {} =>
    /\ \A c \in opened.changes :
         c.rep # "background-artifact" /\ {c.path, c.from} \cap touched = {} =>
           prepared[c.path] = baseline.text[c.path] /\ prepared[c.from] = baseline.text[c.from]
    /\ \A p \in known : p \notin touched => prepared[p] # Absent
==============================================================================
