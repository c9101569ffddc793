-------------------------- MODULE PatchReviewProofs --------------------------
(***************************************************************************)
(* Proofs about a patch session, for any names, texts, starts and number   *)
(* of writes and edits: what an apply changes is what was confirmed, and a *)
(* discard that goes through gives back what the agent got.                *)
(***************************************************************************)
EXTENDS PatchReview, SequenceTheorems, TLAPS

-----------------------------------------------------------------------------
(* Shapes.                                                                 *)

Text == Seq(STRING)
Tree == [Paths -> Text]
Kinds == {"deleted", "added", "modified", "renamed"}
ChangeSet == [kind : Kinds, path : Paths, from : Paths, before : Text, after : Text, rep : Reps]

\* A change tells what the baseline has at its names.
WellFormed(c, base) ==
  /\ c \in ChangeSet
  /\ c.kind # "renamed" => c.from = c.path
  /\ c.kind \in {"added", "renamed"} <=> base.text[c.path] = Absent
  /\ c.kind = "renamed" => base.text[c.from] # Absent /\ c.after = c.before
  /\ c.kind = "deleted" => c.after = Absent
  /\ c.before = base.text[c.from]
  /\ base.text[c.path] # Absent => c.rep = base.rep[c.path]

\* And no name belongs to two of them.
Consistent(changes, base) ==
  /\ \A c \in changes : WellFormed(c, base)
  /\ \A c, d \in changes : c # d => {c.path, c.from} \cap {d.path, d.from} = {}

Shaped(r) ==
  /\ r = [live |-> r.live, changes |-> r.changes, blocked |-> r.blocked, hunks |-> r.hunks]
  /\ r.live \in BOOLEAN

Typed ==
  /\ prepared \in Tree /\ rep \in [Paths -> Reps]
  /\ published \subseteq Paths /\ records \subseteq Paths
  /\ baseline = [text |-> baseline.text, rep |-> baseline.rep, hash |-> baseline.hash,
                 dirty |-> baseline.dirty]
  /\ baseline.text \in Tree /\ baseline.rep \in [Paths -> Reps]
  /\ moves \in [Paths -> 0 .. 2] /\ touched \subseteq Paths /\ known \subseteq Paths
  /\ Shaped(review) /\ Shaped(shown) /\ Shaped(opened)

Reviewed ==
  /\ Consistent(review.changes, baseline)
  /\ Consistent(shown.changes, baseline)
  /\ Consistent(opened.changes, baseline)

Deciding == {"check", "recheck", "materialize", "final", "apply"}

\* Until the capture is over nothing was reviewed; a handler holds a review from the first
\* rendering until the panel is closed.
Placed ==
  /\ at = "capture" => review.changes = {} /\ shown.changes = {} /\ opened.changes = {}
  /\ at = "capture" => ~opened.live
  /\ at \in {"show", "fresh", "call"} /\ stage # "scan" => review.live
  /\ at \in Deciding \cup {"confirm"} => review.live
  /\ at \notin {"capture", "idle", "show"} => opened.live
  /\ at = "discard" => left \subseteq opened.changes

SInv == Typed /\ Reviewed /\ Placed

-----------------------------------------------------------------------------
(* Discard.                                                                *)

Showing == opened.live \/ (at = "show" /\ stage # "scan")
Held == IF opened.live THEN opened.changes ELSE review.changes

\* An artifact that was on record is there, and no change of the review is about it, unless
\* the baseline has one at its name.
KnownStay ==
  Showing => /\ \A p \in known \ touched : prepared[p] # Absent
             /\ \A c \in Held : c.path \in known => baseline.text[c.path] # Absent

\* What the discard has passed is as in the baseline.
Passed ==
  at = "discard" =>
    \A c \in opened.changes \ left :
      c.rep # "background-artifact" /\ {c.path, c.from} \cap touched = {} =>
        prepared[c.path] = baseline.text[c.path] /\ prepared[c.from] = baseline.text[c.from]

DInv == SInv /\ KnownStay /\ Passed

-----------------------------------------------------------------------------
(* Apply.                                                                  *)

\* A file that no longer has the text of the review of the call was written since.
Noticed ==
  at \in Deciding \/ (at = "call" /\ stage # "scan") =>
    \A c \in review.changes : prepared[c.path] # c.after => moves[c.path] >= 1

\* Hunks are found in files that are there.
HunksFound ==
  at \in Deciding =>
    \A p \in Paths : review.hunks[p] # {} =>
      \E c \in review.changes : c.path = p /\ c.kind # "deleted"

\* Past the check, the request is about the review of the call.
Agreed ==
  at \in Deciding \ {"check"} =>
    /\ Identity(review.changes) = request.expected
    /\ \A p \in DOMAIN request.hunks : request.hunks[p] \subseteq review.hunks[p]

\* A candidate is a change with other bytes.
Copies(o, c) ==
  o.kind = c.kind /\ o.path = c.path /\ o.from = c.from /\ o.before = c.before /\ o.rep = c.rep

\* Away once; the final review passes only if it came back, which is a second write.
Moved(c) ==
  IF at = "final" THEN moves[c.path] >= 1 /\ (moves[c.path] = 1 => prepared[c.path] # c.after)
  ELSE moves[c.path] = 2

\* It has the ticked hunks, or the reviewed text, or a text that came and went.
Candidacy(o, c) ==
  /\ Copies(o, c) /\ c.path \in request.picked
  /\ c.kind = "deleted" => o.after = Absent
  /\ c.kind # "deleted" /\ c.path \in DOMAIN request.hunks =>
       o.after = Merge(baseline.text[c.from], request.hunks[c.path])
  /\ c.kind = "renamed" => Moved(c)
  /\ c.path \notin DOMAIN request.hunks /\ o.after # c.after => Moved(c)

Overlaid ==
  at \in {"final", "apply"} => \A o \in overlay : \E c \in review.changes : Candidacy(o, c)

AInv == SInv /\ Noticed /\ HunksFound /\ Agreed /\ Overlaid

-----------------------------------------------------------------------------
(* What a scan finds.                                                      *)

\* Where a change comes from.
Form(c) ==
  /\ c.path \in Paths /\ c.from \in Paths
  /\ c = Change(c.kind, c.path, c.from, prepared[c.path])
  /\ \/ c.kind = "renamed" /\ <<c.from, c.path>> \in Renames
     \/ /\ c.kind = "deleted" /\ c.from = c.path /\ c.path \in Deleted
        /\ \A m \in Renames : m[1] # c.path
     \/ /\ c.kind = "added" /\ c.from = c.path /\ c.path \in Added
        /\ \A m \in Renames : m[2] # c.path
     \/ c.kind = "modified" /\ c.from = c.path /\ c.path \in Modified

\* The fields of a change.
LEMMA ChangeFields ==
  ASSUME NEW kind, NEW path, NEW from, NEW after
  PROVE  LET c == Change(kind, path, from, after)
         IN c.kind = kind /\ c.path = path /\ c.from = from /\ c.after = after
BY DEF Change

\* Every change that is detected has one of the four forms.
LEMMA DetectedForm ==
  ASSUME NEW c \in Detected
  PROVE  Form(c)
  <1>1. CASE \E m \in Renames : c = Change("renamed", m[2], m[1], prepared[m[2]])
    <2>1. PICK m \in Renames : c = Change("renamed", m[2], m[1], prepared[m[2]])
      BY <1>1
    <2>2. c.kind = "renamed" /\ c.path = m[2] /\ c.from = m[1]
      BY <2>1, ChangeFields
    <2>3. m \in Deleted \X Added
      BY DEF Renames
    <2>4. m = <<m[1], m[2]>> /\ m[1] \in Paths /\ m[2] \in Paths
      BY <2>3 DEF Deleted, Added
    <2>5. c = Change(c.kind, c.path, c.from, prepared[c.path])
      BY <2>1, <2>2
    <2>6. <<c.from, c.path>> \in Renames
      BY <2>2, <2>4
    <2> QED BY <2>2, <2>4, <2>5, <2>6 DEF Form
  <1>2. CASE \E p \in {d \in Deleted : \A m \in Renames : m[1] # d} :
               c = Change("deleted", p, p, Absent)
    <2>1. PICK p \in Deleted : c = Change("deleted", p, p, Absent) /\ \A m \in Renames : m[1] # p
      BY <1>2
    <2>2. c.kind = "deleted" /\ c.path = p /\ c.from = p
      BY <2>1, ChangeFields
    <2>3. p \in Paths /\ prepared[p] = Absent
      BY DEF Deleted
    <2>4. c = Change(c.kind, c.path, c.from, prepared[c.path])
      BY <2>1, <2>2, <2>3
    <2> QED BY <2>1, <2>2, <2>3, <2>4 DEF Form
  <1>3. CASE \E p \in {a \in Added : \A m \in Renames : m[2] # a} :
               c = Change("added", p, p, prepared[p])
    <2>1. PICK p \in Added : c = Change("added", p, p, prepared[p]) /\ \A m \in Renames : m[2] # p
      BY <1>3
    <2>2. c.kind = "added" /\ c.path = p /\ c.from = p
      BY <2>1, ChangeFields
    <2>3. p \in Paths
      BY DEF Added
    <2>4. c = Change(c.kind, c.path, c.from, prepared[c.path])
      BY <2>1, <2>2
    <2> QED BY <2>1, <2>2, <2>3, <2>4 DEF Form
  <1>4. CASE \E p \in Modified : c = Change("modified", p, p, prepared[p])
    <2>1. PICK p \in Modified : c = Change("modified", p, p, prepared[p])
      BY <1>4
    <2>2. c.kind = "modified" /\ c.path = p /\ c.from = p
      BY <2>1, ChangeFields
    <2>3. p \in Paths
      BY DEF Modified
    <2>4. c = Change(c.kind, c.path, c.from, prepared[c.path])
      BY <2>1, <2>2
    <2> QED BY <2>1, <2>2, <2>3, <2>4 DEF Form
  <1> QED BY <1>1, <1>2, <1>3, <1>4 DEF Detected

\* A change of any form tells what the baseline has.
LEMMA FormWellFormed ==
  ASSUME Typed, NEW c, Form(c)
  PROVE  WellFormed(c, baseline) /\ c.after = prepared[c.path]
  <1>1. /\ baseline.text \in Tree /\ prepared \in Tree /\ baseline.rep \in [Paths -> Reps]
        /\ c.path \in Paths /\ c.from \in Paths
    BY DEF Typed, Form
  <1>2. Absent \in Text
    BY EmptySeq DEF Absent, Text
  <1>3. baseline.text[c.path] \in Text /\ baseline.text[c.from] \in Text /\ prepared[c.path] \in Text
    BY <1>1 DEF Tree
  <1>4. /\ c = [kind |-> c.kind, path |-> c.path, from |-> c.from,
                before |-> IF c.kind = "added" THEN Absent ELSE baseline.text[c.from],
                after |-> prepared[c.path],
                rep |-> IF baseline.text[c.path] # Absent THEN baseline.rep[c.path]
                        ELSE IF c.path \in records THEN "background-artifact" ELSE "full"]
    BY DEF Form, Change
  <1>5. c.kind \in Kinds
    BY DEF Form, Kinds
  <1>6. /\ c.after = prepared[c.path]
        /\ c.before = IF c.kind = "added" THEN Absent ELSE baseline.text[c.from]
        /\ c.rep = IF baseline.text[c.path] # Absent THEN baseline.rep[c.path]
                   ELSE IF c.path \in records THEN "background-artifact" ELSE "full"
    BY <1>4
  <1>7. c.rep \in Reps
    BY <1>1, <1>6 DEF Reps
  <1>8. c \in ChangeSet
    BY <1>1, <1>2, <1>3, <1>4, <1>5, <1>6, <1>7 DEF ChangeSet
  <1>9. c.kind = "renamed" =>
          /\ c.from \in Deleted /\ c.path \in Added
          /\ prepared[c.path] = baseline.text[c.from]
    BY DEF Form, Renames
  <1>10. c.kind = "deleted" => c.from = c.path /\ c.path \in Deleted
    BY DEF Form
  <1>11. c.kind = "added" => c.from = c.path /\ c.path \in Added
    BY DEF Form
  <1>12. c.kind = "modified" => c.from = c.path /\ c.path \in Modified
    BY DEF Form
  <1>13. /\ c.kind # "renamed" => c.from = c.path
         /\ c.kind \in {"added", "renamed"} <=> baseline.text[c.path] = Absent
         /\ c.kind = "renamed" => baseline.text[c.from] # Absent /\ c.after = c.before
         /\ c.kind = "deleted" => c.after = Absent
         /\ c.before = baseline.text[c.from]
    BY <1>5, <1>6, <1>9, <1>10, <1>11, <1>12 DEF Kinds, Deleted, Added, Modified
  <1> QED BY <1>6, <1>8, <1>13 DEF WellFormed

\* Two changes share no name.
LEMMA FormsApart ==
  ASSUME NEW c, NEW d, Form(c), Form(d), c # d
  PROVE  {c.path, c.from} \cap {d.path, d.from} = {}
  <1>1. ~(c.kind = d.kind /\ c.path = d.path /\ c.from = d.from)
    BY DEF Form
  <1>2. \A m, n \in Renames : m[1] = n[1] <=> m[2] = n[2]
    <2>1. SUFFICES ASSUME NEW m \in Renames, NEW n \in Renames PROVE m[1] = n[1] <=> m[2] = n[2]
      OBVIOUS
    <2>2. /\ m[1] \in Deleted /\ m[2] \in Added /\ prepared[m[2]] = baseline.text[m[1]]
          /\ n[1] \in Deleted /\ n[2] \in Added /\ prepared[n[2]] = baseline.text[n[1]]
          /\ \A p \in Deleted : baseline.text[p] = baseline.text[m[1]] => p = m[1]
          /\ \A p \in Added : prepared[p] = prepared[m[2]] => p = m[2]
      BY DEF Renames
    <2> QED BY <2>2
  <1>3. \A p : ~(p \in Deleted /\ p \in Added) /\ ~(p \in Modified /\ p \in Added)
               /\ ~(p \in Deleted /\ p \in Modified)
    BY DEF Deleted, Added, Modified
  <1>4. \A m \in Renames : m[1] \in Deleted /\ m[2] \in Added
    BY DEF Renames
  <1>5. \A x \in {c, d} : \/ x.kind = "renamed" /\ <<x.from, x.path>> \in Renames
                          \/ /\ x.kind = "deleted" /\ x.from = x.path /\ x.path \in Deleted
                             /\ \A m \in Renames : m[1] # x.path
                          \/ /\ x.kind = "added" /\ x.from = x.path /\ x.path \in Added
                             /\ \A m \in Renames : m[2] # x.path
                          \/ x.kind = "modified" /\ x.from = x.path /\ x.path \in Modified
    BY DEF Form
  <1>6. CASE c.kind = "renamed"
    <2>1. <<c.from, c.path>> \in Renames
      BY <1>5, <1>6
    <2>2. c.from \in Deleted /\ c.path \in Added
      BY <1>4, <2>1
    <2>3. CASE d.kind = "renamed"
      <3>1. <<d.from, d.path>> \in Renames
        BY <1>5, <2>3
      <3>2. d.from \in Deleted /\ d.path \in Added
        BY <1>4, <3>1
      <3>3. c.from = d.from <=> c.path = d.path
        BY <1>2, <2>1, <3>1
      <3> QED BY <1>1, <1>3, <1>6, <2>2, <2>3, <3>2, <3>3
    <2>4. CASE d.kind # "renamed"
      <3>1. d.from = d.path /\ d.path # c.from /\ d.path # c.path
        BY <1>3, <1>5, <2>1, <2>2, <2>4
      <3> QED BY <3>1
    <2> QED BY <2>3, <2>4
  <1>7. CASE c.kind # "renamed" /\ d.kind = "renamed"
    <2>1. <<d.from, d.path>> \in Renames
      BY <1>5, <1>7
    <2>2. d.from \in Deleted /\ d.path \in Added
      BY <1>4, <2>1
    <2>3. c.from = c.path /\ c.path # d.from /\ c.path # d.path
      BY <1>3, <1>5, <1>7, <2>1, <2>2
    <2> QED BY <2>3
  <1>8. CASE c.kind # "renamed" /\ d.kind # "renamed"
    <2>1. c.from = c.path /\ d.from = d.path /\ c.path # d.path
      BY <1>1, <1>3, <1>5, <1>8
    <2> QED BY <2>1
  <1> QED BY <1>6, <1>7, <1>8

\* What a review scans.
LEMMA Scanned ==
  ASSUME Typed
  PROVE  /\ Consistent(Changes, baseline)
         /\ \A c \in Changes : c.after = prepared[c.path]
         /\ \A c \in Changes : c.path \in records => baseline.text[c.path] # Absent
  <1>1. \A c \in Changes : Form(c)
    BY DetectedForm DEF Changes
  <1>2. \A c \in Changes : WellFormed(c, baseline) /\ c.after = prepared[c.path]
    BY <1>1, FormWellFormed
  <1>3. \A c, d \in Changes : c # d => {c.path, c.from} \cap {d.path, d.from} = {}
    BY <1>1, FormsApart
  <1>4. ASSUME NEW c \in Changes, c.path \in records, baseline.text[c.path] = Absent
        PROVE  FALSE
    <2>1. c = Change(c.kind, c.path, c.from, prepared[c.path])
      BY <1>1 DEF Form
    <2>2. c.rep = "background-artifact"
      BY <1>4, <2>1 DEF Change
    <2> QED BY <1>4, <2>2 DEF Changes, Agents
  <1> QED BY <1>2, <1>3, <1>4 DEF Consistent

-----------------------------------------------------------------------------
(* The steps, as far as the invariants tell them apart.                    *)

\* Someone else writes files of the prepared tree.
Writing(ps) ==
  /\ prepared' \in Tree /\ published' \subseteq Paths
  /\ \A q \in Paths \ ps : prepared'[q] = prepared[q]
  /\ Written(ps)
  /\ UNCHANGED <<rep, records, baseline, at, stage, review, panel, call, known>>

\* Or does something the session does not see.
Elsewhere ==
  /\ records' \subseteq Paths
  /\ UNCHANGED <<prepared, rep, published, baseline, at, stage, review, panel, call, observers>>

\* And the steps of the session itself.
Reviewing == CaptureScan \/ CaptureSources \/ Open \/ Close \/ Scan \/ Validate \/ ReadHunks
Selecting == Click \/ Confirm \/ NothingLeft \/ Decline \/ ConfirmFiles
ApplySteps == Check \/ Recheck \/ Materialize \/ FinalReview \/ Apply
Discarding == BeginDiscard \/ DiscardNext \/ DiscardEnds

\* A step of the session or of somebody else.
LEMMA Steps ==
  ASSUME Typed, [Next]_vars
  PROVE  \/ \E ps \in SUBSET Paths : Writing(ps)
         \/ Elsewhere
         \/ Reviewing \/ Selecting \/ ApplySteps \/ Discarding
  <1>1. Absent \in Text /\ Derived \in Text /\ AgentTexts \subseteq Text /\ Artifacts \subseteq Paths
    BY EmptySeq, ReviewAssumption DEF Absent, Text
  <1>2. prepared \in Tree
    BY DEF Typed
  <1>3. ASSUME NEW p \in Paths, NEW text \in AgentTexts \cup {Absent}, AgentWrites(p, text)
        PROVE  Writing({p})
    <2>1. prepared' = [prepared EXCEPT ![p] = text] /\ text \in Text
      BY <1>1, <1>3 DEF AgentWrites
    <2>2. prepared' \in Tree /\ \A q \in Paths \ {p} : prepared'[q] = prepared[q]
      BY <1>2, <2>1 DEF Tree
    <2> QED BY <1>3, <2>2 DEF AgentWrites, Writing, Typed
  <1>4. ASSUME NEW p \in Paths, NEW q \in Paths, AgentMoves(p, q)
        PROVE  Writing({p, q})
    <2>1. prepared' = [prepared EXCEPT ![q] = prepared[p], ![p] = Absent] /\ prepared[p] \in Text
      BY <1>2, <1>4 DEF AgentMoves, Tree
    <2>2. prepared' \in Tree /\ \A r \in Paths \ {p, q} : prepared'[r] = prepared[r]
      BY <1>1, <1>2, <2>1 DEF Tree
    <2> QED BY <1>4, <2>2 DEF AgentMoves, Writing, Typed
  <1>5. ASSUME NEW p \in Artifacts, Publish(p)
        PROVE  Writing({p}) /\ p \in Paths
    <2>1. prepared' = [prepared EXCEPT ![p] = Derived] /\ p \in Paths
      BY <1>1, <1>5 DEF Publish
    <2>2. prepared' \in Tree /\ \A q \in Paths \ {p} : prepared'[q] = prepared[q]
      BY <1>1, <1>2, <2>1 DEF Tree
    <2>3. published' \subseteq Paths
      BY <1>5, <2>1 DEF Publish, Typed
    <2> QED BY <1>5, <2>1, <2>2, <2>3 DEF Publish, Writing
  <1>6. ASSUME NEW p \in Artifacts, Record(p)
        PROVE  Elsewhere
    BY <1>1, <1>6 DEF Record, Elsewhere, Typed, bounds
  <1>7. ASSUME NEW p \in Paths, NEW text \in UserTexts, UserEdits(p, text)
        PROVE  Elsewhere
    BY <1>7 DEF UserEdits, Elsewhere, Typed
  <1>8. CASE UNCHANGED vars
    BY <1>8 DEF vars, trees, Elsewhere, Typed
  <1>9. CASE Next
    <2>1. CASE \E p \in Paths, text \in AgentTexts \cup {Absent} : AgentWrites(p, text)
      BY <1>3, <2>1
    <2>2. CASE \E p, q \in Paths : AgentMoves(p, q)
      BY <1>4, <2>2
    <2>3. CASE \E p \in Artifacts : Publish(p) \/ Record(p)
      BY <1>5, <1>6, <2>3
    <2>4. CASE \E p \in Paths, text \in UserTexts : UserEdits(p, text)
      BY <1>7, <2>4
    <2> QED BY <1>9, <2>1, <2>2, <2>3, <2>4 DEF Next, Reviewing, Selecting, ApplySteps, Discarding
  <1> QED BY <1>8, <1>9

-----------------------------------------------------------------------------
(* The shapes hold.                                                        *)

\* Nothing is consistent.
LEMMA Empty == ASSUME NEW base PROVE Consistent({}, base) /\ Shaped(NoReview)
BY DEF Consistent, Shaped, NoReview

\* A session starts in shape.
LEMMA InitSInv == Init => SInv
  <1> SUFFICES ASSUME Init PROVE SInv
    OBVIOUS
  <1>1. PICK start \in Starts : prepared = start.prepared /\ rep = start.rep
    BY DEF Init
  <1>2. prepared \in Tree /\ rep \in [Paths -> Reps]
    BY <1>1, ReviewAssumption DEF Tree, Text
  <1>3. Nowhere \in Tree
    BY EmptySeq DEF Nowhere, Absent, Tree, Text
  <1>4. Typed
    BY <1>2, <1>3, Empty DEF Init, Typed
  <1>5. Reviewed
    BY Empty DEF Init, Reviewed, NoReview
  <1>6. Placed
    BY DEF Init, Placed, NoReview, Deciding
  <1> QED BY <1>4, <1>5, <1>6 DEF SInv

\* A closed panel is in shape.
LEMMA ClosedSInv ==
  ASSUME SInv, Closed, UNCHANGED <<prepared, rep, published, records, baseline>>
  PROVE  SInv'
  <1>1. review' = NoReview /\ shown' = NoReview /\ opened' = NoReview
    BY DEF Closed
  <1>2. Typed'
    BY <1>1, Empty DEF Closed, SInv, Typed, Shaped
  <1>3. Reviewed'
    BY <1>1, Empty DEF Reviewed, NoReview
  <1>4. Placed'
    BY <1>1 DEF Closed, Placed, Deciding
  <1> QED BY <1>2, <1>3, <1>4 DEF SInv

\* The tree after one change is discarded.
LEMMA DiscardedTree ==
  ASSUME SInv, NEW c \in opened.changes
  PROVE  Discarded(c) \in Tree /\ c \in ChangeSet /\ c.path \in Paths /\ c.from \in Paths
  <1>1. prepared \in Tree /\ baseline.text \in Tree
    BY DEF SInv, Typed
  <1>2. c \in ChangeSet /\ c.path \in Paths /\ c.from \in Paths
    BY DEF SInv, Reviewed, Consistent, WellFormed, ChangeSet
  <1>3. Absent \in Text /\ baseline.text[c.from] \in Text
    BY <1>1, <1>2, EmptySeq DEF Absent, Text, Tree
  <1>4. /\ [prepared EXCEPT ![c.path] = Absent] \in Tree
        /\ [prepared EXCEPT ![c.from] = baseline.text[c.from]] \in Tree
        /\ [prepared EXCEPT ![c.path] = Absent, ![c.from] = baseline.text[c.from]] \in Tree
    BY <1>1, <1>2, <1>3 DEF Tree
  <1> QED BY <1>1, <1>2, <1>4 DEF Discarded, Restored

\* Every step keeps the shapes.
LEMMA NextSInv ==
  ASSUME SInv, [Next]_vars
  PROVE  SInv'
  <1> USE DEF SInv
  <1>1. ASSUME NEW ps \in SUBSET Paths, Writing(ps)
        PROVE  SInv'
    <2>1. moves' \in [Paths -> 0 .. 2] /\ touched' \subseteq Paths
      BY <1>1 DEF Writing, Written, Typed
    <2>2. Typed'
      BY <1>1, <2>1 DEF Writing, Typed, panel
    <2>3. Reviewed' /\ Placed'
      BY <1>1 DEF Writing, Reviewed, Placed, panel, call
    <2> QED BY <2>2, <2>3
  <1>2. CASE Elsewhere
    BY <1>2 DEF Elsewhere, Typed, Reviewed, Placed, panel, call, observers
  <1>3. CASE CaptureScan
    <2>1. review.changes = {} /\ shown.changes = {} /\ opened.changes = {}
      BY <1>3 DEF CaptureScan, Placed
    <2>2. Reviewed'
      BY <1>3, <2>1, Empty DEF CaptureScan, Reviewed, panel
    <2>3. Placed'
      BY <1>3 DEF CaptureScan, Placed, panel, call
    <2>4. Typed'
      BY <1>3 DEF CaptureScan, Typed, trees, panel, observers, Reps
    <2> QED BY <2>2, <2>3, <2>4
  <1>4. CASE CaptureSources
    <2>1. /\ baseline'.text = baseline.text /\ baseline'.rep = baseline.rep
          /\ baseline' = [text |-> baseline'.text, rep |-> baseline'.rep, hash |-> baseline'.hash,
                          dirty |-> baseline'.dirty]
      BY <1>4 DEF CaptureSources, Typed
    <2>2. review.changes = {} /\ shown.changes = {} /\ opened.changes = {}
      BY <1>4 DEF CaptureSources, Placed
    <2>3. Reviewed'
      BY <1>4, <2>2, Empty DEF CaptureSources, Reviewed, panel
    <2>4. Placed'
      BY <1>4 DEF CaptureSources, Placed, panel, call, Deciding
    <2>5. Typed'
      BY <1>4, <2>1 DEF CaptureSources, Typed, trees, panel, observers
    <2> QED BY <2>3, <2>4, <2>5
  <1>5. CASE Open
    BY <1>5 DEF Open, Typed, Reviewed, Placed, trees, panel, call, observers, Deciding
  <1>6. CASE Close
    BY <1>6, ClosedSInv DEF Close, trees
  <1>7. CASE Scan
    <2>1. /\ review'.changes = Changes /\ review'.live = TRUE /\ Shaped(review')
      BY <1>7 DEF Scan, NoReview, Shaped
    <2>2. Consistent(Changes, baseline)
      BY Scanned
    <2>3. moves' \in [Paths -> 0 .. 2] /\ touched' \subseteq Paths /\ known' \subseteq Paths
      BY <1>7 DEF Scan, Typed
    <2>4. Typed'
      BY <1>7, <2>1, <2>3 DEF Scan, Typed, trees, panel
    <2>5. Reviewed'
      BY <1>7, <2>1, <2>2 DEF Scan, Reviewed, panel
    <2>6. Placed'
      BY <1>7, <2>1 DEF Scan, Placed, panel, call
    <2> QED BY <2>4, <2>5, <2>6
  <1>8. CASE Validate
    <2>1. review'.changes = review.changes /\ review'.live = review.live /\ Shaped(review')
      BY <1>8 DEF Validate, Typed, Shaped
    <2>2. Typed'
      BY <1>8, <2>1 DEF Validate, Typed, trees, panel, observers
    <2>3. Reviewed'
      BY <1>8, <2>1 DEF Validate, Reviewed, panel
    <2>4. Placed'
      BY <1>8, <2>1 DEF Validate, Placed, panel, call, Deciding
    <2> QED BY <2>2, <2>3, <2>4
  <1>9. CASE ReadHunks
    <2>1. review'.changes = review.changes /\ review'.live = review.live /\ Shaped(review')
      BY <1>9 DEF ReadHunks, Typed, Shaped
    <2>2. review.live
      BY <1>9 DEF ReadHunks, Placed
    <2>3. /\ shown' = review' \/ shown' = shown
          /\ opened' = review' \/ opened' = opened
      BY <1>9 DEF ReadHunks, panel
    <2>4. Typed'
      BY <1>9, <2>1, <2>3 DEF ReadHunks, Typed, trees, observers
    <2>5. Reviewed'
      BY <1>9, <2>1, <2>3 DEF ReadHunks, Reviewed
    <2>6. Placed'
      BY <1>9, <2>1, <2>2 DEF ReadHunks, Placed, panel, call, Deciding
    <2> QED BY <2>4, <2>5, <2>6
  <1>10. CASE Click
    BY <1>10 DEF Click, Typed, Reviewed, Placed, trees, panel, call, observers, Deciding
  <1>11. CASE Confirm
    BY <1>11 DEF Confirm, Typed, Reviewed, Placed, trees, panel, call, observers, Deciding
  <1>12. CASE NothingLeft
    BY <1>12 DEF NothingLeft, Typed, Reviewed, Placed, trees, panel, call, observers, Deciding
  <1>13. CASE Decline
    BY <1>13 DEF Decline, Typed, Reviewed, Placed, trees, panel, call, observers, Deciding
  <1>14. CASE ConfirmFiles
    BY <1>14 DEF ConfirmFiles, Typed, Reviewed, Placed, trees, panel, call, observers, Deciding
  <1>15. ASSUME Refuse, at \in Deciding
         PROVE  SInv'
    BY <1>15 DEF Refuse, Typed, Reviewed, Placed, trees, panel, call, observers, Deciding
  <1>16. CASE Check
    BY <1>15, <1>16 DEF Check, Typed, Reviewed, Placed, trees, panel, call, observers, Deciding
  <1>17. CASE Recheck
    BY <1>15, <1>17 DEF Recheck, Typed, Reviewed, Placed, trees, panel, call, observers, Deciding
  <1>18. CASE Materialize
    BY <1>15, <1>18
       DEF Materialize, Typed, Reviewed, Placed, trees, panel, call, observers, Deciding
  <1>19. CASE FinalReview
    BY <1>15, <1>19
       DEF FinalReview, Typed, Reviewed, Placed, trees, panel, call, observers, Deciding
  <1>20. CASE Apply
    <2>1. CASE \A c \in overlay : Preflight(c)
      BY <1>20, <2>1, ClosedSInv DEF Apply
    <2>2. CASE ~(\A c \in overlay : Preflight(c))
      BY <1>15, <1>20, <2>2 DEF Apply, Deciding
    <2> QED BY <2>1, <2>2
  <1>21. CASE BeginDiscard
    BY <1>21 DEF BeginDiscard, Typed, Reviewed, Placed, trees, panel, call, observers, Deciding
  <1>22. CASE DiscardNext
    <2>1. PICK c \in left : /\ prepared' = Discarded(c) /\ left' = left \ {c}
                           /\ (at' = at \/ at' = "choose")
      BY <1>22 DEF DiscardNext
    <2>2. prepared' \in Tree
      BY <1>22, <2>1, DiscardedTree DEF DiscardNext, Placed
    <2>3. Typed'
      BY <1>22, <2>2 DEF DiscardNext, Typed, panel, observers
    <2>4. Reviewed'
      BY <1>22 DEF DiscardNext, Reviewed, panel
    <2>5. Placed'
      BY <1>22, <2>1 DEF DiscardNext, Placed, panel, call, Deciding
    <2> QED BY <2>3, <2>4, <2>5
  <1>23. CASE DiscardEnds
    BY <1>23, ClosedSInv DEF DiscardEnds, trees
  <1> QED
    BY <1>1, <1>2, <1>3, <1>4, <1>5, <1>6, <1>7, <1>8, <1>9, <1>10, <1>11, <1>12, <1>13, <1>14,
       <1>16, <1>17, <1>18, <1>19, <1>20, <1>21, <1>22, <1>23, Steps
       DEF Reviewing, Selecting, ApplySteps, Discarding

-----------------------------------------------------------------------------
(* Discard.                                                                *)

\* A session starts with nothing discarded.
LEMMA InitDInv == Init => DInv
  <1> SUFFICES ASSUME Init PROVE DInv
    OBVIOUS
  <1>1. KnownStay /\ Passed
    BY DEF Init, KnownStay, Passed, Showing, NoReview
  <1> QED BY <1>1, InitSInv DEF DInv

\* A step that leaves the tree and the review of the handler alone.
LEMMA StaysOpen ==
  ASSUME DInv, opened.live, at' # "discard", UNCHANGED <<prepared, baseline, opened, touched, known>>
  PROVE  KnownStay' /\ Passed'
BY DEF DInv, KnownStay, Passed, Showing, Held

\* A step after which no review is held.
LEMMA NothingHeld ==
  ASSUME ~opened'.live, ~(at' = "show" /\ stage' # "scan"), at' # "discard"
  PROVE  KnownStay' /\ Passed'
BY DEF KnownStay, Passed, Showing

\* What discarding a change does to the tree.
LEMMA DiscardedAt ==
  ASSUME SInv, NEW c \in opened.changes, c.rep # "background-artifact"
  PROVE  /\ Restorable(c) => /\ Discarded(c)[c.path] = baseline.text[c.path]
                             /\ Discarded(c)[c.from] = baseline.text[c.from]
         /\ \A p \in Paths \ {c.path, c.from} : Discarded(c)[p] = prepared[p]
         /\ \A p \in Paths : prepared[p] # Absent /\ Discarded(c)[p] = Absent =>
              p = c.path /\ baseline.text[p] = Absent
  <1>1. prepared \in Tree /\ baseline.text \in Tree
    BY DEF SInv, Typed
  <1>2. c.path \in Paths /\ c.from \in Paths
    BY DiscardedTree
  <1>3. WellFormed(c, baseline)
    BY DEF SInv, Reviewed, Consistent
  <1>4. c.kind \in Kinds
    BY <1>3 DEF WellFormed, ChangeSet
  <1>5. CASE c.kind = "added"
    <2>1. Discarded(c) = [prepared EXCEPT ![c.path] = Absent]
      BY <1>5 DEF Discarded, Restorable, Restored
    <2>2. c.from = c.path /\ baseline.text[c.path] = Absent
      BY <1>3, <1>5 DEF WellFormed
    <2> QED BY <1>1, <1>2, <2>1, <2>2 DEF Tree
  <1>6. CASE c.kind = "renamed"
    <2>1. baseline.text[c.path] = Absent /\ baseline.text[c.from] # Absent /\ c.path # c.from
      BY <1>3, <1>6 DEF WellFormed
    <2>2. CASE Restorable(c)
      <3>1. Discarded(c) = [prepared EXCEPT ![c.path] = Absent, ![c.from] = baseline.text[c.from]]
        BY <1>6, <2>2 DEF Discarded, Restored
      <3> QED BY <1>1, <1>2, <2>1, <3>1 DEF Tree
    <2>3. CASE ~Restorable(c)
      <3>1. Discarded(c) = [prepared EXCEPT ![c.path] = Absent]
        BY <2>3 DEF Discarded
      <3> QED BY <1>1, <1>2, <2>1, <2>3, <3>1 DEF Tree
    <2> QED BY <2>2, <2>3
  <1>7. CASE c.kind \in {"deleted", "modified"}
    <2>1. baseline.text[c.path] # Absent /\ c.from = c.path /\ c.rep = baseline.rep[c.path]
      BY <1>3, <1>7 DEF WellFormed
    <2>2. Restorable(c)
      BY <2>1 DEF Restorable, Kept
    <2>3. Discarded(c) = [prepared EXCEPT ![c.from] = baseline.text[c.from]]
      BY <1>7, <2>2 DEF Discarded, Restored
    <2> QED BY <1>1, <1>2, <2>1, <2>3 DEF Tree
  <1> QED BY <1>4, <1>5, <1>6, <1>7 DEF Kinds

\* Every step keeps what the discard relies on.
LEMMA NextDInv ==
  ASSUME DInv, [Next]_vars
  PROVE  DInv'
  <1> USE DEF DInv
  <1>1. SInv'
    BY NextSInv
  <1> SUFFICES KnownStay' /\ Passed'
    BY <1>1
  <1>2. ASSUME NEW ps \in SUBSET Paths, Writing(ps)
        PROVE  KnownStay' /\ Passed'
    <2>1. Showing \/ at = "discard" => touched' = touched \cup ps
      BY <1>2 DEF Writing, Written, Showing, Placed, SInv
    <2>2. KnownStay'
      BY <1>2, <2>1 DEF Writing, KnownStay, Showing, Held, SInv, Typed, panel
    <2>3. ASSUME at = "discard", NEW c \in opened.changes \ left, c.rep # "background-artifact",
                 {c.path, c.from} \cap touched' = {}
          PROVE  prepared'[c.path] = baseline.text[c.path] /\ prepared'[c.from] = baseline.text[c.from]
      <3>1. c.path \in Paths \ ps /\ c.from \in Paths \ ps /\ {c.path, c.from} \cap touched = {}
        BY <2>1, <2>3, DiscardedTree DEF SInv
      <3>2. prepared[c.path] = baseline.text[c.path] /\ prepared[c.from] = baseline.text[c.from]
        BY <2>3, <3>1 DEF Passed
      <3> QED BY <1>2, <3>1, <3>2 DEF Writing
    <2>4. Passed'
      BY <1>2, <2>3 DEF Writing, Passed, panel, call
    <2> QED BY <2>2, <2>4
  <1>3. CASE Elsewhere
    BY <1>3 DEF Elsewhere, KnownStay, Passed, Showing, Held, panel, call, observers
  <1>4. CASE CaptureScan \/ CaptureSources
    BY <1>4, NothingHeld DEF CaptureScan, CaptureSources, SInv, Placed, panel
  <1>5. CASE Open
    <2>1. CASE opened.live
      BY <1>5, <2>1, StaysOpen DEF Open, trees, panel, observers
    <2>2. CASE ~opened.live
      BY <1>5, <2>2, NothingHeld DEF Open, panel
    <2> QED BY <2>1, <2>2
  <1>6. CASE Closed
    BY <1>6, NothingHeld DEF Closed, NoReview
  <1>7. CASE Scan
    <2>1. CASE opened.live
      BY <1>7, <2>1, StaysOpen DEF Scan, trees, panel
    <2>2. CASE ~opened.live
      <3>1. at = "show" /\ known' = {p \in records : prepared[p] # Absent}
        BY <1>7, <2>2 DEF Scan, SInv, Placed
      <3>2. review'.changes = Changes /\ prepared' = prepared /\ baseline' = baseline
        BY <1>7 DEF Scan, NoReview, trees
      <3>3. \A c \in Changes : c.path \in records => baseline.text[c.path] # Absent
        BY Scanned DEF SInv
      <3>4. KnownStay'
        BY <1>7, <2>2, <3>1, <3>2, <3>3 DEF Scan, KnownStay, Showing, Held, panel
      <3>5. Passed'
        BY <1>7 DEF Scan, Passed
      <3> QED BY <3>4, <3>5
    <2> QED BY <2>1, <2>2
  <1>8. CASE Validate
    <2>1. CASE opened.live
      BY <1>8, <2>1, StaysOpen DEF Validate, trees, panel, observers
    <2>2. CASE ~opened.live
      <3>1. at = "show" /\ at' = "show" /\ review'.changes = review.changes
        BY <1>8, <2>2 DEF Validate, SInv, Placed, Typed, Shaped
      <3> QED
        BY <1>8, <2>2, <3>1
           DEF Validate, KnownStay, Passed, Showing, Held, trees, panel, observers
    <2> QED BY <2>1, <2>2
  <1>9. CASE ReadHunks
    <2>1. CASE opened.live
      BY <1>9, <2>1, StaysOpen DEF ReadHunks, trees, panel, observers
    <2>2. CASE ~opened.live
      <3>1. at = "show" /\ at' = "choose" /\ review'.changes = review.changes /\ opened' = review'
        BY <1>9, <2>2 DEF ReadHunks, SInv, Placed, Typed, Shaped
      <3>2. review'.live
        BY <1>9 DEF ReadHunks, SInv, Placed, Typed, Shaped
      <3> QED
        BY <1>9, <2>2, <3>1, <3>2
           DEF ReadHunks, KnownStay, Passed, Showing, Held, trees, observers
    <2> QED BY <2>1, <2>2
  <1>10. CASE Selecting
    BY <1>10, StaysOpen
       DEF Selecting, Click, Confirm, NothingLeft, Decline, ConfirmFiles, SInv, Placed, trees,
          panel,
           observers
  <1>11. ASSUME Refuse, at \in Deciding
         PROVE  KnownStay' /\ Passed'
    BY <1>11, StaysOpen DEF Refuse, SInv, Placed, Deciding, trees, panel, observers
  <1>12. CASE Check \/ Recheck \/ Materialize \/ FinalReview
    BY <1>11, <1>12, StaysOpen
       DEF Check, Recheck, Materialize, FinalReview, SInv, Placed, Deciding, trees, panel, observers
  <1>13. CASE Apply
    BY <1>6, <1>11, <1>13 DEF Apply, Deciding
  <1>14. CASE BeginDiscard
    <2>1. opened.live
      BY <1>14 DEF BeginDiscard, SInv, Placed
    <2>2. KnownStay'
      BY <1>14, <2>1 DEF BeginDiscard, KnownStay, Showing, Held, trees, panel, observers
    <2>3. Passed'
      BY <1>14 DEF BeginDiscard, Passed, panel
    <2> QED BY <2>2, <2>3
  <1>15. CASE DiscardNext
    <2>1. PICK c \in left : /\ prepared' = Discarded(c) /\ left' = left \ {c}
                            /\ at' = "discard" => \/ c.rep = "background-artifact"
                                                  \/ Restorable(c)
      BY <1>15 DEF DiscardNext
    <2>2. c \in opened.changes /\ opened.live /\ at = "discard"
      BY <1>15 DEF DiscardNext, SInv, Placed
    <2>3. opened' = opened /\ baseline' = baseline /\ touched' = touched /\ known' = known
      BY <1>15 DEF DiscardNext, panel, observers
    <2>4. known \subseteq Paths
      BY DEF SInv, Typed
    <2>5. CASE c.rep = "background-artifact"
      <3>1. prepared' = prepared
        BY <2>1, <2>5 DEF Discarded
      <3>2. KnownStay'
        BY <2>2, <2>3, <3>1 DEF KnownStay, Showing, Held
      <3>3. Passed'
        BY <2>1, <2>2, <2>3, <2>5, <3>1 DEF Passed
      <3> QED BY <3>2, <3>3
    <2>6. CASE c.rep # "background-artifact"
      <3>1. \A p \in known \ touched : prepared[p] # Absent
        BY <2>2 DEF KnownStay, Showing
      <3>2. c.path \in known => baseline.text[c.path] # Absent
        BY <2>2 DEF KnownStay, Showing, Held
      <3>3. \A p \in known \ touched : prepared'[p] # Absent
        BY <2>1, <2>2, <2>4, <2>6, <3>1, <3>2, DiscardedAt
      <3>4. KnownStay'
        BY <2>2, <2>3, <3>3 DEF KnownStay, Showing, Held
      <3>5. ASSUME at' = "discard", NEW d \in opened.changes \ left', d.rep # "background-artifact",
                   {d.path, d.from} \cap touched = {}
            PROVE  /\ prepared'[d.path] = baseline.text[d.path]
                   /\ prepared'[d.from] = baseline.text[d.from]
        <4>1. CASE d = c
          BY <2>1, <2>2, <2>6, <3>5, <4>1, DiscardedAt
        <4>2. CASE d # c
          <5>1. d \notin left
            BY <2>1, <3>5, <4>2
          <5>2. prepared[d.path] = baseline.text[d.path] /\ prepared[d.from] = baseline.text[d.from]
            BY <2>2, <3>5, <5>1 DEF Passed
          <5>3. {c.path, c.from} \cap {d.path, d.from} = {}
            BY <2>2, <4>2 DEF SInv, Reviewed, Consistent
          <5>4. d.path \in Paths \ {c.path, c.from} /\ d.from \in Paths \ {c.path, c.from}
            BY <5>3, DiscardedTree
          <5> QED BY <2>1, <2>2, <2>6, <5>2, <5>4, DiscardedAt
        <4> QED BY <4>1, <4>2
      <3>6. Passed'
        BY <2>3, <3>5 DEF Passed
      <3> QED BY <3>4, <3>6
    <2> QED BY <2>5, <2>6
  <1> QED
    BY <1>1, <1>2, <1>3, <1>4, <1>5, <1>6, <1>7, <1>8, <1>9, <1>10, <1>12, <1>13, <1>14, <1>15,
       Steps
       DEF SInv, Reviewing, ApplySteps, Discarding, Close, DiscardEnds

-----------------------------------------------------------------------------
(* Apply.                                                                  *)

\* A session starts with nothing decided.
LEMMA InitAInv == Init => AInv
  <1> SUFFICES ASSUME Init PROVE AInv
    OBVIOUS
  <1>1. Noticed /\ HunksFound /\ Agreed /\ Overlaid
    BY DEF Init, Noticed, HunksFound, Agreed, Overlaid, Deciding
  <1> QED BY <1>1, InitSInv DEF AInv

\* A step after which no call is under way that has made its review.
LEMMA NothingDecided ==
  ASSUME at' \notin Deciding, ~(at' = "call" /\ stage' # "scan")
  PROVE  Noticed' /\ HunksFound' /\ Agreed' /\ Overlaid'
BY DEF Noticed, HunksFound, Agreed, Overlaid, Deciding

\* No hunk of a text against itself, and a merge without hunks is the text.
LEMMA NoHunks ==
  ASSUME NEW text \in Text, text # Absent
  PROVE  Hunks(text, text) = {} /\ Merge(text, {}) = text
  <1>1. Hunks(text, text) = {}
    BY DEF Hunks
  <1>2. Merge(text, {}) = [i \in DOMAIN text |-> text[i]]
    BY DEF Merge
  <1>3. text = [i \in DOMAIN text |-> text[i]]
    BY DEF Text
  <1> QED BY <1>1, <1>2, <1>3

\* If the tree has the identity of the review, its files have the texts of the review.
LEMMA SameTexts ==
  ASSUME Typed, Identity(Changes) = Identity(review.changes)
  PROVE  \A c \in review.changes : prepared[c.path] = c.after
  <1>1. SUFFICES ASSUME NEW c \in review.changes PROVE prepared[c.path] = c.after
    OBVIOUS
  <1>2. [path |-> c.path, kind |-> c.kind, before |-> c.before, after |-> c.after] \in Identity(Changes)
    BY DEF Identity
  <1>3. PICK d \in Changes :
          [path |-> c.path, kind |-> c.kind, before |-> c.before, after |-> c.after]
            = [path |-> d.path, kind |-> d.kind, before |-> d.before, after |-> d.after]
    BY <1>2 DEF Identity
  <1>4. c.path = d.path /\ c.after = d.after
    BY <1>3
  <1>5. d.after = prepared[d.path]
    BY Scanned
  <1> QED BY <1>4, <1>5

\* A candidate is a change with the ticked hunks, the reviewed text, or one written since.
LEMMA CandidateForm ==
  ASSUME SInv, Noticed, at = "materialize", Materializable, NEW o \in Candidates
  PROVE  \E c \in review.changes :
           /\ Copies(o, c) /\ c.path \in request.picked
           /\ c.kind = "deleted" => o.after = Absent
           /\ c.kind # "deleted" /\ c.path \in DOMAIN request.hunks =>
                o.after = Merge(baseline.text[c.from], request.hunks[c.path])
           /\ c.kind = "renamed" \/ (c.path \notin DOMAIN request.hunks /\ o.after # c.after) =>
                moves[c.path] >= 1 /\ prepared[c.path] # c.after
  <1>1. PICK c \in Chosen : /\ o = [c EXCEPT !.after = Candidate(c)]
                            /\ c.kind = "deleted" \/ Candidate(c) # c.before
    BY DEF Candidates
  <1>2. c \in review.changes /\ c.path \in request.picked
    BY DEF Chosen
  <1>3. WellFormed(c, baseline)
    BY <1>2 DEF SInv, Reviewed, Consistent
  <1>4. c \in ChangeSet
    BY <1>3 DEF WellFormed
  <1>5. Copies(o, c) /\ o.after = Candidate(c)
    BY <1>1, <1>4 DEF Copies, ChangeSet
  <1>6. c.kind = "deleted" => o.after = Absent
    BY <1>5 DEF Candidate
  <1>7. c.kind # "deleted" /\ c.path \in DOMAIN request.hunks =>
          o.after = Merge(baseline.text[c.from], request.hunks[c.path])
    BY <1>5 DEF Candidate
  <1>8. prepared[c.path] # c.after => moves[c.path] >= 1
    BY <1>2 DEF Noticed, Deciding
  <1>9. ASSUME c.path \notin DOMAIN request.hunks, o.after # c.after
        PROVE  prepared[c.path] # c.after
    BY <1>3, <1>5, <1>6, <1>9 DEF Candidate, WellFormed
  <1>10. ASSUME c.kind = "renamed", prepared[c.path] = c.after
         PROVE  FALSE
    <2>1. /\ c.after = c.before /\ c.before = baseline.text[c.from] /\ c.before # Absent
          /\ c.kind # "deleted" /\ c.kind # "added"
      BY <1>3, <1>10 DEF WellFormed
    <2>2. Candidate(c) # c.before
      BY <1>1, <2>1
    <2>3. c.path \in DOMAIN request.hunks
      BY <1>10, <2>1, <2>2 DEF Candidate
    <2>4. Kept(c.from) # Absent /\ request.hunks[c.path] \subseteq Hunks(OldText(c), prepared[c.path])
      BY <2>1, <2>3 DEF Materializable
    <2>5. OldText(c) = c.before
      BY <2>1, <2>4 DEF OldText, Kept
    <2>6. c.before \in Text
      BY <1>4 DEF ChangeSet
    <2>7. request.hunks[c.path] = {}
      BY <1>10, <2>1, <2>4, <2>5, <2>6, NoHunks
    <2>8. Candidate(c) = c.before
      BY <2>1, <2>3, <2>6, <2>7, NoHunks DEF Candidate
    <2> QED BY <2>2, <2>8
  <1> QED BY <1>2, <1>5, <1>6, <1>7, <1>8, <1>9, <1>10

\* Every step keeps what the apply relies on.
LEMMA NextAInv ==
  ASSUME AInv, [Next]_vars
  PROVE  AInv'
  <1> USE DEF AInv
  <1>1. SInv'
    BY NextSInv
  <1> SUFFICES Noticed' /\ HunksFound' /\ Agreed' /\ Overlaid'
    BY <1>1
  <1>2. \A c \in review.changes : c.path \in Paths
    BY DEF SInv, Reviewed, Consistent, WellFormed, ChangeSet
  <1>3. ASSUME NEW ps \in SUBSET Paths, Writing(ps)
        PROVE  Noticed' /\ HunksFound' /\ Agreed' /\ Overlaid'
    <2>1. /\ at' = at /\ stage' = stage /\ review' = review /\ baseline' = baseline
          /\ request' = request /\ overlay' = overlay
      BY <1>3 DEF Writing, call
    <2>2. moves \in [Paths -> 0 .. 2]
      BY DEF SInv, Typed
    <2>3. \A p \in Paths \ ps : prepared'[p] = prepared[p] /\ moves'[p] = moves[p]
      BY <1>3, <2>2 DEF Writing, Written
    <2>4. at \in Calls => \A p \in ps : moves'[p] = IF moves[p] < 2 THEN moves[p] + 1 ELSE moves[p]
      BY <1>3, <2>2 DEF Writing, Written
    <2>5. at \in Deciding => at \in Calls
      BY DEF Deciding, Calls
    <2>6. Noticed'
      <3>1. SUFFICES ASSUME at \in Deciding \/ (at = "call" /\ stage # "scan"),
                            NEW c \in review.changes, prepared'[c.path] # c.after
                     PROVE  moves'[c.path] >= 1
        BY <2>1 DEF Noticed, Deciding
      <3>2. CASE c.path \in ps
        <4>1. moves[c.path] \in 0 .. 2 /\ at \in Calls
          BY <1>2, <2>2, <2>5, <3>1 DEF Calls
        <4> QED BY <2>4, <3>2, <4>1
      <3>3. CASE c.path \notin ps
        <4>1. prepared'[c.path] = prepared[c.path] /\ moves'[c.path] = moves[c.path]
          BY <1>2, <2>3, <3>3
        <4> QED BY <3>1, <4>1 DEF Noticed
      <3> QED BY <3>2, <3>3
    <2>7. HunksFound' /\ Agreed'
      BY <2>1 DEF HunksFound, Agreed, Identity
    <2>8. Overlaid'
      <3>1. SUFFICES ASSUME at \in {"final", "apply"}, NEW o \in overlay
                     PROVE  \E c \in review.changes : Candidacy(o, c)'
        BY <2>1 DEF Overlaid
      <3>2. PICK c \in review.changes : Candidacy(o, c)
        BY <3>1 DEF Overlaid
      <3>3. Moved(c) => Moved(c)'
        <4>1. c.path \in Paths /\ moves[c.path] \in 0 .. 2 /\ at \in Calls
          BY <1>2, <2>2, <3>1 DEF Calls
        <4>2. CASE c.path \in ps
          BY <2>1, <2>4, <4>1, <4>2 DEF Moved
        <4>3. CASE c.path \notin ps
          BY <2>1, <2>3, <4>1, <4>3 DEF Moved
        <4> QED BY <4>2, <4>3
      <3>4. Candidacy(o, c)'
        BY <2>1, <3>2, <3>3 DEF Candidacy, Copies
      <3> QED BY <3>4
    <2> QED BY <2>6, <2>7, <2>8
  <1>4. CASE Elsewhere
    BY <1>4
       DEF Elsewhere, Noticed, HunksFound, Agreed, Overlaid, Candidacy, Copies, Moved, Identity,
            panel, call, observers
  <1>5. CASE CaptureScan \/ CaptureSources \/ Open \/ Close
    BY <1>5, NothingDecided DEF CaptureScan, CaptureSources, Open, Close, Closed, Deciding
  <1>6. CASE Scan
    <2>1. CASE at = "call"
      <3>1. review'.changes = Changes /\ prepared' = prepared /\ at' = "call"
        BY <1>6, <2>1 DEF Scan, NoReview, trees
      <3>2. \A c \in Changes : c.after = prepared[c.path]
        BY Scanned DEF SInv
      <3>3. Noticed'
        BY <3>1, <3>2 DEF Noticed
      <3>4. HunksFound' /\ Agreed' /\ Overlaid'
        BY <3>1 DEF HunksFound, Agreed, Overlaid, Deciding
      <3> QED BY <3>3, <3>4
    <2>2. CASE at # "call"
      BY <1>6, <2>2, NothingDecided DEF Scan, Deciding
    <2> QED BY <2>1, <2>2
  <1>7. CASE Validate
    <2>1. CASE at = "call"
      <3>1. review'.changes = review.changes
        BY <1>7 DEF Validate, SInv, Typed, Shaped
      <3>2. Noticed'
        BY <1>7, <2>1, <3>1 DEF Validate, Noticed, trees, observers
      <3>3. HunksFound' /\ Agreed' /\ Overlaid'
        BY <1>7, <2>1 DEF Validate, HunksFound, Agreed, Overlaid, Deciding
      <3> QED BY <3>2, <3>3
    <2>2. CASE at # "call"
      BY <1>7, <2>2, NothingDecided DEF Validate, Deciding
    <2> QED BY <2>1, <2>2
  <1>8. CASE ReadHunks
    <2>1. CASE at = "call"
      <3>1. /\ review'.changes = review.changes /\ at' = "check" /\ prepared' = prepared
            /\ moves' = moves /\ stage = "hunks"
        BY <1>8, <2>1 DEF ReadHunks, SInv, Typed, Shaped, trees, observers
      <3>2. review'.hunks = [p \in Paths |->
              UNION {Hunks(OldText(c), prepared[p]) :
                       c \in {d \in review.changes : d.path = p /\ Hunked(d)}}]
        BY <1>8 DEF ReadHunks, SInv, Typed, Shaped
      <3>3. Noticed'
        BY <2>1, <3>1 DEF Noticed, Deciding
      <3>4. \A p \in Paths : review'.hunks[p] # {} =>
              \E c \in review.changes : c.path = p /\ c.kind # "deleted"
        BY <3>2 DEF Hunked
      <3>5. HunksFound'
        BY <3>1, <3>4 DEF HunksFound
      <3>6. Agreed' /\ Overlaid'
        BY <3>1 DEF Agreed, Overlaid
      <3> QED BY <3>3, <3>5, <3>6
    <2>2. CASE at # "call"
      BY <1>8, <2>2, NothingDecided DEF ReadHunks, Deciding
    <2> QED BY <2>1, <2>2
  <1>9. CASE Selecting
    BY <1>9, NothingDecided
       DEF Selecting, Click, Confirm, NothingLeft, Decline, ConfirmFiles, Deciding
  <1>10. CASE Refuse
    BY <1>10, NothingDecided DEF Refuse, Deciding
  <1>11. CASE Check
    <2>1. CASE Acceptable
      <3>1. /\ at = "check" /\ at' = "recheck" /\ request' = request /\ review' = review
            /\ prepared' = prepared /\ moves' = moves
        BY <1>11, <2>1 DEF Check, call, trees, observers
      <3>2. Noticed' /\ HunksFound' /\ Overlaid'
        BY <3>1 DEF Noticed, HunksFound, Overlaid, Deciding
      <3>3. Agreed'
        BY <2>1, <3>1 DEF Agreed, Acceptable, Identity
      <3> QED BY <3>2, <3>3
    <2> QED BY <1>10, <1>11, <2>1 DEF Check
  <1>12. CASE Recheck
    <2>1. CASE StillReviewed
      <3>1. /\ at = "recheck" /\ at' = "materialize" /\ request' = request /\ review' = review
            /\ prepared' = prepared /\ moves' = moves
        BY <1>12, <2>1 DEF Recheck, call, trees, observers
      <3>2. Noticed' /\ HunksFound' /\ Overlaid'
        BY <3>1 DEF Noticed, HunksFound, Overlaid, Deciding
      <3>3. Agreed'
        BY <3>1 DEF Agreed, Deciding, Identity
      <3> QED BY <3>2, <3>3
    <2> QED BY <1>10, <1>12, <2>1 DEF Recheck
  <1>13. CASE Materialize
    <2>1. CASE Materializable
      <3>1. /\ at = "materialize" /\ at' = "final" /\ request' = request /\ review' = review
            /\ prepared' = prepared /\ moves' = moves /\ overlay' = Candidates
            /\ baseline' = baseline
        BY <1>13, <2>1 DEF Materialize, trees, observers
      <3>2. Noticed' /\ HunksFound'
        BY <3>1 DEF Noticed, HunksFound, Deciding
      <3>3. Agreed'
        BY <3>1 DEF Agreed, Deciding, Identity
      <3>4. ASSUME NEW o \in Candidates
            PROVE  \E c \in review.changes : Candidacy(o, c)'
        <4>1. PICK c \in review.changes :
                /\ Copies(o, c) /\ c.path \in request.picked
                /\ c.kind = "deleted" => o.after = Absent
                /\ c.kind # "deleted" /\ c.path \in DOMAIN request.hunks =>
                     o.after = Merge(baseline.text[c.from], request.hunks[c.path])
                /\ c.kind = "renamed" \/ (c.path \notin DOMAIN request.hunks /\ o.after # c.after) =>
                     moves[c.path] >= 1 /\ prepared[c.path] # c.after
          BY <2>1, <3>1, CandidateForm
        <4>2. moves[c.path] >= 1 /\ prepared[c.path] # c.after => Moved(c)'
          BY <3>1 DEF Moved
        <4>3. Candidacy(o, c)'
          BY <3>1, <4>1, <4>2 DEF Candidacy, Copies
        <4> QED BY <4>3
      <3>5. Overlaid'
        BY <3>1, <3>4 DEF Overlaid
      <3> QED BY <3>2, <3>3, <3>5
    <2> QED BY <1>10, <1>13, <2>1 DEF Materialize
  <1>14. CASE FinalReview
    <2>1. CASE FinallyReviewed
      <3>1. /\ at = "final" /\ at' = "apply" /\ request' = request /\ review' = review
            /\ prepared' = prepared /\ moves' = moves /\ overlay' = overlay
            /\ baseline' = baseline
        BY <1>14, <2>1 DEF FinalReview, call, trees, observers
      <3>2. Noticed' /\ HunksFound'
        BY <3>1 DEF Noticed, HunksFound, Deciding
      <3>3. Agreed'
        BY <3>1 DEF Agreed, Deciding, Identity
      <3>4. ASSUME NEW o \in overlay
            PROVE  \E c \in review.changes : Candidacy(o, c)'
        <4>1. PICK c \in review.changes : Candidacy(o, c)
          BY <3>1 DEF Overlaid
        <4>2. prepared[c.path] = c.after
          BY <2>1, SameTexts DEF FinallyReviewed, SInv
        <4>3. moves[c.path] \in 0 .. 2
          BY <1>2 DEF SInv, Typed
        <4>4. Moved(c) => Moved(c)'
          BY <3>1, <4>2, <4>3 DEF Moved
        <4>5. Candidacy(o, c)'
          BY <3>1, <4>1, <4>4 DEF Candidacy, Copies
        <4> QED BY <4>5
      <3>5. Overlaid'
        BY <3>1, <3>4 DEF Overlaid
      <3> QED BY <3>2, <3>3, <3>5
    <2> QED BY <1>10, <1>14, <2>1 DEF FinalReview
  <1>15. CASE Apply
    <2>1. CASE \A c \in overlay : Preflight(c)
      BY <1>15, <2>1, NothingDecided DEF Apply, Closed, Deciding
    <2> QED BY <1>10, <1>15, <2>1 DEF Apply
  <1>16. CASE Discarding
    BY <1>16, NothingDecided
       DEF Discarding, BeginDiscard, DiscardNext, DiscardEnds, Closed, Deciding
  <1> QED
    BY <1>3, <1>4, <1>5, <1>6, <1>7, <1>8, <1>9, <1>11, <1>12, <1>13, <1>14, <1>15, <1>16, Steps
       DEF SInv, Reviewing, ApplySteps

-----------------------------------------------------------------------------
(* What is applied.                                                        *)

\* An apply that goes through wrote what its preflight let pass.
LEMMA ApplyingStep ==
  ASSUME Typed, [Next]_vars, Applying
  PROVE  (\A c \in overlay : Preflight(c)) /\ source' = Applied
  <1>1. Apply
    <2>1. ASSUME NEW ps \in SUBSET Paths, Writing(ps)
          PROVE  FALSE
      BY <2>1 DEF Writing, Applying
    <2>2. ~Elsewhere
      BY DEF Elsewhere, Applying
    <2>3. ~Reviewing
      BY DEF Reviewing, CaptureScan, CaptureSources, Open, Close, Scan, Validate, ReadHunks,
         Applying
    <2>4. ~Selecting
      BY DEF Selecting, Click, Confirm, NothingLeft, Decline, ConfirmFiles, Applying
    <2>5. ~Check /\ ~Recheck /\ ~Materialize /\ ~FinalReview
      BY DEF Check, Recheck, Materialize, FinalReview, Applying
    <2>6. ~Discarding
      BY DEF Discarding, BeginDiscard, DiscardNext, DiscardEnds, Applying
    <2> QED BY <2>1, <2>2, <2>3, <2>4, <2>5, <2>6, Steps DEF ApplySteps
  <1> QED BY <1>1 DEF Apply, Refuse, Applying

\* A candidate for the file of a change: what the preflight and the review say of it.
LEMMA OverlayFacts ==
  ASSUME AInv, at = "apply", NEW o \in overlay, Preflight(o)
  PROVE  \E c \in review.changes :
           /\ Candidacy(o, c) /\ WellFormed(c, baseline)
           /\ o.path \in Paths /\ source[o.path] = baseline.text[o.path]
           /\ source[o.from] = baseline.text[o.from]
           /\ o.kind = "renamed" => moves[o.path] = 2
           /\ o.path \notin DOMAIN request.hunks /\ o.after # c.after => moves[o.path] = 2
  <1>1. PICK c \in review.changes : Candidacy(o, c)
    BY DEF AInv, Overlaid
  <1>2. WellFormed(c, baseline) /\ c.path \in Paths
    BY DEF AInv, SInv, Reviewed, Consistent, WellFormed, ChangeSet
  <1>3. Copies(o, c) /\ source[o.from] = o.before
    BY <1>1 DEF Candidacy, Preflight
  <1>4. source[o.from] = baseline.text[o.from]
    BY <1>2, <1>3 DEF Copies, WellFormed
  <1>5. source[o.path] = baseline.text[o.path]
    BY <1>2, <1>3, <1>4 DEF Preflight, Copies, WellFormed
  <1>6. /\ o.kind = "renamed" => moves[o.path] = 2
        /\ o.path \notin DOMAIN request.hunks /\ o.after # c.after => moves[o.path] = 2
    BY <1>1, <1>3 DEF Candidacy, Copies, Moved
  <1> QED BY <1>1, <1>2, <1>3, <1>4, <1>5, <1>6 DEF Copies

\* An apply that goes through changes nothing but what was confirmed.
LEMMA ApplyConfirms ==
  ASSUME AInv, [Next]_vars, Applying, NEW p \in Paths, source'[p] # source[p]
  PROVE  /\ source[p] = baseline.text[p]
         /\ source[p] # Absent /\ Ticked(p) => source'[p] = Merge(baseline.text[p], request.hunks[p])
         /\ Quiet =>
              /\ p \in request.picked
              /\ source[p] # Absent => baseline.rep[p] = "full"
              /\ ~NewSecret(source[p], source'[p])
              /\ p \notin DOMAIN request.hunks =>
                   \E c \in request.expected : c.path = p /\ c.after = source'[p]
  <1>1. at = "apply" /\ (\A o \in overlay : Preflight(o)) /\ source' = Applied
    BY ApplyingStep DEF AInv, SInv, Applying
  <1>2. \A c, d \in review.changes : c # d => {c.path, c.from} \cap {d.path, d.from} = {}
    BY DEF AInv, SInv, Reviewed, Consistent
  <1>3. Ticked(p) => \E d \in review.changes : d.path = p /\ d.kind # "deleted"
    BY <1>1 DEF Ticked, AInv, Agreed, HunksFound, Deciding
  <1>4. CASE \E o \in overlay : o.path = p
    <2>1. PICK o \in overlay : o.path = p /\ source'[p] = o.after
      BY <1>1, <1>4 DEF Applied
    <2>2. PICK c \in review.changes :
            /\ Candidacy(o, c) /\ WellFormed(c, baseline)
            /\ source[o.path] = baseline.text[o.path]
            /\ o.kind = "renamed" => moves[o.path] = 2
            /\ o.path \notin DOMAIN request.hunks /\ o.after # c.after => moves[o.path] = 2
      BY <1>1, <2>1, OverlayFacts
    <2>3. /\ o.kind = c.kind /\ c.path = p /\ o.from = c.from /\ o.rep = c.rep
          /\ p \in request.picked
      BY <2>1, <2>2 DEF Candidacy, Copies
    <2>4. Quiet => c.kind # "renamed" /\ c.from = p
      BY <2>1, <2>2, <2>3 DEF Quiet, WellFormed
    <2>5. ASSUME source[p] # Absent, Ticked(p)
          PROVE  source'[p] = Merge(baseline.text[p], request.hunks[p])
      <3>1. c.kind # "renamed" /\ c.from = p
        BY <2>1, <2>2, <2>3, <2>5 DEF WellFormed
      <3>2. c.kind # "deleted"
        BY <1>2, <1>3, <2>3, <2>5
      <3>3. o.after = Merge(baseline.text[c.from], request.hunks[c.path])
        BY <2>2, <2>3, <2>5, <3>2 DEF Candidacy, Ticked
      <3> QED BY <2>1, <2>3, <3>1, <3>3
    <2>6. ASSUME Quiet, source[p] # Absent
          PROVE  baseline.rep[p] = "full"
      <3>1. o.rep = "full"
        BY <1>1 DEF Preflight
      <3> QED BY <2>1, <2>2, <2>3, <2>6, <3>1 DEF WellFormed
    <2>7. ASSUME Quiet
          PROVE  ~NewSecret(source[p], source'[p])
      BY <1>1, <2>1, <2>3, <2>4, <2>7 DEF Preflight
    <2>8. ASSUME Quiet, p \notin DOMAIN request.hunks
          PROVE  \E d \in request.expected : d.path = p /\ d.after = source'[p]
      <3>1. moves[p] # 2
        BY <2>3, <2>8 DEF Quiet
      <3>2. c.after = source'[p]
        BY <2>1, <2>2, <2>8, <3>1
      <3>3. [path |-> c.path, kind |-> c.kind, before |-> c.before, after |-> c.after]
              \in request.expected
        BY <1>1 DEF AInv, Agreed, Deciding, Identity
      <3> QED BY <2>3, <3>2, <3>3
    <2> QED BY <2>1, <2>2, <2>3, <2>5, <2>6, <2>7, <2>8
  <1>5. CASE ~(\E o \in overlay : o.path = p)
    <2>1. PICK o \in overlay : o.kind = "renamed" /\ o.from = p
      BY <1>1, <1>5 DEF Applied
    <2>2. PICK c \in review.changes :
            /\ Candidacy(o, c)
            /\ source[o.from] = baseline.text[o.from]
            /\ moves[o.path] = 2
      BY <1>1, <2>1, OverlayFacts
    <2>3. c.path = o.path /\ c.from = p /\ o.path \in request.picked
      BY <2>1, <2>2 DEF Candidacy, Copies
    <2>4. ~Quiet
      BY <2>2, <2>3 DEF Quiet
    <2>5. ~Ticked(p)
      <3>1. SUFFICES ASSUME Ticked(p) PROVE FALSE
        OBVIOUS
      <3>2. PICK d \in review.changes : d.path = p
        BY <1>3, <3>1
      <3>3. d = c
        BY <1>2, <2>3, <3>2
      <3> QED BY <1>5, <2>3, <3>2, <3>3
    <2> QED BY <2>1, <2>2, <2>4, <2>5
  <1> QED BY <1>4, <1>5

-----------------------------------------------------------------------------
(* Theorems.                                                               *)

\* The shapes hold always, with both halves of the strengthening.
THEOREM ReviewInvariant == Spec => [](DInv /\ AInv)
  <1>1. Init => DInv /\ AInv
    BY InitDInv, InitAInv
  <1>2. DInv /\ AInv /\ [Next]_vars => DInv' /\ AInv'
    BY NextDInv, NextAInv
  <1> QED BY <1>1, <1>2, PTL DEF Spec

\* What an apply changes is what was confirmed, over what the agent got.
THEOREM ReviewAppliedAsConfirmed == Spec => AppliedAsConfirmed
  <1>1. AInv /\ [Next]_vars =>
          [Applying =>
             \A p \in {f \in Paths : source'[f] # source[f]} :
               /\ source[p] = baseline.text[p]
               /\ source[p] # Absent /\ Ticked(p) =>
                    source'[p] = Merge(baseline.text[p], request.hunks[p])
               /\ Quiet =>
                    /\ p \in request.picked
                    /\ source[p] # Absent => baseline.rep[p] = "full"
                    /\ ~NewSecret(source[p], source'[p])
                    /\ p \notin DOMAIN request.hunks =>
                         \E c \in request.expected : c.path = p /\ c.after = source'[p]]_vars
    BY ApplyConfirms
  <1> QED BY <1>1, ReviewInvariant, PTL DEF Spec, AppliedAsConfirmed

\* A discard that goes through gives back what the agent got, and keeps the artifacts.
THEOREM ReviewDiscardRestores == Spec => []DiscardRestores
  <1>1. DInv => DiscardRestores
    <2>1. SUFFICES ASSUME DInv, at = "discard", left = {}
                   PROVE  DiscardRestores
      BY DEF DiscardRestores
    <2>2. opened.live
      BY <2>1 DEF DInv, SInv, Placed
    <2>3. \A p \in known \ touched : prepared[p] # Absent
      BY <2>1, <2>2 DEF DInv, KnownStay, Showing
    <2>4. \A c \in opened.changes :
            c.rep # "background-artifact" /\ {c.path, c.from} \cap touched = {} =>
              prepared[c.path] = baseline.text[c.path] /\ prepared[c.from] = baseline.text[c.from]
      BY <2>1 DEF DInv, Passed
    <2> QED BY <2>3, <2>4 DEF DiscardRestores
  <1> QED BY <1>1, ReviewInvariant, PTL
==============================================================================
