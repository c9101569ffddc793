--------------------------- MODULE PolicyDecision ---------------------------
(***************************************************************************)
(* How yuhi decides what becomes of a file: resolvePolicy                  *)
(* (packages/policy/src/resolve.ts), the rule matcher, the capability      *)
(* registry and the safety modes (core/src/safety-mode.ts).                *)
(*                                                                         *)
(* Rules are folded one per step, the most restrictive action wins; what   *)
(* a safety mode appends is merged on top; then the routes by file type    *)
(* have the last word. Init is the moment the scan has ended: content and  *)
(* findings of a file are what the scan read.                              *)
(*                                                                         *)
(* A definition marked "Mutant" is a plausible bug of the one after it.     *)
(***************************************************************************)
EXTENDS Naturals, Sequences

CONSTANTS
    Files,
    Workspaces,  \* what the scan may find: functions from Files to Kinds
    RuleNames,
    Policies     \* what yuhi.yaml may say: rules and defaults.action

Actions == {"allow", "metadata-only", "summarize-local", "redact", "prepare-locally", "inject",
            "local-only", "ask", "block"}
Modes == {"balanced", "strict", "maximum-privacy"}

\* What may be in a file: names and numbers of people; a credential (api-key); a token, a
\* private key or a database url, whose findings have categories of their own; a string of
\* high entropy beside a secret-like word, which is a finding of medium severity only.
Ingredients == {"names", "credential", "token", "entropy"}
Secrets == {"credential", "token", "entropy"}

\* name: a file name the code knows. size: beyond "small" the scan does not read the file,
\* "huge" does not fit into memory. legible: the parser or the document inspector succeeds.
Kinds == [type : {"text", "txt", "csv", "xlsx", "pdf", "office", "blob", "archive"},
          name : {"ordinary", "environment", "credentials", "private-key"},
          size : {"small", "large", "huge"}, legible : BOOLEAN, has : SUBSET Ingredients]

Detectors == Secrets \cup {"direct-identifiers", "malformed-table", "unparsed-workbook", "personal"}
Processors == {"redact-secrets", "pseudonymize", "pseudonymize-records", "sanitize-environment",
               "sanitize-credentials", "summarize-local", "safety-check"}

\* A rule of yuhi.yaml: the files its paths match, the detectors it names.
Rules == [name : RuleNames, on : SUBSET Files, detects : SUBSET Detectors, action : Actions,
          processors : SUBSET Processors]

ASSUME PolicyAssumption ==
    /\ Workspaces \subseteq [Files -> Kinds]
    /\ Policies \subseteq [rules : Seq(Rules), default : Actions]

VARIABLES
    file,     \* the kind of each file
    rules,    \* the base rules, in order
    default,  \* defaults.action
    next,     \* the rule to be looked at next
    folded    \* per file: action, winner and its processors after the rules before next

policyVars == <<file, rules, default, next, folded>>

-----------------------------------------------------------------------------
(* What the scan knows of a file.                                          *)

Rank == [a \in Actions |->
    CASE a = "allow" -> 0 [] a = "metadata-only" -> 1 [] a = "summarize-local" -> 2
      [] a = "redact" -> 3 [] a = "prepare-locally" -> 4 [] a = "inject" -> 5
      [] a = "local-only" -> 6 [] a = "ask" -> 7 [] a = "block" -> 8]

Scanned(f) == file[f].size = "small"

\* The type in the registry: only a file that was read can turn out to be binary.
FileType(f) ==
    CASE file[f].type \in {"csv", "xlsx", "pdf"} -> file[f].type
      [] file[f].type \in {"office", "blob", "archive"} /\ Scanned(f) -> "binary"
      [] OTHER -> "text"

Verified(f) ==
    /\ Scanned(f)
    /\ \/ FileType(f) \in {"text", "csv"}
       \/ FileType(f) \in {"xlsx", "pdf"} /\ file[f].legible

Findings(f) ==
    LET has == file[f].has
        identifiers == IF "names" \in has THEN {"direct-identifiers"} ELSE {} IN
    IF ~Scanned(f) THEN {} ELSE
    CASE FileType(f) = "text" -> has \cap Secrets
      [] FileType(f) = "csv" -> (has \cap Secrets) \cup identifiers
            \cup (IF "names" \in has /\ ~file[f].legible THEN {"malformed-table"} ELSE {})
      [] FileType(f) = "xlsx" -> IF file[f].legible THEN identifiers ELSE {"unparsed-workbook"}
      [] FileType(f) = "pdf" /\ file[f].legible ->
            (has \cap Secrets) \cup (IF "names" \in has THEN {"personal"} ELSE {})
      [] OTHER -> {}

\* High-entropy strings and personal data in documents are of medium severity.
HighRisk(f) == Findings(f) \ {"entropy", "personal"} # {}

Transformers == [t \in {"text", "csv", "xlsx", "pdf", "binary"} |->
    CASE t = "text" -> {"pseudonymize", "sanitize-environment", "sanitize-credentials",
                        "summarize-local", "safety-check"}
      [] t = "csv" -> {"pseudonymize", "pseudonymize-records", "summarize-local", "safety-check"}
      [] t = "xlsx" -> {"pseudonymize-records", "safety-check"}
      [] OTHER -> {}]

-----------------------------------------------------------------------------
(* The fold.                                                               *)

Matches(rule, f) == f \in rule.on \/ rule.detects \cap Findings(f) # {}

\* Mutant: the last rule that matches wins.
MergeLast(d, rule) == [action |-> rule.action, winner |-> rule.name, processors |-> rule.processors]
Merge(d, rule) ==
    IF \/ Rank[rule.action] > Rank[d.action]
       \/ Rank[rule.action] = Rank[d.action] /\ d.winner = "default"
    THEN [action |-> rule.action, winner |-> rule.name, processors |-> rule.processors]
    ELSE d

PolicyInit ==
    /\ file \in Workspaces
    /\ \E p \in Policies : rules = p.rules /\ default = p.default
    /\ next = 1
    /\ folded = [f \in Files |-> [action |-> default, winner |-> "default", processors |-> {}]]

ApplyRule ==
    /\ next <= Len(rules)
    /\ folded' = [f \in Files |-> IF Matches(rules[next], f) THEN Merge(folded[f], rules[next])
                                  ELSE folded[f]]
    /\ next' = next + 1
    /\ UNCHANGED <<file, rules, default>>

-----------------------------------------------------------------------------
(* The safety mode and the routes by file type.                            *)

Safety(name) == [name |-> name, action |-> "local-only", processors |-> {}]

\* Mutant: the rules of a safety mode replace what was decided.
EscalateOver(mode, f) ==
    IF mode # "balanced" /\ Findings(f) \cap {"direct-identifiers", "malformed-table"} # {}
    THEN [action |-> "local-only", winner |-> "yuhi-safety-sensitive-structured", processors |-> {}]
    ELSE IF mode = "maximum-privacy" /\ file[f].type \in {"blob", "archive"}
    THEN [action |-> "local-only", winner |-> "yuhi-safety-non-source-binaries", processors |-> {}]
    ELSE folded[f]
\* applySafetyMode appends, so its rules are the last of the fold.
Escalated(mode, f) ==
    LET structured == /\ mode # "balanced"
                      /\ Findings(f) \cap {"direct-identifiers", "malformed-table"} # {}
        binary == mode = "maximum-privacy" /\ file[f].type \in {"blob", "archive"}
        d == IF structured THEN Merge(folded[f], Safety("yuhi-safety-sensitive-structured"))
             ELSE folded[f]
    IN IF binary THEN Merge(d, Safety("yuhi-safety-non-source-binaries")) ELSE d

LegacyNames == {"block-environment-files", "block-credential-files", "block-secret-directories"}
\* The rule names that match /credential|private-key|secret-director/.
CredentialNames == {"block-credential-files", "block-secret-directories", "block-private-key-files",
                    "sanitize-credential-files", "yuhi:credential-sanitized-copy",
                    "file-type:private-key-local-only"}

Local(winner) == [action |-> "local-only", winner |-> winner, processors |-> {}]
Prepared(winner, processors) ==
    [action |-> "prepare-locally", winner |-> winner, processors |-> processors \cup {"safety-check"}]

\* What the names of former generated rules and of key files change.
Migrated(d, f) ==
    CASE file[f].name = "environment" /\ d.winner = "block-environment-files" ->
            Prepared("yuhi:environment-sanitized-copy", {"sanitize-environment"})
      [] file[f].name = "credentials" /\ d.winner \in LegacyNames ->
            Prepared("yuhi:credential-sanitized-copy", {"sanitize-credentials"})
      [] file[f].name = "private-key" -> Local("file-type:private-key-local-only")
      [] OTHER -> d

\* Mutant: a block is replaced like any other action.
RouteUnverifiedAll(d, f) ==
    IF d.winner \in CredentialNames THEN [d EXCEPT !.processors = {}] ELSE
    CASE FileType(f) = "csv" -> Prepared("file-type:transform-unverified", {"pseudonymize-records"})
      [] FileType(f) = "text" -> Prepared("file-type:transform-unverified", {"pseudonymize"})
      [] OTHER -> Local("file-type:inspection-missing")
\* Content the scan could not verify: prepared if a processor can read it, local otherwise.
RouteUnverified(d, f) ==
    IF d.action = "block" \/ d.winner \in CredentialNames THEN [d EXCEPT !.processors = {}] ELSE
    CASE FileType(f) = "csv" -> Prepared("file-type:transform-unverified", {"pseudonymize-records"})
      [] FileType(f) = "text" -> Prepared("file-type:transform-unverified", {"pseudonymize"})
      [] OTHER -> Local("file-type:inspection-missing")

RouteVerified(d, f) ==
    LET pdf == FileType(f) = "pdf" IN
    CASE pdf /\ HighRisk(f) -> Local("document:unresolved-secret-local-only")
      [] pdf /\ ~HighRisk(f) /\ "personal" \in Findings(f) /\ d.winner = "default" ->
            [action |-> "allow", winner |-> "document:personal-information-warning", processors |-> {}]
      [] OTHER ->
            IF pdf /\ d.winner = "default" /\ d.action = "allow" THEN [d EXCEPT !.winner = "document:pdf-inspected"]
            ELSE IF ~(d.processors \subseteq Transformers[FileType(f)])
            THEN Local("file-type:transformation-unavailable")
            ELSE IF "direct-identifiers" \in Findings(f) /\ (d.winner = "default" \/ d.action = "allow")
            THEN Prepared("detector:tabular-auto-pseudonymize", {"pseudonymize-records"})
            ELSE IF Findings(f) # {} /\ d.winner = "default" /\ Rank[d.action] < Rank["redact"]
            THEN [d EXCEPT !.action = "redact", !.winner = "detector"]
            ELSE d

\* Nobody can be asked during a preparation. Only prepare-locally keeps its processors.
Settle(d) ==
    [action |-> IF d.action = "ask" THEN "block" ELSE d.action, winner |-> d.winner,
     processors |-> IF d.action = "prepare-locally" THEN d.processors ELSE {}]

Decide(mode, f) ==
    LET d == Migrated(Escalated(mode, f), f) IN
    Settle(IF Verified(f) THEN RouteVerified(d, f) ELSE RouteUnverified(d, f))

-----------------------------------------------------------------------------
(* Properties of the fold.                                                 *)

\* After any number of rules, in any order, the decision is at least as restrictive as the
\* default and as every matching rule so far, and it is the action of the rule it names.
MostRestrictive == \A f \in Files :
    /\ Rank[default] <= Rank[folded[f].action]
    /\ \A i \in 1..(next - 1) :
         Matches(rules[i], f) => Rank[rules[i].action] <= Rank[folded[f].action]
    /\ \/ folded[f].winner = "default" /\ folded[f].action = default
       \/ \E i \in 1..(next - 1) : /\ Matches(rules[i], f)
                                   /\ folded[f].winner = rules[i].name
                                   /\ folded[f].action = rules[i].action
=============================================================================
