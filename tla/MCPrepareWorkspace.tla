------------------------- MODULE MCPrepareWorkspace -------------------------
(***************************************************************************)
(* Two files for TLC: the first of every kind that matters, with any rule  *)
(* of the user on it; the second plain, or a table that needs the model.   *)
(***************************************************************************)
EXTENDS PrepareWorkspace, TLC

CONSTANTS first, second

MCFiles == {first, second}
MCOrder == <<first, second>>

Kind(type, name, size, legible, has) ==
    [type |-> type, name |-> name, size |-> size, legible |-> legible, has |-> has]

MCKinds ==
    {Kind("text", "ordinary", "small", TRUE, {"credential"}),
     Kind("text", "ordinary", "large", TRUE, {"credential", "names"}),
     Kind("text", "private-key", "small", TRUE, {"token"}),
     Kind("text", "environment", "small", TRUE, {"credential"}),
     Kind("text", "ordinary", "small", TRUE, {}),
     Kind("csv", "ordinary", "small", TRUE, {"names", "credential"}),
     Kind("csv", "ordinary", "large", FALSE, {"names", "token"}),
     Kind("xlsx", "ordinary", "small", TRUE, {"names", "credential"}),
     Kind("xlsx", "ordinary", "small", FALSE, {"names"}),
     Kind("xlsx", "ordinary", "large", TRUE, {"names", "credential"}),
     Kind("pdf", "ordinary", "small", TRUE, {"names"}),
     Kind("office", "ordinary", "small", TRUE, {"names"}),
     Kind("blob", "ordinary", "small", TRUE, {"credential"}),
     Kind("blob", "ordinary", "huge", TRUE, {}),
     Kind("archive", "ordinary", "small", TRUE, {"credential"})}
MCSecond == {Kind("csv", "ordinary", "small", TRUE, {"names"})}
MCWorkspaces == {first :> k @@ second :> p : k \in MCKinds, p \in MCSecond}

MCRule(name, on, detects, action) ==
    [name |-> name, on |-> on, detects |-> detects, action |-> action, processors |-> {}]
MCRuleNames == {"user", "redact-detected-secrets", "block-environment-files",
                "block-secret-directories", "sanitize-credential-files"}
MCRedact == MCRule("redact-detected-secrets", {}, Secrets, "redact")
MCLegacy == MCRule("block-environment-files", {first}, {}, "block")
\* What the default policy does with a directory of secrets and with credential files.
MCSecrets == MCRule("block-secret-directories", {first}, {}, "block")
MCSanitize == MCRule("sanitize-credential-files", {second}, {}, "prepare-locally")
MCRuleLists == {<<MCRedact, MCRule("user", {first}, {}, action)>> : action \in Actions}
    \cup {<<MCRule("user", {first, second}, {}, "summarize-local"), MCRedact>>}
    \cup {<<MCRule("user", {first}, {}, "allow")>>}
    \cup {<<MCRule("user", {first}, {}, "local-only"), MCLegacy>>, <<MCLegacy, MCRedact>>,
           <<MCSanitize, MCRedact, MCSecrets>>}
MCPolicies == {[rules |-> list, default |-> "allow"] : list \in MCRuleLists} \cup
    {[rules |-> <<MCRedact, MCRule("user", {first}, {}, action)>>, default |-> "block"] :
        action \in {"local-only", "block"}}

MCOption(mode, wish, defer) == [mode |-> mode, wish |-> wish, defer |-> defer]
MCOptions == {MCOption(mode, "none", FALSE) : mode \in Modes} \cup
    {MCOption("maximum-privacy", "include", FALSE), MCOption("balanced", "exclude", FALSE),
     MCOption("strict", "none", TRUE)}
MCEditedTo == {{"credential"}}

\* What the theorems on modes and credentials ask of the rules is true of these.
ASSUME MCNames == NamesWithhold /\ NamesNeverAllow
=============================================================================
