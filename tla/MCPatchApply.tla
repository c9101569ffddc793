---------------------------- MODULE MCPatchApply ----------------------------
(***************************************************************************)
(* Patches of two changes over three files: every pair of kinds, with a    *)
(* rename also beside a change of its own origin.                          *)
(***************************************************************************)
EXTENDS PatchApply

Plain == [kind : {"added", "modified", "deleted"}, path : {"a", "b"}]
PlainChanges == {[kind |-> c.kind, path |-> c.path, from |-> c.path] : c \in Plain}
Rename == [kind |-> "renamed", path |-> "c", from |-> "a"]

MCPatches ==
  {<<x, y>> : x \in {c \in PlainChanges : c.path = "a"}, y \in {c \in PlainChanges : c.path = "b"}}
  \cup {<<Rename, y>> : y \in {c \in PlainChanges : c.kind # "added"}}
  \cup {<<x, Rename>> : x \in {c \in PlainChanges : c.kind # "added"}}
=============================================================================
