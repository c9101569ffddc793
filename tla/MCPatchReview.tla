---------------------------- MODULE MCPatchReview ----------------------------
(* A sanitized file (1), a full one (2), and a name (3) the worker publishes *)
(* at and the agent may use, absent from the source or only there.           *)
EXTENDS PatchReview

MCPaths == 1 .. 3
MCArtifacts == {3}
MCDerived == <<"derived", "old">>
MCAgentTexts == {<<"new", "new">>, <<"old", "secret">>}
MCUserTexts == {<<"user", "old">>}

MCStart(withheld, lossy) ==
  [source |-> <<<<"name", "old">>, <<"old", "old">>, withheld>>,
   prepared |-> <<<<"alias", "old">>, <<"old", "old">>, <<>>>>,
   rep |-> <<lossy, "full", "full">>]
MCStarts == {MCStart(<<>>, "compressed"), MCStart(<<"hidden", "old">>, "background-artifact")}
==============================================================================
