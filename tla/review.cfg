SPECIFICATION Spec
CONSTANTS
  Paths <- MCPaths
  Artifacts <- MCArtifacts
  Derived <- MCDerived
  Starts <- MCStarts
  AgentTexts <- MCAgentTexts
  UserTexts <- MCUserTexts
  MaxWrites = 2
  MaxEdits = 1
INVARIANT DiscardRestores
PROPERTY AppliedAsConfirmed
