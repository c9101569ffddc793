SPECIFICATION Spec
CONSTANTS
  first = first
  second = second
  Nothing = Nothing
  Files <- MCFiles
  Order <- MCOrder
  Workspaces <- MCWorkspaces
  RuleNames <- MCRuleNames
  Policies <- MCPolicies
  Options <- MCOptions
  EditedTo <- MCEditedTo
  MaxCalls = 1
  MaxEdits = 2
  MaxFailures = 1
INVARIANTS MostRestrictive RulesHold ModesNarrow CredentialStays EditCaught ReportMatchesDisk QueueTells
