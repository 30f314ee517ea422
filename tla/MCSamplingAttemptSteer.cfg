SPECIFICATION FairSpec
CONSTANTS
  MaxConsecutiveDenials = 2
  MaxRecentDenials = 3
  DenialWindowSize = 4
  MaxCalls = 2
  ToolKinds <- AllTools
  HookRenames = TRUE
  HookErrors = {"fatal", "cancelled"}
INVARIANT AbortsAreExplained
PROPERTY AttemptEnds
