SPECIFICATION Spec
CONSTANTS
  MaxConsecutiveDenials = 2
  MaxRecentDenials = 3
  DenialWindowSize = 4
  MaxCalls = 3
  ToolKinds <- QuickTools
  HookRenames = FALSE
  HookErrors = {"fatal", "cancelled"}
INVARIANT SerialExclusion
INVARIANT InterruptedCallCommitsNothing
INVARIANT TrippedBreakerEndsAttempt
INVARIANT FinishedWorkSurvivesAbort
PROPERTY ImplementsContract
