SPECIFICATION Spec
CONSTANTS
  k1 = k1
  k2 = k2
  k3 = k3
  Keys = {k1, k2, k3}
  None = None
  MaxTurns = 2
  MaxCalls = 3
  Tools <- ToolChoices
  PolicyChoices = {"require_for_sensitive", "require_for_all", "deny_all", "unknown"}
  Responses <- HostResponses
CHECK_DEADLOCK FALSE
INVARIANT BypassWasPreapproved
INVARIANT GrantsWerePromised
INVARIANT FlagsFollowGrants
INVARIANT DecisionsReachTheClient
