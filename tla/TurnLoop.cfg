SPECIFICATION FairSpec
CONSTANTS
  MaxModelRetries = 2
  MaxRequests = 3
  MaxCallIds = 2
  MaxCalls = 2
  MaxInputs = 1
  States = {"a", "b"}
INVARIANT EffectsAreTold
INVARIANT ClientSeesClosedCalls
INVARIANT InputAtSafeBoundary
INVARIANT CommittedInputReachedModel
PROPERTY PromptsGrow
PROPERTY SamplingRequestEnds
