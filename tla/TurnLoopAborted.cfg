SPECIFICATION Spec
CONSTANTS
  MaxModelRetries = 2
  MaxRequests = 2
  MaxCallIds = 3
  MaxCalls = 2
  MaxInputs = 1
  States = {"a"}
INVARIANT AbortKeepsModelVisibleTranscript
