SPECIFICATION Spec
CONSTANTS
  None = None
  first = first
  second = second
  k1 = k1
  k2 = k2
  Works = {first, second}
  ProgressKeys = {k1, k2}
  KeyChoices <- KeysOfWork
  MaxEvents = 1
  BufferedChoices = {TRUE}
  Repeats = TRUE
CHECK_DEADLOCK FALSE
INVARIANT DurableEventsReachClient
