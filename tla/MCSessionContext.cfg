SPECIFICATION Spec
CONSTANTS
  Limit = 3
  Thresholds = {1, 2}
  MaxPending = 1
  Steerers = {}
  MaxTurns = 3
  MaxInputs = 0
  MaxWork = 2
  Usages = {1, 2}
  Texts = {1, 2}
  Keys <- TwoKeys
INVARIANT BaselinesWereShown
CHECK_DEADLOCK FALSE
