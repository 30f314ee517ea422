SPECIFICATION Spec
CONSTANTS
  Limit = 0
  Thresholds = {}
  MaxPending = 2
  Steerers = {c1, c2}
  MaxTurns = 2
  MaxInputs = 4
  MaxWork = 2
  Usages = {0}
  Texts = {}
  Keys <- NoKeys
PROPERTY CompletedTurnKeepsInput
CHECK_DEADLOCK FALSE
