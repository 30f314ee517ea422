SPECIFICATION Spec
CONSTANTS
  Limit = 0
  Thresholds = {}
  MaxPending = 2
  Steerers = {c1, c2}
  MaxTurns = 2
  MaxInputs = 3
  MaxWork = 1
  Usages = {0}
  Texts = {1}
  Keys <- NoKeys
INVARIANT TypeOK
INVARIANT WatcherIsWoken
INVARIANT SignalMatchesChannel
INVARIANT SteeringStaysInItsTurn
PROPERTY ImplementsLedger
CHECK_DEADLOCK FALSE
SYMMETRY SteererSymmetry
