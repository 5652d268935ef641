SPECIFICATION Spec
CONSTANTS
  NoItem = NoItem
  NoTerminal = NoTerminal
  Items = {i1, i2}
  Terminals = {t1, t2}
  InitialLimit = 1
  Limits = {1, 2}
  KeepTimes = {1}
  Forceable = {i1, i2}
  MaxTemporary = 1
  MaxClicks = 2
  MaxFailures = 0
  Operations = {"add", "delete", "move", "executeNow", "idle", "monitor", "keep", "close"}
SYMMETRY Symmetry
INVARIANTS CompletionTracksList PoolInvariant WorkersWithinLimit
CHECK_DEADLOCK FALSE
