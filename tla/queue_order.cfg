SPECIFICATION Spec
CONSTANTS
  NoItem = NoItem
  NoTerminal = NoTerminal
  Items = {i1, i2, i3}
  Terminals = {t1, t2, t3}
  InitialLimit = 1
  Limits <- AnyLimit
  KeepTimes = {0}
  Forceable = {i1, i2, i3}
  MaxTemporary = 1
  MaxClicks = 1
  MaxFailures = 1
  Operations = {"add", "executeNow", "idle", "limit", "enable"}
SYMMETRY Symmetry
INVARIANTS TypeOK InProcessIsPrefix FreeTerminalsAreIdle
PROPERTIES ImplementsTransferQueue
