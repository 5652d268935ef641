SPECIFICATION FairSpec
CONSTANTS
  NoItem = NoItem
  NoTerminal = NoTerminal
  Items = {i1, i2}
  Terminals = {t1, t2, t3}
  InitialLimit = 1
  Limits = {1, 2}
  KeepTimes = {0}
  Forceable = {i1, i2}
  MaxTemporary = 1
  MaxClicks = 1
  MaxFailures = 1
  Operations = {"add", "close"}
PROPERTIES CloseReturns
CHECK_DEADLOCK FALSE
