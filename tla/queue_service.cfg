SPECIFICATION QueueFairSpec
CONSTANTS
  NoItem = NoItem
  NoTerminal = NoTerminal
  Items = {i1, i2, i3}
  Terminals = {t1, t2, t3}
  InitialLimit = 1
  Limits = {1, 2}
  KeepTimes = {0}
  Forceable = {i1}
  MaxTemporary = 1
  MaxClicks = 1
  MaxFailures = 1
  Operations = {"add", "idle", "executeNow"}
PROPERTIES ForcedItemStarts EveryItemLeaves
