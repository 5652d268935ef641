SPECIFICATION Spec
CONSTANTS
  NoFile = NoFile
  Old = Old
  Kinds = {"stat", "open", "write", "close", "remove", "rename", "setstat", "realpath"}
  Files = {"dest", "partial"}
  N = 2
  Refusable = {"open"}
  Retried = {}
  Overtaking = {}
  MaxRefusals = 1
  MaxDrops = 0
INVARIANTS DoneIsWhole
CHECK_DEADLOCK FALSE
