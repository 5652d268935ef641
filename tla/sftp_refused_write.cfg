SPECIFICATION Spec
CONSTANTS
  NoFile = NoFile
  Old = Old
  Kinds = {"stat", "open", "write", "close", "remove", "rename", "setstat", "realpath"}
  Files = {"dest", "partial"}
  N = 2
  Refusable = {"write"}
  Retried = {}
  Overtaking = {}
  MaxRefusals = 1
  MaxDrops = 0
INVARIANTS IncompleteIsDeleted
CHECK_DEADLOCK FALSE
