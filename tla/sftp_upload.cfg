SPECIFICATION FairSpec
CONSTANTS
  NoFile = NoFile
  Old = Old
  Kinds = {"stat", "open", "write", "close", "remove", "rename", "setstat", "realpath"}
  Files = {"dest", "partial"}
  N = 3
  Refusable = {"open", "write", "close", "remove", "rename", "setstat"}
  Retried = {"open", "remove", "rename", "setstat"}
  Overtaking = {"write"}
  MaxRefusals = 2
  MaxDrops = 1
INVARIANTS TypeOK NewOrOld DoneIsComplete PartialIsPrefix StoredInOwnPacket
PROPERTIES UploadEnds
CHECK_DEADLOCK FALSE
