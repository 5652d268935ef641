SPECIFICATION FairSpec
CONSTANTS
  NoFile = NoFile
  Kinds = {"open", "fstat", "read", "eof", "close", "realpath"}
  Files = {"source"}
  Overtaking = {"read"}
  Sizes = {1, 2, 3}
  BlockSize = 2
  SFTPDownloadQueue = 2
  MaxShort = 1
  MaxFailures = 1
  MaxDrops = 1
INVARIANTS TypeOK WrittenInPlace DoneIsComplete NewOrOld NoTornFile ReadsOwnResponse
PROPERTIES DownloadEnds
CHECK_DEADLOCK FALSE
