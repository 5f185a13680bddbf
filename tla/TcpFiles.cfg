SPECIFICATION FilesSpec
CONSTANTS
  c1 = c1
  c2 = c2
  Peers = {c1, c2}
  Names = {"a", "b", "dir/x"}
  BadNames = {"dir/x"}
  MaxChunks = 2
  MaxTransfers = 2
INVARIANTS NothingLeftOpen
PROPERTIES UploadStoredWhole CopyIsWhole
CHECK_DEADLOCK FALSE
