SPECIFICATION Spec
CONSTANTS
  N = 3
  Sizes = {1, 3}
  InCap = 2
  OutCap = 1
  FileMsgs = 3
  MaxOps = 1
  MaxEvents = 2
INVARIANTS BroadcastReachesAll WaitingIsAnnounced
PROPERTIES LiveClientStays ServerComesBack
CHECK_DEADLOCK FALSE
