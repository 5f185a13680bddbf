SPECIFICATION Spec
CONSTANTS
  Procs = {1, 2, 3}
  PortOf <- MCPortOf
  TextOf <- MCTextOf
  PORT = 51000
  Sizes = {1, 2}
  MaxMsgs = 3
INVARIANTS CountsSinceClose FreshClientCounts OnlyEvenAnswersVerify
CHECK_DEADLOCK FALSE
