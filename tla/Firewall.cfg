SPECIFICATION FirewallSpec
CONSTANTS
  a = a
  b = b
  c = c
  d = d
  IPs = {a, b, c, d}
  Torn = Torn
  MAX_IPS = 3
INVARIANTS TableIsWhatWasCommanded
PROPERTIES HookIsRight
CHECK_DEADLOCK FALSE
