SPECIFICATION LiveSpec
CONSTANTS
  Ports = 2
  Loops = {l1, l2}
  Sockets = {s1, s2}
  Calls = {k1}
  None = None
INVARIANTS
  TypeOK
  NoneIsForgotten
  KeepsTrying
PROPERTIES
  CallsAreSettled
  Reconnects
