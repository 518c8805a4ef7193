SPECIFICATION LiveSpec
CONSTANTS
  c1 = c1
  c2 = c2
  t1 = t1
  t2 = t2
  b1 = b1
  b2 = b2
  n1 = n1
  n2 = n2
  None = None
  Conns = {c1, c2}
  Tracks = {t1}
  Buses = {b1, b2}
  NodeIds = {n2}
  FreshIds = {}
  LoadDocs <- LoneDoc
  Patches <- LonePatches
  RingCap = 1
  MaxRev = 3
INVARIANTS
  TypeOK
  GraphsAreOrdered
  SnapshotsAreCommitted
PROPERTIES
  RequestsAreAnswered
  PushedGraphsAreHeard
