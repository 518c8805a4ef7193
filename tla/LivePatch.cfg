SPECIFICATION Spec
CONSTANTS
  t1 = t1
  t2 = t2
  b1 = b1
  b2 = b2
  b3 = b3
  n1 = n1
  n2 = n2
  n3 = n3
  p1 = p1
  p2 = p2
  p3 = p3
  p4 = p4
  gain = gain
  None = None
  Docs <- SmallDocs
  Ops <- SmallOps
  Names <- SmallNames
  Rates = {48000, 44100}
  MaxOps = 3
INVARIANTS
  PatchedIsRebuilt
  RoutesAreCurrent
  MixFollowsRouting
  AutomationFollowsPoints
CHECK_DEADLOCK FALSE
