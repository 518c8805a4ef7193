SPECIFICATION Spec
CONSTANTS
  c1 = c1
  c2 = c2
  t1 = t1
  t2 = t2
  b1 = b1
  b2 = b2
  n1 = n1
  n2 = n2
  None = None
  Conns = {c1, c2}
  Tracks = {t1, t2}
  Buses = {b1, b2}
  NodeIds = {n1, n2}
  FreshIds = {}
  LoadDocs <- OneDoc
  Patches <- FewPatches
  RingCap = 2
  MaxRev = 2
INVARIANT AudioFollowsProject
