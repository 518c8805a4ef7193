SPECIFICATION Spec
CONSTANTS
  c1 = c1
  c2 = c2
  Clients = {c1, c2}
  CacheTtl = 3
  TicketLife = 2
  HttpTimeout = 1
INVARIANTS
  PremiumIsBounded
  ToldIsGranted
