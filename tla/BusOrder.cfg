SPECIFICATION Spec
CONSTANTS
  a = a
  b = b
  c = c
  Ids = {a, b, c}
  Routings <- SmallRoutings
INVARIANTS
  TypeOK
  SortsOrRefuses
  BusesHearTheirSources
CHECK_DEADLOCK FALSE
