SPECIFICATION Spec
CONSTANTS
  c1 = c1
  c2 = c2
  Conns = {c1, c2}
  Kinds = {"withEvent", "garbled", "oversized"}
  Askers = {c1}
  QueueSize = 1
  RingSize = 2
  BatchSize = 2
  MaxRequests = 2
  MaxEvents = 3
INVARIANTS
  AnswersInOrder
  TelemetryReachesOne
PROPERTY
  RequestsAreAnswered
CHECK_DEADLOCK FALSE
