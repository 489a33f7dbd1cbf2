SPECIFICATION EngineSpec
CONSTANTS
  Senders = {s1, s2, s3}
  Stoppers = {p1, p2}
  Cap = 1
INVARIANTS
  NoSendOnClosed
  ResultTrue
  CheckpointConsistent
  PlanSound
PROPERTIES
  StopIsFinal
  ImplementsMarkerOrder
  Completes
  Unwinds
