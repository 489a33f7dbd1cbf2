SPECIFICATION StateSpec
INVARIANTS
  EveryWindowOnce
  ReduceExact
  SessionsAreComponents
  LatenessHonoured
  AssignedExactly
PROPERTIES
  Implements
