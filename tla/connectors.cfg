SPECIFICATION ConnectorsSpec
INVARIANTS
  CommitCovered
  GracefulLosesNothing
  ExactlyOnceState
  Accounted
  OneFate
  RetriesTell
PROPERTIES
  Delivers
  StopEnds
