SPECIFICATION ControlSpec
INVARIANTS
  SingleLive
  LaunchWhole
  SavepointsHold
  AvailableIsLargest
  RestartsBounded
PROPERTIES
  StoppedConverges
  Progresses
