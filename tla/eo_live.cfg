SPECIFICATION ExactlyOnceSpec
INVARIANTS
  NoneTwice
PROPERTIES
  AllDelivered
  ShutdownEnds
