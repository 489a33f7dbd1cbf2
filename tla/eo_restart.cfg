SPECIFICATION Spec
CONSTANTS
    NumRecords = 3
    MaxTicks = 2
    MaxStarts = 2
    Faults = {"commit", "abort", "probe", "stage"}
INVARIANTS
  RestorePoint
PROPERTIES
  ExactlyOnceDelivery
