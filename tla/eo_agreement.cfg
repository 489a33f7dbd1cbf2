SPECIFICATION Spec
CONSTANTS
    NumRecords = 1
    MaxTicks = 1
    MaxStarts = 3
    Faults = {"produce", "save", "commit", "abort", "update", "probe", "late", "stage"}
INVARIANTS
  CompletedIsCommitted
  CommittedIsLogged
