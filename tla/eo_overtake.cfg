SPECIFICATION Spec
CONSTANTS
    NumRecords = 1
    MaxTicks = 0
    MaxStarts = 2
    Faults = {"overtake"}
INVARIANTS CompletedIsCommitted
