SPECIFICATION Spec
CONSTANTS
    NumRecords = 2
    MaxTicks = 2
    MaxStarts = 1
    Faults = {"produce"}
INVARIANTS NoGaps
