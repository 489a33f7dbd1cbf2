SPECIFICATION Spec
CONSTANTS
    NumRecords = 2
    MaxTicks = 2
    MaxStarts = 2
    Faults = {"update"}
INVARIANTS NoDuplicates
