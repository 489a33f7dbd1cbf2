SPECIFICATION Spec
CONSTANTS
    NumRecords = 2
    MaxTicks = 2
    MaxStarts = 3
    Faults = {}
INVARIANTS FallBackIsNewest
