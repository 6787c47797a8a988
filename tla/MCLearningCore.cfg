CONSTANTS
    MemorySize = 10
    MaxIngests = 12
    MaxRepeats = 1
SPECIFICATION Spec
INVARIANT WithinCapacity
INVARIANT PruneEvictsWeakest
CHECK_DEADLOCK FALSE
