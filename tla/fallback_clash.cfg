SPECIFICATION Spec
CONSTANTS
    MaxTime = 3
    MaxSegment = 2
    SizeGB = 1
    Gigabyte = 3
    Overhead = 0
    Grace = 2
    FaultKinds = {}
    MaxFaults = 0
    WithFallback = TRUE
INVARIANTS NoClashWithIndexer
