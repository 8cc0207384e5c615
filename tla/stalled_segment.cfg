SPECIFICATION Spec
CONSTANTS
    MaxTime = 4
    MaxSegment = 2
    SizeGB = 1
    Gigabyte = 3
    Overhead = 0
    Grace = 2
    FaultKinds = {"stall"}
    MaxFaults = 1
    WithFallback = FALSE
PROPERTIES ActiveSegmentSafe
