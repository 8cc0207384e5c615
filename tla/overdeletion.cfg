SPECIFICATION Spec
CONSTANTS
    MaxTime = 4
    MaxSegment = 1
    SizeGB = 1
    Gigabyte = 3
    Overhead = 0
    Grace = 2
    FaultKinds = {"crash"}
    MaxFaults = 1
    WithFallback = FALSE
PROPERTIES DeletesOnlyUntilBelowMax
