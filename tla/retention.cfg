SPECIFICATION Spec
CONSTANTS
    MaxTime = 3
    MaxSegment = 2
    SizeGB = 1
    Gigabyte = 2
    Overhead = 0
    Grace = 2
    FaultKinds = {"crash", "close", "remove", "read", "dbwrite", "dbdelete"}
    MaxFaults = 2
    WithFallback = FALSE
INVARIANTS OldestFirst
PROPERTIES OnlyCondemnedOrCorrupt Lifecycle
