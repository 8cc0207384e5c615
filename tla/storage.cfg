SPECIFICATION Spec
CONSTANTS
    MaxTime = 3
    MaxSegment = 2
    SizeGB = 1
    Gigabyte = 3
    Overhead = 0
    Grace = 1
    FaultKinds = {"crash", "close", "remove", "read", "insert", "dbwrite", "dbdelete", "probe", "stall"}
    MaxFaults = 2
    WithFallback = TRUE
INVARIANTS TypeOK CatalogueSound
