SPECIFICATION FairSpec
CONSTANTS
    MaxTime = 3
    MaxSegment = 2
    SizeGB = 1
    Gigabyte = 3
    Overhead = 0
    Grace = 2
    FaultKinds = {"crash", "close", "remove", "read", "insert", "dbwrite", "dbdelete"}
    MaxFaults = 2
    WithFallback = FALSE
PROPERTIES EventuallyIndexed EventuallyReclaimed EventuallyDeleted
