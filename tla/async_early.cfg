SPECIFICATION Spec
CONSTANTS
    MaxTime = 3
    MaxSegment = 1
    SizeGB = 1
    Gigabyte = 1
    Overhead = 0
    FaultKinds = {}
    MaxFaults = 0
    MaxRequests = 2
    Asks <- MixedAsks
    Format <- BackAndForth
INVARIANT AsyncWaitsForSegment
CHECK_DEADLOCK FALSE
