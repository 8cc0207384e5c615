SPECIFICATION FairSpec
CONSTANTS
    MaxTime = 3
    MaxSegment = 1
    SizeGB = 1
    Gigabyte = 1
    Overhead = 0
    FaultKinds = {"crash", "close", "remove", "clip", "probe", "store"}
    MaxFaults = 1
    MaxRequests = 2
    Asks <- MixedAsks
    Format <- BackAndForth
INVARIANTS TypeOK OwnClip SavedClip NoHole ListsAccounted TempAccounted
PROPERTIES EveryRequestSettles
CHECK_DEADLOCK FALSE
