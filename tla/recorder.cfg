SPECIFICATION FairSpec
CONSTANTS
    MaxTick = 4
    Rate = 2
    SegLen = 1
    Zone <- OneAhead
    Size = {1, 2}
    MaxStarts = 2
    FaultKinds = {"crash", "start", "trailer", "setup", "encode", "write", "list", "rename"}
    MaxFaults = 1
INVARIANTS TypeOK NamedByStart NeverAhead NothingLost CleanClose
PROPERTIES RecordingCloses EventuallyMoved
CHECK_DEADLOCK FALSE
