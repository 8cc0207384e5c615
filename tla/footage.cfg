SPECIFICATION Spec
CONSTANTS
    Slop = 1
    MaxFiles = 3
    MaxOverlap = 1
    MaxGap = 2
    Durations = {2, 3}
    Params = {sd, hd}
INVARIANTS RangesAreBlocks ClipHasAllFootage NoMomentMissed ClipWithinRequest
