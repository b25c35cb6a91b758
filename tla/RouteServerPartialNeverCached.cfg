CONSTANTS
    Streams = {s1}
    Documents = {}
    KeepaliveTicks = 1
    DrainTicks = 2
    WritesMayFail = FALSE
SPECIFICATION Spec
\* A stopped process takes no further step.
CHECK_DEADLOCK FALSE
INVARIANT
    PartialNeverCached
