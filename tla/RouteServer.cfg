CONSTANTS
    Streams = {s1, s2}
    Documents = {d1}
    KeepaliveTicks = 1
    DrainTicks = 2
    WritesMayFail = TRUE
SPECIFICATION Spec
\* A stopped process takes no further step.
CHECK_DEADLOCK FALSE
INVARIANTS
    OpenStreamsExact
    NoSilentEnd
    SentBeforeStored
    DrainReachesEveryStream
PROPERTY
    OnlyCancelledCachesPartial
    ShutdownCompletes
