CONSTANTS
    Workers = {w1, w2}
    Keys = {k1, k2, k3}
    MaxRows = 1
    SweepEvery = 2
    VacuumAfter = 2
    Ttl = 1
    MaxNow = 1
    Threads = {t1, t2, t3}
    MaxOpened = 5
SYMMETRY Symmetry
SPECIFICATION CacheSpec
INVARIANTS
    
    
    CloseReachesAllButRacers
PROPERTY
    FreshRowsStay
\* A closed cache refuses everything.
CHECK_DEADLOCK FALSE
