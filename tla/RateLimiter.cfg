CONSTANTS
    Clients = {c1, c2, c3}
    Requests = {r1, r2}
    Capacity = 2
    TokenTicks = 3
    DailyCeiling = 1
    MaxBuckets = 2
    IdleTicks = 1
    MaxNow = 4
    MaxDay = 1
SYMMETRY Symmetry
SPECIFICATION Spec
\* The clock and the calendar are bounded, so the model may stop.
CHECK_DEADLOCK FALSE
INVARIANTS
    TypeOK
    BucketConformance
    
    TableBounded
    CeilingHeldUpToLateRefunds
