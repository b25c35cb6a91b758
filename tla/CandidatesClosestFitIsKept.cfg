SPECIFICATION Spec
CONSTANTS
    Requested = 10
    Minutes = {6, 10, 14, 21, 30}
    Greens = {3, 5}
    LoopCandidates = 3
    PreferenceScales = 3
INVARIANTS ClosestFitIsKept
\* A preset answers once.
CHECK_DEADLOCK FALSE
