SPECIFICATION UpstreamSpec
CONSTANTS
    \* probes
    Callers = {a1, a2}
    Verdicts = {"yes"}
    Unknown = "unknown"
    Ttl = 2
    SelfHosted = TRUE
    MaxNow = 4
    \* live calls
    Procs = {p1}
    Width = 2
    Sigs = {q1, q2}
    Cap = 4
    Costs = {1, 3}
    MaxDay = 1
    MaxCrash = 2
    \* candidates
    Requested = 10
    Minutes = {6, 10, 14, 21, 30}
    Greens = {3, 5}
    LoopCandidates = 3
    PreferenceScales = 3
    \* survey
    Trips <- MCTrips
    MaxResults = 2
    MaxPoints = 3
    Spacing = 25
    Pad = 20
    Hour = 5
    \* photographs
    Objectives = {"fastest", "accessible", "scenic"}
    Blockers <- MCBlockers
    Vertices <- MCVertices
    MaxAnchors = 2
    StripSize = 3
    MaxPerAnchor = 2
    Pages <- MCPages
    \* places
    Clients = {b1, b2}
    Names = {"a"}
    Capacity = 2
    Rate = 1
    FoundTtl = 3
    EmptyTtl = 1
INVARIANTS
    VerdictIsFresh
    
    
    OneReplySuffices
    TablesAgree
    CheckedMeansComplete
    
    SurveyOnlyAdds
    StripAlongTheWay
    
    EverySearchIsPaidFor
\* Each part comes to rest: an answer given, the clock at its bound.
CHECK_DEADLOCK FALSE
