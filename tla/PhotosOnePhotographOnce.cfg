SPECIFICATION Spec
CONSTANTS
    Objectives = {"fastest", "accessible", "scenic"}
    Blockers <- MCBlockers
    Vertices <- MCVertices
    MaxAnchors = 2
    StripSize = 3
    MaxPerAnchor = 2
    Pages <- MCPages
INVARIANTS OnePhotographOnce
\* A route's photographs are asked for once.
CHECK_DEADLOCK FALSE
