CONSTANTS
    Presets <- ThreePresets
    MaxObjectives = 3
SPECIFICATION Spec
\* A request ends.
CHECK_DEADLOCK FALSE
INVARIANTS
    DoneSettlesTheStream
    DeadlineKeepsTheLines
    AbsenceIsNotClearance
PROPERTIES
    BlockedStaysBlocked
    ImplementsEventSource
