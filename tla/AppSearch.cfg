SPECIFICATION Spec
CONSTANTS
    fastest = fastest
    quiet = quiet
    scenic = scenic
    Objectives = {fastest, quiet, scenic}
    Limit = 2
    MaxSearches = 2
INVARIANTS LoadingMeansAsking
PROPERTIES SettledInOrder
CHECK_DEADLOCK FALSE
