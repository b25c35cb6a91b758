SPECIFICATION Spec
CONSTANTS
    fastest = fastest
    quiet = quiet
    scenic = scenic
    Objectives = {fastest, quiet, scenic}
    Limit = 2
    MaxSearches = 2

PROPERTIES OnlyTheCurrentSearchSpeaks
CHECK_DEADLOCK FALSE
