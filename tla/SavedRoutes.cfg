SPECIFICATION Spec
CONSTANTS
    s1 = s1
    r1 = r1
    yes1 = yes1
    no1 = no1
    Savers = {s1}
    Readers = {r1}
    Agreers = {yes1}
    Refusers = {no1}
    Boots = {yes1}
    Versions = {1, 2}
INVARIANTS NothingKeptAfterNo 
 
\* Calls are made once, so the model stops.
CHECK_DEADLOCK FALSE
