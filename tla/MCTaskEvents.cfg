SPECIFICATION Spec
CONSTANTS
    l1 = l1
    l2 = l2
    Listeners <- MCListeners
    MaxProg = 1
CHECK_DEADLOCK FALSE
INVARIANTS
    Lifetime
    HearsAll
PROPERTIES
    FreedInTheEnd
