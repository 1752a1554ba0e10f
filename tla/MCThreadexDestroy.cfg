SPECIFICATION FairSpec
CONSTANTS
    c1 = c1
    c2 = c2
    c3 = c3
    Callers = {c1, c2}
    Free = Free
    MaxProgress = 1
    QuietDestroy = FALSE
PROPERTIES
    DestroyFindsLockFree
