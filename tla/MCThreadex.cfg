SPECIFICATION FairSpec
CONSTANTS
    c1 = c1
    c2 = c2
    c3 = c3
    Callers <- MCCallers
    Free = Free
    MaxProgress = 2
    QuietDestroy = TRUE
INVARIANTS
    ThreadsAgree
    ProgressExact
PROPERTIES
    ImplementsLifecycle
    ProgressBeforeEnd
    AlwaysEnds
