SPECIFICATION FairSpec
CONSTANTS
    h1 = h1
    h2 = h2
    s1 = s1
    s2 = s2
    Handlers <- MCHandlers
    Stoppers <- MCStoppers
    Ctl = Ctl
    MaxPosts = 3
CHECK_DEADLOCK FALSE
INVARIANTS
    CallbackIsSafe
    StopIsSafe
PROPERTIES
    StartsAndStops
    PostedIsHandled
