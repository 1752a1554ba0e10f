SPECIFICATION FairSpec
CONSTANTS
    t1 = t1
    t2 = t2
    t3 = t3
    c1 = c1
    c2 = c2
    Tasks <- MCTasks
    Clients = {c1}
    Owner = Owner
    NPri = 2
    Priority <- MCPriority
    Slots = 1
    Heard = {}
    Debug = FALSE
    None = None
CHECK_DEADLOCK FALSE
PROPERTIES
    Served
