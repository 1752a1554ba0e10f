SPECIFICATION Spec
CONSTANTS
    t1 = t1
    t2 = t2
    t3 = t3
    c1 = c1
    c2 = c2
    Tasks <- MCTasks
    Clients <- MCClients
    Owner = Owner
    NPri = 2
    Priority <- MCPriority
    Slots = 2
    Heard = {t3}
    Debug = TRUE
    None = None
SYMMETRY MCSymmetry
CHECK_DEADLOCK FALSE
INVARIANTS
    TasksAccounted
    SlotsUsedWell
    LastEventIsCurrent
