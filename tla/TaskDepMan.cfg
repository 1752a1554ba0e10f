SPECIFICATION Spec
CONSTANTS
    NTasks = 3
    Slots = 2
    None = None
    MaxDeps = 3
    MaxStale = 1
    MaxLate = 2
CHECK_DEADLOCK FALSE
INVARIANTS
    Books
PROPERTIES
    ImplementsWorkflow
    StartedEnds
