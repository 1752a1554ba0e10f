SPECIFICATION FairSpec
CONSTANTS
    m1 = m1
    m2 = m2
    m3 = m3
    m4 = m4
    s1 = s1
    s2 = s2
    r1 = r1
    r2 = r2
    Msgs <- MCMsgs
    Senders <- MCSenders
    Receivers <- MCReceivers
    NPri = 3
    Capacity = 3
    PoolCap = 2
INVARIANTS
    ObjectsConserved
    WakeUpsExact
PROPERTIES
    ImplementsMailbox
    NoneIsForgotten
