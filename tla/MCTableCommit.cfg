\* Two clients and two tables, requests sent again, old versions expiring.
SPECIFICATION Spec
CONSTANTS
    a = a
    b = b
    t1 = t1
    t2 = t2
    Clients <- TwoClients
    Tables <- TwoTables
    MaxVid = 2
    MaxTries = 1
    MaxStmts = 2
    MaxSends = 2
    RetainLast = {0}
    LateClients = FALSE
    Misuse = {}
SYMMETRY Interchangeable
INVARIANTS
    TypeOK HeadIsNewest YesMeansCommitted NoMeansNothing LandsOnce
PROPERTIES ImplementsTableLog
CHECK_DEADLOCK FALSE
