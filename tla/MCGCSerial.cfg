CONSTANTS
    root = root
    a = a
    b = b
    c = c
    d = d
    s0 = s0
    s1 = s1
    s2 = s2
    s3 = s3
    Vertices <- Four
    Root = root
    Schema <- Shared
    Slots <- FourSlots
    RootSlot = s0
    MaxRows = 7
    MaxTasks = 1
    QuietStage = 6
    DropsInOrder = FALSE
    RepeatDrops = TRUE
    MayFail = {"clear", "sources", "dests", "ents", "unacknowledged"}

SPECIFICATION Spec
SYMMETRY SlotSymmetry
\* It stops when the clients have written MaxRows rows.
CHECK_DEADLOCK FALSE

INVARIANTS
    TypeOK
    RefCountsAreReferences
    MapsAgree
    EndsHaveSlots
    NothingLiveCollected
    ExactAtRest
