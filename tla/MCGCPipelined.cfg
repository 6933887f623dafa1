CONSTANTS
    root = root
    a = a
    b = b
    c = c
    d = d
    s0 = s0
    s1 = s1
    s2 = s2
    s3 = s3
    Vertices <- Four
    Root = root
    Schema <- Shared
    Slots <- FourSlots
    RootSlot = s0
    MaxRows = 6
    MaxTasks = 3
    QuietStage = 2
    DropsInOrder = TRUE
    RepeatDrops = FALSE
    MayFail = {"clear"}

SPECIFICATION Spec
SYMMETRY SlotSymmetry
\* It stops when the clients have written MaxRows rows.
CHECK_DEADLOCK FALSE

INVARIANTS
    NothingLiveCollected
    RefCountsAreReferences
    MapsAgree
    EndsHaveSlots
    ExactAtRest
PROPERTIES
    ImplementsCatalogGC
