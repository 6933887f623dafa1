CONSTANTS
    root = root
    a = a
    b = b
    c = c
    d = d
    s0 = s0
    s1 = s1
    s2 = s2
    s3 = s3
    Vertices <- Three
    Root = root
    Schema <- Pair
    Slots <- ThreeSlots
    RootSlot = s0
    MaxRows = 5
    MaxTasks = 2
    QuietStage = 2
    DropsInOrder = TRUE
    RepeatDrops = FALSE
    MayFail = {"clear"}

SPECIFICATION FairSpec
\* It stops when the clients have written MaxRows rows.
CHECK_DEADLOCK FALSE

PROPERTIES
    EventuallyCollected
