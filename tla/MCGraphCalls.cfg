\* Two workers, pages of three vertices that are filled when two are in use.
SPECIFICATION Spec
CONSTANTS
    NumWorkers = 2
    Capacity = 3
    MaxPages = 3
    MaxTasks = 2
    MaxNew = 3
INVARIANTS
    TypeOK RoomIsQueuedOnce VertexHasOneOwner
PROPERTIES JoinsComeLast EveryCallReturns
CHECK_DEADLOCK FALSE
