\* The promise itself, on a graph with a shared entity.
SPECIFICATION Spec
CONSTANTS
    root = root
    a = a
    b = b
    c = c
    Vertices <- Four
    Root = root
    Schema <- Diamond
INVARIANTS InUseIsThere NothingDangles
CHECK_DEADLOCK FALSE
