\* A file on disk and one in the object store, two threads that scan, two executors.
SPECIFICATION Spec
CONSTANTS
    p = p
    q = q
    e1 = e1
    e2 = e2
    Paths <- TwoPaths
    Remote <- OneOfThem
    PartOf <- ApartParts
    NumParts = 3
    NumThreads = 2
    Executors <- TwoExecutors
    MaxAdds <- OnceTwice
    MaxPosted = 2
    MaxQueue = 1
    ReAdd = FALSE
    HiddenErrors = FALSE
SYMMETRY AnyExecutor
INVARIANTS
    TypeOK ListedFilesAreStored RowsCountLists GarbageIsFound
