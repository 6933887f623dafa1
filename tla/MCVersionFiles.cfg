\* Versions of two lists expire in any order, the first one too; rows are not
\* deleted, moves fail, and clients commit on versions that are gone.
SPECIFICATION Spec
CONSTANTS
    MaxList = 2
    MaxVid = 5
    MaxFiles = 2
    Stay = {"newest"}
    OldestFirst = FALSE
    StaleCommits = TRUE
    MayFail = {"ents", "moves"}
INVARIANTS TypeOK FilesAreAccessible 
CHECK_DEADLOCK FALSE
