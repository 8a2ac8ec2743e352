CONSTANTS
    glibc = glibc
    jemalloc = jemalloc
    Packages <- MCPackages
    Swapped <- MCSwapped
    MaxRetries = 3
SPECIFICATION Spec
CHECK_DEADLOCK FALSE
INVARIANTS
    RestoredCompletely
    PonrCrossedValidated
    SuccessMeansReplaced
    ChildWorksAlone
PROPERTIES
    RunEnds
