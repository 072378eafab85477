CONSTANTS
    Builds <- AddedTo
    MaxReleases = 3
    MaxEntries = 1
    Null = Null
SPECIFICATION Spec
INVARIANT ReadAsWritten
CHECK_DEADLOCK FALSE
