CONSTANTS
    Builds <- ById
    MaxReleases = 3
    MaxEntries = 1
    Null = Null
SPECIFICATION Spec
INVARIANT AddingIsSafe
CHECK_DEADLOCK FALSE
