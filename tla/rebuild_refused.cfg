CONSTANTS
    TablesOf <- TodoTables
    Indexable <- NoIndex
    Applies <- ThirdRefuses
    ApplyChunk = 1
    MaxVersion = 3
    MaxLog = 3
    MaxCrashes = 0
SPECIFICATION Spec
INVARIANT AsFreshInstall
