CONSTANTS
    TablesOf <- TodoTables
    Indexable <- IndexedColumn
    Applies <- ThirdRefuses
    ApplyChunk = 2
    MaxVersion = 3
    MaxLog = 3
    MaxCrashes = 2
SPECIFICATION FairSpec
INVARIANTS RebuiltUnlessTorn NeverMixed RebuildInv
PROPERTY OpensUnlessRefused
