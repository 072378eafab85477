CONSTANTS
    Mine <- OwnTwo
    Theirs <- OthersTwo
    Rejects <- AppRejects
    Partial <- ChecksFirst
    Unknown = {}
    ApplyChunk = 1
    Failures = {"crash"}
    MaxFailures = 1
SPECIFICATION Spec
INVARIANTS
    ViewIsReplay
    MirrorIsCurrent
    RowsOnce
PROPERTY DropsAreVerdicts
