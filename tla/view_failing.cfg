CONSTANTS
    Mine <- OwnTwo
    Theirs <- OthersOne
    Rejects <- DraftRejects
    Partial <- WritesFirst
    Unknown = {}
    ApplyChunk = 2
    Failures = {"state", "intents", "crash"}
    MaxFailures = 2
SPECIFICATION Spec
INVARIANTS
    DiskIsConfirmed
    ViewIsWhole
PROPERTY FirstDropIsVerdict
