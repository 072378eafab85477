CONSTANTS
    Clients = {"c1", "c2"}
    Ops = {"claim"}
    Rejects <- TodoRejects
    Knows <- SameApp
    Users = {"ann", "bob", "cat"}
    Proves <- AnnAndBob
    Permitted <- OwnEntry
    Trusting = TRUE
    IoIsVerdict = TRUE
    BatchLimit = 1
    ApplyChunk = 1
    Faults = {"crash", "disconnect", "restart", "io"}
    MaxAuthored <- OneEach
    MaxFaults = 2
SPECIFICATION FairSpec
PROPERTY Converges
CHECK_DEADLOCK FALSE
