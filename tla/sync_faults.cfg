CONSTANTS
    Clients = {"c1", "c2"}
    Ops = {"claim", "once"}
    Rejects <- TodoRejects
    Knows <- OldC2
    Users = {"ann", "bob", "cat"}
    Proves <- AnnAndBob
    Permitted <- OwnEntry
    Trusting = FALSE
    IoIsVerdict = FALSE
    BatchLimit = 1
    ApplyChunk = 1
    Faults = {"lose", "duplicate", "disconnect", "crash", "restart", "io", "deny"}
    MaxAuthored <- OneEach
    MaxFaults = 2
SPECIFICATION Spec
INVARIANTS
    IInv LoggedOnce HeldAgrees BaseIsLog ConfirmedApplies NothingLost
    PendingUnconfirmed LogPermitted RefusalsAreVerdicts
PROPERTY KeepsPromise
CHECK_DEADLOCK FALSE
