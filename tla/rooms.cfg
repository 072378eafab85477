CONSTANTS
    Conns = {1, 2}
    Identities <- TwoUsers
    Trusting = FALSE
    Anyone = "anyone"
    Values = {"v"}
    Null = Null
    Transports = {"axum", "ws"}
    Kinds = {"socket", "standing"}
    Faults = {"socket", "write", "deny", "crash", "sleep"}
    MaxFaults = 1
    Missed = 1
SPECIFICATION Spec
INVARIANTS
    ToldOfEverybody
    RoomContinues
    NothingCrosses
    OutboxCollected
    DeniedIsNobody
PROPERTIES
    GoneIsGone
CHECK_DEADLOCK FALSE
