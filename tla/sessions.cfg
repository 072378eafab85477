CONSTANTS
    Devices = {d1, d2}
    Users = {ann, bob}
    Modes = {"oidc", "dev"}
    CodeTtl = 1
    PendingTtl = 2
    SessionTtl = 1
    Last = 3
    MaxLogins = 2
    Faults = {"restart", "lost", "provider", "store", "owns"}
    MaxFaults = 1
    Null = Null
SPECIFICATION Spec
INVARIANTS
    HandedOnce
    SessionIsOwn
    KeptIsRecent
    AuthorsKept
CHECK_DEADLOCK FALSE
