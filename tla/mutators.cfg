CONSTANTS
    Peers = {"p", "q"}
    Modules <- FourModules
    MaxWrites = 2
    MaxLoads = 2
    MaxCalls = 4
    Null = Null
SPECIFICATION Spec
INVARIANTS LentWhileWaiting ReportedIsWritten BuffersGivenBack
CHECK_DEADLOCK FALSE
