SPECIFICATION PartsFairSpec
CONSTANTS
    Parts = {"containers"}
    \* the program alone, and with one thread
    Interps = {"main", "child"}
    MaxHandles = 2
    MaxWrites = 2
    Bodies = {"a", "b", "c"}
    MayAwait <- Inner
    Results = {"v1", "v2"}
    MaxRuns = 5
    \* tests 1 and 3 run in threads, 2 does not
    N = 3
    Threaded = {1, 3}
    Timed = {2}
    MayHang = {1, 3}
    Spawners = {1, 2}
    IrWorkers = {"w1", "w2"}
    IrGids = 2
    Workers = {"w1", "w2", "w3"}
    MaxGid = 4
    MayPanic = {2, 3}
    Capacity = 1
    Role <- Calls
    None = "none"
    Value = "v"
CHECK_DEADLOCK FALSE
PROPERTIES
    SharedBetweenThreads
