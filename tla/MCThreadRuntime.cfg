SPECIFICATION RuntimeFairSpec
CONSTANTS
    Workers = {w1}
    MaxGid = 2
    MayPanic = {1, 2}
    Drains = {TRUE, FALSE}
CHECK_DEADLOCK FALSE
INVARIANTS
    DoneHasResult
    EarlyCancelHolds
    EndAwaitsAttached
    DropCutsNothing
    IsDoneTells
PROPERTIES
    JoinTerminates
    ProgramTerminates
