SPECIFICATION RuntimeSpec
CONSTANTS
    Workers = {w1, w2}
    MaxGid = 2
    MayPanic = {2}
    Drains = {TRUE, FALSE}
SYMMETRY Symmetry
CHECK_DEADLOCK FALSE
INVARIANTS
    EndSkipsDetached
