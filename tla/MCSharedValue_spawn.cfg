SPECIFICATION Spec
CONSTANTS
    main = main
    w1 = w1
    w2 = w2
    Threads = {main, w1, w2}
    Mutex = Mutex
    Initially <- Variable
    MaxHandles = 3
CHECK_DEADLOCK FALSE
INVARIANTS
    OneThreadAtATime
