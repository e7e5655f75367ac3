SPECIFICATION Spec
CONSTANTS
    Which = {"captures"}
    Ops = {}
    MaxSize = 3
    Forms = {"var", "spawn", "join", "write", "block", "if", "while", "end", "return"}
    MaxText = 6
    Packages = {2}
    CodeSize = 8
    UserNames = {"NotFound", "Denied", "Closed"}
    RuntimeNames = {"Timeout", "Full"}
    MaxMentions = 2
    MaxFuncs = 2
    MaxDepth = 2
    Siblings = 2
    Fns = {"f", "g", "h"}
    Errors = {"NotFound"}
    MaxRounds = 3
    Uris = {"a", "b"}
    MaxMessages = 4
    MaxTasks = 4
CHECK_DEADLOCK FALSE
INVARIANTS
    NoCaptureEscapes
