SPECIFICATION Spec
CONSTANTS
    Which = {"modes", "sets", "captures", "link", "codes", "editor"}
    Ops = {"defer", "errdefer", "try", "catch", "return", "leave", "break", "continue", "block", "if", "iferr", "while", "whilecap", "for"}
    MaxSize = 4
    Forms = {"var", "spawn", "join", "detach", "write", "block", "if", "while", "end", "return"}
    MaxText = 8
    Packages = {1, 2}
    CodeSize = 8
    UserNames = {"NotFound", "Denied", "Closed"}
    RuntimeNames = {"Timeout", "Full"}
    MaxMentions = 2
    MaxFuncs = 2
    MaxDepth = 2
    Siblings = 2
    Fns = {"f", "g", "h"}
    Errors = {"NotFound"}
    MaxRounds = 3
    Uris = {"a", "b"}
    MaxMessages = 4
    MaxTasks = 4
CHECK_DEADLOCK FALSE
INVARIANTS
    DualModeAgrees
    DefersNest
    ErrorSetsAreExact
    CaptureCheckIsExact
    LinkKeepsReferences
    ErrorCodesHold
    DiagnosticsMatch
