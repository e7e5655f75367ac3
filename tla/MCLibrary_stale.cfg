SPECIFICATION Spec
CONSTANTS
    Which = {"list"}
    Vals = {"a", "b"}
    ListVals = {"a", "b"}
    MaxNodes = 3
    TreeKeys = {1, 2, 3, 4}
    TreeVals = {"a", "b"}
    Caps <- Capacities
    Totals <- Sizes
    Refuses = {FALSE}
    Abuse = TRUE
    Alphabet <- Words
    MaxTokens = 5
    MaxText = 3
    \* Lengths of tokens wrap at 3; a window reaches 7 bytes back and is searched 6.
    Width = 3
    Window = 7
    Scan = 6
    Bytes = {"a", "b"}
    MaxData = 12
CHECK_DEADLOCK FALSE
PROPERTIES
    RemovesOnlyMembers
