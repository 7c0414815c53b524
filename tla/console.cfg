\* Two terminals, three columns, two rows, lines of two characters.
SPECIFICATION Spec
CONSTANTS
    Terms = {0, 1}
    COLS = 3
    ROWS = 2
    SIZE = 2
    WRAP = 4
    PROMPT = 1
    Chars = {"a", "b"}
    Outputs <- MCOutputs
    Requests = {1, 3}
    Windows = {}
INVARIANTS
    ConsoleTypeOK
    LineKept
    EnterNotLost
PROPERTIES
    ReadReturnsOwnLine
    ReadEnds
