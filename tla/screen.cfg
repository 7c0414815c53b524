\* Two terminals, a screen of two columns and two rows on pages of five cells.
SPECIFICATION Spec
CONSTANTS
    NUM_TERM = 2
    COLS = 2
    ROWS = 2
    PAGE = 5
    Chars = {"a", "p"}
    PROMPT <- MCPrompt
    Outputs <- MCOutputs
    Drawn = {3}
    Windows = {}
INVARIANTS
    ScreenTypeOK
    ShowsOwnText
PROPERTIES
    OnlyDisplayedChanges
