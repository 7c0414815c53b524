\* The screen of screen.cfg, with keys between the accesses of putc.
SPECIFICATION Spec
CONSTANTS
    NUM_TERM = 2
    COLS = 2
    ROWS = 2
    PAGE = 5
    Chars = {"a", "p"}
    PROMPT <- MCPrompt
    Outputs <- MCOutputs
    Drawn = {3}
    Windows = {"printf"}
INVARIANTS
    CursorOnScreen
