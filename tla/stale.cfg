\* The instance of programs.cfg.
SPECIFICATION Spec
CONSTANTS
    COLS = 3
    ROWS = 2
    Letters <- MCLetters
    SPACE = " "
    Inks <- MCInks
    BLANK = " "
    NUL = "/0"
    NL = "/n"
    FILENAME_LEN = 2
    OFFSET = 1
    FRAMELEN = 3
    IMLOC = 5
    IMON = 2
    IMOFF = 1
    WAIT = 5
    Directory <- MCDirectory
    Pictures <- MCPictures
    ELF = "E"
    Lines <- MCLines
    EXIT <- MCExit
    Answers <- MCAnswers
    CountTo <- MCCountTo
    RADIX = 2
    BUFSIZE = 3
    NFREE = 3
    NSLOTS = 2
INVARIANT OnlyExecutables
