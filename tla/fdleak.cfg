\* Programs halt with files open, as cat and ls do.
SPECIFICATION Spec
CONSTANTS
    Terminals = {0, 1}
    Ids = {0, 1, 2}
    MaxDepth = 2
    NFD = 4
    BLOCK = 2
    Dir <- MCDir
    InodeLength <- MCInodeLength
    InodeBlocks <- MCInodeBlocks
    RtcLike = {"rtc"}
    DotLike = {"."}
    Sizes = {0, 1, 2, 5}
    MaxOpen = 2
    Habits = {"leave"}
PROPERTIES
    HaltClosesOwn
