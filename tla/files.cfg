\* Two terminals, three pids, four descriptors; programs close what they opened.
SPECIFICATION Spec
CONSTANTS
    Terminals = {0, 1}
    Ids = {0, 1, 2}
    MaxDepth = 2
    NFD = 4
    BLOCK = 2
    Dir <- MCDir
    InodeLength <- MCInodeLength
    InodeBlocks <- MCInodeBlocks
    RtcLike = {"rtc"}
    DotLike = {"."}
    Sizes = {0, 1, 2, 5}
    MaxOpen = 2
    Habits = {}
INVARIANTS
    FilesTypeOK
    DescriptorsAreOwn
    ReadsInOrder
