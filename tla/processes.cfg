\* Two terminals, four pids, three processes per terminal; only shells launch, what they
\* launch may not load, and no terminal switch lands in a window.
SPECIFICATION Spec
CONSTANTS
    NTERM = 2
    NPID = 4
    NSLOT = 3
    Commands = {"shell", "prog", "bad", "toolong"}
    ShellsOnly = TRUE
    Windows = {}
INVARIANTS
    TypeOK
    PidUnique
    SlotsAccounted
    ListIsStack
    ParentIsBelow
    LastShellIsTopmost
    UserIsCoherent
    HiddenIsResumable
    NeverLost
PROPERTIES
    ExceptionReported
    OnlyShownChanges
    ImplementsStacks
    ShellFollows
