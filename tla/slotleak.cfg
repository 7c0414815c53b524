\* A shell is given names longer than 32 characters.
SPECIFICATION Spec
CONSTANTS
    NTERM = 2
    NPID = 3
    NSLOT = 2
    Commands = {"prog", "toolong"}
    ShellsOnly = TRUE
    Windows = {}
INVARIANTS
    NoSlotLost
