\* A switch may land between the test and the mark of the slot scan.
SPECIFICATION Spec
CONSTANTS
    NTERM = 2
    NPID = 3
    NSLOT = 2
    Commands = {"prog"}
    ShellsOnly = TRUE
    Windows = {"alloc"}
INVARIANTS
    PidUnique
