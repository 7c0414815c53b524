\* A switch may land between an exception and its halt.
SPECIFICATION Spec
CONSTANTS
    NTERM = 2
    NPID = 3
    NSLOT = 2
    Commands = {"prog"}
    ShellsOnly = TRUE
    Windows = {"fault"}
PROPERTIES
    ExceptionReported
