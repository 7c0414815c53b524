\* Two terminals, two keys waiting, handlers two deep; one rate that is refused.
SPECIFICATION Spec
CONSTANTS
    Terms = {0, 1}
    Freqs = {1024, 3}
    MAXKEYS = 2
    DEPTH = 3
    Windows = {}
INVARIANTS
    InterruptsTypeOK
    ServiceMatches
    TickNotStuck
    UserInterruptible
    RateAsAsked
PROPERTIES
    ReadAfterTick
    KeyAnswered
    ReadReturns
