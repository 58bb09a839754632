SPECIFICATION FairSpec
CONSTANTS
    a = a
    b = b
    Caller = {a, b}
    Buffer = 2
CHECK_DEADLOCK FALSE
INVARIANT StoppedHasNoListener
INVARIANT WaitersHaveQueries
PROPERTY CallsReturn
PROPERTY DroppedHandlesStop
