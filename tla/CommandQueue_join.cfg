SPECIFICATION FairSpec
CONSTANTS
    a = a
    b = b
    Caller = {a, b}
    Buffer = 1
CHECK_DEADLOCK FALSE
PROPERTY StopListenerReturns
