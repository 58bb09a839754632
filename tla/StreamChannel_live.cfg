SPECIFICATION FairSpec
CONSTANTS
    w1 = w1
    w2 = w2
    r1 = r1
    r2 = r2
    NoThread = NoThread
    Writer = {w1, w2}
    Reader = {r1}
    MaxWrites = 1
CHECK_DEADLOCK FALSE
PROPERTY DecodesInOrder
PROPERTY WritesReturn
PROPERTY CloseEndsReads
