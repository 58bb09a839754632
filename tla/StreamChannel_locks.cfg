SPECIFICATION Spec
CONSTANTS
    w1 = w1
    w2 = w2
    r1 = r1
    r2 = r2
    NoThread = NoThread
    Writer = {w1, w2}
    Reader = {r1, r2}
    MaxWrites = 2
SYMMETRY ThreadSymmetry
CHECK_DEADLOCK FALSE
INVARIANT FramesUntorn
INVARIANT ReadsWholeFrames
INVARIANT WireInCipherOrder
INVARIANT NoLostWakeup
