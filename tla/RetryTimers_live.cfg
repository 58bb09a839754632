SPECIFICATION FairSpec
CONSTANTS
    e1 = e1
    e2 = e2
    Endpoint = {e1, e2}
    MaxDelay = 3
CHECK_DEADLOCK FALSE
INVARIANT TimersTrackRetries
INVARIANT NeverLate
PROPERTY DeadlineComes
PROPERTY DueIsServed
