SPECIFICATION Spec
CONSTANTS
    e1 = e1
    e2 = e2
    s1 = s1
    s2 = s2
    UnknownService = UnknownService
    Endpoint = {e1}
    Service = {s1}
    Incoming = {e1}
CHECK_DEADLOCK FALSE
INVARIANT DisconnectCleansUp
