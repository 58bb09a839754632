SPECIFICATION Spec
CONSTANTS
    e1 = e1
    e2 = e2
    c1 = c1
    c2 = c2
    c3 = c3
    None = None
    Endpoint = {e1}
    Incoming = {}
    Channel = {c1, c2, c3}
    Medium = {"BLUETOOTH", "WIFI_LAN", "WIFI_HOTSPOT"}
    Handlers = {"WIFI_LAN", "WIFI_HOTSPOT"}
    BaseMedium = {"BLUETOOTH"}
    PrefLists <- LanThenHotspot
    Multi = FALSE
    ExpBackoff = TRUE
    InitialDelay = 1
    MaxDelay = 2
SYMMETRY ChannelSymmetry
CHECK_DEADLOCK FALSE
INVARIANT NoInterleavedChannels
INVARIANT ParkedUnderItsSuccessor
INVARIANT LatchConsumedByParking
INVARIANT BlockedOnlyInSwap
PROPERTY ReportsTheSwap
