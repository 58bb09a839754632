SPECIFICATION ConnectedSpec
CONSTANTS
    e1 = e1
    e2 = e2
    c1 = c1
    c2 = c2
    c3 = c3
    None = None
    Endpoint = {e1}
    Incoming = {e1}
    Channel = {c1, c2, c3}
    Medium = {"BLUETOOTH", "WIFI_HOTSPOT"}
    Handlers = {"WIFI_HOTSPOT"}
    BaseMedium = {"BLUETOOTH"}
    PrefLists <- HotspotOnly
    Multi = TRUE
    ExpBackoff = TRUE
    InitialDelay = 1
    MaxDelay = 2
SYMMETRY ChannelSymmetry
CHECK_DEADLOCK FALSE
INVARIANT OwnerNeverWedged
