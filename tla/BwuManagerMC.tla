---------------------------- MODULE BwuManagerMC ----------------------------
(* Small instances of BwuManager for TLC.                                    *)
EXTENDS BwuManager, TLC

CONSTANTS e1, e2, c1, c2, c3

LanThenHotspot == {<<"WIFI_LAN", "WIFI_HOTSPOT">>}
HotspotOnly == {<<"WIFI_HOTSPOT">>}

\* Channel identities carry no meaning.
ChannelSymmetry == Permutations(Channel)

\* Every endpoint connected over the base medium with its preferences set: the state
\* Connect, ConnectionAccepted and SetUpgradeMediums lead to.
BaseChannel(e) == IF e = e1 THEN c1 ELSE c2

ConnectedInit ==
    /\ stage     = [e \in Endpoint |-> "up"]
    /\ connected = Endpoint
    /\ prefs \in [Endpoint -> PrefLists]
    /\ ecm       = [e \in Endpoint |-> BaseChannel(e)]
    /\ LET base == {BaseChannel(e) : e \in Endpoint} IN
       /\ chan = [c \in Channel |-> IF c \in base THEN "open" ELSE "unused"]
       /\ medium \in {f \in [Channel -> BaseMedium \cup {Unknown}] :
                         \A c \in Channel : f[c] = Unknown <=> c \notin base}
    /\ wrapped = {} /\ prior = [c \in Channel |-> None] /\ reported = {}
    /\ bwuMedium = [e \in Endpoint |-> Unknown] /\ inProgress = {} /\ latch = {}
    /\ previous = [e \in Endpoint |-> None]
    /\ alarm = [e \in Endpoint |-> 0] /\ delay = [e \in Endpoint |-> 0]
    /\ active = [m \in Handlers |-> {}] /\ owner = "running"

ConnectedSpec == ConnectedInit /\ [][Next]_vars
=============================================================================
