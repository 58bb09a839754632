------------------------- MODULE FrameExchangeProofs -------------------------
(***************************************************************************)
(* Proofs about FrameExchange: every offer leads to its listener and is    *)
(* accepted when usable, handshake frames and connection requests read     *)
(* back, payload frames are taken when genuine and refused when stray.     *)
(*                                                                         *)
(* The proofs follow the frame.  The lemmas on enumerations and builders   *)
(* say what a receiver reads of what was written; those on offers and on   *)
(* sends say it of every frame an action puts in flight; the invariant     *)
(* FramesInv carries it to the step that receives the frame.               *)
(***************************************************************************)
EXTENDS FrameExchange, FiniteSetTheorems, WellFoundedInduction, TLAPS

-------------------------------------------------------------------------------
(* Enumerations *)

\* The number of a frame type is read as that type (get_frame_type).
LEMMA ReadsType ==
    ASSUME NEW t \in DOMAIN FrameType, NEW d
    PROVE  TryFrom(FrameType, FrameType[t], d) = t
  <1>1. \A u \in DOMAIN FrameType : FrameType[u] = FrameType[t] => u = t
    BY DEF FrameType
  <1> QED
    BY <1>1 DEF TryFrom, Known

\* The number of a packet type is read as that packet type.
LEMMA ReadsPacket ==
    ASSUME NEW t \in DOMAIN PacketType, NEW d
    PROVE  TryFrom(PacketType, PacketType[t], d) = t
  <1>1. \A u \in DOMAIN PacketType : PacketType[u] = PacketType[t] => u = t
    BY DEF PacketType
  <1> QED
    BY <1>1 DEF TryFrom, Known

\* The number of a negotiation event is read as that event.
LEMMA ReadsEvent ==
    ASSUME NEW t \in DOMAIN EventType, NEW d
    PROVE  TryFrom(EventType, EventType[t], d) = t
  <1>1. \A u \in DOMAIN EventType : EventType[u] = EventType[t] => u = t
    BY DEF EventType
  <1> QED
    BY <1>1 DEF TryFrom, Known

\* The number of a medium in a connection request is read as that medium.
LEMMA ReadsRequestMedium ==
    ASSUME NEW t \in Medium, NEW d
    PROVE  TryFrom(RequestMedium, RequestMedium[t], d) = t
  <1>1. \A u \in Medium : RequestMedium[u] = RequestMedium[t] => u = t
    BY DEF RequestMedium, Medium
  <1> QED
    BY <1>1 DEF TryFrom, Known, Medium

\* The number of a medium in an upgrade path is read as that medium.
LEMMA ReadsPathMedium ==
    ASSUME NEW t \in DOMAIN PathMedium, NEW d
    PROVE  TryFrom(PathMedium, PathMedium[t], d) = t
  <1>1. \A u \in DOMAIN PathMedium : PathMedium[u] = PathMedium[t] => u = t
    BY DEF RequestMedium, Medium, PathMedium
  <1> QED
    BY <1>1 DEF TryFrom, Known, Medium

-------------------------------------------------------------------------------
(* Frames *)

\* A frame of encode_v1 has its version and its type, and its sub-message as it was given.
LEMMA Encoded ==
    ASSUME NEW type \in DOMAIN FrameType, NEW sub
    PROVE  LET f == EncodeV1(type, sub)
           IN  /\ DOMAIN f = {"version", "v1"} /\ f # NoFields
               /\ GetFrameType(f) = type
               /\ DOMAIN f.v1 = {"type"} \cup DOMAIN sub
               /\ \A x \in DOMAIN sub \ {"type"} : f.v1[x] = sub[x]
  <1> DEFINE f == EncodeV1(type, sub)
             t == [type |-> FrameType[type]]
  <1>1. DOMAIN f = {"version", "v1"} /\ f.version = 1 /\ f.v1 = t ++ sub
    BY DEF EncodeV1, Version
  <1>2. DOMAIN t = {"type"} /\ t.type = FrameType[type]
    OBVIOUS
  <1> HIDE DEF f, t
  <1>3. /\ DOMAIN f.v1 = {"type"} \cup DOMAIN sub
        /\ f.v1.type = FrameType[type]
        /\ \A x \in DOMAIN sub \ {"type"} : f.v1[x] = sub[x]
    BY <1>1, <1>2 DEF ++
  <1>4. f # NoFields
    BY <1>1 DEF NoFields
  <1>5. GetFrameType(f) = type
    BY <1>1, <1>3, ReadsType DEF GetFrameType, Has, Get, Version
  <1> QED
    BY <1>1, <1>3, <1>4, <1>5 DEF f

\* The number of a Wi-Fi Direct authentication type is read as that type.
LEMMA ReadsAuth ==
    ASSUME NEW t \in DOMAIN AuthType, NEW d
    PROVE  TryFrom(AuthType, AuthType[t], d) = t
  <1>1. \A u \in DOMAIN AuthType : AuthType[u] = AuthType[t] => u = t
    BY DEF AuthType
  <1> QED
    BY <1>1 DEF TryFrom, Known

\* f is the frame ForNegotiation builds of event and sub.
IsNegotiation(f, event, sub) ==
    LET n == Negotiation(f)
    IN  /\ f # NoFields
        /\ DOMAIN f = {"version", "v1"}
        /\ DOMAIN f.v1 = {"type", "bandwidth_upgrade_negotiation"}
        /\ GetFrameType(f) = "BANDWIDTH_UPGRADE_NEGOTIATION"
        /\ DOMAIN n = {"event_type"} \cup DOMAIN sub
        /\ n.event_type = EventType[event]
        /\ TryFrom(EventType, n.event_type, "none") = event
        /\ \A x \in DOMAIN sub \ {"event_type"} : n[x] = sub[x]
        /\ FromBytes(f) = Verdict(EnsureValidNegotiation(n))

\* What for_bwu_* builders have in common: their event is read back, their fields are as they were
\* given, and the validator looks at nothing but the negotiation.
LEMMA Negotiated ==
    ASSUME NEW event \in DOMAIN EventType, NEW sub
    PROVE  IsNegotiation(ForNegotiation(event, sub), event, sub)
  <1> DEFINE f == ForNegotiation(event, sub)
             n == Negotiation(f)
             e == [event_type |-> EventType[event]]
             b == [bandwidth_upgrade_negotiation |-> e ++ sub]
  <1>1. f = EncodeV1("BANDWIDTH_UPGRADE_NEGOTIATION", b)
    BY DEF ForNegotiation
  <1>2. "BANDWIDTH_UPGRADE_NEGOTIATION" \in DOMAIN FrameType
    BY DEF FrameType
  <1>3. /\ DOMAIN b = {"bandwidth_upgrade_negotiation"}
        /\ b["bandwidth_upgrade_negotiation"] = e ++ sub
    OBVIOUS
  <1>4. /\ DOMAIN f = {"version", "v1"} /\ f # NoFields
        /\ GetFrameType(f) = "BANDWIDTH_UPGRADE_NEGOTIATION"
        /\ DOMAIN f.v1 = {"type"} \cup DOMAIN b
        /\ \A x \in DOMAIN b \ {"type"} : f.v1[x] = b[x]
    <2> HIDE DEF b
    <2> QED BY <1>1, <1>2, Encoded DEF f
  <1>5. DOMAIN e = {"event_type"} /\ e["event_type"] = EventType[event]
    OBVIOUS
  <1> HIDE DEF f, b, e
  <1>6. n = e ++ sub
    BY <1>3, <1>4 DEF Negotiation
  <1>7. /\ DOMAIN n = {"event_type"} \cup DOMAIN sub
        /\ n["event_type"] = EventType[event]
        /\ \A x \in DOMAIN sub \ {"event_type"} : n[x] = sub[x]
    BY <1>5, <1>6 DEF ++
  <1>8. TryFrom(EventType, n.event_type, "none") = event
    BY <1>7, ReadsEvent
  <1>9. FromBytes(f) = Verdict(EnsureValidNegotiation(f.v1["bandwidth_upgrade_negotiation"]))
    BY <1>3, <1>4 DEF FromBytes, EnsureValidOfflineFrame, Has
  <1> QED
    BY <1>3, <1>4, <1>7, <1>8, <1>9 DEF f, Negotiation, IsNegotiation

\* The validator accepts every negotiation frame but an offer, whatever it carries.
LEMMA ControlAccepted ==
    ASSUME NEW event \in DOMAIN EventType \ {"UPGRADE_PATH_AVAILABLE"}, NEW sub,
           event = "CLIENT_INTRODUCTION" =>
               /\ "client_introduction" \in DOMAIN sub
               /\ "endpoint_id" \in DOMAIN sub["client_introduction"]
    PROVE  FromBytes(ForNegotiation(event, sub)) = "Success"
  <1> DEFINE f == ForNegotiation(event, sub)
             n == Negotiation(f)
  <1>1. event \in DOMAIN EventType
    OBVIOUS
  <1>2. /\ DOMAIN n = {"event_type"} \cup DOMAIN sub
        /\ n.event_type = EventType[event]
        /\ TryFrom(EventType, n.event_type, "none") = event
        /\ \A x \in DOMAIN sub \ {"event_type"} : n[x] = sub[x]
        /\ FromBytes(f) = Verdict(EnsureValidNegotiation(n))
    <2>1. IsNegotiation(f, event, sub)
      BY <1>1, Negotiated
    <2> HIDE DEF f
    <2> QED
      BY <2>1 DEF IsNegotiation
  <1> HIDE DEF f, n
  <1>3. Get(n, "event_type", -1) = n.event_type
    BY <1>2 DEF Get
  <1>4. Known(EventType, n.event_type)
    BY <1>2 DEF Known
  <1>5. EnsureValidNegotiation(n)
    BY <1>2, <1>3, <1>4 DEF EnsureValidNegotiation, EnsureValidClientIntroduction, Has
  <1> QED
    BY <1>2, <1>5 DEF Verdict, f

\* It accepts an UPGRADE_FAILURE whatever path is sent back in it.
LEMMA FailureAccepted ==
    ASSUME NEW info
    PROVE  LET f == ForBwuFailure(info)
           IN  /\ f # NoFields
               /\ Negotiation(f).event_type = EventType["UPGRADE_FAILURE"]
               /\ Negotiation(f).upgrade_path_info = info
               /\ FromBytes(f) = "Success"
  <1>1. "UPGRADE_FAILURE" \in DOMAIN EventType \ {"UPGRADE_PATH_AVAILABLE"}
    BY DEF EventType
  <1> DEFINE sub == [upgrade_path_info |-> info]
             f == ForNegotiation("UPGRADE_FAILURE", sub)
  <1> HIDE DEF sub
  <1>2. FromBytes(f) = "Success"
    BY <1>1, ControlAccepted
  <1>3. IsNegotiation(f, "UPGRADE_FAILURE", sub)
    BY <1>1, Negotiated
  <1> HIDE DEF f
  <1>4. f # NoFields /\ Negotiation(f).event_type = EventType["UPGRADE_FAILURE"]
    BY <1>3 DEF IsNegotiation
  <1>5. Negotiation(f).upgrade_path_info = info
    BY <1>3 DEF IsNegotiation, sub
  <1> QED
    BY <1>2, <1>4, <1>5, Zenon DEF ForBwuFailure, f, sub

\* The path of an offer names its medium, and carries its credentials as they were given.
LEMMA Offered ==
    ASSUME NEW m \in DOMAIN PathMedium, NEW sub, {"medium", "supports_client_introduction_ack"} \cap DOMAIN sub = {}
    PROVE  LET f == BwuUpgradePathAvailable(m, sub)
               info == Negotiation(f).upgrade_path_info
           IN  /\ f # NoFields
               /\ Negotiation(f).event_type = EventType["UPGRADE_PATH_AVAILABLE"]
               /\ UpiMedium(info) = m
               /\ \A x \in DOMAIN sub : Has(info, x) /\ info[x] = sub[x]
               /\ EnsureValidPathAvailable(info) => FromBytes(f) = "Success"
               /\ Has(info, "medium") /\ info.medium = PathMedium[m]
               /\ Known(PathMedium, info.medium)
               /\ TryFrom(PathMedium, info.medium, "UNKNOWN_MEDIUM") = m
  <1> DEFINE i == [medium |-> PathMedium[m], supports_client_introduction_ack |-> TRUE]
             u == [upgrade_path_info |-> i ++ sub]
             f == ForNegotiation("UPGRADE_PATH_AVAILABLE", u)
             n == Negotiation(f)
             info == n.upgrade_path_info
  <1>1. "UPGRADE_PATH_AVAILABLE" \in DOMAIN EventType
    BY DEF EventType
  <1>2. DOMAIN u = {"upgrade_path_info"} /\ u["upgrade_path_info"] = i ++ sub
    OBVIOUS
  <1>3. /\ DOMAIN i = {"medium", "supports_client_introduction_ack"}
        /\ i["medium"] = PathMedium[m]
    OBVIOUS
  <1> HIDE DEF u, i
  <1>4. /\ f # NoFields
        /\ DOMAIN n = {"event_type"} \cup DOMAIN u
        /\ n.event_type = EventType["UPGRADE_PATH_AVAILABLE"]
        /\ TryFrom(EventType, n.event_type, "none") = "UPGRADE_PATH_AVAILABLE"
        /\ \A x \in DOMAIN u \ {"event_type"} : n[x] = u[x]
        /\ FromBytes(f) = Verdict(EnsureValidNegotiation(n))
    <2>1. IsNegotiation(f, "UPGRADE_PATH_AVAILABLE", u)
      BY <1>1, Negotiated
    <2> HIDE DEF f
    <2> QED
      BY <2>1 DEF IsNegotiation
  <1> HIDE DEF f, n
  <1>5. info = i ++ sub
    BY <1>2, <1>4
  <1> HIDE DEF info
  <1>6. /\ "medium" \in DOMAIN info /\ info["medium"] = PathMedium[m]
        /\ \A x \in DOMAIN sub : x \in DOMAIN info /\ info[x] = sub[x]
    BY <1>3, <1>5 DEF ++
  <1>7. TryFrom(PathMedium, info.medium, "UNKNOWN_MEDIUM") = m
    BY <1>6, ReadsPathMedium
  <1>8. Known(PathMedium, info.medium)
    BY <1>6 DEF Known
  <1>9. UpiMedium(info) = m
    BY <1>6, <1>7 DEF UpiMedium, UpgradePathInfoMediumToMedium, Has
  <1>10. Get(n, "event_type", -1) = n.event_type /\ Known(EventType, n.event_type)
    BY <1>1, <1>4 DEF Get, Known
  <1>11. ASSUME EnsureValidPathAvailable(info) PROVE FromBytes(f) = "Success"
    <2>1. EnsureValidNegotiation(n)
      BY <1>2, <1>4, <1>10, <1>11 DEF EnsureValidNegotiation, Has, info
    <2> QED
      BY <1>4, <2>1 DEF Verdict
  <1> QED
    BY <1>4, <1>6, <1>7, <1>8, <1>9, <1>11 DEF f, n, info, u, i, Has, BwuUpgradePathAvailable

-------------------------------------------------------------------------------
(* Offers *)

\* f is an offer that names medium m and, when dialled, leads to an address in at.
OfferSound(m, f, at) ==
    LET info == Negotiation(f).upgrade_path_info
    IN  /\ f # NoFields
        /\ Negotiation(f).event_type = EventType["UPGRADE_PATH_AVAILABLE"]
        /\ UpiMedium(info) = m
        /\ m = "WIFI_LAN" =>
              \A a \in DialWifiLan(info) : a.port # 0 => a \in at
        /\ m = "WIFI_HOTSPOT" =>
              \A a \in DialHotspot(info) : a.port # 0 => a \in at

\* An offer of the LAN is sound when the address in its socket, if a remote can dial it, is among
\* those listened on; it is accepted when its socket is valid.
LEMMA LanSound ==
    ASSUME NEW s, NEW at,
           /\ "ip_address" \in DOMAIN s /\ Len(s.ip_address) = 4
           /\ "wifi_port" \in DOMAIN s /\ s.wifi_port \in 1..U16_MAX
           => Address(s.ip_address, s.wifi_port) \in at
    PROVE  LET f == BwuUpgradePathAvailable("WIFI_LAN", [wifi_lan_socket |-> s])
           IN  OfferSound("WIFI_LAN", f, at) /\ (EnsureValidWifiLan(s) => FromBytes(f) = "Success")
  <1> DEFINE sub == [wifi_lan_socket |-> s]
             f == BwuUpgradePathAvailable("WIFI_LAN", sub)
             info == Negotiation(f).upgrade_path_info
  <1>1. "WIFI_LAN" \in DOMAIN PathMedium
    BY DEF PathMedium, Medium, RequestMedium
  <1>2. DOMAIN sub = {"wifi_lan_socket"} /\ sub["wifi_lan_socket"] = s
    OBVIOUS
  <1> HIDE DEF sub
  <1>3. /\ f # NoFields
        /\ Negotiation(f).event_type = EventType["UPGRADE_PATH_AVAILABLE"]
        /\ UpiMedium(info) = "WIFI_LAN"
        /\ \A x \in DOMAIN sub : Has(info, x) /\ info[x] = sub[x]
        /\ EnsureValidPathAvailable(info) => FromBytes(f) = "Success"
        /\ Has(info, "medium")
        /\ Known(PathMedium, info.medium)
        /\ TryFrom(PathMedium, info.medium, "UNKNOWN_MEDIUM") = "WIFI_LAN"
    BY <1>1, <1>2, Offered
  <1> HIDE DEF f, info
  <1>4. "wifi_lan_socket" \in DOMAIN info /\ info["wifi_lan_socket"] = s
    BY <1>2, <1>3 DEF Has
  <1>5. ASSUME NEW a \in DialWifiLan(info), a.port # 0 PROVE a \in at
    <2>1. Get(info, "wifi_lan_socket", NoFields) = s
      BY <1>4 DEF Get
    <2>2. /\ "ip_address" \in DOMAIN s /\ Len(s.ip_address) = 4
          /\ "wifi_port" \in DOMAIN s /\ s.wifi_port \in 0..U16_MAX
          /\ a = Address(s.ip_address, s.wifi_port)
      BY <1>5, <2>1 DEF DialWifiLan, Has, Get, IsU16
    <2>3. a.port = s.wifi_port
      BY <2>2 DEF Address
    <2> QED
      BY <1>5, <2>2, <2>3
  <1>6. ASSUME EnsureValidWifiLan(s) PROVE EnsureValidPathAvailable(info)
    BY <1>3, <1>4, <1>6 DEF EnsureValidPathAvailable, Has, Get
  <1> QED
    BY <1>3, <1>5, <1>6 DEF OfferSound, f, info, sub

\* The same of the gateway and port in the credentials of a hotspot.
LEMMA HotspotSound ==
    ASSUME NEW c, NEW at,
           /\ "gateway" \in DOMAIN c /\ Parses(c.gateway)
           /\ "port" \in DOMAIN c /\ c.port \in 1..U16_MAX
           => Address(Parse(c.gateway), c.port) \in at
    PROVE  LET f == BwuUpgradePathAvailable("WIFI_HOTSPOT", [wifi_hotspot_credentials |-> c])
           IN  OfferSound("WIFI_HOTSPOT", f, at) /\ (EnsureValidHotspot(c) => FromBytes(f) = "Success")
  <1> DEFINE sub == [wifi_hotspot_credentials |-> c]
             f == BwuUpgradePathAvailable("WIFI_HOTSPOT", sub)
             info == Negotiation(f).upgrade_path_info
  <1>1. "WIFI_HOTSPOT" \in DOMAIN PathMedium
    BY DEF PathMedium, Medium, RequestMedium
  <1>2. DOMAIN sub = {"wifi_hotspot_credentials"} /\ sub["wifi_hotspot_credentials"] = c
    OBVIOUS
  <1> HIDE DEF sub
  <1>3. /\ f # NoFields
        /\ Negotiation(f).event_type = EventType["UPGRADE_PATH_AVAILABLE"]
        /\ UpiMedium(info) = "WIFI_HOTSPOT"
        /\ \A x \in DOMAIN sub : Has(info, x) /\ info[x] = sub[x]
        /\ EnsureValidPathAvailable(info) => FromBytes(f) = "Success"
        /\ Has(info, "medium")
        /\ Known(PathMedium, info.medium)
        /\ TryFrom(PathMedium, info.medium, "UNKNOWN_MEDIUM") = "WIFI_HOTSPOT"
    BY <1>1, <1>2, Offered
  <1> HIDE DEF f, info
  <1>4. "wifi_hotspot_credentials" \in DOMAIN info /\ info["wifi_hotspot_credentials"] = c
    BY <1>2, <1>3 DEF Has
  <1>5. ASSUME NEW a \in DialHotspot(info), a.port # 0 PROVE a \in at
    <2>1. Get(info, "wifi_hotspot_credentials", NoFields) = c
      BY <1>4 DEF Get
    <2>2. /\ "gateway" \in DOMAIN c /\ Parses(c.gateway)
          /\ "port" \in DOMAIN c /\ c.port \in 0..U16_MAX
          /\ a = Address(Parse(c.gateway), c.port)
      BY <1>5, <2>1 DEF DialHotspot, Has, Get, IsU16
    <2>3. a.port = c.port
      BY <2>2 DEF Address
    <2> QED
      BY <1>5, <2>2, <2>3
  <1>6. ASSUME EnsureValidHotspot(c) PROVE EnsureValidPathAvailable(info)
    BY <1>3, <1>4, <1>6 DEF EnsureValidPathAvailable, Has, Get
  <1> QED
    BY <1>3, <1>5, <1>6 DEF OfferSound, f, info, sub

\* The fields of a path over medium m that the validator asks for.
Credentialed(m, sub) ==
    /\ m = "WIFI_AWARE" => "wifi_aware_credentials" \in DOMAIN sub
                           /\ EnsureValidWifiAware(sub["wifi_aware_credentials"])
    /\ m = "WIFI_DIRECT" => "wifi_direct_credentials" \in DOMAIN sub
                           /\ EnsureValidWifiDirect(sub["wifi_direct_credentials"])
    /\ m = "BLUETOOTH" => "bluetooth_credentials" \in DOMAIN sub
                           /\ EnsureValidBluetooth(sub["bluetooth_credentials"])
    /\ m = "WEB_RTC" => "web_rtc_credentials" \in DOMAIN sub
                           /\ EnsureValidWebRtc(sub["web_rtc_credentials"])

\* The other mediums have no address in their path; the offer is accepted with valid credentials.
LEMMA OtherSound ==
    ASSUME NEW m \in DOMAIN PathMedium \ {"WIFI_LAN", "WIFI_HOTSPOT"}, NEW sub,
           {"medium", "supports_client_introduction_ack"} \cap DOMAIN sub = {}, NEW at
    PROVE  LET f == BwuUpgradePathAvailable(m, sub)
           IN  OfferSound(m, f, at) /\ (Credentialed(m, sub) => FromBytes(f) = "Success")
  <1> DEFINE f == BwuUpgradePathAvailable(m, sub)
             info == Negotiation(f).upgrade_path_info
  <1>1. /\ f # NoFields
        /\ Negotiation(f).event_type = EventType["UPGRADE_PATH_AVAILABLE"]
        /\ UpiMedium(info) = m
        /\ \A x \in DOMAIN sub : Has(info, x) /\ info[x] = sub[x]
        /\ EnsureValidPathAvailable(info) => FromBytes(f) = "Success"
        /\ Has(info, "medium")
        /\ Known(PathMedium, info.medium)
        /\ TryFrom(PathMedium, info.medium, "UNKNOWN_MEDIUM") = m
    BY Offered
  <1> HIDE DEF f, info
  <1>2. ASSUME Credentialed(m, sub) PROVE EnsureValidPathAvailable(info)
    BY <1>1, <1>2 DEF Credentialed, EnsureValidPathAvailable, Has, Get
  <1> QED
    BY <1>1, <1>2 DEF OfferSound, f, info

\* An offer of OfferNext leads to its listener, and is accepted when usable.
SoundOffer(m, o) ==
    /\ OfferSound(m, o.frame, o.at)
    /\ o.usable /\ ~Get(o, "longest", FALSE) => FromBytes(o.frame) = "Success"

\* An offer that is accepted whenever it is usable is sound.
LEMMA SoundWhenAccepted ==
    ASSUME NEW m, NEW o, OfferSound(m, o.frame, o.at), o.usable => FromBytes(o.frame) = "Success"
    PROVE  SoundOffer(m, o)
  BY Zenon DEF SoundOffer

\* for_bwu_wifi_lan_path_available of any addresses: the one a remote dials is the last of them.
LEMMA AddressesSound ==
    ASSUME NEW a, a # <<>> => /\ Len(a) \in DOMAIN a
                              /\ \E ip, p : a[Len(a)] = Address(ip, p)
    PROVE  LET f == ForBwuWifiLanPathAvailable(a)
           IN  OfferSound("WIFI_LAN", f, ToSet(a)) /\ (a # <<>> => FromBytes(f) = "Success")
  <1> DEFINE last == a[Len(a)]
             c == [address_candidates |-> a]
             r == [ip_address |-> last.ip_address, wifi_port |-> last.port]
             o == Only(a # <<>> /\ Len(last.ip_address) = 4, r)
             s == c ++ o
  <1>1. DOMAIN c = {"address_candidates"} /\ c["address_candidates"] = a
    OBVIOUS
  <1>2. /\ DOMAIN r = {"ip_address", "wifi_port"}
        /\ r["ip_address"] = last.ip_address /\ r["wifi_port"] = last.port
    OBVIOUS
  <1>3. a # <<>> => last \in ToSet(a) /\ last = Address(last.ip_address, last.port)
    BY DEF ToSet, Address
  <1>4. DOMAIN NoFields = {}
    BY DEF NoFields
  <1> HIDE DEF c, r, last
  <1>5. DOMAIN o \subseteq {"ip_address", "wifi_port"}
    BY <1>2, <1>4 DEF Only
  <1>6. DOMAIN o # {} => a # <<>> /\ o["ip_address"] = last.ip_address /\ o["wifi_port"] = last.port
    BY <1>2, <1>4 DEF Only
  <1> HIDE DEF o
  <1>7. /\ "address_candidates" \in DOMAIN s /\ s["address_candidates"] = a
        /\ \A x \in {"ip_address", "wifi_port"} : x \in DOMAIN s => x \in DOMAIN o /\ s[x] = o[x]
    BY <1>1, <1>5 DEF ++
  <1> HIDE DEF s
  <1>8. /\ "ip_address" \in DOMAIN s /\ Len(s.ip_address) = 4
        /\ "wifi_port" \in DOMAIN s /\ s.wifi_port \in 1..U16_MAX
        => Address(s.ip_address, s.wifi_port) \in ToSet(a)
    BY <1>6, <1>3, <1>7
  <1>9. a # <<>> => EnsureValidWifiLan(s)
    BY <1>7 DEF EnsureValidWifiLan
  <1>10. LET f == BwuUpgradePathAvailable("WIFI_LAN", [wifi_lan_socket |-> s])
         IN  OfferSound("WIFI_LAN", f, ToSet(a)) /\ (a # <<>> => FromBytes(f) = "Success")
    BY <1>8, <1>9, LanSound
  <1>11. ForBwuWifiLanPathAvailable(a)
           = BwuUpgradePathAvailable("WIFI_LAN", [wifi_lan_socket |-> s])
    BY Zenon DEF ForBwuWifiLanPathAvailable, s, c, o, r, last
  <1> QED
    BY <1>10, <1>11, Zenon

\* The offers of the LAN handler are sound.
LEMMA LanOffersSound == \A o \in LanOffers : SoundOffer("WIFI_LAN", o)
  <1> DEFINE A(p) == {<<>>, <<Address(Ip4, p)>>, <<Address(Ip6, p)>>,
                      <<Address(Ip6, p), Address(Ip4, p)>>, <<Address(Ip4, p), Address(Ip6, p)>>}
             Offer(a) == [frame |-> ForBwuWifiLanPathAvailable(a), at |-> ToSet(a), usable |-> a # <<>>]
  <1>1. LanOffers = {Offer(a) : a \in UNION {A(p) : p \in Port \cap (1..U16_MAX)}}
    BY DEF LanOffers
  <1>2. ASSUME NEW p, NEW a \in A(p)
        PROVE  a # <<>> => Len(a) \in DOMAIN a /\ \E ip, q : a[Len(a)] = Address(ip, q)
    OBVIOUS
  <1>3. ASSUME NEW a
        PROVE  /\ Offer(a).frame = ForBwuWifiLanPathAvailable(a) /\ Offer(a).at = ToSet(a)
               /\ Offer(a).usable <=> (a # <<>>)
    OBVIOUS
  <1> HIDE DEF A, Offer
  <1>4. ASSUME NEW p, NEW a \in A(p) PROVE SoundOffer("WIFI_LAN", Offer(a))
    BY <1>2, <1>3, AddressesSound DEF SoundOffer
  <1> QED
    BY <1>1, <1>4

\* An optional field is absent, or has one of its values.
LEMMA Optional ==
    ASSUME NEW f, NEW vs, NEW m \in Opt(f, vs)
    PROVE  DOMAIN m = {} \/ (DOMAIN m = {f} /\ m[f] \in vs)
  BY DEF Opt, NoFields

\* An optional field brings no other field.
LEMMA OptionalDomain ==
    ASSUME NEW f, NEW vs, NEW m \in Opt(f, vs)
    PROVE  DOMAIN m \subseteq {f}
  BY Optional, Zenon

\* The LAN offers of another implementation are sound: what this crate dials for one that leaves out
\* or spoils a part is the address meant, or nothing.
LEMMA ForeignLanOffersSound == \A o \in ForeignLanOffers : SoundOffer("WIFI_LAN", o)
  <1> DEFINE At(ip, p) == IF ip = [ip_address |-> Ip4] /\ Get(p, "wifi_port", 0) \in 1..U16_MAX
                          THEN {Address(Ip4, p.wifi_port)} ELSE {}
             S(ip, p, c) == ip ++ p ++ [address_candidates |-> c]
             Frame(ip, p, c) == BwuUpgradePathAvailable("WIFI_LAN", [wifi_lan_socket |-> S(ip, p, c)])
             Offer(ip, p, c) == [frame |-> Frame(ip, p, c), at |-> At(ip, p), usable |-> At(ip, p) # {}]
             I == Opt("ip_address", {Ip4, Ip6})
             P == Opt("wifi_port", Port)
             C == {<<>>, <<NoFields>>, <<Address(Ip6, 1)>>}
  <1>1. ForeignLanOffers = {Offer(ip, p, c) : ip \in I, p \in P, c \in C}
    BY DEF ForeignLanOffers
  <1>2. \A x : x = Ip6 => Len(x) = 16
    BY DEF Ip6
  <1>3. ASSUME NEW ip, NEW p, NEW c, ip \in I, p \in P
        PROVE  /\ OfferSound("WIFI_LAN", Frame(ip, p, c), At(ip, p))
               /\ At(ip, p) # {} => FromBytes(Frame(ip, p, c)) = "Success"
    <2> DEFINE d == [address_candidates |-> c]
               s == ip ++ p ++ d
    <2>1. DOMAIN d = {"address_candidates"}
      OBVIOUS
    <2>2. DOMAIN ip = {} \/ (DOMAIN ip = {"ip_address"} /\ ip["ip_address"] \in {Ip4, Ip6})
      BY <1>3, Optional, Zenon
    <2>3. DOMAIN p = {} \/ (DOMAIN p = {"wifi_port"} /\ p["wifi_port"] \in Port)
      BY <1>3, Optional, Zenon
    <2>4. ip = [ip_address |-> Ip4] <=> DOMAIN ip = {"ip_address"} /\ ip["ip_address"] = Ip4
      BY <1>3 DEF Opt, NoFields
    <2> HIDE <1>3
    <2> HIDE DEF d
    <2>5. /\ "ip_address" \in DOMAIN s <=> "ip_address" \in DOMAIN ip
          /\ "ip_address" \in DOMAIN s => s["ip_address"] = ip["ip_address"]
          /\ "wifi_port" \in DOMAIN s <=> "wifi_port" \in DOMAIN p
          /\ "wifi_port" \in DOMAIN s => s["wifi_port"] = p["wifi_port"]
      BY <2>1, <2>2, <2>3 DEF ++
    <2> HIDE DEF s
    <2>6. Get(p, "wifi_port", 0) = IF "wifi_port" \in DOMAIN p THEN p["wifi_port"] ELSE 0
      BY DEF Get
    <2>7. ASSUME "ip_address" \in DOMAIN s, Len(s.ip_address) = 4,
                 "wifi_port" \in DOMAIN s, s.wifi_port \in 1..U16_MAX
          PROVE  Address(s.ip_address, s.wifi_port) \in At(ip, p)
      <3>0. s["ip_address"] # Ip6
        BY <1>2, <2>7
      <3>1. s["ip_address"] = Ip4 /\ DOMAIN ip = {"ip_address"} /\ ip["ip_address"] = Ip4
        BY <2>2, <2>5, <2>7, <3>0
      <3>2. s.wifi_port = p.wifi_port /\ Get(p, "wifi_port", 0) \in 1..U16_MAX
        BY <2>5, <2>6, <2>7
      <3> QED
        BY <2>4, <3>1, <3>2
    <2>8. ASSUME At(ip, p) # {} PROVE EnsureValidWifiLan(s)
      <3>1. ip = [ip_address |-> Ip4] /\ Get(p, "wifi_port", 0) \in 1..U16_MAX
        BY <2>8
      <3>2. "wifi_port" \in DOMAIN s /\ s["wifi_port"] \in 1..U16_MAX /\ "ip_address" \in DOMAIN s
        BY <2>4, <2>5, <2>6, <3>1
      <3> QED
        BY <3>2 DEF EnsureValidWifiLan, Has, Get
    <2> HIDE DEF At
    <2>9. LET f == BwuUpgradePathAvailable("WIFI_LAN", [wifi_lan_socket |-> s])
          IN  OfferSound("WIFI_LAN", f, At(ip, p)) /\ (At(ip, p) # {} => FromBytes(f) = "Success")
      BY <2>7, <2>8, LanSound
    <2> QED
      BY <2>9, Zenon DEF s, d
  <1>4. ASSUME NEW ip, NEW p, NEW c
        PROVE  /\ Offer(ip, p, c).frame = Frame(ip, p, c) /\ Offer(ip, p, c).at = At(ip, p)
               /\ Offer(ip, p, c).usable <=> (At(ip, p) # {})
    OBVIOUS
  <1> HIDE DEF At, Frame, Offer, I, P, C
  <1>5. ASSUME NEW ip, NEW p, NEW c, ip \in I, p \in P
        PROVE  SoundOffer("WIFI_LAN", Offer(ip, p, c))
    <2>1. /\ OfferSound("WIFI_LAN", Offer(ip, p, c).frame, Offer(ip, p, c).at)
          /\ Offer(ip, p, c).usable => FromBytes(Offer(ip, p, c).frame) = "Success"
      BY <1>3, <1>4, <1>5
    <2> QED
      BY <2>1, SoundWhenAccepted, Zenon
  <1> QED
    BY <1>1, <1>5

\* The gateway of a hotspot survives Ipv4Addr::to_string, is_valid_ipv4 and parse.
LEMMA GatewayReadsBack ==
    /\ Parses(ToText(Ip4)) /\ IsValidIpv4(ToText(Ip4))
    /\ Parse(ToText(Ip4)) = Ip4
  <1> DEFINE t == ToText(Ip4)
  <1>1. /\ DOMAIN t = 1..4
        /\ t[1] = [digits |-> 3, value |-> 192] /\ t[2] = [digits |-> 3, value |-> 168]
        /\ t[3] = [digits |-> 2, value |-> 49]  /\ t[4] = [digits |-> 1, value |-> 1]
    BY DEF ToText, Ip4, Digits
  <1>2. t \in Seq([digits : Int, value : Int])
    BY DEF ToText, Ip4, Digits
  <1> HIDE DEF t
  <1>3. Len(t) = 4
    BY <1>1, <1>2
  <1>4. \A i \in 1..4 : t[i].digits \in 1..3 /\ t[i].value \in 0..255 /\ t[i].digits = Digits(t[i].value)
    BY <1>1 DEF Digits
  <1>5. Parse(t) = <<192, 168, 49, 1>>
    BY <1>1 DEF Parse
  <1>6. IsValidIpv4(t)
    BY <1>3, <1>4 DEF IsValidIpv4
  <1>7. Parses(t)
    BY <1>4, <1>6 DEF Parses
  <1> QED
    BY <1>5, <1>6, <1>7 DEF t, Ip4

\* The offers of the hotspot handler are sound, and accepted with a passphrase of 8 to 63 characters.
LEMMA HotspotOffersSound == \A o \in HotspotOffers : SoundOffer("WIFI_HOTSPOT", o)
  <1> DEFINE Cred(n, p) == [ssid |-> [len |-> 19, direct |-> TRUE], password |-> n, port |-> p,
                            gateway |-> ToText(Ip4), frequency |-> -1, address_candidates |-> <<>>]
             Frame(n, p) == BwuUpgradePathAvailable("WIFI_HOTSPOT", [wifi_hotspot_credentials |-> Cred(n, p)])
             Offer(n, p) == [frame |-> Frame(n, p), at |-> {Address(Ip4, p)}, usable |-> n \in 8..63]
             P == Port \cap (1..U16_MAX)
  <1>1. HotspotOffers = {Offer(n, p) : n \in Length, p \in P}
    BY DEF HotspotOffers, ForBwuWifiHotspotPathAvailable
  <1>2. ASSUME NEW n \in Length, NEW p
        PROVE  /\ OfferSound("WIFI_HOTSPOT", Frame(n, p), {Address(Ip4, p)})
               /\ n \in 8..63 => FromBytes(Frame(n, p)) = "Success"
    <2> DEFINE c == Cred(n, p)
    <2>1. /\ c.gateway = ToText(Ip4) /\ c.port = p /\ c.password = n /\ c.address_candidates = <<>>
          /\ {"ssid", "password", "gateway"} \subseteq DOMAIN c
      OBVIOUS
    <2> HIDE DEF Cred
    <2>2. Address(Parse(c.gateway), c.port) \in {Address(Ip4, p)}
      BY <2>1, GatewayReadsBack
    <2>3. ToSet(c.address_candidates) = {}
      BY <2>1 DEF ToSet
    <2>4. n \in 8..63 => 8 <= n /\ n < 64
      BY FrameExchangeAssumption
    <2> HIDE DEF c
    <2>5. 8 <= n /\ n < 64 => PasswordOk(c)
      BY <2>1 DEF PasswordOk, WithinRange, WIFI_PASSWORD_SSID_MIN_LENGTH,
                        WIFI_PASSWORD_SSID_MAX_LENGTH, Has
    <2>6. n \in 8..63 => EnsureValidHotspot(c)
      BY <2>1, <2>3, <2>4, <2>5, GatewayReadsBack DEF EnsureValidHotspot, Has
    <2> QED
      BY <2>2, <2>6, HotspotSound DEF c
  <1>3. ASSUME NEW n, NEW p
        PROVE  /\ Offer(n, p).frame = Frame(n, p) /\ Offer(n, p).at = {Address(Ip4, p)}
               /\ Offer(n, p).usable <=> n \in 8..63
    OBVIOUS
  <1> HIDE DEF Frame, Offer, P
  <1>4. ASSUME NEW n \in Length, NEW p PROVE SoundOffer("WIFI_HOTSPOT", Offer(n, p))
    <2>1. /\ OfferSound("WIFI_HOTSPOT", Offer(n, p).frame, Offer(n, p).at)
          /\ Offer(n, p).usable => FromBytes(Offer(n, p).frame) = "Success"
      BY <1>2, <1>3
    <2> QED
      BY <2>1, SoundWhenAccepted, Zenon
  <1> QED
    BY <1>1, <1>4

\* The gateways in ForeignHotspotOffers.
ForeignGateways ==
    {ToText(Ip4), <<[digits |-> 0, value |-> -1]>>,
     [ToText(Ip4) EXCEPT ![3].digits = 3],
     [ToText(Ip4) EXCEPT ![1].value = 256], SubSeq(ToText(Ip4), 1, 3)}

\* Of the gateways another implementation may write, parse accepts only the one it means.
LEMMA OnlyGateway ==
    ASSUME NEW g, g \in ForeignGateways, Parses(g)
    PROVE  g = ToText(Ip4)
  <1> DEFINE t == ToText(Ip4)
  <1>1. Len(g) = 4 /\ \A i \in 1..4 : g[i].value \in 0..255 /\ g[i].digits = Digits(g[i].value)
    BY DEF Parses, IsValidIpv4
  <1>2. /\ DOMAIN t = 1..4
        /\ t[1] = [digits |-> 3, value |-> 192]
        /\ t[3] = [digits |-> 2, value |-> 49]
    BY DEF ToText, Ip4, Digits
  <1>3. t \in Seq([digits : Int, value : Int]) /\ Len(t) = 4
    BY DEF ToText, Ip4, Digits
  <1>4. \/ g = t \/ g = <<[digits |-> 0, value |-> -1]>>
        \/ g = [t EXCEPT ![3].digits = 3] \/ g = [t EXCEPT ![1].value = 256] \/ g = SubSeq(t, 1, 3)
    BY Zenon DEF ForeignGateways
  <1> HIDE DEF t
  <1>5. g # <<[digits |-> 0, value |-> -1]>>
    BY <1>1
  <1>6. g # [t EXCEPT ![3].digits = 3]
    <2> SUFFICES ASSUME g = [t EXCEPT ![3].digits = 3] PROVE FALSE
      OBVIOUS
    <2>1. g[3].digits = 3 /\ g[3].value = 49
      BY <1>2
    <2> QED
      BY <1>1, <2>1 DEF Digits
  <1>7. g # [t EXCEPT ![1].value = 256]
    <2> SUFFICES ASSUME g = [t EXCEPT ![1].value = 256] PROVE FALSE
      OBVIOUS
    <2>1. g[1].value = 256
      BY <1>2
    <2> QED
      BY <1>1, <2>1
  <1>8. g # SubSeq(t, 1, 3)
    <2> SUFFICES ASSUME g = SubSeq(t, 1, 3) PROVE FALSE
      OBVIOUS
    <2>1. Len(g) = 3
      BY <1>3
    <2> QED
      BY <1>1, <2>1
  <1> QED
    BY <1>4, <1>5, <1>6, <1>7, <1>8 DEF t

\* The hotspot offers of another implementation are sound.
LEMMA ForeignHotspotOffersSound == \A o \in ForeignHotspotOffers : SoundOffer("WIFI_HOTSPOT", o)
  <1> DEFINE At(g, p) == IF g = [gateway |-> ToText(Ip4)] /\ Get(p, "port", 0) \in 1..U16_MAX
                         THEN {Address(Ip4, p.port)} ELSE {}
             Usable(s, g, p, c) == At(g, p) # {} /\ s # NoFields /\ c # <<Address(<< 1 >>, 1)>>
             Cred(s, g, p, c) == s ++ g ++ p ++ [password |-> 8, address_candidates |-> c]
             Frame(s, g, p, c) == BwuUpgradePathAvailable("WIFI_HOTSPOT",
                                     [wifi_hotspot_credentials |-> Cred(s, g, p, c)])
             Offer(s, g, p, c) == [frame |-> Frame(s, g, p, c), at |-> At(g, p),
                                   usable |-> Usable(s, g, p, c)]
             S == Opt("ssid", {[len |-> 1, direct |-> FALSE]})
             G == Opt("gateway", ForeignGateways)
             P == Opt("port", Port)
             C == {<<>>, <<Address(<< 1 >>, 1)>>, <<Address(Ip6, 1)>>}
  <1>1. ForeignHotspotOffers = {Offer(s, g, p, c) : s \in S, g \in G, p \in P, c \in C}
    BY DEF ForeignHotspotOffers, ForeignGateways
  <1>2. ASSUME NEW c, c \in C, c # <<Address(<< 1 >>, 1)>>, NEW a \in ToSet(c)
        PROVE  Has(a, "ip_address") /\ Has(a, "port") /\ Len(a.ip_address) \in {4, 16}
    <2>1. c = <<>> \/ c = <<Address(Ip6, 1)>>
      BY <1>2, Zenon
    <2>2. a = Address(Ip6, 1)
      BY <2>1 DEF ToSet
    <2>3. Len(Ip6) = 16
      BY DEF Ip6
    <2>4. DOMAIN Address(Ip6, 1) = {"ip_address", "port"} /\ Address(Ip6, 1).ip_address = Ip6
      BY DEF Address
    <2> QED
      BY <2>2, <2>3, <2>4 DEF Has
  <1>3. ASSUME NEW s, NEW g, NEW p, NEW c, s \in S, g \in G, p \in P, c \in C
        PROVE  /\ OfferSound("WIFI_HOTSPOT", Frame(s, g, p, c), At(g, p))
               /\ Usable(s, g, p, c) => FromBytes(Frame(s, g, p, c)) = "Success"
    <2> DEFINE d == [password |-> 8, address_candidates |-> c]
               r == s ++ g ++ p ++ d
    <2>1. DOMAIN d = {"password", "address_candidates"} /\ d["password"] = 8 /\ d["address_candidates"] = c
      OBVIOUS
    <2>2. s = NoFields \/ DOMAIN s = {"ssid"}
      BY <1>3 DEF Opt
    <2>3. DOMAIN NoFields = {}
      BY DEF NoFields
    <2>4. DOMAIN g = {} \/ (DOMAIN g = {"gateway"} /\ g["gateway"] \in ForeignGateways)
      BY <1>3, Optional, Zenon
    <2>5. DOMAIN p = {} \/ (DOMAIN p = {"port"} /\ p["port"] \in Port)
      BY <1>3, Optional, Zenon
    <2>6. g = [gateway |-> ToText(Ip4)] <=> DOMAIN g = {"gateway"} /\ g["gateway"] = ToText(Ip4)
      BY <1>3 DEF Opt, NoFields
    <2>7. Usable(s, g, p, c) => \A a \in ToSet(c) :
             Has(a, "ip_address") /\ Has(a, "port") /\ Len(a.ip_address) \in {4, 16}
      BY <1>2, <1>3, Zenon
    <2> HIDE <1>3
    <2> HIDE DEF d
    <2>8. /\ "gateway" \in DOMAIN r <=> "gateway" \in DOMAIN g
          /\ "gateway" \in DOMAIN r => r["gateway"] = g["gateway"]
          /\ "port" \in DOMAIN r <=> "port" \in DOMAIN p
          /\ "port" \in DOMAIN r => r["port"] = p["port"]
          /\ "ssid" \in DOMAIN r <=> "ssid" \in DOMAIN s
          /\ "password" \in DOMAIN r /\ r["password"] = 8
          /\ r["address_candidates"] = c
      BY <2>1, <2>2, <2>3, <2>4, <2>5 DEF ++
    <2> HIDE DEF r
    <2>9. Get(p, "port", 0) = IF "port" \in DOMAIN p THEN p["port"] ELSE 0
      BY DEF Get
    <2>10. ASSUME "gateway" \in DOMAIN r, Parses(r.gateway), "port" \in DOMAIN r, r.port \in 1..U16_MAX
           PROVE  Address(Parse(r.gateway), r.port) \in At(g, p)
      <3>1. DOMAIN g = {"gateway"} /\ g["gateway"] \in ForeignGateways /\ r.gateway = g["gateway"]
        BY <2>4, <2>8, <2>10
      <3>2. g["gateway"] = ToText(Ip4)
        BY <2>10, <3>1, OnlyGateway
      <3>3. Parse(r.gateway) = Ip4
        BY <3>1, <3>2, GatewayReadsBack
      <3>4. r.port = p.port /\ Get(p, "port", 0) \in 1..U16_MAX
        BY <2>8, <2>9, <2>10
      <3> QED
        BY <2>6, <3>1, <3>2, <3>3, <3>4
    <2>11. ASSUME Usable(s, g, p, c) PROVE EnsureValidHotspot(r)
      <3>1. s # NoFields /\ g = [gateway |-> ToText(Ip4)]
        BY <2>11
      <3>2. /\ "ssid" \in DOMAIN r /\ "gateway" \in DOMAIN r /\ r.gateway = ToText(Ip4)
        BY <2>2, <2>6, <2>8, <3>1
      <3>3. PasswordOk(r)
        BY <2>8 DEF PasswordOk, WithinRange, WIFI_PASSWORD_SSID_MIN_LENGTH,
                    WIFI_PASSWORD_SSID_MAX_LENGTH, Has
      <3> HIDE DEF Usable
      <3> QED
        BY <2>7, <2>8, <2>11, <3>2, <3>3, GatewayReadsBack DEF EnsureValidHotspot, Has
    <2> HIDE DEF At, Usable
    <2>12. LET f == BwuUpgradePathAvailable("WIFI_HOTSPOT", [wifi_hotspot_credentials |-> r])
           IN  OfferSound("WIFI_HOTSPOT", f, At(g, p)) /\ (Usable(s, g, p, c) => FromBytes(f) = "Success")
      BY <2>10, <2>11, HotspotSound
    <2> QED
      BY <2>12, Zenon DEF r, d
  <1>4. ASSUME NEW s, NEW g, NEW p, NEW c
        PROVE  /\ Offer(s, g, p, c).frame = Frame(s, g, p, c) /\ Offer(s, g, p, c).at = At(g, p)
               /\ Offer(s, g, p, c).usable <=> Usable(s, g, p, c)
    <2> HIDE DEF At, Usable, Frame
    <2> QED OBVIOUS
  <1> HIDE DEF At, Usable, Frame, Offer, S, G, P, C
  <1>5. ASSUME NEW s, NEW g, NEW p, NEW c, s \in S, g \in G, p \in P, c \in C
        PROVE  SoundOffer("WIFI_HOTSPOT", Offer(s, g, p, c))
    <2>1. /\ OfferSound("WIFI_HOTSPOT", Offer(s, g, p, c).frame, Offer(s, g, p, c).at)
          /\ Offer(s, g, p, c).usable => FromBytes(Offer(s, g, p, c).frame) = "Success"
      BY <1>3, <1>4, <1>5
    <2> QED
      BY <2>1, SoundWhenAccepted, Zenon
  <1> QED
    BY <1>1, <1>5

\* The offers of Wi-Fi Direct are sound, and accepted with what a radio can use, unless the name has
\* 32 octets.
LEMMA DirectOffersSound == \A o \in DirectOffers : SoundOffer("WIFI_DIRECT", o)
  <1> DEFINE Group(s, d) == d /\ s >= 9
             Cred(s, d, n, f) ==
                 [ssid |-> [len |-> s, direct |-> Group(s, d)], password |-> n, port |-> 1,
                  frequency |-> f, gateway |-> ToText(Ip4), device_name |-> s, pin |-> n]
             Usable(s, d, n, f) == RadioUsable(s, Group(s, d), n, f)
             Longest(s) == s = RadioNameMax
             Frame(s, d, n, f) == BwuUpgradePathAvailable("WIFI_DIRECT",
                                     [wifi_direct_credentials |-> Cred(s, d, n, f)])
             Offer(s, d, n, f) == [frame |-> Frame(s, d, n, f), at |-> {Address(Ip4, 1)},
                                   usable |-> Usable(s, d, n, f), longest |-> Longest(s)]
             F == {-2, -1, 0, 2412}
  <1>1. DirectOffers = {Offer(s, d, n, f) : s \in Length, d \in BOOLEAN, n \in Length, f \in F}
    BY DEF DirectOffers, ForBwuWifiDirectPathAvailable
  <1>2. ASSUME NEW s \in Length, NEW d \in BOOLEAN, NEW n \in Length, NEW f \in F
        PROVE  /\ OfferSound("WIFI_DIRECT", Frame(s, d, n, f), {Address(Ip4, 1)})
               /\ Usable(s, d, n, f) /\ ~Longest(s) => FromBytes(Frame(s, d, n, f)) = "Success"
    <2> DEFINE c == Cred(s, d, n, f)
               sub == [wifi_direct_credentials |-> c]
    <2> HIDE DEF Group
    <2>1. /\ DOMAIN c = {"ssid", "password", "port", "frequency", "gateway", "device_name", "pin"}
          /\ c.password = n /\ c.frequency = f /\ c.device_name = s /\ c.pin = n
          /\ c.ssid.len = s /\ (c.ssid.direct <=> Group(s, d))
      OBVIOUS
    <2> HIDE DEF c
    <2>2. DOMAIN sub = {"wifi_direct_credentials"} /\ sub["wifi_direct_credentials"] = c
      OBVIOUS
    <2>3. s \in Nat /\ n \in Nat /\ f \in Int
      BY FrameExchangeAssumption
    <2>4. ASSUME Usable(s, d, n, f), ~Longest(s) PROVE EnsureValidWifiDirect(c)
      <3>1. "frequency" \in DOMAIN c /\ Get(c, "frequency", -2) >= -1
        BY <2>1, <2>3, <2>4 DEF Get, RadioUsable
      <3>2. s < WIFI_DIRECT_SSID_MAX_LENGTH
        BY <2>3, <2>4 DEF RadioUsable, RadioNameMax, WIFI_DIRECT_SSID_MAX_LENGTH
      <3>3. CASE n \in {4, 8}
        <4>1. WithinRange(c.pin, WIFI_DIRECT_PIN_MIN_LENGTH, WIFI_DIRECT_PIN_MAX_LENGTH)
          BY <2>1, <3>3 DEF WithinRange, WIFI_DIRECT_PIN_MIN_LENGTH, WIFI_DIRECT_PIN_MAX_LENGTH
        <4> QED
          BY <2>1, <3>1, <3>2, <4>1 DEF EnsureValidWifiDirect, Has
      <3>4. CASE Group(s, d) /\ n \in 8..63
        <4>1. PasswordOk(c)
          BY <2>1, <3>4 DEF PasswordOk, WithinRange, WIFI_PASSWORD_SSID_MIN_LENGTH,
                            WIFI_PASSWORD_SSID_MAX_LENGTH, Has
        <4>2. MatchesWifiDirectSsid(c.ssid)
          BY <2>1, <3>4 DEF MatchesWifiDirectSsid
        <4> QED
          BY <2>1, <3>1, <3>2, <4>1, <4>2 DEF EnsureValidWifiDirect, Has
      <3> QED
        BY <2>4, <3>3, <3>4 DEF RadioUsable
    <2>5. "WIFI_DIRECT" \in DOMAIN PathMedium \ {"WIFI_LAN", "WIFI_HOTSPOT"}
      BY DEF PathMedium, Medium, RequestMedium
    <2>6. {"medium", "supports_client_introduction_ack"} \cap DOMAIN sub = {}
      BY <2>2
    <2> HIDE DEF sub, Usable, Longest
    <2>7. Usable(s, d, n, f) /\ ~Longest(s) => Credentialed("WIFI_DIRECT", sub)
      BY <2>2, <2>4 DEF Credentialed
    <2>8. LET g == BwuUpgradePathAvailable("WIFI_DIRECT", sub)
          IN  /\ OfferSound("WIFI_DIRECT", g, {Address(Ip4, 1)})
              /\ Usable(s, d, n, f) /\ ~Longest(s) => FromBytes(g) = "Success"
      BY <2>5, <2>6, <2>7, OtherSound
    <2>9. BwuUpgradePathAvailable("WIFI_DIRECT", sub) = Frame(s, d, n, f)
      BY DEF sub, c
    <2> HIDE DEF Frame
    <2> QED
      BY <2>8, <2>9
  <1>3. ASSUME NEW s, NEW d, NEW n, NEW f
        PROVE  /\ Offer(s, d, n, f).frame = Frame(s, d, n, f)
               /\ Offer(s, d, n, f).at = {Address(Ip4, 1)}
               /\ Offer(s, d, n, f).usable <=> Usable(s, d, n, f)
               /\ Get(Offer(s, d, n, f), "longest", FALSE) <=> Longest(s)
    <2> HIDE DEF Usable, Frame, Longest
    <2> QED BY DEF Get
  <1> HIDE DEF Frame, Offer, Usable, Longest, F
  <1>4. ASSUME NEW s \in Length, NEW d \in BOOLEAN, NEW n \in Length, NEW f \in F
        PROVE  SoundOffer("WIFI_DIRECT", Offer(s, d, n, f))
    <2>1. /\ OfferSound("WIFI_DIRECT", Frame(s, d, n, f), {Address(Ip4, 1)})
          /\ Usable(s, d, n, f) /\ ~Longest(s) => FromBytes(Frame(s, d, n, f)) = "Success"
      BY <1>2, Zenon
    <2>2. /\ Offer(s, d, n, f).frame = Frame(s, d, n, f)
          /\ Offer(s, d, n, f).at = {Address(Ip4, 1)}
          /\ Offer(s, d, n, f).usable <=> Usable(s, d, n, f)
          /\ Get(Offer(s, d, n, f), "longest", FALSE) <=> Longest(s)
      BY <1>3, Zenon
    <2> QED
      BY <2>1, <2>2, Zenon DEF SoundOffer
  <1> QED
    BY <1>1, <1>4

\* An offer of a medium whose credentials are all there is sound and accepted.
LEMMA PlainSound ==
    ASSUME NEW m \in DOMAIN PathMedium \ {"WIFI_LAN", "WIFI_HOTSPOT", "WIFI_DIRECT"}, NEW name, NEW cred,
           name \notin {"medium", "supports_client_introduction_ack"},
           m = "WIFI_AWARE" => name = "wifi_aware_credentials" /\ EnsureValidWifiAware(cred),
           m = "BLUETOOTH" => name = "bluetooth_credentials" /\ EnsureValidBluetooth(cred),
           m = "WEB_RTC" => name = "web_rtc_credentials" /\ EnsureValidWebRtc(cred),
           NEW sub, DOMAIN sub = {name}, sub[name] = cred, NEW at
    PROVE  LET f == BwuUpgradePathAvailable(m, sub)
           IN  OfferSound(m, f, at) /\ FromBytes(f) = "Success"
  <1>1. Credentialed(m, sub)
    BY DEF Credentialed
  <1> QED
    BY <1>1, OtherSound

\* So are those of Bluetooth, Wi-Fi Aware, AWDL and WebRTC.
LEMMA PlainFramesSound ==
    ASSUME NEW at
    PROVE  /\ LET f == ForBwuBluetoothPathAvailable("service", "mac")
              IN  OfferSound("BLUETOOTH", f, at) /\ FromBytes(f) = "Success"
           /\ \A n \in Length : LET f == ForBwuWifiAwarePathAvailable("id", "info", n)
                                IN  OfferSound("WIFI_AWARE", f, at) /\ FromBytes(f) = "Success"
           /\ \A n \in Length : LET f == ForBwuAwdlPathAvailable("name", "type", n)
                                IN  OfferSound("AWDL", f, at) /\ FromBytes(f) = "Success"
           /\ LET f == ForBwuWebrtcPathAvailable("peer")
              IN  OfferSound("WEB_RTC", f, at) /\ FromBytes(f) = "Success"
  <1>1. {"BLUETOOTH", "WIFI_AWARE", "AWDL", "WEB_RTC"}
           \subseteq DOMAIN PathMedium \ {"WIFI_LAN", "WIFI_HOTSPOT", "WIFI_DIRECT"}
    BY DEF PathMedium, Medium, RequestMedium
  <1>2. LET f == ForBwuBluetoothPathAvailable("service", "mac")
        IN  OfferSound("BLUETOOTH", f, at) /\ FromBytes(f) = "Success"
    <2> DEFINE cred == [service_name |-> "service", mac_address |-> "mac"]
               sub == [bluetooth_credentials |-> cred]
    <2>1. EnsureValidBluetooth(cred)
      BY DEF EnsureValidBluetooth, Has
    <2> HIDE DEF cred
    <2>2. DOMAIN sub = {"bluetooth_credentials"} /\ sub["bluetooth_credentials"] = cred
      OBVIOUS
    <2> HIDE DEF sub
    <2>3. LET f == BwuUpgradePathAvailable("BLUETOOTH", sub)
          IN  OfferSound("BLUETOOTH", f, at) /\ FromBytes(f) = "Success"
      BY <1>1, <2>1, <2>2, PlainSound
    <2> QED
      BY <2>3, Zenon DEF ForBwuBluetoothPathAvailable, sub, cred
  <1>3. ASSUME NEW n \in Length
        PROVE  LET f == ForBwuWifiAwarePathAvailable("id", "info", n)
               IN  OfferSound("WIFI_AWARE", f, at) /\ FromBytes(f) = "Success"
    <2> DEFINE base == [service_id |-> "id", service_info |-> "info"]
               cred == base ++ Only(n > 0, [password |-> n])
               sub == [wifi_aware_credentials |-> cred]
    <2>0. DOMAIN base = {"service_id", "service_info"}
      OBVIOUS
    <2> HIDE DEF base
    <2>1. EnsureValidWifiAware(cred)
      BY <2>0 DEF EnsureValidWifiAware, Has, ++
    <2> HIDE DEF cred
    <2>2. DOMAIN sub = {"wifi_aware_credentials"} /\ sub["wifi_aware_credentials"] = cred
      OBVIOUS
    <2> HIDE DEF sub
    <2>3. LET f == BwuUpgradePathAvailable("WIFI_AWARE", sub)
          IN  OfferSound("WIFI_AWARE", f, at) /\ FromBytes(f) = "Success"
      BY <1>1, <2>1, <2>2, PlainSound
    <2> QED
      BY <2>3, Zenon DEF ForBwuWifiAwarePathAvailable, sub, cred, base
  <1>4. ASSUME NEW n \in Length
        PROVE  LET f == ForBwuAwdlPathAvailable("name", "type", n)
               IN  OfferSound("AWDL", f, at) /\ FromBytes(f) = "Success"
    <2> DEFINE cred == [service_name |-> "name", service_type |-> "type", password |-> n]
               sub == [awdl_credentials |-> cred]
    <2> HIDE DEF cred
    <2>2. DOMAIN sub = {"awdl_credentials"} /\ sub["awdl_credentials"] = cred
      OBVIOUS
    <2> HIDE DEF sub
    <2>3. LET f == BwuUpgradePathAvailable("AWDL", sub)
          IN  OfferSound("AWDL", f, at) /\ FromBytes(f) = "Success"
      BY <1>1, <2>2, PlainSound
    <2> QED
      BY <2>3, Zenon DEF ForBwuAwdlPathAvailable, sub, cred
  <1>5. LET f == ForBwuWebrtcPathAvailable("peer")
        IN  OfferSound("WEB_RTC", f, at) /\ FromBytes(f) = "Success"
    <2> DEFINE cred == [peer_id |-> "peer"]
               sub == [web_rtc_credentials |-> cred]
    <2>1. EnsureValidWebRtc(cred)
      BY DEF EnsureValidWebRtc, Has
    <2> HIDE DEF cred
    <2>2. DOMAIN sub = {"web_rtc_credentials"} /\ sub["web_rtc_credentials"] = cred
      OBVIOUS
    <2> HIDE DEF sub
    <2>3. LET f == BwuUpgradePathAvailable("WEB_RTC", sub)
          IN  OfferSound("WEB_RTC", f, at) /\ FromBytes(f) = "Success"
      BY <1>1, <2>1, <2>2, PlainSound
    <2> QED
      BY <2>3, Zenon DEF ForBwuWebrtcPathAvailable, sub, cred
  <1> QED
    BY <1>2, <1>3, <1>4, <1>5, Zenon

\* The medium that an offer of m names.
OnWire(m) == IF m = "WEB_RTC_NON_CELLULAR" THEN "WEB_RTC" ELSE m

\* The offers of every medium without an address are sound.
LEMMA PlainOffersSound ==
    ASSUME NEW m
    PROVE  \A o \in PlainOffers(m) : SoundOffer(OnWire(m), o)
  <1> DEFINE A == {Address(Ip4, 1)}
             Good(medium, f) == OfferSound(medium, f, A) /\ FromBytes(f) = "Success"
             F == CASE m = "BLUETOOTH"  -> {ForBwuBluetoothPathAvailable("service", "mac")}
                    [] m = "WIFI_AWARE" -> {ForBwuWifiAwarePathAvailable("id", "info", n) : n \in Length}
                    [] m = "AWDL"       -> {ForBwuAwdlPathAvailable("name", "type", n) : n \in Length}
                    [] m \in {"WEB_RTC", "WEB_RTC_NON_CELLULAR"} -> {ForBwuWebrtcPathAvailable("peer")}
                    [] OTHER -> {}
  <1>1. /\ Good("BLUETOOTH", ForBwuBluetoothPathAvailable("service", "mac"))
        /\ \A n \in Length : Good("WIFI_AWARE", ForBwuWifiAwarePathAvailable("id", "info", n))
        /\ \A n \in Length : Good("AWDL", ForBwuAwdlPathAvailable("name", "type", n))
        /\ Good("WEB_RTC", ForBwuWebrtcPathAvailable("peer"))
    BY PlainFramesSound, Zenon
  <1>2. PlainOffers(m) = {[frame |-> f, at |-> A, usable |-> TRUE] : f \in F}
    BY DEF PlainOffers
  <1> HIDE DEF A, Good
  <1>3. \A f \in F : Good(OnWire(m), f)
    BY <1>1 DEF OnWire
  <1> HIDE DEF F
  <1>4. ASSUME NEW o \in PlainOffers(m)
        PROVE  o.at = A /\ Good(OnWire(m), o.frame)
    BY <1>2, <1>3
  <1> QED
    BY <1>4, Zenon DEF Good, SoundOffer

\* Every offer of every handler is sound.
LEMMA OffersSound ==
    ASSUME NEW m
    PROVE  \A o \in Offers(m) : SoundOffer(OnWire(m), o)
  BY LanOffersSound, ForeignLanOffersSound, HotspotOffersSound, ForeignHotspotOffersSound,
     DirectOffersSound, PlainOffersSound DEF Offers, OnWire

-------------------------------------------------------------------------------
(* The invariant *)

\* What ControlFramesPass, RequestReadsBack and PayloadFramesJudged say of a received frame, said of one
\* in flight.
ControlRead(f, what) ==
    Has(what, "type") /\ what.type \notin {"PAYLOAD", "FOREIGN"} =>
       /\ FromBytes(f) = "Success"
       /\ what.type = IF GetFrameType(f) = "BANDWIDTH_UPGRADE_NEGOTIATION"
                      THEN TryFrom(EventType, Negotiation(f).event_type, "none")
                      ELSE GetFrameType(f)

RequestRead(f, what) ==
    Has(what, "info") =>
       LET req == f.v1.connection_request
       IN  /\ FromBytes(f) = "Success" <=> (what.id # "" /\ what.info.local_endpoint_info # "")
           /\ FromBytes(f) = "Success" => /\ req.endpoint_id = what.id
                                         /\ req.endpoint_name = what.info.local_endpoint_info
           /\ ConnectionRequestMediumsToMediums(req) = what.info.supported_mediums
           /\ MediumMetadataToWfdAuthTypes(req.medium_metadata) =
                 [i \in DOMAIN what.auth |->
                     IF what.auth[i] = "WIFI_DIRECT_WITH_PIN" THEN "WIFI_DIRECT_TYPE_UNKNOWN"
                                                              ELSE what.auth[i]]
           /\ Get(req.medium_metadata, "medium_role", "none") = what.role

PayloadRead(f, what) ==
    Has(what, "genuine") =>
       /\ what.genuine => FromBytes(f) = "Success"
       /\ what.stray => FromBytes(f) # "Success"

SoundFrame(f, what) == ControlRead(f, what) /\ RequestRead(f, what) /\ PayloadRead(f, what)

\* The inductive invariant.  Without upgrade mediums, the frame in flight is sound, and its verdict, once
\* there is one, is that of from_bytes on the frame as it was sent...
SentInv ==
    prefs = <<>> =>
       /\ dialled = {} /\ outcome = "open"
       /\ frame = NoFields => verdict = "none"
       /\ verdict # "none" => verdict = FromBytes(frame)
       /\ frame # NoFields => SoundFrame(frame, meant)

\* ...and with them it is an offer of the address listened on, or a refusal; an address is dialled and
\* an offer lost only at the end of the chain.
ChainInv ==
    prefs # <<>> =>
       /\ DOMAIN meant \subseteq {"usable", "longest"}
       /\ outcome # "open" => frame = NoFields
       /\ outcome # "dialled" => dialled = {}
       /\ outcome = "lost" => ~meant.usable \/ meant.longest
       /\ dialled \subseteq listener
       /\ frame # NoFields =>
             \/ /\ \E m : OfferSound(m, frame, listener)
                /\ meant.usable /\ ~meant.longest => FromBytes(frame) = "Success"
             \/ /\ Negotiation(frame).event_type = EventType["UPGRADE_FAILURE"]
                /\ FromBytes(frame) = "Success"

FramesInv == SentInv /\ ChainInv

-------------------------------------------------------------------------------
(* Other frames *)

\* A negotiation frame other than an offer is accepted and told apart by its event.
LEMMA NegotiationSound ==
    ASSUME NEW event \in DOMAIN EventType \ {"UPGRADE_PATH_AVAILABLE"}, NEW sub,
           event = "CLIENT_INTRODUCTION" =>
               /\ "client_introduction" \in DOMAIN sub
               /\ "endpoint_id" \in DOMAIN sub["client_introduction"]
    PROVE  SoundFrame(ForNegotiation(event, sub), [type |-> event])
  <1> DEFINE f == ForNegotiation(event, sub)
             what == [type |-> event]
  <1>1. event \in DOMAIN EventType
    OBVIOUS
  <1>2. /\ DOMAIN f.v1 = {"type", "bandwidth_upgrade_negotiation"}
        /\ GetFrameType(f) = "BANDWIDTH_UPGRADE_NEGOTIATION"
        /\ TryFrom(EventType, Negotiation(f).event_type, "none") = event
    <2>1. IsNegotiation(f, event, sub)
      BY <1>1, Negotiated
    <2> HIDE DEF f
    <2> QED
      BY <2>1 DEF IsNegotiation
  <1>3. FromBytes(f) = "Success"
    BY ControlAccepted
  <1>4. DOMAIN what = {"type"} /\ what.type = event
    OBVIOUS
  <1> HIDE DEF f, what
  <1>5. ControlRead(f, what)
    BY <1>2, <1>3, <1>4 DEF ControlRead
  <1>6. RequestRead(f, what) /\ PayloadRead(f, what)
    BY <1>4 DEF RequestRead, PayloadRead, Has
  <1> QED
    BY <1>5, <1>6 DEF SoundFrame, f, what

\* So are connection responses, keep-alives and disconnections, by their type.
LEMMA OtherFrameSound ==
    ASSUME NEW type \in {"CONNECTION_RESPONSE", "KEEP_ALIVE", "DISCONNECTION"}, NEW sub,
           type = "CONNECTION_RESPONSE" => "connection_response" \in DOMAIN sub
    PROVE  SoundFrame(EncodeV1(type, sub), [type |-> type])
  <1> DEFINE f == EncodeV1(type, sub)
             what == [type |-> type]
  <1>1. type \in DOMAIN FrameType
    BY DEF FrameType
  <1>2. /\ DOMAIN f = {"version", "v1"}
        /\ GetFrameType(f) = type
        /\ DOMAIN f.v1 = {"type"} \cup DOMAIN sub
    BY <1>1, Encoded
  <1>3. DOMAIN what = {"type"} /\ what.type = type
    OBVIOUS
  <1> HIDE DEF f, what
  <1>4. FromBytes(f) = "Success"
    BY <1>2 DEF FromBytes, EnsureValidOfflineFrame, Has
  <1>5. ControlRead(f, what)
    BY <1>2, <1>4, <1>3 DEF ControlRead
  <1>6. RequestRead(f, what) /\ PayloadRead(f, what)
    BY <1>3 DEF RequestRead, PayloadRead, Has
  <1> QED
    BY <1>5, <1>6 DEF SoundFrame, f, what

\* The verdict on a payload frame is that of ensure_valid_payload_transfer on its transfer.
LEMMA TransferFrame ==
    ASSUME NEW pt
    PROVE  LET f == EncodeV1("PAYLOAD_TRANSFER", [payload_transfer |-> pt])
           IN  /\ GetFrameType(f) = "PAYLOAD_TRANSFER"
               /\ FromBytes(f) = EnsureValidPayloadTransfer(pt)
  <1> DEFINE sub == [payload_transfer |-> pt]
             f == EncodeV1("PAYLOAD_TRANSFER", sub)
  <1>1. "PAYLOAD_TRANSFER" \in DOMAIN FrameType
    BY DEF FrameType
  <1>2. DOMAIN sub = {"payload_transfer"} /\ sub["payload_transfer"] = pt
    OBVIOUS
  <1> HIDE DEF sub
  <1>3. /\ DOMAIN f = {"version", "v1"}
        /\ GetFrameType(f) = "PAYLOAD_TRANSFER"
        /\ DOMAIN f.v1 = {"type"} \cup DOMAIN sub
        /\ \A x \in DOMAIN sub \ {"type"} : f.v1[x] = sub[x]
    BY <1>1, Encoded
  <1> HIDE DEF f
  <1>4. "payload_transfer" \in DOMAIN f["v1"] /\ f["v1"]["payload_transfer"] = pt
    BY <1>2, <1>3
  <1>5. FromBytes(f) = EnsureValidPayloadTransfer(pt)
    BY <1>3, <1>4 DEF FromBytes, EnsureValidOfflineFrame, Has
  <1> QED
    BY <1>3, <1>5 DEF f, sub

\* The fields of a header are of the kinds SendPayload gives them...
TypedHeader(h) ==
    /\ "total_size" \in DOMAIN h => h["total_size"] \in Int
    /\ {"file_name", "parent_folder"} \cap DOMAIN h # {} => "type" \in DOMAIN h /\ h["type"] = "FILE"
    /\ "parent_folder" \in DOMAIN h /\ "up" \in h["parent_folder"] => ".." \in h["parent_folder"]

\* ...and so are those of a chunk or a control message.
TypedPart(p) ==
    /\ "offset" \in DOMAIN p => p["offset"] \in Int
    /\ "body" \in DOMAIN p => p["body"] \in Nat

\* What ensure_valid_payload_transfer refuses of the names in a header.
Illegal(h) ==
    /\ Get(h, "type", "") = "FILE"
    /\ \/ HasIllegalCharacters(Get(h, "file_name", {}), ILLEGAL_FILE_NAME_PATTERNS)
       \/ HasIllegalCharacters(Get(h, "parent_folder", {}), ILLEGAL_PARENT_FOLDER_PATTERNS)

\* The names of a genuine file are legal, and those of a stray one are not.
LEMMA NamesJudged ==
    ASSUME NEW h, TypedHeader(h)
    PROVE  /\ Get(h, "file_name", {}) = {} /\ Get(h, "parent_folder", {}) \subseteq {"/"} => ~Illegal(h)
           /\ Get(h, "file_name", {}) \cap {"/", "\\", ":"} # {} => Illegal(h)
           /\ Get(h, "parent_folder", {}) \cap {"up", ":"} # {} => Illegal(h)
  <1> DEFINE n == Get(h, "file_name", {})
             p == Get(h, "parent_folder", {})
  <1>1. n # {} \/ p # {} => Get(h, "type", "") = "FILE"
    BY DEF TypedHeader, Get
  <1>2. "up" \in p => ".." \in p
    BY DEF TypedHeader, Get
  <1>3. Illegal(h) <=> /\ Get(h, "type", "") = "FILE"
                       /\ n \cap {":", "/", "\\"} # {} \/ p \cap {":", ".."} # {}
    BY DEF Illegal, HasIllegalCharacters, ILLEGAL_FILE_NAME_PATTERNS, ILLEGAL_PARENT_FOLDER_PATTERNS
  <1> HIDE DEF n, p
  <1>4. n = {} /\ p \subseteq {"/"} => ~Illegal(h)
    BY <1>3
  <1>5. n \cap {"/", "\\", ":"} # {} => Illegal(h)
    BY <1>1, <1>3
  <1>6. p \cap {"up", ":"} # {} => Illegal(h)
    BY <1>1, <1>2, <1>3
  <1> QED
    BY <1>4, <1>5, <1>6 DEF n, p

\* A data or control frame is accepted when its header and the part that belongs to it are valid.
LEMMA PartVerdict ==
    ASSUME NEW header, NEW part, NEW packet, NEW name,
           \/ packet = "DATA" /\ name = "payload_chunk"
           \/ packet = "CONTROL" /\ name = "control_message",
           NEW sub, DOMAIN sub = {"payload_header", name},
           sub["payload_header"] = header, sub[name] = part
    PROVE  LET size == header["total_size"]
           IN  FromBytes(ForPayloadTransfer(packet, sub)) = "Success" <=>
                  /\ "total_size" \in DOMAIN header
                  /\ ~(size < 0 /\ size # INDETERMINATE_SIZE)
                  /\ ~Illegal(header)
                  /\ packet = "DATA" => EnsureValidPayloadTransferData(part, size)
                  /\ packet = "CONTROL" => EnsureValidPayloadTransferControl(part, size)
  <1> DEFINE k == [packet_type |-> PacketType[packet]]
             pt == k ++ sub
             size == header["total_size"]
             valid == /\ "total_size" \in DOMAIN header
                      /\ ~(size < 0 /\ size # INDETERMINATE_SIZE)
                      /\ ~Illegal(header)
                      /\ packet = "DATA" => EnsureValidPayloadTransferData(part, size)
                      /\ packet = "CONTROL" => EnsureValidPayloadTransferControl(part, size)
  <1>1. DOMAIN k = {"packet_type"} /\ k["packet_type"] = PacketType[packet]
    OBVIOUS
  <1> HIDE DEF k
  <1>2. /\ DOMAIN pt = {"packet_type", "payload_header", name}
        /\ pt["packet_type"] = PacketType[packet]
        /\ pt["payload_header"] = header /\ pt[name] = part
    BY <1>1 DEF ++
  <1> HIDE DEF pt
  <1>3. packet \in DOMAIN PacketType
    BY DEF PacketType
  <1>4. TryFrom(PacketType, pt.packet_type, "UNKNOWN_PACKET_TYPE") = packet
    BY <1>2, <1>3, ReadsPacket
  <1>5. Known(PacketType, pt.packet_type) /\ Get(pt, "packet_type", -1) = pt.packet_type
    BY <1>2, <1>3 DEF Known, Get
  <1>6. Get(pt, "payload_header", NoFields) = header
    BY <1>2 DEF Get
  <1>7. "total_size" \in DOMAIN header => Get(header, "total_size", 0) = size
    BY DEF Get
  <1>8. EnsureValidPayloadTransfer(pt) = "Success" <=> valid
    <2> HIDE DEF size
    <2> QED
      BY <1>2, <1>4, <1>5, <1>6, <1>7 DEF EnsureValidPayloadTransfer, Has, Verdict, Illegal
  <1>9. FromBytes(EncodeV1("PAYLOAD_TRANSFER", [payload_transfer |-> pt])) = EnsureValidPayloadTransfer(pt)
    BY TransferFrame
  <1>10. ForPayloadTransfer(packet, sub) = EncodeV1("PAYLOAD_TRANSFER", [payload_transfer |-> pt])
    BY Zenon DEF ForPayloadTransfer, pt, k
  <1> QED
    BY <1>8, <1>9, <1>10, Zenon

\* A genuine frame is accepted, and a stray one is not, whatever its sizes and names.
LEMMA FrameJudged ==
    ASSUME NEW header, NEW part, NEW packet, NEW name,
           \/ packet = "DATA" /\ name = "payload_chunk"
           \/ packet = "CONTROL" /\ name = "control_message",
           NEW sub, DOMAIN sub = {"payload_header", name},
           sub["payload_header"] = header, sub[name] = part,
           TypedHeader(header), TypedPart(part)
    PROVE  LET f == ForPayloadTransfer(packet, sub)
           IN  /\ Genuine(header, part) /\ (packet = "DATA" => Complete(part)) => FromBytes(f) = "Success"
               /\ Stray(header, part) => FromBytes(f) # "Success"
  <1> DEFINE f == ForPayloadTransfer(packet, sub)
             size == header["total_size"]
             offset == part["offset"]
  <1>1. FromBytes(f) = "Success" <=>
           /\ "total_size" \in DOMAIN header
           /\ ~(size < 0 /\ size # INDETERMINATE_SIZE)
           /\ ~Illegal(header)
           /\ packet = "DATA" => EnsureValidPayloadTransferData(part, size)
           /\ packet = "CONTROL" => EnsureValidPayloadTransferControl(part, size)
    BY PartVerdict
  <1> HIDE DEF f
  <1>2. /\ "total_size" \in DOMAIN header => size \in Int /\ Get(header, "total_size", -2) = size
        /\ "total_size" \notin DOMAIN header => Get(header, "total_size", -2) = -2
    BY DEF TypedHeader, Get
  <1>3. /\ "offset" \in DOMAIN part => offset \in Int /\ Get(part, "offset", -1) = offset
                                      /\ Get(part, "offset", 0) = offset
        /\ "offset" \notin DOMAIN part => Get(part, "offset", -1) = -1
        /\ Get(part, "body", 0) \in Nat
    BY DEF TypedPart, Get
  <1>4. OffsetOk(part, size) <=> /\ "offset" \in DOMAIN part /\ offset >= 0
                                 /\ size = -1 \/ offset <= size
    BY <1>3 DEF OffsetOk, Has, INDETERMINATE_SIZE
  <1>5. ASSUME Genuine(header, part), packet = "DATA" => Complete(part) PROVE FromBytes(f) = "Success"
    <2>1. "total_size" \in DOMAIN header /\ size \in Int /\ size >= -1
      <3>1. "total_size" \in DOMAIN header
        BY <1>2, <1>5 DEF Genuine
      <3> QED
        BY <1>2, <1>5, <3>1 DEF Genuine
    <2>2. "offset" \in DOMAIN part /\ offset \in Int /\ offset >= 0
      <3>1. "offset" \in DOMAIN part
        BY <1>3, <1>5 DEF Genuine
      <3> QED
        BY <1>3, <1>5, <3>1 DEF Genuine
    <2>3. size >= 0 => offset + Get(part, "body", 0) <= size
      BY <1>5 DEF Genuine
    <2>4. size = -1 \/ offset <= size
      <3> HIDE DEF size, offset
      <3> QED
        BY <1>3, <2>1, <2>2, <2>3
    <2>5. OffsetOk(part, size)
      BY <1>4, <2>2, <2>4
    <2>6. ~Illegal(header)
      BY <1>5, NamesJudged DEF Genuine
    <2>7. ASSUME packet = "DATA" PROVE EnsureValidPayloadTransferData(part, size)
      BY <1>5, <2>5, <2>7 DEF Complete, EnsureValidPayloadTransferData
    <2>8. EnsureValidPayloadTransferControl(part, size)
      BY <2>5 DEF EnsureValidPayloadTransferControl
    <2>9. ~(size < 0 /\ size # INDETERMINATE_SIZE)
      <3> HIDE DEF size
      <3> QED
        BY <2>1 DEF INDETERMINATE_SIZE
    <2> QED
      BY <1>1, <2>1, <2>6, <2>7, <2>8, <2>9
  <1>6. ASSUME FromBytes(f) = "Success" PROVE ~Stray(header, part)
    <2>1. "total_size" \in DOMAIN header /\ size \in Int /\ ~(size < 0 /\ size # -1)
      BY <1>1, <1>2, <1>6 DEF INDETERMINATE_SIZE
    <2>2. OffsetOk(part, size)
      BY <1>1, <1>6 DEF EnsureValidPayloadTransferData, EnsureValidPayloadTransferControl
    <2>3. /\ "offset" \in DOMAIN part /\ offset \in Int /\ offset >= 0
          /\ size = -1 \/ offset <= size
      BY <1>3, <1>4, <2>2
    <2>4. ~Illegal(header)
      BY <1>1, <1>6
    <2>5. ~(Get(header, "total_size", -2) < -1 \/ Get(part, "offset", -1) < 0)
      <3>1. Get(header, "total_size", -2) = size /\ Get(part, "offset", -1) = offset
        BY <1>2, <1>3, <2>1, <2>3
      <3> HIDE DEF size, offset
      <3> QED
        BY <2>1, <2>3, <3>1
    <2>6. ~(size >= 0 /\ offset > size)
      <3> HIDE DEF size, offset
      <3> QED
        BY <2>1, <2>3
    <2> QED
      BY <2>4, <2>5, <2>6, NamesJudged DEF Stray
  <1> QED
    BY <1>5, <1>6 DEF f

\* Nothing is promised of a foreign frame.
LEMMA ForeignSound ==
    ASSUME NEW f
    PROVE  SoundFrame(f, [type |-> "FOREIGN"])
  <1> DEFINE what == [type |-> "FOREIGN"]
  <1>1. DOMAIN what = {"type"} /\ what.type = "FOREIGN"
    OBVIOUS
  <1> HIDE DEF what
  <1>2. ControlRead(f, what) /\ RequestRead(f, what) /\ PayloadRead(f, what)
    BY <1>1 DEF ControlRead, RequestRead, PayloadRead, Has
  <1> QED
    BY <1>2 DEF SoundFrame, what

\* A step that sends a sound frame.
Sends == \E f, what : Send(f, what) /\ (f # NoFields => SoundFrame(f, what))

\* Every frame the manager and the consumer write during an upgrade is sound.
LEMMA ControlSends == SendControlFrame => Sends
  <1> SUFFICES ASSUME SendControlFrame PROVE Sends
    OBVIOUS
  <1>1. {"LAST_WRITE_TO_PRIOR_CHANNEL", "SAFE_TO_CLOSE_PRIOR_CHANNEL", "CLIENT_INTRODUCTION_ACK",
         "CLIENT_INTRODUCTION", "UPGRADE_PATH_REQUEST", "UPGRADE_FAILURE"}
           \subseteq DOMAIN EventType \ {"UPGRADE_PATH_AVAILABLE"}
    BY DEF EventType
  <1>2. CASE Send(ForBwuLastWrite, [type |-> "LAST_WRITE_TO_PRIOR_CHANNEL"])
    <2>1. SoundFrame(ForBwuLastWrite, [type |-> "LAST_WRITE_TO_PRIOR_CHANNEL"])
      BY <1>1, NegotiationSound DEF ForBwuLastWrite
    <2> QED
      BY <1>2, <2>1, Zenon DEF Sends
  <1>3. CASE Send(ForBwuSafeToClose, [type |-> "SAFE_TO_CLOSE_PRIOR_CHANNEL"])
    <2>1. SoundFrame(ForBwuSafeToClose, [type |-> "SAFE_TO_CLOSE_PRIOR_CHANNEL"])
      BY <1>1, NegotiationSound DEF ForBwuSafeToClose
    <2> QED
      BY <1>3, <2>1, Zenon DEF Sends
  <1>4. CASE Send(ForBwuIntroductionAck, [type |-> "CLIENT_INTRODUCTION_ACK"])
    <2>1. SoundFrame(ForBwuIntroductionAck, [type |-> "CLIENT_INTRODUCTION_ACK"])
      BY <1>1, NegotiationSound DEF ForBwuIntroductionAck
    <2> QED
      BY <1>4, <2>1, Zenon DEF Sends
  <1>5. ASSUME NEW id \in {"", "ID"}, NEW last \in {"", "ID"},
               Send(ForBwuIntroduction(id, last), [type |-> "CLIENT_INTRODUCTION"])
        PROVE  Sends
    <2> DEFINE e == [endpoint_id |-> id]
               c == e ++ Only(last # "", [last_endpoint_id |-> last])
               sub == [client_introduction |-> c]
    <2>1. DOMAIN e = {"endpoint_id"}
      OBVIOUS
    <2> HIDE DEF e
    <2>2. "endpoint_id" \in DOMAIN c
      BY <2>1 DEF ++
    <2> HIDE DEF c
    <2>3. DOMAIN sub = {"client_introduction"} /\ sub["client_introduction"] = c
      OBVIOUS
    <2> HIDE DEF sub
    <2>4. SoundFrame(ForNegotiation("CLIENT_INTRODUCTION", sub), [type |-> "CLIENT_INTRODUCTION"])
      BY <1>1, <2>2, <2>3, NegotiationSound
    <2>5. ForNegotiation("CLIENT_INTRODUCTION", sub) = ForBwuIntroduction(id, last)
      BY Zenon DEF ForBwuIntroduction, sub, c, e
    <2> QED
      BY <1>5, <2>4, <2>5, Zenon DEF Sends
  <1>6. ASSUME NEW m \in Medium,
               Send(ForBwuPathRequest(m, <<m>>), [type |-> "UPGRADE_PATH_REQUEST"])
        PROVE  Sends
    <2>1. \A sub : SoundFrame(ForNegotiation("UPGRADE_PATH_REQUEST", sub), [type |-> "UPGRADE_PATH_REQUEST"])
      BY <1>1, NegotiationSound
    <2>2. SoundFrame(ForBwuPathRequest(m, <<m>>), [type |-> "UPGRADE_PATH_REQUEST"])
      BY <2>1, Zenon DEF ForBwuPathRequest
    <2> QED
      BY <1>6, <2>2, Zenon DEF Sends
  <1>7. ASSUME NEW m \in Medium,
               Send(ForBwuFailure(UpgradePathInfoForMedium(m)), [type |-> "UPGRADE_FAILURE"])
        PROVE  Sends
    <2>1. \A sub : SoundFrame(ForNegotiation("UPGRADE_FAILURE", sub), [type |-> "UPGRADE_FAILURE"])
      BY <1>1, NegotiationSound
    <2>2. SoundFrame(ForBwuFailure(UpgradePathInfoForMedium(m)), [type |-> "UPGRADE_FAILURE"])
      BY <2>1, Zenon DEF ForBwuFailure
    <2> QED
      BY <1>7, <2>2, Zenon DEF Sends
  <1>8. ASSUME NEW request \in BOOLEAN, NEW ack \in BOOLEAN,
               Send(ForDisconnection(request, ack), [type |-> "DISCONNECTION"])
        PROVE  Sends
    <2> DEFINE d == [request_safe_to_disconnect |-> request, ack_safe_to_disconnect |-> ack]
               sub == [disconnection |-> d]
    <2>1. DOMAIN sub = {"disconnection"}
      OBVIOUS
    <2> HIDE DEF sub
    <2>2. SoundFrame(EncodeV1("DISCONNECTION", sub), [type |-> "DISCONNECTION"])
      BY <2>1, OtherFrameSound
    <2>3. SoundFrame(ForDisconnection(request, ack), [type |-> "DISCONNECTION"])
      BY <2>2, Zenon DEF ForDisconnection, sub
    <2> QED
      BY <1>8, <2>3, Zenon DEF Sends
  <1>9. ASSUME NEW f \in {ForKeepAlive, ForKeepAliveAck(TRUE, 1)},
               Send(f, [type |-> "KEEP_ALIVE"])
        PROVE  Sends
    <2> DEFINE s1 == [keep_alive |-> NoFields]
               s2 == [keep_alive |-> [ack |-> TRUE, seq_num |-> 1]]
    <2>1. DOMAIN s1 = {"keep_alive"} /\ DOMAIN s2 = {"keep_alive"}
      OBVIOUS
    <2> HIDE DEF s1, s2
    <2>2. /\ SoundFrame(EncodeV1("KEEP_ALIVE", s1), [type |-> "KEEP_ALIVE"])
          /\ SoundFrame(EncodeV1("KEEP_ALIVE", s2), [type |-> "KEEP_ALIVE"])
      BY <2>1, OtherFrameSound
    <2>3. /\ EncodeV1("KEEP_ALIVE", s1) = ForKeepAlive
          /\ EncodeV1("KEEP_ALIVE", s2) = ForKeepAliveAck(TRUE, 1)
      BY Zenon DEF ForKeepAlive, ForKeepAliveAck, s1, s2
    <2> QED
      BY <1>9, <2>2, <2>3, Zenon DEF Sends
  <1>10. ASSUME NEW s \in {0, 13}, Send(ForConnectionResponse(s), [type |-> "CONNECTION_RESPONSE"])
        PROVE  Sends
    <2> DEFINE r == [status |-> s, response |-> IF s = 0 THEN "ACCEPT" ELSE "REJECT"]
               sub == [connection_response |-> r]
    <2> HIDE DEF r
    <2>1. DOMAIN sub = {"connection_response"}
      OBVIOUS
    <2> HIDE DEF sub
    <2>2. SoundFrame(EncodeV1("CONNECTION_RESPONSE", sub), [type |-> "CONNECTION_RESPONSE"])
      BY <2>1, OtherFrameSound
    <2>3. SoundFrame(ForConnectionResponse(s), [type |-> "CONNECTION_RESPONSE"])
      BY <2>2, Zenon DEF ForConnectionResponse, sub, r
    <2> QED
      BY <1>10, <2>3, Zenon DEF Sends
  <1>11. CASE Send(ForPayloadAckPayloadTransfer(1), [type |-> "PAYLOAD_TRANSFER"])
    <2> DEFINE h == [id |-> 1, total_size |-> INDETERMINATE_SIZE]
               sub == [payload_header |-> h]
               k == [packet_type |-> PacketType["PAYLOAD_ACK"]]
               pt == k ++ sub
               f == EncodeV1("PAYLOAD_TRANSFER", [payload_transfer |-> pt])
               what == [type |-> "PAYLOAD_TRANSFER"]
    <2>1. h["total_size"] \in Int
      BY DEF INDETERMINATE_SIZE
    <2> HIDE DEF h
    <2>2. DOMAIN sub = {"payload_header"} /\ sub["payload_header"] = h
      OBVIOUS
    <2>3. DOMAIN k = {"packet_type"} /\ k["packet_type"] = PacketType["PAYLOAD_ACK"]
      OBVIOUS
    <2>4. DOMAIN what = {"type"} /\ what.type = "PAYLOAD_TRANSFER"
      OBVIOUS
    <2> HIDE DEF sub, k, what
    <2>5. /\ DOMAIN pt = {"packet_type", "payload_header"}
          /\ pt["packet_type"] = PacketType["PAYLOAD_ACK"] /\ pt["payload_header"] = h
      BY <2>2, <2>3 DEF ++
    <2> HIDE DEF pt
    <2>6. "PAYLOAD_ACK" \in DOMAIN PacketType
      BY DEF PacketType
    <2>7. TryFrom(PacketType, pt.packet_type, "UNKNOWN_PACKET_TYPE") = "PAYLOAD_ACK"
      BY <2>5, <2>6, ReadsPacket
    <2>8. EnsureValidPayloadTransfer(pt) = "Success"
      BY <2>5, <2>7 DEF EnsureValidPayloadTransfer, Has
    <2>9. GetFrameType(f) = "PAYLOAD_TRANSFER" /\ FromBytes(f) = "Success"
      BY <2>8, TransferFrame
    <2>10. f = ForPayloadAckPayloadTransfer(1)
      BY Zenon DEF ForPayloadAckPayloadTransfer, ForPayloadTransfer, pt, k, sub, h
    <2> HIDE DEF f
    <2>11. SoundFrame(f, what)
      BY <2>4, <2>9 DEF SoundFrame, ControlRead, RequestRead, PayloadRead, Has
    <2> QED
      BY <1>11, <2>10, <2>11, Zenon DEF Sends, what
  <1> QED
    BY <1>2, <1>3, <1>4, <1>5, <1>6, <1>7, <1>8, <1>9, <1>10, <1>11, Zenon DEF SendControlFrame

\* The headers that SendPayload builds are typed...
LEMMA HeadersTyped ==
    ASSUME NEW size \in Opt("total_size", Size), NEW file \in PayloadTypes
    PROVE  TypedHeader([id |-> 1] ++ size ++ file)
  <1> DEFINE t == [type |-> "FILE"]
             N == Opt("file_name", {{}, {"/"}, {"\\"}, {":"}, {"..", "up"}})
             P == Opt("parent_folder", {{"/"}, {":"}, {".."}, {"..", "up"}})
             id == [id |-> 1]
             header == id ++ size ++ file
  <1>1. DOMAIN t = {"type"} /\ t["type"] = "FILE"
    OBVIOUS
  <1>2. file = [type |-> "BYTES"] \/ \E n \in N, p \in P : file = t ++ n ++ p
    BY DEF PayloadTypes
  <1>3. (\A n \in N : DOMAIN n \subseteq {"file_name"})
        /\ (\A p \in P : DOMAIN p \subseteq {"parent_folder"})
    BY OptionalDomain, Zenon
  <1>4. ASSUME NEW p \in P, "parent_folder" \in DOMAIN p, "up" \in p["parent_folder"]
        PROVE  ".." \in p["parent_folder"]
    <2> DEFINE Q == {{"/"}, {":"}, {".."}, {"..", "up"}}
    <2>1. p \in Opt("parent_folder", Q)
      OBVIOUS
    <2> HIDE DEF Q
    <2>2. DOMAIN p = {} \/ (DOMAIN p = {"parent_folder"} /\ p["parent_folder"] \in Q)
      BY <2>1, Optional, Zenon
    <2>3. p["parent_folder"] \in Q
      BY <1>4, <2>2
    <2> QED
      BY <1>4, <2>3 DEF Q
  <1> HIDE DEF t, N, P
  <1>5. /\ DOMAIN file \subseteq {"type", "file_name", "parent_folder"}
        /\ {"file_name", "parent_folder"} \cap DOMAIN file # {} =>
              "type" \in DOMAIN file /\ file["type"] = "FILE"
        /\ "parent_folder" \in DOMAIN file /\ "up" \in file["parent_folder"] =>
              ".." \in file["parent_folder"]
    <2>1. CASE file = [type |-> "BYTES"]
      <3>1. DOMAIN file = {"type"}
        BY <2>1
      <3> QED
        BY <3>1
    <2>2. ASSUME NEW n \in N, NEW p \in P, file = t ++ n ++ p
          PROVE  /\ DOMAIN file \subseteq {"type", "file_name", "parent_folder"}
                 /\ "type" \in DOMAIN file /\ file["type"] = "FILE"
                 /\ "parent_folder" \in DOMAIN file =>
                       "parent_folder" \in DOMAIN p /\ file["parent_folder"] = p["parent_folder"]
      BY <1>1, <1>3, <2>2 DEF ++
    <2>3. ASSUME NEW n \in N, NEW p \in P, file = t ++ n ++ p
          PROVE  "parent_folder" \in DOMAIN file /\ "up" \in file["parent_folder"] =>
                    ".." \in file["parent_folder"]
      BY <1>4, <2>2, <2>3
    <2> QED
      BY <1>2, <2>1, <2>2, <2>3
  <1>6. DOMAIN id = {"id"}
    OBVIOUS
  <1>7. DOMAIN size = {} \/ (DOMAIN size = {"total_size"} /\ size["total_size"] \in Int)
    <2>1. DOMAIN size = {} \/ (DOMAIN size = {"total_size"} /\ size["total_size"] \in Size)
      BY Optional, Zenon
    <2> QED
      BY <2>1, FrameExchangeAssumption
  <1> HIDE DEF id
  <1>8. /\ DOMAIN header = {"id"} \cup DOMAIN size \cup DOMAIN file
        /\ \A x \in DOMAIN file : header[x] = file[x]
        /\ "total_size" \in DOMAIN size => header["total_size"] = size["total_size"]
    BY <1>5, <1>6, <1>7 DEF ++
  <1> HIDE DEF header
  <1>9. "total_size" \in DOMAIN header => header["total_size"] \in Int
    BY <1>5, <1>7, <1>8
  <1>10. {"file_name", "parent_folder"} \cap DOMAIN header # {} =>
           "type" \in DOMAIN header /\ header["type"] = "FILE"
    BY <1>5, <1>7, <1>8
  <1>11. "parent_folder" \in DOMAIN header /\ "up" \in header["parent_folder"] =>
           ".." \in header["parent_folder"]
    BY <1>5, <1>7, <1>8
  <1>12. TypedHeader(header)
    BY <1>9, <1>10, <1>11 DEF TypedHeader
  <1> QED
    BY <1>12 DEF header, id

\* ...and so are the chunks.
LEMMA ChunksTyped ==
    ASSUME NEW flags \in Opt("flags", {0, 1, 2}), NEW offset \in Opt("offset", Size),
           NEW body \in Opt("body", Size \cap Nat)
    PROVE  TypedPart(offset) /\ TypedPart(flags ++ offset ++ body)
  <1> DEFINE chunk == flags ++ offset ++ body
  <1>1. DOMAIN flags \subseteq {"flags"}
    BY OptionalDomain, Zenon
  <1>2. DOMAIN offset = {} \/ (DOMAIN offset = {"offset"} /\ offset["offset"] \in Size)
    BY Optional, Zenon
  <1>3. DOMAIN body = {} \/ (DOMAIN body = {"body"} /\ body["body"] \in Size \cap Nat)
    BY Optional, Zenon
  <1>4. "offset" \in DOMAIN offset => offset["offset"] \in Int
    BY <1>2, FrameExchangeAssumption
  <1>5. TypedPart(offset)
    BY <1>2, <1>4 DEF TypedPart
  <1>6. /\ "offset" \in DOMAIN chunk => "offset" \in DOMAIN offset /\ chunk["offset"] = offset["offset"]
        /\ "body" \in DOMAIN chunk => "body" \in DOMAIN body /\ chunk["body"] = body["body"]
    BY <1>1, <1>2, <1>3 DEF ++
  <1> HIDE DEF chunk
  <1>7. TypedPart(chunk)
    BY <1>3, <1>4, <1>6 DEF TypedPart
  <1> QED
    BY <1>5, <1>7 DEF chunk

\* A frame that is accepted if genuine, and refused if stray, is sound.
LEMMA PayloadSound ==
    ASSUME NEW f, NEW genuine, NEW stray,
           genuine => FromBytes(f) = "Success", stray => FromBytes(f) # "Success"
    PROVE  SoundFrame(f, [type |-> "PAYLOAD", stray |-> stray, genuine |-> genuine])
  <1> DEFINE what == [type |-> "PAYLOAD", stray |-> stray, genuine |-> genuine]
  <1>1. /\ DOMAIN what = {"type", "stray", "genuine"} /\ what.type = "PAYLOAD"
        /\ (what.stray <=> stray) /\ (what.genuine <=> genuine)
    OBVIOUS
  <1> HIDE DEF what
  <1>2. PayloadRead(f, what)
    BY <1>1, Zenon DEF PayloadRead
  <1>3. ControlRead(f, what) /\ RequestRead(f, what)
    BY <1>1 DEF ControlRead, RequestRead, Has
  <1> QED
    BY <1>2, <1>3 DEF SoundFrame, what

\* Every payload frame, with any field left out, is sound.
LEMMA PayloadSends == SendPayload => Sends
  <1>1. ASSUME NEW header, NEW chunk, TypedHeader(header), TypedPart(chunk)
        PROVE  SoundFrame(ForDataPayloadTransfer(header, chunk),
                          [type |-> "PAYLOAD", stray |-> Stray(header, chunk),
                           genuine |-> Genuine(header, chunk) /\ Complete(chunk)])
    <2> DEFINE sub == [payload_header |-> header, payload_chunk |-> chunk]
               f == ForPayloadTransfer("DATA", sub)
    <2>1. /\ DOMAIN sub = {"payload_header", "payload_chunk"}
          /\ sub["payload_header"] = header /\ sub["payload_chunk"] = chunk
      OBVIOUS
    <2> HIDE DEF sub
    <2>2. /\ Genuine(header, chunk) /\ Complete(chunk) => FromBytes(f) = "Success"
          /\ Stray(header, chunk) => FromBytes(f) # "Success"
      BY <1>1, <2>1, FrameJudged
    <2> HIDE DEF f
    <2>3. SoundFrame(f, [type |-> "PAYLOAD", stray |-> Stray(header, chunk),
                         genuine |-> Genuine(header, chunk) /\ Complete(chunk)])
      BY <2>2, PayloadSound, Zenon
    <2> QED
      BY <2>3, Zenon DEF ForDataPayloadTransfer, sub, f
  <1>2. ASSUME NEW header, NEW control, TypedHeader(header), TypedPart(control)
        PROVE  SoundFrame(ForControlPayloadTransfer(header, control),
                          [type |-> "PAYLOAD", stray |-> Stray(header, control),
                           genuine |-> Genuine(header, control)])
    <2> DEFINE sub == [payload_header |-> header, control_message |-> control]
               f == ForPayloadTransfer("CONTROL", sub)
    <2>1. /\ DOMAIN sub = {"payload_header", "control_message"}
          /\ sub["payload_header"] = header /\ sub["control_message"] = control
      OBVIOUS
    <2> HIDE DEF sub
    <2>2. /\ Genuine(header, control) => FromBytes(f) = "Success"
          /\ Stray(header, control) => FromBytes(f) # "Success"
      BY <1>2, <2>1, FrameJudged
    <2> HIDE DEF f
    <2>3. SoundFrame(f, [type |-> "PAYLOAD", stray |-> Stray(header, control),
                         genuine |-> Genuine(header, control)])
      BY <2>2, PayloadSound, Zenon
    <2> QED
      BY <2>3, Zenon DEF ForControlPayloadTransfer, sub, f
  <1> SUFFICES ASSUME SendPayload PROVE Sends
    OBVIOUS
  <1>3. PICK size \in Opt("total_size", Size), file \in PayloadTypes, offset \in Opt("offset", Size) :
          LET header == [id |-> 1] ++ size ++ file
          IN  \/ \E flags \in Opt("flags", {0, 1, 2}), body \in Opt("body", Size \cap Nat) :
                    LET chunk == flags ++ offset ++ body
                    IN  Send(ForDataPayloadTransfer(header, chunk),
                             [type |-> "PAYLOAD", stray |-> Stray(header, chunk),
                              genuine |-> Genuine(header, chunk) /\ Complete(chunk)])
              \/ Send(ForControlPayloadTransfer(header, offset),
                      [type |-> "PAYLOAD", stray |-> Stray(header, offset),
                       genuine |-> Genuine(header, offset)])
    BY Zenon DEF SendPayload
  <1> DEFINE header == [id |-> 1] ++ size ++ file
  <1>4. TypedHeader(header)
    BY HeadersTyped
  <1> HIDE DEF header
  <1>5. ASSUME NEW flags \in Opt("flags", {0, 1, 2}), NEW body \in Opt("body", Size \cap Nat),
               NEW chunk, chunk = flags ++ offset ++ body,
               Send(ForDataPayloadTransfer(header, chunk),
                    [type |-> "PAYLOAD", stray |-> Stray(header, chunk),
                     genuine |-> Genuine(header, chunk) /\ Complete(chunk)])
        PROVE  Sends
    <2>1. TypedPart(chunk)
      BY <1>5, ChunksTyped, Zenon
    <2> QED
      BY <1>1, <1>4, <1>5, <2>1, Zenon DEF Sends
  <1>6. ASSUME Send(ForControlPayloadTransfer(header, offset),
                    [type |-> "PAYLOAD", stray |-> Stray(header, offset),
                     genuine |-> Genuine(header, offset)])
        PROVE  Sends
    <2>1. NoFields \in Opt("flags", {0, 1, 2}) /\ NoFields \in Opt("body", Size \cap Nat)
      BY DEF Opt
    <2>2. TypedPart(offset)
      BY <2>1, ChunksTyped, Zenon
    <2> QED
      BY <1>2, <1>4, <1>6, <2>2, Zenon DEF Sends
  <1> QED
    BY <1>3, <1>5, <1>6, Zenon DEF header

\* So is every foreign frame.
LEMMA ForeignSends == SendForeign => Sends
  <1>1. ASSUME NEW f, Send(f, [type |-> "FOREIGN"])
        PROVE  Sends
    BY <1>1, ForeignSound, Zenon DEF Sends
  <1> QED
    BY <1>1, Zenon DEF SendForeign

\* An authentication type survives both translations, but for a PIN, which neither side translates.
LEMMA AuthReadsBack ==
    ASSUME NEW t \in DOMAIN AuthType
    PROVE  MediumMetadataToWfdAuthType(WfdAuthTypeToMediumMetadata(t))
             = IF t = "WIFI_DIRECT_WITH_PIN" THEN "WIFI_DIRECT_TYPE_UNKNOWN" ELSE t
  <1>1. DOMAIN AuthType = {"WIFI_DIRECT_TYPE_UNKNOWN", "WIFI_DIRECT_WITH_PASSWORD",
                           "WIFI_DIRECT_WITH_PIN", "WIFI_DIRECT_WITH_DEVICE_NAME"}
    BY DEF AuthType
  <1>2. Translated(t) \in DOMAIN AuthType
    BY <1>1 DEF Translated
  <1>3. TryFrom(AuthType, AuthType[Translated(t)], "WIFI_DIRECT_TYPE_UNKNOWN") = Translated(t)
    BY <1>2, ReadsAuth
  <1>4. MediumMetadataToWfdAuthType(WfdAuthTypeToMediumMetadata(t)) = Translated(Translated(t))
    BY <1>3 DEF MediumMetadataToWfdAuthType, WfdAuthTypeToMediumMetadata
  <1> QED
    BY <1>1, <1>4 DEF Translated

\* The elements of a sequence over S are in S.
LEMMA SequenceOf ==
    ASSUME NEW S, NEW s \in Seq(S)
    PROVE  (\A i \in DOMAIN s : s[i] \in S) /\ s = [i \in DOMAIN s |-> s[i]]
  OBVIOUS

\* The mediums of a connection request read back as they were, in order.
LEMMA MediumsReadBack ==
    ASSUME NEW req, NEW sm \in Seq(Medium),
           req.mediums = [i \in DOMAIN sm |-> MediumToConnectionRequestMedium(sm[i])]
    PROVE  ConnectionRequestMediumsToMediums(req) = sm
  <1> DEFINE w == req.mediums
  <1>1. DOMAIN w = DOMAIN sm /\ \A i \in DOMAIN sm : w[i] = MediumToConnectionRequestMedium(sm[i])
    OBVIOUS
  <1>2. (\A i \in DOMAIN sm : sm[i] \in Medium) /\ sm = [i \in DOMAIN sm |-> sm[i]]
    <2>1. \A i \in DOMAIN sm : sm[i] \in Medium
      BY SequenceOf, Zenon
    <2> HIDE DEF w
    <2>2. sm = [i \in DOMAIN sm |-> sm[i]]
      BY SequenceOf
    <2> QED
      BY <2>1, <2>2, Zenon
  <1> HIDE DEF w
  <1>3. \A i \in DOMAIN sm : ConnectionRequestMediumToMedium(w[i]) = sm[i]
    BY <1>1, <1>2, ReadsRequestMedium, Zenon
       DEF ConnectionRequestMediumToMedium, MediumToConnectionRequestMedium
  <1>4. ConnectionRequestMediumsToMediums(req) = [i \in DOMAIN w |-> ConnectionRequestMediumToMedium(w[i])]
    BY DEF ConnectionRequestMediumsToMediums, w
  <1>5. [i \in DOMAIN w |-> ConnectionRequestMediumToMedium(w[i])] = [i \in DOMAIN sm |-> sm[i]]
    BY <1>1, <1>3, Zenon
  <1> QED
    BY <1>2, <1>4, <1>5, Zenon

\* So do the authentication types, but for a PIN.
LEMMA AuthsReadBack ==
    ASSUME NEW metadata, NEW auth \in Seq(DOMAIN AuthType),
           metadata.supported_wifi_direct_auth_types
             = [i \in DOMAIN auth |-> WfdAuthTypeToMediumMetadata(auth[i])]
    PROVE  MediumMetadataToWfdAuthTypes(metadata) =
             [i \in DOMAIN auth |->
                 IF auth[i] = "WIFI_DIRECT_WITH_PIN" THEN "WIFI_DIRECT_TYPE_UNKNOWN" ELSE auth[i]]
  <1> DEFINE w == metadata.supported_wifi_direct_auth_types
  <1>1. DOMAIN w = DOMAIN auth /\ \A i \in DOMAIN auth : w[i] = WfdAuthTypeToMediumMetadata(auth[i])
    OBVIOUS
  <1>2. \A i \in DOMAIN auth : auth[i] \in DOMAIN AuthType
    BY SequenceOf, Zenon
  <1> HIDE DEF w
  <1>3. \A i \in DOMAIN auth : MediumMetadataToWfdAuthType(w[i]) =
           IF auth[i] = "WIFI_DIRECT_WITH_PIN" THEN "WIFI_DIRECT_TYPE_UNKNOWN" ELSE auth[i]
    BY <1>1, <1>2, AuthReadsBack
  <1>4. MediumMetadataToWfdAuthTypes(metadata)
          = [i \in DOMAIN w |-> MediumMetadataToWfdAuthType(w[i])]
    BY DEF MediumMetadataToWfdAuthTypes, w
  <1> QED
    BY <1>1, <1>3, <1>4

\* A connection request with the identity, name, mediums, authentication types and role of its sender
\* is sound: it is accepted exactly when it has an identity and a name.
LEMMA RequestSound ==
    ASSUME NEW req, NEW id, NEW info, NEW role, NEW auth \in Seq(DOMAIN AuthType),
           info.supported_mediums \in Seq(Medium),
           Get(req, "endpoint_id", "") = id,
           Get(req, "endpoint_name", "") = info.local_endpoint_info,
           req.mediums = [i \in DOMAIN info.supported_mediums |->
                            MediumToConnectionRequestMedium(info.supported_mediums[i])],
           req.medium_metadata.supported_wifi_direct_auth_types
             = [i \in DOMAIN auth |-> WfdAuthTypeToMediumMetadata(auth[i])],
           Get(req.medium_metadata, "medium_role", "none") = role
    PROVE  SoundFrame(EncodeV1("CONNECTION_REQUEST", [connection_request |-> req]),
                      [id |-> id, info |-> info, role |-> role, auth |-> auth])
  <1> DEFINE sub == [connection_request |-> req]
             f == EncodeV1("CONNECTION_REQUEST", sub)
             what == [id |-> id, info |-> info, role |-> role, auth |-> auth]
             sm == info.supported_mediums
  <1>1. "CONNECTION_REQUEST" \in DOMAIN FrameType
    BY DEF FrameType
  <1>2. DOMAIN sub = {"connection_request"} /\ sub["connection_request"] = req
    OBVIOUS
  <1>3. /\ DOMAIN what = {"id", "info", "role", "auth"}
        /\ what.id = id /\ what.info = info /\ what.role = role /\ what.auth = auth
    OBVIOUS
  <1> HIDE DEF sub, what
  <1>4. /\ DOMAIN f = {"version", "v1"}
        /\ GetFrameType(f) = "CONNECTION_REQUEST"
        /\ DOMAIN f.v1 = {"type"} \cup DOMAIN sub
        /\ \A x \in DOMAIN sub \ {"type"} : f.v1[x] = sub[x]
    BY <1>1, Encoded, Zenon
  <1> HIDE DEF f
  <1>5. "connection_request" \in DOMAIN f.v1 /\ f.v1["connection_request"] = req
    BY <1>2, <1>4
  <1>6. FromBytes(f) = Verdict(EnsureValidConnectionRequest(req))
    BY <1>4, <1>5 DEF FromBytes, EnsureValidOfflineFrame, Has
  <1>7. FromBytes(f) = "Success" <=> (id # "" /\ info.local_endpoint_info # "")
    BY <1>6 DEF Verdict, EnsureValidConnectionRequest
  <1>8. ConnectionRequestMediumsToMediums(req) = sm
    BY MediumsReadBack, Zenon
  <1>9. MediumMetadataToWfdAuthTypes(req.medium_metadata) =
           [i \in DOMAIN auth |->
               IF auth[i] = "WIFI_DIRECT_WITH_PIN" THEN "WIFI_DIRECT_TYPE_UNKNOWN" ELSE auth[i]]
    BY AuthsReadBack, Zenon
  <1>10. /\ id # "" => req.endpoint_id = id
         /\ info.local_endpoint_info # "" => req.endpoint_name = info.local_endpoint_info
    BY DEF Get
  <1>11. RequestRead(f, what)
    BY <1>3, <1>5, <1>7, <1>8, <1>9, <1>10 DEF RequestRead
  <1>12. ControlRead(f, what) /\ PayloadRead(f, what)
    BY <1>3 DEF ControlRead, PayloadRead, Has
  <1> QED
    BY <1>11, <1>12 DEF SoundFrame, f, what, sub

\* What build_connection_request_common puts in a request.
LEMMA CommonFields ==
    ASSUME NEW info
    PROVE  LET c == BuildConnectionRequestCommon(info)
           IN  /\ DOMAIN c \subseteq {"endpoint_name", "keep_alive_interval_millis",
                                      "keep_alive_timeout_millis", "mediums", "medium_metadata"}
               /\ {"mediums", "medium_metadata"} \subseteq DOMAIN c
               /\ Get(c, "endpoint_name", "") = info.local_endpoint_info
               /\ c["mediums"] = [i \in DOMAIN info.supported_mediums |->
                                    MediumToConnectionRequestMedium(info.supported_mediums[i])]
               /\ c["medium_metadata"]["supported_wifi_direct_auth_types"] = <<>>
               /\ Get(c["medium_metadata"], "medium_role", "none") = "none"
  <1> DEFINE ms == [i \in DOMAIN info.supported_mediums |->
                       MediumToConnectionRequestMedium(info.supported_mediums[i])]
             md == [supported_wifi_direct_auth_types |-> <<>>]
             d == [mediums |-> ms, medium_metadata |-> md]
             na == [endpoint_name |-> info.local_endpoint_info]
             a == Only(info.local_endpoint_info # "", na)
             nk == [keep_alive_interval_millis |-> info.keep_alive_interval_millis]
             k == Only(info.keep_alive_interval_millis > 0, nk)
             nt == [keep_alive_timeout_millis |-> info.keep_alive_timeout_millis]
             t == Only(info.keep_alive_timeout_millis > 0, nt)
             c == a ++ k ++ t ++ d
  <1>1. DOMAIN NoFields = {}
    BY DEF NoFields
  <1>2. /\ md["supported_wifi_direct_auth_types"] = <<>>
        /\ Get(md, "medium_role", "none") = "none"
    BY DEF Get
  <1> HIDE DEF ms, md
  <1>3. DOMAIN d = {"mediums", "medium_metadata"} /\ d["mediums"] = ms /\ d["medium_metadata"] = md
    OBVIOUS
  <1>4. DOMAIN na = {"endpoint_name"} /\ na["endpoint_name"] = info.local_endpoint_info
    OBVIOUS
  <1>5. DOMAIN nk = {"keep_alive_interval_millis"} /\ DOMAIN nt = {"keep_alive_timeout_millis"}
    OBVIOUS
  <1> HIDE DEF d, na, nk, nt
  <1>6. /\ DOMAIN a \subseteq {"endpoint_name"} /\ DOMAIN k \subseteq {"keep_alive_interval_millis"}
        /\ DOMAIN t \subseteq {"keep_alive_timeout_millis"}
        /\ "endpoint_name" \in DOMAIN a => a["endpoint_name"] = info.local_endpoint_info
        /\ "endpoint_name" \notin DOMAIN a => info.local_endpoint_info = ""
    BY <1>1, <1>4, <1>5 DEF Only
  <1> HIDE DEF a, k, t
  <1>7. /\ DOMAIN c = DOMAIN a \cup DOMAIN k \cup DOMAIN t \cup DOMAIN d
        /\ "endpoint_name" \in DOMAIN a => c["endpoint_name"] = a["endpoint_name"]
        /\ c["mediums"] = ms /\ c["medium_metadata"] = md
    BY <1>3, <1>6 DEF ++
  <1>8. BuildConnectionRequestCommon(info) = c
    BY Zenon DEF BuildConnectionRequestCommon, a, k, t, d, na, nk, nt, ms, md
  <1> HIDE DEF c
  <1>9. Get(c, "endpoint_name", "") = info.local_endpoint_info
    BY <1>3, <1>6, <1>7 DEF Get
  <1>10. DOMAIN c \subseteq {"endpoint_name", "keep_alive_interval_millis",
                             "keep_alive_timeout_millis", "mediums", "medium_metadata"}
    BY <1>3, <1>6, <1>7
  <1>11. {"mediums", "medium_metadata"} \subseteq DOMAIN c
    BY <1>3, <1>7
  <1> QED
    BY <1>2, <1>7, <1>8, <1>9, <1>10, <1>11, Zenon DEF ms

\* for_connection_request_connections: the metadata it adds is not hidden by the common one.
LEMMA ConnectionsRequestSound ==
    ASSUME NEW device, NEW info, NEW dynamic,
           info.supported_mediums \in Seq(Medium),
           info.supported_wifi_direct_auth_types \in Seq(DOMAIN AuthType)
    PROVE  SoundFrame(ForConnectionRequestConnections(device, info, dynamic),
                      [id |-> info.local_endpoint_id, info |-> info,
                       role |-> IF dynamic THEN Get(info, "medium_role", "none") ELSE "none",
                       auth |-> info.supported_wifi_direct_auth_types])
  <1> DEFINE auth == info.supported_wifi_direct_auth_types
             ty == [i \in DOMAIN auth |-> WfdAuthTypeToMediumMetadata(auth[i])]
             nt == [supported_wifi_direct_auth_types |-> ty]
             role == IF dynamic THEN Get(info, "medium_role", "none") ELSE "none"
             nr == [medium_role |-> Get(info, "medium_role", "")]
             r == Only(dynamic /\ Has(info, "medium_role"), nr)
             md == nt ++ r
             nd == [connections_device |-> device]
             d == Only(Has(device, "endpoint_id"), nd)
             ne == [endpoint_id |-> info.local_endpoint_id]
             e == Only(info.local_endpoint_id # "", ne)
             m == [medium_metadata |-> md]
             c == BuildConnectionRequestCommon(info)
             req == d ++ e ++ m ++ c
  <1>1. DOMAIN NoFields = {}
    BY DEF NoFields
  <1> HIDE DEF ty
  <1>2. DOMAIN nt = {"supported_wifi_direct_auth_types"} /\ nt["supported_wifi_direct_auth_types"] = ty
    OBVIOUS
  <1>3. DOMAIN nd = {"connections_device"}
    OBVIOUS
  <1>4. DOMAIN ne = {"endpoint_id"} /\ ne["endpoint_id"] = info.local_endpoint_id
    OBVIOUS
  <1>5. DOMAIN nr = {"medium_role"} /\ nr["medium_role"] = Get(info, "medium_role", "")
    OBVIOUS
  <1> HIDE DEF nt, nd, ne, nr
  <1>6. /\ DOMAIN r \subseteq {"medium_role"}
        /\ Get(r, "medium_role", "none") = role
    BY <1>1, <1>5 DEF Only, Has, Get
  <1> HIDE DEF r, role
  <1>7. /\ md["supported_wifi_direct_auth_types"] = ty
        /\ DOMAIN md = DOMAIN nt \cup DOMAIN r
        /\ "medium_role" \in DOMAIN r => md["medium_role"] = r["medium_role"]
    BY <1>2, <1>6 DEF ++
  <1> HIDE DEF md
  <1>8. Get(md, "medium_role", "none") = role
    BY <1>2, <1>6, <1>7 DEF Get
  <1>9. DOMAIN m = {"medium_metadata"} /\ m["medium_metadata"] = md
    OBVIOUS
  <1> HIDE DEF m
  <1>10. /\ DOMAIN d \subseteq {"connections_device"} /\ DOMAIN e \subseteq {"endpoint_id"}
         /\ "endpoint_id" \in DOMAIN e => e["endpoint_id"] = info.local_endpoint_id
         /\ "endpoint_id" \notin DOMAIN e => info.local_endpoint_id = ""
    BY <1>1, <1>3, <1>4 DEF Only
  <1>11. /\ DOMAIN c \subseteq {"endpoint_name", "keep_alive_interval_millis",
                                "keep_alive_timeout_millis", "mediums", "medium_metadata"}
         /\ {"mediums", "medium_metadata"} \subseteq DOMAIN c
         /\ Get(c, "endpoint_name", "") = info.local_endpoint_info
         /\ c["mediums"] = [i \in DOMAIN info.supported_mediums |->
                              MediumToConnectionRequestMedium(info.supported_mediums[i])]
    BY CommonFields, Zenon
  <1> HIDE DEF d, e, c
  <1>12. /\ DOMAIN req = DOMAIN d \cup DOMAIN e \cup DOMAIN m \cup DOMAIN c
         /\ "endpoint_id" \in DOMAIN e => req["endpoint_id"] = e["endpoint_id"]
         /\ "endpoint_name" \in DOMAIN c => req["endpoint_name"] = c["endpoint_name"]
         /\ req["mediums"] = c["mediums"] /\ req["medium_metadata"] = md
    BY <1>9, <1>10, <1>11 DEF ++
  <1> HIDE DEF req
  <1>13. Get(req, "endpoint_id", "") = info.local_endpoint_id
    BY <1>9, <1>10, <1>11, <1>12 DEF Get
  <1>14. Get(req, "endpoint_name", "") = info.local_endpoint_info
    BY <1>9, <1>10, <1>11, <1>12 DEF Get
  <1>15. req.medium_metadata.supported_wifi_direct_auth_types
           = [i \in DOMAIN auth |-> WfdAuthTypeToMediumMetadata(auth[i])]
    BY <1>12, <1>7 DEF ty
  <1>16. req.mediums = [i \in DOMAIN info.supported_mediums |->
                          MediumToConnectionRequestMedium(info.supported_mediums[i])]
    BY <1>11, <1>12
  <1>17. SoundFrame(EncodeV1("CONNECTION_REQUEST", [connection_request |-> req]),
                    [id |-> info.local_endpoint_id, info |-> info, role |-> role, auth |-> auth])
    <2>1. Get(req.medium_metadata, "medium_role", "none") = role
      BY <1>12, <1>8
    <2> QED
      BY <1>13, <1>14, <1>15, <1>16, <2>1, RequestSound, Zenon
  <1>18. EncodeV1("CONNECTION_REQUEST", [connection_request |-> req])
           = ForConnectionRequestConnections(device, info, dynamic)
    BY Zenon DEF ForConnectionRequestConnections, req, d, e, m, c, md, nt, r, nr, nd, ne, ty
  <1> QED
    BY <1>17, <1>18, Zenon DEF role

\* for_connection_request_presence: the identity is the device's, when the local endpoint has one.
LEMMA PresenceRequestSound ==
    ASSUME NEW device, NEW info, info.supported_mediums \in Seq(Medium)
    PROVE  SoundFrame(ForConnectionRequestPresence(device, info),
                      [id |-> IF info.local_endpoint_id = "" THEN "" ELSE Get(device, "endpoint_id", ""),
                       info |-> info, role |-> "none", auth |-> <<>>])
  <1> DEFINE id == IF info.local_endpoint_id = "" THEN "" ELSE Get(device, "endpoint_id", "")
             ne == [endpoint_id |-> Get(device, "endpoint_id", "")]
             e == Only(info.local_endpoint_id # "", ne)
             d == [presence_device |-> device]
             c == BuildConnectionRequestCommon(info)
             req == e ++ d ++ c
  <1>1. DOMAIN NoFields = {}
    BY DEF NoFields
  <1>2. DOMAIN d = {"presence_device"}
    OBVIOUS
  <1>3. DOMAIN ne = {"endpoint_id"} /\ ne["endpoint_id"] = Get(device, "endpoint_id", "")
    OBVIOUS
  <1> HIDE DEF ne, d
  <1>4. /\ DOMAIN e \subseteq {"endpoint_id"}
        /\ "endpoint_id" \in DOMAIN e => e["endpoint_id"] = id
        /\ "endpoint_id" \notin DOMAIN e => id = ""
    BY <1>1, <1>3 DEF Only
  <1>5. /\ DOMAIN c \subseteq {"endpoint_name", "keep_alive_interval_millis",
                               "keep_alive_timeout_millis", "mediums", "medium_metadata"}
        /\ {"mediums", "medium_metadata"} \subseteq DOMAIN c
        /\ Get(c, "endpoint_name", "") = info.local_endpoint_info
        /\ c["mediums"] = [i \in DOMAIN info.supported_mediums |->
                             MediumToConnectionRequestMedium(info.supported_mediums[i])]
        /\ c["medium_metadata"]["supported_wifi_direct_auth_types"] = <<>>
        /\ Get(c["medium_metadata"], "medium_role", "none") = "none"
    BY CommonFields, Zenon
  <1> HIDE DEF id, e, c
  <1>6. /\ DOMAIN req = DOMAIN e \cup DOMAIN d \cup DOMAIN c
        /\ "endpoint_id" \in DOMAIN e => req["endpoint_id"] = e["endpoint_id"]
        /\ "endpoint_name" \in DOMAIN c => req["endpoint_name"] = c["endpoint_name"]
        /\ req["mediums"] = c["mediums"] /\ req["medium_metadata"] = c["medium_metadata"]
    BY <1>2, <1>4, <1>5 DEF ++
  <1> HIDE DEF req
  <1>7. Get(req, "endpoint_id", "") = id
    BY <1>2, <1>4, <1>5, <1>6 DEF Get
  <1>8. Get(req, "endpoint_name", "") = info.local_endpoint_info
    BY <1>2, <1>4, <1>5, <1>6 DEF Get
  <1>9. <<>> \in Seq(DOMAIN AuthType)
    OBVIOUS
  <1>10. [i \in DOMAIN << >> |-> WfdAuthTypeToMediumMetadata(<< >>[i])] = <<>>
    OBVIOUS
  <1>11. req.medium_metadata.supported_wifi_direct_auth_types = <<>>
    BY <1>5, <1>6
  <1>12. req.mediums = [i \in DOMAIN info.supported_mediums |->
                          MediumToConnectionRequestMedium(info.supported_mediums[i])]
    BY <1>5, <1>6
  <1>13. SoundFrame(EncodeV1("CONNECTION_REQUEST", [connection_request |-> req]),
                    [id |-> id, info |-> info, role |-> "none", auth |-> <<>>])
    <2>1. Get(req.medium_metadata, "medium_role", "none") = "none"
      BY <1>5, <1>6
    <2> QED
      BY <2>1, <1>7, <1>8, <1>9, <1>10, <1>11, <1>12, RequestSound, Zenon
  <1>14. EncodeV1("CONNECTION_REQUEST", [connection_request |-> req])
           = ForConnectionRequestPresence(device, info)
    BY Zenon DEF ForConnectionRequestPresence, req, d, e, c, ne
  <1> QED
    BY <1>13, <1>14, Zenon DEF id

\* Sequences of at most two elements.
LEMMA ShortSequences ==
    ASSUME NEW S, NEW a \in S, NEW b \in S
    PROVE  <<>> \in Seq(S) /\ <<a>> \in Seq(S) /\ <<a, b>> \in Seq(S)
  OBVIOUS

\* Every connection request sent is sound.
LEMMA RequestSends == SendConnectionRequest => Sends
  <1> SUFFICES ASSUME SendConnectionRequest PROVE Sends
    OBVIOUS
  <1>1. PICK base \in ConnectionInfos, r \in Opt("medium_role", {"role"}),
             device \in Opt("endpoint_id", {"", "ID"}), dynamic \in BOOLEAN :
        LET info == base ++ r
        IN  \/ Send(ForConnectionRequestConnections(device, info, dynamic),
                    [id |-> info.local_endpoint_id, info |-> info,
                     role |-> IF dynamic THEN Get(info, "medium_role", "none") ELSE "none",
                     auth |-> info.supported_wifi_direct_auth_types])
            \/ Send(ForConnectionRequestPresence(device, info),
                    [id |-> IF info.local_endpoint_id = "" THEN ""
                            ELSE Get(device, "endpoint_id", ""),
                     info |-> info, role |-> "none", auth |-> <<>>])
    BY Zenon DEF SendConnectionRequest
  <1> DEFINE info == base ++ r
  <1>2. /\ info.supported_mediums = base.supported_mediums
        /\ info.supported_wifi_direct_auth_types = base.supported_wifi_direct_auth_types
    <2>1. {"supported_mediums", "supported_wifi_direct_auth_types"} \subseteq DOMAIN base
      BY DEF ConnectionInfos
    <2> QED
      BY <2>1 DEF ++
  <1> HIDE DEF info
  <1>3. info.supported_mediums \in Seq(Medium)
    <2>1. base.supported_mediums \in {<<>>, <<"BLE_L2CAP", "AWDL">>} \cup {<<m>> : m \in Medium}
      BY DEF ConnectionInfos
    <2>2. "BLE_L2CAP" \in Medium /\ "AWDL" \in Medium
      BY DEF Medium, RequestMedium
    <2>3. <<>> \in Seq(Medium) /\ <<"BLE_L2CAP", "AWDL">> \in Seq(Medium)
      BY <2>2, ShortSequences
    <2>4. \A m \in Medium : <<m>> \in Seq(Medium)
      BY ShortSequences
    <2> QED
      BY <1>2, <2>1, <2>3, <2>4, Zenon
  <1>4. info.supported_wifi_direct_auth_types \in Seq(DOMAIN AuthType)
    <2>1. base.supported_wifi_direct_auth_types
            \in {<<>>, <<"WIFI_DIRECT_WITH_PIN", "WIFI_DIRECT_WITH_DEVICE_NAME">>}
      BY DEF ConnectionInfos
    <2>2. {"WIFI_DIRECT_WITH_PIN", "WIFI_DIRECT_WITH_DEVICE_NAME"} \subseteq DOMAIN AuthType
      BY DEF AuthType
    <2>3. /\ <<>> \in Seq(DOMAIN AuthType)
          /\ <<"WIFI_DIRECT_WITH_PIN", "WIFI_DIRECT_WITH_DEVICE_NAME">> \in Seq(DOMAIN AuthType)
      BY <2>2, ShortSequences
    <2> QED
      BY <1>2, <2>1, <2>3, Zenon
  <1> QED
    BY <1>1, <1>3, <1>4, ConnectionsRequestSound, PresenceRequestSound, Zenon DEF Sends, info

-------------------------------------------------------------------------------
(* Steps and theorems *)

\* The invariant holds at the start...
LEMMA InitFrames == Init => FramesInv
  BY DEF Init, FramesInv, SentInv, ChainInv, NoFields

\* ...and every step keeps it.
LEMMA NextFrames ==
    ASSUME FramesInv, [Next]_vars
    PROVE  FramesInv'
  <1> USE DEF FramesInv, SentInv, ChainInv
  <1>1. CASE OfferNext
    <2>1. /\ frame = NoFields /\ outcome = "open" /\ prefs # <<>> /\ prefs' = prefs
          /\ outcome' = outcome /\ dialled' = dialled /\ dialled = {}
      BY <1>1 DEF OfferNext
    <2>2. PICK m :
            \/ \E o \in Offers(m) : /\ frame' = o.frame /\ listener' = o.at
                                   /\ meant' = [usable |-> o.usable, longest |-> Get(o, "longest", FALSE)]
            \/ UNCHANGED <<frame, listener, meant>>
      BY <1>1, Zenon DEF OfferNext
    <2>3. CASE UNCHANGED <<frame, listener, meant>>
      BY <2>1, <2>3
    <2>4. ASSUME NEW o \in Offers(m), frame' = o.frame, listener' = o.at,
                 meant' = [usable |-> o.usable, longest |-> Get(o, "longest", FALSE)]
          PROVE  FramesInv'
      <3> DEFINE longest == Get(o, "longest", FALSE)
      <3>1. /\ OfferSound(OnWire(m), o.frame, o.at)
            /\ o.usable /\ ~longest => FromBytes(o.frame) = "Success"
        BY OffersSound, Zenon DEF SoundOffer
      <3> HIDE DEF longest
      <3>2. /\ DOMAIN meant' = {"usable", "longest"}
            /\ (meant'.usable <=> o.usable) /\ (meant'.longest <=> longest)
        BY <2>4 DEF longest
      <3>3. /\ OfferSound(OnWire(m), frame, listener)'
            /\ (meant.usable /\ ~meant.longest => FromBytes(frame) = "Success")'
        BY <2>4, <3>1, <3>2
      <3> QED
        BY <2>1, <3>2, <3>3
    <2> QED
      BY <2>2, <2>3, <2>4
  <1>2. CASE RetryLater
    BY <1>2 DEF RetryLater
  <1>3. CASE LoseOffer
    <2>1. /\ prefs # <<>> /\ prefs' = prefs /\ frame # NoFields /\ frame' = NoFields
          /\ outcome = "open" /\ outcome' = "lost" /\ meant' = meant
          /\ dialled' = dialled /\ listener' = listener /\ FromBytes(frame) # "Success"
      BY <1>3 DEF LoseOffer, OfferInFlight
    <2> QED
      BY <2>1
  <1>4. CASE JoinOffer
    <2> DEFINE info == Negotiation(frame).upgrade_path_info
    <2>1. /\ prefs # <<>> /\ prefs' = prefs /\ frame # NoFields /\ frame' = NoFields
          /\ outcome = "open" /\ outcome' = "dialled" /\ meant' = meant /\ listener' = listener
          /\ Negotiation(frame).event_type = EventType["UPGRADE_PATH_AVAILABLE"]
      BY <1>4 DEF JoinOffer, OfferInFlight
    <2>2. PICK a \in Dial(UpiMedium(info), info) : a.port # 0 /\ dialled' = {a}
      BY <1>4 DEF JoinOffer
    <2>3. EventType["UPGRADE_PATH_AVAILABLE"] # EventType["UPGRADE_FAILURE"]
      BY DEF EventType
    <2>4. PICK m : OfferSound(m, frame, listener)
      BY <2>1, <2>3
    <2>5. a \in listener
      BY <2>2, <2>4 DEF Dial, OfferSound
    <2> QED
      BY <2>1, <2>2, <2>5
  <1>5. CASE RefuseOffer
    <2>1. /\ prefs # <<>> /\ prefs' = prefs /\ outcome = "open" /\ outcome' = outcome
          /\ frame' = ForBwuFailure(Negotiation(frame).upgrade_path_info)
          /\ meant' = meant /\ listener' = listener /\ dialled' = dialled
      BY <1>5 DEF RefuseOffer, OfferInFlight
    <2>2. Negotiation(frame').event_type = EventType["UPGRADE_FAILURE"] /\ FromBytes(frame') = "Success"
      BY <2>1, FailureAccepted
    <2>3. (Negotiation(frame).event_type = EventType["UPGRADE_FAILURE"] /\ FromBytes(frame) = "Success")'
      BY <2>2
    <2> QED
      BY <2>1, <2>3
  <1>6. CASE Failure
    <2>1. /\ prefs # <<>> /\ prefs' = prefs /\ frame # NoFields /\ frame' = NoFields
          /\ meant' = meant /\ dialled' = dialled
          /\ ~(Negotiation(frame).event_type = EventType["UPGRADE_PATH_AVAILABLE"])
      BY <1>6 DEF Failure, OfferInFlight
    <2>2. FromBytes(frame) = "Success"
      BY <2>1 DEF OfferSound
    <2>3. outcome' = outcome /\ listener' = {}
      BY <1>6, <2>2 DEF Failure
    <2> QED
      BY <2>1, <2>3
  <1>7. ASSUME Sends PROVE FramesInv'
    <2>1. PICK f, what : Send(f, what) /\ (f # NoFields => SoundFrame(f, what))
      BY <1>7, Zenon DEF Sends
    <2>2. /\ prefs = <<>> /\ prefs' = prefs /\ frame = NoFields /\ frame' = f /\ meant' = what
          /\ verdict' = verdict /\ outcome' = outcome /\ dialled' = dialled
      BY <2>1 DEF Send, Idle, chainVars
    <2>3. (frame # NoFields => SoundFrame(frame, meant))'
      BY <2>1, <2>2
    <2> QED
      BY <2>2, <2>3
  <1>8. CASE Receive
    <2>1. /\ prefs = <<>> /\ prefs' = prefs /\ frame # NoFields /\ frame' = frame /\ meant' = meant
          /\ verdict' = FromBytes(frame) /\ outcome' = outcome /\ dialled' = dialled
      BY <1>8 DEF Receive, chainVars
    <2>2. (verdict = FromBytes(frame))' /\ SoundFrame(frame, meant)'
      BY <2>1
    <2> QED
      BY <2>1, <2>2
  <1>9. CASE UNCHANGED vars
    BY <1>9 DEF vars
  <1> QED
    BY <1>1, <1>2, <1>3, <1>4, <1>5, <1>6, <1>7, <1>8, <1>9,
       RequestSends, ControlSends, PayloadSends, ForeignSends DEF Next

\* The invariant that the theorems below follow from.
THEOREM FramesSafe == Spec => []FramesInv
  BY InitFrames, NextFrames, PTL DEF Spec

\* Whatever the lists, handlers, ports and credentials: a remote that dials an offer (the handlers'
\* handle_create_upgraded_endpoint_channel) reaches an address the offering device listens on.
THEOREM OfferReachesSafe == Spec => []OfferReachesListener
  <1>1. FramesInv => OfferReachesListener
    BY DEF FramesInv, SentInv, ChainInv, OfferReachesListener
  <1> QED
    BY <1>1, FramesSafe, PTL

\* For passphrases, names and PINs of every length: the validator refuses an offer only when no radio
\* could use its credentials or its Wi-Fi Direct name has exactly 32 octets, and never an
\* UPGRADE_FAILURE.
THEOREM OnlyUnusableLostSafe == Spec => []OnlyUnusableOffersLost
  <1>1. FramesInv => OnlyUnusableOffersLost
    BY DEF FramesInv, SentInv, ChainInv, OnlyUnusableOffersLost
  <1> QED
    BY <1>1, FramesSafe, PTL

\* The frames of the handshake are accepted by from_bytes and told apart, whatever they were built from.
THEOREM ControlFramesSafe == Spec => []ControlFramesPass
  <1>1. FramesInv => ControlFramesPass
    BY DEF FramesInv, SentInv, ChainInv, ControlFramesPass, SoundFrame, ControlRead, Has
  <1> QED
    BY <1>1, FramesSafe, PTL

\* A connection request is accepted exactly when it has an identity and a name, and gives the receiver
\* these, the role, the mediums and the authentication types of its sender.
THEOREM RequestsSafe == Spec => []RequestReadsBack
  <1>1. FramesInv => RequestReadsBack
    <2> SUFFICES ASSUME FramesInv, Has(meant, "info"), verdict # "none"
                 PROVE  RequestReadsBack
      BY DEF RequestReadsBack
    <2>1. prefs = <<>> /\ verdict = FromBytes(frame) /\ RequestRead(frame, meant)
      BY DEF FramesInv, SentInv, ChainInv, SoundFrame, Has
    <2> QED
      BY <2>1, Zenon DEF RequestReadsBack, RequestRead
  <1> QED
    BY <1>1, FramesSafe, PTL

\* For payloads of every size and offset: a frame of a payload that is cut up properly is accepted, and
\* one that begins outside its payload, or whose file leads to another folder, is not.
THEOREM PayloadsSafe == Spec => []PayloadFramesJudged
  <1>1. FramesInv => PayloadFramesJudged
    <2> SUFFICES ASSUME FramesInv, Has(meant, "genuine"), verdict # "none"
                 PROVE  PayloadFramesJudged
      BY DEF PayloadFramesJudged
    <2>1. prefs = <<>> /\ verdict = FromBytes(frame) /\ PayloadRead(frame, meant)
      BY DEF FramesInv, SentInv, ChainInv, SoundFrame, Has
    <2> QED
      BY <2>1, Zenon DEF PayloadFramesJudged, PayloadRead
  <1> QED
    BY <1>1, FramesSafe, PTL

-------------------------------------------------------------------------------
(* The failover chain *)

\* A set of positions that is not empty has a first one.
LEMMA LeastElement ==
    ASSUME NEW S \in SUBSET Nat, S # {}
    PROVE  Earliest(S) \in S /\ \A j \in S : Earliest(S) <= j
  <1> DEFINE R == OpToRel(<, Nat)
  <1>1. \A i, j \in Nat : j < i => <<j, i>> \in R
    BY DEF OpToRel
  <1>2. IsWellFoundedOn(R, Nat)
    BY NatLessThanWellFounded
  <1> HIDE DEF R
  <1>3. PICK i \in S : \A j \in S : <<j, i>> \notin R
    BY <1>2, WFMin
  <1>4. \A j \in S : ~(j < i)
    BY <1>1, <1>3
  <1>5. \A j \in S : i <= j
    BY <1>4
  <1> QED
    BY <1>5, Zenon DEF Earliest

\* A medium that has a name on the wire is read back from a path that only names it.
LEMMA NamesItself ==
    ASSUME NEW m \in Medium \ Unnamed
    PROVE  UpiMedium(UpgradePathInfoForMedium(m)) = m
  <1>1. m \in DOMAIN PathMedium
    BY DEF Unnamed, PathMedium, Medium, RequestMedium
  <1>2. UpgradePathInfoForMedium(m) = [medium |-> PathMedium[m]]
    BY <1>1 DEF UpgradePathInfoForMedium, MediumToUpgradePathInfoMedium
  <1> DEFINE info == [medium |-> PathMedium[m]]
  <1>3. "medium" \in DOMAIN info /\ info.medium = PathMedium[m]
    OBVIOUS
  <1> HIDE DEF info
  <1>4. UpiMedium(info) = TryFrom(PathMedium, PathMedium[m], "UNKNOWN_MEDIUM")
    BY <1>3 DEF UpiMedium, UpgradePathInfoMediumToMedium, Has
  <1> QED
    BY <1>1, <1>2, <1>4, ReadsPathMedium DEF info

\* What process_upgrade_failure_event leaves of the list, after a failure of its medium q, is what
\* follows the first place of that medium.
LEMMA LeftAfter ==
    ASSUME prefs \in Seq(Medium), NEW q \in 1..Len(prefs), NEW info, UpiMedium(info) = prefs[q]
    PROVE  \E f \in 1..q : /\ UntriedAfter(info) = SubSeq(prefs, f + 1, Len(prefs))
                           /\ prefs[f] = prefs[q]
                           /\ \A k \in 1..Len(prefs) : prefs[k] = prefs[q] => f <= k
  <1> DEFINE At == {i \in DOMAIN prefs : prefs[i] = prefs[q]}
  <1>1. At \in SUBSET Nat /\ q \in At /\ At \subseteq 1..Len(prefs)
    OBVIOUS
  <1>2. Earliest(At) \in At /\ \A k \in At : Earliest(At) <= k
    BY <1>1, LeastElement
  <1>3. UntriedAfter(info) = SubSeq(prefs, 1 + Earliest(At), Len(prefs))
    BY <1>1 DEF UntriedAfter
  <1>4. Earliest(At) \in 1..q /\ prefs[Earliest(At)] = prefs[q] /\ 1 + Earliest(At) = Earliest(At) + 1
    BY <1>1, <1>2
  <1>5. \A k \in 1..Len(prefs) : prefs[k] = prefs[q] => Earliest(At) <= k
    BY <1>2
  <1> QED
    BY <1>3, <1>4, <1>5

LEMMA LeftTyped ==
    ASSUME prefs \in Seq(Medium), NEW info
    PROVE  UntriedAfter(info) \in Seq(Medium)
  <1> DEFINE At == {i \in DOMAIN prefs : prefs[i] = UpiMedium(info)}
  <1>1. CASE At = {}
    BY <1>1 DEF UntriedAfter
  <1>2. CASE At # {}
    <2>1. At \in SUBSET Nat /\ At \subseteq 1..Len(prefs)
      OBVIOUS
    <2>2. Earliest(At) \in 1..Len(prefs)
      BY <1>2, <2>1, LeastElement
    <2>3. ASSUME NEW e \in 1..Len(prefs) PROVE SubSeq(prefs, 1 + e, Len(prefs)) \in Seq(Medium)
      OBVIOUS
    <2> QED
      BY <1>2, <2>2, <2>3 DEF UntriedAfter
  <1> QED
    BY <1>1, <1>2

\* The first medium left that has a handler, as a place in the whole list.
LEMMA NextAvailable ==
    ASSUME prefs \in Seq(Medium), NEW p \in 0..Len(prefs),
           untried = SubSeq(prefs, p + 1, Len(prefs)), Available # {}
    PROVE  \E q \in (p + 1)..Len(prefs) :
              /\ untried[Earliest(Available)] = prefs[q] /\ prefs[q] \in Handlers
              /\ \A k \in (p + 1)..(q - 1) : prefs[k] \notin Handlers
  <1>1. Len(untried) = Len(prefs) - p /\ DOMAIN untried = 1..(Len(prefs) - p)
    OBVIOUS
  <1>2. \A i \in 1..(Len(prefs) - p) : untried[i] = prefs[p + i]
    OBVIOUS
  <1>3. Available \in SUBSET Nat /\ Available \subseteq 1..(Len(prefs) - p)
    BY <1>1 DEF Available
  <1>4. Earliest(Available) \in Available /\ \A j \in Available : Earliest(Available) <= j
    BY <1>3, LeastElement
  <1> DEFINE e == Earliest(Available)
  <1> HIDE DEF e
  <1>5. e \in 1..(Len(prefs) - p) /\ untried[e] = prefs[p + e] /\ prefs[p + e] \in Handlers
    BY <1>1, <1>2, <1>3, <1>4 DEF Available, e
  <1>6. ASSUME NEW k \in (p + 1)..(p + e - 1) PROVE prefs[k] \notin Handlers
    <2>1. k - p \in 1..(Len(prefs) - p) /\ k - p < e /\ p + (k - p) = k
      BY <1>5
    <2>2. k - p \notin Available
      BY <1>4, <1>5, <2>1 DEF e
    <2> QED
      BY <1>1, <1>2, <2>1, <2>2 DEF Available
  <1>7. p + e \in (p + 1)..Len(prefs)
    BY <1>5
  <1> QED
    BY <1>5, <1>6, <1>7 DEF e

\* None left: the rest of the list has no handler.
LEMMA NoneAvailable ==
    ASSUME prefs \in Seq(Medium), NEW p \in 0..Len(prefs),
           untried = SubSeq(prefs, p + 1, Len(prefs)), Available = {}
    PROVE  \A k \in (p + 1)..Len(prefs) : prefs[k] \notin Handlers
  <1> SUFFICES ASSUME NEW k \in (p + 1)..Len(prefs) PROVE prefs[k] \notin Handlers
    OBVIOUS
  <1>1. k - p \in DOMAIN untried /\ untried[k - p] = prefs[k]
    OBVIOUS
  <1> QED
    BY <1>1 DEF Available

-------------------------------------------------------------------------------
(* Ranks *)

\* The places, among the first n, of mediums with a handler.
Handled(n) == {k \in 1..n : prefs[k] \in Handlers}

\* Ranks are numbers that grow with the place; that of a medium with a handler is not 0.
LEMMA Ranks ==
    ASSUME NEW n \in Nat
    PROVE  /\ IsFiniteSet(Handled(n)) /\ Rank(n) \in Nat
           /\ \A k \in 0..n : Rank(k) \in Nat /\ Rank(k) <= Rank(n)
           /\ \A k \in 1..n : prefs[k] \in Handlers => Rank(k) \in 1..Rank(n)
  <1>1. ASSUME NEW k \in Nat PROVE IsFiniteSet(Handled(k)) /\ Rank(k) \in Nat /\ Rank(k) = Cardinality(Handled(k))
    <2>1. IsFiniteSet(1..k)
      BY FS_Interval
    <2>2. Handled(k) \subseteq 1..k
      BY DEF Handled
    <2>3. IsFiniteSet(Handled(k))
      BY <2>1, <2>2, FS_Subset
    <2> QED
      BY <2>3, FS_CardinalityType DEF Rank, Handled
  <1>2. ASSUME NEW k \in 0..n PROVE Rank(k) \in Nat /\ Rank(k) <= Rank(n)
    <2>1. Handled(k) \subseteq Handled(n)
      BY DEF Handled
    <2>2. k \in Nat
      OBVIOUS
    <2> QED
      BY <1>1, <2>1, <2>2, FS_Subset
  <1>3. ASSUME NEW k \in 1..n, prefs[k] \in Handlers PROVE Rank(k) # 0
    <2>1. k \in Handled(k) /\ k \in Nat
      BY <1>3 DEF Handled
    <2> QED
      BY <1>1, <2>1, FS_EmptySet
  <1> QED
    BY <1>1, <1>2, <1>3

\* The next medium with a handler has the next rank.
LEMMA NextRank ==
    ASSUME NEW p \in Nat, NEW q \in Nat, p < q, prefs[q] \in Handlers,
           \A k \in (p + 1)..(q - 1) : prefs[k] \notin Handlers
    PROVE  Rank(q) = Rank(p) + 1
  <1>1. Handled(q) = Handled(p) \cup {q} /\ q \notin Handled(p)
    BY DEF Handled
  <1>2. IsFiniteSet(Handled(p))
    BY Ranks
  <1>3. Cardinality(Handled(p) \cup {q}) = Cardinality(Handled(p)) + 1
    BY <1>1, <1>2, FS_AddElement
  <1> QED
    BY <1>1, <1>3 DEF Rank, Handled

\* Offering it extends what was tried to its place in the list...
LEMMA TriedNext ==
    ASSUME offered \in Seq(Medium), prefs \in Seq(Medium), prefs' = prefs,
           NEW p \in 0..Len(prefs), NEW q \in (p + 1)..Len(prefs), prefs[q] \in Handlers,
           \A k \in (p + 1)..(q - 1) : prefs[k] \notin Handlers,
           offered' = Append(offered, prefs[q]), TriedUpTo(p)
    PROVE  TriedUpTo(q)'
  <1>1. Rank(q) = Rank(p) + 1
    BY NextRank
  <1>2. /\ Rank(p) \in Nat
        /\ \A k \in 1..p : prefs[k] \in Handlers => Rank(k) \in 1..Rank(p)
    BY Ranks
  <1>3. Len(offered) = Rank(p) /\ \A k \in 1..p : prefs[k] \in Handlers => offered[Rank(k)] = prefs[k]
    BY DEF TriedUpTo
  <1>4. Len(offered') = Rank(q) /\ offered'[Rank(q)] = prefs[q]
    BY <1>1, <1>2, <1>3
  <1>5. ASSUME NEW k \in 1..q, prefs[k] \in Handlers PROVE offered'[Rank(k)] = prefs[k]
    <2>1. CASE k \in 1..p
      BY <1>2, <1>3, <1>5, <2>1
    <2>2. CASE k = q
      BY <1>4, <2>2
    <2>3. k \in 1..p \/ k = q
      BY <1>5
    <2> QED
      BY <2>1, <2>2, <2>3
  <1>6. \A k : Rank(k)' = Rank(k)
    BY DEF Rank
  <1> QED
    BY <1>4, <1>5, <1>6 DEF TriedUpTo

\* ...and when the rest of the list has no handler, all of it was tried.
LEMMA TriedRest ==
    ASSUME prefs \in Seq(Medium), NEW p \in 0..Len(prefs), TriedUpTo(p),
           \A k \in (p + 1)..Len(prefs) : prefs[k] \notin Handlers
    PROVE  TriedUpTo(Len(prefs))
  <1>1. Handled(Len(prefs)) = Handled(p)
    BY DEF Handled
  <1>2. Rank(Len(prefs)) = Rank(p)
    BY <1>1 DEF Rank, Handled
  <1> QED
    BY <1>2 DEF TriedUpTo


-------------------------------------------------------------------------------
(* The order of the chain *)

Named == ToSet(offered) \cap Unnamed = {}

\* The list names a medium with a handler twice, and place p is not past the second of the two...
Ahead(p) ==
    \E i, j \in DOMAIN prefs : i < j /\ prefs[i] = prefs[j] /\ prefs[j] \in Handlers /\ p <= j

\* ...nor is failover, which then never comes past it: a failure of the second goes back to the first.
Loops(p) ==
    Ahead(p) /\ (frame = NoFields /\ outcome \in {"open", "retry"} => Ahead(p + 1))

\* p is the place in the list that failover has come to: the mediums tried are those up to p, what
\* follows is left, and the offer or refusal in flight names the medium at p.
Reached(p) ==
    /\ TriedUpTo(p) \/ Loops(p)
    /\ frame = NoFields /\ outcome \in {"open", "retry"} => untried = SubSeq(prefs, p + 1, Len(prefs))
    /\ outcome = "retry" => \A k \in (p + 1)..Len(prefs) : prefs[k] \notin Handlers
    /\ frame # NoFields => /\ p > 0 /\ prefs[p] \in Handlers
                           /\ UpiMedium(Negotiation(frame).upgrade_path_info) = prefs[p]

OrderInv ==
    /\ prefs \in Seq(Medium \ {"UNKNOWN_MEDIUM"}) /\ offered \in Seq(Medium) /\ untried \in Seq(Medium)
    /\ outcome \in {"open", "dialled", "lost", "retry"}
    /\ prefs = <<>> => offered = <<>> /\ outcome = "open"
    /\ prefs # <<>> /\ outcome # "open" => frame = NoFields
    /\ prefs # <<>> /\ Named => \E p \in 0..Len(prefs) : Reached(p)

LEMMA InitOrder == Init => OrderInv
  <1> SUFFICES ASSUME Init PROVE OrderInv
    OBVIOUS
  <1>1. prefs \in Seq(Medium \ {"UNKNOWN_MEDIUM"}) /\ offered = <<>> /\ offered \in Seq(Medium)
        /\ untried = prefs /\ outcome = "open" /\ frame = NoFields
    <2>1. PrefLists \subseteq Seq(Medium \ {"UNKNOWN_MEDIUM"})
      BY FrameExchangeAssumption
    <2>2. prefs \in PrefLists \cup {<<>>} /\ offered = <<>>
          /\ untried = prefs /\ outcome = "open" /\ frame = NoFields
      BY DEF Init
    <2>3. <<>> \in Seq(Medium \ {"UNKNOWN_MEDIUM"}) /\ <<>> \in Seq(Medium)
      OBVIOUS
    <2> QED
      BY <2>1, <2>2, <2>3
  <1>2. Handled(0) = {}
    BY DEF Handled
  <1>3. Rank(0) = 0
    BY <1>2, FS_EmptySet DEF Rank, Handled
  <1>4. TriedUpTo(0)
    BY <1>1, <1>3 DEF TriedUpTo
  <1>5. untried = SubSeq(prefs, 0 + 1, Len(prefs))
    BY <1>1
  <1>6. Reached(0) /\ 0 \in 0..Len(prefs)
    BY <1>1, <1>4, <1>5 DEF Reached
  <1> QED
    BY <1>1, <1>6 DEF OrderInv

\* A failure of medium q takes failover to the first place f of that medium, when what was tried is all
\* up to q.
LEMMA GivenUp ==
    ASSUME prefs \in Seq(Medium), NEW q \in 1..Len(prefs), prefs[q] \in Handlers,
           TriedUpTo(q)' \/ Ahead(q), prefs' = prefs,
           NEW info, UpiMedium(info) = prefs[q],
           untried' = UntriedAfter(info), frame' = NoFields, outcome' = "open"
    PROVE  \E f \in 0..Len(prefs) : Reached(f)'
  <1>1. PICK f \in 1..q : /\ untried' = SubSeq(prefs, f + 1, Len(prefs))
                          /\ prefs[f] = prefs[q]
                          /\ \A k \in 1..Len(prefs) : prefs[k] = prefs[q] => f <= k
    BY LeftAfter
  <1>2. f \in 0..Len(prefs) /\ DOMAIN prefs = 1..Len(prefs)
    OBVIOUS
  <1>3. TriedUpTo(f)' \/ Loops(f)'
    <2>1. CASE f = q /\ TriedUpTo(q)'
      BY <2>1
    <2>2. CASE f < q
      <3>1. q \in DOMAIN prefs /\ f \in DOMAIN prefs /\ f + 1 <= q /\ f <= q
        BY <1>2, <2>2
      <3>2. Ahead(f) /\ Ahead(f + 1)
        BY <1>1, <2>2, <3>1 DEF Ahead
      <3> QED
        BY <3>2 DEF Loops, Ahead
    <2>3. CASE f = q /\ Ahead(q)
      <3>1. PICK i, j \in DOMAIN prefs : i < j /\ prefs[i] = prefs[j] /\ prefs[j] \in Handlers /\ q <= j
        BY <2>3 DEF Ahead
      <3>2. f <= j /\ f + 1 <= j
        BY <1>1, <1>2, <2>3, <3>1
      <3>3. Ahead(f) /\ Ahead(f + 1)
        BY <3>1, <3>2 DEF Ahead
      <3> QED
        BY <3>3 DEF Loops, Ahead
    <2> QED
      BY <1>1, <2>1, <2>2, <2>3
  <1>4. Reached(f)'
    BY <1>1, <1>3 DEF Reached
  <1> QED
    BY <1>2, <1>4

\* The first offer after place p is at q, which is not past a second place either.
LEMMA StillAhead ==
    ASSUME prefs \in Seq(Medium), NEW p \in 0..Len(prefs), NEW q \in (p + 1)..Len(prefs),
           \A k \in (p + 1)..(q - 1) : prefs[k] \notin Handlers, Ahead(p + 1)
    PROVE  Ahead(q)
  <1>1. PICK i, j \in DOMAIN prefs : i < j /\ prefs[i] = prefs[j] /\ prefs[j] \in Handlers /\ p + 1 <= j
    BY DEF Ahead
  <1>2. q <= j
    BY <1>1
  <1> QED
    BY <1>1, <1>2 DEF Ahead

\* Every step keeps the order.
LEMMA NextOrder ==
    ASSUME OrderInv, FramesInv, [Next]_vars
    PROVE  OrderInv'
  <1>1. /\ prefs \in Seq(Medium \ {"UNKNOWN_MEDIUM"}) /\ prefs \in Seq(Medium) /\ offered \in Seq(Medium)
        /\ untried \in Seq(Medium)
        /\ DOMAIN prefs = 1..Len(prefs) /\ Len(prefs) \in Nat
    <2>1. prefs \in Seq(Medium \ {"UNKNOWN_MEDIUM"}) /\ offered \in Seq(Medium) /\ untried \in Seq(Medium)
      BY DEF OrderInv
    <2> QED
      BY <2>1
  <1>2. CASE OfferNext
    <2>1. /\ frame = NoFields /\ outcome = "open" /\ prefs # <<>> /\ Available # {}
          /\ prefs' = prefs /\ outcome' = outcome
      BY <1>2 DEF OfferNext
    <2> DEFINE m == untried[Earliest(Available)]
    <2>2. /\ offered' = Append(offered, m)
          /\ \/ \E o \in Offers(m) : frame' = o.frame /\ untried' = untried
             \/ untried' = UntriedAfter(UpgradePathInfoForMedium(m)) /\ frame' = frame
      BY <1>2 DEF OfferNext
    <2>3. m \in Medium
      <3>1. Available \in SUBSET Nat /\ Available \subseteq DOMAIN untried
        BY <1>1 DEF Available
      <3>2. Earliest(Available) \in DOMAIN untried
        BY <2>1, <3>1, LeastElement
      <3> QED
        BY <1>1, <3>2
    <2>4. offered' \in Seq(Medium) /\ untried' \in Seq(Medium)
      <3> HIDE DEF m
      <3> QED
        BY <1>1, <2>2, <2>3, LeftTyped
    <2>5. ASSUME Named' PROVE Named /\ m \notin Unnamed
      <3> HIDE DEF m
      <3>1. /\ \A i \in DOMAIN offered : i \in DOMAIN offered' /\ offered'[i] = offered[i]
            /\ Len(offered) + 1 \in DOMAIN offered' /\ offered'[Len(offered) + 1] = m
        BY <1>1, <2>2, <2>3
      <3>2. \A i \in DOMAIN offered' : offered'[i] \notin Unnamed
        BY <2>5 DEF Named, ToSet
      <3>3. \A i \in DOMAIN offered : offered[i] \notin Unnamed
        BY <3>1, <3>2
      <3>4. m \notin Unnamed
        BY <3>1, <3>2
      <3> QED
        BY <3>3, <3>4 DEF Named, ToSet
    <2>6. ASSUME Named' PROVE \E f \in 0..Len(prefs) : Reached(f)'
      <3>1. PICK p \in 0..Len(prefs) : Reached(p)
        BY <2>1, <2>5, <2>6 DEF OrderInv
      <3>2. /\ TriedUpTo(p) \/ Ahead(p + 1)
            /\ untried = SubSeq(prefs, p + 1, Len(prefs))
        BY <2>1, <3>1 DEF Reached, Loops
      <3>3. PICK q \in (p + 1)..Len(prefs) :
              /\ m = prefs[q] /\ prefs[q] \in Handlers
              /\ \A k \in (p + 1)..(q - 1) : prefs[k] \notin Handlers
        BY <1>1, <2>1, <3>2, NextAvailable
      <3> HIDE DEF m
      <3>4. offered' = Append(offered, prefs[q])
        BY <2>2, <3>3
      <3>5. TriedUpTo(q)' \/ Ahead(q)
        BY <1>1, <2>1, <3>2, <3>3, <3>4, TriedNext, StillAhead
      <3>6. q \in 1..Len(prefs) /\ q \in 0..Len(prefs) /\ q > 0
        OBVIOUS
      <3>7. ASSUME NEW o \in Offers(m), frame' = o.frame PROVE Reached(q)'
        <4>1. OfferSound(OnWire(m), o.frame, o.at)
          BY OffersSound, Zenon DEF SoundOffer
        <4>2. OnWire(m) = m
          BY <2>5, <2>6 DEF OnWire, Unnamed
        <4>3. frame' # NoFields /\ UpiMedium(Negotiation(frame').upgrade_path_info) = prefs[q]
          BY <3>3, <3>7, <4>1, <4>2 DEF OfferSound
        <4>4. TriedUpTo(q)' \/ Loops(q)'
          BY <2>1, <3>5, <4>3 DEF Loops, Ahead
        <4> QED
          BY <2>1, <3>3, <3>6, <4>3, <4>4 DEF Reached
      <3>8. ASSUME untried' = UntriedAfter(UpgradePathInfoForMedium(m)), frame' = frame
            PROVE  \E f \in 0..Len(prefs) : Reached(f)'
        <4>1. UpiMedium(UpgradePathInfoForMedium(m)) = prefs[q]
          BY <2>3, <2>5, <2>6, <3>3, NamesItself DEF m
        <4>2. frame' = NoFields /\ outcome' = "open"
          BY <2>1, <3>8
        <4> QED
          BY <1>1, <2>1, <3>3, <3>5, <3>6, <3>8, <4>1, <4>2, GivenUp
      <3> QED
        BY <2>2, <3>6, <3>7, <3>8
    <2> QED
      BY <1>1, <2>1, <2>4, <2>6 DEF OrderInv
  <1>3. CASE RetryLater
    <2>1. /\ frame = NoFields /\ outcome = "open" /\ prefs # <<>> /\ Available = {} /\ outcome' = "retry"
          /\ prefs' = prefs /\ untried' = untried /\ offered' = offered /\ frame' = frame
      BY <1>3 DEF RetryLater
    <2>2. ASSUME NEW p \in 0..Len(prefs), Reached(p) PROVE Reached(p)'
      <3>1. untried = SubSeq(prefs, p + 1, Len(prefs)) /\ (TriedUpTo(p) \/ Loops(p))
        BY <2>1, <2>2 DEF Reached
      <3>2. \A k \in (p + 1)..Len(prefs) : prefs[k] \notin Handlers
        BY <1>1, <2>1, <3>1, NoneAvailable
      <3>3. TriedUpTo(p)' \/ Loops(p)'
        BY <2>1, <3>1 DEF TriedUpTo, Rank, Loops, Ahead
      <3> QED
        BY <2>1, <3>1, <3>2, <3>3 DEF Reached
    <2> QED
      BY <2>1, <2>2 DEF OrderInv, Named
  <1>4. CASE LoseOffer \/ JoinOffer
    <2>1. /\ frame # NoFields /\ prefs # <<>> /\ outcome' \in {"lost", "dialled"} /\ frame' = NoFields
          /\ prefs' = prefs /\ untried' = untried /\ offered' = offered
      BY <1>4 DEF LoseOffer, JoinOffer, OfferInFlight
    <2>2. ASSUME NEW p \in 0..Len(prefs), Reached(p) PROVE Reached(p)'
      <3>1. TriedUpTo(p) \/ Ahead(p)
        BY <2>2 DEF Reached, Loops
      <3>2. TriedUpTo(p)' \/ Loops(p)'
        BY <2>1, <3>1 DEF TriedUpTo, Rank, Loops, Ahead
      <3> QED
        BY <2>1, <3>2 DEF Reached
    <2> QED
      BY <2>1, <2>2 DEF OrderInv, Named
  <1>5. CASE RefuseOffer
    <2> DEFINE info == Negotiation(frame).upgrade_path_info
    <2>1. /\ frame # NoFields /\ prefs # <<>> /\ outcome = "open" /\ outcome' = outcome
          /\ frame' = ForBwuFailure(info)
          /\ prefs' = prefs /\ untried' = untried /\ offered' = offered
      BY <1>5 DEF RefuseOffer, OfferInFlight
    <2>2. frame' # NoFields /\ Negotiation(frame').upgrade_path_info = info
      BY <2>1, FailureAccepted
    <2>3. ASSUME NEW p \in 0..Len(prefs), Reached(p) PROVE Reached(p)'
      <3>1. (TriedUpTo(p) \/ Ahead(p)) /\ p > 0 /\ prefs[p] \in Handlers /\ UpiMedium(info) = prefs[p]
        BY <2>1, <2>3 DEF Reached, Loops
      <3>2. TriedUpTo(p)' \/ Loops(p)'
        BY <2>1, <2>2, <3>1 DEF TriedUpTo, Rank, Loops, Ahead
      <3> QED
        BY <2>1, <2>2, <3>1, <3>2 DEF Reached
    <2> QED
      BY <2>1, <2>3 DEF OrderInv, Named
  <1>6. CASE Failure
    <2> DEFINE info == Negotiation(frame).upgrade_path_info
    <2>1. /\ prefs # <<>> /\ frame # NoFields /\ outcome = "open" /\ frame' = NoFields
          /\ prefs' = prefs /\ offered' = offered
          /\ ~(Negotiation(frame).event_type = EventType["UPGRADE_PATH_AVAILABLE"])
      BY <1>6 DEF Failure, OfferInFlight, OrderInv
    <2>2. FromBytes(frame) = "Success"
      BY <2>1 DEF FramesInv, ChainInv, OfferSound
    <2>3. outcome' = "open" /\ untried' = UntriedAfter(info)
      BY <1>6, <2>1, <2>2 DEF Failure
    <2>4. untried' \in Seq(Medium)
      BY <1>1, <2>3, LeftTyped
    <2>5. ASSUME Named' PROVE \E f \in 0..Len(prefs) : Reached(f)'
      <3>1. PICK p \in 0..Len(prefs) : Reached(p)
        BY <2>1, <2>5 DEF OrderInv, Named
      <3>2. /\ TriedUpTo(p) \/ Ahead(p)
            /\ p > 0 /\ prefs[p] \in Handlers /\ UpiMedium(info) = prefs[p]
        BY <2>1, <3>1 DEF Reached, Loops
      <3>3. TriedUpTo(p)' \/ Ahead(p)
        BY <2>1, <3>2 DEF TriedUpTo, Rank
      <3>4. p \in 1..Len(prefs)
        BY <3>2
      <3> QED
        BY <1>1, <2>1, <2>3, <3>2, <3>3, <3>4, GivenUp
    <2> QED
      BY <1>1, <2>1, <2>3, <2>4, <2>5 DEF OrderInv
  <1>7. ASSUME prefs = <<>>, UNCHANGED chainVars PROVE OrderInv'
    BY <1>7 DEF OrderInv, chainVars
  <1>8. ASSUME NEW f, NEW what, Send(f, what) PROVE OrderInv'
    BY <1>7, <1>8 DEF Send, Idle
  <1>9. CASE Receive
    BY <1>7, <1>9 DEF Receive
  <1>10. CASE UNCHANGED vars
    <2>1. \A p : Reached(p) => Reached(p)'
      BY <1>10 DEF vars, Reached, TriedUpTo, Rank, Loops, Ahead
    <2> QED
      BY <1>10, <2>1 DEF vars, OrderInv, Named
  <1>11. ASSUME Sends PROVE OrderInv'
    BY <1>8, <1>11, Zenon DEF Sends
  <1> QED
    BY <1>2, <1>3, <1>4, <1>5, <1>6, <1>9, <1>10, <1>11,
       RequestSends, ControlSends, PayloadSends, ForeignSends DEF Next

\* The chain keeps to the order of preference.
THEOREM OrderSafe == Spec => []OrderInv
  <1>1. Init => OrderInv
    BY InitOrder
  <1>2. OrderInv /\ FramesInv /\ [Next]_vars => OrderInv'
    BY NextOrder
  <1> QED
    BY <1>1, <1>2, FramesSafe, PTL DEF Spec

\* Whatever the list and the handlers, failover (process_upgrade_failure_event and
\* try_next_best_upgrade_mediums) leaves no medium out that has a handler and a name on the wire, and tries
\* them in the order of preference; a list that names such a medium twice is never put off.
THEOREM FailoverSafe == Spec => []FailoverTriesAll
  <1>1. OrderInv => FailoverTriesAll
    <2> SUFFICES ASSUME OrderInv, Named PROVE /\ outcome = "retry" => TriedUpTo(Len(prefs))
                                              /\ IsInjective(prefs) => \E n \in 0..Len(prefs) : TriedUpTo(n)
      BY DEF FailoverTriesAll, Named
    <2>1. CASE prefs = <<>>
      <3>1. outcome = "open" /\ offered = <<>> /\ Len(prefs) = 0
        BY <2>1 DEF OrderInv
      <3>2. Handled(0) = {}
        BY DEF Handled
      <3>3. Rank(0) = 0
        BY <3>2, FS_EmptySet DEF Rank, Handled
      <3>4. TriedUpTo(0)
        BY <3>1, <3>3 DEF TriedUpTo
      <3> QED
        BY <3>1, <3>4
    <2>2. CASE prefs # <<>>
      <3>1. PICK p \in 0..Len(prefs) : Reached(p)
        BY <2>2 DEF OrderInv
      <3>2. prefs \in Seq(Medium)
        <4>1. prefs \in Seq(Medium \ {"UNKNOWN_MEDIUM"})
          BY DEF OrderInv
        <4> QED
          BY <4>1
      <3>3. ASSUME outcome = "retry" PROVE TriedUpTo(Len(prefs))
        <4>1. \A k \in (p + 1)..Len(prefs) : prefs[k] \notin Handlers
          BY <3>1, <3>3 DEF Reached
        <4>2. frame = NoFields
          BY <2>2, <3>3 DEF OrderInv
        <4>3. ~Ahead(p + 1)
          BY <3>2, <4>1 DEF Ahead
        <4>4. TriedUpTo(p)
          BY <3>1, <3>3, <4>2, <4>3 DEF Reached, Loops
        <4> QED
          BY <3>2, <4>1, <4>4, TriedRest
      <3>4. ASSUME IsInjective(prefs) PROVE TriedUpTo(p)
        <4>1. ~Ahead(p)
          BY <3>2, <3>4 DEF Ahead, IsInjective
        <4> QED
          BY <3>1, <4>1 DEF Reached, Loops
      <3> QED
        BY <3>3, <3>4
    <2> QED
      BY <2>1, <2>2
  <1> QED
    BY <1>1, OrderSafe, PTL
=============================================================================
