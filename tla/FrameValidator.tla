--------------------------- MODULE FrameValidator ---------------------------
(***************************************************************************)
(* What a receiver accepts (src/validator.rs, from_bytes of                *)
(* src/frames.rs).  A check is TRUE when the code answers Success; only    *)
(* the payload check also answers IllegalCharacters.                       *)
(***************************************************************************)
EXTENDS OfflineFrames, SequencesExt

WIFI_DIRECT_SSID_MAX_LENGTH   == 32
WIFI_PASSWORD_SSID_MIN_LENGTH == 8
WIFI_PASSWORD_SSID_MAX_LENGTH == 64
WIFI_DIRECT_PIN_MIN_LENGTH    == 0
WIFI_DIRECT_PIN_MAX_LENGTH    == 16
ILLEGAL_FILE_NAME_PATTERNS     == {":", "/", "\\"}
ILLEGAL_PARENT_FOLDER_PATTERNS == {":", ".."}

\* The lower bound left out.
MutWithinRange(value, min, max) == min < value /\ value < max

WithinRange(value, min, max) == min <= value /\ value < max

PasswordOk(c) ==
    Has(c, "password")
    /\ WithinRange(c.password, WIFI_PASSWORD_SSID_MIN_LENGTH, WIFI_PASSWORD_SSID_MAX_LENGTH)

\* A textual address is the sequence of its dot-separated parts, each with its number of
\* characters and its value, -1 when they are not all digits.
IsValidIpv4(s) ==
    Len(s) = 4 /\ \A i \in 1..4 : s[i].digits \in 1..3 /\ s[i].value \in 0..255

IsEmptyText(s) == s = <<[digits |-> 0, value |-> -1]>>

\* An SSID is its length and whether it has the form DIRECT-xy...
MatchesWifiDirectSsid(ssid) == ssid.direct

\* A name is the set of the illegal patterns that occur in it.
HasIllegalCharacters(name, patterns) == name \cap patterns # {}

-------------------------------------------------------------------------------
(* Connection and payload frames *)

EnsureValidConnectionRequest(req) ==
    Get(req, "endpoint_id", "") # "" /\ Get(req, "endpoint_name", "") # ""

\* The end of the payload taken for a place outside it.
MutEndRefused(m, totalSize) ==
    /\ Has(m, "offset") /\ Get(m, "offset", 0) >= 0
    /\ totalSize = INDETERMINATE_SIZE \/ m.offset < totalSize

\* Both checks of an offset against the size of its payload.
OffsetOk(m, totalSize) ==
    /\ Has(m, "offset") /\ Get(m, "offset", 0) >= 0
    /\ totalSize = INDETERMINATE_SIZE \/ m.offset <= totalSize

EnsureValidPayloadTransferData(chunk, totalSize) ==
    /\ Has(chunk, "flags")
    /\ Has(chunk, "body") \/ chunk.flags % 2 = 1      \* LAST_CHUNK is bit 0
    /\ OffsetOk(chunk, totalSize)

EnsureValidPayloadTransferControl(control, totalSize) == OffsetOk(control, totalSize)

\* The result of a check that can only refuse one way.
Verdict(ok) == IF ok THEN "Success" ELSE "InvalidProtocolBuffer"

EnsureValidPayloadTransfer(pt) ==
    LET packet == IF Has(pt, "packet_type")
                  THEN TryFrom(PacketType, pt.packet_type, "UNKNOWN_PACKET_TYPE")
                  ELSE "UNKNOWN_PACKET_TYPE"
        header == Get(pt, "payload_header", NoFields)
        size   == Get(header, "total_size", 0)
        illegal == /\ Get(header, "type", "") = "FILE"
                   /\ \/ HasIllegalCharacters(Get(header, "file_name", {}),
                                              ILLEGAL_FILE_NAME_PATTERNS)
                      \/ HasIllegalCharacters(Get(header, "parent_folder", {}),
                                              ILLEGAL_PARENT_FOLDER_PATTERNS)
    IN  CASE ~Has(pt, "payload_header") -> "InvalidProtocolBuffer"
          [] packet = "PAYLOAD_ACK" /\ Has(pt, "payload_header") -> "Success"
          [] OTHER ->
             IF ~Has(header, "total_size") \/ (size < 0 /\ size # INDETERMINATE_SIZE)
             THEN "InvalidProtocolBuffer"
             ELSE IF illegal THEN "IllegalCharacters"
             ELSE Verdict(
                  /\ Has(pt, "packet_type") /\ Known(PacketType, Get(pt, "packet_type", -1))
                  /\ packet = "DATA" =>
                       /\ Has(pt, "payload_chunk")
                       /\ EnsureValidPayloadTransferData(pt.payload_chunk, size)
                  /\ packet = "CONTROL" =>
                       /\ Has(pt, "control_message")
                       /\ EnsureValidPayloadTransferControl(pt.control_message, size))

-------------------------------------------------------------------------------
(* Negotiation frames *)

EnsureValidHotspot(c) ==
    /\ Has(c, "ssid") /\ PasswordOk(c)
    /\ Has(c, "gateway") \/ c.address_candidates # <<>>
    /\ Has(c, "gateway") => IsEmptyText(c.gateway) \/ IsValidIpv4(c.gateway)
    /\ \A a \in ToSet(c.address_candidates) :
          Has(a, "ip_address") /\ Has(a, "port") /\ Len(a.ip_address) \in {4, 16}

EnsureValidWifiLan(s) ==
    (Has(s, "ip_address") /\ Get(s, "wifi_port", 0) > 0) \/ s.address_candidates # <<>>

EnsureValidWifiAware(c) == Has(c, "service_id") /\ Has(c, "service_info")

EnsureValidWifiDirect(c) ==
    /\ Has(c, "frequency") /\ Get(c, "frequency", -2) >= -1
    /\ \/ /\ Has(c, "ssid") /\ c.ssid.len < WIFI_DIRECT_SSID_MAX_LENGTH
          /\ MatchesWifiDirectSsid(c.ssid) /\ PasswordOk(c)
       \/ /\ Has(c, "device_name") /\ c.device_name < WIFI_DIRECT_SSID_MAX_LENGTH
          /\ Has(c, "pin")
          /\ WithinRange(c.pin, WIFI_DIRECT_PIN_MIN_LENGTH, WIFI_DIRECT_PIN_MAX_LENGTH)

EnsureValidBluetooth(c) == Has(c, "service_name") /\ Has(c, "mac_address")

EnsureValidWebRtc(c) == Has(c, "peer_id")

\* The medium must be known, and the credentials that go with it be there and be valid.
EnsureValidPathAvailable(info) ==
    /\ Has(info, "medium") /\ Known(PathMedium, Get(info, "medium", -1))
    /\ LET m == TryFrom(PathMedium, info.medium, "UNKNOWN_MEDIUM")
           With(f, Valid(_)) == Has(info, f) /\ Valid(info[f])
       IN  CASE m = "WIFI_HOTSPOT" -> With("wifi_hotspot_credentials", EnsureValidHotspot)
             [] m = "WIFI_LAN"     -> With("wifi_lan_socket", EnsureValidWifiLan)
             [] m = "WIFI_AWARE"   -> With("wifi_aware_credentials", EnsureValidWifiAware)
             [] m = "WIFI_DIRECT"  -> With("wifi_direct_credentials", EnsureValidWifiDirect)
             [] m = "BLUETOOTH"    -> With("bluetooth_credentials", EnsureValidBluetooth)
             [] m = "WEB_RTC"      -> With("web_rtc_credentials", EnsureValidWebRtc)
             [] OTHER -> TRUE

EnsureValidClientIntroduction(intro) == Has(intro, "endpoint_id")

\* Every path checked, not only an offered one.
MutEveryPathChecked(bwu) ==
    /\ Known(EventType, Get(bwu, "event_type", -1))
    /\ Has(bwu, "upgrade_path_info") => EnsureValidPathAvailable(bwu.upgrade_path_info)

EnsureValidNegotiation(bwu) ==
    LET event == TryFrom(EventType, Get(bwu, "event_type", -1), "none")
    IN  /\ Known(EventType, Get(bwu, "event_type", -1))
        /\ event = "UPGRADE_PATH_AVAILABLE" =>
             Has(bwu, "upgrade_path_info") /\ EnsureValidPathAvailable(bwu.upgrade_path_info)
        /\ event = "CLIENT_INTRODUCTION" =>
             /\ Has(bwu, "client_introduction")
             /\ EnsureValidClientIntroduction(bwu.client_introduction)

-------------------------------------------------------------------------------
(* The whole frame *)

EnsureValidOfflineFrame(f) ==
    LET type == GetFrameType(f)
        sub == CASE type = "CONNECTION_REQUEST"  -> "connection_request"
                 [] type = "CONNECTION_RESPONSE" -> "connection_response"
                 [] type = "PAYLOAD_TRANSFER"    -> "payload_transfer"
                 [] type = "BANDWIDTH_UPGRADE_NEGOTIATION" -> "bandwidth_upgrade_negotiation"
                 [] OTHER -> "none"
    IN  CASE sub = "none" -> "Success"
          [] sub # "none" /\ ~Has(f.v1, sub) -> "InvalidProtocolBuffer"
          [] OTHER ->
             CASE type = "CONNECTION_REQUEST" -> Verdict(EnsureValidConnectionRequest(f.v1[sub]))
               [] type = "CONNECTION_RESPONSE" -> "Success"
               [] type = "PAYLOAD_TRANSFER" -> EnsureValidPayloadTransfer(f.v1[sub])
               [] OTHER -> Verdict(EnsureValidNegotiation(f.v1[sub]))

\* Bytes that are no frame at all are the message with the one field "undecodable".
FromBytes(f) ==
    IF Has(f, "undecodable") THEN "InvalidProtocolBuffer" ELSE EnsureValidOfflineFrame(f)
=============================================================================
