---------------------------- MODULE OfflineFrames ----------------------------
(***************************************************************************)
(* The frames two devices exchange (src/frames.rs): how each one is built, *)
(* and how the enumerations inside it are written and read back.           *)
(*                                                                         *)
(* A message is a function on the fields that are present, so an optional  *)
(* field that is not set is one outside its domain, and merging a message  *)
(* with NoFields leaves it as it is.  An enumeration is on the wire as its *)
(* number, which the reader may not know.  A string is its length, except  *)
(* where the code looks inside it.  Fields that are copied into a frame    *)
(* and that no code of the crate reads (nonce, os_info, bssid...) are left *)
(* out.                                                                    *)
(***************************************************************************)
EXTENDS Integers, Sequences

NoFields == [f \in {} |-> TRUE]
Has(m, f) == f \in DOMAIN m
Get(m, f, default) == IF f \in DOMAIN m THEN m[f] ELSE default

\* The fields of both messages; of a field that both have, the value in f.
f ++ g == [x \in DOMAIN f \cup DOMAIN g |-> IF x \in DOMAIN f THEN f[x] ELSE g[x]]

\* An optional field that is set only under condition c.
Only(c, m) == IF c THEN m ELSE NoFields

INDETERMINATE_SIZE == -1

-------------------------------------------------------------------------------
(* Enumerations and their numbers *)

Version == [UNKNOWN_VERSION |-> 0, V1 |-> 1]

FrameType ==
    [UNKNOWN_FRAME_TYPE |-> 0, CONNECTION_REQUEST |-> 1, CONNECTION_RESPONSE |-> 2,
     PAYLOAD_TRANSFER |-> 3, BANDWIDTH_UPGRADE_NEGOTIATION |-> 4, KEEP_ALIVE |-> 5,
     DISCONNECTION |-> 6, PAIRED_KEY_ENCRYPTION |-> 7, AUTHENTICATION_MESSAGE |-> 8,
     AUTHENTICATION_RESULT |-> 9, AUTO_RESUME |-> 10, AUTO_RECONNECT |-> 11,
     BANDWIDTH_UPGRADE_RETRY |-> 12]

PacketType == [UNKNOWN_PACKET_TYPE |-> 0, DATA |-> 1, CONTROL |-> 2, PAYLOAD_ACK |-> 3]

EventType ==
    [UNKNOWN_EVENT_TYPE |-> 0, UPGRADE_PATH_AVAILABLE |-> 1,
     LAST_WRITE_TO_PRIOR_CHANNEL |-> 2, SAFE_TO_CLOSE_PRIOR_CHANNEL |-> 3,
     CLIENT_INTRODUCTION |-> 4, UPGRADE_FAILURE |-> 5, CLIENT_INTRODUCTION_ACK |-> 6,
     UPGRADE_PATH_REQUEST |-> 7]

\* ConnectionRequestFrame::Medium
RequestMedium ==
    [UNKNOWN_MEDIUM |-> 0, MDNS |-> 1, BLUETOOTH |-> 2, WIFI_HOTSPOT |-> 3, BLE |-> 4,
     WIFI_LAN |-> 5, WIFI_AWARE |-> 6, NFC |-> 7, WIFI_DIRECT |-> 8, WEB_RTC |-> 9,
     BLE_L2CAP |-> 10, USB |-> 11, WEB_RTC_NON_CELLULAR |-> 12, AWDL |-> 13]

Medium == DOMAIN RequestMedium

\* UpgradePathInfo::Medium, where 10 is reserved.
PathMedium == [m \in Medium \ {"BLE_L2CAP"} |-> RequestMedium[m]]

\* MediumMetadata::WifiDirectAuthType
AuthType ==
    [WIFI_DIRECT_TYPE_UNKNOWN |-> 0, WIFI_DIRECT_WITH_PASSWORD |-> 1,
     WIFI_DIRECT_WITH_PIN |-> 2, WIFI_DIRECT_WITH_DEVICE_NAME |-> 3]

\* The reader knows the number n of enumeration e, and what it takes it for.
Known(e, n) == \E name \in DOMAIN e : e[name] = n
TryFrom(e, n, default) ==
    IF Known(e, n) THEN CHOOSE name \in DOMAIN e : e[name] = n ELSE default

-------------------------------------------------------------------------------
(* Conversions between the domain's enumerations and a frame's *)

MediumToConnectionRequestMedium(m) == RequestMedium[m]

\* connection_request_medium_to_medium, of the number a frame holds
ConnectionRequestMediumToMedium(n) == TryFrom(RequestMedium, n, "UNKNOWN_MEDIUM")
ConnectionRequestMediumsToMediums(req) ==
    [i \in DOMAIN req.mediums |-> ConnectionRequestMediumToMedium(req.mediums[i])]

\* The newest medium left to the default branch.
MutNoAwdl(m) ==
    IF m \in DOMAIN PathMedium \ {"AWDL"} THEN PathMedium[m] ELSE PathMedium["UNKNOWN_MEDIUM"]

\* medium_to_upgrade_path_info_medium: the path has no BLE_L2CAP.
MediumToUpgradePathInfoMedium(m) ==
    IF m \in DOMAIN PathMedium THEN PathMedium[m] ELSE PathMedium["UNKNOWN_MEDIUM"]

\* upgrade_path_info_medium_to_medium, of the number a frame holds
UpgradePathInfoMediumToMedium(n) == TryFrom(PathMedium, n, "UNKNOWN_MEDIUM")

UpiMedium(info) ==
    IF Has(info, "medium") THEN UpgradePathInfoMediumToMedium(info.medium)
                           ELSE "UNKNOWN_MEDIUM"

\* The authentication types that have a counterpart on the other side.
Translated(t) ==
    IF t \in {"WIFI_DIRECT_WITH_PASSWORD", "WIFI_DIRECT_WITH_DEVICE_NAME"}
    THEN t ELSE "WIFI_DIRECT_TYPE_UNKNOWN"

WfdAuthTypeToMediumMetadata(t) == AuthType[Translated(t)]
MediumMetadataToWfdAuthType(n) == Translated(TryFrom(AuthType, n, "WIFI_DIRECT_TYPE_UNKNOWN"))
MediumMetadataToWfdAuthTypes(metadata) ==
    [i \in DOMAIN metadata.supported_wifi_direct_auth_types |->
        MediumMetadataToWfdAuthType(metadata.supported_wifi_direct_auth_types[i])]

-------------------------------------------------------------------------------
(* Builders *)

EncodeV1(type, sub) ==
    [version |-> Version["V1"], v1 |-> [type |-> FrameType[type]] ++ sub]

GetFrameType(f) ==
    IF Has(f, "version") /\ Get(f, "version", 0) = Version["V1"] /\ Has(f, "v1")
    THEN TryFrom(FrameType, Get(f.v1, "type", 0), "UNKNOWN_FRAME_TYPE")
    ELSE "UNKNOWN_FRAME_TYPE"

BuildConnectionRequestCommon(info) ==
    Only(info.local_endpoint_info # "", [endpoint_name |-> info.local_endpoint_info])
    ++ Only(info.keep_alive_interval_millis > 0,
            [keep_alive_interval_millis |-> info.keep_alive_interval_millis])
    ++ Only(info.keep_alive_timeout_millis > 0,
            [keep_alive_timeout_millis |-> info.keep_alive_timeout_millis])
    ++ [mediums |-> [i \in DOMAIN info.supported_mediums |->
                        MediumToConnectionRequestMedium(info.supported_mediums[i])],
        medium_metadata |-> [supported_wifi_direct_auth_types |-> <<>>]]

\* The device and the role are optional.
ForConnectionRequestConnections(device, info, dynamicRole) ==
    LET metadata ==
            [supported_wifi_direct_auth_types |->
                [i \in DOMAIN info.supported_wifi_direct_auth_types |->
                    WfdAuthTypeToMediumMetadata(info.supported_wifi_direct_auth_types[i])]]
            ++ Only(dynamicRole /\ Has(info, "medium_role"),
                    [medium_role |-> Get(info, "medium_role", "")])
    IN  EncodeV1("CONNECTION_REQUEST",
            [connection_request |->
                Only(Has(device, "endpoint_id"), [connections_device |-> device])
                ++ Only(info.local_endpoint_id # "", [endpoint_id |-> info.local_endpoint_id])
                ++ [medium_metadata |-> metadata]
                ++ BuildConnectionRequestCommon(info)])

\* The local endpoint's id in place of the device's.
MutPresenceLocalId(device, info) ==
    EncodeV1("CONNECTION_REQUEST",
        [connection_request |->
            Only(info.local_endpoint_id # "", [endpoint_id |-> info.local_endpoint_id])
            ++ [presence_device |-> device]
            ++ BuildConnectionRequestCommon(info)])

\* The endpoint id is the device's, present and empty when the device has none.
ForConnectionRequestPresence(device, info) ==
    EncodeV1("CONNECTION_REQUEST",
        [connection_request |->
            Only(info.local_endpoint_id # "", [endpoint_id |-> Get(device, "endpoint_id", "")])
            ++ [presence_device |-> device]
            ++ BuildConnectionRequestCommon(info)])

ForConnectionResponse(status) ==
    EncodeV1("CONNECTION_RESPONSE",
        [connection_response |->
            [status |-> status, response |-> IF status = 0 THEN "ACCEPT" ELSE "REJECT"]])

ForPayloadTransfer(packet, sub) ==
    EncodeV1("PAYLOAD_TRANSFER", [payload_transfer |-> [packet_type |-> PacketType[packet]] ++ sub])

ForDataPayloadTransfer(header, chunk) ==
    ForPayloadTransfer("DATA", [payload_header |-> header, payload_chunk |-> chunk])
ForControlPayloadTransfer(header, control) ==
    ForPayloadTransfer("CONTROL", [payload_header |-> header, control_message |-> control])
ForPayloadAckPayloadTransfer(id) ==
    ForPayloadTransfer("PAYLOAD_ACK",
        [payload_header |-> [id |-> id, total_size |-> INDETERMINATE_SIZE]])

ForNegotiation(event, sub) ==
    EncodeV1("BANDWIDTH_UPGRADE_NEGOTIATION",
        [bandwidth_upgrade_negotiation |-> [event_type |-> EventType[event]] ++ sub])

\* bwu_upgrade_path_available, for the path over medium m: every offer asks for an ack of
\* the introduction.
BwuUpgradePathAvailable(m, sub) ==
    ForNegotiation("UPGRADE_PATH_AVAILABLE",
        [upgrade_path_info |->
            [medium |-> PathMedium[m], supports_client_introduction_ack |-> TRUE] ++ sub])

ForBwuWifiHotspotPathAvailable(credentials) ==
    BwuUpgradePathAvailable("WIFI_HOTSPOT", [wifi_hotspot_credentials |-> credentials])

\* service_address_to_proto is the identity on [ip_address, port] records.  The address
\* outside the candidates is the last one, when it is IPv4.
ForBwuWifiLanPathAvailable(addresses) ==
    LET last == addresses[Len(addresses)]
    IN  BwuUpgradePathAvailable("WIFI_LAN",
            [wifi_lan_socket |->
                [address_candidates |-> addresses]
                ++ Only(addresses # <<>> /\ Len(last.ip_address) = 4,
                        [ip_address |-> last.ip_address, wifi_port |-> last.port])])

ForBwuAwdlPathAvailable(serviceName, serviceType, password) ==
    BwuUpgradePathAvailable("AWDL",
        [awdl_credentials |-> [service_name |-> serviceName, service_type |-> serviceType,
                               password |-> password]])

ForBwuWifiAwarePathAvailable(serviceId, serviceInfo, password) ==
    BwuUpgradePathAvailable("WIFI_AWARE",
        [wifi_aware_credentials |-> [service_id |-> serviceId, service_info |-> serviceInfo]
                                    ++ Only(password > 0, [password |-> password])])

ForBwuWifiDirectPathAvailable(credentials) ==
    BwuUpgradePathAvailable("WIFI_DIRECT", [wifi_direct_credentials |-> credentials])

ForBwuBluetoothPathAvailable(serviceId, macAddress) ==
    BwuUpgradePathAvailable("BLUETOOTH",
        [bluetooth_credentials |-> [service_name |-> serviceId, mac_address |-> macAddress]])

ForBwuWebrtcPathAvailable(peerId) ==
    BwuUpgradePathAvailable("WEB_RTC", [web_rtc_credentials |-> [peer_id |-> peerId]])

ForBwuFailure(info) == ForNegotiation("UPGRADE_FAILURE", [upgrade_path_info |-> info])
ForBwuLastWrite == ForNegotiation("LAST_WRITE_TO_PRIOR_CHANNEL", NoFields)
ForBwuSafeToClose == ForNegotiation("SAFE_TO_CLOSE_PRIOR_CHANNEL", NoFields)
ForBwuIntroductionAck == ForNegotiation("CLIENT_INTRODUCTION_ACK", NoFields)

ForBwuIntroduction(endpointId, lastEndpointId) ==
    ForNegotiation("CLIENT_INTRODUCTION",
        [client_introduction |-> [endpoint_id |-> endpointId]
            ++ Only(lastEndpointId # "", [last_endpoint_id |-> lastEndpointId])])

ForBwuPathRequest(m, mediums) ==
    ForNegotiation("UPGRADE_PATH_REQUEST",
        [upgrade_path_info |->
            [medium |-> MediumToUpgradePathInfoMedium(m),
             upgrade_path_request |->
                [mediums |-> [i \in DOMAIN mediums |->
                                MediumToUpgradePathInfoMedium(mediums[i])]]]])

ForKeepAlive == EncodeV1("KEEP_ALIVE", [keep_alive |-> NoFields])
ForKeepAliveAck(ack, seqNum) ==
    EncodeV1("KEEP_ALIVE", [keep_alive |-> [ack |-> ack, seq_num |-> seqNum]])

ForDisconnection(request, ack) ==
    EncodeV1("DISCONNECTION",
        [disconnection |-> [request_safe_to_disconnect |-> request,
                            ack_safe_to_disconnect |-> ack]])
=============================================================================
