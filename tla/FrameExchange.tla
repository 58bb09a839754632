---------------------------- MODULE FrameExchange ----------------------------
(***************************************************************************)
(* Frames on their way from one device to another: built by the sender     *)
(* (OfflineFrames), checked by the receiver (FrameValidator), and acted    *)
(* upon.                                                                   *)
(*                                                                         *)
(* A device with mediums to upgrade to offers them one after the other, as *)
(* the failover of src/bwu/manager.rs does: the offer of a medium carries  *)
(* the address its handler listens on, the remote dials what it reads      *)
(* there or sends the path back in an UPGRADE_FAILURE, and the medium read *)
(* from that decides which mediums are left.  A device without any sends   *)
(* one other frame.  A frame the receiver does not accept is gone: its     *)
(* consumer has nothing to hand to the manager.                            *)
(***************************************************************************)
EXTENDS FrameValidator

CONSTANTS
    PrefLists,    \* the preference-ordered lists of upgrade mediums
    Handlers,     \* the mediums the offering device has a handler for
    Port,         \* ports: 0..65535 of this crate's listeners, any of a foreign frame
    Length,       \* lengths of the strings of credentials
    Size          \* sizes and offsets of payloads

ASSUME FrameExchangeAssumption ==
    /\ PrefLists \subseteq Seq(Medium \ {"UNKNOWN_MEDIUM"}) /\ Handlers \subseteq Medium
    /\ Port \subseteq Int /\ Length \subseteq Nat /\ Size \subseteq Int

VARIABLES
    prefs,    \* upgrade_mediums of the endpoint
    untried,  \* the mediums that failover has left
    offered,  \* the mediums tried, in order
    listener, \* the addresses the offering device accepts on
    frame,    \* the frame in flight, NoFields when there is none
    meant,    \* what the frame was built from
    verdict,  \* what the receiver's from_bytes answered, "none" before
    outcome,  \* "open", "dialled", "lost" or "retry"
    dialled   \* the address dialled, as a set

vars == <<prefs, untried, offered, listener, frame, meant, verdict, outcome, dialled>>
chainVars == <<prefs, untried, offered, listener, outcome, dialled>>

-------------------------------------------------------------------------------
(* Addresses *)

Ip4 == <<192, 168, 49, 1>>
Ip6 == [i \in 1..16 |-> 254]
Address(ip, port) == [ip_address |-> ip, port |-> port]

Digits(n) == IF n < 10 THEN 1 ELSE IF n < 100 THEN 2 ELSE 3

\* Ipv4Addr::to_string, and parse, which refuses leading zeros.
ToText(ip) == [i \in 1..4 |-> [digits |-> Digits(ip[i]), value |-> ip[i]]]
Parses(s) == IsValidIpv4(s) /\ \A i \in 1..4 : s[i].digits = Digits(s[i].value)
Parse(s) == [i \in 1..4 |-> s[i].value]

U16_MAX == 65535
IsU16(n) == n \in 0..U16_MAX

\* The port truncated to 16 bits instead of refused.
MutPortTruncated(info) ==
    LET s == Get(info, "wifi_lan_socket", NoFields)
    IN  IF /\ Has(s, "ip_address") /\ Len(Get(s, "ip_address", <<>>)) = 4
           /\ Has(s, "wifi_port")
        THEN {Address(s.ip_address, s.wifi_port % 65536)} ELSE {}

\* The address WifiLanBwuHandler dials for a path, if any.
DialWifiLan(info) ==
    LET s == Get(info, "wifi_lan_socket", NoFields)
    IN  IF /\ Has(s, "ip_address") /\ Len(Get(s, "ip_address", <<>>)) = 4
           /\ Has(s, "wifi_port") /\ IsU16(Get(s, "wifi_port", -1))
        THEN {Address(s.ip_address, s.wifi_port)} ELSE {}

\* The same of WifiHotspotBwuHandler.
DialHotspot(info) ==
    LET c == Get(info, "wifi_hotspot_credentials", NoFields)
    IN  IF /\ Has(c, "gateway") /\ Parses(Get(c, "gateway", <<>>))
           /\ Has(c, "port") /\ IsU16(Get(c, "port", -1))
        THEN {Address(Parse(c.gateway), c.port)} ELSE {}

\* What the remote may dial; another handler's address is not in the path it is given.
Dial(m, info) ==
    CASE m = "WIFI_LAN" -> DialWifiLan(info)
      [] m = "WIFI_HOTSPOT" -> DialHotspot(info)
      [] OTHER -> listener

-------------------------------------------------------------------------------
(* The offers of the handlers: the frame, the addresses listened on, and what *)
(* the credentials are worth *)

\* The messages with field f left out, or with one of the values vs.
Opt(f, vs) == {NoFields} \cup {[x \in {f} |-> v] : v \in vs}

\* The handler, or an integrator's with a choice of addresses, IPv4 last or not.
LanOffers ==
    {[frame |-> ForBwuWifiLanPathAvailable(a), at |-> ToSet(a), usable |-> a # <<>>] :
        a \in UNION {{<<>>, <<Address(Ip4, p)>>, <<Address(Ip6, p)>>,
                      <<Address(Ip6, p), Address(Ip4, p)>>, <<Address(Ip4, p), Address(Ip6, p)>>}
                     : p \in Port \cap (1..U16_MAX)}}

\* handle_initialize of the hotspot handler, with what the SoftAp's credentials may be.  A
\* passphrase has 8 to 63 characters.
HotspotOffers ==
    {[frame |-> ForBwuWifiHotspotPathAvailable(
                   [ssid |-> [len |-> 19, direct |-> TRUE], password |-> n, port |-> p,
                    gateway |-> ToText(Ip4), frequency |-> -1, address_candidates |-> <<>>]),
      at |-> {Address(Ip4, p)}, usable |-> n \in 8..63] :
        n \in Length, p \in Port \cap (1..U16_MAX)}

\* Paths of another implementation, with any part left out or out of range, and the
\* address it can mean by them.
ForeignLanOffers ==
    {LET at == IF ip = [ip_address |-> Ip4] /\ Get(p, "wifi_port", 0) \in 1..U16_MAX
               THEN {Address(Ip4, p.wifi_port)} ELSE {}
     IN  [frame |-> BwuUpgradePathAvailable("WIFI_LAN",
                       [wifi_lan_socket |-> ip ++ p ++ [address_candidates |-> c]]),
          at |-> at, usable |-> at # {}] :
        ip \in Opt("ip_address", {Ip4, Ip6}), p \in Opt("wifi_port", Port),
        c \in {<<>>, <<NoFields>>, <<Address(Ip6, 1)>>}}

ForeignHotspotOffers ==
    {LET at == IF g = [gateway |-> ToText(Ip4)] /\ Get(p, "port", 0) \in 1..U16_MAX
               THEN {Address(Ip4, p.port)} ELSE {}
     IN  [frame |-> BwuUpgradePathAvailable("WIFI_HOTSPOT",
                       [wifi_hotspot_credentials |->
                           s ++ g ++ p ++ [password |-> 8, address_candidates |-> c]]),
          at |-> at,
          usable |-> at # {} /\ s # NoFields /\ c # <<Address(<< 1 >>, 1)>>] :
        s \in Opt("ssid", {[len |-> 1, direct |-> FALSE]}),
        g \in Opt("gateway", {ToText(Ip4), <<[digits |-> 0, value |-> -1]>>,
                              [ToText(Ip4) EXCEPT ![3].digits = 3],
                              [ToText(Ip4) EXCEPT ![1].value = 256], SubSeq(ToText(Ip4), 1, 3)}),
        p \in Opt("port", Port), c \in {<<>>, <<Address(<< 1 >>, 1)>>, <<Address(Ip6, 1)>>}}

\* What a Wi-Fi Direct radio can use: SSIDs and device names of up to 32 octets, a frequency or
\* -1 for any, and with it a group named DIRECT-xy (at least 9 octets) and its passphrase, or
\* a device name and a WPS PIN of 4 or 8 digits.
RadioNameMax == 32
RadioUsable(s, d, n, f) ==
    /\ f = -1 \/ f > 0
    /\ s <= RadioNameMax
    /\ (d /\ n \in 8..63) \/ (s > 0 /\ n \in {4, 8})

\* Credentials by group name and passphrase, and by device name and PIN.
DirectOffers ==
    {[frame |-> ForBwuWifiDirectPathAvailable(
                   [ssid |-> [len |-> s, direct |-> d /\ s >= 9], password |-> n, port |-> 1,
                    frequency |-> f, gateway |-> ToText(Ip4), device_name |-> s, pin |-> n]),
      at |-> {Address(Ip4, 1)},
      usable |-> RadioUsable(s, d /\ s >= 9, n, f), longest |-> s = RadioNameMax] :
        s \in Length, d \in BOOLEAN, n \in Length, f \in {-2, -1, 0, 2412}}

PlainOffers(m) ==
    LET F == CASE m = "BLUETOOTH"  -> {ForBwuBluetoothPathAvailable("service", "mac")}
               [] m = "WIFI_AWARE" -> {ForBwuWifiAwarePathAvailable("id", "info", n) : n \in Length}
               [] m = "AWDL"       -> {ForBwuAwdlPathAvailable("name", "type", n) : n \in Length}
               [] m \in {"WEB_RTC", "WEB_RTC_NON_CELLULAR"} -> {ForBwuWebrtcPathAvailable("peer")}
               [] OTHER -> {}
    IN  {[frame |-> f, at |-> {Address(Ip4, 1)}, usable |-> TRUE] : f \in F}

Offers(m) ==
    CASE m = "WIFI_LAN"     -> LanOffers \cup ForeignLanOffers
      [] m = "WIFI_HOTSPOT" -> HotspotOffers \cup ForeignHotspotOffers
      [] m = "WIFI_DIRECT"  -> DirectOffers
      [] OTHER -> PlainOffers(m)

-------------------------------------------------------------------------------
(* The failover chain *)

Negotiation(f) == f.v1.bandwidth_upgrade_negotiation

\* The first of the positions S of a list.
Earliest(S) == CHOOSE i \in S : \A j \in S : i <= j

\* process_upgrade_failure_event: everything up to and including the medium named in info
\* is dropped from the list, or all of it.
UntriedAfter(info) ==
    LET last == UpiMedium(info)
        At == {i \in DOMAIN prefs : prefs[i] = last}
    IN  IF At = {} THEN <<>>
        ELSE SubSeq(prefs, 1 + Earliest(At), Len(prefs))

\* upgrade_path_info_for_medium
UpgradePathInfoForMedium(m) == [medium |-> MediumToUpgradePathInfoMedium(m)]

\* strip_out_unavailable_mediums, as positions of untried.
Available == {i \in DOMAIN untried : untried[i] \in Handlers}

\* try_next_best_upgrade_mediums and initiate_bwu_for_endpoint: offer the first medium left
\* that has a handler; the handler may fail to set it up.
OfferNext ==
    /\ frame = NoFields /\ outcome = "open" /\ prefs # <<>>
    /\ Available # {}
    /\ LET m == untried[Earliest(Available)]
       IN  /\ offered' = Append(offered, m)
           /\ \/ \E o \in Offers(m) :
                   /\ frame' = o.frame /\ listener' = o.at
                   /\ meant' = [usable |-> o.usable, longest |-> Get(o, "longest", FALSE)]
                   /\ UNCHANGED untried
              \/ /\ untried' = UntriedAfter(UpgradePathInfoForMedium(m))
                 /\ UNCHANGED <<frame, listener, meant>>
    /\ verdict' = "none"
    /\ UNCHANGED <<prefs, outcome, dialled>>

\* No medium is left: retry_upgrades_after_delay.
RetryLater ==
    /\ frame = NoFields /\ outcome = "open" /\ prefs # <<>>
    /\ Available = {}
    /\ outcome' = "retry"
    /\ UNCHANGED <<prefs, untried, offered, listener, frame, meant, verdict, dialled>>

OfferInFlight ==
    frame # NoFields /\ prefs # <<>>
    /\ Negotiation(frame).event_type = EventType["UPGRADE_PATH_AVAILABLE"]

\* The remote does not accept the offer.
LoseOffer ==
    /\ OfferInFlight /\ outcome = "open"
    /\ verdict' = FromBytes(frame) /\ verdict' # "Success"
    /\ outcome' = "lost" /\ frame' = NoFields
    /\ UNCHANGED <<prefs, untried, offered, listener, meant, dialled>>

\* process_bwu_path_available_event: the remote dials the address its handler reads (nobody
\* listens on port 0)...
JoinOffer ==
    /\ OfferInFlight /\ outcome = "open"
    /\ verdict' = FromBytes(frame) /\ verdict' = "Success"
    /\ LET info == Negotiation(frame).upgrade_path_info
       IN  \E a \in Dial(UpiMedium(info), info) : a.port # 0 /\ dialled' = {a}
    /\ outcome' = "dialled" /\ frame' = NoFields
    /\ UNCHANGED <<prefs, untried, offered, listener, meant>>

\* ...or, without a handler, an address or a connection, sends the path back
\* (run_upgrade_failed_protocol).
RefuseOffer ==
    /\ OfferInFlight /\ outcome = "open"
    /\ verdict' = FromBytes(frame) /\ verdict' = "Success"
    /\ frame' = ForBwuFailure(Negotiation(frame).upgrade_path_info)
    /\ UNCHANGED <<prefs, untried, offered, listener, meant, outcome, dialled>>

\* The UPGRADE_FAILURE arrives, and the medium is given up.
Failure ==
    /\ frame # NoFields /\ prefs # <<>> /\ ~OfferInFlight
    /\ verdict' = FromBytes(frame)
    /\ IF verdict' = "Success"
       THEN /\ untried' = UntriedAfter(Negotiation(frame).upgrade_path_info)
            /\ listener' = {} /\ UNCHANGED outcome
       ELSE /\ outcome' = "lost" /\ UNCHANGED <<untried, listener>>
    /\ frame' = NoFields
    /\ UNCHANGED <<prefs, offered, meant, dialled>>

-------------------------------------------------------------------------------
(* Other frames *)

ConnectionInfos ==
    [local_endpoint_id : {"", "ID"}, local_endpoint_info : {"", "name"},
     supported_mediums : {<<>>, <<"BLE_L2CAP", "AWDL">>} \cup {<<m>> : m \in Medium},
     keep_alive_interval_millis : {0}, keep_alive_timeout_millis : {0, 1},
     supported_wifi_direct_auth_types : {<<>>, <<"WIFI_DIRECT_WITH_PIN",
                                                 "WIFI_DIRECT_WITH_DEVICE_NAME">>}]

\* Nothing to upgrade to, and nothing sent yet.
Idle == prefs = <<>> /\ frame = NoFields

Send(f, what) ==
    /\ Idle
    /\ frame' = f /\ meant' = what
    /\ UNCHANGED <<chainVars, verdict>>

\* A connection request, of a caller with or without a role of its own; the role goes out
\* only in a Connections request that supports dynamic roles.
SendConnectionRequest ==
    /\ Idle
    /\ \E base \in ConnectionInfos, r \in Opt("medium_role", {"role"}),
          device \in Opt("endpoint_id", {"", "ID"}), dynamic \in BOOLEAN :
          LET info == base ++ r
          IN  \/ Send(ForConnectionRequestConnections(device, info, dynamic),
                      [id |-> info.local_endpoint_id, info |-> info,
                       role |-> IF dynamic THEN Get(info, "medium_role", "none") ELSE "none",
                       auth |-> info.supported_wifi_direct_auth_types])
              \/ Send(ForConnectionRequestPresence(device, info),
                      [id |-> IF info.local_endpoint_id = "" THEN ""
                              ELSE Get(device, "endpoint_id", ""),
                       info |-> info, role |-> "none", auth |-> <<>>])

\* The frames the manager and the actor's consumer write during an upgrade.
SendControlFrame ==
    \/ Send(ForBwuLastWrite, [type |-> "LAST_WRITE_TO_PRIOR_CHANNEL"])
    \/ Send(ForBwuSafeToClose, [type |-> "SAFE_TO_CLOSE_PRIOR_CHANNEL"])
    \/ Send(ForBwuIntroductionAck, [type |-> "CLIENT_INTRODUCTION_ACK"])
    \/ \E id, last \in {"", "ID"} : Send(ForBwuIntroduction(id, last),
                                         [type |-> "CLIENT_INTRODUCTION"])
    \/ \E m \in Medium : Send(ForBwuPathRequest(m, <<m>>), [type |-> "UPGRADE_PATH_REQUEST"])
    \/ \E m \in Medium : Send(ForBwuFailure(UpgradePathInfoForMedium(m)),
                              [type |-> "UPGRADE_FAILURE"])
    \/ \E request, ack \in BOOLEAN : Send(ForDisconnection(request, ack), [type |-> "DISCONNECTION"])
    \/ \E f \in {ForKeepAlive, ForKeepAliveAck(TRUE, 1)} : Send(f, [type |-> "KEEP_ALIVE"])
    \/ \E s \in {0, 13} : Send(ForConnectionResponse(s), [type |-> "CONNECTION_RESPONSE"])
    \/ Send(ForPayloadAckPayloadTransfer(1), [type |-> "PAYLOAD_TRANSFER"])

\* Payloads, with every field a caller or another implementation may leave out.  A name is
\* the set of what occurs in it, "up" for a component that is just "..".
PayloadTypes ==
    {[type |-> "BYTES"]} \cup
    {[type |-> "FILE"] ++ n ++ p : n \in Opt("file_name", {{}, {"/"}, {"\\"}, {":"}, {"..", "up"}}),
                                   p \in Opt("parent_folder", {{"/"}, {":"}, {".."}, {"..", "up"}})}

\* A frame of a sender that cuts a payload into chunks: offset and body (its length) lie
\* between the ends of the payload, if these are known, the file has a plain name and its
\* folder lies below the receiver's.
Genuine(header, part) ==
    /\ Get(header, "total_size", -2) >= -1 /\ Get(part, "offset", -1) >= 0
    /\ header.total_size >= 0 => part.offset + Get(part, "body", 0) <= header.total_size
    /\ Get(header, "file_name", {}) = {}
    /\ Get(header, "parent_folder", {}) \subseteq {"/"}

\* It says which chunk is the last one (flags 1), and only that one may come without a body.
Complete(chunk) == Has(chunk, "flags") /\ (Has(chunk, "body") \/ chunk.flags = 1)

\* A frame that has no place in a payload of that size, or whose file would be written to
\* another folder than the one it names, or above the receiver's.
Stray(header, part) ==
    \/ Get(header, "total_size", -2) < -1 \/ Get(part, "offset", -1) < 0
    \/ header.total_size >= 0 /\ part.offset > header.total_size
    \/ Get(header, "file_name", {}) \cap {"/", "\\", ":"} # {}
    \/ Get(header, "parent_folder", {}) \cap {"up", ":"} # {}

SendPayload ==
    /\ Idle
    /\ \E size \in Opt("total_size", Size), file \in PayloadTypes, offset \in Opt("offset", Size) :
       LET header == [id |-> 1] ++ size ++ file
       IN  \/ \E flags \in Opt("flags", {0, 1, 2}), body \in Opt("body", Size \cap Nat) :
                 LET chunk == flags ++ offset ++ body
                 IN  Send(ForDataPayloadTransfer(header, chunk),
                          [type |-> "PAYLOAD", stray |-> Stray(header, chunk),
                           genuine |-> Genuine(header, chunk) /\ Complete(chunk)])
           \/ Send(ForControlPayloadTransfer(header, offset),
                   [type |-> "PAYLOAD", stray |-> Stray(header, offset),
                    genuine |-> Genuine(header, offset)])

\* Frames no builder of this crate makes: bytes that do not decode, sub-messages left out,
\* enumeration values of a newer version.
SendForeign ==
    \/ Send([undecodable |-> TRUE], [type |-> "FOREIGN"])
    \/ \E v \in Opt("version", {0, 1, 2}), t \in Opt("type", 0..13) :
          \/ Send(v, [type |-> "FOREIGN"])
          \/ Send(v ++ [v1 |-> t], [type |-> "FOREIGN"])
    \/ \E p \in Opt("packet_type", 0..4), h \in {NoFields, [payload_header |-> NoFields],
                                                 [payload_header |-> [total_size |-> 0]]} :
          Send(EncodeV1("PAYLOAD_TRANSFER", [payload_transfer |-> p ++ h]), [type |-> "FOREIGN"])
    \/ \E e \in Opt("event_type", 0..8),
          i \in Opt("upgrade_path_info", Opt("medium", 0..14)) :
          Send(EncodeV1("BANDWIDTH_UPGRADE_NEGOTIATION",
                        [bandwidth_upgrade_negotiation |-> e ++ i]), [type |-> "FOREIGN"])

Receive ==
    /\ prefs = <<>> /\ frame # NoFields /\ verdict = "none"
    /\ verdict' = FromBytes(frame)
    /\ UNCHANGED <<chainVars, frame, meant>>

-------------------------------------------------------------------------------
Init ==
    /\ prefs \in PrefLists \cup {<<>>}
    /\ untried = prefs /\ offered = <<>>
    /\ listener = {} /\ dialled = {}
    /\ frame = NoFields /\ meant = NoFields
    /\ verdict = "none" /\ outcome = "open"

Next ==
    \/ OfferNext \/ RetryLater \/ LoseOffer \/ JoinOffer \/ RefuseOffer \/ Failure
    \/ SendConnectionRequest \/ SendControlFrame \/ SendPayload
    \/ SendForeign \/ Receive

Spec == Init /\ [][Next]_vars

-------------------------------------------------------------------------------
(* Properties *)

\* A remote that dials an offer of the LAN or hotspot handler reaches an address the
\* offering device listens on: addresses and ports survive the frame, to_string and parse
\* of the gateway, and the choice among several addresses.
OfferReachesListener ==
    dialled \subseteq listener

\* An offer is only lost when its credentials cannot be used, so that no upgrade waits for an
\* answer that never comes: the validator of the remote accepts every address, passphrase,
\* name, PIN and frequency that a radio can use.  The one exception is a Wi-Fi Direct name of
\* exactly 32 octets, which a radio can use and the validator refuses: it compares the length
\* with WIFI_DIRECT_SSID_MAX_LENGTH by < instead of <=.
OnlyUnusableOffersLost ==
    outcome = "lost" => ~meant.usable \/ meant.longest

\* The mediums whose number a path cannot carry, or whose offer carries another's.
Unnamed == {"BLE_L2CAP", "WEB_RTC_NON_CELLULAR"}

\* How many of the first n mediums of the list have a handler.
Rank(n) == Cardinality({k \in 1..n : prefs[k] \in Handlers})

\* Those of the first n mediums that have a handler were tried, and no other, in that order.
TriedUpTo(n) ==
    /\ Len(offered) = Rank(n)
    /\ \A k \in 1..n : prefs[k] \in Handlers => offered[Rank(k)] = prefs[k]

\* Failover leaves nothing out: by the time the upgrade is put off, every medium of the
\* list with a handler was tried, once and in the order of preference; and until then the
\* mediums tried are those of a beginning of the list, unless the list names a medium
\* twice (what follows the first is then tried again).  A refusal names the medium it
\* refuses, unless the medium has no name on the wire.
FailoverTriesAll ==
    ToSet(offered) \cap Unnamed = {} =>
       /\ outcome = "retry" => TriedUpTo(Len(prefs))
       /\ IsInjective(prefs) => \E n \in 0..Len(prefs) : TriedUpTo(n)

\* The receiver takes every chunk and control message of a payload that is cut up properly,
\* the empty chunk at its very end and those of an empty or endless payload included, and no
\* frame that begins outside its payload or whose file leads to another folder.  In between,
\* the validator lets pass a body that runs past the end, and a file called "..".
PayloadFramesJudged ==
    Has(meant, "genuine") /\ verdict # "none" =>
       /\ meant.genuine => verdict = "Success"
       /\ meant.stray => verdict # "Success"

\* A connection request with an identity and a name is accepted, and no other; it gives the
\* receiver that identity and name, the role, and in order the mediums and authentication
\* types that the sender supports (a PIN reads as unknown).
RequestReadsBack ==
    Has(meant, "info") /\ verdict # "none" =>
       LET req == frame.v1.connection_request
       IN  /\ verdict = "Success" <=> (meant.id # "" /\ meant.info.local_endpoint_info # "")
           /\ verdict = "Success" => /\ req.endpoint_id = meant.id
                                     /\ req.endpoint_name = meant.info.local_endpoint_info
           /\ ConnectionRequestMediumsToMediums(req) = meant.info.supported_mediums
           /\ MediumMetadataToWfdAuthTypes(req.medium_metadata) =
                 [i \in DOMAIN meant.auth |->
                     IF meant.auth[i] = "WIFI_DIRECT_WITH_PIN" THEN "WIFI_DIRECT_TYPE_UNKNOWN"
                                                               ELSE meant.auth[i]]
           /\ Get(req.medium_metadata, "medium_role", "none") = meant.role

\* The frames that carry the handshake are accepted whatever they were built from, and are
\* told apart by the receiver: none is lost or taken for another.
ControlFramesPass ==
    Has(meant, "type") /\ verdict # "none" /\ meant.type \notin {"PAYLOAD", "FOREIGN"} =>
       /\ verdict = "Success"
       /\ meant.type = IF GetFrameType(frame) = "BANDWIDTH_UPGRADE_NEGOTIATION"
                       THEN TryFrom(EventType, Negotiation(frame).event_type, "none")
                       ELSE GetFrameType(frame)
=============================================================================
