---------------------------- MODULE HotspotHandler ----------------------------
(***************************************************************************)
(* The medium side of an upgrade: BaseBwuHandler (src/bwu/handler.rs)      *)
(* around WifiHotspotBwuHandler (src/bwu/wifi_hotspot.rs), called as       *)
(* BwuManager calls it with support_multiple_bwu_mediums.  A device hosts  *)
(* a hotspot with a listener per wrapped service id, shared by the         *)
(* endpoints it offered it to, and may itself join a remote's hotspot.     *)
(* WifiLanBwuHandler is the same without the access point.                 *)
(*                                                                         *)
(* in_progress_upgrades is left out: reset_upgrade_for_endpoint clears it  *)
(* at any time, and a call that it turns away leaves the handler alone.    *)
(* Service ids are not empty, and no endpoint is upgraded to another       *)
(* medium.                                                                 *)
(***************************************************************************)
EXTENDS Naturals

CONSTANTS
    Endpoint,
    Service,          \* service ids of the consumer, without the upgrade postfix
    UnknownService,   \* UNKNOWN_SERVICE_ID
    Incoming          \* endpoints that connected to us: we do not answer their offers

ASSUME HandlerAssumption == UnknownService \notin Service /\ Incoming \subseteq Endpoint

VARIABLES
    stage,       \* the consumer's view: "gone", "up", "unregistered" or "discarded"
    channelId,   \* service id of the endpoint's latest channel
    over,        \* endpoints whose channel is over the hotspot medium
    medium,      \* endpoints whose upgrade medium is WIFI_HOTSPOT
    active,      \* upgrade_service_id_to_active_endpoint_ids
    listeners,   \* WifiHotspotBwuHandler.listeners
    aps,         \* external: access points the SoftAp has up
    sta,         \* external: the SoftAp has joined a hotspot
    down         \* shutdown was run

handlerVars == <<active, listeners, aps>>
vars == <<stage, channelId, over, medium, handlerVars, sta, down>>

Ids == [service : Service \cup {UnknownService}, wrapped : BOOLEAN]
RawId(s) == [service |-> s, wrapped |-> FALSE]

\* wrap_initiator_upgrade_service_id.
Wrap(id) == [id EXCEPT !.wrapped = TRUE]

-------------------------------------------------------------------------------
(* BaseBwuHandler and WifiHotspotBwuHandler *)

\* A listener that cannot be bound leaves the access point up.
MutApAfterInitialize(id, out) ==
    IF id \in listeners \/ out = "ap" THEN aps ELSE aps \cup {id}

\* handle_initialize_upgraded_medium_for_endpoint: a standing medium is reused; if the
\* listener cannot be bound the access point is stopped again.
ApAfterInitialize(id, out) ==
    IF id \in listeners \/ out \in {"ap", "listen"} THEN aps ELSE aps \cup {id}

\* initialize_upgraded_medium_for_endpoint tracks the endpoint if there is an offer.
Track(id, e) == [active EXCEPT ![id] = @ \cup {e}]

\* revert_initiator_state_for_endpoint ignores ids without the postfix.
Untrack(tracked, id, e) == IF id.wrapped THEN [tracked EXCEPT ![id] = @ \ {e}] ELSE tracked

\* The first endpoint to go takes the medium down.
MutEmptied(tracked, id, e) == IF id.wrapped /\ tracked[id] # {} THEN {id} ELSE {}

\* ... and the medium is taken down with its last endpoint.
Emptied(tracked, id, e) ==
    IF id.wrapped /\ tracked[id] # {} /\ tracked[id] \ {e} = {} THEN {id} ELSE {}

\* revert_bwu_medium_for_endpoint, for an endpoint whose medium this is.  Under an id
\* without the postfix it is revert_responder_state, which looks for a listener under
\* that id.
Revert(id, e) ==
    /\ active' = Untrack(active, id, e)
    /\ LET gone == IF id.wrapped THEN Emptied(active, id, e) ELSE {id} \cap listeners IN
       /\ listeners' = listeners \ gone
       /\ aps' = aps \ gone
    /\ medium' = medium \ {e}

-------------------------------------------------------------------------------
(* BwuManager's calls *)

\* initiate_bwu_for_endpoint with WIFI_HOTSPOT.  `out`: the access point does not start
\* ("ap"), the listener is not bound ("listen"), the offer is not written ("write"), or
\* it is "sent"; all but the last end in the revert of process_upgrade_failure_event.
Initiate(e, out) ==
    /\ ~down
    /\ IF stage[e] # "up" \/ e \in over
       THEN medium' = medium \cup {e} /\ UNCHANGED handlerVars
       ELSE LET id == Wrap(channelId[e])
                offer == out \in {"write", "sent"} \* the handler returned bytes
                tracked == IF offer THEN Track(id, e) ELSE active
                gone == IF out = "sent" THEN {} ELSE Emptied(tracked, id, e)
            IN  /\ id \in listeners => offer
                /\ active' = IF out = "sent" THEN tracked ELSE Untrack(tracked, id, e)
                /\ listeners' = (IF offer THEN listeners \cup {id} ELSE listeners) \ gone
                /\ aps' = ApAfterInitialize(id, out) \ gone
                /\ medium' = IF out = "sent" THEN medium \cup {e} ELSE medium \ {e}
    /\ UNCHANGED <<stage, channelId, over, sta, down>>

\* UPGRADE_FAILURE from the remote: without a channel the revert goes to
\* UNKNOWN_SERVICE_ID.
UpgradeFailure(e) ==
    /\ ~down /\ stage[e] # "gone" /\ e \in medium
    /\ Revert(Wrap(IF stage[e] = "up" THEN channelId[e] ELSE RawId(UnknownService)), e)
    /\ UNCHANGED <<stage, channelId, over, sta, down>>

\* A socket of a listener of s, which may have stopped since, is swapped in for an
\* endpoint that is being upgraded: offered a medium, or joined to one and the only one
\* in progress (on_incoming_connection).
Accepted(e, s) ==
    /\ ~down /\ stage[e] = "up" /\ (e \in over \/ \E id \in Ids : e \in active[id])
    /\ channelId' = [channelId EXCEPT ![e] = Wrap(RawId(s))]
    /\ over' = over \cup {e}
    /\ UNCHANGED <<stage, medium, handlerVars, sta, down>>

\* UPGRADE_PATH_AVAILABLE for the hotspot.  `out`: no credentials or the join fails
\* ("join"), the gateway is not reached or the introduction fails ("dial"), or
\* "joined".  `told`: UPGRADE_FAILURE could be written.
PathAvailable(e, out, told) ==
    /\ ~down /\ stage[e] # "gone" /\ e \notin Incoming
    /\ sta' = (sta \/ (stage[e] = "up" /\ out # "join"))
    /\ over' = IF stage[e] = "up" /\ out = "joined" THEN over \cup {e} ELSE over
    /\ IF stage[e] = "up" /\ out # "joined" /\ told
       THEN Revert(channelId[e], e)
       ELSE medium' = medium \cup {e} /\ UNCHANGED handlerVars
    /\ UNCHANGED <<stage, channelId, down>>

-------------------------------------------------------------------------------
(* The consumer *)

Connect(e, s) ==
    /\ ~down /\ stage[e] = "gone"
    /\ stage' = [stage EXCEPT ![e] = "up"]
    /\ channelId' = [channelId EXCEPT ![e] = RawId(s)]
    /\ over' = over \ {e}
    /\ UNCHANGED <<medium, handlerVars, sta, down>>

Unregister(e) ==
    /\ ~down /\ stage[e] = "up"
    /\ stage' = [stage EXCEPT ![e] = "unregistered"]
    /\ UNCHANGED <<channelId, over, medium, handlerVars, sta, down>>

\* on_endpoint_disconnect, under the id the endpoint is tracked by: wrapped for an
\* endpoint we offered a medium to.
OnEndpointDisconnect(e) ==
    /\ ~down /\ stage[e] = "unregistered"
    /\ stage' = [stage EXCEPT ![e] = "discarded"]
    /\ IF e \in medium
       THEN /\ sta' = FALSE
            /\ Revert([channelId[e] EXCEPT !.wrapped = \E id \in Ids : e \in active[id]], e)
       ELSE UNCHANGED <<sta, medium, handlerVars>>
    /\ UNCHANGED <<channelId, over, down>>

Disconnected(e) ==
    /\ ~down /\ stage[e] = "discarded"
    /\ stage' = [stage EXCEPT ![e] = "gone"]
    /\ UNCHANGED <<channelId, over, medium, handlerVars, sta, down>>

\* The tracked services are forgotten before their mediums are reverted.
MutRevertedServices == {}

\* revert_initiator_state reverts every service that is tracked.
RevertedServices == {id \in listeners : active[id] # {}}

\* shutdown.
Shutdown ==
    /\ ~down
    /\ down' = TRUE
    /\ active' = [id \in Ids |-> {}]
    /\ listeners' = listeners \ RevertedServices
    /\ aps' = aps \ RevertedServices
    /\ UNCHANGED <<stage, channelId, over, medium, sta>>

Init ==
    /\ stage = [e \in Endpoint |-> "gone"]
    /\ channelId = [e \in Endpoint |-> RawId(UnknownService)]
    /\ over = {} /\ medium = {}
    /\ active = [id \in Ids |-> {}]
    /\ listeners = {} /\ aps = {}
    /\ sta = FALSE /\ down = FALSE

Next ==
    \/ \E e \in Endpoint :
        \/ \E out \in {"ap", "listen", "write", "sent"} : Initiate(e, out)
        \/ \E out \in {"join", "dial", "joined"}, told \in BOOLEAN : PathAvailable(e, out, told)
        \/ \E s \in Service : Connect(e, s) \/ Accepted(e, s)
        \/ UpgradeFailure(e) \/ Unregister(e) \/ OnEndpointDisconnect(e) \/ Disconnected(e)
    \/ Shutdown

Spec == Init /\ [][Next]_vars

-------------------------------------------------------------------------------
(* Properties *)

\* Every variable keeps its type.
TypeOK ==
    /\ stage \in [Endpoint -> {"gone", "up", "unregistered", "discarded"}]
    /\ channelId \in [Endpoint -> Ids]
    /\ over \in SUBSET Endpoint /\ medium \in SUBSET Endpoint
    /\ active \in [Ids -> SUBSET Endpoint]
    /\ listeners \in SUBSET Ids /\ aps \in SUBSET Ids
    /\ sta \in BOOLEAN /\ down \in BOOLEAN

\* The handler's two layers agree over every order of offers, partial failures, reverts
\* and disconnects: a hotspot is up with a listener exactly while some endpoint is
\* tracked for it, and only under wrapped ids.
MediumUpWhileTracked ==
    /\ listeners = {id \in Ids : active[id] # {}}
    /\ aps = listeners
    /\ \A id \in listeners : id.wrapped

\* Endpoints share a service's hotspot: what happens to one of them takes it down only
\* if no other is tracked for it; only shutdown takes all down.
OthersKeepMedium ==
    [][\A id \in listeners \ listeners' : down' \/ \E e \in Endpoint : active[id] = {e}]_vars

\* Shutdown leaves no hotspot up and no listener behind it.
ShutdownStopsMediums == down => listeners = {} /\ aps = {}

\* "Cleans up an upgrade after the endpoint disconnects" (on_endpoint_disconnect): when
\* every endpoint is gone no hotspot of ours is up and we have left the one we joined.
DisconnectCleansUp ==
    (\A e \in Endpoint : stage[e] = "gone") => aps = {} /\ listeners = {} /\ ~sta
=============================================================================
