------------------------------ MODULE BwuManager ------------------------------
(***************************************************************************)
(* The bandwidth-upgrade (BWU) state machine of nearby-rs: BwuManager      *)
(* (src/bwu/manager.rs) together with the state it drives, the channel     *)
(* registry (channel_manager.rs), the per-medium bookkeeping of            *)
(* BaseBwuHandler (handler.rs) and the client record (client.rs).          *)
(*                                                                         *)
(* One peer is modelled.  Everything outside it is free: a remote may send *)
(* any negotiation frame at any time, any write may fail, any medium may   *)
(* refuse to come up, sockets are accepted whenever a listener stands.     *)
(* Every action is one command of the single owner (actor.rs, `handle`),   *)
(* and models that command to its last call.                               *)
(***************************************************************************)
EXTENDS Naturals, Sequences, FiniteSets, Functions

CONSTANTS
    Endpoint,        \* endpoint ids
    Incoming,        \* endpoints whose connection is incoming (advertiser side)
    Channel,         \* identities of EndpointChannel objects; bounds how many exist
    Medium,          \* mediums a channel, a list or a frame may name
    Handlers,        \* mediums a BwuHandler is registered for (each has a wire code)
    BaseMedium,      \* mediums a connection may start on
    PrefLists,       \* upgrade-medium lists a client may be given
    Multi,           \* BwuConfig.support_multiple_bwu_mediums
    ExpBackoff,      \* BwuConfig.use_exp_backoff_in_bwu_retry
    InitialDelay,    \* BwuConfig.bandwidth_upgrade_retry_delay
    MaxDelay,        \* BwuConfig.bandwidth_upgrade_retry_max_delay
    None             \* no channel

Unknown == "UNKNOWN_MEDIUM"

\* The retry list is duplicate free, as BooleanMediumSelector::GetMediums builds it;
\* a repeated medium would make the failover re-enter itself for ever.
ASSUME ConstantsAssumption ==
    /\ IsFiniteSet(Endpoint)
    /\ Incoming \subseteq Endpoint
    /\ Handlers \subseteq Medium /\ BaseMedium \subseteq Medium
    /\ None \notin Channel
    /\ Unknown \notin Medium
    /\ Multi \in BOOLEAN /\ ExpBackoff \in BOOLEAN
    /\ InitialDelay \in Nat \ {0} /\ MaxDelay \in Nat /\ InitialDelay <= MaxDelay
    /\ \A p \in PrefLists : p \in Seq(Medium) /\ IsInjective(p)

VARIABLES
    \* ClientProxy and the consumer's use of it
    stage,       \* the connection's life: "gone", "up", "unregistered", "discarded"
    connected,   \* endpoints the client has accepted
    prefs,       \* the upgrade mediums of each endpoint, most preferred first
    reported,    \* channels whose medium on_bandwidth_changed announced
    \* EndpointChannelManager and the channels
    ecm,         \* the active channel of each endpoint, or None
    chan,        \* "unused", "accepted", "open", "paused" or "closed"
    medium,      \* the medium of each channel in use
    wrapped,     \* channels carrying an initiator (wrapped) service id
    prior,       \* the channel this one displaced in the registry, or None
    \* BwuManager
    bwuMedium,   \* the upgrade medium; one value for all endpoints unless Multi
    inProgress,  \* in_progress_upgrades
    previous,    \* previous_endpoint_channels: the parked channel, or None
    latch,       \* successfully_upgraded_endpoints: an early LAST_WRITE
    alarm,       \* retry_upgrade_alarms: pending delay, 0 for none
    delay,       \* retry_delays: last delay, 0 for none
    active,      \* BaseBwuHandler: endpoints tracked under each medium
    owner        \* "running", "blocked" in a write to a paused channel, "stopped"

clientVars  == <<stage, connected, prefs>>
channelVars == <<ecm, chan, medium, wrapped, prior, reported>>
retryVars   == <<alarm, delay>>
vars == <<clientVars, channelVars, retryVars, bwuMedium, inProgress, previous,
          latch, active, owner>>

-------------------------------------------------------------------------------
(* State functions of the code *)

IsWifiLanConnected == \E e \in Endpoint : ecm[e] # None /\ medium[ecm[e]] = "WIFI_LAN"

\* A hotspot would tear an active WIFI_LAN connection down.
Protected(m) == IsWifiLanConnected /\ m = "WIFI_HOTSPOT"

CurrentMedium(e) == IF ecm[e] = None THEN Unknown ELSE medium[ecm[e]]

\* With the one global medium, nothing is switched under several endpoints.
Coarse == ~Multi /\ Cardinality({e \in Endpoint : ecm[e] # None}) > 1

SetBwuMedium(e, m) == IF Multi THEN [bwuMedium EXCEPT ![e] = m]
                               ELSE [x \in Endpoint |-> m]

\* A writer that does not wait for a paused channel.
MutWritesIgnorePause(c) == IF chan[c] \in {"open", "paused"} THEN {TRUE, FALSE} ELSE {FALSE}

\* Results a write on channel c may have; a write on a paused one does not return.
WriteResults(c) == IF chan[c] = "open" THEN {TRUE, FALSE} ELSE {FALSE}

\* The new channel is swapped in without being paused.
MutPauseForgotten(c) == [chan EXCEPT ![c] = "open"]

\* EndpointChannel::pause.
Pause(c) == [chan EXCEPT ![c] = "paused"]

\* A fresh initiate leaves the pending retry standing.
MutAlarmNotCancelled(e) == alarm

CancelRetryUpgradeAlarm(e) == [alarm EXCEPT ![e] = 0]

\* The latch is looked at, not taken.
MutLatchKept(e) == latch

\* The early LAST_WRITE of e, if any, is taken out of the latch.
TakeLatch(e) == latch \ {e}

\* The cap is forgotten.
MutUncappedDelay(e) == IF delay[e] = 0 THEN InitialDelay ELSE delay[e] * 2

\* A cancelled or fired alarm starts the backoff over.
MutBackoffRestarted(e) == IF alarm[e] = 0 THEN InitialDelay ELSE MaxDelay

CalculateNextRetryDelay(e) ==
    IF delay[e] = 0 THEN InitialDelay
    ELSE LET next == IF ExpBackoff THEN delay[e] * 2 ELSE delay[e] + InitialDelay
         IN  IF next < MaxDelay THEN next ELSE MaxDelay

-------------------------------------------------------------------------------
(* BaseBwuHandler bookkeeping *)

\* One endpoint's revert takes the medium down for all.
MutRevertWholeMedium(e, ms, own) == [m \in Handlers |-> IF m \in ms THEN {} ELSE active[m]]

\* revert_bwu_medium_for_endpoint reaching the handlers of mediums ms: the whole
\* medium with one global medium, else only e, and only under e's own wrapped id.
RevertActive(e, ms, own) ==
    [m \in Handlers |-> IF m \notin ms     THEN active[m]
                        ELSE IF ~Multi     THEN {}
                        ELSE IF own        THEN active[m] \ {e}
                        ELSE active[m]]

-------------------------------------------------------------------------------
(* Starting an upgrade, and failing over along the preference list.        *)
(*                                                                         *)
(* initiate -> process_upgrade_failure_event -> try_next_best -> initiate  *)
(* is a chain of tail calls in one command.  Within it the channel does    *)
(* not change, so the chain is described by where it stops: `out` gives    *)
(* what each medium would do now: its handler returns no bytes ("empty"),  *)
(* the offer cannot be written ("failed"), is "sent", or the write waits   *)
(* on a paused channel ("blocked").                                        *)

Outcomes(e) ==
    IF ecm[e] = None THEN {"empty"}
    ELSE CASE chan[ecm[e]] = "open"   -> {"empty", "failed", "sent"}
           [] chan[ecm[e]] = "paused" -> {"empty", "blocked"}
           [] OTHER                   -> {"empty", "failed"}

Rank(e, m) == CHOOSE i \in DOMAIN prefs[e] : prefs[e][i] = m

\* The part of the list after m; empty if m is not on it.
Untried(e, m) == {n \in Range(prefs[e]) : m \in Range(prefs[e]) /\ Rank(e, n) > Rank(e, m)}

\* The mediums try_next_best would attempt in turn, from the list's part L: it
\* starts at the current upgrade medium if there is one, and then keeps the order.
Candidates(e, L, cur) ==
    {m \in L \cap Handlers :
        cur # Unknown => cur \in L \cap Handlers /\ Rank(e, m) >= Rank(e, cur)}

\* initiate_bwu_for_endpoint gets as far as asking m's handler for an offer.
Reaches(e, m, busy) ==
    ~Protected(m) /\ ~busy /\ ecm[e] # None /\ m # CurrentMedium(e)

\* The chain ends at m: the attempt returns early, works, blocks, or fails where
\* the failure event may not switch mediums.
StopsAt(e, m, busy, out) ==
    \/ ~Reaches(e, m, busy)
    \/ out[m] \in {"sent", "blocked"}
    \/ Coarse

\* try_next_best_upgrade_mediums over L, with upgrade medium `cur` (after the
\* mediums `reverted` were given up), `pending` being the alarm still set.
TryNextBest(e, L, cur, reverted, busy, out, pending) ==
    LET cand  == Candidates(e, L, cur)
        stops == {m \in cand : StopsAt(e, m, busy, out)}
    IN  \E next \in Handlers \cup {Unknown} :
          LET failed  == {m \in cand : stops # {} => Rank(e, m) < Rank(e, next)}
              retry   == CurrentMedium(e) # "WIFI_LAN" /\ next \in {Unknown, CurrentMedium(e)}
              settled == next # Unknown /\ ~retry
              offered == settled /\ Reaches(e, next, busy)
          IN  /\ IF stops = {} THEN next = Unknown
                 ELSE next \in stops /\ \A m \in stops : Rank(e, next) <= Rank(e, m)
              /\ bwuMedium' = SetBwuMedium(e, IF settled THEN next
                                              ELSE IF failed = {} THEN cur ELSE Unknown)
              /\ active' = LET kept == RevertActive(e, reverted \cup failed, ecm[e] # None)
                           IN  IF offered /\ out[next] # "empty"
                               THEN [kept EXCEPT ![next] = @ \cup {e}] ELSE kept
              /\ inProgress' = IF offered /\ out[next] = "sent" THEN inProgress \cup {e}
                               ELSE IF busy THEN inProgress ELSE inProgress \ {e}
              /\ alarm' = [alarm EXCEPT ![e] =
                              IF retry THEN CalculateNextRetryDelay(e)
                              ELSE IF failed # {} \/ (settled /\ ~busy /\ ~Protected(next))
                              THEN 0 ELSE pending]
              /\ delay' = IF retry THEN [delay EXCEPT ![e] = CalculateNextRetryDelay(e)]
                                   ELSE delay
              /\ owner' = IF offered /\ out[next] = "blocked" THEN "blocked" ELSE owner

\* initiate_bwu_for_endpoint.  The upgrade medium is written before the guards.
InitiateBwu(e, m) ==
    /\ owner = "running"
    /\ ~Protected(m)
    /\ UNCHANGED <<clientVars, channelVars, previous, latch>>
    /\ \/ /\ m \notin Handlers \/ e \in inProgress
          /\ bwuMedium' = SetBwuMedium(e, m)
          /\ UNCHANGED <<inProgress, active, retryVars, owner>>
       \/ /\ m \in Handlers /\ e \notin inProgress /\ ~Reaches(e, m, FALSE)
          /\ bwuMedium' = SetBwuMedium(e, m)
          /\ alarm' = CancelRetryUpgradeAlarm(e)
          /\ UNCHANGED <<inProgress, active, delay, owner>>
       \/ /\ m \in Handlers /\ e \notin inProgress /\ Reaches(e, m, FALSE)
          /\ \E out \in [Handlers -> Outcomes(e)] :
                IF StopsAt(e, m, FALSE, out)
                THEN /\ bwuMedium' = SetBwuMedium(e, m)
                     /\ alarm' = CancelRetryUpgradeAlarm(e)
                     /\ active' = IF out[m] = "empty" THEN active
                                  ELSE [active EXCEPT ![m] = @ \cup {e}]
                     /\ inProgress' = IF out[m] = "sent" THEN inProgress \cup {e} ELSE inProgress
                     /\ owner' = IF out[m] = "blocked" THEN "blocked" ELSE owner
                     /\ UNCHANGED delay
                ELSE TryNextBest(e, Untried(e, m), Unknown, {m}, FALSE, out, 0)

\* reset_upgrade_for_endpoint: forget the upgrade, leave the medium standing.
ResetUpgrade(e) ==
    /\ owner = "running"
    /\ e \in inProgress
    /\ inProgress' = inProgress \ {e}
    /\ UNCHANGED <<clientVars, channelVars, retryVars, bwuMedium, previous, latch, active, owner>>

\* UPGRADE_FAILURE from the remote, naming medium m.
UpgradeFailure(e, m) ==
    /\ owner = "running"
    /\ e \in connected
    /\ UNCHANGED <<clientVars, channelVars, previous, latch>>
    /\ IF Coarse
       THEN /\ inProgress' = inProgress \ {e}
            /\ UNCHANGED <<bwuMedium, active, retryVars, owner>>
       ELSE \E out \in [Handlers -> Outcomes(e)] :
               TryNextBest(e, Untried(e, m), Unknown, {bwuMedium[e]}, FALSE, out, alarm[e])

\* fire_retry_alarm, when the timer armed for e elapses.
FireRetryAlarm(e) ==
    /\ owner = "running"
    /\ alarm[e] # 0
    /\ UNCHANGED <<clientVars, channelVars, previous, latch>>
    /\ IF e \notin connected
       THEN /\ alarm' = [alarm EXCEPT ![e] = 0]
            /\ UNCHANGED <<bwuMedium, active, inProgress, delay, owner>>
       ELSE \E out \in [Handlers -> Outcomes(e)] :
               TryNextBest(e, Range(prefs[e]), bwuMedium[e], {}, e \in inProgress, out, 0)

-------------------------------------------------------------------------------
(* The converged upgrade protocol: pause the new channel, swap it in, write *)
(* LAST_WRITE on the displaced one and park that until SAFE_TO_CLOSE.       *)

\* run_upgrade_protocol(e, c): c is `med` and carries a wrapped id iff `wr`.
RunUpgradeProtocol(e, c, med, wr) ==
    /\ medium'  = [medium EXCEPT ![c] = med]
    /\ wrapped' = IF wr THEN wrapped \cup {c} ELSE wrapped
    /\ LET old == ecm[e] IN
       IF old = None
       THEN /\ chan' = Pause(c)
            /\ UNCHANGED <<ecm, prior, previous, latch, owner>>
       ELSE /\ ecm'   = [ecm EXCEPT ![e] = c]
            /\ prior' = [prior EXCEPT ![c] = old]
            /\ \/ \* LAST_WRITE waits on a channel that is itself paused.
                  /\ chan[old] = "paused"
                  /\ chan' = Pause(c)
                  /\ owner' = "blocked"
                  /\ UNCHANGED <<previous, latch>>
               \/ \* LAST_WRITE cannot be written: the old channel is not parked.
                  /\ FALSE \in WriteResults(old) /\ chan[old] # "paused"
                  /\ chan' = Pause(c)
                  /\ UNCHANGED <<previous, latch, owner>>
               \/ \* Parked; a LAST_WRITE that came early is answered now.
                  /\ TRUE \in WriteResults(old)
                  /\ latch' = TakeLatch(e)
                  /\ \/ /\ chan' = Pause(c)
                        /\ previous' = [previous EXCEPT ![e] = old]
                     \/ /\ e \in latch
                        /\ chan' = [Pause(c) EXCEPT ![old] = "closed"]
                        /\ previous' = [previous EXCEPT ![e] = None]
                  /\ UNCHANGED owner

\* The accept loop of a standing listener takes a socket and queues it for the owner.
AcceptSocket(c, m) ==
    /\ chan[c] = "unused"
    /\ active[m] # {}
    /\ chan'    = [chan EXCEPT ![c] = "accepted"]
    /\ medium'  = [medium EXCEPT ![c] = m]
    /\ wrapped' = wrapped \cup {c}
    /\ UNCHANGED <<clientVars, ecm, prior, reported, retryVars, bwuMedium, inProgress,
                   previous, latch, active, owner>>

\* The upgrade an introduction is for: the one it names, or the only one running.
Targets(id) == IF id \in inProgress THEN {id}
               ELSE IF Cardinality(inProgress) = 1 THEN inProgress ELSE {}

\* on_incoming_connection on a queued socket that introduces itself as `id`.  A socket
\* without an introduction, or that cannot be acknowledged, is closed; one that no
\* upgrade is waiting for is dropped, which closes it too.
OnIncomingConnection(c, id) ==
    /\ owner = "running"
    /\ chan[c] = "accepted"
    /\ UNCHANGED <<clientVars, reported, bwuMedium, inProgress, active, delay>>
    /\ \/ /\ chan' = [chan EXCEPT ![c] = "closed"]
          /\ UNCHANGED <<ecm, medium, wrapped, prior, alarm, previous, latch, owner>>
       \/ \E e \in Targets(id) :
             /\ alarm' = CancelRetryUpgradeAlarm(e)
             /\ RunUpgradeProtocol(e, c, medium[c], TRUE)

\* LAST_WRITE_TO_PRIOR_CHANNEL: answer with SAFE_TO_CLOSE, or latch it if we have
\* not parked the old channel yet.
LastWriteToPriorChannel(e) ==
    /\ owner = "running"
    /\ e \in connected /\ e \in inProgress
    /\ \/ /\ previous[e] = None
          /\ latch' = latch \cup {e}
          /\ UNCHANGED <<chan, previous>>
       \/ /\ previous[e] # None
          /\ FALSE \in WriteResults(previous[e])
          /\ chan' = [chan EXCEPT ![previous[e]] = "closed"]
          /\ previous' = [previous EXCEPT ![e] = None]
          /\ UNCHANGED latch
    /\ UNCHANGED <<clientVars, ecm, medium, wrapped, prior, reported, retryVars, bwuMedium,
                   inProgress, active, owner>>

\* SAFE_TO_CLOSE is acted on although nothing is parked.
MutSafeToCloseUnparked(e) ==
    /\ owner = "running"
    /\ e \in connected /\ e \in inProgress /\ ecm[e] # None
    /\ previous' = [previous EXCEPT ![e] = None]
    /\ chan' = [c \in Channel |-> IF c = previous[e] THEN "closed"
                                   ELSE IF c = ecm[e] THEN "open" ELSE chan[c]]
    /\ reported' = reported \cup {ecm[e]}
    /\ inProgress' = inProgress \ {e}
    /\ UNCHANGED <<clientVars, ecm, medium, wrapped, prior, retryVars, bwuMedium, latch,
                   active, owner>>

\* The new channel is reported, but stays paused.
MutNotResumed(e) ==
    /\ owner = "running"
    /\ e \in connected /\ e \in inProgress /\ previous[e] # None
    /\ previous' = [previous EXCEPT ![e] = None]
    /\ chan' = [chan EXCEPT ![previous[e]] = "closed"]
    /\ reported' = reported \cup ({ecm[e]} \ {None})
    /\ inProgress' = IF ecm[e] = None THEN inProgress ELSE inProgress \ {e}
    /\ UNCHANGED <<clientVars, ecm, medium, wrapped, prior, retryVars, bwuMedium, latch,
                   active, owner>>

\* SAFE_TO_CLOSE_PRIOR_CHANNEL: close the parked channel, resume the new one, report it.
SafeToClosePriorChannel(e) ==
    /\ owner = "running"
    /\ e \in connected /\ e \in inProgress
    /\ previous[e] # None
    /\ previous' = [previous EXCEPT ![e] = None]
    /\ IF ecm[e] = None
       THEN /\ chan' = [chan EXCEPT ![previous[e]] = "closed"]
            /\ UNCHANGED <<reported, inProgress>>
       ELSE /\ chan' = [chan EXCEPT ![previous[e]] = "closed", ![ecm[e]] = "open"]
            /\ reported' = reported \cup {ecm[e]}
            /\ inProgress' = inProgress \ {e}
    /\ UNCHANGED <<clientVars, ecm, medium, wrapped, prior, retryVars, bwuMedium, latch,
                   active, owner>>

-------------------------------------------------------------------------------
(* The responder's side *)

\* run_upgrade_failed_protocol, with upgrade medium `cur` for e.
RunUpgradeFailedProtocol(e, cur) ==
    \/ /\ ecm[e] = None
       /\ bwuMedium' = SetBwuMedium(e, cur)
       /\ UNCHANGED <<chan, inProgress, active, owner>>
    \/ /\ ecm[e] # None /\ chan[ecm[e]] = "paused"
       /\ bwuMedium' = SetBwuMedium(e, cur)
       /\ owner' = "blocked"
       /\ UNCHANGED <<chan, inProgress, active>>
    \/ /\ ecm[e] # None /\ chan[ecm[e]] # "paused"
       /\ FALSE \in WriteResults(ecm[e])
       /\ chan' = [chan EXCEPT ![ecm[e]] = "closed"]
       /\ bwuMedium' = SetBwuMedium(e, cur)
       /\ UNCHANGED <<inProgress, active, owner>>
    \/ /\ ecm[e] # None
       /\ TRUE \in WriteResults(ecm[e])
       /\ bwuMedium' = SetBwuMedium(e, Unknown)
       /\ active' = RevertActive(e, {cur}, ecm[e] \in wrapped)
       /\ inProgress' = inProgress \ {e}
       /\ UNCHANGED <<chan, owner>>

\* UPGRADE_PATH_AVAILABLE naming m, in the cases that dial nothing.
PathRefused(e, m) ==
    /\ owner = "running"
    /\ UNCHANGED <<clientVars, ecm, medium, wrapped, prior, reported, retryVars, latch>>
    /\ \/ /\ e \notin connected \/ Protected(m)
          /\ RunUpgradeFailedProtocol(e, bwuMedium[e])
          /\ UNCHANGED previous
       \/ \* Out of sync: close everything.
          /\ e \in connected \ Incoming /\ ~Protected(m) /\ e \in inProgress
          /\ chan' = [c \in Channel |-> IF c \in {previous[e], ecm[e]} THEN "closed" ELSE chan[c]]
          /\ previous' = [previous EXCEPT ![e] = None]
          /\ UNCHANGED <<bwuMedium, inProgress, active, owner>>
       \/ \* Another medium is the endpoint's, or this one cannot be joined.
          /\ e \in connected \ Incoming /\ ~Protected(m) /\ e \notin inProgress
          /\ RunUpgradeFailedProtocol(e, IF bwuMedium[e] = Unknown THEN m ELSE bwuMedium[e])
          /\ UNCHANGED previous

\* UPGRADE_PATH_AVAILABLE on a medium the responder joins: c is dialled, introduced
\* and acknowledged, then swapped in.  A pending retry is left pending.
PathJoined(e, m, c) ==
    /\ owner = "running"
    /\ e \in connected \ Incoming /\ ~Protected(m) /\ e \notin inProgress
    /\ bwuMedium[e] \in {Unknown, m}
    /\ m \in Handlers /\ ecm[e] # None /\ chan[c] = "unused"
    /\ bwuMedium' = SetBwuMedium(e, m)
    /\ inProgress' = inProgress \cup {e}
    /\ RunUpgradeProtocol(e, c, m, ecm[e] \in wrapped)
    /\ UNCHANGED <<clientVars, reported, retryVars, active>>

-------------------------------------------------------------------------------
(* The life of a connection, as the consumer drives it *)

\* on_connection_initiated and register_channel_for_endpoint.
Connect(e, c, m) ==
    /\ owner = "running"
    /\ stage[e] = "gone" /\ chan[c] = "unused"
    /\ stage'  = [stage EXCEPT ![e] = "up"]
    /\ ecm'    = [ecm EXCEPT ![e] = c]
    /\ chan'   = [chan EXCEPT ![c] = "open"]
    /\ medium' = [medium EXCEPT ![c] = m]
    /\ UNCHANGED <<connected, prefs, wrapped, prior, reported, retryVars, bwuMedium,
                   inProgress, previous, latch, active, owner>>

ConnectionAccepted(e) ==
    /\ owner = "running"
    /\ stage[e] = "up" /\ e \notin connected
    /\ connected' = connected \cup {e}
    /\ UNCHANGED <<stage, prefs, channelVars, retryVars, bwuMedium, inProgress, previous,
                   latch, active, owner>>

SetUpgradeMediums(e, p) ==
    /\ owner = "running"
    /\ stage[e] = "up"
    /\ prefs' = [prefs EXCEPT ![e] = p]
    /\ UNCHANGED <<stage, connected, channelVars, retryVars, bwuMedium, inProgress, previous,
                   latch, active, owner>>

\* unregister_channel_for_endpoint closes nothing.
Unregister(e) ==
    /\ owner = "running"
    /\ stage[e] = "up"
    /\ stage' = [stage EXCEPT ![e] = "unregistered"]
    /\ ecm'   = [ecm EXCEPT ![e] = None]
    /\ UNCHANGED <<connected, prefs, chan, medium, wrapped, prior, reported, retryVars, bwuMedium,
                   inProgress, previous, latch, active, owner>>

\* What on_endpoint_disconnect forgets, without the alarm.
MutForgetKeepsAlarm(e) ==
    /\ inProgress' = inProgress \ {e} /\ latch' = latch \ {e}
    /\ delay' = [delay EXCEPT ![e] = 0] /\ UNCHANGED alarm

\* ... and without the latch.
MutForgetKeepsLatch(e) ==
    /\ inProgress' = inProgress \ {e} /\ UNCHANGED latch
    /\ delay' = [delay EXCEPT ![e] = 0] /\ alarm' = [alarm EXCEPT ![e] = 0]

\* What on_endpoint_disconnect forgets about e.
ForgetUpgrade(e) ==
    /\ inProgress' = inProgress \ {e} /\ latch' = latch \ {e}
    /\ delay' = [delay EXCEPT ![e] = 0] /\ alarm' = [alarm EXCEPT ![e] = 0]

\* on_endpoint_disconnect, under a service id that is wrapped iff `wr`.
OnEndpointDisconnect(e, wr) ==
    /\ owner = "running"
    /\ stage[e] = "unregistered"
    /\ stage' = [stage EXCEPT ![e] = "discarded"]
    /\ chan' = IF previous[e] = None THEN chan ELSE [chan EXCEPT ![previous[e]] = "closed"]
    /\ previous' = [previous EXCEPT ![e] = None]
    /\ ForgetUpgrade(e)
    /\ IF Coarse THEN UNCHANGED <<bwuMedium, active>>
       ELSE /\ bwuMedium' = SetBwuMedium(e, Unknown)
            /\ active' = RevertActive(e, {bwuMedium[e]}, wr)
    /\ UNCHANGED <<connected, prefs, ecm, medium, wrapped, prior, reported, owner>>

\* ClientProxy::on_disconnected.
Disconnected(e) ==
    /\ owner = "running"
    /\ stage[e] = "discarded"
    /\ stage' = [stage EXCEPT ![e] = "gone"]
    /\ connected' = connected \ {e}
    /\ prefs' = [prefs EXCEPT ![e] = <<>>]
    /\ UNCHANGED <<channelVars, retryVars, bwuMedium, inProgress, previous, latch, active, owner>>

\* shutdown: parked channels are forgotten, not closed.
Shutdown ==
    /\ owner = "running"
    /\ owner' = "stopped"
    /\ alarm' = [e \in Endpoint |-> 0]
    /\ delay' = [e \in Endpoint |-> 0]
    /\ active' = [m \in Handlers |-> {}]
    /\ inProgress' = {}
    /\ previous' = [e \in Endpoint |-> None]
    /\ latch' = {}
    /\ UNCHANGED <<clientVars, channelVars, bwuMedium>>

-------------------------------------------------------------------------------
Init ==
    /\ stage      = [e \in Endpoint |-> "gone"]
    /\ connected  = {}
    /\ prefs      = [e \in Endpoint |-> <<>>]
    /\ reported   = {}
    /\ ecm        = [e \in Endpoint |-> None]
    /\ chan       = [c \in Channel |-> "unused"]
    /\ medium     = [c \in Channel |-> Unknown]
    /\ wrapped    = {}
    /\ prior      = [c \in Channel |-> None]
    /\ bwuMedium  = [e \in Endpoint |-> Unknown]
    /\ inProgress = {}
    /\ previous   = [e \in Endpoint |-> None]
    /\ latch      = {}
    /\ alarm      = [e \in Endpoint |-> 0]
    /\ delay      = [e \in Endpoint |-> 0]
    /\ active     = [m \in Handlers |-> {}]
    /\ owner      = "running"

OnFrame(e) ==
    \/ \E m \in Medium \cup {Unknown} : UpgradeFailure(e, m) \/ PathRefused(e, m)
    \/ \E m \in Handlers, c \in Channel : PathJoined(e, m, c)
    \/ LastWriteToPriorChannel(e)
    \/ SafeToClosePriorChannel(e)

Consumer(e) ==
    \/ \E c \in Channel, m \in BaseMedium : Connect(e, c, m)
    \/ ConnectionAccepted(e)
    \/ \E p \in PrefLists : SetUpgradeMediums(e, p)
    \/ \E m \in Medium : InitiateBwu(e, m)
    \/ ResetUpgrade(e)
    \/ Unregister(e)
    \/ \E wr \in BOOLEAN : OnEndpointDisconnect(e, wr)
    \/ Disconnected(e)

Sockets(c) ==
    \/ \E m \in Handlers : AcceptSocket(c, m)
    \/ \E id \in Endpoint \cup {None} : OnIncomingConnection(c, id)

Next ==
    \/ \E e \in Endpoint : OnFrame(e) \/ Consumer(e) \/ FireRetryAlarm(e)
    \/ \E c \in Channel : Sockets(c)
    \/ Shutdown

Spec == Init /\ [][Next]_vars

-------------------------------------------------------------------------------
(* Properties *)

\* Every variable keeps its type.
TypeOK ==
    /\ stage \in [Endpoint -> {"gone", "up", "unregistered", "discarded"}]
    /\ connected \in SUBSET Endpoint
    /\ prefs \in [Endpoint -> PrefLists \cup {<<>>}]
    /\ reported \in SUBSET Channel
    /\ ecm \in [Endpoint -> Channel \cup {None}]
    /\ chan \in [Channel -> {"unused", "accepted", "open", "paused", "closed"}]
    /\ medium \in [Channel -> Medium \cup {Unknown}]
    /\ wrapped \in SUBSET Channel
    /\ prior \in [Channel -> Channel \cup {None}]
    /\ bwuMedium \in [Endpoint -> Medium \cup {Unknown}]
    /\ inProgress \in SUBSET Endpoint
    /\ previous \in [Endpoint -> Channel \cup {None}]
    /\ latch \in SUBSET Endpoint
    /\ alarm \in [Endpoint -> 0..MaxDelay]
    /\ delay \in [Endpoint -> 0..MaxDelay]
    /\ active \in [Handlers -> SUBSET Endpoint]
    /\ owner \in {"running", "blocked", "stopped"}

\* "We must not write payloads on the new channel until the old one is fully drained"
\* (run_upgrade_protocol): an upgraded channel accepts writes only once the channel it
\* displaced is closed, whatever frames, sockets and failures arrive in whatever order.
NoInterleavedChannels ==
    \A c \in Channel : prior[c] # None /\ chan[c] = "open" => chan[prior[c]] = "closed"

\* While an old channel is parked it is still open, and the endpoint's channel is the
\* paused one that displaced it: SAFE_TO_CLOSE always resumes the matching channel.
ParkedUnderItsSuccessor ==
    \A e \in Endpoint : previous[e] # None =>
        /\ chan[previous[e]] = "open"
        /\ ecm[e] # None /\ owner = "running" =>
              chan[ecm[e]] = "paused" /\ prior[ecm[e]] = previous[e]

\* An early LAST_WRITE is either waiting in the latch or already answered on the parked
\* channel, never both: parking consumes the latch (run_upgrade_protocol).
LatchConsumedByParking ==
    \A e \in Endpoint : e \in latch => previous[e] = None

\* Once on_endpoint_disconnect has run on an unregistered endpoint, no late frame, socket
\* or alarm puts upgrade state back: a reconnect inherits no running upgrade, parked
\* channel or latch.
DiscardedIsClean ==
    \A e \in Endpoint : stage[e] \in {"discarded", "gone"} =>
        ecm[e] = None /\ e \notin inProgress /\ previous[e] = None /\ e \notin latch

\* On the advertiser's side an upgrade that is running has no retry pending: starting
\* one cancels the alarm, and only a failure, which ends it, sets one.
AdvertiserRetryExclusive ==
    \A e \in Incoming : e \in inProgress => alarm[e] = 0

\* On the advertiser's side an upgrade that is running keeps a medium standing for the
\* remote to connect to: with per-endpoint mediums, no other endpoint's failure or
\* disconnect stops it.
RunningUpgradeIsListening ==
    Multi => \A e \in Incoming \cap inProgress : \E m \in Handlers : e \in active[m]

\* A pending alarm carries the latest backoff delay, and that is within the configured
\* maximum, however often it was cancelled, fired and set again in between.
AlarmIsLatestBackoff ==
    \A e \in Endpoint : alarm[e] # 0 => alarm[e] = delay[e] /\ delay[e] <= MaxDelay

\* The backoff of an endpoint only grows, until its disconnect or the shutdown resets it.
BackoffNeverShrinks ==
    [][\A e \in Endpoint : delay'[e] >= delay[e] \/ (delay'[e] = 0 /\ alarm'[e] = 0)]_vars

\* A bandwidth change is reported in the very step that closes the old channel, for the
\* registered channel that replaced it and that the same step resumes.
ReportsTheSwap ==
    [][reported' # reported =>
        \E e \in Endpoint :
            /\ previous[e] # None /\ previous'[e] = None /\ chan'[previous[e]] = "closed"
            /\ prior[ecm[e]] = previous[e] /\ chan'[ecm[e]] = "open"
            /\ ecm[e] \notin reported /\ reported' = reported \cup {ecm[e]}]_vars

\* The owner waits in a write only while some endpoint's swap is unfinished (LAST_WRITE
\* attempted, SAFE_TO_CLOSE not yet taken): before an upgrade has put its channel in, and
\* once it was reported, no offer, refusal or LAST_WRITE can wedge it.
BlockedOnlyInSwap ==
    owner = "blocked" =>
        \E e \in Endpoint : /\ ecm[e] # None /\ chan[ecm[e]] = "paused"
                            /\ prior[ecm[e]] # None /\ ecm[e] \notin reported

(* What comments and tests of the code say, and the code does not keep *)

\* actor.rs: the single owner applies everything in order so that the handshake does not
\* wedge: the owner never waits for a channel that only the owner itself can resume.
OwnerNeverWedged == owner # "blocked"

-------------------------------------------------------------------------------
(* The inductive invariant behind the safety properties *)

\* No channel object is registered or parked twice.
ReferencesDistinct ==
    \A e, f \in Endpoint :
        /\ ecm[e] # None /\ ecm[e] = ecm[f] => e = f
        /\ previous[e] # None /\ previous[e] = previous[f] => e = f
        /\ previous[e] # None => previous[e] # ecm[f]

\* A channel not handed to the manager yet is not known to it.
FreshUnreferenced ==
    \A c \in Channel : chan[c] \in {"unused", "accepted"} =>
        /\ prior[c] = None
        /\ \A d \in Channel : prior[d] # c
        /\ \A e \in Endpoint : ecm[e] # c /\ previous[e] # c

\* Only a connection that is up has a channel.
RegisteredIsUp == \A e \in Endpoint : ecm[e] # None => stage[e] = "up"

\* A reported channel has left its pause for good.
ReportedNotPaused == \A c \in reported : chan[c] \in {"open", "closed"}

SwapInv ==
    /\ NoInterleavedChannels
    /\ ParkedUnderItsSuccessor
    /\ LatchConsumedByParking
    /\ DiscardedIsClean
    /\ ReferencesDistinct
    /\ FreshUnreferenced
    /\ RegisteredIsUp
    /\ ReportedNotPaused

\* A registered channel that is paused displaced another.
PausedDisplaced ==
    \A e \in Endpoint : ecm[e] # None /\ chan[ecm[e]] = "paused" => prior[ecm[e]] # None

BlockInv == PausedDisplaced /\ BlockedOnlyInSwap

RetryInv ==
    /\ AlarmIsLatestBackoff
    /\ AdvertiserRetryExclusive
    /\ RunningUpgradeIsListening
=============================================================================
