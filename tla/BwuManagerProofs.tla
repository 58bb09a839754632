--------------------------- MODULE BwuManagerProofs ---------------------------
(***************************************************************************)
(* Machine-checked proofs about BwuManager, for any number of endpoints,   *)
(* channels and mediums, both values of support_multiple_bwu_mediums and   *)
(* both backoffs.                                                          *)
(***************************************************************************)
EXTENDS BwuManager, TLAPS

-------------------------------------------------------------------------------
(* What the helper operators return *)

\* Writing the upgrade medium of one endpoint, or the global one, keeps the map typed.
LEMMA SetBwuMediumType ==
    ASSUME TypeOK, NEW e \in Endpoint, NEW m \in Medium \cup {Unknown}
    PROVE  SetBwuMedium(e, m) \in [Endpoint -> Medium \cup {Unknown}]
BY DEF TypeOK, SetBwuMedium

\* A computed retry delay is positive and never above the configured maximum.
LEMMA RetryDelayType ==
    ASSUME TypeOK, NEW e \in Endpoint
    PROVE  CalculateNextRetryDelay(e) \in 1..MaxDelay
BY ConstantsAssumption DEF TypeOK, CalculateNextRetryDelay

\* Reverting mediums only takes endpoints out of the bookkeeping.
LEMMA RevertActiveType ==
    ASSUME TypeOK, NEW e \in Endpoint, NEW ms, NEW own
    PROVE  RevertActive(e, ms, own) \in [Handlers -> SUBSET Endpoint]
BY DEF TypeOK, RevertActive

\* The failover chain keeps the manager's own state typed, wherever it stops.
LEMMA TryNextBestType ==
    ASSUME TypeOK, NEW e \in Endpoint, NEW L, NEW cur \in Medium \cup {Unknown},
           NEW reverted, NEW busy, NEW out, NEW pending \in 0..MaxDelay,
           TryNextBest(e, L, cur, reverted, busy, out, pending)
    PROVE  /\ bwuMedium' \in [Endpoint -> Medium \cup {Unknown}]
           /\ active' \in [Handlers -> SUBSET Endpoint]
           /\ inProgress' \in SUBSET Endpoint
           /\ alarm' \in [Endpoint -> 0..MaxDelay]
           /\ delay' \in [Endpoint -> 0..MaxDelay]
           /\ owner' \in {"running", "blocked", "stopped"}
<1> DEFINE cand  == Candidates(e, L, cur)
           stops == {m \in cand : StopsAt(e, m, busy, out)}
           failed(n)  == {m \in cand : stops # {} => Rank(e, m) < Rank(e, n)}
           retry(n)   == CurrentMedium(e) # "WIFI_LAN" /\ n \in {Unknown, CurrentMedium(e)}
           settled(n) == n # Unknown /\ ~retry(n)
           offered(n) == settled(n) /\ Reaches(e, n, busy)
           kept(n) == RevertActive(e, reverted \cup failed(n), ecm[e] # None)
<1>1. PICK next \in Handlers \cup {Unknown} :
          /\ bwuMedium' = SetBwuMedium(e, IF settled(next) THEN next
                                          ELSE IF failed(next) = {} THEN cur ELSE Unknown)
          /\ active' = IF offered(next) /\ out[next] # "empty"
                       THEN [kept(next) EXCEPT ![next] = @ \cup {e}] ELSE kept(next)
          /\ inProgress' = IF offered(next) /\ out[next] = "sent" THEN inProgress \cup {e}
                           ELSE IF busy THEN inProgress ELSE inProgress \ {e}
          /\ alarm' = [alarm EXCEPT ![e] =
                          IF retry(next) THEN CalculateNextRetryDelay(e)
                          ELSE IF failed(next) # {} \/ (settled(next) /\ ~busy /\ ~Protected(next))
                          THEN 0 ELSE pending]
          /\ delay' = IF retry(next) THEN [delay EXCEPT ![e] = CalculateNextRetryDelay(e)]
                                     ELSE delay
          /\ owner' = IF offered(next) /\ out[next] = "blocked" THEN "blocked" ELSE owner
  BY DEF TryNextBest
<1> HIDE DEF cand, stops, failed, retry, settled, offered
<1>2. next \in Medium \cup {Unknown} /\ Unknown \in Medium \cup {Unknown}
  BY <1>1, ConstantsAssumption
<1>3. bwuMedium' \in [Endpoint -> Medium \cup {Unknown}]
  <2>1. (IF settled(next) THEN next ELSE IF failed(next) = {} THEN cur ELSE Unknown)
            \in Medium \cup {Unknown}
    BY <1>2
  <2> QED BY <1>1, <2>1, SetBwuMediumType
<1>4. active' \in [Handlers -> SUBSET Endpoint]
  <2>1. kept(next) \in [Handlers -> SUBSET Endpoint]
    BY RevertActiveType
  <2> HIDE DEF kept
  <2>2. [kept(next) EXCEPT ![next] = @ \cup {e}] \in [Handlers -> SUBSET Endpoint]
    BY <2>1
  <2> QED BY <1>1, <2>1, <2>2
<1>5. inProgress' \in SUBSET Endpoint
  BY <1>1 DEF TypeOK
<1>6. CalculateNextRetryDelay(e) \in 0..MaxDelay /\ 0 \in 0..MaxDelay
  BY RetryDelayType, ConstantsAssumption
<1>7. alarm' \in [Endpoint -> 0..MaxDelay] /\ delay' \in [Endpoint -> 0..MaxDelay]
  BY <1>1, <1>6 DEF TypeOK
<1>8. owner' \in {"running", "blocked", "stopped"}
  BY <1>1 DEF TypeOK
<1> QED BY <1>3, <1>4, <1>5, <1>7, <1>8

\* The swap keeps the channel tables typed.
LEMMA RunUpgradeProtocolType ==
    ASSUME TypeOK, NEW e \in Endpoint, NEW c \in Channel, NEW med \in Medium \cup {Unknown},
           NEW wr, RunUpgradeProtocol(e, c, med, wr)
    PROVE  /\ ecm' \in [Endpoint -> Channel \cup {None}]
           /\ chan' \in [Channel -> {"unused", "accepted", "open", "paused", "closed"}]
           /\ medium' \in [Channel -> Medium \cup {Unknown}]
           /\ wrapped' \in SUBSET Channel
           /\ prior' \in [Channel -> Channel \cup {None}]
           /\ previous' \in [Endpoint -> Channel \cup {None}]
           /\ latch' \in SUBSET Endpoint
           /\ owner' \in {"running", "blocked", "stopped"}
BY DEF TypeOK, RunUpgradeProtocol, Pause, TakeLatch

\* So does refusing an upgrade path.
LEMMA RunUpgradeFailedProtocolType ==
    ASSUME TypeOK, NEW e \in Endpoint, NEW cur \in Medium \cup {Unknown},
           RunUpgradeFailedProtocol(e, cur)
    PROVE  /\ chan' \in [Channel -> {"unused", "accepted", "open", "paused", "closed"}]
           /\ bwuMedium' \in [Endpoint -> Medium \cup {Unknown}]
           /\ inProgress' \in SUBSET Endpoint
           /\ active' \in [Handlers -> SUBSET Endpoint]
           /\ owner' \in {"running", "blocked", "stopped"}
<1>1. SetBwuMedium(e, cur) \in [Endpoint -> Medium \cup {Unknown}]
  BY SetBwuMediumType
<1>2. SetBwuMedium(e, Unknown) \in [Endpoint -> Medium \cup {Unknown}]
  BY SetBwuMediumType
<1>3. RevertActive(e, {cur}, ecm[e] \in wrapped) \in [Handlers -> SUBSET Endpoint]
  BY RevertActiveType
<1> QED BY <1>1, <1>2, <1>3 DEF TypeOK, RunUpgradeFailedProtocol

-------------------------------------------------------------------------------
(* Type correctness *)

\* Every command of the owner, and the accept loop, keeps the state typed.
LEMMA TypeStep == TypeOK /\ [Next]_vars => TypeOK'
<1> SUFFICES ASSUME TypeOK, [Next]_vars PROVE TypeOK'
  OBVIOUS
<1> USE DEF clientVars, channelVars, retryVars
<1>0. Unknown \in Medium \cup {Unknown} /\ 0 \in 0..MaxDelay
  BY ConstantsAssumption
<1>1. ASSUME NEW e \in Endpoint, NEW m \in Medium, InitiateBwu(e, m)
      PROVE  TypeOK'
  <2>1. SetBwuMedium(e, m) \in [Endpoint -> Medium \cup {Unknown}]
    BY SetBwuMediumType
  <2>2. CASE /\ m \notin Handlers \/ e \in inProgress
             /\ bwuMedium' = SetBwuMedium(e, m)
             /\ UNCHANGED <<inProgress, active, retryVars, owner>>
    BY <1>1, <2>1, <2>2 DEF InitiateBwu, TypeOK
  <2>3. CASE /\ m \in Handlers /\ e \notin inProgress /\ ~Reaches(e, m, FALSE)
             /\ bwuMedium' = SetBwuMedium(e, m)
             /\ alarm' = CancelRetryUpgradeAlarm(e)
             /\ UNCHANGED <<inProgress, active, delay, owner>>
    BY <1>0, <1>1, <2>1, <2>3 DEF InitiateBwu, TypeOK, CancelRetryUpgradeAlarm
  <2>4. ASSUME m \in Handlers, NEW out \in [Handlers -> Outcomes(e)],
               StopsAt(e, m, FALSE, out),
               bwuMedium' = SetBwuMedium(e, m),
               alarm' = CancelRetryUpgradeAlarm(e),
               active' = IF out[m] = "empty" THEN active
                         ELSE [active EXCEPT ![m] = @ \cup {e}],
               inProgress' = IF out[m] = "sent" THEN inProgress \cup {e} ELSE inProgress,
               owner' = IF out[m] = "blocked" THEN "blocked" ELSE owner,
               UNCHANGED delay
        PROVE  TypeOK'
    BY <1>0, <1>1, <2>1, <2>4 DEF InitiateBwu, TypeOK, CancelRetryUpgradeAlarm
  <2>5. ASSUME NEW out, TryNextBest(e, Untried(e, m), Unknown, {m}, FALSE, out, 0)
        PROVE  TypeOK'
    BY <1>0, <1>1, <2>5, TryNextBestType DEF InitiateBwu, TypeOK
  <2> QED BY <1>1, <2>2, <2>3, <2>4, <2>5 DEF InitiateBwu
<1>2. ASSUME NEW e \in Endpoint, ResetUpgrade(e) PROVE TypeOK'
  BY <1>2 DEF ResetUpgrade, TypeOK
<1>3. ASSUME NEW e \in Endpoint, NEW m, UpgradeFailure(e, m) PROVE TypeOK'
  <2>1. CASE Coarse
    BY <1>3, <2>1 DEF UpgradeFailure, TypeOK
  <2>2. ASSUME NEW out,
               TryNextBest(e, Untried(e, m), Unknown, {bwuMedium[e]}, FALSE, out, alarm[e])
        PROVE  TypeOK'
    <3>1. alarm[e] \in 0..MaxDelay BY DEF TypeOK
    <3> QED BY <1>0, <1>3, <2>2, <3>1, TryNextBestType DEF UpgradeFailure, TypeOK
  <2> QED BY <1>3, <2>1, <2>2 DEF UpgradeFailure
<1>4. ASSUME NEW e \in Endpoint, FireRetryAlarm(e) PROVE TypeOK'
  <2>1. CASE e \notin connected
    BY <1>0, <1>4, <2>1 DEF FireRetryAlarm, TypeOK
  <2>2. ASSUME NEW out,
               TryNextBest(e, Range(prefs[e]), bwuMedium[e], {}, e \in inProgress, out, 0)
        PROVE  TypeOK'
    <3>1. bwuMedium[e] \in Medium \cup {Unknown} BY DEF TypeOK
    <3> QED BY <1>0, <1>4, <2>2, <3>1, TryNextBestType DEF FireRetryAlarm, TypeOK
  <2> QED BY <1>4, <2>1, <2>2 DEF FireRetryAlarm
<1>5. ASSUME NEW c \in Channel, NEW m \in Handlers, AcceptSocket(c, m) PROVE TypeOK'
  BY <1>5, ConstantsAssumption DEF AcceptSocket, TypeOK
<1>6. ASSUME NEW c \in Channel, NEW id, OnIncomingConnection(c, id) PROVE TypeOK'
  <2>1. CASE /\ chan' = [chan EXCEPT ![c] = "closed"]
             /\ UNCHANGED <<ecm, medium, wrapped, prior, alarm, previous, latch, owner>>
    BY <1>6, <2>1 DEF OnIncomingConnection, TypeOK
  <2>2. ASSUME NEW e \in Targets(id), alarm' = CancelRetryUpgradeAlarm(e),
               RunUpgradeProtocol(e, c, medium[c], TRUE)
        PROVE  TypeOK'
    <3>1. e \in Endpoint /\ medium[c] \in Medium \cup {Unknown}
      BY <2>2 DEF Targets, TypeOK
    <3>2. alarm' \in [Endpoint -> 0..MaxDelay]
      BY <1>0, <2>2 DEF CancelRetryUpgradeAlarm, TypeOK
    <3> QED BY <1>6, <2>2, <3>1, <3>2, RunUpgradeProtocolType DEF OnIncomingConnection, TypeOK
  <2> QED BY <1>6, <2>1, <2>2 DEF OnIncomingConnection
<1>7. ASSUME NEW e \in Endpoint, LastWriteToPriorChannel(e) PROVE TypeOK'
  BY <1>7 DEF LastWriteToPriorChannel, TypeOK
<1>8. ASSUME NEW e \in Endpoint, SafeToClosePriorChannel(e) PROVE TypeOK'
  BY <1>8 DEF SafeToClosePriorChannel, TypeOK
<1>9. ASSUME NEW e \in Endpoint, NEW m \in Medium \cup {Unknown}, PathRefused(e, m)
      PROVE  TypeOK'
  <2>1. CASE RunUpgradeFailedProtocol(e, bwuMedium[e]) /\ UNCHANGED previous
    <3>1. bwuMedium[e] \in Medium \cup {Unknown} BY DEF TypeOK
    <3> QED BY <1>9, <2>1, <3>1, RunUpgradeFailedProtocolType DEF PathRefused, TypeOK
  <2>2. CASE /\ chan' = [c \in Channel |-> IF c \in {previous[e], ecm[e]} THEN "closed" ELSE chan[c]]
             /\ previous' = [previous EXCEPT ![e] = None]
             /\ UNCHANGED <<bwuMedium, inProgress, active, owner>>
    BY <1>9, <2>2 DEF PathRefused, TypeOK
  <2>3. CASE /\ RunUpgradeFailedProtocol(e, IF bwuMedium[e] = Unknown THEN m ELSE bwuMedium[e])
             /\ UNCHANGED previous
    <3>1. (IF bwuMedium[e] = Unknown THEN m ELSE bwuMedium[e]) \in Medium \cup {Unknown}
      BY DEF TypeOK
    <3> QED BY <1>9, <2>3, <3>1, RunUpgradeFailedProtocolType DEF PathRefused, TypeOK
  <2> QED BY <1>9, <2>1, <2>2, <2>3 DEF PathRefused
<1>10. ASSUME NEW e \in Endpoint, NEW m \in Handlers, NEW c \in Channel, PathJoined(e, m, c)
       PROVE  TypeOK'
  <2>1. m \in Medium \cup {Unknown} BY ConstantsAssumption
  <2>2. SetBwuMedium(e, m) \in [Endpoint -> Medium \cup {Unknown}]
    BY <2>1, SetBwuMediumType
  <2>3. RunUpgradeProtocol(e, c, m, ecm[e] \in wrapped)
    BY <1>10 DEF PathJoined
  <2> QED BY <1>10, <2>1, <2>2, <2>3, RunUpgradeProtocolType DEF PathJoined, TypeOK
<1>11. ASSUME NEW e \in Endpoint, NEW c \in Channel, NEW m \in BaseMedium, Connect(e, c, m)
       PROVE  TypeOK'
  BY <1>11, ConstantsAssumption DEF Connect, TypeOK
<1>12. ASSUME NEW e \in Endpoint, ConnectionAccepted(e) PROVE TypeOK'
  BY <1>12 DEF ConnectionAccepted, TypeOK
<1>13. ASSUME NEW e \in Endpoint, NEW p \in PrefLists, SetUpgradeMediums(e, p) PROVE TypeOK'
  BY <1>13 DEF SetUpgradeMediums, TypeOK
<1>14. ASSUME NEW e \in Endpoint, Unregister(e) PROVE TypeOK'
  BY <1>14 DEF Unregister, TypeOK
<1>15. ASSUME NEW e \in Endpoint, NEW wr \in BOOLEAN, OnEndpointDisconnect(e, wr) PROVE TypeOK'
  <2>1. /\ SetBwuMedium(e, Unknown) \in [Endpoint -> Medium \cup {Unknown}]
        /\ RevertActive(e, {bwuMedium[e]}, wr) \in [Handlers -> SUBSET Endpoint]
    BY SetBwuMediumType, RevertActiveType
  <2> QED BY <1>0, <1>15, <2>1 DEF OnEndpointDisconnect, ForgetUpgrade, TypeOK
<1>16. ASSUME NEW e \in Endpoint, Disconnected(e) PROVE TypeOK'
  BY <1>16 DEF Disconnected, TypeOK
<1>17. CASE Shutdown
  BY <1>0, <1>17 DEF Shutdown, TypeOK
<1>18. CASE UNCHANGED vars
  BY <1>18 DEF vars, TypeOK
<1> QED
  BY <1>1, <1>2, <1>3, <1>4, <1>5, <1>6, <1>7, <1>8, <1>9, <1>10, <1>11, <1>12, <1>13,
     <1>14, <1>15, <1>16, <1>17, <1>18 DEF Next, OnFrame, Consumer, Sockets

\* Type correctness of the state machine, in particular that no retry delay ever
\* exceeds the configured maximum.
THEOREM TypeCorrect == Spec => []TypeOK
<1>1. Init => TypeOK
  BY ConstantsAssumption DEF Init, TypeOK
<1> QED BY <1>1, TypeStep, PTL DEF Spec

-------------------------------------------------------------------------------
(* The swap invariant *)

\* A command that leaves the channels, the parked channels and the latch alone keeps the
\* swap invariant, as long as it starts upgrades only for endpoints with a channel.
LEMMA SwapFrame ==
    ASSUME SwapInv, UNCHANGED <<stage, ecm, chan, prior, previous, latch, reported>>,
           owner' = "running" => owner = "running",
           \A e \in Endpoint : e \in inProgress' => e \in inProgress \/ ecm[e] # None
    PROVE  SwapInv'
BY DEF SwapInv, NoInterleavedChannels, ParkedUnderItsSuccessor, LatchConsumedByParking,
       DiscardedIsClean, ReferencesDistinct, FreshUnreferenced, RegisteredIsUp,
       ReportedNotPaused

\* The failover chain starts an upgrade only for its endpoint, and only on its channel.
LEMMA TryNextBestStarts ==
    ASSUME NEW e \in Endpoint, NEW L, NEW cur, NEW reverted, NEW busy, NEW out, NEW pending,
           TryNextBest(e, L, cur, reverted, busy, out, pending)
    PROVE  /\ \A f \in Endpoint : f \in inProgress' => f \in inProgress \/ ecm[f] # None
           /\ owner' = "running" => owner = "running"
BY DEF TryNextBest, Reaches

\* Swapping a fresh channel in, whatever becomes of LAST_WRITE, keeps the swap invariant.
LEMMA SwapRunUpgradeProtocol ==
    ASSUME TypeOK, SwapInv, owner = "running", NEW e \in Endpoint, NEW c \in Channel,
           chan[c] \in {"unused", "accepted"}, NEW med, NEW wr,
           RunUpgradeProtocol(e, c, med, wr), UNCHANGED <<stage, reported>>,
           \A f \in Endpoint : f \in inProgress' => f \in inProgress \/ ecm[f] # None
    PROVE  SwapInv'
<1> USE DEF SwapInv
<1>1. None \notin Channel
  BY ConstantsAssumption
<1>2. CASE ecm[e] = None
  <2>1. /\ chan' = [chan EXCEPT ![c] = "paused"]
        /\ UNCHANGED <<ecm, prior, previous, latch, owner>>
    BY <1>2 DEF RunUpgradeProtocol, Pause
  <2> QED
    BY <2>1 DEF TypeOK, NoInterleavedChannels, ParkedUnderItsSuccessor, LatchConsumedByParking,
       DiscardedIsClean, ReferencesDistinct, FreshUnreferenced, RegisteredIsUp,
       ReportedNotPaused
<1>3. CASE ecm[e] # None
  <2> DEFINE old == ecm[e]
  <2>1. /\ old \in Channel /\ old # c /\ chan[old] \notin {"unused", "accepted"}
        /\ ecm' = [ecm EXCEPT ![e] = c]
        /\ prior' = [prior EXCEPT ![c] = old]
    BY <1>3 DEF RunUpgradeProtocol, TypeOK, FreshUnreferenced
  <2>2. \/ /\ chan' = [chan EXCEPT ![c] = "paused"]
           /\ previous' = previous /\ latch' = latch
           /\ owner' = "running" => previous[e] = None
        \/ /\ chan' = [chan EXCEPT ![c] = "paused"]
           /\ chan[old] = "open"
           /\ previous' = [previous EXCEPT ![e] = old] /\ latch' = latch \ {e}
        \/ /\ chan' = [chan EXCEPT ![c] = "paused", ![old] = "closed"]
           /\ chan[old] = "open"
           /\ previous' = [previous EXCEPT ![e] = None] /\ latch' = latch \ {e}
    BY <1>3 DEF RunUpgradeProtocol, WriteResults, Pause, TakeLatch, ParkedUnderItsSuccessor
  <2>3. stage' = stage /\ stage[e] = "up"
    BY <1>3 DEF RegisteredIsUp
  <2>4. previous[e] # None => chan[old] = "paused"
    BY <1>3 DEF ParkedUnderItsSuccessor
  <2> HIDE DEF old
  <2> USE <1>1, <2>1, <2>2, <2>3
  <2>5. NoInterleavedChannels'
    <3> SUFFICES ASSUME NEW d \in Channel, prior'[d] # None, chan'[d] = "open"
                 PROVE  chan'[prior'[d]] = "closed"
      BY DEF NoInterleavedChannels
    <3>1. chan'[c] = "paused" /\ \A x \in Channel \ {c} : chan'[x] \in {chan[x], "closed"}
      BY DEF TypeOK
    <3>2. d # c /\ prior'[d] = prior[d] /\ chan[d] = "open"
      BY <3>1 DEF TypeOK
    <3>3. prior[d] \in Channel /\ prior[d] # c /\ chan[prior[d]] = "closed"
      BY <3>2 DEF TypeOK, FreshUnreferenced, NoInterleavedChannels
    <3> QED BY <3>1, <3>2, <3>3
  <2>6. FreshUnreferenced'
    BY DEF TypeOK, FreshUnreferenced
  <2>7. ReferencesDistinct'
    BY DEF TypeOK, FreshUnreferenced, ReferencesDistinct, old
  <2>8. ParkedUnderItsSuccessor'
    BY <2>4 DEF TypeOK, ParkedUnderItsSuccessor, FreshUnreferenced, ReferencesDistinct, old
  <2>9. LatchConsumedByParking'
    BY DEF TypeOK, LatchConsumedByParking
  <2>10. DiscardedIsClean'
    BY DEF TypeOK, DiscardedIsClean, RegisteredIsUp
  <2>11. RegisteredIsUp'
    BY DEF TypeOK, RegisteredIsUp
  <2>12. ReportedNotPaused'
    BY DEF TypeOK, ReportedNotPaused
  <2> QED BY <2>5, <2>6, <2>7, <2>8, <2>9, <2>10, <2>11, <2>12
<1> QED BY <1>2, <1>3

\* Refusing an upgrade path closes at most the endpoint's own, unparked channel.
LEMMA SwapRunUpgradeFailedProtocol ==
    ASSUME TypeOK, SwapInv, owner = "running", NEW e \in Endpoint, NEW cur,
           RunUpgradeFailedProtocol(e, cur), UNCHANGED <<stage, ecm, prior, previous, latch, reported>>
    PROVE  SwapInv'
<1>1. inProgress' \subseteq inProgress
  BY DEF RunUpgradeFailedProtocol
<1>2. CASE UNCHANGED chan
  BY <1>1, <1>2, SwapFrame
<1>3. CASE /\ ecm[e] # None /\ chan[ecm[e]] # "paused"
           /\ chan' = [chan EXCEPT ![ecm[e]] = "closed"]
           /\ UNCHANGED owner
  BY <1>1, <1>3 DEF SwapInv, TypeOK, NoInterleavedChannels, ParkedUnderItsSuccessor,
     LatchConsumedByParking, DiscardedIsClean, ReferencesDistinct, FreshUnreferenced,
     RegisteredIsUp, ReportedNotPaused
<1> QED BY <1>2, <1>3 DEF RunUpgradeFailedProtocol

\* Closing the parked channel and forgetting it keeps the swap invariant.
LEMMA SwapCloseParked ==
    ASSUME TypeOK, SwapInv, NEW e \in Endpoint, previous[e] # None,
           chan' = [chan EXCEPT ![previous[e]] = "closed"],
           previous' = [previous EXCEPT ![e] = None],
           UNCHANGED <<stage, ecm, prior, latch, reported, inProgress, owner>>
    PROVE  SwapInv'
<1>1. /\ previous[e] \in Channel /\ None \notin Channel
      /\ chan[previous[e]] = "open"
  BY ConstantsAssumption DEF SwapInv, TypeOK, ParkedUnderItsSuccessor
<1>2. NoInterleavedChannels'
  BY <1>1 DEF SwapInv, TypeOK, NoInterleavedChannels
<1>3. ParkedUnderItsSuccessor'
  BY <1>1 DEF SwapInv, TypeOK, ParkedUnderItsSuccessor, ReferencesDistinct
<1>4. ReferencesDistinct' /\ FreshUnreferenced' /\ RegisteredIsUp'
  BY <1>1 DEF SwapInv, TypeOK, ReferencesDistinct, FreshUnreferenced, RegisteredIsUp
<1>5. LatchConsumedByParking' /\ DiscardedIsClean' /\ ReportedNotPaused'
  BY <1>1 DEF SwapInv, TypeOK, LatchConsumedByParking, DiscardedIsClean, ReportedNotPaused
<1> QED BY <1>2, <1>3, <1>4, <1>5 DEF SwapInv

\* Every step keeps the swap invariant.
LEMMA SwapStep == TypeOK /\ SwapInv /\ [Next]_vars => SwapInv'
<1> SUFFICES ASSUME TypeOK, SwapInv, [Next]_vars PROVE SwapInv'
  OBVIOUS
<1> USE DEF clientVars, channelVars, retryVars
<1>0. None \notin Channel
  BY ConstantsAssumption
<1>1. ASSUME NEW e \in Endpoint, NEW m \in Medium, InitiateBwu(e, m)
      PROVE  SwapInv'
  <2>1. UNCHANGED <<stage, ecm, chan, prior, previous, latch, reported>>
    BY <1>1 DEF InitiateBwu
  <2>2. /\ owner' = "running" => owner = "running"
        /\ \A f \in Endpoint : f \in inProgress' => f \in inProgress \/ ecm[f] # None
    BY <1>1, TryNextBestStarts DEF InitiateBwu, Reaches
  <2> QED BY <2>1, <2>2, SwapFrame
<1>2. ASSUME NEW e \in Endpoint, ResetUpgrade(e) PROVE SwapInv'
  BY <1>2, SwapFrame DEF ResetUpgrade
<1>3. ASSUME NEW e \in Endpoint, NEW m, UpgradeFailure(e, m) PROVE SwapInv'
  <2>1. /\ owner' = "running" => owner = "running"
        /\ \A f \in Endpoint : f \in inProgress' => f \in inProgress \/ ecm[f] # None
    BY <1>3, TryNextBestStarts DEF UpgradeFailure
  <2> QED BY <1>3, <2>1, SwapFrame DEF UpgradeFailure
<1>4. ASSUME NEW e \in Endpoint, FireRetryAlarm(e) PROVE SwapInv'
  <2>1. /\ owner' = "running" => owner = "running"
        /\ \A f \in Endpoint : f \in inProgress' => f \in inProgress \/ ecm[f] # None
    BY <1>4, TryNextBestStarts DEF FireRetryAlarm
  <2> QED BY <1>4, <2>1, SwapFrame DEF FireRetryAlarm
<1>5. ASSUME NEW c \in Channel, NEW m \in Handlers, AcceptSocket(c, m) PROVE SwapInv'
  BY <1>5 DEF AcceptSocket, SwapInv, TypeOK, NoInterleavedChannels, ParkedUnderItsSuccessor,
     LatchConsumedByParking, DiscardedIsClean, ReferencesDistinct, FreshUnreferenced,
     RegisteredIsUp, ReportedNotPaused
<1>6. ASSUME NEW c \in Channel, NEW id, OnIncomingConnection(c, id) PROVE SwapInv'
  <2>1. CASE /\ chan' = [chan EXCEPT ![c] = "closed"]
             /\ UNCHANGED <<ecm, medium, wrapped, prior, alarm, previous, latch, owner>>
    BY <1>6, <2>1 DEF OnIncomingConnection, SwapInv, TypeOK, NoInterleavedChannels,
       ParkedUnderItsSuccessor, LatchConsumedByParking, DiscardedIsClean, ReferencesDistinct,
       FreshUnreferenced, RegisteredIsUp, ReportedNotPaused
  <2>2. ASSUME NEW e \in Targets(id), RunUpgradeProtocol(e, c, medium[c], TRUE)
        PROVE  SwapInv'
    <3>1. e \in Endpoint
      BY <2>2 DEF Targets, TypeOK
    <3>2. /\ owner = "running" /\ chan[c] \in {"unused", "accepted"}
          /\ UNCHANGED <<stage, reported, inProgress>>
      BY <1>6 DEF OnIncomingConnection
    <3> QED BY <2>2, <3>1, <3>2, SwapRunUpgradeProtocol
  <2> QED BY <1>6, <2>1, <2>2 DEF OnIncomingConnection
<1>7. ASSUME NEW e \in Endpoint, LastWriteToPriorChannel(e) PROVE SwapInv'
  <2>1. CASE previous[e] = None
    BY <1>7, <2>1 DEF LastWriteToPriorChannel, SwapInv, NoInterleavedChannels,
       ParkedUnderItsSuccessor, LatchConsumedByParking, DiscardedIsClean, ReferencesDistinct,
       FreshUnreferenced, RegisteredIsUp, ReportedNotPaused
  <2>2. CASE previous[e] # None
    BY <1>7, <2>2, SwapCloseParked DEF LastWriteToPriorChannel
  <2> QED BY <2>1, <2>2
<1>8. ASSUME NEW e \in Endpoint, SafeToClosePriorChannel(e) PROVE SwapInv'
  <2>1. CASE ecm[e] = None
    BY <1>8, <2>1, SwapCloseParked DEF SafeToClosePriorChannel
  <2>2. CASE ecm[e] # None
    \* The registered channel is the paused successor of the one being closed.
    <3>1. /\ chan[ecm[e]] = "paused" /\ prior[ecm[e]] = previous[e]
          /\ chan[previous[e]] = "open" /\ previous[e] # ecm[e]
          /\ previous[e] \in Channel /\ ecm[e] \in Channel
      BY <1>8, <2>2 DEF SafeToClosePriorChannel, SwapInv, TypeOK, ParkedUnderItsSuccessor
    <3>2. /\ chan' = [chan EXCEPT ![previous[e]] = "closed", ![ecm[e]] = "open"]
          /\ previous' = [previous EXCEPT ![e] = None]
          /\ reported' = reported \cup {ecm[e]}
          /\ inProgress' = inProgress \ {e}
          /\ UNCHANGED <<stage, ecm, prior, latch, owner>>
      BY <1>8, <2>2 DEF SafeToClosePriorChannel
    <3>3. NoInterleavedChannels'
      BY <3>1, <3>2 DEF SwapInv, TypeOK, NoInterleavedChannels, FreshUnreferenced
    <3>4. ParkedUnderItsSuccessor'
      BY <3>1, <3>2 DEF SwapInv, TypeOK, ParkedUnderItsSuccessor, ReferencesDistinct
    <3>5. ReferencesDistinct' /\ FreshUnreferenced' /\ RegisteredIsUp'
      BY <3>1, <3>2 DEF SwapInv, TypeOK, ReferencesDistinct, FreshUnreferenced, RegisteredIsUp
    <3>6. LatchConsumedByParking' /\ DiscardedIsClean' /\ ReportedNotPaused'
      BY <3>1, <3>2 DEF SwapInv, TypeOK, LatchConsumedByParking, DiscardedIsClean, ReportedNotPaused
    <3> QED BY <3>3, <3>4, <3>5, <3>6 DEF SwapInv
  <2> QED BY <2>1, <2>2
<1>9. ASSUME NEW e \in Endpoint, NEW m \in Medium \cup {Unknown}, PathRefused(e, m)
      PROVE  SwapInv'
  <2>1. ASSUME NEW cur, RunUpgradeFailedProtocol(e, cur), UNCHANGED previous
        PROVE  SwapInv'
    BY <1>9, <2>1, SwapRunUpgradeFailedProtocol DEF PathRefused
  <2>2. CASE /\ chan' = [c \in Channel |-> IF c \in {previous[e], ecm[e]} THEN "closed" ELSE chan[c]]
             /\ previous' = [previous EXCEPT ![e] = None]
             /\ UNCHANGED <<bwuMedium, inProgress, active, owner>>
    <3>1. UNCHANGED <<stage, ecm, prior, latch, reported, inProgress, owner>>
      BY <1>9, <2>2 DEF PathRefused
    <3>2. NoInterleavedChannels' /\ FreshUnreferenced'
      BY <1>0, <2>2, <3>1 DEF SwapInv, TypeOK, NoInterleavedChannels, FreshUnreferenced
    <3>3. ParkedUnderItsSuccessor'
      BY <2>2, <3>1 DEF SwapInv, TypeOK, ParkedUnderItsSuccessor, ReferencesDistinct
    <3>4. ReferencesDistinct' /\ RegisteredIsUp'
      BY <2>2, <3>1 DEF SwapInv, TypeOK, ReferencesDistinct, RegisteredIsUp
    <3>5. LatchConsumedByParking' /\ DiscardedIsClean' /\ ReportedNotPaused'
      BY <2>2, <3>1 DEF SwapInv, TypeOK, LatchConsumedByParking, DiscardedIsClean, ReportedNotPaused
    <3> QED BY <3>2, <3>3, <3>4, <3>5 DEF SwapInv
  <2> QED BY <1>9, <2>1, <2>2 DEF PathRefused
<1>10. ASSUME NEW e \in Endpoint, NEW m \in Handlers, NEW c \in Channel, PathJoined(e, m, c)
       PROVE  SwapInv'
  <2>1. /\ owner = "running" /\ chan[c] \in {"unused", "accepted"}
        /\ UNCHANGED <<stage, reported>>
        /\ \A f \in Endpoint : f \in inProgress' => f \in inProgress \/ ecm[f] # None
    BY <1>10 DEF PathJoined
  <2>2. RunUpgradeProtocol(e, c, m, ecm[e] \in wrapped)
    BY <1>10 DEF PathJoined
  <2> QED BY <2>1, <2>2, SwapRunUpgradeProtocol
<1>11. ASSUME NEW e \in Endpoint, NEW c \in Channel, NEW m \in BaseMedium, Connect(e, c, m)
       PROVE  SwapInv'
  <2>1. /\ chan[c] = "unused" /\ ecm[e] = None /\ previous[e] = None /\ e \notin latch
        /\ e \notin inProgress /\ prior[c] = None
    BY <1>11 DEF Connect, SwapInv, DiscardedIsClean, FreshUnreferenced
  <2> QED
    BY <1>0, <1>11, <2>1 DEF Connect, SwapInv, TypeOK, NoInterleavedChannels,
       ParkedUnderItsSuccessor, LatchConsumedByParking, DiscardedIsClean, ReferencesDistinct,
       FreshUnreferenced, RegisteredIsUp, ReportedNotPaused
<1>12. ASSUME NEW e \in Endpoint, ConnectionAccepted(e) PROVE SwapInv'
  BY <1>12, SwapFrame DEF ConnectionAccepted
<1>13. ASSUME NEW e \in Endpoint, NEW p \in PrefLists, SetUpgradeMediums(e, p) PROVE SwapInv'
  BY <1>13, SwapFrame DEF SetUpgradeMediums
<1>14. ASSUME NEW e \in Endpoint, Unregister(e) PROVE SwapInv'
  BY <1>14 DEF Unregister, SwapInv, TypeOK, NoInterleavedChannels, ParkedUnderItsSuccessor,
     LatchConsumedByParking, DiscardedIsClean, ReferencesDistinct, FreshUnreferenced,
     RegisteredIsUp, ReportedNotPaused
<1>15. ASSUME NEW e \in Endpoint, NEW wr \in BOOLEAN, OnEndpointDisconnect(e, wr) PROVE SwapInv'
  <2>1. ecm[e] = None /\ (previous[e] # None => previous[e] \in Channel)
    BY <1>15 DEF OnEndpointDisconnect, SwapInv, RegisteredIsUp, TypeOK
  <2> QED
    BY <1>15, <2>1 DEF OnEndpointDisconnect, ForgetUpgrade, SwapInv, TypeOK,
       NoInterleavedChannels, ParkedUnderItsSuccessor, LatchConsumedByParking,
       DiscardedIsClean, ReferencesDistinct, FreshUnreferenced, RegisteredIsUp,
       ReportedNotPaused
<1>16. ASSUME NEW e \in Endpoint, Disconnected(e) PROVE SwapInv'
  BY <1>16 DEF Disconnected, SwapInv, TypeOK, NoInterleavedChannels, ParkedUnderItsSuccessor,
     LatchConsumedByParking, DiscardedIsClean, ReferencesDistinct, FreshUnreferenced,
     RegisteredIsUp, ReportedNotPaused
<1>17. CASE Shutdown
  BY <1>0, <1>17 DEF Shutdown, SwapInv, TypeOK, NoInterleavedChannels, ParkedUnderItsSuccessor,
     LatchConsumedByParking, DiscardedIsClean, ReferencesDistinct, FreshUnreferenced,
     RegisteredIsUp, ReportedNotPaused
<1>18. CASE UNCHANGED vars
  BY <1>18, SwapFrame DEF vars
<1> QED
  BY <1>1, <1>2, <1>3, <1>4, <1>5, <1>6, <1>7, <1>8, <1>9, <1>10, <1>11, <1>12, <1>13,
     <1>14, <1>15, <1>16, <1>17, <1>18 DEF Next, OnFrame, Consumer, Sockets

\* The swap invariant always holds.
THEOREM SwapInvariant == Spec => []SwapInv
<1>1. Init => SwapInv
  BY ConstantsAssumption DEF Init, SwapInv, NoInterleavedChannels, ParkedUnderItsSuccessor,
     LatchConsumedByParking, DiscardedIsClean, ReferencesDistinct, FreshUnreferenced,
     RegisteredIsUp, ReportedNotPaused
<1> QED BY <1>1, TypeCorrect, SwapStep, PTL DEF Spec

\* An upgraded channel carries no payload before the channel it displaced is closed
\* (run_upgrade_protocol, process_safe_to_close_prior_channel_event).
THEOREM NeverInterleaved == Spec => []NoInterleavedChannels
BY SwapInvariant, PTL DEF SwapInv

\* A parked channel is open, and SAFE_TO_CLOSE resumes the channel that displaced it.
THEOREM ParkedSafe == Spec => []ParkedUnderItsSuccessor
BY SwapInvariant, PTL DEF SwapInv

\* A latched LAST_WRITE and a parked channel never coexist.
THEOREM LatchSafe == Spec => []LatchConsumedByParking
BY SwapInvariant, PTL DEF SwapInv

\* A discarded endpoint leaves no upgrade behind for a reconnect to inherit.
THEOREM DiscardSafe == Spec => []DiscardedIsClean
BY SwapInvariant, PTL DEF SwapInv

\* A bandwidth change is reported only by the SAFE_TO_CLOSE that closes the channel the
\* reported one displaced.
THEOREM ReportsOnlyTheSwap == Spec => ReportsTheSwap
<1> DEFINE Rep ==
      reported' # reported =>
        \E e \in Endpoint :
            /\ previous[e] # None /\ previous'[e] = None /\ chan'[previous[e]] = "closed"
            /\ prior[ecm[e]] = previous[e] /\ chan'[ecm[e]] = "open"
            /\ ecm[e] \notin reported /\ reported' = reported \cup {ecm[e]}
<1>1. ASSUME TypeOK, SwapInv, NEW e \in Endpoint, SafeToClosePriorChannel(e) PROVE Rep
  <2>1. CASE ecm[e] = None
    BY <1>1, <2>1 DEF SafeToClosePriorChannel
  <2>2. CASE ecm[e] # None
    <3>1. /\ previous[e] # None /\ previous[e] \in Channel /\ ecm[e] \in Channel
          /\ chan[ecm[e]] = "paused" /\ prior[ecm[e]] = previous[e] /\ previous[e] # ecm[e]
      BY <1>1, <2>2 DEF SafeToClosePriorChannel, SwapInv, ParkedUnderItsSuccessor, TypeOK,
         ReferencesDistinct
    <3>2. ecm[e] \notin reported
      BY <1>1, <3>1 DEF SwapInv, ReportedNotPaused
    <3>3. /\ previous'[e] = None /\ chan'[previous[e]] = "closed" /\ chan'[ecm[e]] = "open"
          /\ reported' = reported \cup {ecm[e]}
      BY <1>1, <2>2, <3>1 DEF SafeToClosePriorChannel, TypeOK
    <3> QED BY <3>1, <3>2, <3>3
  <2> QED BY <2>1, <2>2
<1>2. ASSUME [Next]_vars, reported' # reported
      PROVE  \E e \in Endpoint : SafeToClosePriorChannel(e)
  <2> USE DEF clientVars, channelVars
  <2>1. ASSUME NEW e \in Endpoint, OnFrame(e), ~SafeToClosePriorChannel(e) PROVE reported' = reported
    BY <2>1 DEF OnFrame, UpgradeFailure, PathRefused, PathJoined, LastWriteToPriorChannel
  <2>2. ASSUME NEW e \in Endpoint, Consumer(e) \/ FireRetryAlarm(e) PROVE reported' = reported
    BY <2>2 DEF Consumer, Connect, ConnectionAccepted, SetUpgradeMediums, InitiateBwu, ResetUpgrade,
       Unregister, OnEndpointDisconnect, Disconnected, FireRetryAlarm
  <2>3. ASSUME NEW c \in Channel, Sockets(c) PROVE reported' = reported
    BY <2>3 DEF Sockets, AcceptSocket, OnIncomingConnection
  <2>4. Shutdown \/ UNCHANGED vars => reported' = reported
    BY DEF Shutdown, vars
  <2> QED BY <1>2, <2>1, <2>2, <2>3, <2>4 DEF Next
<1>3. TypeOK /\ SwapInv /\ [Next]_vars => [Rep]_vars
  BY <1>1, <1>2
<1> QED BY <1>3, TypeCorrect, SwapInvariant, PTL DEF Spec, ReportsTheSwap

-------------------------------------------------------------------------------
(* Where the owner may block *)

\* The endpoint's channel is a paused one that displaced another, and was not reported.
Unfinished(e) ==
    /\ ecm[e] # None /\ chan[ecm[e]] = "paused"
    /\ prior[ecm[e]] # None /\ ecm[e] \notin reported

\* Whatever waits on an endpoint's channel waits on an unfinished swap.
LEMMA PausedUnfinished ==
    ASSUME SwapInv, BlockInv, NEW e \in Endpoint, ecm[e] # None, chan[ecm[e]] = "paused"
    PROVE  Unfinished(e)
BY DEF SwapInv, BlockInv, PausedDisplaced, ReportedNotPaused, Unfinished

\* The failover chain blocks only in an offer on a paused channel.
LEMMA TryNextBestBlocks ==
    ASSUME NEW e \in Endpoint, NEW L, NEW cur, NEW reverted, NEW busy, NEW pending,
           NEW out \in [Handlers -> Outcomes(e)], owner = "running",
           TryNextBest(e, L, cur, reverted, busy, out, pending), owner' = "blocked"
    PROVE  ecm[e] # None /\ chan[ecm[e]] = "paused"
<1>1. PICK m \in Handlers : out[m] = "blocked"
  BY DEF TryNextBest
<1> QED BY <1>1 DEF Outcomes

\* A command that leaves the channels alone blocks only on a paused one.
LEMMA BlockFrame ==
    ASSUME SwapInv, BlockInv, UNCHANGED <<ecm, chan, prior, reported>>,
           owner' = "blocked" =>
              owner = "blocked" \/ \E e \in Endpoint : ecm[e] # None /\ chan[ecm[e]] = "paused"
    PROVE  BlockInv'
<1>1. owner' = "blocked" => \E e \in Endpoint : Unfinished(e)
  BY PausedUnfinished DEF BlockInv, BlockedOnlyInSwap, Unfinished
<1> QED BY <1>1 DEF BlockInv, PausedDisplaced, BlockedOnlyInSwap, Unfinished

\* A running owner's command that closes, resumes or opens channels, without blocking.
LEMMA BlockRunning ==
    ASSUME BlockInv, owner' # "blocked",
           \A e \in Endpoint : ecm'[e] # None /\ chan'[ecm'[e]] = "paused" =>
              ecm'[e] = ecm[e] /\ chan[ecm[e]] = "paused" /\ prior' = prior
    PROVE  BlockInv'
BY DEF BlockInv, PausedDisplaced, BlockedOnlyInSwap

\* The swap pauses the channel that it puts in place of another.
LEMMA BlockRunUpgradeProtocol ==
    ASSUME TypeOK, SwapInv, BlockInv, owner = "running", NEW e \in Endpoint, NEW c \in Channel,
           chan[c] \in {"unused", "accepted"}, NEW med, NEW wr,
           RunUpgradeProtocol(e, c, med, wr), UNCHANGED reported
    PROVE  BlockInv'
<1>0. None \notin Channel
  BY ConstantsAssumption
<1>1. /\ c \notin reported
      /\ \A f \in Endpoint : ecm[f] # c
  BY DEF SwapInv, ReportedNotPaused, FreshUnreferenced
<1>2. CASE ecm[e] = None
  BY <1>0, <1>1, <1>2 DEF RunUpgradeProtocol, Pause, TypeOK, BlockInv, PausedDisplaced, BlockedOnlyInSwap
<1>3. CASE ecm[e] # None
  <2>1. /\ ecm' = [ecm EXCEPT ![e] = c] /\ prior' = [prior EXCEPT ![c] = ecm[e]]
        /\ chan'[c] = "paused"
        /\ \A d \in Channel \ {c} : chan'[d] \in {chan[d], "closed"}
    <3>1. ecm[e] # c
      BY <1>1
    <3> QED BY <1>3, <3>1 DEF RunUpgradeProtocol, Pause, TypeOK
  <2>2. Unfinished(e)'
    BY <1>0, <1>1, <1>3, <2>1 DEF Unfinished, TypeOK
  <2>3. PausedDisplaced'
    <3> SUFFICES ASSUME NEW f \in Endpoint, ecm'[f] # None, chan'[ecm'[f]] = "paused"
                 PROVE  prior'[ecm'[f]] # None
      BY DEF PausedDisplaced
    <3>1. CASE f = e
      BY <2>2, <3>1 DEF Unfinished
    <3>2. CASE f # e
      <4>1. ecm'[f] = ecm[f] /\ ecm[f] \in Channel /\ ecm[f] # c
        BY <1>1, <2>1, <3>2 DEF TypeOK
      <4>2. chan[ecm[f]] = "paused" /\ prior'[ecm[f]] = prior[ecm[f]]
        BY <2>1, <4>1 DEF TypeOK
      <4> QED BY <4>1, <4>2 DEF BlockInv, PausedDisplaced
    <3> QED BY <3>1, <3>2
  <2> QED BY <2>2, <2>3 DEF BlockInv, BlockedOnlyInSwap, Unfinished
<1> QED BY <1>2, <1>3

\* Every step keeps the invariant.
LEMMA BlockStep == TypeOK /\ SwapInv /\ BlockInv /\ [Next]_vars => BlockInv'
<1> SUFFICES ASSUME TypeOK, SwapInv, BlockInv, [Next]_vars PROVE BlockInv'
  OBVIOUS
<1> USE DEF clientVars, channelVars, retryVars
<1>0. None \notin Channel
  BY ConstantsAssumption
<1>1. ASSUME NEW e \in Endpoint, NEW m \in Medium, InitiateBwu(e, m) PROVE BlockInv'
  <2>1. UNCHANGED <<ecm, chan, prior, reported>> /\ owner = "running"
    BY <1>1 DEF InitiateBwu
  <2>2. ASSUME owner' = "blocked" PROVE ecm[e] # None /\ chan[ecm[e]] = "paused"
    <3>1. PICK out \in [Handlers -> Outcomes(e)] :
            \/ m \in Handlers /\ out[m] = "blocked"
            \/ TryNextBest(e, Untried(e, m), Unknown, {m}, FALSE, out, 0)
      BY <1>1, <2>1, <2>2 DEF InitiateBwu
    <3>2. CASE m \in Handlers /\ out[m] = "blocked"
      BY <3>2 DEF Outcomes
    <3>3. CASE TryNextBest(e, Untried(e, m), Unknown, {m}, FALSE, out, 0)
      BY <2>1, <2>2, <3>3, TryNextBestBlocks
    <3> QED BY <3>1, <3>2, <3>3
  <2> QED BY <2>1, <2>2, BlockFrame
<1>2. ASSUME NEW e \in Endpoint, ResetUpgrade(e) PROVE BlockInv'
  BY <1>2, BlockFrame DEF ResetUpgrade
<1>3. ASSUME NEW e \in Endpoint, NEW m, UpgradeFailure(e, m) PROVE BlockInv'
  <2>1. UNCHANGED <<ecm, chan, prior, reported>> /\ owner = "running"
    BY <1>3 DEF UpgradeFailure
  <2>2. owner' = "blocked" => ecm[e] # None /\ chan[ecm[e]] = "paused"
    BY <1>3, <2>1, TryNextBestBlocks DEF UpgradeFailure
  <2> QED BY <2>1, <2>2, BlockFrame
<1>4. ASSUME NEW e \in Endpoint, FireRetryAlarm(e) PROVE BlockInv'
  <2>1. UNCHANGED <<ecm, chan, prior, reported>> /\ owner = "running"
    BY <1>4 DEF FireRetryAlarm
  <2>2. owner' = "blocked" => ecm[e] # None /\ chan[ecm[e]] = "paused"
    BY <1>4, <2>1, TryNextBestBlocks DEF FireRetryAlarm
  <2> QED BY <2>1, <2>2, BlockFrame
<1>5. ASSUME NEW c \in Channel, NEW m \in Handlers, AcceptSocket(c, m) PROVE BlockInv'
  <2>1. /\ UNCHANGED <<ecm, prior, reported, owner>> /\ chan' = [chan EXCEPT ![c] = "accepted"]
        /\ \A f \in Endpoint : ecm[f] # c
    BY <1>5 DEF AcceptSocket, SwapInv, FreshUnreferenced
  <2> QED BY <2>1 DEF TypeOK, BlockInv, PausedDisplaced, BlockedOnlyInSwap
<1>6. ASSUME NEW c \in Channel, NEW id, OnIncomingConnection(c, id) PROVE BlockInv'
  <2>1. CASE /\ chan' = [chan EXCEPT ![c] = "closed"]
             /\ UNCHANGED <<ecm, medium, wrapped, prior, alarm, previous, latch, owner>>
    BY <1>6, <2>1, BlockRunning DEF OnIncomingConnection, TypeOK
  <2>2. ASSUME NEW e \in Targets(id), RunUpgradeProtocol(e, c, medium[c], TRUE)
        PROVE  BlockInv'
    <3>1. e \in Endpoint
      BY <2>2 DEF Targets, TypeOK
    <3>2. owner = "running" /\ chan[c] \in {"unused", "accepted"} /\ UNCHANGED reported
      BY <1>6 DEF OnIncomingConnection
    <3> QED BY <2>2, <3>1, <3>2, BlockRunUpgradeProtocol
  <2> QED BY <1>6, <2>1, <2>2 DEF OnIncomingConnection
<1>7. ASSUME NEW e \in Endpoint, LastWriteToPriorChannel(e) PROVE BlockInv'
  BY <1>7, BlockRunning DEF LastWriteToPriorChannel, TypeOK
<1>8. ASSUME NEW e \in Endpoint, SafeToClosePriorChannel(e) PROVE BlockInv'
  BY <1>8, BlockRunning DEF SafeToClosePriorChannel, TypeOK
<1>9. ASSUME NEW e \in Endpoint, NEW m \in Medium \cup {Unknown}, PathRefused(e, m) PROVE BlockInv'
  <2>0. owner = "running" /\ UNCHANGED <<ecm, prior, reported>>
    BY <1>9 DEF PathRefused
  <2>1. ASSUME NEW cur, RunUpgradeFailedProtocol(e, cur) PROVE BlockInv'
    <3>1. CASE chan' = chan
      <4>1. owner' = "blocked" => ecm[e] # None /\ chan[ecm[e]] = "paused"
        BY <2>0, <2>1 DEF RunUpgradeFailedProtocol, SetBwuMedium
      <4> QED BY <2>0, <3>1, <4>1, BlockFrame
    <3>2. CASE owner' = owner /\ chan' = [chan EXCEPT ![ecm[e]] = "closed"]
      BY <2>0, <3>2, BlockRunning DEF TypeOK
    <3> QED BY <2>1, <3>1, <3>2 DEF RunUpgradeFailedProtocol
  <2>2. CASE /\ chan' = [c \in Channel |-> IF c \in {previous[e], ecm[e]} THEN "closed" ELSE chan[c]]
             /\ owner' = owner
    BY <2>0, <2>2, BlockRunning DEF TypeOK
  <2> QED BY <1>9, <2>1, <2>2 DEF PathRefused
<1>10. ASSUME NEW e \in Endpoint, NEW m \in Handlers, NEW c \in Channel, PathJoined(e, m, c)
       PROVE  BlockInv'
  <2>1. /\ owner = "running" /\ chan[c] \in {"unused", "accepted"} /\ UNCHANGED reported
        /\ RunUpgradeProtocol(e, c, m, ecm[e] \in wrapped)
    BY <1>10 DEF PathJoined
  <2> QED BY <2>1, BlockRunUpgradeProtocol
<1>11. ASSUME NEW e \in Endpoint, NEW c \in Channel, NEW m \in BaseMedium, Connect(e, c, m)
       PROVE  BlockInv'
  <2>1. /\ owner' # "blocked" /\ prior' = prior
        /\ ecm' = [ecm EXCEPT ![e] = c] /\ chan' = [chan EXCEPT ![c] = "open"]
    BY <1>11 DEF Connect
  <2> QED BY <2>1, BlockRunning DEF TypeOK
<1>12. ASSUME NEW e \in Endpoint,
              ConnectionAccepted(e) \/ Disconnected(e) \/ \E p \in PrefLists : SetUpgradeMediums(e, p)
       PROVE  BlockInv'
  BY <1>12, BlockFrame DEF ConnectionAccepted, SetUpgradeMediums, Disconnected
<1>13. ASSUME NEW e \in Endpoint, Unregister(e) PROVE BlockInv'
  BY <1>13, BlockRunning DEF Unregister, TypeOK
<1>14. ASSUME NEW e \in Endpoint, NEW wr \in BOOLEAN, OnEndpointDisconnect(e, wr) PROVE BlockInv'
  <2>1. owner' # "blocked" /\ UNCHANGED <<ecm, prior>>
        /\ \A c \in Channel : chan'[c] \in {chan[c], "closed"}
    BY <1>14 DEF OnEndpointDisconnect, TypeOK
  <2> QED BY <2>1, BlockRunning DEF TypeOK
<1>15. CASE Shutdown
  BY <1>15, BlockFrame DEF Shutdown
<1>16. CASE UNCHANGED vars
  BY <1>16, BlockFrame DEF vars
<1> QED
  BY <1>1, <1>2, <1>3, <1>4, <1>5, <1>6, <1>7, <1>8, <1>9, <1>10, <1>11, <1>12, <1>13,
     <1>14, <1>15, <1>16 DEF Next, OnFrame, Consumer, Sockets

\* The owner can block (finding OwnerNeverWedged), but only while an upgrade of some endpoint is between
\* the swap of run_upgrade_protocol and the SAFE_TO_CLOSE that ends it.
THEOREM BlockSafe == Spec => []BlockedOnlyInSwap
<1>1. Init => BlockInv
  BY DEF Init, BlockInv, PausedDisplaced, BlockedOnlyInSwap
<1>2. Spec => []BlockInv
  BY <1>1, TypeCorrect, SwapInvariant, BlockStep, PTL DEF Spec
<1> QED BY <1>2, PTL DEF BlockInv

-------------------------------------------------------------------------------
(* Retries *)

\* The next delay is at least the last one.
LEMMA RetryDelayGrows ==
    ASSUME TypeOK, NEW e \in Endpoint
    PROVE  CalculateNextRetryDelay(e) >= delay[e]
BY ConstantsAssumption DEF TypeOK, CalculateNextRetryDelay

\* What one step may do to a backoff.
Grows == \A e \in Endpoint : delay'[e] >= delay[e] \/ (delay'[e] = 0 /\ alarm'[e] = 0)

\* A step that leaves the delays alone shrinks none of them.
LEMMA UnchangedGrows ==
    ASSUME TypeOK, UNCHANGED delay PROVE Grows
BY ConstantsAssumption DEF TypeOK, Grows

\* The failover chain sets an alarm to the delay it just computed and grows the backoff;
\* an upgrade it starts has its alarm cancelled and its medium tracked.
LEMMA TryNextBestRetry ==
    ASSUME TypeOK, RetryInv, NEW e \in Endpoint, NEW L, NEW cur, NEW reverted, NEW busy,
           busy => e \notin Incoming,
           NEW out, NEW pending \in {0, alarm[e]},
           TryNextBest(e, L, cur, reverted, busy, out, pending)
    PROVE  RetryInv' /\ Grows
<1> DEFINE cand  == Candidates(e, L, cur)
           stops == {m \in cand : StopsAt(e, m, busy, out)}
           failed(n)  == {m \in cand : stops # {} => Rank(e, m) < Rank(e, n)}
           retry(n)   == CurrentMedium(e) # "WIFI_LAN" /\ n \in {Unknown, CurrentMedium(e)}
           settled(n) == n # Unknown /\ ~retry(n)
           offered(n) == settled(n) /\ Reaches(e, n, busy)
           kept(n) == RevertActive(e, reverted \cup failed(n), ecm[e] # None)
<1>1. PICK next \in Handlers \cup {Unknown} :
          /\ active' = IF offered(next) /\ out[next] # "empty"
                       THEN [kept(next) EXCEPT ![next] = @ \cup {e}] ELSE kept(next)
          /\ inProgress' = IF offered(next) /\ out[next] = "sent" THEN inProgress \cup {e}
                           ELSE IF busy THEN inProgress ELSE inProgress \ {e}
          /\ alarm' = [alarm EXCEPT ![e] =
                          IF retry(next) THEN CalculateNextRetryDelay(e)
                          ELSE IF failed(next) # {} \/ (settled(next) /\ ~busy /\ ~Protected(next))
                          THEN 0 ELSE pending]
          /\ delay' = IF retry(next) THEN [delay EXCEPT ![e] = CalculateNextRetryDelay(e)]
                                     ELSE delay
  BY DEF TryNextBest
<1>2. offered(next) => next \in Handlers /\ ~retry(next) /\ settled(next) /\ ~busy /\ ~Protected(next)
  BY <1>1 DEF Reaches
<1>3. kept(next) \in [Handlers -> SUBSET Endpoint]
  BY RevertActiveType
<1>4. Multi => \A m \in Handlers : \A f \in Endpoint \ {e} : f \in active[m] => f \in kept(next)[m]
  BY DEF RevertActive
<1> HIDE DEF cand, stops, failed, retry, settled, offered, kept
<1>5. CalculateNextRetryDelay(e) \in 1..MaxDelay /\ CalculateNextRetryDelay(e) >= delay[e]
  BY RetryDelayType, RetryDelayGrows
<1>6. AlarmIsLatestBackoff'
  BY <1>1, <1>5 DEF TypeOK, RetryInv, AlarmIsLatestBackoff
<1>7. AdvertiserRetryExclusive'
  BY <1>1, <1>2, ConstantsAssumption DEF TypeOK, RetryInv, AdvertiserRetryExclusive
<1>8. RunningUpgradeIsListening'
  <2> SUFFICES ASSUME Multi, NEW f \in Incoming, f \in inProgress'
               PROVE  \E m \in Handlers : f \in active'[m]
    BY DEF RunningUpgradeIsListening
  <2>1. CASE f = e
    BY <1>1, <1>2, <1>3, <2>1
  <2>2. CASE f # e
    <3>1. PICK m \in Handlers : f \in active[m]
      BY <1>1, <2>2 DEF RetryInv, RunningUpgradeIsListening
    <3>2. f \in kept(next)[m]
      BY <1>4, <2>2, <3>1, ConstantsAssumption
    <3>3. f \in active'[m]
      BY <1>1, <1>3, <3>2
    <3> QED BY <3>3
  <2> QED BY <2>1, <2>2
<1>9. Grows
  BY <1>1, <1>5, ConstantsAssumption DEF TypeOK, Grows
<1> QED BY <1>6, <1>7, <1>8, <1>9 DEF RetryInv

\* Every step keeps the retry invariant, and lets no backoff shrink.
LEMMA RetryStep == TypeOK /\ RetryInv /\ [Next]_vars => RetryInv' /\ Grows
<1> SUFFICES ASSUME TypeOK, RetryInv, [Next]_vars PROVE RetryInv' /\ Grows
  OBVIOUS
<1> USE DEF clientVars, channelVars, retryVars
<1>0. Incoming \subseteq Endpoint
  BY ConstantsAssumption
\* Steps that only cancel alarms, end upgrades or track more endpoints.
<1>a. ASSUME delay' = delay, \A e \in Endpoint : alarm'[e] \in {0, alarm[e]},
             \A e \in Incoming : e \in inProgress' => e \in inProgress,
             \A m \in Handlers : active[m] \subseteq active'[m]
      PROVE  RetryInv' /\ Grows
  BY <1>0, <1>a, UnchangedGrows DEF RetryInv, AlarmIsLatestBackoff, AdvertiserRetryExclusive,
     RunningUpgradeIsListening
\* Steps that stop one endpoint's upgrade and its mediums.
<1>b. ASSUME NEW e \in Endpoint, NEW ms, NEW own, delay' = delay, alarm' = alarm,
             inProgress' = inProgress \ {e}, active' = RevertActive(e, ms, own)
      PROVE  RetryInv' /\ Grows
  BY <1>0, <1>b, UnchangedGrows DEF RevertActive, RetryInv, AlarmIsLatestBackoff,
     AdvertiserRetryExclusive, RunningUpgradeIsListening
<1>1. ASSUME NEW e \in Endpoint, NEW m \in Medium, InitiateBwu(e, m)
      PROVE  RetryInv' /\ Grows
  <2>2. CASE UNCHANGED <<inProgress, active, retryVars, owner>>
    BY <1>a, <2>2
  <2>3. CASE /\ alarm' = CancelRetryUpgradeAlarm(e)
             /\ UNCHANGED <<inProgress, active, delay, owner>>
    BY <1>a, <2>3 DEF CancelRetryUpgradeAlarm, TypeOK
  <2>4. ASSUME m \in Handlers, NEW out,
               alarm' = CancelRetryUpgradeAlarm(e),
               active' = IF out[m] = "empty" THEN active
                         ELSE [active EXCEPT ![m] = @ \cup {e}],
               inProgress' = IF out[m] = "sent" THEN inProgress \cup {e} ELSE inProgress,
               UNCHANGED delay
        PROVE  RetryInv' /\ Grows
    <3>1. alarm' = [alarm EXCEPT ![e] = 0]
      BY <2>4 DEF CancelRetryUpgradeAlarm
    <3>2. AlarmIsLatestBackoff' /\ AdvertiserRetryExclusive'
      BY <1>0, <2>4, <3>1 DEF TypeOK, RetryInv, AlarmIsLatestBackoff, AdvertiserRetryExclusive
    <3>3. RunningUpgradeIsListening'
      BY <1>0, <2>4 DEF TypeOK, RetryInv, RunningUpgradeIsListening
    <3> QED BY <2>4, <3>2, <3>3, UnchangedGrows DEF RetryInv
  <2>5. ASSUME NEW out, TryNextBest(e, Untried(e, m), Unknown, {m}, FALSE, out, 0)
        PROVE  RetryInv' /\ Grows
    BY <2>5, TryNextBestRetry
  <2> QED BY <1>1, <2>2, <2>3, <2>4, <2>5 DEF InitiateBwu
<1>2. ASSUME NEW e \in Endpoint, ResetUpgrade(e) PROVE RetryInv' /\ Grows
  BY <1>a, <1>2 DEF ResetUpgrade
<1>3. ASSUME NEW e \in Endpoint, NEW m, UpgradeFailure(e, m) PROVE RetryInv' /\ Grows
  <2>1. CASE Coarse
    BY <1>a, <1>3, <2>1 DEF UpgradeFailure
  <2>2. ASSUME NEW out,
               TryNextBest(e, Untried(e, m), Unknown, {bwuMedium[e]}, FALSE, out, alarm[e])
        PROVE  RetryInv' /\ Grows
    BY <2>2, TryNextBestRetry
  <2> QED BY <1>3, <2>1, <2>2 DEF UpgradeFailure
<1>4. ASSUME NEW e \in Endpoint, FireRetryAlarm(e) PROVE RetryInv' /\ Grows
  <2>1. CASE e \notin connected
    BY <1>a, <1>4, <2>1 DEF FireRetryAlarm, TypeOK
  <2>2. ASSUME NEW out,
               TryNextBest(e, Range(prefs[e]), bwuMedium[e], {}, e \in inProgress, out, 0)
        PROVE  RetryInv' /\ Grows
    \* An advertiser's alarm does not fire into its own running upgrade.
    <3>1. e \in inProgress => e \notin Incoming
      BY <1>4 DEF FireRetryAlarm, RetryInv, AdvertiserRetryExclusive
    <3> QED BY <2>2, <3>1, TryNextBestRetry
  <2> QED BY <1>4, <2>1, <2>2 DEF FireRetryAlarm
<1>5. ASSUME NEW c \in Channel, NEW m \in Handlers, AcceptSocket(c, m) PROVE RetryInv' /\ Grows
  BY <1>a, <1>5 DEF AcceptSocket
<1>6. ASSUME NEW c \in Channel, NEW id, OnIncomingConnection(c, id) PROVE RetryInv' /\ Grows
  BY <1>a, <1>6 DEF OnIncomingConnection, CancelRetryUpgradeAlarm, TypeOK
<1>7. ASSUME NEW e \in Endpoint, LastWriteToPriorChannel(e) PROVE RetryInv' /\ Grows
  BY <1>a, <1>7 DEF LastWriteToPriorChannel
<1>8. ASSUME NEW e \in Endpoint, SafeToClosePriorChannel(e) PROVE RetryInv' /\ Grows
  BY <1>a, <1>8 DEF SafeToClosePriorChannel
<1>9. ASSUME NEW e \in Endpoint, NEW m, PathRefused(e, m) PROVE RetryInv' /\ Grows
  <2>1. ASSUME NEW cur, RunUpgradeFailedProtocol(e, cur), UNCHANGED retryVars
        PROVE  RetryInv' /\ Grows
    <3>1. CASE UNCHANGED <<inProgress, active>>
      BY <1>a, <2>1, <3>1
    <3>2. CASE /\ active' = RevertActive(e, {cur}, ecm[e] \in wrapped)
               /\ inProgress' = inProgress \ {e}
      BY <1>b, <2>1, <3>2
    <3> QED BY <2>1, <3>1, <3>2 DEF RunUpgradeFailedProtocol
  <2>2. CASE UNCHANGED <<bwuMedium, inProgress, active, owner>> /\ UNCHANGED retryVars
    BY <1>a, <2>2
  <2> QED BY <1>9, <2>1, <2>2 DEF PathRefused
<1>10. ASSUME NEW e \in Endpoint, NEW m, NEW c, PathJoined(e, m, c) PROVE RetryInv' /\ Grows
  BY <1>a, <1>10 DEF PathJoined
<1>11. ASSUME NEW e \in Endpoint, OnEndpointDisconnect(e, TRUE) \/ OnEndpointDisconnect(e, FALSE)
       PROVE  RetryInv' /\ Grows
  <2>1. /\ delay' = [delay EXCEPT ![e] = 0] /\ alarm' = [alarm EXCEPT ![e] = 0]
        /\ inProgress' = inProgress \ {e}
    BY <1>11 DEF OnEndpointDisconnect, ForgetUpgrade
  <2>2. Grows
    BY <2>1, ConstantsAssumption DEF Grows, TypeOK
  <2>3. AlarmIsLatestBackoff' /\ AdvertiserRetryExclusive'
    BY <1>0, <2>1 DEF TypeOK, RetryInv, AlarmIsLatestBackoff, AdvertiserRetryExclusive
  <2>4. RunningUpgradeIsListening'
    BY <1>0, <1>11, <2>1 DEF OnEndpointDisconnect, RevertActive, RetryInv, RunningUpgradeIsListening
  <2> QED BY <2>2, <2>3, <2>4 DEF RetryInv
<1>12. CASE Shutdown
  BY <1>0, <1>12 DEF Shutdown, Grows, RetryInv, AlarmIsLatestBackoff, AdvertiserRetryExclusive,
     RunningUpgradeIsListening
<1>13. CASE UNCHANGED <<retryVars, inProgress, active>>
  BY <1>a, <1>13
<1>14. ASSUME NEW e \in Endpoint,
              \/ \E c \in Channel, m \in BaseMedium : Connect(e, c, m)
              \/ ConnectionAccepted(e)
              \/ \E p \in PrefLists : SetUpgradeMediums(e, p)
              \/ Unregister(e)
              \/ Disconnected(e)
       PROVE  UNCHANGED <<retryVars, inProgress, active>>
  BY <1>14 DEF Connect, ConnectionAccepted, SetUpgradeMediums, Unregister, Disconnected
<1>15. CASE UNCHANGED vars
  BY <1>13, <1>15 DEF vars
<1> QED
  BY <1>1, <1>2, <1>3, <1>4, <1>5, <1>6, <1>7, <1>8, <1>9, <1>10, <1>11, <1>12, <1>13, <1>14,
     <1>15 DEF Next, OnFrame, Consumer, Sockets

\* The retry invariant always holds.
THEOREM RetryInvariant == Spec => []RetryInv
<1>1. Init => RetryInv
  BY DEF Init, RetryInv, AlarmIsLatestBackoff, AdvertiserRetryExclusive, RunningUpgradeIsListening
<1> QED BY <1>1, TypeCorrect, RetryStep, PTL DEF Spec

\* A pending alarm carries the latest backoff delay, never above the configured maximum.
THEOREM AlarmSafe == Spec => []AlarmIsLatestBackoff
BY RetryInvariant, PTL DEF RetryInv

\* An advertiser's running upgrade has no retry pending.
THEOREM AdvertiserRetrySafe == Spec => []AdvertiserRetryExclusive
BY RetryInvariant, PTL DEF RetryInv

\* With per-endpoint mediums, an advertiser's running upgrade keeps a listener.
THEOREM ListeningSafe == Spec => []RunningUpgradeIsListening
BY RetryInvariant, PTL DEF RetryInv

\* The backoff only grows until a disconnect or the shutdown resets it.
THEOREM BackoffMonotone == Spec => BackoffNeverShrinks
<1>1. TypeOK /\ RetryInv /\ [Next]_vars => [Grows]_vars
  BY RetryStep
<1> QED BY <1>1, TypeCorrect, RetryInvariant, PTL DEF Spec, BackoffNeverShrinks, Grows
=============================================================================
