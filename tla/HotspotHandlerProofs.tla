------------------------- MODULE HotspotHandlerProofs -------------------------
(***************************************************************************)
(* Proofs about HotspotHandler, for any number of endpoints and services.  *)
(***************************************************************************)
EXTENDS HotspotHandler, TLAPS

\* After shutdown nobody is tracked.
NobodyTracked == down => \A id \in Ids : active[id] = {}

HandlerInv == TypeOK /\ MediumUpWhileTracked /\ NobodyTracked

\* Service ids stay ids.
LEMMA IdFacts ==
    /\ \A s \in Service \cup {UnknownService} : RawId(s) \in Ids /\ ~RawId(s).wrapped
    /\ \A id \in Ids : Wrap(id) \in Ids /\ Wrap(id).wrapped
    /\ \A id \in Ids, b \in BOOLEAN : [id EXCEPT !.wrapped = b] \in Ids
    /\ \A id \in Ids : id.wrapped \in BOOLEAN
  BY DEF Ids, RawId, Wrap

\* A revert keeps the two layers of the handler together, and takes a medium down only
\* with its last endpoint.
LEMMA RevertFacts ==
    ASSUME TypeOK, MediumUpWhileTracked, NEW id \in Ids, NEW e \in Endpoint, Revert(id, e)
    PROVE  /\ active' \in [Ids -> SUBSET Endpoint]
           /\ listeners' \in SUBSET Ids /\ aps' \in SUBSET Ids /\ medium' \in SUBSET Endpoint
           /\ MediumUpWhileTracked'
           /\ \A i \in Ids : active'[i] \subseteq active[i]
           /\ \A i \in listeners \ listeners' : \E x \in Endpoint : active[i] = {x}
<1> USE DEF TypeOK, MediumUpWhileTracked
<1>1. CASE id.wrapped
  <2>1. active' = [active EXCEPT ![id] = @ \ {e}]
    BY <1>1 DEF Revert, Untrack
  <2>2. /\ listeners' = listeners \ Emptied(active, id, e)
        /\ aps' = aps \ Emptied(active, id, e)
        /\ medium' = medium \ {e}
    BY <1>1 DEF Revert
  <2>3. CASE active[id] # {} /\ active[id] \ {e} = {}
    <3>1. Emptied(active, id, e) = {id} /\ active[id] = {e}
      BY <1>1, <2>3 DEF Emptied
    <3> QED
      BY <2>1, <2>2, <3>1
  <2>4. CASE ~(active[id] # {} /\ active[id] \ {e} = {})
    <3>1. Emptied(active, id, e) = {}
      BY <2>4 DEF Emptied
    <3> QED
      BY <2>1, <2>2, <2>4, <3>1
  <2> QED
    BY <2>3, <2>4
<1>2. CASE ~id.wrapped
  <2>1. id \notin listeners
    BY <1>2
  <2>2. active' = active /\ listeners' = listeners /\ aps' = aps /\ medium' = medium \ {e}
    BY <1>2, <2>1 DEF Revert, Untrack
  <2> QED
    BY <2>2
<1> QED
  BY <1>1, <1>2

\* An offer, sent or failed at any of its steps, does the same.
LEMMA InitiateFacts ==
    ASSUME TypeOK, MediumUpWhileTracked, NEW e \in Endpoint,
           NEW out \in {"ap", "listen", "write", "sent"}, Initiate(e, out)
    PROVE  /\ TypeOK' /\ MediumUpWhileTracked'
           /\ \A i \in listeners \ listeners' : \E x \in Endpoint : active[i] = {x}
<1> USE DEF TypeOK
<1>1. CASE stage[e] # "up" \/ e \in over
  BY <1>1 DEF Initiate, handlerVars, MediumUpWhileTracked
<1>2. CASE ~(stage[e] # "up" \/ e \in over)
  <2> DEFINE id == Wrap(channelId[e])
             tracked == IF out \in {"write", "sent"} THEN Track(id, e) ELSE active
             gone == IF out = "sent" THEN {} ELSE Emptied(tracked, id, e)
  <2>1. id \in Ids /\ id.wrapped
    BY IdFacts
  <2>2. /\ id \in listeners => out \in {"write", "sent"}
        /\ active' = IF out = "sent" THEN tracked ELSE Untrack(tracked, id, e)
        /\ listeners' = (IF out \in {"write", "sent"} THEN listeners \cup {id} ELSE listeners) \ gone
        /\ aps' = ApAfterInitialize(id, out) \ gone
        /\ medium' = IF out = "sent" THEN medium \cup {e} ELSE medium \ {e}
        /\ UNCHANGED <<stage, channelId, over, sta, down>>
    BY <1>2 DEF Initiate
  <2>3. /\ Track(id, e) \in [Ids -> SUBSET Endpoint]
        /\ Track(id, e)[id] = active[id] \cup {e}
        /\ \A i \in Ids \ {id} : Track(id, e)[i] = active[i]
    BY <2>1 DEF Track
  <2> HIDE DEF id
  <2>4. CASE out \in {"ap", "listen"}
    <3>1. id \notin listeners /\ active[id] = {}
      BY <2>1, <2>2, <2>4 DEF MediumUpWhileTracked
    <3>2. gone = {} /\ active' = active
      BY <2>1, <2>2, <2>4, <3>1 DEF Emptied, Untrack
    <3>3. listeners' = listeners /\ aps' = aps
      BY <2>2, <2>4, <3>2 DEF ApAfterInitialize
    <3> QED
      BY <2>2, <3>2, <3>3 DEF MediumUpWhileTracked
  <2>5. CASE out = "sent"
    <3>1. active' = Track(id, e) /\ listeners' = listeners \cup {id}
      BY <2>2, <2>5
    <3>2. aps' = aps \cup {id}
      BY <2>2, <2>5 DEF ApAfterInitialize, MediumUpWhileTracked
    <3> QED
      BY <2>1, <2>2, <2>3, <2>5, <3>1, <3>2 DEF MediumUpWhileTracked
  <2>6. CASE out = "write"
    <3>1. active' = [Track(id, e) EXCEPT ![id] = @ \ {e}]
      BY <2>1, <2>2, <2>6 DEF Untrack
    <3>2. /\ active' \in [Ids -> SUBSET Endpoint] /\ active'[id] = active[id] \ {e}
          /\ \A i \in Ids \ {id} : active'[i] = active[i]
      BY <2>1, <2>3, <3>1
    <3>3. gone = IF active[id] \ {e} = {} THEN {id} ELSE {}
      BY <2>1, <2>3, <2>6 DEF Emptied
    <3>4. listeners' = (listeners \cup {id}) \ gone /\ aps' = (aps \cup {id}) \ gone
      BY <2>2, <2>6 DEF ApAfterInitialize, MediumUpWhileTracked
    <3> HIDE DEF gone
    <3>5. MediumUpWhileTracked'
      BY <2>1, <3>2, <3>3, <3>4 DEF MediumUpWhileTracked
    <3>6. \A i \in listeners \ listeners' : \E x \in Endpoint : active[i] = {x}
      BY <2>1, <3>2, <3>3, <3>4 DEF MediumUpWhileTracked
    <3>7. listeners' \in SUBSET Ids /\ aps' \in SUBSET Ids
      BY <2>1, <3>4
    <3> QED
      BY <2>2, <2>6, <3>2, <3>5, <3>6, <3>7
  <2> QED
    BY <2>4, <2>5, <2>6
<1> QED
  BY <1>1, <1>2

\* Every call of the manager and of the consumer keeps the invariant, and takes a medium
\* down only with its last endpoint or in a shutdown.
LEMMA HandlerStep ==
    ASSUME HandlerInv, [Next]_vars
    PROVE  /\ HandlerInv'
           /\ \A i \in listeners \ listeners' : down' \/ \E x \in Endpoint : active[i] = {x}
<1> DEFINE Goal == /\ HandlerInv'
                   /\ \A i \in listeners \ listeners' :
                        down' \/ \E x \in Endpoint : active[i] = {x}
<1> USE DEF HandlerInv
<1>0. ASSUME TypeOK', UNCHANGED <<handlerVars, down>> PROVE Goal
  BY <1>0 DEF handlerVars, MediumUpWhileTracked, NobodyTracked
<1>r. ASSUME NEW id \in Ids, NEW e \in Endpoint, Revert(id, e),
             stage' \in [Endpoint -> {"gone", "up", "unregistered", "discarded"}],
             sta' \in BOOLEAN, over' \in SUBSET Endpoint, UNCHANGED <<channelId, down>>
      PROVE  Goal
  <2>1. /\ active' \in [Ids -> SUBSET Endpoint]
        /\ listeners' \in SUBSET Ids /\ aps' \in SUBSET Ids /\ medium' \in SUBSET Endpoint
        /\ MediumUpWhileTracked'
        /\ \A i \in Ids : active'[i] \subseteq active[i]
        /\ \A i \in listeners \ listeners' : \E x \in Endpoint : active[i] = {x}
    BY <1>r, RevertFacts
  <2>2. TypeOK'
    BY <1>r, <2>1 DEF TypeOK
  <2>3. NobodyTracked'
    BY <1>r, <2>1 DEF NobodyTracked
  <2> QED
    BY <2>1, <2>2, <2>3
<1>1. ASSUME NEW e \in Endpoint, NEW out \in {"ap", "listen", "write", "sent"}, Initiate(e, out)
      PROVE  Goal
  <2>1. ~down' /\ ~down
    BY <1>1 DEF Initiate
  <2> QED
    BY <1>1, <2>1, InitiateFacts DEF NobodyTracked
<1>2. ASSUME NEW e \in Endpoint, NEW out \in {"join", "dial", "joined"}, NEW told \in BOOLEAN,
             PathAvailable(e, out, told)
      PROVE  Goal
  <2>1. /\ stage' = stage /\ channelId' = channelId /\ down' = down
        /\ sta' \in BOOLEAN /\ over' \in SUBSET Endpoint /\ channelId[e] \in Ids
    BY <1>2 DEF PathAvailable, TypeOK
  <2>2. CASE Revert(channelId[e], e)
    BY <1>r, <2>1, <2>2 DEF TypeOK
  <2>3. CASE medium' = medium \cup {e} /\ UNCHANGED handlerVars
    BY <1>0, <2>1, <2>3 DEF TypeOK, handlerVars
  <2> QED
    BY <1>2, <2>2, <2>3 DEF PathAvailable
<1>3. ASSUME NEW e \in Endpoint, NEW s \in Service, Connect(e, s) \/ Accepted(e, s) PROVE Goal
  <2>1. RawId(s) \in Ids /\ Wrap(RawId(s)) \in Ids
    BY IdFacts
  <2>2. TypeOK'
    BY <1>3, <2>1 DEF Connect, Accepted, TypeOK, handlerVars
  <2> QED
    BY <1>0, <1>3, <2>2 DEF Connect, Accepted
<1>4. ASSUME NEW e \in Endpoint, UpgradeFailure(e) PROVE Goal
  <2> DEFINE id == Wrap(IF stage[e] = "up" THEN channelId[e] ELSE RawId(UnknownService))
  <2>1. id \in Ids
    BY IdFacts DEF TypeOK
  <2>2. Revert(id, e) /\ UNCHANGED <<stage, channelId, over, sta, down>>
    BY <1>4 DEF UpgradeFailure
  <2> HIDE DEF id
  <2> QED
    BY <1>r, <2>1, <2>2 DEF TypeOK
<1>5. ASSUME NEW e \in Endpoint, Unregister(e) \/ Disconnected(e) PROVE Goal
  BY <1>0, <1>5 DEF Unregister, Disconnected, TypeOK, handlerVars
<1>6. ASSUME NEW e \in Endpoint, OnEndpointDisconnect(e) PROVE Goal
  <2> DEFINE id == [channelId[e] EXCEPT !.wrapped = \E i \in Ids : e \in active[i]]
  <2>1. id \in Ids
    BY IdFacts DEF TypeOK
  <2>2. /\ stage' \in [Endpoint -> {"gone", "up", "unregistered", "discarded"}]
        /\ UNCHANGED <<channelId, over, down>>
    BY <1>6 DEF OnEndpointDisconnect, TypeOK
  <2>3. CASE e \in medium
    <3>1. Revert(id, e) /\ sta' \in BOOLEAN
      BY <1>6, <2>3 DEF OnEndpointDisconnect
    <3> HIDE DEF id
    <3> QED
      BY <1>r, <2>1, <2>2, <3>1 DEF TypeOK
  <2>4. CASE e \notin medium
    BY <1>0, <1>6, <2>2, <2>4 DEF OnEndpointDisconnect, TypeOK, handlerVars
  <2> QED
    BY <2>3, <2>4
<1>7. CASE Shutdown
  <2>1. listeners' = {} /\ aps' = {} /\ active' = [id \in Ids |-> {}] /\ down'
    BY <1>7 DEF Shutdown, RevertedServices, MediumUpWhileTracked
  <2>2. TypeOK'
    BY <1>7, <2>1 DEF Shutdown, TypeOK
  <2> QED
    BY <2>1, <2>2 DEF MediumUpWhileTracked, NobodyTracked
<1>8. CASE UNCHANGED vars
  BY <1>0, <1>8 DEF vars, TypeOK, handlerVars
<1> QED
  BY <1>1, <1>2, <1>3, <1>4, <1>5, <1>6, <1>7, <1>8 DEF Next

\* The strengthened invariant holds throughout.
THEOREM HandlerInvariant == Spec => []HandlerInv
<1>1. Init => HandlerInv
  BY IdFacts DEF Init, HandlerInv, TypeOK, MediumUpWhileTracked, NobodyTracked
<1>2. HandlerInv /\ [Next]_vars => HandlerInv'
  BY HandlerStep
<1> QED
  BY <1>1, <1>2, PTL DEF Spec

\* Over every order of calls a hotspot is up with its listener exactly while some
\* endpoint is tracked for it.
THEOREM MediumSafe == Spec => []MediumUpWhileTracked
  BY HandlerInvariant, PTL DEF HandlerInv

\* Shutdown leaves no hotspot up.
THEOREM ShutdownSafe == Spec => []ShutdownStopsMediums
<1>1. HandlerInv => ShutdownStopsMediums
  BY DEF HandlerInv, MediumUpWhileTracked, NobodyTracked, ShutdownStopsMediums
<1> QED
  BY <1>1, HandlerInvariant, PTL

\* What happens to one endpoint never takes the medium down under another.
THEOREM OthersSafe == Spec => OthersKeepMedium
<1>1. HandlerInv /\ [Next]_vars =>
        [\A id \in listeners \ listeners' : down' \/ \E e \in Endpoint : active[id] = {e}]_vars
  BY HandlerStep
<1> QED
  BY <1>1, HandlerInvariant, PTL DEF Spec, OthersKeepMedium
=============================================================================
