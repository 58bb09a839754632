------------------------- MODULE RetryTimersProofs -------------------------
(***************************************************************************)
(* Proofs about RetryTimers, for any set of endpoints and any maximum      *)
(* delay.                                                                  *)
(***************************************************************************)
EXTENDS RetryTimers, TLAPS

TimerInv == TypeOK /\ TimersTrackRetries /\ NeverLate

\* Every step of the actor, and every tick, keeps the timers aligned.
LEMMA TimerStep == TimerInv /\ [Next]_vars => TimerInv'
<1> SUFFICES ASSUME TimerInv, [Next]_vars PROVE TimerInv'
  OBVIOUS
<1> USE DelayAssumption DEF TimerInv
<1>1. ASSUME NEW e \in Endpoint, NEW d \in 0..MaxDelay, NEW fresh \in BOOLEAN,
             Command(e, d, fresh)
      PROVE  TimerInv'
  <2>1. /\ pending' = [pending EXCEPT ![e] = d]
        /\ armed' = {f \in Endpoint : pending'[f] # 0}
        /\ left' = [f \in Endpoint |->
                       IF f \in armed /\ pending'[f] # 0 THEN left[f] ELSE pending'[f]]
        /\ age' = [age EXCEPT ![e] = IF fresh \/ d = 0 THEN 0 ELSE @]
        /\ d = 0 \/ d >= pending[e]
        /\ fresh \/ d \in {0, pending[e]}
        /\ running' = running
    BY <1>1 DEF Command, Reconcile
  <2>2. TypeOK' /\ TimersTrackRetries'
    BY <2>1 DEF TypeOK, TimersTrackRetries
  <2>3. NeverLate'
    BY <2>1 DEF TypeOK, TimersTrackRetries, NeverLate
  <2> QED BY <2>2, <2>3
<1>2. ASSUME NEW next \in [Endpoint -> 0..MaxDelay], FireDueRetries(next) PROVE TimerInv'
  <2>1. /\ pending' = [f \in Endpoint |-> IF f \in Due THEN next[f] ELSE pending[f]]
        /\ armed' = {f \in Endpoint : pending'[f] # 0}
        /\ left' = [f \in Endpoint |->
                       IF f \in armed \ Due /\ pending'[f] # 0 THEN left[f] ELSE pending'[f]]
        /\ age' = [f \in Endpoint |-> IF f \in Due THEN 0 ELSE age[f]]
        /\ running' = running
    BY <1>2 DEF FireDueRetries, Reconcile
  <2>2. TypeOK' /\ TimersTrackRetries'
    BY <2>1 DEF TypeOK, TimersTrackRetries
  <2>3. NeverLate'
    BY <2>1 DEF TypeOK, TimersTrackRetries, NeverLate
  <2> QED BY <2>2, <2>3
<1>3. CASE Stop
  <2>1. pending' = [e \in Endpoint |-> 0] /\ armed' = {} /\ running' = FALSE
        /\ age' = age /\ left' = left
    BY <1>3 DEF Stop
  <2>2. TypeOK'
    <3>1. running' \in BOOLEAN
      BY <2>1, Zenon
    <3>2. pending' \in [Endpoint -> 0..MaxDelay] /\ armed' \in SUBSET Endpoint
      BY <2>1
    <3> QED BY <2>1, <3>1, <3>2 DEF TypeOK
  <2>3. \A e \in Endpoint : pending'[e] = 0
    BY <2>1
  <2>4. TimersTrackRetries'
    BY <2>1, <2>3 DEF TimersTrackRetries
  <2>5. NeverLate'
    BY <2>1 DEF NeverLate
  <2> QED BY <2>2, <2>4, <2>5
<1>4. CASE Tick
  BY <1>4 DEF Tick, TypeOK, TimersTrackRetries, NeverLate
<1>5. CASE UNCHANGED vars
  BY <1>5 DEF vars, TypeOK, TimersTrackRetries, NeverLate
<1> QED BY <1>1, <1>2, <1>3, <1>4, <1>5 DEF Next, Fire

\* The timer invariant always holds.
THEOREM TimerInvariant == Spec => []TimerInv
<1>1. Init => TimerInv
  BY DelayAssumption DEF Init, TimerInv, TypeOK, TimersTrackRetries, NeverLate
<1> QED BY <1>1, TimerStep, PTL DEF Spec

\* Exactly the pending retries have a timer (reconcile_timers).
THEOREM TimersSafe == Spec => []TimersTrackRetries
BY TimerInvariant, PTL DEF TimerInv

\* No timer is later than the delay the manager asked for.
THEOREM NeverLateSafe == Spec => []NeverLate
BY TimerInvariant, PTL DEF TimerInv
=============================================================================
