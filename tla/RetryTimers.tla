---------------------------- MODULE RetryTimers ----------------------------
(***************************************************************************)
(* The timer half of BwuActor (src/bwu/actor.rs): after every command and  *)
(* every firing, reconcile_timers aligns the armed deadlines with the      *)
(* retries the manager has pending; the biased select fires what is due    *)
(* before it takes another command.                                        *)
(*                                                                         *)
(* Deadlines are kept as the time left, so that runs are unbounded.  Of    *)
(* the manager only the pending delays are left: a command may schedule,   *)
(* reschedule or cancel one endpoint's retry.  That a rescheduled delay is *)
(* never shorter is AlarmIsLatestBackoff with BackoffNeverShrinks.         *)
(***************************************************************************)
EXTENDS Naturals

CONSTANTS Endpoint, MaxDelay

ASSUME DelayAssumption == MaxDelay \in Nat \ {0}

VARIABLES
    pending,   \* BwuManager.retry_upgrade_alarms: the delay, 0 for none
    age,       \* time since that retry was scheduled
    armed,     \* endpoints with an armed timer
    left,      \* time until the deadline of an armed timer
    running    \* the actor has not stopped

vars == <<pending, age, armed, left, running>>

Due == {e \in armed : left[e] = 0}

\* A command moves every deadline.
MutReconcileResets(p, kept) ==
    /\ armed' = {e \in Endpoint : p[e] # 0}
    /\ left' = [e \in Endpoint |-> p[e]]

\* Timers of cancelled retries are kept.
MutReconcileRetainsAll(p, kept) ==
    /\ armed' = kept \cup {e \in Endpoint : p[e] # 0}
    /\ left' = [e \in Endpoint |-> IF e \in kept THEN left[e] ELSE p[e]]

\* reconcile_timers: drop timers without a pending retry, arm the pending ones that
\* have none; an existing deadline is kept.
Reconcile(p, kept) ==
    /\ armed' = {e \in Endpoint : p[e] # 0}
    /\ left' = [e \in Endpoint |-> IF e \in kept /\ p[e] # 0 THEN left[e] ELSE p[e]]

\* One command of the queue, the retry of e being d from now on (0: cancelled or none).
\* `fresh`: the command scheduled it, rather than leaving it alone.
Command(e, d, fresh) ==
    /\ running /\ Due = {}
    /\ fresh \/ d \in {0, pending[e]}
    /\ d = 0 \/ d >= pending[e]
    /\ pending' = [pending EXCEPT ![e] = d]
    /\ age' = [age EXCEPT ![e] = IF fresh \/ d = 0 THEN 0 ELSE @]
    /\ Reconcile(pending', armed)
    /\ UNCHANGED running

\* The fired timer stays in the map.
MutFiredStaysArmed(next) ==
    /\ running /\ Due # {}
    /\ \A e \in Due : next[e] = 0 \/ next[e] >= pending[e]
    /\ pending' = [e \in Endpoint |-> IF e \in Due THEN next[e] ELSE pending[e]]
    /\ age' = [e \in Endpoint |-> IF e \in Due THEN 0 ELSE age[e]]
    /\ Reconcile(pending', armed)
    /\ UNCHANGED running

\* fire_due_retries: each due retry is consumed and fired, which may schedule the
\* next one.
FireDueRetries(next) ==
    /\ running /\ Due # {}
    /\ \A e \in Due : next[e] = 0 \/ next[e] >= pending[e]
    /\ pending' = [e \in Endpoint |-> IF e \in Due THEN next[e] ELSE pending[e]]
    /\ age' = [e \in Endpoint |-> IF e \in Due THEN 0 ELSE age[e]]
    /\ Reconcile(pending', armed \ Due)
    /\ UNCHANGED running

\* Shutdown, or the last handle is dropped.
Stop ==
    /\ running /\ Due = {}
    /\ running' = FALSE
    /\ pending' = [e \in Endpoint |-> 0]
    /\ armed' = {}
    /\ UNCHANGED <<age, left>>

\* Time passes.
Tick ==
    /\ running
    /\ left' = [e \in Endpoint |-> IF left[e] = 0 THEN 0 ELSE left[e] - 1]
    /\ age' = [e \in Endpoint |-> IF age[e] < MaxDelay THEN age[e] + 1 ELSE MaxDelay]
    /\ UNCHANGED <<pending, armed, running>>

Init ==
    /\ pending = [e \in Endpoint |-> 0]
    /\ age = [e \in Endpoint |-> 0]
    /\ armed = {}
    /\ left = [e \in Endpoint |-> 0]
    /\ running = TRUE

Fire == \E next \in [Endpoint -> 0..MaxDelay] : FireDueRetries(next)

Next ==
    \/ \E e \in Endpoint, d \in 0..MaxDelay, fresh \in BOOLEAN : Command(e, d, fresh)
    \/ Fire
    \/ Stop
    \/ Tick

Spec == Init /\ [][Next]_vars

\* Time goes on, and the runtime polls an elapsed timer.
FairSpec == Spec /\ WF_vars(Tick) /\ WF_vars(Fire)

-------------------------------------------------------------------------------
(* Properties *)

\* Every variable keeps its type.
TypeOK ==
    /\ pending \in [Endpoint -> 0..MaxDelay]
    /\ age \in [Endpoint -> 0..MaxDelay]
    /\ armed \in SUBSET Endpoint
    /\ left \in [Endpoint -> 0..MaxDelay]
    /\ running \in BOOLEAN

\* Whenever the actor waits, exactly the endpoints with a pending retry have a timer: a
\* timer never fires for a cancelled retry and no retry is forgotten.
TimersTrackRetries == armed = {e \in Endpoint : pending[e] # 0}

\* No timer is later than the delay the manager asks for, over any series of reschedules.
NeverLate == \A e \in armed : left[e] + age[e] <= pending[e] \/ left[e] = 0

\* A stream of commands cannot postpone a retry for ever: its deadline comes, or it is
\* cancelled.
DeadlineComes == \A e \in Endpoint : (e \in armed) ~> (e \notin armed \/ left[e] = 0)

\* A due retry is fired, and what it schedules next is not due at once.
DueIsServed == \A e \in Endpoint : (e \in Due) ~> (e \notin Due)
============================================================================
