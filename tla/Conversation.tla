----------------------------- MODULE Conversation -----------------------------
(***************************************************************************)
(* What two connected devices are promised about the payloads they send    *)
(* each other, whatever bandwidth upgrade goes on underneath: each         *)
(* direction is a FIFO.  A payload is `sure` unless it was written on the  *)
(* old channel after its sender had told the peer it may close that; only  *)
(* such a payload may be skipped.  Nothing is delivered twice or out of    *)
(* order, and sure payloads arrive as long as the connection is not cut    *)
(* by a fault.                                                             *)
(***************************************************************************)
EXTENDS Naturals, Sequences

CONSTANT Peer

VARIABLES
    sent,   \* per sender, for each payload it has written: is it sure?
    got,    \* per sender, the numbers of its payloads that were delivered
    cut     \* a fault has hit the connection

vars == <<sent, got, cut>>

Init ==
    /\ sent = [p \in Peer |-> <<>>]
    /\ got = [p \in Peer |-> <<>>]
    /\ cut = FALSE

Last(p) == IF got[p] = <<>> THEN 0 ELSE got[p][Len(got[p])]

\* A sure payload of p is on its way.
Owed(p) == \E i \in Last(p) + 1..Len(sent[p]) : sent[p][i]

Send(p, sure) ==
    /\ sent' = [sent EXCEPT ![p] = Append(@, sure)]
    /\ UNCHANGED <<got, cut>>

\* Payload i of p is the next to arrive: no sure one is skipped.
Deliver(p, i) ==
    /\ \A j \in Last(p) + 1..i - 1 : ~sent[p][j]
    /\ got' = [got EXCEPT ![p] = Append(@, i)]
    /\ UNCHANGED <<sent, cut>>

DeliverNext(p) == \E i \in Last(p) + 1..Len(sent[p]) : Deliver(p, i)

Cut == ~cut /\ cut' = TRUE /\ UNCHANGED <<sent, got>>

Next ==
    \/ \E p \in Peer, sure \in BOOLEAN : Send(p, sure)
    \/ \E p \in Peer : DeliverNext(p)
    \/ Cut

SafeSpec == Init /\ [][Next]_vars

Spec == SafeSpec /\ \A p \in Peer : WF_vars(~cut /\ Owed(p) /\ DeliverNext(p))
=============================================================================
