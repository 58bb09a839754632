-------------------------- MODULE ConversationProofs --------------------------
(***************************************************************************)
(* Handshake implements the safety part of Conversation: whatever is       *)
(* reset, offered again, disconnected or broken during the swap, no        *)
(* payload arrives twice or out of order, and none that is sure is         *)
(* skipped.                                                                *)
(***************************************************************************)
EXTENDS HandshakeProofs

\* The payloads in s.
Flight(s) == {k \in Nat : Carries(s, k)}

\* The sure payloads of q that are still owed, and the last one delivered.
LastOf(q) == IF got[q] = <<>> THEN 0 ELSE got[q][Len(got[q])]
Missing(q) == {j \in 1..Len(sent[q]) : sent[q][j] /\ LastOf(q) < j}

\* Every sure payload before one of K is in X.
Ahead(S, K, X) == \A j \in S, k \in K : j < k => j \in X

\* Of payloads L + 1..N, A are in flight on the old link, B on the new one and S are owed.
InOrder(A, B, S, L, N) ==
    /\ L \in Nat /\ N \in Nat /\ L <= N
    /\ A \cup B \cup S \subseteq L + 1..N
    /\ \A j \in A, k \in B : j < k
    /\ Ahead(S, A, A)

\* Nothing is lost on the old link to p, or on the new one.
OldUp(p) == "old" \notin broken /\ end[p]["old"] # "closed" /\ end[Other(p)]["old"] # "closed"
NewUp(p) == "new" \notin broken /\ end[p]["new"] \notin {"absent", "closed"}

\* SAFE_TO_CLOSE is on its way to p or has arrived.
Told(p) == Holds(wire["old"][p], "SAFE_TO_CLOSE") \/ Heard(p)

\* What is in flight to p is what it is still owed, in order: all of it once p may go over to
\* the new link, or as long as nothing is lost on the old one.
Owing(p, A, B, S) ==
    /\ B # {} => reported[Other(p)]
    /\ OldUp(p) => S \subseteq A
    /\ Told(p) => Ahead(S, B, A \cup B)
    /\ Told(p) /\ NewUp(p) => S \subseteq A \cup B

OrderAt(p) ==
    /\ Ordered(wire["old"][p]) /\ Ordered(wire["new"][p])
    /\ InOrder(Flight(wire["old"][p]), Flight(wire["new"][p]), Missing(Other(p)),
               LastOf(Other(p)), Len(sent[Other(p)]))
    /\ Owing(p, Flight(wire["old"][p]), Flight(wire["new"][p]), Missing(Other(p)))

OrderInv == \A p \in Peer : OrderAt(p)

-------------------------------------------------------------------------------
(* Lemmas about sets of payloads *)

\* Of the payloads A the first ones arrive, C.
Front(A, C) == C \subseteq A /\ Ahead(A, C, C)

\* What is known of the payloads C and D that are left of A and B.
Left(A, B, S, C, D) ==
    /\ A \cap S \subseteq C /\ Ahead(S, B, A \cup B) => Ahead(S, D, C \cup D)
    /\ A \cap S \subseteq C /\ D = B /\ S \subseteq A \cup B => S \subseteq C \cup D
    /\ S \subseteq C => Ahead(S, D, C \cup D)

\* Payloads that are lost from the end of a link.
LEMMA LossInOrder ==
    ASSUME NEW A, NEW B, NEW S, NEW L, NEW N, InOrder(A, B, S, L, N),
           NEW C, NEW D, Front(A, C), Front(B, D)
    PROVE  InOrder(C, D, S, L, N) /\ Left(A, B, S, C, D)
<1>0. C \subseteq A /\ D \subseteq B /\ Ahead(A, C, C) /\ Ahead(B, D, D)
  BY DEF Front
<1>1. InOrder(C, D, S, L, N)
  BY <1>0 DEF InOrder, Ahead
<1>2. ASSUME A \cap S \subseteq C, Ahead(S, B, A \cup B)
      PROVE  Ahead(S, D, C \cup D)
  BY <1>0, <1>2 DEF Ahead
<1>3. ASSUME A \cap S \subseteq C, D = B, S \subseteq A \cup B
      PROVE  S \subseteq C \cup D
  BY <1>0, <1>3
<1>4. ASSUME S \subseteq C
      PROVE  Ahead(S, D, C \cup D)
  BY <1>4 DEF Ahead
<1> QED
  BY <1>1, <1>2, <1>3, <1>4 DEF Left

\* What is known of the payloads in flight after one of them was delivered.
Rest(A, B, S, C, D, T) ==
    /\ S \subseteq A => T \subseteq C
    /\ Ahead(S, B, A \cup B) => Ahead(T, D, C \cup D)
    /\ S \subseteq A \cup B => T \subseteq C \cup D

\* No sure payload comes before n, on the link where n is.
NoneSkipped(A, B, S, n) ==
    n \in A \/ Ahead(S, B, A \cup B) => \A j \in S : ~(j < n)

\* The payloads of S that come after n.
After(S, n) == {j \in S : n < j}

\* Payload n leaves the sets A and B, and everything left comes after it.
Leaves(A, B, C, D, n) ==
    n \in A \cup B /\ C = A \ {n} /\ D = B \ {n} /\ \A k \in C \cup D : n < k

\* The first payload in flight is delivered: it skips no sure one.
LEMMA DeliverInOrder ==
    ASSUME NEW A, NEW B, NEW S, NEW L, NEW N, InOrder(A, B, S, L, N),
           NEW n, NEW C, NEW D, Leaves(A, B, C, D, n),
           NEW T, T = After(S, n)
    PROVE  /\ InOrder(C, D, T, n, N) /\ n \in L + 1..N /\ Rest(A, B, S, C, D, T)
           /\ NoneSkipped(A, B, S, n)
<1>0. /\ n \in A \cup B /\ C = A \ {n} /\ D = B \ {n} /\ \A k \in C \cup D : n < k
      /\ T = {j \in S : n < j}
  BY DEF Leaves, After
<1>1. n \in L + 1..N /\ n \in Nat /\ ~(n < n)
  BY <1>0 DEF InOrder
<1>2. \A j \in A \cup B : n < j => j \in C \cup D
  BY <1>0, <1>1
<1>3. \A j \in A : n < j => j \in C
  BY <1>0, <1>1
<1>4. \A j \in S : j \in Nat /\ j \in L + 1..N
  BY DEF InOrder
<1>5. InOrder(C, D, T, n, N)
  <2>1. C \cup D \cup T \subseteq n + 1..N
    BY <1>0, <1>1, <1>4 DEF InOrder
  <2>2. \A j \in C, k \in D : j < k
    BY <1>0 DEF InOrder
  <2>3. Ahead(T, C, C)
    BY <1>0, <1>3 DEF InOrder, Ahead
  <2> QED
    BY <1>1, <2>1, <2>2, <2>3 DEF InOrder
<1>6. S \subseteq A => T \subseteq C
  BY <1>0, <1>3
<1>7. Ahead(S, B, A \cup B) => Ahead(T, D, C \cup D)
  BY <1>0, <1>2 DEF Ahead
<1>8. S \subseteq A \cup B => T \subseteq C \cup D
  BY <1>0, <1>2
<1>9. \A j \in A \cup B : j \in Nat /\ (j < n => FALSE)
  BY <1>0, <1>1 DEF InOrder
<1>10. ASSUME n \in A \/ Ahead(S, B, A \cup B), NEW j \in S, j < n
       PROVE  FALSE
  <2>1. j \in A \cup B
    BY <1>0, <1>10 DEF InOrder, Ahead
  <2> QED
    BY <1>9, <1>10, <2>1
<1> QED
  BY <1>1, <1>5, <1>6, <1>7, <1>8, <1>10 DEF Rest, NoneSkipped

\* Payload N + 1 is on one of the links, or on none.
Arrives(A, B, S, N, C, D, T) ==
    /\ C \in {A, A \cup {N + 1}} /\ D \in {B, B \cup {N + 1}} /\ T \in {S, S \cup {N + 1}}
    /\ C # A => B = {} /\ D = B /\ S \subseteq A

\* The next payload is written.
LEMMA WriteInOrder ==
    ASSUME NEW A, NEW B, NEW S, NEW L, NEW N, InOrder(A, B, S, L, N),
           NEW C, NEW D, NEW T, Arrives(A, B, S, N, C, D, T)
    PROVE  /\ InOrder(C, D, T, L, N + 1)
           /\ Ahead(S, B, A \cup B) /\ (D = B \/ S \subseteq A \cup B) => Ahead(T, D, C \cup D)
<1>1. /\ N \in Nat /\ L \in Nat /\ L <= N /\ N + 1 \in L + 1..N + 1
      /\ \A j \in A \cup B \cup S : j \in L + 1..N /\ j < N + 1 /\ ~(N + 1 < j) /\ j \in L + 1..N + 1
      /\ ~(N + 1 < N + 1)
  BY DEF InOrder
<1>2. C \cup D \cup T \subseteq L + 1..N + 1
  BY <1>1 DEF Arrives
<1>3. \A j \in C, k \in D : j < k
  BY <1>1 DEF InOrder, Arrives
<1>4. Ahead(T, C, C)
  BY <1>1 DEF InOrder, Ahead, Arrives
<1>5. ASSUME Ahead(S, B, A \cup B), D = B \/ S \subseteq A \cup B
      PROVE  Ahead(T, D, C \cup D)
  BY <1>1, <1>5 DEF Ahead, Arrives
<1> QED
  BY <1>1, <1>2, <1>3, <1>4, <1>5 DEF InOrder

\* What is in flight on a link as frames come and go.
LEMMA FlightFacts ==
    /\ Flight(<<>>) = {}
    /\ \A s \in Seq(Frames), k \in Kinds : k # "PAYLOAD" => Flight(Added(s, k)) = Flight(s)
    /\ \A s \in Seq(Frames) : \A j : j \in Flight(s) <=> j \in Nat /\ Carries(s, j)
<1>1. Flight(<<>>) = {}
  BY EmptyWire DEF Flight
<1>2. ASSUME NEW s \in Seq(Frames), NEW k \in Kinds, k # "PAYLOAD"
      PROVE  Flight(Added(s, k)) = Flight(s)
  <2>1. \A n : Carries(Added(s, k), n) <=> Carries(s, n)
    BY <1>2, AddedFacts
  <2> QED
    BY <2>1 DEF Flight
<1>3. \A s \in Seq(Frames) : \A j : j \in Flight(s) <=> j \in Nat /\ Carries(s, j)
  BY DEF Flight
<1> QED
  BY <1>1, <1>2, <1>3

\* A step that may lose what is in flight to p, and changes no payload else.
LEMMA LossKeeps ==
    ASSUME NEW p \in Peer, OrderAt(p), sent' = sent, got' = got,
           Ordered(wire["old"][p])', Ordered(wire["new"][p])',
           NEW A, A = Flight(wire["old"][p]), NEW B, B = Flight(wire["new"][p]),
           NEW S, S = Missing(Other(p)),
           NEW C, C = Flight(wire'["old"][p]), Front(A, C),
           NEW D, D = Flight(wire'["new"][p]), Front(B, D),
           reported[Other(p)] => reported'[Other(p)],
           OldUp(p)' => OldUp(p) /\ C = A,
           Told(p)' => S \subseteq C \/ (Told(p) /\ A \cap S \subseteq C),
           Told(p)' /\ NewUp(p)' => S \subseteq C \/ (NewUp(p) /\ D = B)
    PROVE  OrderAt(p)'
<1> DEFINE L == LastOf(Other(p))
           N == Len(sent[Other(p)])
<1>1. /\ L' = L /\ N' = N /\ Missing(Other(p))' = S
  BY DEF LastOf, Missing
<1>2. InOrder(A, B, S, L, N) /\ Owing(p, A, B, S)
  BY DEF OrderAt
<1> HIDE DEF L, N
<1>3. InOrder(C, D, S, L, N) /\ Left(A, B, S, C, D)
  BY <1>2, LossInOrder
<1>4. /\ B # {} => reported[Other(p)]
      /\ OldUp(p) => S \subseteq A
      /\ Told(p) => Ahead(S, B, A \cup B)
      /\ Told(p) /\ NewUp(p) => S \subseteq A \cup B
  BY <1>2 DEF Owing
<1>5. D # {} => reported'[Other(p)]
  BY <1>4 DEF Front
<1>6. OldUp(p)' => S \subseteq C
  BY <1>4
<1>7. Told(p)' => Ahead(S, D, C \cup D)
  BY <1>3, <1>4 DEF Left
<1>8. Told(p)' /\ NewUp(p)' => S \subseteq C \cup D
  BY <1>3, <1>4 DEF Left
<1>9. /\ InOrder(C, D, S, L', N')
      /\ D # {} => reported'[Other(p)]
      /\ OldUp(p)' => S \subseteq C
      /\ Told(p)' => Ahead(S, D, C \cup D)
      /\ Told(p)' /\ NewUp(p)' => S \subseteq C \cup D
  BY <1>1, <1>3, <1>5, <1>6, <1>7, <1>8
<1> QED
  BY <1>1, <1>9 DEF OrderAt, Owing, L, N

\* No payload among late frames is sure.
LEMMA LateNotSure ==
    ASSUME NEW s \in Seq(Frames), NEW snt, AllLate(s, snt)
    PROVE  \A j : Carries(s, j) => ~snt[j]
  BY FrameFacts DEF AllLate, Late, Carries

\* Front of nothing lost and of everything lost.
LEMMA FrontFacts ==
    \A X : Front(X, X) /\ Front(X, {})
  BY DEF Front, Ahead

-------------------------------------------------------------------------------
(* Every step keeps the order *)

\* A step of p's owner loses at most what was in flight on links that it closes.
LEMMA ControlOrderSelf ==
    ASSUME ControlInv, SwapInv, NEW p \in Peer, OrderAt(p), ControlStep(p), ControlInv', SwapInv'
    PROVE  OrderAt(p)'
<1> DEFINE q == Other(p)
           o == wire["old"][p]
           n == wire["new"][p]
           A == Flight(o)
           B == Flight(n)
           S == Missing(q)
           C == Flight(wire'["old"][p])
           D == Flight(wire'["new"][p])
<1>1. /\ q \in Peer /\ q # p /\ Other(q) = p /\ Beside(p) /\ Forward(p) /\ OldWire(p) /\ NewWire(p)
      /\ SafeAt(p) /\ SafeAt(q) /\ SafeAt(p)' /\ RegAt(p) /\ RegAt(q)
  BY Pairs DEF SwapInv, ControlStep, ControlInv, RegInv
<1>2. o \in Seq(Frames) /\ n \in Seq(Frames)
  BY Pairs DEF ControlInv, TypeInv, Wires
<1>3. Ordered(o) /\ Ordered(n) /\ (B # {} => reported[q])
  BY DEF OrderAt, Owing
<1>4. sent' = sent /\ got' = got /\ broken' = broken /\ said'[q] = said[q] /\ reported'[q] = reported[q]
  BY <1>1 DEF Beside
<1>5. wire'["old"][p] = o \/ (wire'["old"][p] = <<>> /\ end'[p]["old"] = "closed")
  <2>1. end'[p]["old"] = "closed" => wire'["old"][p] = <<>>
    BY Pairs DEF ControlInv, WireInv
  <2> QED
    BY <1>1, <2>1 DEF OldWire
<1>6. /\ Ordered(wire'["old"][p])
      /\ C = A \/ (C = {} /\ wire'["old"][p] = <<>> /\ end'[p]["old"] = "closed")
  BY <1>3, <1>5, EmptyWire, FlightFacts
<1>7. reported[q] => reg[p] # "old"
  BY <1>1 DEF SafeAt, Heard, RegAt
<1>8. Ordered(wire'["new"][p]) /\ (D = B \/ (D = {} /\ ~NewUp(p)'))
  <2>1. CASE wire'["new"][p] = n
    BY <1>3, <2>1
  <2>2. CASE end'[p]["new"] \in {"absent", "closed"} /\ wire'["new"][p] = <<>>
    BY <2>2, EmptyWire, FlightFacts DEF NewUp
  <2>3. CASE n # <<>> /\ wire'["new"][p] = Tail(n) /\ reg[p] = "old"
    <3>1. B = {}
      BY <1>3, <1>7, <2>3
    <3> DEFINE t == Tail(n)
    <3>2. t \in Seq(Frames) /\ Window(t, n)
      BY <1>2, <2>3, TailFrame
    <3>3. wire'["new"][p] = t
      BY <2>3
    <3> HIDE DEF t
    <3>4. Ordered(t) /\ \A k : Carries(t, k) => Carries(n, k)
      BY <1>2, <1>3, <3>2, WindowKeeps
    <3>5. Flight(t) = {}
      BY <3>1, <3>4 DEF Flight
    <3> QED
      BY <3>1, <3>3, <3>4, <3>5
  <2> QED
    BY <1>1, <2>1, <2>2, <2>3 DEF NewWire
<1>9. Heard(p)' => Heard(p)
  <2>1. "SAFE_TO_CLOSE" \in Kinds
    BY DEF Kinds
  <2> QED
    BY <1>1, <2>1 DEF Heard, Forward
<1>10. Told(p)' => Told(p) /\ A \cap S \subseteq C
  <2>1. CASE wire'["old"][p] = o
    BY <1>9, <2>1 DEF Told
  <2>2. CASE wire'["old"][p] = <<>>
    <3>1. Told(p)' => Heard(p)
      BY <1>9, <2>2, EmptyWire DEF Told
    <3>2. Heard(p) => AllLate(o, sent[q])
      BY <1>1 DEF SafeAt
    <3>3. Heard(p) => \A j : Carries(o, j) => ~sent[q][j]
      BY <1>2, <3>2, LateNotSure
    <3>4. Heard(p) => A \cap S = {}
      BY <3>3 DEF Flight, Missing
    <3> QED
      BY <3>1, <3>4 DEF Told
  <2> QED
    BY <1>5, <2>1, <2>2
<1>11. OldUp(p)' => OldUp(p) /\ C = A
  BY <1>1, <1>4, <1>6 DEF OldUp, OldWire, Beside
<1>12. Told(p)' /\ NewUp(p)' => NewUp(p) /\ D = B
  <2>1. Told(p)' => reg[q] # "old"
    BY <1>1, <1>4 DEF Told, SafeAt, RegAt
  <2> QED
    BY <1>1, <1>4, <1>8, <2>1 DEF NewUp, NewWire
<1>13. Front(A, C) /\ Front(B, D)
  BY <1>6, <1>8, FrontFacts
<1> HIDE DEF A, B, S, C, D, o, n
<1>14. A = Flight(wire["old"][p]) /\ B = Flight(wire["new"][p]) /\ S = Missing(Other(p))
       /\ C = Flight(wire'["old"][p]) /\ D = Flight(wire'["new"][p])
  BY DEF A, B, S, C, D, o, n, q
<1> QED
  BY <1>4, <1>6, <1>8, <1>10, <1>11, <1>12, <1>13, <1>14, LossKeeps DEF q

\* A step of p's owner writes no payload; SAFE_TO_CLOSE follows all that is owed.
LEMMA ControlOrderOther ==
    ASSUME ControlInv, SwapInv, NEW p \in Peer, OrderAt(Other(p)), ControlStep(p), ControlInv', SwapInv'
    PROVE  OrderAt(Other(p))'
<1> DEFINE r == Other(p)
           o == wire["old"][r]
           n == wire["new"][r]
           A == Flight(o)
           B == Flight(n)
           S == Missing(p)
           t == wire'["old"][r]
           u == wire'["new"][r]
<1>1. /\ r \in Peer /\ r # p /\ Other(r) = p /\ Beside(p) /\ Forward(p) /\ OldWire(p) /\ NewWire(p)
      /\ SafeAt(r) /\ SafeAt(r)' /\ RegAt(p) /\ LastWriteAt(p)'
  BY Pairs DEF SwapInv, ControlStep, ControlInv, RegInv
<1>2. o \in Seq(Frames) /\ n \in Seq(Frames)
  BY Pairs DEF ControlInv, TypeInv, Wires
<1>3. Ordered(o) /\ Ordered(n) /\ (B # {} => reported[p]) /\ (OldUp(r) => S \subseteq A)
  BY <1>1 DEF OrderAt, Owing
<1>4. /\ sent' = sent /\ got' = got /\ broken' = broken /\ reg'[r] = reg[r] /\ (reported[p] => reported'[p])
      /\ end'[r]["old"] = end[r]["old"] /\ inbox'[r] = inbox[r] /\ pc'[r] = pc[r]
      /\ reported'[r] = reported[r]
  BY <1>1 DEF Beside, Forward
<1>5. /\ \A k \in {"OFFER", "UPGRADE_FAILURE", "LAST_WRITE", "SAFE_TO_CLOSE", "DISCONNECTION",
                   "INTRODUCTION", "INTRODUCTION_ACK"} : k \in Kinds /\ k # "PAYLOAD"
      /\ 0 \in Nat
  BY DEF Kinds
<1>6. \A s \in Seq(Frames), k \in Kinds : k # "PAYLOAD" =>
         /\ Added(s, k) \in Seq(Frames) /\ Flight(Added(s, k)) = Flight(s)
         /\ Ordered(s) => Ordered(Added(s, k))
         /\ \A c : Holds(Added(s, k), c) <=> Holds(s, c) \/ k = c
  <2> SUFFICES ASSUME NEW s \in Seq(Frames), NEW k \in Kinds, k # "PAYLOAD"
               PROVE  /\ Added(s, k) \in Seq(Frames) /\ Flight(Added(s, k)) = Flight(s)
                      /\ Ordered(s) => Ordered(Added(s, k))
                      /\ \A c : Holds(Added(s, k), c) <=> Holds(s, c) \/ k = c
    OBVIOUS
  <2>1. /\ Added(s, k) \in Seq(Frames) /\ (Ordered(s) => Ordered(Added(s, k)))
        /\ \A c : Holds(Added(s, k), c) <=> Holds(s, c) \/ k = c
    BY <1>5, AddedFacts
  <2> QED
    BY <2>1, FlightFacts
<1>7. /\ Ordered(t) /\ Flight(t) = A
      /\ Holds(t, "SAFE_TO_CLOSE") => Holds(o, "SAFE_TO_CLOSE") \/ OldUp(r)
  <2> HIDE DEF o, t, A
  <2>0. A = Flight(o) /\ o \in Seq(Frames) /\ Ordered(o)
    BY <1>2, <1>3 DEF A
  <2>1. CASE t = o
    BY <2>0, <2>1
  <2>2. CASE \E k \in {"OFFER", "UPGRADE_FAILURE", "LAST_WRITE", "DISCONNECTION"} : t = Added(o, k)
    BY <1>5, <1>6, <2>0, <2>2
  <2>3. CASE OldOpen(p) /\ t = Added(o, "SAFE_TO_CLOSE")
    <3>1. OldUp(r)
      BY <1>1, <2>3 DEF OldOpen, OldUp
    <3> QED
      BY <1>5, <1>6, <2>0, <2>3, <3>1
  <2>4. CASE OldOpen(p) /\ t = Added(Added(o, "LAST_WRITE"), "SAFE_TO_CLOSE")
    <3>1. OldUp(r)
      BY <1>1, <2>4 DEF OldOpen, OldUp
    <3> QED
      BY <1>5, <1>6, <2>0, <2>4, <3>1
  <2> QED
    BY <1>1, <2>1, <2>2, <2>3, <2>4 DEF OldWire, Wrote, o, t
<1>8. Ordered(u) /\ Flight(u) = B
  <2> HIDE DEF n, u, B
  <2>0. B = Flight(n) /\ n \in Seq(Frames) /\ Ordered(n)
    BY <1>2, <1>3 DEF B
  <2>1. CASE u = n
    BY <2>0, <2>1
  <2>2. CASE \E k \in {"UPGRADE_FAILURE", "INTRODUCTION_ACK"} : u = Added(n, k)
    BY <1>5, <1>6, <2>0, <2>2
  <2>3. CASE reg[p] = "old" /\ u = <<Frame("INTRODUCTION")>>
    <3>1. B = {}
      BY <1>1, <1>3, <2>3 DEF RegAt, B
    <3>2. u = Added(<<>>, "INTRODUCTION")
      BY <1>5, <2>3, OneFrame
    <3> QED
      BY <1>5, <1>6, <3>1, <3>2, EmptyWire, FlightFacts
  <2> QED
    BY <1>1, <2>1, <2>2, <2>3 DEF NewWire, n, u
<1>9. OldUp(r)' => OldUp(r)
  BY <1>1, <1>4 DEF OldUp, OldWire
<1>10. Told(r)' => S \subseteq A \/ Told(r)
  BY <1>3, <1>4, <1>7 DEF Told, Heard
<1>11. Told(r)' /\ NewUp(r)' => NewUp(r)
  <2>1. Told(r)' => reg[r] # "old"
    BY <1>1, <1>4 DEF Told, SafeAt, LastWriteAt
  <2> QED
    BY <1>1, <1>4, <2>1 DEF NewUp, Beside
<1>12. Front(A, A) /\ Front(B, B)
  BY FrontFacts
<1> HIDE DEF A, B, S, o, n
<1>13. /\ A = Flight(wire["old"][r]) /\ B = Flight(wire["new"][r]) /\ S = Missing(Other(r))
       /\ A = Flight(wire'["old"][r]) /\ B = Flight(wire'["new"][r])
       /\ Ordered(wire'["old"][r]) /\ Ordered(wire'["new"][r])
       /\ reported[Other(r)] => reported'[Other(r)]
       /\ r \in Peer /\ OrderAt(r)
  BY <1>1, <1>4, <1>7, <1>8 DEF A, B, S, o, n
<1> HIDE DEF r, t, u
<1>14. OrderAt(r)'
  BY <1>4, <1>9, <1>10, <1>11, <1>12, <1>13, LossKeeps
<1> QED
  BY <1>14 DEF r

\* What arrives of a link that breaks is the front of what was in flight.
LEMMA PrefixFlight ==
    ASSUME NEW s \in Seq(Frames), NEW t, \E c \in 0..Len(s) : t = SubSeq(s, 1, c),
           Ordered(s), NEW snt
    PROVE  /\ t \in Seq(Frames) /\ Ordered(t) /\ Front(Flight(s), Flight(t))
           /\ Holds(t, "SAFE_TO_CLOSE") => Holds(s, "SAFE_TO_CLOSE")
           /\ LateAfterSafe(s, snt) /\ Holds(t, "SAFE_TO_CLOSE") =>
                 \A j : Carries(s, j) /\ snt[j] => Carries(t, j)
<1>1. /\ t \in Seq(Frames) /\ Window(t, s)
      /\ \A m, j \in Nat : Carries(t, m) /\ Carries(s, j) /\ j < m => Carries(t, j)
      /\ LateAfterSafe(s, snt) /\ Holds(t, "SAFE_TO_CLOSE") =>
            \A j : Carries(s, j) /\ snt[j] => Carries(t, j)
  BY PrefixFrame
<1>2. /\ \A k : Holds(t, k) => Holds(s, k)
      /\ \A k : Carries(t, k) => Carries(s, k)
      /\ Ordered(t)
  BY <1>1, WindowKeeps
<1>3. Front(Flight(s), Flight(t))
  BY <1>1, <1>2 DEF Front, Ahead, Flight
<1> QED
  BY <1>1, <1>2, <1>3

\* A break loses the end of what is in flight, and nothing owed before a SAFE_TO_CLOSE that
\* arrives.
LEMMA BreakOrder ==
    ASSUME ControlInv, SwapInv, NEW l \in Link, BreakStep(l), NEW p \in Peer, OrderAt(p)
    PROVE  OrderAt(p)'
<1> DEFINE q == Other(p)
           o == wire["old"][p]
           n == wire["new"][p]
           A == Flight(o)
           B == Flight(n)
           S == Missing(q)
           C == Flight(wire'["old"][p])
           D == Flight(wire'["new"][p])
<1>1. SafeAt(p) /\ o \in Seq(Frames) /\ n \in Seq(Frames) /\ Ordered(o) /\ Ordered(n)
  BY Pairs DEF SwapInv, ControlInv, TypeInv, Wires, OrderAt
<1>2. /\ sent' = sent /\ got' = got /\ broken' = broken \cup {l} /\ l \notin broken
      /\ end' = end /\ inbox' = inbox /\ pc' = pc /\ reported' = reported
      /\ \E c \in 0..Len(wire[l][p]) : wire'[l][p] = SubSeq(wire[l][p], 1, c)
      /\ \A m \in Link : m # l => wire'[m][p] = wire[m][p]
  BY DEF BreakStep
<1>3. Heard(p)' = Heard(p) /\ (OldUp(p)' => OldUp(p)) /\ (NewUp(p)' => NewUp(p))
  BY <1>2 DEF Heard, OldUp, NewUp
<1>4. Heard(p) => A \cap S = {}
  <2>1. Heard(p) => AllLate(o, sent[q])
    BY <1>1 DEF SafeAt
  <2>2. Heard(p) => \A j : Carries(o, j) => ~sent[q][j]
    BY <1>1, <2>1, LateNotSure
  <2> QED
    BY <2>2 DEF Flight, Missing
<1>5. /\ Ordered(wire'["old"][p]) /\ Front(A, C) /\ (OldUp(p)' => C = A)
      /\ Told(p)' => Told(p) /\ A \cap S \subseteq C
  <2>1. CASE l = "old"
    <3> DEFINE t == wire'["old"][p]
    <3>1. \E c \in 0..Len(o) : t = SubSeq(o, 1, c)
      BY <1>2, <2>1
    <3> HIDE DEF o, t
    <3>2. /\ t \in Seq(Frames) /\ Ordered(t) /\ Front(Flight(o), Flight(t))
          /\ Holds(t, "SAFE_TO_CLOSE") => Holds(o, "SAFE_TO_CLOSE")
          /\ LateAfterSafe(o, sent[q]) /\ Holds(t, "SAFE_TO_CLOSE") =>
                \A j : Carries(o, j) /\ sent[q][j] => Carries(t, j)
      BY <1>1, <3>1, PrefixFlight
    <3>3. LateAfterSafe(o, sent[q])
      BY <1>1 DEF SafeAt, o
    <3>4. Holds(t, "SAFE_TO_CLOSE") => A \cap S \subseteq Flight(t)
      BY <3>2, <3>3 DEF Flight, Missing
    <3>5. Told(p)' => Told(p) /\ A \cap S \subseteq Flight(t)
      BY <1>3, <1>4, <3>2, <3>4 DEF Told, o, t
    <3>6. ~OldUp(p)'
      BY <1>2, <2>1 DEF OldUp
    <3> QED
      BY <3>2, <3>5, <3>6 DEF t
  <2>2. CASE l # "old"
    <3>1. wire'["old"][p] = o
      BY <1>2, <2>2, Pairs
    <3> QED
      BY <1>1, <1>3, <3>1, FrontFacts DEF Told
  <2> QED
    BY <2>1, <2>2
<1>6. Ordered(wire'["new"][p]) /\ Front(B, D) /\ (NewUp(p)' => D = B)
  <2>1. CASE l = "new"
    <3> DEFINE t == wire'["new"][p]
    <3>1. \E c \in 0..Len(n) : t = SubSeq(n, 1, c)
      BY <1>2, <2>1
    <3> HIDE DEF n, t
    <3>2. Ordered(t) /\ Front(Flight(n), Flight(t))
      BY <1>1, <3>1, PrefixFlight
    <3>3. ~NewUp(p)'
      BY <1>2, <2>1 DEF NewUp
    <3> QED
      BY <3>2, <3>3 DEF t
  <2>2. CASE l # "new"
    <3>1. wire'["new"][p] = n
      BY <1>2, <2>2, Pairs
    <3> QED
      BY <1>1, <3>1, FrontFacts
  <2> QED
    BY <2>1, <2>2
<1> HIDE DEF A, B, S, C, D, o, n
<1>7. A = Flight(wire["old"][p]) /\ B = Flight(wire["new"][p]) /\ S = Missing(Other(p))
      /\ C = Flight(wire'["old"][p]) /\ D = Flight(wire'["new"][p])
  BY DEF A, B, S, C, D, o, n, q
<1> QED
  BY <1>2, <1>3, <1>5, <1>6, <1>7, LossKeeps

\* What is in flight after the first frame was read.
LEMMA TailFlight ==
    ASSUME NEW s \in Seq(Frames), s # <<>>, Ordered(s)
    PROVE  /\ Tail(s) \in Seq(Frames) /\ Ordered(Tail(s))
           /\ \A k : Holds(s, k) <=> Head(s).kind = k \/ Holds(Tail(s), k)
           /\ Head(s).kind # "PAYLOAD" => Flight(Tail(s)) = Flight(s)
           /\ Head(s).kind = "PAYLOAD" =>
                 /\ Head(s).n \in Flight(s) /\ Flight(Tail(s)) = Flight(s) \ {Head(s).n}
                 /\ \A j \in Flight(Tail(s)) : Head(s).n < j
<1> DEFINE t == Tail(s)
           f == Head(s)
<1>1. /\ t \in Seq(Frames) /\ Window(t, s) /\ f \in Frames
      /\ \A k : Holds(s, k) <=> f.kind = k \/ Holds(t, k)
      /\ \A n : Carries(s, n) <=> f = Payload(n) \/ Carries(t, n)
      /\ f.kind = "PAYLOAD" => \A n \in Nat : Carries(t, n) => f.n < n
  BY TailFrame
<1> HIDE DEF t, f
<1>2. Ordered(t)
  BY <1>1, WindowKeeps
<1>3. f.kind # "PAYLOAD" => Flight(t) = Flight(s)
  BY <1>1, FrameFacts DEF Flight
<1>4. ASSUME f.kind = "PAYLOAD"
      PROVE  /\ f.n \in Flight(s) /\ Flight(t) = Flight(s) \ {f.n}
             /\ \A j \in Flight(t) : f.n < j
  <2>1. f = Payload(f.n) /\ f.n \in Nat /\ ~(f.n < f.n)
    BY <1>1, <1>4 DEF Frames, Payload
  <2>2. \A j : f = Payload(j) <=> j = f.n
    BY <2>1, FrameFacts
  <2> QED
    BY <1>1, <1>4, <2>1, <2>2 DEF Flight
<1> QED
  BY <1>1, <1>2, <1>3, <1>4 DEF t, f

\* A step that does not concern p.
LEMMA SameOrder ==
    ASSUME NEW p \in Peer, OrderAt(p), NEW q, q = Other(p),
           sent'[q] = sent[q], got'[q] = got[q], UNCHANGED <<end, broken, pc, reported>>,
           inbox'[p] = inbox[p],
           wire'["old"][p] = wire["old"][p], wire'["new"][p] = wire["new"][p]
    PROVE  OrderAt(p)'
<1>1. (OldUp(p)' <=> OldUp(p)) /\ (NewUp(p)' <=> NewUp(p))
  BY DEF OldUp, NewUp
<1>2. Told(p)' <=> Told(p)
  BY DEF Told, Heard
<1>3. Missing(q)' = Missing(q) /\ LastOf(q)' = LastOf(q)
  BY DEF Missing, LastOf
<1> QED
  BY <1>1, <1>2, <1>3 DEF OrderAt, Owing

\* Payload n of q is the next to be delivered.
Delivers(q, n) ==
    /\ n \in LastOf(q) + 1..Len(sent[q]) /\ \A j \in LastOf(q) + 1..n - 1 : ~sent[q][j]
    /\ got' = [got EXCEPT ![q] = Append(got[q], n)]

\* What a reader takes off a link is the next payload, or none.
LEMMA ReadOrder ==
    ASSUME ControlInv, SwapInv, NEW p \in Peer, NEW l \in Link, ReadStep(p, l), OrderAt(p)
    PROVE  /\ OrderAt(p)'
           /\ got' = got \/ \E n \in Nat : Delivers(Other(p), n)
<1> DEFINE q == Other(p)
           s == wire[l][p]
           f == Head(s)
           A == Flight(wire["old"][p])
           B == Flight(wire["new"][p])
           C == Flight(wire'["old"][p])
           D == Flight(wire'["new"][p])
           S == Missing(q)
           L == LastOf(q)
           N == Len(sent[q])
<1>1. /\ q \in Peer /\ q # p /\ SafeAt(p) /\ RegAt(p) /\ got \in [Peer -> Seq(Nat)]
      /\ sent[q] \in Seq(BOOLEAN) /\ s \in Seq(Frames)
      /\ end[p]["old"] = "closed" => wire["old"][p] = <<>>
      /\ Holds(s, "SAFE_TO_CLOSE") => l = "old"
  <2>1. q \in Peer /\ q # p /\ SafeAt(p) /\ RegAt(p) /\ TypeInv /\ WireInv
    BY Pairs DEF SwapInv, ControlInv, RegInv
  <2>2. got \in [Peer -> Seq(Nat)] /\ sent[q] \in Seq(BOOLEAN) /\ s \in Seq(Frames)
    BY <2>1 DEF TypeInv, Wires
  <2>3. /\ end[p]["old"] = "closed" => wire["old"][p] = <<>>
        /\ Holds(s, "SAFE_TO_CLOSE") => l = "old"
    BY <2>1, Pairs DEF WireInv
  <2> QED
    BY <2>1, <2>2, <2>3
<1>2. /\ UNCHANGED <<end, broken, pc, reported, sent>> /\ inbox \in [Peer -> Seq(Commands)]
      /\ s # <<>> /\ wire'[l][p] = Tail(s) /\ got'[p] = got[p] /\ got' \in [Peer -> Seq(Nat)]
      /\ \A m \in Link : m # l => wire'[m][p] = wire[m][p]
      /\ l = "new" => reported[p]
      /\ \/ f.kind = "PAYLOAD" /\ inbox' = inbox /\ got'[q] = Append(got[q], f.n)
         \/ f.kind # "PAYLOAD" /\ got' = got /\ inbox' = inbox
         \/ f.kind # "PAYLOAD" /\ got' = got /\ inbox'[p] = Append(inbox[p], f.kind)
  BY DEF ReadStep, ControlInv, TypeInv
<1>3. Ordered(wire["old"][p]) /\ Ordered(wire["new"][p]) /\ InOrder(A, B, S, L, N) /\ Owing(p, A, B, S)
  BY DEF OrderAt
<1>4. Ordered(s)
  BY <1>3, Pairs
<1>5. /\ Tail(s) \in Seq(Frames) /\ Ordered(Tail(s))
      /\ \A k : Holds(s, k) <=> f.kind = k \/ Holds(Tail(s), k)
      /\ f.kind # "PAYLOAD" => Flight(Tail(s)) = Flight(s)
      /\ f.kind = "PAYLOAD" => /\ f.n \in Flight(s) /\ Flight(Tail(s)) = Flight(s) \ {f.n}
                               /\ \A j \in Flight(Tail(s)) : f.n < j
  BY <1>1, <1>2, <1>4, TailFlight
<1> DEFINE t == Tail(s)
<1>6. wire'[l][p] = t
  BY <1>2
<1> HIDE DEF t, f
<1>7. Ordered(wire'["old"][p]) /\ Ordered(wire'["new"][p])
  BY <1>2, <1>3, <1>5, <1>6, Pairs DEF t
<1>8. (OldUp(p)' <=> OldUp(p)) /\ (NewUp(p)' <=> NewUp(p)) /\ (reported[p] => Told(p))
  BY <1>2 DEF OldUp, NewUp, Told, Heard
<1>9. Told(p)' => Told(p)
  <2>1. Queued(inbox'[p], "SAFE_TO_CLOSE") =>
           Queued(inbox[p], "SAFE_TO_CLOSE") \/ f.kind = "SAFE_TO_CLOSE"
    <3>1. inbox[p] \in Seq(Commands) /\ f \in Frames /\ (f.kind = "SAFE_TO_CLOSE" => f.kind \in Commands)
      <4>1. f \in Frames
        BY <1>1, <1>2, TailFrame DEF f
      <4>2. inbox[p] \in Seq(Commands) /\ "SAFE_TO_CLOSE" \in Commands
        BY <1>2 DEF Commands, Kinds
      <4> QED
        BY <4>1, <4>2
    <3>2. CASE inbox'[p] = inbox[p]
      BY <3>2
    <3>3. CASE inbox'[p] = Append(inbox[p], f.kind)
      BY <3>1, <3>3 DEF Queued
    <3> QED
      BY <1>2, <3>2, <3>3
  <2>2. f.kind = "SAFE_TO_CLOSE" => Holds(wire["old"][p], "SAFE_TO_CLOSE")
    BY <1>1, <1>5
  <2>3. Holds(wire'["old"][p], "SAFE_TO_CLOSE") => Holds(wire["old"][p], "SAFE_TO_CLOSE")
    BY <1>2, <1>5, <1>6, Pairs DEF t
  <2> QED
    BY <1>2, <2>1, <2>2, <2>3 DEF Told, Heard
<1>10. CASE f.kind # "PAYLOAD"
  <2>1. C = A /\ D = B /\ got' = got
    BY <1>2, <1>5, <1>6, <1>10, Pairs DEF t
  <2>2. Front(A, C) /\ Front(B, D)
    BY <2>1, FrontFacts
  <2> HIDE DEF A, B, C, D, S
  <2>3. /\ A = Flight(wire["old"][p]) /\ B = Flight(wire["new"][p]) /\ S = Missing(Other(p))
        /\ C = Flight(wire'["old"][p]) /\ D = Flight(wire'["new"][p])
    BY DEF A, B, C, D, S, q
  <2>4. OrderAt(p)'
    BY <1>2, <1>7, <1>8, <1>9, <2>1, <2>2, <2>3, LossKeeps
  <2> QED
    BY <2>1, <2>4
<1>11. CASE f.kind = "PAYLOAD"
  <2> DEFINE n == f.n
             T == After(S, n)
  <2>1. got'[q] = Append(got[q], n) /\ got' = [got EXCEPT ![q] = Append(got[q], n)]
    <3>1. got'[q] = Append(got[q], n) /\ got'[p] = got[p]
      BY <1>2, <1>11
    <3> DEFINE g == Append(got[q], n)
    <3>2. got'[q] = g /\ got'[p] = got[p]
      BY <3>1
    <3> HIDE DEF g
    <3>3. got' = [got EXCEPT ![q] = g]
      BY <1>1, <1>2, <3>2, Pairs
    <3> QED
      BY <3>1, <3>3 DEF g
  <2>2. n \in Flight(s) /\ Flight(t) = Flight(s) \ {n} /\ \A j \in Flight(t) : n < j
    BY <1>5, <1>11 DEF t
  <2>3. n \in Nat /\ got[q] \in Seq(Nat)
    BY <1>1, <2>2 DEF Flight
  <2>4. LastOf(q)' = n
    <3> HIDE DEF n
    <3>1. /\ Append(got[q], n) # <<>> /\ Len(Append(got[q], n)) = Len(got[q]) + 1
          /\ Append(got[q], n)[Len(got[q]) + 1] = n
      BY <2>3
    <3> DEFINE g == Append(got[q], n)
    <3>2. got'[q] = g /\ g # <<>> /\ g[Len(g)] = n
      BY <2>1, <3>1
    <3> HIDE DEF g
    <3> QED
      BY <3>2 DEF LastOf
  <2> HIDE DEF n
  <2>5. Leaves(A, B, C, D, n) /\ (n \in A \/ Ahead(S, B, A \cup B))
    <3>1. CASE l = "old"
      <4>1. C = Flight(t) /\ D = B /\ A = Flight(s)
        BY <1>2, <1>6, <3>1, Pairs
      <4>2. \A k \in B : n < k
        BY <1>3, <2>2, <4>1 DEF InOrder
      <4>3. n \notin B
        BY <2>3, <4>2
      <4> QED
        BY <2>2, <4>1, <4>2, <4>3 DEF Leaves
    <3>2. CASE l = "new"
      <4>1. D = Flight(t) /\ B = Flight(s) /\ C = A
        BY <1>2, <1>6, <3>2, Pairs
      <4>2. reported[p] /\ Told(p)
        BY <1>2, <1>8, <3>2
      <4>3. A = {}
        BY <1>1, <4>2, FlightFacts DEF RegAt
      <4>4. Ahead(S, B, A \cup B)
        BY <1>3, <4>2 DEF Owing
      <4> QED
        BY <2>2, <4>1, <4>3, <4>4 DEF Leaves
    <3> QED
      BY <3>1, <3>2, Pairs
  <2> HIDE DEF A, B, C, D, S, L, N
  <2>6. T = After(S, n)
    OBVIOUS
  <2> HIDE DEF T
  <2>7. /\ InOrder(C, D, T, n, N) /\ n \in L + 1..N /\ Rest(A, B, S, C, D, T)
        /\ \A j \in S : ~(j < n)
    <3>1. InOrder(A, B, S, L, N) /\ Leaves(A, B, C, D, n)
      BY <1>3, <2>5
    <3>2. /\ InOrder(C, D, T, n, N) /\ n \in L + 1..N /\ Rest(A, B, S, C, D, T)
          /\ NoneSkipped(A, B, S, n)
      BY <2>6, <3>1, DeliverInOrder
    <3> QED
      BY <2>5, <3>2 DEF NoneSkipped
  <2>8. Missing(q)' = T
    <3>1. L \in Nat /\ N \in Nat /\ n \in L + 1..N
      BY <1>3, <2>7 DEF InOrder
    <3>2. S = {j \in 1..N : sent[q][j] /\ L < j}
      BY DEF S, Missing, L, N
    <3>3. Missing(q)' = {j \in 1..N : sent[q][j] /\ n < j}
      BY <1>2, <2>4 DEF Missing, N
    <3> QED
      BY <2>6, <3>1, <3>2, <3>3 DEF After
  <2>9. \A j \in L + 1..n - 1 : ~sent[q][j]
    <3>1. L \in Nat /\ N \in Nat /\ n \in L + 1..N
      BY <1>3, <2>7 DEF InOrder
    <3>2. S = {j \in 1..N : sent[q][j] /\ L < j}
      BY DEF S, Missing, L, N
    <3>3. \A j \in L + 1..n - 1 : j \in 1..N /\ L < j /\ j < n
      BY <3>1
    <3> QED
      BY <2>7, <3>2, <3>3
  <2>10. Delivers(q, n)
    BY <2>1, <2>7, <2>9 DEF Delivers, L, N
  <2>11. /\ D # {} => reported'[q]
         /\ OldUp(p)' => T \subseteq C
         /\ Told(p)' => Ahead(T, D, C \cup D)
         /\ Told(p)' /\ NewUp(p)' => T \subseteq C \cup D
    <3>1. /\ B # {} => reported[q]
          /\ OldUp(p) => S \subseteq A
          /\ Told(p) => Ahead(S, B, A \cup B)
          /\ Told(p) /\ NewUp(p) => S \subseteq A \cup B
      BY <1>3 DEF Owing
    <3>2. D # {} => reported'[q]
      BY <1>2, <2>5, <3>1 DEF Leaves
    <3>3. /\ OldUp(p)' => T \subseteq C
          /\ Told(p)' => Ahead(T, D, C \cup D)
          /\ Told(p)' /\ NewUp(p)' => T \subseteq C \cup D
      BY <1>8, <1>9, <2>7, <3>1 DEF Rest
    <3> QED
      BY <3>2, <3>3
  <2>12. OrderAt(p)'
    BY <1>2, <1>7, <2>4, <2>7, <2>8, <2>11 DEF OrderAt, Owing, C, D, N
  <2> QED
    BY <2>3, <2>10, <2>12
<1> QED
  BY <1>10, <1>11

\* A payload is written where all that is owed before it is in flight, or is not sure.
LEMMA WriteOrder ==
    ASSUME ControlInv, SwapInv, NEW w \in Peer, NEW l \in Link, WriteStep(w, l), OrderAt(Other(w))
    PROVE  OrderAt(Other(w))'
<1> DEFINE r == Other(w)
           A == Flight(wire["old"][r])
           B == Flight(wire["new"][r])
           C == Flight(wire'["old"][r])
           D == Flight(wire'["new"][r])
           S == Missing(w)
           T == Missing(w)'
           L == LastOf(w)
           N == Len(sent[w])
           x == Payload(N + 1)
           b == ~(l = "old" /\ said[w])
           far == end[r][l] # "closed"
<1>1. /\ r \in Peer /\ Other(r) = w /\ SafeAt(r) /\ RegAt(w) /\ DialInv /\ TypeInv
      /\ sent[w] \in Seq(BOOLEAN) /\ wire["old"][r] \in Seq(Frames) /\ wire["new"][r] \in Seq(Frames)
  <2>1. r \in Peer /\ Other(r) = w /\ SafeAt(r) /\ RegAt(w) /\ DialInv /\ TypeInv
    BY Pairs DEF SwapInv, ControlInv, RegInv
  <2> HIDE DEF r
  <2>2. wire["old"][r] \in Seq(Frames) /\ wire["new"][r] \in Seq(Frames)
    BY <2>1, Pairs DEF TypeInv, Wires
  <2>3. sent[w] \in Seq(BOOLEAN)
    BY <2>1 DEF TypeInv
  <2> QED
    BY <2>1, <2>2, <2>3
<1>2. /\ UNCHANGED <<end, broken, pc, reported, got, inbox>>
      /\ end[w][l] = "open" /\ l \notin broken /\ l \in handles[w]
      /\ sent'[w] = Append(sent[w], b)
      /\ wire'[l][r] = IF far THEN Append(wire[l][r], x) ELSE wire[l][r]
      /\ \A m \in Link : m # l => wire'[m][r] = wire[m][r]
  <2>1. wire'[l][r] = IF far THEN Append(wire[l][r], x) ELSE wire[l][r]
    BY DEF WriteStep
  <2> QED
    BY <1>1, <2>1 DEF WriteStep
<1>3. /\ Ordered(wire["old"][r]) /\ Ordered(wire["new"][r]) /\ InOrder(A, B, S, L, N)
      /\ B # {} => reported[w]
      /\ OldUp(r) => S \subseteq A
      /\ Told(r) => Ahead(S, B, A \cup B)
      /\ Told(r) /\ NewUp(r) => S \subseteq A \cup B
  BY <1>1 DEF OrderAt, Owing
<1>4. N \in Nat /\ L \in Nat /\ L <= N /\ x \in Frames /\ x.kind = "PAYLOAD" /\ x.n = N + 1
      /\ \A j : x = Payload(j) <=> j = N + 1
  <2>1. N \in Nat /\ L \in Nat /\ L <= N
    BY <1>3 DEF InOrder
  <2> HIDE DEF N
  <2> QED
    BY <2>1, FrameFacts
<1>5. \A m \in Link :
         /\ m # l \/ ~far => wire'[m][r] = wire[m][r]
         /\ m = l /\ far => /\ Flight(wire'[m][r]) = Flight(wire[m][r]) \cup {N + 1}
                            /\ Ordered(wire[m][r]) => Ordered(wire'[m][r])
                            /\ \A k : k # "PAYLOAD" => (Holds(wire'[m][r], k) <=> Holds(wire[m][r], k))
  <2>1. ASSUME far
        PROVE  /\ Flight(wire'[l][r]) = Flight(wire[l][r]) \cup {N + 1}
               /\ Ordered(wire[l][r]) => Ordered(wire'[l][r])
               /\ \A k : k # "PAYLOAD" => (Holds(wire'[l][r], k) <=> Holds(wire[l][r], k))
    <3> DEFINE s == wire[l][r]
               t == Append(s, x)
    <3>1. wire'[l][r] = t /\ s \in Seq(Frames)
      BY <1>1, <1>2, <2>1, Pairs
    <3>2. \A j \in Nat : Carries(s, j) => j < N + 1
      <4>1. \A j \in Nat : Carries(s, j) => j \in A \cup B
        BY Pairs DEF Flight
      <4>2. A \cup B \subseteq L + 1..N
        BY <1>3 DEF InOrder
      <4> HIDE DEF A, B, s, L, N
      <4> QED
        BY <1>4, <4>1, <4>2
    <3> HIDE DEF s, x
    <3>3. /\ \A k : Holds(t, k) <=> Holds(s, k) \/ x.kind = k
          /\ \A k : Carries(t, k) <=> Carries(s, k) \/ x = Payload(k)
      BY <1>4, <3>1, AppendFrame
    <3>4. Ordered(s) => Ordered(t)
      BY <1>4, <3>1, <3>2, AppendKeeps
    <3> HIDE DEF t, N
    <3>5. Flight(t) = Flight(s) \cup {N + 1}
      BY <1>4, <3>3 DEF Flight
    <3> QED
      BY <1>4, <3>1, <3>3, <3>4, <3>5 DEF s
  <2> QED
    BY <1>2, <2>1
<1>6. Ordered(wire'["old"][r]) /\ Ordered(wire'["new"][r])
  BY <1>3, <1>5, Pairs
<1>7. /\ Told(r)' <=> Told(r)
      /\ OldUp(r)' <=> OldUp(r)
      /\ NewUp(r)' <=> NewUp(r)
  <2>1. Holds(wire'["old"][r], "SAFE_TO_CLOSE") <=> Holds(wire["old"][r], "SAFE_TO_CLOSE")
    BY <1>5, Pairs
  <2> QED
    BY <1>2, <2>1 DEF Told, Heard, OldUp, NewUp
<1>8. /\ LastOf(w)' = L /\ Len(sent[w])' = N + 1
      /\ T = IF b THEN S \cup {N + 1} ELSE S
  <2>1. LastOf(w)' = L
    BY <1>2 DEF LastOf
  <2> DEFINE u == Append(sent[w], b)
  <2>2. /\ b \in BOOLEAN /\ Len(u) = N + 1 /\ u[N + 1] = b
        /\ \A j \in 1..N : u[j] = sent[w][j]
    BY <1>1
  <2>3. sent'[w] = u
    BY <1>2
  <2> HIDE DEF u, N, L, b
  <2>4. S = {j \in 1..N : sent[w][j] /\ L < j}
    BY DEF Missing, L, N
  <2>5. T = {j \in 1..N + 1 : u[j] /\ L < j}
    BY <2>1, <2>2, <2>3 DEF Missing
  <2>6. 1..N + 1 = (1..N) \cup {N + 1} /\ L < N + 1 /\ N + 1 \notin 1..N
    BY <1>4
  <2> HIDE DEF S, T
  <2>7. \A j \in 1..N : j \in T <=> j \in S
    BY <2>2, <2>4, <2>5, <2>6
  <2>8. N + 1 \in T <=> b
    BY <2>2, <2>5, <2>6
  <2>9. \A j : j \in S => j \in 1..N
    BY <2>4
  <2>10. \A j : j \in T => j \in 1..N \/ j = N + 1
    BY <2>5, <2>6
  <2>11. T = IF b THEN S \cup {N + 1} ELSE S
    BY <2>7, <2>8, <2>9, <2>10
  <2> QED
    BY <2>1, <2>2, <2>3, <2>11
<1>9. Told(r) => said[w]
  BY <1>1 DEF Told, SafeAt
<1>10. l = "old" => B = {} /\ D = B /\ (~far => C = A)
                    /\ (far => C = A \cup {N + 1} /\ S \subseteq A) /\ (~far => ~OldUp(r))
  <2>1. ASSUME l = "old"
        PROVE  D = B /\ (~far => C = A) /\ (far => C = A \cup {N + 1})
    BY <1>5, <2>1, Pairs
  <2>2. ASSUME l = "old"
        PROVE  B = {}
    BY <1>1, <1>2, <1>3, <2>2 DEF RegAt
  <2>3. ASSUME l = "old"
        PROVE  (far => S \subseteq A) /\ (~far => ~OldUp(r))
    BY <1>1, <1>2, <1>3, <2>3 DEF OldUp
  <2> QED
    BY <2>1, <2>2, <2>3
<1>11. l = "new" => C = A /\ reported[w] /\ ~OldUp(r) /\ b
                    /\ (far => D = B \cup {N + 1} /\ NewUp(r)) /\ (~far => D = B /\ ~NewUp(r))
  <2>1. ASSUME l = "new"
        PROVE  C = A /\ (~far => D = B) /\ (far => D = B \cup {N + 1}) /\ b
    BY <1>5, <2>1, Pairs
  <2>2. ASSUME l = "new"
        PROVE  reported[w] /\ end[w]["old"] = "closed"
    BY <1>1, <1>2, <2>2 DEF RegAt
  <2>3. ASSUME l = "new"
        PROVE  ~OldUp(r)
    BY <1>1, <2>2, <2>3 DEF OldUp
  <2>4. ASSUME l = "new"
        PROVE  (far => NewUp(r)) /\ (~far => ~NewUp(r))
    <3>1. end[r]["new"] # "absent"
      BY <1>1, <1>2, <2>4, Pairs DEF DialInv
    <3> QED
      BY <1>2, <2>4, <3>1 DEF NewUp
  <2> QED
    BY <2>1, <2>2, <2>3, <2>4
<1> HIDE DEF A, B, C, D, S, T, L, N
<1>12. Arrives(A, B, S, N, C, D, T)
  BY <1>8, <1>10, <1>11, Pairs DEF Arrives
<1>13. /\ InOrder(C, D, T, L, N + 1)
       /\ Ahead(S, B, A \cup B) /\ (D = B \/ S \subseteq A \cup B) => Ahead(T, D, C \cup D)
  BY <1>3, <1>12, WriteInOrder
<1>14. D # {} => reported'[w]
  BY <1>2, <1>3, <1>10, <1>11, Pairs
<1>15. OldUp(r)' => T \subseteq C
  BY <1>3, <1>7, <1>8, <1>10, <1>11, Pairs
<1>16. Told(r)' => Ahead(T, D, C \cup D)
  BY <1>3, <1>7, <1>10, <1>11, <1>13, Pairs
<1>17. Told(r)' /\ NewUp(r)' => T \subseteq C \cup D
  BY <1>3, <1>7, <1>8, <1>9, <1>10, <1>11, Pairs
<1>18. OrderAt(r)'
  <2>1. /\ InOrder(C, D, T, LastOf(w)', Len(sent[w])')
        /\ Other(r) = w
        /\ C = Flight(wire'["old"][r]) /\ D = Flight(wire'["new"][r]) /\ T = Missing(w)'
    BY <1>1, <1>8, <1>13 DEF C, D, T, L
  <2> HIDE DEF r
  <2> QED
    BY <1>6, <1>14, <1>15, <1>16, <1>17, <2>1 DEF OrderAt, Owing
<1> QED
  BY <1>18 DEF r

\* At the start nothing is in flight and nothing owed.
LEMMA InitOrder ==
    ASSUME Init
    PROVE  OrderInv
<1> SUFFICES ASSUME NEW p \in Peer
             PROVE  OrderAt(p)
  BY DEF OrderInv
<1> DEFINE q == Other(p)
<1>1. q \in Peer
  BY Pairs
<1>2. wire["old"][p] = <<>> /\ wire["new"][p] = <<>> /\ sent[q] = <<>> /\ got[q] = <<>>
  BY <1>1, Pairs DEF Init
<1>3. LastOf(q) = 0 /\ Len(sent[q]) = 0 /\ Missing(q) = {}
  BY <1>2 DEF LastOf, Missing
<1>4. /\ Ordered(wire["old"][p]) /\ Ordered(wire["new"][p])
      /\ Flight(wire["old"][p]) = {} /\ Flight(wire["new"][p]) = {}
  BY <1>2, EmptyWire, FlightFacts
<1>5. InOrder({}, {}, {}, 0, 0)
  BY DEF InOrder, Ahead
<1>6. Owing(p, {}, {}, {})
  BY DEF Owing, Ahead
<1> QED
  BY <1>3, <1>4, <1>5, <1>6 DEF OrderAt

\* A disturbance is never forgotten.
LEMMA FaultsGrow ==
    ASSUME [Next]_vars
    PROVE  faults \subseteq faults'
<1>1. CASE UNCHANGED vars
  BY <1>1 DEF vars
<1>2. CASE Offer \/ ResetUpgrade
  BY <1>2 DEF Offer, ResetUpgrade, Disturb
<1>3. ASSUME NEW p \in Peer, OwnerStep(p)
      PROVE  faults \subseteq faults'
  <2>1. CASE DuplicateOffer(p) \/ RefuseOffer(p) \/ JoinOffer(p) \/ ReadAck(p)
    BY <2>1 DEF DuplicateOffer, RefuseOffer, JoinOffer, ReadAck
  <2>2. CASE OnIncomingConnection(p) \/ ReadIntroduction(p) \/ OnLastWrite(p) \/ OnSafeToClose(p)
    BY <2>2 DEF OnIncomingConnection, ReadIntroduction, OnLastWrite, OnSafeToClose
  <2>3. CASE Drain(p) \/ OnUpgradeFailure(p) \/ Ignore(p)
    BY <2>3 DEF Drain, OnUpgradeFailure, Ignore
  <2> QED
    BY <1>3, <2>1, <2>2, <2>3 DEF OwnerStep
<1>4. ASSUME NEW p \in Peer,
             Accept(p) \/ ReadOld(p) \/ ReadNew(p) \/ GetUpgradedChannel(p) \/ Disconnect(p)
      PROVE  faults \subseteq faults'
  BY <1>4 DEF Accept, ReadOld, ReadNew, GetUpgradedChannel, Disconnect, Disturb
<1>5. ASSUME NEW p \in Peer, NEW l \in Link, WritePayload(p, l) \/ Break(l)
      PROVE  faults \subseteq faults'
  BY <1>5 DEF WritePayload, Break, Disturb
<1> QED
  BY <1>1, <1>2, <1>3, <1>4, <1>5, Pairs DEF Next

\* What a step does to the payloads.
Quiet == sent' = sent /\ got' = got
Sends == \E w \in Peer, b \in BOOLEAN :
            sent' = [sent EXCEPT ![w] = Append(sent[w], b)] /\ got' = got /\ faults' = faults
Delivery == \E q \in Peer, n \in Nat : Delivers(q, n) /\ sent' = sent /\ faults' = faults

\* Every step keeps the order, and is a silent one, a send or a delivery.
LEMMA NextOrder ==
    ASSUME ControlInv, SwapInv, OrderInv, [Next]_vars
    PROVE  OrderInv' /\ (Quiet \/ Sends \/ Delivery)
<1>1. TypeInv /\ ControlInv' /\ SwapInv' /\ \A p \in Peer : OrderAt(p)
  BY NextInv DEF ControlInv, OrderInv
<1>2. ASSUME UNCHANGED <<wire, end, broken, pc, reported, sent, got, inbox>>
      PROVE  OrderInv' /\ Quiet
  <2>1. \A p \in Peer : OrderAt(p)'
    BY <1>1, <1>2, SameOrder
  <2> QED
    BY <1>2, <2>1 DEF OrderInv, Quiet
<1>3. ASSUME NEW p \in Peer, ControlAction(p)
      PROVE  OrderInv' /\ Quiet
  <2>1. ControlStep(p) /\ Other(p) \in Peer /\ \A r \in Peer : r = p \/ r = Other(p)
    BY <1>3, ControlActionStep, Pairs
  <2>2. OrderAt(p)' /\ OrderAt(Other(p))'
    BY <1>1, <2>1, ControlOrderSelf, ControlOrderOther
  <2>3. \A r \in Peer : OrderAt(r)'
    BY <2>1, <2>2
  <2> QED
    BY <2>1, <2>3 DEF OrderInv, Quiet, ControlStep, Beside
<1>4. ASSUME NEW p \in Peer, NEW l \in Link, ReadStep(p, l)
      PROVE  OrderInv' /\ (Quiet \/ Delivery)
  <2>1. /\ Other(p) \in Peer /\ Other(p) # p /\ Other(Other(p)) = p
        /\ \A r \in Peer : r = p \/ r = Other(p)
    BY Pairs
  <2>2. OrderAt(p)' /\ (got' = got \/ \E n \in Nat : Delivers(Other(p), n))
    BY <1>1, <1>4, ReadOrder
  <2>3. /\ UNCHANGED <<end, broken, pc, reported, sent, faults>> /\ got'[p] = got[p]
        /\ inbox'[Other(p)] = inbox[Other(p)]
        /\ wire'["old"][Other(p)] = wire["old"][Other(p)]
        /\ wire'["new"][Other(p)] = wire["new"][Other(p)]
    BY <1>4, <2>1, Pairs DEF ReadStep
  <2>4. OrderAt(Other(p))'
    BY <1>1, <2>1, <2>3, SameOrder
  <2>5. \A r \in Peer : OrderAt(r)'
    BY <2>1, <2>2, <2>4
  <2> QED
    BY <2>1, <2>2, <2>3, <2>5 DEF OrderInv, Quiet, Delivery
<1>5. ASSUME NEW w \in Peer, NEW l \in Link, WriteStep(w, l)
      PROVE  OrderInv' /\ Sends
  <2>1. /\ Other(w) \in Peer /\ Other(w) # w /\ Other(Other(w)) = w
        /\ \A r \in Peer : r = w \/ r = Other(w)
    BY Pairs
  <2>2. OrderAt(Other(w))'
    BY <1>1, <1>5, <2>1, WriteOrder
  <2> DEFINE b == ~(l = "old" /\ said[w])
             u == Append(sent[w], b)
  <2>3. /\ UNCHANGED <<end, broken, pc, reported, got, inbox, faults>>
        /\ sent'[w] = u /\ sent'[Other(w)] = sent[Other(w)] /\ sent' \in [Peer -> Seq(BOOLEAN)]
        /\ wire'["old"][w] = wire["old"][w] /\ wire'["new"][w] = wire["new"][w]
    BY <1>5, <2>1, Pairs DEF WriteStep
  <2>4. OrderAt(w)'
    BY <1>1, <2>1, <2>3, SameOrder
  <2>5. \A r \in Peer : OrderAt(r)'
    BY <2>1, <2>2, <2>4
  <2>6. b \in BOOLEAN
    OBVIOUS
  <2> HIDE DEF b
  <2>7. sent' = [sent EXCEPT ![w] = u]
    <3> HIDE DEF u
    <3> QED
      BY <1>1, <2>1, <2>3 DEF TypeInv
  <2>8. Sends
    BY <2>3, <2>6, <2>7 DEF Sends
  <2> QED
    BY <2>5, <2>8 DEF OrderInv
<1>6. ASSUME NEW l \in Link, BreakStep(l)
      PROVE  OrderInv' /\ Quiet
  <2>1. \A r \in Peer : OrderAt(r)'
    BY <1>1, <1>6, BreakOrder
  <2> QED
    BY <1>6, <2>1 DEF OrderInv, Quiet, BreakStep
<1>7. CASE UNCHANGED vars
  BY <1>2, <1>7 DEF vars, consumerVars
<1>8. ASSUME NEW p \in Peer, ReadOld(p), ~ReadStep(p, "old")
      PROVE  OrderInv' /\ Quiet
  BY <1>1, <1>2, <1>8, ReadFacts
<1> QED
  BY <1>1, <1>3, <1>4, <1>5, <1>6, <1>7, <1>8, NextCases

\* Handshake's step to the consumers' eyes.
LEMMA StepRefines ==
    ASSUME ControlInv, SwapInv, OrderInv, [Next]_vars
    PROVE  [Conv!Next]_(Conv!vars)
<1>1. (Quiet \/ Sends \/ Delivery) /\ faults \subseteq faults'
  BY NextOrder, FaultsGrow
<1>2. CASE Quiet
  <2>1. CASE faults = {} /\ faults' # {}
    <3>1. Conv!Cut
      BY <1>2, <2>1 DEF Conv!Cut, Quiet
    <3> QED
      BY <3>1 DEF Conv!Next
  <2>2. CASE ~(faults = {} /\ faults' # {})
    <3>1. (faults' # {}) = (faults # {})
      BY <1>1, <2>2
    <3> QED
      BY <1>2, <3>1 DEF Quiet, Conv!vars
  <2> QED
    BY <2>1, <2>2
<1>3. CASE Sends
  <2>1. PICK w \in Peer, b \in BOOLEAN :
           sent' = [sent EXCEPT ![w] = Append(sent[w], b)] /\ got' = got /\ faults' = faults
    BY <1>3 DEF Sends
  <2>2. Conv!Send(w, b)
    BY <2>1 DEF Conv!Send
  <2> QED
    BY <2>2 DEF Conv!Next
<1>4. CASE Delivery
  <2>1. PICK q \in Peer, n \in Nat : Delivers(q, n) /\ sent' = sent /\ faults' = faults
    BY <1>4 DEF Delivery
  <2>2. Conv!Deliver(q, n) /\ n \in Conv!Last(q) + 1..Len(sent[q])
    BY <2>1 DEF Delivers, Conv!Deliver, Conv!Last, LastOf
  <2>3. Conv!DeliverNext(q)
    BY <2>2 DEF Conv!DeliverNext
  <2> QED
    BY <2>3 DEF Conv!Next
<1> QED
  BY <1>1, <1>2, <1>3, <1>4

\* Whatever bandwidth upgrade goes on underneath (run_upgrade_protocol to the close of the
\* old channel in process_safe_to_close_prior_channel_event), each direction stays a FIFO
\* in which no sure payload is skipped and nothing is delivered twice.
THEOREM KeepsConversationSafe == Spec => Conv!SafeSpec
<1>1. Init => ControlInv /\ SwapInv /\ OrderInv
  BY InitInv, InitOrder
<1>2. ControlInv /\ SwapInv /\ OrderInv /\ [Next]_vars => (ControlInv /\ SwapInv /\ OrderInv)'
  BY NextInv, NextOrder
<1>3. Init => Conv!Init
  BY DEF Init, Conv!Init
<1>4. ControlInv /\ SwapInv /\ OrderInv /\ [Next]_vars => [Conv!Next]_(Conv!vars)
  BY StepRefines
<1> QED
  BY <1>1, <1>2, <1>3, <1>4, PTL DEF Spec, Conv!SafeSpec
=============================================================================
