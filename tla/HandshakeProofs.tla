--------------------------- MODULE HandshakeProofs ---------------------------
(***************************************************************************)
(* The swap of Handshake, proved for any number of payloads, offers and    *)
(* faults and both behaviours of the reader: neither device finishes alone *)
(* and none closes the old channel before the other has heard it.          *)
(***************************************************************************)
EXTENDS Handshake, TLAPS

(* What is in flight *)

Kinds == {"OFFER", "UPGRADE_FAILURE", "LAST_WRITE", "SAFE_TO_CLOSE", "DISCONNECTION",
          "INTRODUCTION", "INTRODUCTION_ACK", "PAYLOAD"}
Frames == [kind : Kinds, n : Nat]
Wires == [Link -> [Peer -> Seq(Frames)]]
Ends == [Peer -> [Link -> {"absent", "dialled", "open", "paused", "closed"}]]

\* A frame of kind k is in s.
Holds(s, k) == \E i \in DOMAIN s : s[i].kind = k

\* Payload n is in s.
Carries(s, n) == \E i \in DOMAIN s : s[i] = Payload(n)

\* No frame of kind k follows another.
Once(s, k) == \A i, j \in DOMAIN s : i < j /\ s[i].kind = k => s[j].kind # k

\* A frame that the receiver of SAFE_TO_CLOSE need not read; snt is what the sender sent.
Late(f, snt) == f.kind = "DISCONNECTION" \/ (f.kind = "PAYLOAD" /\ ~snt[f.n])
AllLate(s, snt) == \A i \in DOMAIN s : Late(s[i], snt)
LateAfterSafe(s, snt) ==
    \A i, j \in DOMAIN s : i < j /\ s[i].kind = "SAFE_TO_CLOSE" => Late(s[j], snt)

\* Payloads are in the order of their numbers, and those are at most m.
Ordered(s) ==
    \A i, j \in DOMAIN s : i < j /\ s[i].kind = "PAYLOAD" /\ s[j].kind = "PAYLOAD" => s[i].n < s[j].n
UpTo(s, m) == \A i \in DOMAIN s : s[i].kind = "PAYLOAD" => s[i].n \in 1..m

-------------------------------------------------------------------------------
(* Lemmas about sequences of frames *)

\* What is in s after x was appended.
LEMMA AppendFrame ==
    ASSUME NEW s \in Seq(Frames), NEW x \in Frames
    PROVE  /\ Append(s, x) \in Seq(Frames) /\ s \o <<x>> = Append(s, x)
           /\ \A k : Holds(Append(s, x), k) <=> Holds(s, k) \/ x.kind = k
           /\ \A n : Carries(Append(s, x), n) <=> Carries(s, n) \/ x = Payload(n)
<1> DEFINE t == Append(s, x)
<1>1. /\ t \in Seq(Frames) /\ Len(t) = Len(s) + 1 /\ Len(s) \in Nat /\ t[Len(s) + 1] = x
      /\ \A i \in 1..Len(s) : t[i] = s[i]
      /\ DOMAIN t = 1..Len(t) /\ DOMAIN s = 1..Len(s)
  OBVIOUS
<1>2. s \o <<x>> = t
  OBVIOUS
<1> HIDE DEF t
<1>3. DOMAIN t = DOMAIN s \cup {Len(s) + 1} /\ \A i \in DOMAIN s : t[i] = s[i]
  BY <1>1
<1>4. \A k : Holds(t, k) <=> Holds(s, k) \/ x.kind = k
  BY <1>1, <1>3 DEF Holds
<1>5. \A n : Carries(t, n) <=> Carries(s, n) \/ x = Payload(n)
  BY <1>1, <1>3 DEF Carries
<1> QED
  BY <1>1, <1>2, <1>4, <1>5 DEF t

\* What a frame may be appended to.
LEMMA AppendKeeps ==
    ASSUME NEW s \in Seq(Frames), NEW x \in Frames, NEW snt, NEW m \in Nat
    PROVE  /\ \A k : Once(s, k) /\ (x.kind = k => ~Holds(s, k)) => Once(Append(s, x), k)
           /\ AllLate(s, snt) /\ Late(x, snt) => AllLate(Append(s, x), snt)
           /\ LateAfterSafe(s, snt) /\ (Holds(s, "SAFE_TO_CLOSE") => Late(x, snt))
                 => LateAfterSafe(Append(s, x), snt)
           /\ UpTo(s, m) /\ (x.kind = "PAYLOAD" => x.n \in 1..m) => UpTo(Append(s, x), m)
           /\ Ordered(s) /\ (x.kind = "PAYLOAD" => \A n \in Nat : Carries(s, n) => n < x.n)
                 => Ordered(Append(s, x))
<1> DEFINE t == Append(s, x)
<1>1. /\ t \in Seq(Frames) /\ Len(t) = Len(s) + 1 /\ Len(s) \in Nat /\ t[Len(s) + 1] = x
      /\ \A i \in 1..Len(s) : t[i] = s[i]
      /\ DOMAIN t = 1..Len(t) /\ DOMAIN s = 1..Len(s)
  OBVIOUS
<1> HIDE DEF t
<1>2. /\ DOMAIN t = DOMAIN s \cup {Len(s) + 1} /\ \A i \in DOMAIN s : t[i] = s[i]
      /\ \A i, j \in DOMAIN t : i < j => i \in DOMAIN s /\ (j \in DOMAIN s \/ j = Len(s) + 1)
  BY <1>1
<1>3. \A k : Once(s, k) /\ (x.kind = k => ~Holds(s, k)) => Once(t, k)
  BY <1>1, <1>2 DEF Once, Holds
<1>4. AllLate(s, snt) /\ Late(x, snt) => AllLate(t, snt)
  BY <1>1, <1>2 DEF AllLate
<1>5. LateAfterSafe(s, snt) /\ (Holds(s, "SAFE_TO_CLOSE") => Late(x, snt)) => LateAfterSafe(t, snt)
  BY <1>1, <1>2 DEF LateAfterSafe, Holds
<1>6. UpTo(s, m) /\ (x.kind = "PAYLOAD" => x.n \in 1..m) => UpTo(t, m)
  BY <1>1, <1>2 DEF UpTo
<1>7. Ordered(s) /\ (x.kind = "PAYLOAD" => \A n \in Nat : Carries(s, n) => n < x.n) => Ordered(t)
  <2>1. \A i \in DOMAIN s : s[i].kind = "PAYLOAD" => s[i].n \in Nat /\ Carries(s, s[i].n)
    <3>1. \A i \in DOMAIN s : s[i] \in Frames
      BY <1>1
    <3>2. \A f \in Frames : f.kind = "PAYLOAD" => f.n \in Nat /\ f = Payload(f.n)
      BY DEF Frames, Payload
    <3> QED
      BY <3>1, <3>2 DEF Carries
  <2> QED
    BY <1>1, <1>2, <2>1 DEF Ordered
<1> QED
  BY <1>3, <1>4, <1>5, <1>6, <1>7 DEF t

\* t is s without its first frame or without some of its last ones.
Window(t, s) == \E k \in {0, 1} : \A i \in DOMAIN t : i + k \in DOMAIN s /\ t[i] = s[i + k]

\* What a window of s inherits from it.
LEMMA WindowKeeps ==
    ASSUME NEW s \in Seq(Frames), NEW t \in Seq(Frames), Window(t, s), NEW snt, NEW m
    PROVE  /\ \A k : Holds(t, k) => Holds(s, k)
           /\ \A n : Carries(t, n) => Carries(s, n)
           /\ \A k : Once(s, k) => Once(t, k)
           /\ AllLate(s, snt) => AllLate(t, snt)
           /\ LateAfterSafe(s, snt) => LateAfterSafe(t, snt)
           /\ UpTo(s, m) => UpTo(t, m)
           /\ Ordered(s) => Ordered(t)
<1>1. PICK k \in {0, 1} : \A i \in DOMAIN t : i + k \in DOMAIN s /\ t[i] = s[i + k]
  BY DEF Window
<1>2. \A i, j \in DOMAIN t : i < j => i + k < j + k
  <2>1. DOMAIN t = 1..Len(t) /\ Len(t) \in Nat
    OBVIOUS
  <2> QED
    BY <2>1
<1>3. \A c : Holds(t, c) => Holds(s, c)
  BY <1>1 DEF Holds
<1>4. \A n : Carries(t, n) => Carries(s, n)
  BY <1>1 DEF Carries
<1>5. \A c : Once(s, c) => Once(t, c)
  BY <1>1, <1>2 DEF Once
<1>6. (AllLate(s, snt) => AllLate(t, snt)) /\ (UpTo(s, m) => UpTo(t, m))
  BY <1>1 DEF AllLate, UpTo
<1>7. LateAfterSafe(s, snt) => LateAfterSafe(t, snt)
  BY <1>1, <1>2 DEF LateAfterSafe
<1>8. Ordered(s) => Ordered(t)
  BY <1>1, <1>2 DEF Ordered
<1> QED
  BY <1>3, <1>4, <1>5, <1>6, <1>7, <1>8

\* The first frame and the rest.
LEMMA TailFrame ==
    ASSUME NEW s \in Seq(Frames), s # <<>>, NEW snt
    PROVE  /\ Tail(s) \in Seq(Frames) /\ Window(Tail(s), s)
           /\ Head(s) \in Frames /\ Head(s) = s[1] /\ 1 \in DOMAIN s
           /\ \A k : Holds(s, k) <=> Head(s).kind = k \/ Holds(Tail(s), k)
           /\ \A n : Carries(s, n) <=> Head(s) = Payload(n) \/ Carries(Tail(s), n)
           /\ \A k : Once(s, k) /\ Head(s).kind = k => ~Holds(Tail(s), k)
           /\ LateAfterSafe(s, snt) /\ Head(s).kind = "SAFE_TO_CLOSE" => AllLate(Tail(s), snt)
           /\ Ordered(s) /\ Head(s).kind = "PAYLOAD" =>
                 \A n \in Nat : Carries(Tail(s), n) => Head(s).n < n
<1> DEFINE t == Tail(s)
<1>1. /\ t \in Seq(Frames) /\ Len(s) \in Nat \ {0} /\ Len(t) = Len(s) - 1
      /\ Head(s) \in Frames /\ Head(s) = s[1]
      /\ DOMAIN t = 1..Len(t) /\ DOMAIN s = 1..Len(s)
      /\ \A i \in 1..Len(s) - 1 : t[i] = s[i + 1]
  OBVIOUS
<1> HIDE DEF t
<1>2. /\ 1 \in DOMAIN s /\ \A i \in DOMAIN t : i + 1 \in DOMAIN s /\ 1 < i + 1 /\ t[i] = s[i + 1]
      /\ \A i \in DOMAIN s : i = 1 \/ (i - 1 \in DOMAIN t /\ t[i - 1] = s[i])
  BY <1>1
<1>3. Window(t, s)
  BY <1>2 DEF Window
<1>4. \A k : Holds(s, k) <=> Head(s).kind = k \/ Holds(t, k)
  BY <1>1, <1>2 DEF Holds
<1>5. \A n : Carries(s, n) <=> Head(s) = Payload(n) \/ Carries(t, n)
  BY <1>1, <1>2 DEF Carries
<1>6. \A k : Once(s, k) /\ Head(s).kind = k => ~Holds(t, k)
  BY <1>1, <1>2 DEF Once, Holds
<1>7. LateAfterSafe(s, snt) /\ Head(s).kind = "SAFE_TO_CLOSE" => AllLate(t, snt)
  BY <1>1, <1>2 DEF LateAfterSafe, AllLate
<1>8. Ordered(s) /\ Head(s).kind = "PAYLOAD" => \A n \in Nat : Carries(t, n) => Head(s).n < n
  <2>1. \A n \in Nat : Payload(n).kind = "PAYLOAD" /\ Payload(n).n = n
    BY DEF Payload
  <2> QED
    BY <1>1, <1>2, <2>1 DEF Ordered, Carries
<1> QED
  BY <1>1, <1>2, <1>3, <1>4, <1>5, <1>6, <1>7, <1>8 DEF t

\* The frames that arrive of a link that breaks.
LEMMA PrefixFrame ==
    ASSUME NEW s \in Seq(Frames), NEW c \in 0..Len(s), NEW snt
    PROVE  /\ SubSeq(s, 1, c) \in Seq(Frames) /\ Window(SubSeq(s, 1, c), s)
           /\ Ordered(s) => \A m, j \in Nat : Carries(SubSeq(s, 1, c), m) /\ Carries(s, j) /\ j < m
                               => Carries(SubSeq(s, 1, c), j)
           /\ LateAfterSafe(s, snt) /\ Holds(SubSeq(s, 1, c), "SAFE_TO_CLOSE") =>
                 \A j : Carries(s, j) /\ snt[j] => Carries(SubSeq(s, 1, c), j)
<1> DEFINE t == SubSeq(s, 1, c)
<1>1. /\ t \in Seq(Frames) /\ Len(s) \in Nat /\ Len(t) = c
      /\ DOMAIN t = 1..c /\ DOMAIN s = 1..Len(s) /\ c \in Nat /\ c <= Len(s)
      /\ \A i \in 1..c : t[i] = s[i]
  OBVIOUS
<1> HIDE DEF t
<1>2. /\ \A i \in DOMAIN t : i \in DOMAIN s /\ i + 0 = i /\ t[i] = s[i]
      /\ \A i \in DOMAIN t, j \in DOMAIN s : j \in DOMAIN t \/ i < j
      /\ \A i, j \in DOMAIN s : i < j \/ i = j \/ j < i
  BY <1>1
<1>3. Window(t, s)
  BY <1>2 DEF Window
<1>4. Ordered(s) => \A m, j \in Nat : Carries(t, m) /\ Carries(s, j) /\ j < m => Carries(t, j)
  <2>1. \A n \in Nat : Payload(n).kind = "PAYLOAD" /\ Payload(n).n = n
    BY DEF Payload
  <2> SUFFICES ASSUME Ordered(s), NEW m \in Nat, NEW j \in Nat,
                      NEW i \in DOMAIN t, t[i] = Payload(m),
                      NEW h \in DOMAIN s, s[h] = Payload(j), j < m
               PROVE  h \in DOMAIN t
    BY <1>2 DEF Carries
  <2>2. ~ (i < h)
    BY <1>2, <2>1 DEF Ordered
  <2> QED
    BY <1>2, <2>2
<1>5. LateAfterSafe(s, snt) /\ Holds(t, "SAFE_TO_CLOSE") =>
         \A j : Carries(s, j) /\ snt[j] => Carries(t, j)
  <2>1. \A n : Payload(n).kind = "PAYLOAD" /\ Payload(n).n = n
    BY DEF Payload
  <2> SUFFICES ASSUME LateAfterSafe(s, snt), NEW i \in DOMAIN t, t[i].kind = "SAFE_TO_CLOSE",
                      NEW j, NEW h \in DOMAIN s, s[h] = Payload(j), snt[j]
               PROVE  h \in DOMAIN t
    BY <1>2 DEF Carries, Holds
  <2>2. ~Late(s[h], snt)
    BY <2>1 DEF Late
  <2>3. ~ (i < h)
    BY <1>2, <2>2 DEF LateAfterSafe
  <2> QED
    BY <1>2, <2>3
<1> QED
  BY <1>1, <1>3, <1>4, <1>5 DEF t

\* A wire nothing is left on.
LEMMA EmptyWire ==
    /\ <<>> \in Seq(Frames)
    /\ \A k : ~Holds(<<>>, k) /\ Once(<<>>, k)
    /\ \A n : ~Carries(<<>>, n)
    /\ \A snt : AllLate(<<>>, snt) /\ LateAfterSafe(<<>>, snt)
    /\ \A m : UpTo(<<>>, m)
    /\ Ordered(<<>>)
  BY DEF Holds, Once, Carries, AllLate, LateAfterSafe, UpTo, Ordered

\* A payload that is written says nothing about the ones before.
LEMMA SentGrows ==
    ASSUME NEW s \in Seq(Frames), NEW snt \in Seq(BOOLEAN), NEW b \in BOOLEAN,
           UpTo(s, Len(snt))
    PROVE  /\ AllLate(s, snt) => AllLate(s, Append(snt, b))
           /\ LateAfterSafe(s, snt) => LateAfterSafe(s, Append(snt, b))
           /\ UpTo(s, Len(Append(snt, b)))
<1>1. /\ Len(snt) \in Nat /\ Len(Append(snt, b)) = Len(snt) + 1
      /\ \A i \in 1..Len(snt) : Append(snt, b)[i] = snt[i] /\ i \in 1..Len(Append(snt, b))
  OBVIOUS
<1>2. \A i \in DOMAIN s : Late(s[i], snt) => Late(s[i], Append(snt, b))
  BY <1>1 DEF UpTo, Late
<1> QED
  BY <1>1, <1>2 DEF AllLate, LateAfterSafe, UpTo

-------------------------------------------------------------------------------
(* Queues of commands *)

Commands == Kinds \cup {"SOCKET"}
Queued(s, k) == \E i \in DOMAIN s : s[i] = k
Alone(s, k) == \A i, j \in DOMAIN s : s[i] = k /\ s[j] = k => i = j

\* A command is posted.
LEMMA AppendCommand ==
    ASSUME NEW s \in Seq(Commands), NEW c \in Commands
    PROVE  /\ Append(s, c) \in Seq(Commands)
           /\ \A k : Queued(Append(s, c), k) <=> Queued(s, k) \/ c = k
           /\ \A k : Alone(s, k) /\ (c = k => ~Queued(s, k)) => Alone(Append(s, c), k)
<1> DEFINE t == Append(s, c)
<1>1. /\ t \in Seq(Commands) /\ Len(t) = Len(s) + 1 /\ Len(s) \in Nat /\ t[Len(s) + 1] = c
      /\ \A i \in 1..Len(s) : t[i] = s[i]
      /\ DOMAIN t = 1..Len(t) /\ DOMAIN s = 1..Len(s)
  OBVIOUS
<1> HIDE DEF t
<1>2. DOMAIN t = DOMAIN s \cup {Len(s) + 1} /\ \A i \in DOMAIN s : t[i] = s[i]
  BY <1>1
<1>3. \A k : Queued(t, k) <=> Queued(s, k) \/ c = k
  BY <1>1, <1>2 DEF Queued
<1>4. \A k : Alone(s, k) /\ (c = k => ~Queued(s, k)) => Alone(t, k)
  BY <1>1, <1>2 DEF Queued, Alone
<1> QED
  BY <1>1, <1>3, <1>4 DEF t

\* A command is taken.
LEMMA TailCommand ==
    ASSUME NEW s \in Seq(Commands), s # <<>>
    PROVE  /\ Tail(s) \in Seq(Commands)
           /\ \A k : Queued(s, k) <=> Head(s) = k \/ Queued(Tail(s), k)
           /\ \A k : Alone(s, k) => Alone(Tail(s), k)
           /\ \A k : Alone(s, k) /\ Head(s) = k => ~Queued(Tail(s), k)
<1> DEFINE t == Tail(s)
<1>1. /\ t \in Seq(Commands) /\ Len(s) \in Nat \ {0} /\ Len(t) = Len(s) - 1
      /\ Head(s) = s[1]
      /\ DOMAIN t = 1..Len(t) /\ DOMAIN s = 1..Len(s)
      /\ \A i \in 1..Len(s) - 1 : t[i] = s[i + 1]
  OBVIOUS
<1> HIDE DEF t
<1>2. /\ 1 \in DOMAIN s /\ \A i \in DOMAIN t : i + 1 \in DOMAIN s /\ 1 # i + 1 /\ t[i] = s[i + 1]
      /\ \A i \in DOMAIN s : i = 1 \/ (i - 1 \in DOMAIN t /\ t[i - 1] = s[i])
      /\ \A i, j \in DOMAIN t : i + 1 = j + 1 => i = j
  BY <1>1
<1>3. \A k : Queued(s, k) <=> Head(s) = k \/ Queued(t, k)
  <2> SUFFICES ASSUME NEW k
               PROVE  Queued(s, k) <=> s[1] = k \/ Queued(t, k)
    BY <1>1
  <2>1. Queued(s, k) => s[1] = k \/ Queued(t, k)
    BY <1>2 DEF Queued
  <2>2. s[1] = k \/ Queued(t, k) => Queued(s, k)
    BY <1>2 DEF Queued
  <2> QED
    BY <2>1, <2>2
<1>4. \A k : Alone(s, k) => Alone(t, k)
  BY <1>2 DEF Alone
<1>5. \A k : Alone(s, k) /\ Head(s) = k => ~Queued(t, k)
  BY <1>1, <1>2 DEF Queued, Alone
<1> QED
  BY <1>1, <1>3, <1>4, <1>5 DEF t

-------------------------------------------------------------------------------
(* The inductive invariant *)

TypeInv ==
    /\ wire \in Wires /\ end \in Ends /\ broken \subseteq Link
    /\ reg \in [Peer -> {"old", "new", "none"}]
    /\ parked \in [Peer -> BOOLEAN] /\ busy \in [Peer -> BOOLEAN] /\ latch \in [Peer -> BOOLEAN]
    /\ said \in [Peer -> BOOLEAN] /\ reported \in [Peer -> BOOLEAN]
    /\ reading \in [Peer -> BOOLEAN]
    /\ pc \in [Peer -> {"idle", "ack", "intro", "drain"}]
    /\ inbox \in [Peer -> Seq(Commands)]
    /\ asksAck \in BOOLEAN /\ listening \in BOOLEAN
    /\ handles \in [Peer -> SUBSET Link]
    /\ sent \in [Peer -> Seq(BOOLEAN)] /\ got \in [Peer -> Seq(Nat)]

\* How far a device is in the swap, by its registration.
RegAt(p) ==
    /\ busy[p] => reg[p] # "none"
    /\ parked[p] => reg[p] = "new" /\ end[p]["old"] = "open"
    /\ said[p] => reg[p] # "old"
    /\ pc[p] = "drain" => /\ reg[p] = "new" /\ ~parked[p]
                          /\ end[p]["old"] = "open" /\ end[p]["new"] = "paused"
    /\ busy[p] /\ parked[p] => end[p]["new"] = "paused"
    /\ pc[p] = "ack" => reg[p] = "old" /\ p = Discoverer /\ end[p]["new"] = "open"
    /\ reported[p] => reg[p] # "old" /\ end[p]["old"] = "closed"
    /\ reg[p] # "old" /\ end[p]["new"] = "open" => reported[p]
    /\ reg[p] = "new" => end[p]["new"] \in {"open", "paused", "closed"}
    /\ "new" \in handles[p] => reg[p] # "old"
    /\ end[p]["old"] \in {"open", "closed"}
RegInv == \A p \in Peer : RegAt(p)

\* The new link is dialled once, by the discoverer.
DialInv ==
    /\ listening => reg[Advertiser] # "none"
    /\ end[Discoverer]["new"] = "absent" <=> end[Advertiser]["new"] = "absent"
    /\ end[Discoverer]["new"] # "dialled" /\ pc[Discoverer] # "intro"
    /\ ~Queued(inbox[Discoverer], "SOCKET")
    /\ end[Advertiser]["new"] \in {"absent", "dialled"} \/ reg[Advertiser] = "new" =>
          ~Queued(inbox[Advertiser], "SOCKET") /\ pc[Advertiser] # "intro"
    /\ end[Advertiser]["new"] = "dialled" => reg[Advertiser] = "old"
    /\ pc[Advertiser] = "intro" => ~Queued(inbox[Advertiser], "SOCKET")
    /\ Alone(inbox[Advertiser], "SOCKET")
    /\ ~Queued(inbox[Advertiser], "OFFER")

\* What may be in flight to a device.
WireInv ==
    \A p \in Peer, l \in Link :
        /\ end[p][l] = "closed" => wire[l][p] = <<>>
        /\ UpTo(wire[l][p], Len(sent[Other(p)]))
        /\ Holds(wire[l][p], "OFFER") => p = Discoverer
        /\ \A k \in {"LAST_WRITE", "SAFE_TO_CLOSE"} : Holds(wire[l][p], k) => l = "old"

ControlInv == TypeInv /\ RegInv /\ DialInv /\ WireInv

\* The two devices and the two links.
LEMMA Pairs ==
    /\ Advertiser \in Peer /\ Discoverer \in Peer /\ Advertiser # Discoverer
    /\ Other(Advertiser) = Discoverer /\ Other(Discoverer) = Advertiser
    /\ \A p \in Peer : Other(p) \in Peer /\ Other(p) # p /\ Other(Other(p)) = p
    /\ \A p, r \in Peer : r = p \/ r = Other(p)
    /\ "old" \in Link /\ "new" \in Link /\ \A l \in Link : l = "old" \/ l = "new"
  BY HandshakeAssumption DEF Peer, Other, Link

\* The frames that are written.
LEMMA FrameFacts ==
    /\ \A k \in Kinds : Frame(k) \in Frames /\ Frame(k).kind = k
    /\ \A k : k # "PAYLOAD" => \A n : Frame(k) # Payload(n)
    /\ \A n \in Nat : Payload(n) \in Frames
    /\ \A n : Payload(n).kind = "PAYLOAD" /\ Payload(n).n = n
  BY DEF Frame, Payload, Frames, Kinds

\* What Put leaves: every wire is well typed, and only the far wire of that link may grow.
LEMMA PutFacts ==
    ASSUME NEW w \in Wires, NEW p \in Peer, NEW l \in Link, NEW fs \in Seq(Frames)
    PROVE  /\ Put(w, p, l, fs) \in Wires
           /\ \A m \in Link, r \in Peer :
                 Put(w, p, l, fs)[m][r] = IF m = l /\ r = Other(p) /\ end[r][m] # "closed"
                                          THEN w[m][r] \o fs ELSE w[m][r]
  BY Pairs DEF Put, Wires

\* s after a frame of kind k was written.
Added(s, k) == Append(s, Frame(k))

\* One frame written: at a closed far end nothing changes, else it is Added at the end.
LEMMA PutFrame ==
    ASSUME NEW w \in Wires, NEW p \in Peer, NEW l \in Link, NEW k \in Kinds
    PROVE  /\ Put(w, p, l, <<Frame(k)>>) \in Wires
           /\ \A m \in Link, r \in Peer :
                 Put(w, p, l, <<Frame(k)>>)[m][r] =
                    IF m = l /\ r = Other(p) /\ end[r][m] # "closed" THEN Added(w[m][r], k) ELSE w[m][r]
<1>1. Frame(k) \in Frames /\ \A m \in Link, r \in Peer : w[m][r] \in Seq(Frames)
  BY FrameFacts DEF Wires
<1>2. \A m \in Link, r \in Peer : w[m][r] \o <<Frame(k)>> = Added(w[m][r], k)
  BY <1>1, AppendFrame DEF Added
<1>3. <<Frame(k)>> \in Seq(Frames)
  BY <1>1
<1> DEFINE fs == <<Frame(k)>>
<1> HIDE DEF fs
<1>4. fs \in Seq(Frames) /\ \A m \in Link, r \in Peer : w[m][r] \o fs = Added(w[m][r], k)
  BY <1>2, <1>3 DEF fs
<1>5. /\ Put(w, p, l, fs) \in Wires
      /\ \A m \in Link, r \in Peer :
            Put(w, p, l, fs)[m][r] = IF m = l /\ r = Other(p) /\ end[r][m] # "closed"
                                     THEN w[m][r] \o fs ELSE w[m][r]
  BY <1>4, PutFacts
<1> QED
  BY <1>4, <1>5, Zenon DEF fs

\* Two frames written at once are two frames written one after the other.
LEMMA PutTwo ==
    ASSUME NEW w \in Wires, NEW p \in Peer, NEW l \in Link, NEW j \in Kinds, NEW k \in Kinds
    PROVE  /\ Put(w, p, l, <<Frame(j), Frame(k)>>) \in Wires
           /\ \A m \in Link, r \in Peer :
                 Put(w, p, l, <<Frame(j), Frame(k)>>)[m][r] =
                    IF m = l /\ r = Other(p) /\ end[r][m] # "closed"
                    THEN Added(Added(w[m][r], j), k) ELSE w[m][r]
<1>1. Frame(j) \in Frames /\ Frame(k) \in Frames /\ \A m \in Link, r \in Peer : w[m][r] \in Seq(Frames)
  BY FrameFacts DEF Wires
<1>2. \A v \in Seq(Frames), x, y \in Frames : v \o <<x, y>> = Append(Append(v, x), y)
  OBVIOUS
<1>3. <<Frame(j), Frame(k)>> \in Seq(Frames)
  BY <1>1
<1> DEFINE fs == <<Frame(j), Frame(k)>>
<1> HIDE DEF fs
<1>4. fs \in Seq(Frames) /\ \A m \in Link, r \in Peer : w[m][r] \o fs = Added(Added(w[m][r], j), k)
  BY <1>1, <1>2, <1>3 DEF fs, Added
<1>5. /\ Put(w, p, l, fs) \in Wires
      /\ \A m \in Link, r \in Peer :
            Put(w, p, l, fs)[m][r] = IF m = l /\ r = Other(p) /\ end[r][m] # "closed"
                                     THEN w[m][r] \o fs ELSE w[m][r]
  BY <1>4, PutFacts
<1> QED
  BY <1>4, <1>5, Zenon DEF fs

\* Discard empties the closer's wires of those links and no other.
LEMMA DiscardFacts ==
    ASSUME NEW w \in Wires, NEW p \in Peer, NEW ls
    PROVE  /\ Discard(w, p, ls) \in Wires
           /\ \A m \in Link, r \in Peer :
                 Discard(w, p, ls)[m][r] = IF m \in ls /\ r = p THEN <<>> ELSE w[m][r]
  BY Pairs DEF Discard, Wires

\* Closed closes the closer's ends of those links, unless absent, and no other.
LEMMA ClosedFacts ==
    ASSUME end \in Ends, NEW p \in Peer, NEW ls
    PROVE  /\ Closed(p, ls) \in Ends
           /\ \A r \in Peer, m \in Link :
                 Closed(p, ls)[r][m] = IF r = p /\ m \in ls /\ end[r][m] # "absent"
                                       THEN "closed" ELSE end[r][m]
  BY DEF Closed, Ends

-------------------------------------------------------------------------------
(* What a step of the owner or of the accept loop of s may do *)

\* It leaves the other device, the payloads and the links' state alone.
Beside(s) ==
    /\ UNCHANGED <<broken, sent, got, reading>>
    /\ reg'[Other(s)] = reg[Other(s)] /\ parked'[Other(s)] = parked[Other(s)]
    /\ latch'[Other(s)] = latch[Other(s)] /\ said'[Other(s)] = said[Other(s)]
    /\ busy'[Other(s)] = busy[Other(s)] /\ pc'[Other(s)] = pc[Other(s)]
    /\ reported'[Other(s)] = reported[Other(s)] /\ inbox'[Other(s)] = inbox[Other(s)]
    /\ handles'[Other(s)] = handles[Other(s)]
    /\ end'[Other(s)]["old"] = end[Other(s)]["old"]
    /\ \/ end'[Other(s)]["new"] = end[Other(s)]["new"]
       \/ /\ end[Other(s)]["new"] = "absent" /\ end'[Other(s)]["new"] = "dialled"
          /\ reg[Other(s)] = "old"

\* The only LAST_WRITE that was queued is taken.
TookLastWrite(s) ==
    /\ Queued(inbox[s], "LAST_WRITE")
    /\ Alone(inbox[s], "LAST_WRITE") => ~Queued(inbox'[s], "LAST_WRITE")

\* The swap goes forward; LAST_WRITE and SAFE_TO_CLOSE are used once.
Forward(s) ==
    /\ reg[s] # "old" => reg'[s] # "old"
    /\ said[s] => said'[s]
    /\ reported[s] => reported'[s]
    /\ pc[s] = "drain" => pc'[s] = "drain" \/ reported'[s]
    /\ \A k \in Kinds : Queued(inbox'[s], k) => Queued(inbox[s], k)
    /\ Alone(inbox[s], "LAST_WRITE") => Alone(inbox'[s], "LAST_WRITE")
    /\ latch'[s] => latch[s] \/ TookLastWrite(s)
    /\ latch'[s] /\ said'[s] => said[s] \/ (latch[s] /\ TookLastWrite(s))
    /\ said'[s] => \/ said[s]
                   \/ latch[s] /\ ~latch'[s]
                   \/ TookLastWrite(s) /\ latch'[s] = latch[s]
    /\ pc'[s] = "drain" => pc[s] = "drain" \/ Queued(inbox[s], "SAFE_TO_CLOSE")
    /\ reported'[s] => \/ reported[s]
                       \/ /\ pc[s] = "drain" /\ (AtEof(s, "old") \/ wire["old"][s] # <<>>)
                          /\ wire'["old"][Other(s)] = wire["old"][Other(s)]

\* A frame of kind k goes out on the old link.
OldOpen(s) == end[s]["old"] = "open" /\ "old" \notin broken /\ end[Other(s)]["old"] # "closed"
Wrote(s, k) == OldOpen(s) /\ wire'["old"][Other(s)] = Added(wire["old"][Other(s)], k)

OldWire(s) ==
    /\ end'[s]["old"] \in {end[s]["old"], "closed"}
    /\ end'[s]["old"] # "closed" => wire'["old"][s] = wire["old"][s]
    /\ \/ wire'["old"][Other(s)] = wire["old"][Other(s)]
       \/ reg[s] = "old" /\ s = Advertiser /\ Wrote(s, "OFFER")
       \/ reg[s] = "old" /\ Wrote(s, "UPGRADE_FAILURE")
       \/ reg[s] = "old" /\ reg'[s] # "old" /\ Wrote(s, "LAST_WRITE")
       \/ /\ reg[s] = "old" /\ reg'[s] # "old" /\ said'[s]
          /\ OldOpen(s)
          /\ wire'["old"][Other(s)] =
                Added(Added(wire["old"][Other(s)], "LAST_WRITE"), "SAFE_TO_CLOSE")
       \/ TookLastWrite(s) /\ said'[s] /\ Wrote(s, "SAFE_TO_CLOSE")
       \/ pc'[s] = "drain" /\ Wrote(s, "DISCONNECTION")

NewWire(s) ==
    /\ end'[s]["new"] \notin {"absent", "closed"} /\ reg[Other(s)] # "old" =>
          end[s]["new"] \notin {"absent", "closed"}
    /\ \/ wire'["new"][s] = wire["new"][s]
       \/ end'[s]["new"] \in {"absent", "closed"} /\ wire'["new"][s] = <<>>
       \/ /\ wire["new"][s] # <<>> /\ wire'["new"][s] = Tail(wire["new"][s])
          /\ reg[s] = "old"
    /\ \/ wire'["new"][Other(s)] = wire["new"][Other(s)]
       \/ /\ end[Other(s)]["new"] # "closed"
          /\ \E k \in {"UPGRADE_FAILURE", "INTRODUCTION_ACK"} :
                wire'["new"][Other(s)] = Added(wire["new"][Other(s)], k)
       \/ reg[s] = "old" /\ wire'["new"][Other(s)] = <<Frame("INTRODUCTION")>>

\* An end that is closed has nothing to read.
Emptied ==
    \A p \in Peer, l \in Link : end[p][l] = "closed" => wire[l][p] = <<>>

ControlStep(s) == Beside(s) /\ Forward(s) /\ OldWire(s) /\ NewWire(s)

\* The owner of p takes a command.
LEMMA TakeFacts ==
    ASSUME inbox \in [Peer -> Seq(Commands)], NEW p \in Peer, NEW k, Take(p, k)
    PROVE  /\ pc[p] = "idle" /\ inbox' \in [Peer -> Seq(Commands)]
           /\ Queued(inbox[p], k) /\ inbox'[Other(p)] = inbox[Other(p)]
           /\ \A c : Queued(inbox'[p], c) => Queued(inbox[p], c)
           /\ \A c : Alone(inbox[p], c) => Alone(inbox'[p], c)
           /\ Alone(inbox[p], k) => ~Queued(inbox'[p], k)
<1>1. inbox[p] # <<>> /\ Head(inbox[p]) = k /\ inbox' = [inbox EXCEPT ![p] = Tail(inbox[p])]
      /\ pc[p] = "idle"
  BY DEF Take
<1>2. inbox[p] \in Seq(Commands) /\ Other(p) \in Peer /\ Other(p) # p
  BY Pairs
<1>3. inbox'[p] = Tail(inbox[p]) /\ inbox'[Other(p)] = inbox[Other(p)]
  BY <1>1, <1>2
<1>4. /\ Tail(inbox[p]) \in Seq(Commands)
      /\ \A c : Queued(inbox[p], c) <=> Head(inbox[p]) = c \/ Queued(Tail(inbox[p]), c)
      /\ \A c : Alone(inbox[p], c) => Alone(Tail(inbox[p]), c)
      /\ \A c : Alone(inbox[p], c) /\ Head(inbox[p]) = c => ~Queued(Tail(inbox[p]), c)
  BY <1>1, <1>2, TailCommand
<1>5. inbox' \in [Peer -> Seq(Commands)]
  BY <1>1, <1>4
<1> QED
  BY <1>1, <1>3, <1>4, <1>5

\* A step of s leaves the other device where it is in the swap.
LEMMA BesideReg ==
    ASSUME NEW s \in Peer, Beside(s), RegInv, RegAt(s)'
    PROVE  RegInv'
<1>1. RegAt(Other(s))'
  BY Pairs DEF Beside, RegInv, RegAt
<1> QED
  BY <1>1, Pairs DEF RegInv

\* The drain read returns: the old link is closed and the new one resumed.
LEMMA DrainStep ==
    ASSUME ControlInv, NEW p \in Peer, Drain(p)
    PROVE  TypeInv' /\ RegInv' /\ DialInv' /\ Emptied' /\ ControlStep(p)
<1>1. /\ wire \in Wires /\ end \in Ends /\ reg[p] = "new" /\ pc[p] = "drain"
      /\ end[p]["old"] = "open"
  BY DEF ControlInv, TypeInv, RegInv, RegAt, Drain
<1>2. wire' \in Wires /\ \A m \in Link, r \in Peer :
         wire'[m][r] = IF m = "old" /\ r = p THEN <<>> ELSE wire[m][r]
  BY <1>1, DiscardFacts DEF Drain, FinishUpgrade
<1>3. end' \in Ends /\ \A r \in Peer, m \in Link :
         end'[r][m] = IF r = p THEN IF m = "old" /\ end[r][m] # "absent" THEN "closed"
                                    ELSE IF m = "new" THEN "open" ELSE end[r][m]
                      ELSE end[r][m]
  <2>1. end' = [Closed(p, {"old"}) EXCEPT ![p]["new"] = "open"]
    BY <1>1 DEF Drain, FinishUpgrade
  <2> QED
    BY <1>1, <2>1, ClosedFacts, Pairs DEF Ends
<1>4. /\ UNCHANGED <<broken, reg, parked, latch, said, inbox, asksAck, offers, listening,
                     reading, handles, sent, got>>
      /\ reported' = [reported EXCEPT ![p] = TRUE]
      /\ busy' = [busy EXCEPT ![p] = FALSE] /\ pc' = [pc EXCEPT ![p] = "idle"]
  BY DEF Drain, FinishUpgrade, swapVars, offerVars, consumerVars
<1>5. TypeInv'
  BY <1>2, <1>3, <1>4 DEF ControlInv, TypeInv
<1>6. Beside(p)
  BY ZenonT(30), <1>3, <1>4, Pairs DEF ControlInv, TypeInv, Beside
<1>7. RegInv'
  <2>1. RegAt(p)'
    BY <1>1, <1>3, <1>4, Pairs DEF ControlInv, TypeInv, RegInv, RegAt
  <2> QED
    BY <1>6, <2>1, BesideReg DEF ControlInv
<1>8. DialInv'
  BY <1>1, <1>3, <1>4, Pairs DEF ControlInv, TypeInv, DialInv, RegInv, RegAt
<1>9. Emptied'
  BY <1>1, <1>2, <1>3, Pairs DEF ControlInv, WireInv, Emptied
<1>10. Forward(p)
  <2>1. AtEof(p, "old") \/ wire["old"][p] # <<>>
    BY DEF Drain
  <2>2. wire'["old"][Other(p)] = wire["old"][Other(p)]
    BY <1>2, Pairs
  <2> QED
    BY <1>1, <1>4, <2>1, <2>2 DEF ControlInv, TypeInv, Forward
<1>11. OldWire(p)
  BY <1>1, <1>2, <1>3, Pairs DEF OldWire
<1>12. NewWire(p)
  BY <1>1, <1>2, <1>3, Pairs DEF NewWire, ControlInv, RegInv, RegAt
<1> QED
  BY <1>5, <1>6, <1>7, <1>8, <1>9, <1>10, <1>11, <1>12 DEF ControlStep

\* What run_upgrade_protocol makes of the wires w that its command left.
Swapped(p, w) ==
    /\ wire' \in Wires
    /\ reg' = [reg EXCEPT ![p] = "new"]
    /\ parked' \in [Peer -> BOOLEAN] /\ latch' \in [Peer -> BOOLEAN] /\ said' \in [Peer -> BOOLEAN]
    /\ parked'[Other(p)] = parked[Other(p)] /\ latch'[Other(p)] = latch[Other(p)]
    /\ said'[Other(p)] = said[Other(p)]
    /\ parked'[p] => parked[p] \/ end[p]["old"] = "open"
    /\ latch'[p] => latch[p] /\ said'[p] = said[p]
    /\ said[p] => said'[p]
    /\ said'[p] => said[p] \/ (latch[p] /\ ~latch'[p])
    /\ \A r \in Peer : wire'["new"][r] = w["new"][r]
    /\ wire'["old"][p] = w["old"][p]
    /\ \/ wire'["old"][Other(p)] = w["old"][Other(p)]
       \/ /\ OldOpen(p)
          /\ \/ wire'["old"][Other(p)] = Added(w["old"][Other(p)], "LAST_WRITE")
             \/ /\ said'[p]
                /\ wire'["old"][Other(p)] =
                      Added(Added(w["old"][Other(p)], "LAST_WRITE"), "SAFE_TO_CLOSE")

\* RunUpgradeProtocol does what Swapped says of it.
LEMMA ProtocolFacts ==
    ASSUME TypeInv, NEW p \in Peer, NEW w \in Wires, RunUpgradeProtocol(p, w)
    PROVE  Swapped(p, w)
<1>1. reg' = [reg EXCEPT ![p] = "new"]
  BY DEF RunUpgradeProtocol
<1>2. CASE Writable(p, "old")
  <2>1. /\ parked' = [parked EXCEPT ![p] = TRUE] /\ latch' = [latch EXCEPT ![p] = FALSE]
        /\ said' = [said EXCEPT ![p] = said[p] \/ latch[p]]
    BY <1>2 DEF RunUpgradeProtocol
  <2>2. "LAST_WRITE" \in Kinds /\ "SAFE_TO_CLOSE" \in Kinds
    BY DEF Kinds
  <2> DEFINE Then(v) == IF latch[p] THEN Added(Added(v, "LAST_WRITE"), "SAFE_TO_CLOSE")
                        ELSE Added(v, "LAST_WRITE")
  <2>3. wire' \in Wires /\ \A m \in Link, r \in Peer :
           wire'[m][r] = IF m = "old" /\ r = Other(p) /\ end[r][m] # "closed"
                         THEN Then(w[m][r]) ELSE w[m][r]
    <3>1. CASE latch[p]
      <4>1. wire' = Put(w, p, "old", <<Frame("LAST_WRITE"), Frame("SAFE_TO_CLOSE")>>)
        BY <1>2, <3>1 DEF RunUpgradeProtocol
      <4>2. \A v : Then(v) = Added(Added(v, "LAST_WRITE"), "SAFE_TO_CLOSE")
        BY <3>1
      <4> DEFINE v == Put(w, p, "old", <<Frame("LAST_WRITE"), Frame("SAFE_TO_CLOSE")>>)
      <4>3. v \in Wires /\ \A m \in Link, r \in Peer :
               v[m][r] = IF m = "old" /\ r = Other(p) /\ end[r][m] # "closed"
                         THEN Added(Added(w[m][r], "LAST_WRITE"), "SAFE_TO_CLOSE") ELSE w[m][r]
        BY <2>2, PutTwo, Pairs
      <4> HIDE DEF Then
      <4> QED
        BY <4>1, <4>2, <4>3
    <3>2. CASE ~latch[p]
      <4>1. wire' = Put(w, p, "old", <<Frame("LAST_WRITE")>>)
        BY <1>2, <3>2 DEF RunUpgradeProtocol
      <4>2. \A v : Then(v) = Added(v, "LAST_WRITE")
        BY <3>2
      <4> DEFINE v == Put(w, p, "old", <<Frame("LAST_WRITE")>>)
      <4>3. v \in Wires /\ \A m \in Link, r \in Peer :
               v[m][r] = IF m = "old" /\ r = Other(p) /\ end[r][m] # "closed"
                         THEN Added(w[m][r], "LAST_WRITE") ELSE w[m][r]
        BY <2>2, PutFrame, Pairs
      <4> HIDE DEF Then
      <4> QED
        BY <4>1, <4>2, <4>3
    <3> QED
      BY <3>1, <3>2
  <2>4. \A v : Then(v) = Added(v, "LAST_WRITE")
                 \/ (latch[p] /\ Then(v) = Added(Added(v, "LAST_WRITE"), "SAFE_TO_CLOSE"))
    OBVIOUS
  <2> HIDE DEF Then
  <2>5. end[p]["old"] = "open" /\ "old" \notin broken
    BY <1>2 DEF Writable
  <2>6. /\ parked' \in [Peer -> BOOLEAN] /\ latch' \in [Peer -> BOOLEAN] /\ said' \in [Peer -> BOOLEAN]
        /\ parked'[Other(p)] = parked[Other(p)] /\ latch'[Other(p)] = latch[Other(p)]
        /\ said'[Other(p)] = said[Other(p)] /\ ~latch'[p] /\ (said'[p] <=> said[p] \/ latch[p])
    BY <2>1, Pairs DEF TypeInv
  <2>7. /\ \A r \in Peer : wire'["new"][r] = w["new"][r]
        /\ wire'["old"][p] = w["old"][p]
    BY <2>3, Pairs
  <2>8. wire'["old"][Other(p)] = w["old"][Other(p)]
        \/ (end[Other(p)]["old"] # "closed" /\ wire'["old"][Other(p)] = Then(w["old"][Other(p)]))
    BY <2>3, Pairs
  <2> QED
    BY <1>1, <2>3, <2>4, <2>5, <2>6, <2>7, <2>8 DEF Swapped, OldOpen
<1>3. CASE ~Writable(p, "old")
  <2>1. wire' = w /\ UNCHANGED <<parked, latch, said>>
    BY <1>3 DEF RunUpgradeProtocol
  <2> QED
    BY <1>1, <2>1 DEF TypeInv, Swapped
<1> QED
  BY <1>2, <1>3

\* run_upgrade_failed_protocol: the links of D are closed.
LEMMA FailedFacts ==
    ASSUME TypeInv, NEW p \in Peer, NEW down, down \subseteq {"new"}, reg[p] # "none",
           \A m \in down \cup {reg[p]} : end[p][m] # "absent",
           RunUpgradeFailedProtocol(p, down)
    PROVE  \E D : /\ D \subseteq {"new", reg[p]} /\ \A m \in D : end[p][m] # "absent"
                  /\ wire' \in Wires /\ end' \in Ends /\ busy' \in [Peer -> BOOLEAN]
                  /\ busy'[p] => busy[p]
                  /\ busy'[Other(p)] = busy[Other(p)]
                  /\ \A m \in Link : /\ end'[p][m] = IF m \in D THEN "closed" ELSE end[p][m]
                                     /\ wire'[m][p] = IF m \in D THEN <<>> ELSE wire[m][p]
                                     /\ end'[Other(p)][m] = end[Other(p)][m]
                  /\ \A m \in Link :
                        \/ wire'[m][Other(p)] = wire[m][Other(p)]
                        \/ /\ m = reg[p] /\ end[p][m] = "open" /\ m \notin broken
                           /\ end[Other(p)][m] # "closed"
                           /\ wire'[m][Other(p)] = Added(wire[m][Other(p)], "UPGRADE_FAILURE")
<1>1. wire \in Wires /\ end \in Ends /\ reg[p] \in Link
  BY DEF TypeInv, Link
<1>2. "UPGRADE_FAILURE" \in Kinds
  BY DEF Kinds
<1>3. CASE Writable(p, reg[p])
  <2> DEFINE w == Discard(wire, p, down)
  <2>1. w \in Wires /\ \A m \in Link, r \in Peer :
           w[m][r] = IF m \in down /\ r = p THEN <<>> ELSE wire[m][r]
    BY <1>1, DiscardFacts
  <2>2. /\ wire' = Put(w, p, reg[p], <<Frame("UPGRADE_FAILURE")>>)
        /\ end' = Closed(p, down) /\ busy' = [busy EXCEPT ![p] = FALSE]
    BY <1>3 DEF RunUpgradeFailedProtocol
  <2> HIDE DEF w
  <2>3. wire' \in Wires /\ \A m \in Link, r \in Peer :
           wire'[m][r] = IF m = reg[p] /\ r = Other(p) /\ end[r][m] # "closed"
                         THEN Added(w[m][r], "UPGRADE_FAILURE") ELSE w[m][r]
    <3> DEFINE v == Put(w, p, reg[p], <<Frame("UPGRADE_FAILURE")>>)
    <3>1. v \in Wires /\ \A m \in Link, r \in Peer :
             v[m][r] = IF m = reg[p] /\ r = Other(p) /\ end[r][m] # "closed"
                       THEN Added(w[m][r], "UPGRADE_FAILURE") ELSE w[m][r]
      BY <1>1, <1>2, <2>1, PutFrame
    <3>2. wire' = v
      BY <2>2
    <3> HIDE DEF v
    <3> QED
      BY <3>1, <3>2
  <2>4. end' \in Ends /\ \A r \in Peer, m \in Link :
           end'[r][m] = IF r = p /\ m \in down /\ end[r][m] # "absent" THEN "closed" ELSE end[r][m]
    BY <1>1, <2>2, ClosedFacts
  <2>5. end[p][reg[p]] = "open" /\ reg[p] \notin broken
    BY <1>3 DEF Writable
  <2>6. busy' \in [Peer -> BOOLEAN] /\ ~busy'[p] /\ busy'[Other(p)] = busy[Other(p)]
    BY <2>2, Pairs DEF TypeInv
  <2>7. \A m \in Link : /\ end'[p][m] = IF m \in down THEN "closed" ELSE end[p][m]
                        /\ wire'[m][p] = IF m \in down THEN <<>> ELSE wire[m][p]
                        /\ end'[Other(p)][m] = end[Other(p)][m]
    BY <2>1, <2>3, <2>4, Pairs
  <2>8. \A m \in Link :
           \/ wire'[m][Other(p)] = wire[m][Other(p)]
           \/ /\ m = reg[p] /\ end[p][m] = "open" /\ m \notin broken /\ end[Other(p)][m] # "closed"
              /\ wire'[m][Other(p)] = Added(wire[m][Other(p)], "UPGRADE_FAILURE")
    BY <2>1, <2>3, <2>5, Pairs
  <2> WITNESS down
  <2> QED
    BY <2>3, <2>4, <2>6, <2>7, <2>8
<1>4. CASE ~Writable(p, reg[p])
  <2> DEFINE D == down \cup {reg[p]}
  <2>1. wire' = Discard(wire, p, D) /\ end' = Closed(p, D) /\ UNCHANGED busy
    BY <1>4 DEF RunUpgradeFailedProtocol
  <2>2. D \subseteq {"new", reg[p]} /\ \A m \in D : end[p][m] # "absent"
    OBVIOUS
  <2> HIDE DEF D
  <2>3. wire' \in Wires /\ \A m \in Link, r \in Peer :
           wire'[m][r] = IF m \in D /\ r = p THEN <<>> ELSE wire[m][r]
    BY <1>1, <2>1, DiscardFacts
  <2>4. end' \in Ends /\ \A r \in Peer, m \in Link :
           end'[r][m] = IF r = p /\ m \in D /\ end[r][m] # "absent" THEN "closed" ELSE end[r][m]
    BY <1>1, <2>1, ClosedFacts
  <2>5. \A m \in Link : /\ end'[p][m] = IF m \in D THEN "closed" ELSE end[p][m]
                        /\ wire'[m][p] = IF m \in D THEN <<>> ELSE wire[m][p]
                        /\ end'[Other(p)][m] = end[Other(p)][m]
                        /\ wire'[m][Other(p)] = wire[m][Other(p)]
    BY <2>2, <2>3, <2>4, Pairs
  <2> WITNESS D
  <2> QED
    BY <2>1, <2>2, <2>3, <2>4, <2>5 DEF TypeInv
<1> QED
  BY <1>3, <1>4

\* Steps that touch neither wires nor ends.
LEMMA QuietStep ==
    ASSUME ControlInv, NEW p \in Peer,
           \/ p = Advertiser /\ ResetUpgrade
           \/ OnIncomingConnection(p) \/ OnUpgradeFailure(p) \/ Ignore(p) \/ GetUpgradedChannel(p)
    PROVE  TypeInv' /\ RegInv' /\ DialInv' /\ Emptied' /\ ControlStep(p)
<1>1. TypeInv /\ RegInv /\ DialInv /\ RegAt(p) /\ wire \in Wires /\ end \in Ends
  BY DEF ControlInv, TypeInv, RegInv
<1>2. /\ UNCHANGED <<wire, end, broken, reg, parked, latch, said, reported, asksAck,
                     reading, sent, got>>
      /\ listening' \in BOOLEAN /\ (listening' => listening)
      /\ busy' \in [Peer -> BOOLEAN] /\ (busy'[p] => busy[p])
      /\ busy'[Other(p)] = busy[Other(p)]
  <2>1. /\ UNCHANGED <<wire, end, broken, reg, parked, latch, said, reported, asksAck,
                       reading, sent, got>>
        /\ listening' = listening \/ listening' = FALSE
        /\ busy' = busy \/ busy' = [busy EXCEPT ![p] = FALSE]
    BY DEF ResetUpgrade, OnIncomingConnection, OnUpgradeFailure, Ignore, GetUpgradedChannel,
           swapVars, offerVars, consumerVars
  <2>2. listening' \in BOOLEAN /\ (listening' => listening)
    <3>1. listening \in BOOLEAN
      BY <1>1 DEF TypeInv
    <3>2. CASE listening' = listening
      BY <3>1, <3>2
    <3>3. CASE listening' = FALSE
      BY <3>3
    <3> QED
      BY <2>1, <3>2, <3>3
  <2>3. /\ busy' \in [Peer -> BOOLEAN] /\ (busy'[p] => busy[p])
        /\ busy'[Other(p)] = busy[Other(p)]
    BY <1>1, <2>1, Pairs DEF TypeInv
  <2> QED
    BY <2>1, <2>2, <2>3
<1>3. /\ inbox' \in [Peer -> Seq(Commands)] /\ inbox'[Other(p)] = inbox[Other(p)]
      /\ \A c : Queued(inbox'[p], c) => Queued(inbox[p], c)
      /\ \A c : Alone(inbox[p], c) => Alone(inbox'[p], c)
  <2>1. inbox \in [Peer -> Seq(Commands)]
    BY <1>1 DEF TypeInv
  <2>2. inbox' = inbox \/ \E k : Take(p, k)
    BY DEF ResetUpgrade, OnIncomingConnection, OnUpgradeFailure, Ignore, GetUpgradedChannel
  <2> QED
    BY <2>1, <2>2, TakeFacts
<1>4. /\ handles' \in [Peer -> SUBSET Link] /\ handles'[Other(p)] = handles[Other(p)]
      /\ "new" \in handles'[p] => "new" \in handles[p] \/ reg[p] = "new"
  <2>1. CASE GetUpgradedChannel(p)
    <3>1. handles' = [handles EXCEPT ![p] = handles[p] \cup {reg[p]}] /\ reg[p] \in Link
      BY <1>1, <2>1 DEF GetUpgradedChannel, TypeInv, Link
    <3> QED
      BY <1>1, <3>1, Pairs DEF TypeInv
  <2>2. CASE ~GetUpgradedChannel(p)
    BY <1>1, <2>2 DEF TypeInv, ResetUpgrade, OnIncomingConnection, OnUpgradeFailure, Ignore, consumerVars
  <2> QED
    BY <2>1, <2>2
<1>5. /\ pc' \in [Peer -> {"idle", "ack", "intro", "drain"}]
      /\ pc'[Other(p)] = pc[Other(p)]
      /\ \/ pc'[p] = pc[p]
         \/ /\ pc[p] = "idle" /\ pc'[p] = "intro" /\ Queued(inbox[p], "SOCKET")
            /\ Alone(inbox[p], "SOCKET") => ~Queued(inbox'[p], "SOCKET")
  <2>1. CASE OnIncomingConnection(p)
    <3>1. pc' = [pc EXCEPT ![p] = "intro"] /\ Take(p, "SOCKET")
      BY <2>1 DEF OnIncomingConnection
    <3>2. /\ pc[p] = "idle" /\ Queued(inbox[p], "SOCKET")
          /\ Alone(inbox[p], "SOCKET") => ~Queued(inbox'[p], "SOCKET")
      BY <1>1, <3>1, TakeFacts DEF TypeInv
    <3> QED
      BY <1>1, <3>1, <3>2, Pairs DEF TypeInv
  <2>2. CASE ~OnIncomingConnection(p)
    BY <1>1, <2>2 DEF TypeInv, ResetUpgrade, OnUpgradeFailure, Ignore, GetUpgradedChannel
  <2> QED
    BY <2>1, <2>2
<1>6. TypeInv'
  BY <1>1, <1>2, <1>3, <1>4, <1>5 DEF TypeInv
<1>7. Beside(p)
  BY <1>2, <1>3, <1>4, <1>5 DEF Beside
<1>8. RegInv'
  <2>1. RegAt(p)'
    BY <1>1, <1>2, <1>4, <1>5 DEF RegAt
  <2> QED
    BY <1>1, <1>7, <2>1, BesideReg
<1>9. DialInv'
  BY <1>1, <1>2, <1>3, <1>5, Pairs DEF DialInv
<1>10. Emptied'
  BY <1>2 DEF ControlInv, WireInv, Emptied
<1>11. Forward(p)
  BY <1>2, <1>3, <1>5 DEF Forward
<1>12. OldWire(p) /\ NewWire(p)
  BY <1>2 DEF OldWire, NewWire
<1> QED
  BY <1>6, <1>7, <1>8, <1>9, <1>10, <1>11, <1>12 DEF ControlStep

\* initiate_bwu_for_endpoint.
LEMMA OfferStep ==
    ASSUME ControlInv, Offer
    PROVE  TypeInv' /\ RegInv' /\ DialInv' /\ Emptied' /\ ControlStep(Advertiser)
<1> DEFINE p == Advertiser
<1>1. TypeInv /\ RegInv /\ DialInv /\ RegAt(p) /\ wire \in Wires /\ end \in Ends /\ p \in Peer
  BY Pairs DEF ControlInv, TypeInv, RegInv
<1>2. /\ UNCHANGED <<end, broken, reg, parked, latch, said, pc, reported, inbox, asksAck,
                     reading, handles, sent, got>>
      /\ listening' \in BOOLEAN /\ reg[p] = "old"
      /\ busy' = [busy EXCEPT ![p] = listening']
  BY DEF Offer, Writable, swapVars, consumerVars
<1>3. /\ wire' \in Wires
      /\ \A m \in Link, r \in Peer :
            \/ wire'[m][r] = wire[m][r]
            \/ /\ m = "old" /\ r = Other(p) /\ end[p]["old"] = "open" /\ "old" \notin broken
               /\ end[r][m] # "closed" /\ wire'[m][r] = Added(wire[m][r], "OFFER")
  <2>1. CASE Writable(p, "old")
    <3> DEFINE v == Put(wire, p, "old", <<Frame("OFFER")>>)
    <3>1. "OFFER" \in Kinds /\ "old" \in Link
      BY DEF Kinds, Link
    <3>2. v \in Wires /\ \A m \in Link, r \in Peer :
             v[m][r] = IF m = "old" /\ r = Other(p) /\ end[r][m] # "closed"
                       THEN Added(wire[m][r], "OFFER") ELSE wire[m][r]
      BY <1>1, <3>1, PutFrame
    <3>3. wire' = v /\ end[p]["old"] = "open" /\ "old" \notin broken
      BY <2>1 DEF Offer, Writable
    <3> HIDE DEF v
    <3> QED
      BY <3>2, <3>3
  <2>2. CASE ~Writable(p, "old")
    BY <1>1, <2>2 DEF Offer
  <2> QED
    BY <2>1, <2>2
<1>4. busy' \in [Peer -> BOOLEAN] /\ busy'[Other(p)] = busy[Other(p)]
  BY <1>1, <1>2, Pairs DEF TypeInv
<1>5. TypeInv'
  BY <1>1, <1>2, <1>3, <1>4 DEF TypeInv
<1>6. Beside(p)
  BY <1>2, <1>4 DEF Beside
<1>7. RegInv'
  <2>1. RegAt(p)'
    BY <1>1, <1>2 DEF RegAt
  <2> QED
    BY <1>1, <1>6, <2>1, BesideReg
<1>8. DialInv'
  BY <1>1, <1>2 DEF DialInv
<1>9. Emptied'
  BY <1>2, <1>3 DEF ControlInv, WireInv, Emptied
<1>10. Forward(p)
  BY <1>2 DEF Forward
<1>11. OldWire(p)
  BY <1>1, <1>2, <1>3, Pairs DEF OldWire, Wrote, OldOpen
<1>12. NewWire(p)
  BY <1>1, <1>2, <1>3, Pairs DEF NewWire
<1> QED
  BY <1>5, <1>6, <1>7, <1>8, <1>9, <1>10, <1>11, <1>12 DEF ControlStep

\* UPGRADE_PATH_AVAILABLE while an upgrade runs.
LEMMA DuplicateOfferStep ==
    ASSUME ControlInv, NEW p \in Peer, DuplicateOffer(p)
    PROVE  TypeInv' /\ RegInv' /\ DialInv' /\ Emptied' /\ ControlStep(p)
<1>1. TypeInv /\ RegInv /\ DialInv /\ RegAt(p) /\ wire \in Wires /\ end \in Ends
  BY DEF ControlInv, TypeInv, RegInv
<1>2. /\ UNCHANGED <<broken, reg, latch, said, busy, pc, reported, asksAck, offers, listening,
                     reading, handles, sent, got>>
      /\ parked' = [parked EXCEPT ![p] = FALSE] /\ pc[p] = "idle"
      /\ reg[p] # "none" /\ busy[p] /\ Take(p, "OFFER")
  BY DEF DuplicateOffer, Take, offerVars, consumerVars
<1>3. /\ inbox' \in [Peer -> Seq(Commands)] /\ inbox'[Other(p)] = inbox[Other(p)]
      /\ \A c : Queued(inbox'[p], c) => Queued(inbox[p], c)
      /\ \A c : Alone(inbox[p], c) => Alone(inbox'[p], c)
  BY <1>1, <1>2, TakeFacts DEF TypeInv
<1> DEFINE D == {reg[p]} \cup IF parked[p] THEN {"old"} ELSE {}
<1>4. wire' = Discard(wire, p, D) /\ end' = Closed(p, D)
  BY DEF DuplicateOffer
<1>5. \A m \in Link : m \in D => end[p][m] # "absent"
  BY <1>1, <1>2 DEF RegAt, TypeInv
<1>6. parked[p] => "old" \in D
  OBVIOUS
<1> HIDE DEF D
<1>7. /\ wire' \in Wires /\ end' \in Ends
      /\ \A m \in Link : /\ end'[p][m] = IF m \in D THEN "closed" ELSE end[p][m]
                         /\ wire'[m][p] = IF m \in D THEN <<>> ELSE wire[m][p]
                         /\ end'[Other(p)][m] = end[Other(p)][m]
                         /\ wire'[m][Other(p)] = wire[m][Other(p)]
  <2>1. wire' \in Wires /\ \A m \in Link, r \in Peer :
           wire'[m][r] = IF m \in D /\ r = p THEN <<>> ELSE wire[m][r]
    BY <1>1, <1>4, DiscardFacts
  <2>2. end' \in Ends /\ \A r \in Peer, m \in Link :
           end'[r][m] = IF r = p /\ m \in D /\ end[r][m] # "absent" THEN "closed" ELSE end[r][m]
    BY <1>1, <1>4, ClosedFacts
  <2> QED
    BY <1>5, <2>1, <2>2, Pairs
<1>8. /\ parked' \in [Peer -> BOOLEAN] /\ ~parked'[p] /\ parked'[Other(p)] = parked[Other(p)]
  BY ZenonT(30), <1>1, <1>2, Pairs DEF TypeInv
<1>9. TypeInv'
  BY <1>1, <1>2, <1>3, <1>7, <1>8 DEF TypeInv
<1>10. Beside(p)
  BY <1>2, <1>3, <1>7, <1>8, Pairs DEF Beside
<1>11. RegInv'
  <2>1. RegAt(p)'
    BY <1>1, <1>2, <1>7, <1>8, Pairs DEF RegAt
  <2> QED
    BY <1>1, <1>10, <2>1, BesideReg
<1>12. DialInv'
  BY <1>1, <1>2, <1>3, <1>5, <1>7, Pairs DEF DialInv
<1>13. Emptied'
  BY <1>7, Pairs DEF ControlInv, WireInv, Emptied
<1>14. Forward(p)
  BY <1>2, <1>3 DEF Forward
<1>15. OldWire(p) /\ NewWire(p)
  BY <1>7, Pairs DEF OldWire, NewWire
<1> QED
  BY <1>9, <1>10, <1>11, <1>12, <1>13, <1>14, <1>15 DEF ControlStep

\* UPGRADE_PATH_AVAILABLE whose medium cannot be joined.
LEMMA RefuseOfferStep ==
    ASSUME ControlInv, NEW p \in Peer, RefuseOffer(p)
    PROVE  TypeInv' /\ RegInv' /\ DialInv' /\ Emptied' /\ ControlStep(p)
<1>1. TypeInv /\ RegInv /\ DialInv /\ RegAt(p) /\ wire \in Wires /\ end \in Ends
  BY DEF ControlInv, TypeInv, RegInv
<1>2. /\ UNCHANGED <<broken, reg, parked, latch, said, pc, reported, asksAck, offers, listening,
                     reading, handles, sent, got>>
      /\ RunUpgradeFailedProtocol(p, {}) /\ pc[p] = "idle"
      /\ reg[p] # "none" /\ ~busy[p] /\ Take(p, "OFFER")
  BY DEF RefuseOffer, Take, swapVars, offerVars, consumerVars
<1>3. /\ inbox' \in [Peer -> Seq(Commands)] /\ inbox'[Other(p)] = inbox[Other(p)]
      /\ \A c : Queued(inbox'[p], c) => Queued(inbox[p], c)
      /\ \A c : Alone(inbox[p], c) => Alone(inbox'[p], c)
      /\ Queued(inbox[p], "OFFER")
  BY <1>1, <1>2, TakeFacts DEF TypeInv
<1>4. reg[p] \in Link /\ end[p][reg[p]] # "absent"
  BY <1>1, <1>2 DEF RegAt, TypeInv, Link
<1>5. PICK D : /\ D \subseteq {"new", reg[p]} /\ \A m \in D : end[p][m] # "absent"
               /\ wire' \in Wires /\ end' \in Ends /\ busy' \in [Peer -> BOOLEAN]
               /\ busy'[p] => busy[p]
               /\ busy'[Other(p)] = busy[Other(p)]
               /\ \A m \in Link : /\ end'[p][m] = IF m \in D THEN "closed" ELSE end[p][m]
                                  /\ wire'[m][p] = IF m \in D THEN <<>> ELSE wire[m][p]
                                  /\ end'[Other(p)][m] = end[Other(p)][m]
               /\ \A m \in Link :
                     \/ wire'[m][Other(p)] = wire[m][Other(p)]
                     \/ /\ m = reg[p] /\ end[p][m] = "open" /\ m \notin broken
                        /\ end[Other(p)][m] # "closed"
                        /\ wire'[m][Other(p)] = Added(wire[m][Other(p)], "UPGRADE_FAILURE")
  BY <1>1, <1>2, <1>4, FailedFacts
<1>6. p = Discoverer
  BY <1>1, <1>3, Pairs DEF DialInv
<1>9. TypeInv'
  BY <1>1, <1>2, <1>3, <1>5 DEF TypeInv
<1>10. Beside(p)
  BY <1>2, <1>3, <1>5, Pairs DEF Beside
<1>11. RegInv'
  <2>1. RegAt(p)'
    BY <1>1, <1>2, <1>5, Pairs DEF RegAt
  <2> QED
    BY <1>1, <1>10, <2>1, BesideReg
<1>12. DialInv'
  BY <1>1, <1>2, <1>3, <1>5, <1>6, Pairs DEF DialInv
<1>13. Emptied'
  BY <1>5, Pairs DEF ControlInv, WireInv, Emptied
<1>14. Forward(p)
  BY <1>2, <1>3 DEF Forward
<1>15. OldWire(p)
  BY <1>5, Pairs DEF OldWire, Wrote, OldOpen
<1>16. NewWire(p)
  BY <1>5, Pairs DEF NewWire
<1> QED
  BY <1>9, <1>10, <1>11, <1>12, <1>13, <1>14, <1>15, <1>16 DEF ControlStep

\* The owner unregisters the endpoint and closes its channels.
LEMMA DisconnectStep ==
    ASSUME ControlInv, NEW p \in Peer, Disconnect(p)
    PROVE  TypeInv' /\ RegInv' /\ DialInv' /\ Emptied' /\ ControlStep(p)
<1>1. TypeInv /\ RegInv /\ DialInv /\ RegAt(p) /\ wire \in Wires /\ end \in Ends
  BY DEF ControlInv, TypeInv, RegInv
<1>2. /\ UNCHANGED <<broken, said, pc, reported, inbox, asksAck, reading, handles, sent, got>>
      /\ reg' = [reg EXCEPT ![p] = "none"] /\ parked' = [parked EXCEPT ![p] = FALSE]
      /\ latch' = [latch EXCEPT ![p] = FALSE] /\ busy' = [busy EXCEPT ![p] = FALSE]
      /\ listening' = (listening /\ p # Advertiser)
      /\ wire' = Discard(wire, p, Link) /\ end' = Closed(p, Link)
      /\ pc[p] = "idle"
  BY DEF Disconnect, consumerVars
<1>3. /\ wire' \in Wires /\ end' \in Ends
      /\ \A m \in Link : /\ end'[p][m] = IF end[p][m] # "absent" THEN "closed" ELSE "absent"
                         /\ wire'[m][p] = <<>>
                         /\ end'[Other(p)][m] = end[Other(p)][m]
                         /\ wire'[m][Other(p)] = wire[m][Other(p)]
  <2>1. wire' \in Wires /\ \A m \in Link, r \in Peer :
           wire'[m][r] = IF m \in Link /\ r = p THEN <<>> ELSE wire[m][r]
    BY <1>1, <1>2, DiscardFacts
  <2>2. end' \in Ends /\ \A r \in Peer, m \in Link :
           end'[r][m] = IF r = p /\ m \in Link /\ end[r][m] # "absent" THEN "closed" ELSE end[r][m]
    BY <1>1, <1>2, ClosedFacts
  <2> QED
    BY <2>1, <2>2, Pairs
<1>4. /\ reg' \in [Peer -> {"old", "new", "none"}] /\ reg'[p] = "none"
      /\ reg'[Other(p)] = reg[Other(p)]
      /\ parked' \in [Peer -> BOOLEAN] /\ ~parked'[p] /\ parked'[Other(p)] = parked[Other(p)]
      /\ latch' \in [Peer -> BOOLEAN] /\ ~latch'[p] /\ latch'[Other(p)] = latch[Other(p)]
      /\ busy' \in [Peer -> BOOLEAN] /\ ~busy'[p] /\ busy'[Other(p)] = busy[Other(p)]
  BY ZenonT(30), <1>1, <1>2, Pairs DEF TypeInv
<1>5. listening' \in BOOLEAN /\ (listening' => listening /\ p # Advertiser)
  BY <1>2
<1>9. TypeInv'
  BY <1>1, <1>2, <1>3, <1>4, <1>5 DEF TypeInv
<1>10. Beside(p)
  BY <1>2, <1>3, <1>4, Pairs DEF Beside
<1>11. RegInv'
  <2>1. RegAt(p)'
    BY <1>1, <1>2, <1>3, <1>4, Pairs DEF RegAt
  <2> QED
    BY <1>1, <1>10, <2>1, BesideReg
<1>12. DialInv'
  BY <1>1, <1>2, <1>3, <1>4, <1>5, Pairs DEF DialInv
<1>13. Emptied'
  BY <1>3, Pairs DEF ControlInv, WireInv, Emptied
<1>14. Forward(p)
  BY <1>2, <1>4 DEF Forward
<1>15. OldWire(p)
  BY <1>1, <1>3, Pairs DEF OldWire, RegAt
<1>16. NewWire(p)
  BY <1>1, <1>3, Pairs DEF NewWire
<1> QED
  BY <1>9, <1>10, <1>11, <1>12, <1>13, <1>14, <1>15, <1>16 DEF ControlStep

\* The accept loop takes the dialled socket.
LEMMA AcceptStep ==
    ASSUME ControlInv, NEW p \in Peer, Accept(p)
    PROVE  TypeInv' /\ RegInv' /\ DialInv' /\ Emptied' /\ ControlStep(p)
<1>1. TypeInv /\ RegInv /\ DialInv /\ RegAt(p) /\ wire \in Wires /\ end \in Ends
  BY DEF ControlInv, TypeInv, RegInv
<1>2. /\ UNCHANGED <<broken, reg, parked, latch, said, busy, pc, reported, asksAck, offers,
                     listening, reading, handles, sent, got>>
      /\ end[p]["new"] = "dialled"
  BY DEF Accept, swapVars, offerVars, consumerVars
<1>3. p = Advertiser /\ reg[p] = "old" /\ ~Queued(inbox[p], "SOCKET") /\ pc[p] # "intro"
  BY <1>1, <1>2, Pairs DEF DialInv
<1>4. CASE listening
  <2>1. /\ end' = [end EXCEPT ![p]["new"] = "open"] /\ UNCHANGED wire
        /\ inbox' = [inbox EXCEPT ![p] = Append(inbox[p], "SOCKET")]
    BY <1>4 DEF Accept
  <2>2. /\ end' \in Ends /\ end'[p]["new"] = "open" /\ end'[p]["old"] = end[p]["old"]
        /\ end'[Other(p)] = end[Other(p)]
    BY <1>1, <2>1, Pairs DEF Ends
  <2>3. /\ inbox' \in [Peer -> Seq(Commands)] /\ inbox'[Other(p)] = inbox[Other(p)]
        /\ \A c : Queued(inbox'[p], c) => Queued(inbox[p], c) \/ c = "SOCKET"
        /\ \A c : Alone(inbox[p], c) => Alone(inbox'[p], c)
    <3> DEFINE t == Append(inbox[p], "SOCKET")
    <3>1. inbox[p] \in Seq(Commands) /\ "SOCKET" \in Commands
      BY <1>1 DEF TypeInv, Commands
    <3>2. /\ t \in Seq(Commands)
          /\ \A c : Queued(t, c) <=> Queued(inbox[p], c) \/ "SOCKET" = c
          /\ \A c : Alone(inbox[p], c) /\ ("SOCKET" = c => ~Queued(inbox[p], c)) => Alone(t, c)
      BY <3>1, AppendCommand
    <3> HIDE DEF t
    <3>3. inbox' \in [Peer -> Seq(Commands)] /\ inbox'[Other(p)] = inbox[Other(p)] /\ inbox'[p] = t
      BY <1>1, <2>1, <3>2, Pairs DEF TypeInv, t
    <3> QED
      BY <1>3, <3>2, <3>3
  <2>4. TypeInv'
    BY <1>1, <1>2, <2>1, <2>2, <2>3 DEF TypeInv
  <2>5. Beside(p)
    BY <1>2, <2>2, <2>3 DEF Beside
  <2>6. RegInv'
    <3>1. RegAt(p)'
      BY <1>1, <1>2, <1>3, <2>2 DEF RegAt
    <3> QED
      BY <1>1, <2>5, <3>1, BesideReg
  <2>7. DialInv'
    BY <1>1, <1>2, <1>3, <2>2, <2>3, Pairs DEF DialInv
  <2>8. Emptied'
    BY <2>1, <2>2, Pairs DEF ControlInv, WireInv, Emptied
  <2>9. Forward(p)
    <3>1. "SOCKET" \notin Kinds
      BY DEF Kinds
    <3> QED
      BY <1>2, <2>3, <3>1 DEF Forward
  <2>10. OldWire(p) /\ NewWire(p)
    BY <1>2, <2>1, <2>2, Pairs DEF OldWire, NewWire
  <2> QED
    BY <2>4, <2>5, <2>6, <2>7, <2>8, <2>9, <2>10 DEF ControlStep
<1>5. CASE ~listening
  <2>1. end' = Closed(p, {"new"}) /\ wire' = Discard(wire, p, {"new"}) /\ UNCHANGED inbox
    BY <1>5 DEF Accept
  <2>2. wire' \in Wires /\ \A m \in Link, r \in Peer :
           wire'[m][r] = IF m \in {"new"} /\ r = p THEN <<>> ELSE wire[m][r]
    BY <1>1, <2>1, DiscardFacts
  <2>3. end' \in Ends /\ \A r \in Peer, m \in Link :
           end'[r][m] = IF r = p /\ m \in {"new"} /\ end[r][m] # "absent" THEN "closed" ELSE end[r][m]
    BY <1>1, <2>1, ClosedFacts
  <2>4. TypeInv'
    BY <1>1, <1>2, <2>1, <2>2, <2>3 DEF TypeInv
  <2>5. Beside(p)
    BY <1>2, <2>1, <2>3, Pairs DEF Beside
  <2>6. RegInv'
    <3>1. RegAt(p)'
      BY <1>1, <1>2, <1>3, <2>3, Pairs DEF RegAt
    <3> QED
      BY <1>1, <2>5, <3>1, BesideReg
  <2>7. DialInv'
    BY <1>1, <1>2, <1>3, <2>1, <2>3, Pairs DEF DialInv
  <2>8. Emptied'
    BY <2>2, <2>3, Pairs DEF ControlInv, WireInv, Emptied
  <2>9. Forward(p)
    BY <1>2, <2>1 DEF Forward
  <2>10. OldWire(p) /\ NewWire(p)
    BY <1>2, <2>2, <2>3, Pairs DEF OldWire, NewWire
  <2> QED
    BY <2>4, <2>5, <2>6, <2>7, <2>8, <2>9, <2>10 DEF ControlStep
<1> QED
  BY <1>4, <1>5

\* LAST_WRITE_TO_PRIOR_CHANNEL.
LEMMA OnLastWriteStep ==
    ASSUME ControlInv, NEW p \in Peer, OnLastWrite(p)
    PROVE  TypeInv' /\ RegInv' /\ DialInv' /\ Emptied' /\ ControlStep(p)
<1>1. TypeInv /\ RegInv /\ DialInv /\ RegAt(p) /\ wire \in Wires /\ end \in Ends
  BY DEF ControlInv, TypeInv, RegInv
<1>2. /\ UNCHANGED <<broken, reg, busy, pc, reported, asksAck, offers, listening,
                     reading, handles, sent, got>>
      /\ Take(p, "LAST_WRITE") /\ pc[p] = "idle" /\ busy[p]
  BY DEF OnLastWrite, Take, offerVars, consumerVars
<1>3. /\ inbox' \in [Peer -> Seq(Commands)] /\ inbox'[Other(p)] = inbox[Other(p)]
      /\ \A c : Queued(inbox'[p], c) => Queued(inbox[p], c)
      /\ \A c : Alone(inbox[p], c) => Alone(inbox'[p], c)
      /\ TookLastWrite(p)
  BY <1>1, <1>2, TakeFacts DEF TypeInv, TookLastWrite
<1> DEFINE Tokens == /\ parked' \in [Peer -> BOOLEAN] /\ latch' \in [Peer -> BOOLEAN]
                     /\ said' \in [Peer -> BOOLEAN]
                     /\ parked'[Other(p)] = parked[Other(p)] /\ latch'[Other(p)] = latch[Other(p)]
                     /\ said'[Other(p)] = said[Other(p)]
<1>4. /\ Tokens /\ wire' \in Wires /\ end' \in Ends /\ Emptied'
      /\ parked'[p] => parked[p]
      /\ latch'[p] /\ said'[p] => said[p] \/ latch[p]
      /\ said[p] => said'[p]
      /\ said'[p] => said[p] \/ (parked[p] /\ latch'[p] = latch[p])
      /\ \A m \in Link : end'[Other(p)][m] = end[Other(p)][m]
      /\ end'[p]["new"] = end[p]["new"] /\ wire'["new"][p] = wire["new"][p]
      /\ wire'["new"][Other(p)] = wire["new"][Other(p)]
      /\ \/ end'[p]["old"] = end[p]["old"] /\ wire'["old"][p] = wire["old"][p]
         \/ end'[p]["old"] = "closed" /\ ~parked'[p]
      /\ wire'["old"][Other(p)] = wire["old"][Other(p)] \/ (said'[p] /\ Wrote(p, "SAFE_TO_CLOSE"))
  <2>0. Emptied
    BY DEF ControlInv, WireInv, Emptied
  <2>1. CASE ~parked[p]
    <3>1. latch' = [latch EXCEPT ![p] = TRUE] /\ UNCHANGED <<wire, end, parked, said>>
      BY <2>1 DEF OnLastWrite
    <3>2. Tokens
      BY <1>1, <3>1, Pairs DEF TypeInv
    <3> QED
      BY <1>1, <2>0, <3>1, <3>2 DEF Emptied
  <2>2. CASE parked[p] /\ Writable(p, "old")
    <3>1. /\ wire' = Put(wire, p, "old", <<Frame("SAFE_TO_CLOSE")>>)
          /\ said' = [said EXCEPT ![p] = TRUE] /\ UNCHANGED <<end, parked, latch>>
      BY <2>2 DEF OnLastWrite
    <3>2. Tokens /\ said'[p]
      BY <1>1, <3>1, Pairs DEF TypeInv
    <3> DEFINE v == Put(wire, p, "old", <<Frame("SAFE_TO_CLOSE")>>)
    <3>3. "SAFE_TO_CLOSE" \in Kinds /\ "old" \in Link
      BY DEF Kinds, Link
    <3>4. v \in Wires /\ \A m \in Link, r \in Peer :
             v[m][r] = IF m = "old" /\ r = Other(p) /\ end[r][m] # "closed"
                       THEN Added(wire[m][r], "SAFE_TO_CLOSE") ELSE wire[m][r]
      BY <1>1, <3>3, PutFrame
    <3>5. wire' = v /\ end[p]["old"] = "open" /\ "old" \notin broken
      BY <2>2, <3>1 DEF Writable
    <3> HIDE DEF v, Tokens
    <3>6. Emptied'
      BY <2>0, <3>1, <3>4, <3>5 DEF Emptied
    <3>7. wire'["old"][Other(p)] = wire["old"][Other(p)] \/ Wrote(p, "SAFE_TO_CLOSE")
      BY <3>4, <3>5, Pairs DEF Wrote, OldOpen
    <3>8. \A m \in Link : wire'[m][p] = wire[m][p]
      BY <3>4, <3>5, Pairs
    <3>9. wire'["new"][Other(p)] = wire["new"][Other(p)]
      BY <3>4, <3>5, Pairs
    <3> QED
      BY <1>1, <2>2, <3>1, <3>2, <3>4, <3>5, <3>6, <3>7, <3>8, <3>9, Pairs
  <2>3. CASE parked[p] /\ ~Writable(p, "old")
    <3>1. /\ end' = Closed(p, {"old"}) /\ wire' = Discard(wire, p, {"old"})
          /\ parked' = [parked EXCEPT ![p] = FALSE] /\ UNCHANGED <<latch, said>>
      BY <2>3 DEF OnLastWrite
    <3>2. Tokens /\ ~parked'[p]
      BY <1>1, <3>1, Pairs DEF TypeInv
    <3> HIDE DEF Tokens
    <3>3. wire' \in Wires /\ \A m \in Link, r \in Peer :
             wire'[m][r] = IF m \in {"old"} /\ r = p THEN <<>> ELSE wire[m][r]
      BY <1>1, <3>1, DiscardFacts
    <3>4. end' \in Ends /\ \A r \in Peer, m \in Link :
             end'[r][m] = IF r = p /\ m \in {"old"} /\ end[r][m] # "absent" THEN "closed" ELSE end[r][m]
      BY <1>1, <3>1, ClosedFacts
    <3>5. Emptied'
      BY <2>0, <3>3, <3>4 DEF Emptied
    <3>6. end[p]["old"] = "open"
      BY <1>1, <2>3 DEF RegAt
    <3> QED
      BY <3>1, <3>2, <3>3, <3>4, <3>5, <3>6, Pairs
  <2> QED
    BY <2>1, <2>2, <2>3
<1>5. TypeInv'
  BY <1>1, <1>2, <1>3, <1>4 DEF TypeInv
<1>6. Beside(p)
  BY <1>2, <1>3, <1>4, Pairs DEF Beside
<1>7. RegInv'
  <2>1. RegAt(p)'
    BY <1>1, <1>2, <1>4, Pairs DEF RegAt
  <2> QED
    BY <1>1, <1>6, <2>1, BesideReg
<1>8. DialInv'
  <2>1. \A r \in Peer : end'[r]["new"] = end[r]["new"]
    BY <1>4, Pairs
  <2> QED
    BY <1>1, <1>2, <1>3, <2>1, Pairs DEF DialInv
<1>9. Forward(p)
  BY <1>2, <1>3, <1>4 DEF Forward
<1>10. OldWire(p) /\ NewWire(p)
  BY <1>3, <1>4 DEF OldWire, NewWire
<1> QED
  BY <1>4, <1>5, <1>6, <1>7, <1>8, <1>9, <1>10 DEF ControlStep

\* SAFE_TO_CLOSE_PRIOR_CHANNEL, up to the drain read.
LEMMA OnSafeToCloseStep ==
    ASSUME ControlInv, NEW p \in Peer, OnSafeToClose(p)
    PROVE  TypeInv' /\ RegInv' /\ DialInv' /\ Emptied' /\ ControlStep(p)
<1>1. TypeInv /\ RegInv /\ DialInv /\ RegAt(p) /\ wire \in Wires /\ end \in Ends
  BY DEF ControlInv, TypeInv, RegInv
<1>2. /\ UNCHANGED <<end, broken, reg, latch, said, busy, reported, asksAck, offers, listening,
                     reading, handles, sent, got>>
      /\ Take(p, "SAFE_TO_CLOSE") /\ pc[p] = "idle" /\ busy[p] /\ parked[p]
      /\ parked' = [parked EXCEPT ![p] = FALSE] /\ pc' = [pc EXCEPT ![p] = "drain"]
  BY DEF OnSafeToClose, Take, offerVars, consumerVars
<1>3. /\ inbox' \in [Peer -> Seq(Commands)] /\ inbox'[Other(p)] = inbox[Other(p)]
      /\ \A c : Queued(inbox'[p], c) => Queued(inbox[p], c)
      /\ \A c : Alone(inbox[p], c) => Alone(inbox'[p], c)
      /\ Queued(inbox[p], "SAFE_TO_CLOSE")
  BY <1>1, <1>2, TakeFacts DEF TypeInv
<1>4. /\ parked' \in [Peer -> BOOLEAN] /\ ~parked'[p] /\ parked'[Other(p)] = parked[Other(p)]
      /\ pc' \in [Peer -> {"idle", "ack", "intro", "drain"}] /\ pc'[p] = "drain"
      /\ pc'[Other(p)] = pc[Other(p)]
  BY ZenonT(30), <1>1, <1>2, Pairs DEF TypeInv
<1>5. /\ wire' \in Wires
      /\ \A m \in Link, r \in Peer :
            \/ wire'[m][r] = wire[m][r]
            \/ /\ m = "old" /\ r = Other(p) /\ end[p]["old"] = "open" /\ "old" \notin broken
               /\ end[r][m] # "closed" /\ wire'[m][r] = Added(wire[m][r], "DISCONNECTION")
  <2>1. CASE Writable(p, "old")
    <3> DEFINE v == Put(wire, p, "old", <<Frame("DISCONNECTION")>>)
    <3>1. "DISCONNECTION" \in Kinds /\ "old" \in Link
      BY DEF Kinds, Link
    <3>2. v \in Wires /\ \A m \in Link, r \in Peer :
             v[m][r] = IF m = "old" /\ r = Other(p) /\ end[r][m] # "closed"
                       THEN Added(wire[m][r], "DISCONNECTION") ELSE wire[m][r]
      BY <1>1, <3>1, PutFrame
    <3>3. wire' = v /\ end[p]["old"] = "open" /\ "old" \notin broken
      BY <2>1 DEF OnSafeToClose, Writable
    <3> HIDE DEF v
    <3> QED
      BY <3>2, <3>3
  <2>2. CASE ~Writable(p, "old")
    BY <1>1, <2>2 DEF OnSafeToClose
  <2> QED
    BY <2>1, <2>2
<1>6. TypeInv'
  BY <1>1, <1>2, <1>3, <1>4, <1>5 DEF TypeInv
<1>7. Beside(p)
  BY <1>2, <1>3, <1>4 DEF Beside
<1>8. RegInv'
  <2>1. RegAt(p)'
    BY <1>1, <1>2, <1>4 DEF RegAt
  <2> QED
    BY <1>1, <1>7, <2>1, BesideReg
<1>9. DialInv'
  BY <1>1, <1>2, <1>3, <1>4, Pairs DEF DialInv
<1>10. Emptied'
  BY <1>2, <1>5 DEF ControlInv, WireInv, Emptied
<1>11. Forward(p)
  BY <1>2, <1>3, <1>4 DEF Forward
<1>12. OldWire(p)
  BY <1>1, <1>2, <1>4, <1>5, Pairs DEF OldWire, Wrote, OldOpen
<1>13. NewWire(p)
  BY <1>1, <1>2, <1>5, Pairs DEF NewWire
<1> QED
  BY <1>6, <1>7, <1>8, <1>9, <1>10, <1>11, <1>12, <1>13 DEF ControlStep

\* UPGRADE_PATH_AVAILABLE: dial and introduce ourselves.
LEMMA JoinOfferStep ==
    ASSUME ControlInv, NEW p \in Peer, JoinOffer(p)
    PROVE  TypeInv' /\ RegInv' /\ DialInv' /\ Emptied' /\ ControlStep(p)
<1>1. TypeInv /\ RegInv /\ DialInv /\ RegAt(p) /\ wire \in Wires /\ end \in Ends /\ Emptied
  BY DEF ControlInv, TypeInv, RegInv, WireInv, Emptied
<1>2. /\ UNCHANGED <<broken, reported, asksAck, offers, listening, reading, handles, sent, got>>
      /\ Take(p, "OFFER") /\ pc[p] = "idle" /\ ~busy[p] /\ reg[p] # "none"
      /\ listening /\ end[p]["new"] = "absent"
  BY DEF JoinOffer, Take, offerVars, consumerVars
<1>3. /\ inbox' \in [Peer -> Seq(Commands)] /\ inbox'[Other(p)] = inbox[Other(p)]
      /\ \A c : Queued(inbox'[p], c) => Queued(inbox[p], c)
      /\ \A c : Alone(inbox[p], c) => Alone(inbox'[p], c)
      /\ Queued(inbox[p], "OFFER")
  BY <1>1, <1>2, TakeFacts DEF TypeInv
<1>4. p = Discoverer /\ Other(p) = Advertiser /\ reg[p] = "old" /\ ~parked[p] /\ ~said[p] /\ ~reported[p]
  BY <1>1, <1>2, <1>3, Pairs DEF DialInv, RegAt, TypeInv
<1>5. /\ end[Other(p)]["new"] = "absent" /\ reg[Other(p)] = "old"
      /\ ~Queued(inbox[Other(p)], "SOCKET") /\ pc[Other(p)] # "intro"
  BY ZenonT(30), <1>1, <1>2, <1>4, Pairs DEF DialInv, RegInv, RegAt, TypeInv
<1> DEFINE w == [wire EXCEPT !["new"][Other(p)] = <<Frame("INTRODUCTION")>>]
<1>6. /\ w \in Wires
      /\ \A m \in Link, r \in Peer :
            w[m][r] = IF m = "new" /\ r = Other(p) THEN <<Frame("INTRODUCTION")>> ELSE wire[m][r]
  <2> DEFINE fs == <<Frame("INTRODUCTION")>>
  <2>1. fs \in Seq(Frames)
    <3>1. Frame("INTRODUCTION") \in Frames
      BY FrameFacts DEF Kinds
    <3> QED
      BY <3>1
  <2> HIDE DEF fs
  <2>2. /\ [wire EXCEPT !["new"][Other(p)] = fs] \in Wires
        /\ \A m \in Link, r \in Peer :
              [wire EXCEPT !["new"][Other(p)] = fs][m][r] =
                 IF m = "new" /\ r = Other(p) THEN fs ELSE wire[m][r]
    BY <1>1, <2>1, Pairs DEF Wires
  <2> QED
    BY <2>2, Zenon DEF fs
<1>7. /\ end' \in Ends /\ busy' \in [Peer -> BOOLEAN] /\ wire' \in Wires
      /\ pc' \in [Peer -> {"idle", "ack", "intro", "drain"}]
      /\ reg' \in [Peer -> {"old", "new", "none"}]
      /\ parked' \in [Peer -> BOOLEAN] /\ latch' \in [Peer -> BOOLEAN] /\ said' \in [Peer -> BOOLEAN]
      /\ busy'[Other(p)] = busy[Other(p)] /\ pc'[Other(p)] = pc[Other(p)]
      /\ reg'[Other(p)] = reg[Other(p)] /\ parked'[Other(p)] = parked[Other(p)]
      /\ latch'[Other(p)] = latch[Other(p)] /\ said'[Other(p)] = said[Other(p)]
      /\ end'[p]["old"] = end[p]["old"] /\ end'[Other(p)]["old"] = end[Other(p)]["old"]
      /\ end'[Other(p)]["new"] = "dialled"
      /\ \/ /\ pc'[p] = "ack" /\ end'[p]["new"] = "open" /\ wire' = w
            /\ reg'[p] = reg[p] /\ busy'[p] = busy[p] /\ parked'[p] = parked[p]
            /\ latch'[p] = latch[p] /\ said'[p] = said[p]
         \/ pc'[p] = "idle" /\ end'[p]["new"] = "paused" /\ reg'[p] = "new" /\ Swapped(p, w)
  <2>1. CASE asksAck
    <3>1. /\ end' = [end EXCEPT ![p]["new"] = "open", ![Other(p)]["new"] = "dialled"]
          /\ pc' = [pc EXCEPT ![p] = "ack"] /\ wire' = w
          /\ UNCHANGED <<busy, reg, parked, latch, said>>
      BY <2>1 DEF JoinOffer, swapVars
    <3> HIDE DEF w
    <3>2. /\ end' \in Ends /\ end'[p]["old"] = end[p]["old"] /\ end'[p]["new"] = "open"
          /\ end'[Other(p)]["old"] = end[Other(p)]["old"] /\ end'[Other(p)]["new"] = "dialled"
      BY ZenonT(30), <1>1, <3>1, Pairs DEF Ends
    <3>3. /\ pc' \in [Peer -> {"idle", "ack", "intro", "drain"}] /\ pc'[p] = "ack"
          /\ pc'[Other(p)] = pc[Other(p)]
      BY <1>1, <3>1, Pairs DEF TypeInv
    <3> QED
      BY <1>1, <1>6, <3>1, <3>2, <3>3 DEF TypeInv
  <2>2. CASE ~asksAck
    <3>1. /\ end' = [PauseNew(p) EXCEPT ![Other(p)]["new"] = "dialled"]
          /\ busy' = [busy EXCEPT ![p] = TRUE] /\ RunUpgradeProtocol(p, w) /\ UNCHANGED pc
      BY <2>2 DEF JoinOffer
    <3> HIDE DEF w
    <3>2. /\ end' \in Ends /\ end'[p]["old"] = end[p]["old"] /\ end'[p]["new"] = "paused"
          /\ end'[Other(p)]["old"] = end[Other(p)]["old"] /\ end'[Other(p)]["new"] = "dialled"
      BY ZenonT(30), <1>1, <3>1, Pairs DEF Ends, PauseNew
    <3>3. Swapped(p, w)
      BY <1>1, <1>6, <3>1, ProtocolFacts
    <3>4. /\ reg' \in [Peer -> {"old", "new", "none"}] /\ reg'[p] = "new"
          /\ reg'[Other(p)] = reg[Other(p)]
          /\ busy' \in [Peer -> BOOLEAN] /\ busy'[Other(p)] = busy[Other(p)]
      BY <1>1, <3>1, <3>3, Pairs DEF TypeInv, Swapped
    <3> QED
      BY <1>1, <1>2, <3>1, <3>2, <3>3, <3>4 DEF TypeInv, Swapped
  <2> QED
    BY <2>1, <2>2
<1> HIDE DEF w
<1>8. TypeInv'
  BY <1>1, <1>2, <1>3, <1>7 DEF TypeInv
<1>9. Beside(p)
  BY <1>2, <1>3, <1>5, <1>7 DEF Beside
<1>10. RegInv'
  <2>1. RegAt(p)'
    BY <1>1, <1>2, <1>4, <1>7 DEF RegAt, Swapped
  <2> QED
    BY <1>1, <1>9, <2>1, BesideReg
<1>11. DialInv'
  BY <1>1, <1>2, <1>3, <1>4, <1>5, <1>7, Pairs DEF DialInv
<1>12. /\ wire'["new"][Other(p)] = <<Frame("INTRODUCTION")>> /\ wire'["new"][p] = wire["new"][p]
       /\ wire'["old"][p] = wire["old"][p] /\ w["old"][Other(p)] = wire["old"][Other(p)]
  BY <1>6, <1>7, Pairs DEF Swapped
<1>13. Emptied'
  <2>1. end'[Other(p)]["old"] = "closed" => wire'["old"][Other(p)] = wire["old"][Other(p)]
    BY <1>7, <1>12 DEF OldOpen, Swapped
  <2> QED
    BY <1>1, <1>7, <1>12, <2>1, Pairs DEF Emptied
<1>14. Forward(p)
  BY <1>2, <1>3, <1>4, <1>7 DEF Forward, Swapped
<1>15. OldWire(p)
  BY <1>4, <1>7, <1>12 DEF OldWire, Wrote, Swapped
<1>16. NewWire(p)
  BY <1>4, <1>5, <1>7, <1>12, Pairs DEF NewWire
<1> QED
  BY <1>8, <1>9, <1>10, <1>11, <1>13, <1>14, <1>15, <1>16 DEF ControlStep

\* The first frame that is in flight to p on link l is read.
LEMMA TailWire ==
    ASSUME wire \in Wires, NEW p \in Peer, NEW l \in Link, wire[l][p] # <<>>
    PROVE  /\ [wire EXCEPT ![l][p] = Tail(@)] \in Wires
           /\ \A m \in Link, r \in Peer :
                 [wire EXCEPT ![l][p] = Tail(@)][m][r] =
                    IF m = l /\ r = p THEN Tail(wire[m][r]) ELSE wire[m][r]
<1> DEFINE t == Tail(wire[l][p])
<1>1. t \in Seq(Frames)
  <2>1. wire[l][p] \in Seq(Frames)
    BY DEF Wires
  <2> QED
    BY <2>1
<1>2. [wire EXCEPT ![l][p] = Tail(@)] = [wire EXCEPT ![l][p] = t]
  OBVIOUS
<1> HIDE DEF t
<1>3. /\ [wire EXCEPT ![l][p] = t] \in Wires
      /\ \A m \in Link, r \in Peer :
            [wire EXCEPT ![l][p] = t][m][r] = IF m = l /\ r = p THEN t ELSE wire[m][r]
  BY <1>1 DEF Wires
<1> QED
  BY <1>2, <1>3, Zenon DEF t

\* read_client_introduction_ack_frame returns.
LEMMA ReadAckStep ==
    ASSUME ControlInv, NEW p \in Peer, ReadAck(p)
    PROVE  TypeInv' /\ RegInv' /\ DialInv' /\ Emptied' /\ ControlStep(p)
<1>1. TypeInv /\ RegInv /\ DialInv /\ RegAt(p) /\ wire \in Wires /\ end \in Ends /\ Emptied
  BY DEF ControlInv, TypeInv, RegInv, WireInv, Emptied
<1>2. /\ UNCHANGED <<broken, inbox, reported, asksAck, offers, listening, reading, handles, sent, got>>
      /\ pc[p] = "ack" /\ pc' = [pc EXCEPT ![p] = "idle"]
  BY DEF ReadAck, offerVars, consumerVars
<1>3. /\ p = Discoverer /\ reg[p] = "old" /\ end[p]["new"] = "open"
      /\ ~parked[p] /\ ~said[p] /\ ~reported[p]
  BY <1>1, <1>2 DEF RegAt
<1>4. /\ pc' \in [Peer -> {"idle", "ack", "intro", "drain"}] /\ pc'[p] = "idle"
      /\ pc'[Other(p)] = pc[Other(p)]
  BY <1>1, <1>2, Pairs DEF TypeInv
<1>5. CASE /\ ~AtEof(p, "new") /\ wire["new"][p] # <<>>
           /\ end' = PauseNew(p)
           /\ busy' = [busy EXCEPT ![p] = TRUE]
           /\ RunUpgradeProtocol(p, [wire EXCEPT !["new"][p] = Tail(@)])
  <2> DEFINE w == [wire EXCEPT !["new"][p] = Tail(@)]
  <2>1. /\ w \in Wires
        /\ \A m \in Link, r \in Peer :
              w[m][r] = IF m = "new" /\ r = p THEN Tail(wire[m][r]) ELSE wire[m][r]
    BY <1>1, <1>5, TailWire, Pairs
  <2>2. RunUpgradeProtocol(p, w)
    BY <1>5
  <2> HIDE DEF w
  <2>3. Swapped(p, w)
    BY <1>1, <2>1, <2>2, ProtocolFacts
  <2>4. /\ end' \in Ends /\ end'[p]["old"] = end[p]["old"] /\ end'[p]["new"] = "paused"
        /\ end'[Other(p)] = end[Other(p)]
    BY <1>1, <1>5, Pairs DEF Ends, PauseNew
  <2>5. /\ reg' \in [Peer -> {"old", "new", "none"}] /\ reg'[p] = "new"
        /\ reg'[Other(p)] = reg[Other(p)]
        /\ busy' \in [Peer -> BOOLEAN] /\ busy'[Other(p)] = busy[Other(p)]
    BY <1>1, <1>5, <2>3, Pairs DEF TypeInv, Swapped
  <2>6. TypeInv'
    BY <1>1, <1>2, <1>4, <2>3, <2>4, <2>5 DEF TypeInv, Swapped
  <2>7. Beside(p)
    BY <1>2, <1>4, <2>3, <2>4, <2>5 DEF Beside, Swapped
  <2>8. RegInv'
    <3>1. RegAt(p)'
      BY <1>1, <1>2, <1>3, <1>4, <2>3, <2>4, <2>5 DEF RegAt, Swapped
    <3> QED
      BY <1>1, <2>7, <3>1, BesideReg
  <2>9. DialInv'
    BY <1>1, <1>2, <1>3, <1>4, <2>4, <2>5, Pairs DEF DialInv
  <2>10. /\ wire'["new"][Other(p)] = wire["new"][Other(p)] /\ wire'["new"][p] = Tail(wire["new"][p])
         /\ wire'["old"][p] = wire["old"][p] /\ w["old"][Other(p)] = wire["old"][Other(p)]
    BY <2>1, <2>3, Pairs DEF Swapped
  <2>11. Emptied'
    <3>1. end'[Other(p)]["old"] = "closed" => wire'["old"][Other(p)] = wire["old"][Other(p)]
      BY <2>3, <2>4, <2>10 DEF OldOpen, Swapped
    <3> QED
      BY <1>1, <2>4, <2>10, <3>1, Pairs DEF Emptied
  <2>12. Forward(p)
    BY <1>2, <1>3, <1>4, <2>3, <2>5 DEF Forward, Swapped
  <2>13. OldWire(p)
    BY <1>3, <2>3, <2>4, <2>5, <2>10 DEF OldWire, Wrote, Swapped
  <2>14. NewWire(p)
    BY <1>3, <1>5, <2>4, <2>10, Pairs DEF NewWire
  <2> QED
    BY <2>6, <2>7, <2>8, <2>9, <2>11, <2>12, <2>13, <2>14 DEF ControlStep
<1>6. CASE AtEof(p, "new") /\ RunUpgradeFailedProtocol(p, {"new"}) /\ UNCHANGED swapVars
  <2>1. UNCHANGED <<reg, parked, latch, said>>
    BY <1>6 DEF swapVars
  <2>2. \A m \in {"new"} \cup {reg[p]} : end[p][m] # "absent"
    BY <1>1, <1>3 DEF RegAt
  <2>3. PICK D : /\ D \subseteq {"new", reg[p]} /\ \A m \in D : end[p][m] # "absent"
                 /\ wire' \in Wires /\ end' \in Ends /\ busy' \in [Peer -> BOOLEAN]
                 /\ busy'[p] => busy[p]
                 /\ busy'[Other(p)] = busy[Other(p)]
                 /\ \A m \in Link : /\ end'[p][m] = IF m \in D THEN "closed" ELSE end[p][m]
                                    /\ wire'[m][p] = IF m \in D THEN <<>> ELSE wire[m][p]
                                    /\ end'[Other(p)][m] = end[Other(p)][m]
                 /\ \A m \in Link :
                       \/ wire'[m][Other(p)] = wire[m][Other(p)]
                       \/ /\ m = reg[p] /\ end[p][m] = "open" /\ m \notin broken
                          /\ end[Other(p)][m] # "closed"
                          /\ wire'[m][Other(p)] = Added(wire[m][Other(p)], "UPGRADE_FAILURE")
    BY <1>1, <1>3, <1>6, <2>2, FailedFacts
  <2>4. TypeInv'
    BY <1>1, <1>2, <1>4, <2>1, <2>3 DEF TypeInv
  <2>5. Beside(p)
    BY <1>2, <1>4, <2>1, <2>3, Pairs DEF Beside
  <2>6. RegInv'
    <3>1. RegAt(p)'
      BY <1>1, <1>2, <1>3, <1>4, <2>1, <2>3, Pairs DEF RegAt
    <3> QED
      BY <1>1, <2>5, <3>1, BesideReg
  <2>7. DialInv'
    BY <1>1, <1>2, <1>3, <1>4, <2>1, <2>3, Pairs DEF DialInv
  <2>8. Emptied'
    BY <1>1, <2>3, Pairs DEF Emptied
  <2>9. Forward(p)
    BY <1>2, <1>4, <2>1 DEF Forward
  <2>10. OldWire(p)
    BY <2>3, Pairs DEF OldWire, Wrote, OldOpen
  <2>11. NewWire(p)
    BY <2>3, Pairs DEF NewWire
  <2> QED
    BY <2>4, <2>5, <2>6, <2>7, <2>8, <2>9, <2>10, <2>11 DEF ControlStep
<1> QED
  BY <1>5, <1>6 DEF ReadAck

\* read_client_introduction_frame returns.
LEMMA ReadIntroductionStep ==
    ASSUME ControlInv, NEW p \in Peer, ReadIntroduction(p)
    PROVE  TypeInv' /\ RegInv' /\ DialInv' /\ Emptied' /\ ControlStep(p)
<1>1. TypeInv /\ RegInv /\ DialInv /\ RegAt(p) /\ wire \in Wires /\ end \in Ends /\ Emptied
  BY DEF ControlInv, TypeInv, RegInv, WireInv, Emptied
<1>2. /\ UNCHANGED <<broken, busy, inbox, reported, asksAck, offers, listening, reading, handles,
                     sent, got>>
      /\ pc[p] = "intro" /\ pc' = [pc EXCEPT ![p] = "idle"]
  BY DEF ReadIntroduction, offerVars, consumerVars
<1>3. /\ p = Advertiser /\ reg[p] # "new" /\ ~Queued(inbox[p], "SOCKET") /\ ~parked[p]
      /\ end[p]["new"] \notin {"absent", "dialled"}
  BY <1>1, <1>2, Pairs DEF RegAt, DialInv
<1>4. /\ pc' \in [Peer -> {"idle", "ack", "intro", "drain"}] /\ pc'[p] = "idle"
      /\ pc'[Other(p)] = pc[Other(p)]
  BY <1>1, <1>2, Pairs DEF TypeInv
<1>5. "INTRODUCTION_ACK" \in Kinds /\ "new" \in Link
  BY DEF Kinds, Link
<1>6. CASE /\ ~AtEof(p, "new") /\ wire["new"][p] # <<>>
           /\ Writable(p, "new") /\ busy[p]
           /\ end' = PauseNew(p)
           /\ RunUpgradeProtocol(p, Put([wire EXCEPT !["new"][p] = Tail(@)], p, "new",
                                        <<Frame("INTRODUCTION_ACK")>>))
  <2> DEFINE v == [wire EXCEPT !["new"][p] = Tail(@)]
             w == Put(v, p, "new", <<Frame("INTRODUCTION_ACK")>>)
  <2>1. /\ v \in Wires
        /\ \A m \in Link, r \in Peer :
              v[m][r] = IF m = "new" /\ r = p THEN Tail(wire[m][r]) ELSE wire[m][r]
    BY <1>1, <1>5, <1>6, TailWire
  <2>2. RunUpgradeProtocol(p, w)
    BY <1>6
  <2> HIDE DEF v
  <2>3. w \in Wires /\ \A m \in Link, r \in Peer :
           w[m][r] = IF m = "new" /\ r = Other(p) /\ end[r][m] # "closed"
                     THEN Added(v[m][r], "INTRODUCTION_ACK") ELSE v[m][r]
    BY <1>5, <2>1, PutFrame
  <2> HIDE DEF w
  <2>4. Swapped(p, w)
    BY <1>1, <2>2, <2>3, ProtocolFacts
  <2>5. /\ end' \in Ends /\ end'[p]["old"] = end[p]["old"] /\ end'[p]["new"] = "paused"
        /\ end'[Other(p)] = end[Other(p)]
    BY <1>1, <1>6, Pairs DEF Ends, PauseNew
  <2>6. /\ reg' \in [Peer -> {"old", "new", "none"}] /\ reg'[p] = "new" /\ reg[p] = "old"
        /\ reg'[Other(p)] = reg[Other(p)]
    BY <1>1, <1>3, <1>6, <2>4, Pairs DEF TypeInv, Swapped, RegAt
  <2>7. ~said[p] /\ ~reported[p] /\ end[p]["new"] = "open"
    BY <1>1, <1>6, <2>6 DEF RegAt, Writable
  <2>8. TypeInv'
    BY <1>1, <1>2, <1>4, <2>4, <2>5, <2>6 DEF TypeInv, Swapped
  <2>9. Beside(p)
    BY <1>2, <1>4, <2>4, <2>5, <2>6 DEF Beside, Swapped
  <2>10. RegInv'
    <3>1. RegAt(p)'
      BY <1>1, <1>2, <1>3, <1>4, <2>4, <2>5, <2>6, <2>7 DEF RegAt, Swapped
    <3> QED
      BY <1>1, <2>9, <3>1, BesideReg
  <2>11. DialInv'
    BY <1>1, <1>2, <1>3, <1>4, <2>5, <2>6, Pairs DEF DialInv
  <2>12. /\ wire'["new"][p] = Tail(wire["new"][p]) /\ wire'["old"][p] = wire["old"][p]
         /\ w["old"][Other(p)] = wire["old"][Other(p)]
         /\ \/ wire'["new"][Other(p)] = wire["new"][Other(p)]
            \/ /\ end[Other(p)]["new"] # "closed"
               /\ wire'["new"][Other(p)] = Added(wire["new"][Other(p)], "INTRODUCTION_ACK")
    BY <2>1, <2>3, <2>4, Pairs DEF Swapped
  <2>13. Emptied'
    <3>1. end'[Other(p)]["old"] = "closed" => wire'["old"][Other(p)] = wire["old"][Other(p)]
      BY <2>4, <2>5, <2>12 DEF OldOpen, Swapped
    <3> QED
      BY <1>1, <2>5, <2>12, <3>1, Pairs DEF Emptied
  <2>14. Forward(p)
    BY <1>2, <1>3, <1>4, <2>4, <2>6 DEF Forward, Swapped
  <2>15. OldWire(p)
    BY <2>4, <2>5, <2>6, <2>12 DEF OldWire, Wrote, Swapped
  <2>16. NewWire(p)
    BY <1>6, <2>5, <2>6, <2>7, <2>12, Pairs DEF NewWire
  <2> QED
    BY <2>8, <2>9, <2>10, <2>11, <2>13, <2>14, <2>15, <2>16 DEF ControlStep
<1>7. CASE /\ end' = Closed(p, {"new"}) /\ UNCHANGED swapVars
           /\ LET w == Discard(wire, p, {"new"})
              IN  \/ wire' = w
                  \/ Writable(p, "new") /\ wire' = Put(w, p, "new", <<Frame("INTRODUCTION_ACK")>>)
  <2> DEFINE w == Discard(wire, p, {"new"})
  <2>1. w \in Wires /\ \A m \in Link, r \in Peer :
           w[m][r] = IF m \in {"new"} /\ r = p THEN <<>> ELSE wire[m][r]
    BY <1>1, DiscardFacts
  <2>2. end' \in Ends /\ \A r \in Peer, m \in Link :
           end'[r][m] = IF r = p /\ m \in {"new"} /\ end[r][m] # "absent" THEN "closed" ELSE end[r][m]
    BY <1>1, <1>7, ClosedFacts
  <2>3. wire' = w \/ wire' = Put(w, p, "new", <<Frame("INTRODUCTION_ACK")>>)
    BY <1>7
  <2>4. UNCHANGED <<reg, parked, latch, said>>
    BY <1>7 DEF swapVars
  <2> HIDE DEF w
  <2> DEFINE v == Put(w, p, "new", <<Frame("INTRODUCTION_ACK")>>)
  <2>5. v \in Wires /\ \A m \in Link, r \in Peer :
           v[m][r] = IF m = "new" /\ r = Other(p) /\ end[r][m] # "closed"
                     THEN Added(w[m][r], "INTRODUCTION_ACK") ELSE w[m][r]
    BY <1>5, <2>1, PutFrame
  <2>6. wire' = w \/ wire' = v
    BY <2>3
  <2> HIDE DEF v
  <2>7. /\ wire' \in Wires /\ wire'["new"][p] = <<>> /\ wire'["old"][p] = wire["old"][p]
        /\ wire'["old"][Other(p)] = wire["old"][Other(p)]
        /\ \/ wire'["new"][Other(p)] = wire["new"][Other(p)]
           \/ /\ end[Other(p)]["new"] # "closed"
              /\ wire'["new"][Other(p)] = Added(wire["new"][Other(p)], "INTRODUCTION_ACK")
    BY <2>1, <2>5, <2>6, Pairs
  <2>8. /\ end'[p]["new"] = "closed" /\ end'[p]["old"] = end[p]["old"]
        /\ \A m \in Link : end'[Other(p)][m] = end[Other(p)][m]
    BY <1>3, <2>2, Pairs
  <2>9. TypeInv'
    BY <1>1, <1>2, <1>4, <2>2, <2>4, <2>7 DEF TypeInv
  <2>10. Beside(p)
    BY <1>2, <1>4, <2>4, <2>8, Pairs DEF Beside
  <2>11. RegInv'
    <3>1. RegAt(p)'
      BY <1>1, <1>2, <1>3, <1>4, <2>4, <2>8 DEF RegAt
    <3> QED
      BY <1>1, <2>10, <3>1, BesideReg
  <2>12. DialInv'
    BY <1>1, <1>2, <1>3, <1>4, <2>4, <2>8, Pairs DEF DialInv
  <2>13. Emptied'
    BY <1>1, <2>7, <2>8, Pairs DEF Emptied
  <2>14. Forward(p)
    BY <1>2, <1>4, <2>4 DEF Forward
  <2>15. OldWire(p) /\ NewWire(p)
    BY <2>7, <2>8 DEF OldWire, NewWire
  <2> QED
    BY <2>9, <2>10, <2>11, <2>12, <2>13, <2>14, <2>15 DEF ControlStep
<1> QED
  BY <1>6, <1>7, Zenon DEF ReadIntroduction

\* What a frame that is no payload adds.
LEMMA AddedFacts ==
    ASSUME NEW s \in Seq(Frames), NEW k \in Kinds, k # "PAYLOAD", NEW snt, NEW m \in Nat
    PROVE  /\ Added(s, k) \in Seq(Frames)
           /\ \A c : Holds(Added(s, k), c) <=> Holds(s, c) \/ k = c
           /\ \A n : Carries(Added(s, k), n) <=> Carries(s, n)
           /\ \A c : Once(s, c) /\ (k = c => ~Holds(s, c)) => Once(Added(s, k), c)
           /\ AllLate(s, snt) /\ k = "DISCONNECTION" => AllLate(Added(s, k), snt)
           /\ LateAfterSafe(s, snt) /\ (Holds(s, "SAFE_TO_CLOSE") => k = "DISCONNECTION")
                 => LateAfterSafe(Added(s, k), snt)
           /\ UpTo(s, m) => UpTo(Added(s, k), m)
           /\ Ordered(s) => Ordered(Added(s, k))
<1> DEFINE x == Frame(k)
<1>1. /\ x \in Frames /\ x.kind = k /\ (\A n : x # Payload(n))
      /\ (k = "DISCONNECTION" => Late(x, snt))
  BY FrameFacts DEF Late
<1>2. Added(s, k) = Append(s, x)
  BY DEF Added
<1> HIDE DEF x
<1>3. /\ Append(s, x) \in Seq(Frames)
      /\ \A c : Holds(Append(s, x), c) <=> Holds(s, c) \/ x.kind = c
      /\ \A n : Carries(Append(s, x), n) <=> Carries(s, n) \/ x = Payload(n)
  BY <1>1, AppendFrame
<1>4. /\ \A c : Once(s, c) /\ (x.kind = c => ~Holds(s, c)) => Once(Append(s, x), c)
      /\ AllLate(s, snt) /\ Late(x, snt) => AllLate(Append(s, x), snt)
      /\ LateAfterSafe(s, snt) /\ (Holds(s, "SAFE_TO_CLOSE") => Late(x, snt))
            => LateAfterSafe(Append(s, x), snt)
      /\ UpTo(s, m) /\ (x.kind = "PAYLOAD" => x.n \in 1..m) => UpTo(Append(s, x), m)
      /\ Ordered(s) /\ (x.kind = "PAYLOAD" => \A n \in Nat : Carries(s, n) => n < x.n)
            => Ordered(Append(s, x))
  BY <1>1, AppendKeeps
<1> QED
  BY <1>1, <1>2, <1>3, <1>4

\* A link that carries only one frame.
LEMMA OneFrame ==
    ASSUME NEW k \in Kinds
    PROVE  <<Frame(k)>> = Added(<<>>, k)
  BY DEF Added

-------------------------------------------------------------------------------
(* The steps of the owners and of the accept loop *)

ControlAction(p) ==
    \/ OwnerStep(p) \/ Accept(p) \/ GetUpgradedChannel(p) \/ Disconnect(p)
    \/ p = Advertiser /\ (Offer \/ ResetUpgrade)

\* What may be in flight after such a step.
LEMMA ControlWires ==
    ASSUME ControlInv, NEW p \in Peer, ControlStep(p), TypeInv', Emptied'
    PROVE  WireInv'
<1> DEFINE OK(s, r, l) == /\ UpTo(s, Len(sent[Other(r)]))
                          /\ Holds(s, "OFFER") => r = Discoverer
                          /\ \A k \in {"LAST_WRITE", "SAFE_TO_CLOSE"} : Holds(s, k) => l = "old"
<1>1. /\ Other(p) \in Peer /\ Other(Other(p)) = p /\ sent' = sent
      /\ \A r \in Peer : Len(sent[r]) \in Nat /\ Other(r) \in Peer
  BY SMTT(30), Pairs DEF ControlInv, TypeInv, ControlStep, Beside
<1>2. \A r \in Peer, l \in Link : wire[l][r] \in Seq(Frames) /\ OK(wire[l][r], r, l)
  BY ZenonT(30) DEF ControlInv, TypeInv, WireInv, Wires
<1>3. \A r \in Peer, l \in Link : OK(<<>>, r, l)
  BY EmptyWire
<1>4. \A s \in Seq(Frames), r \in Peer, l \in Link : OK(s, r, l) /\ s # <<>> => OK(Tail(s), r, l)
  <2> SUFFICES ASSUME NEW s \in Seq(Frames), NEW r \in Peer, NEW l \in Link, OK(s, r, l), s # <<>>
               PROVE  OK(Tail(s), r, l)
    OBVIOUS
  <2>1. Tail(s) \in Seq(Frames) /\ Window(Tail(s), s)
    BY TailFrame
  <2>2. /\ \A k : Holds(Tail(s), k) => Holds(s, k)
        /\ UpTo(s, Len(sent[Other(r)])) => UpTo(Tail(s), Len(sent[Other(r)]))
    BY <2>1, WindowKeeps
  <2> QED
    BY <2>2
<1>5. \A s \in Seq(Frames), r \in Peer, l \in Link, k \in Kinds \ {"PAYLOAD"} :
         /\ OK(s, r, l)
         /\ k = "OFFER" => r = Discoverer
         /\ k \in {"LAST_WRITE", "SAFE_TO_CLOSE"} => l = "old"
         => OK(Added(s, k), r, l) /\ Added(s, k) \in Seq(Frames)
  BY <1>1, AddedFacts
<1> HIDE DEF OK
<1>6. /\ "OFFER" \in Kinds \ {"PAYLOAD"} /\ "UPGRADE_FAILURE" \in Kinds \ {"PAYLOAD"}
      /\ "LAST_WRITE" \in Kinds \ {"PAYLOAD"} /\ "SAFE_TO_CLOSE" \in Kinds \ {"PAYLOAD"}
      /\ "DISCONNECTION" \in Kinds \ {"PAYLOAD"} /\ "INTRODUCTION" \in Kinds \ {"PAYLOAD"}
      /\ "INTRODUCTION_ACK" \in Kinds \ {"PAYLOAD"}
  BY DEF Kinds
<1>7. OK(wire'["old"][p], p, "old")
  BY <1>2, <1>3, Pairs DEF ControlStep, OldWire, Emptied
<1>8. OK(wire'["old"][Other(p)], Other(p), "old")
  <2>1. OK(wire["old"][Other(p)], Other(p), "old") /\ wire["old"][Other(p)] \in Seq(Frames)
    BY <1>1, <1>2, Pairs
  <2>2. CASE \/ wire'["old"][Other(p)] = wire["old"][Other(p)]
             \/ Wrote(p, "UPGRADE_FAILURE") \/ Wrote(p, "LAST_WRITE")
             \/ Wrote(p, "SAFE_TO_CLOSE") \/ Wrote(p, "DISCONNECTION")
    BY <1>1, <1>5, <1>6, <2>1, <2>2, Pairs DEF Wrote
  <2>3. CASE p = Advertiser /\ Wrote(p, "OFFER")
    BY <1>1, <1>5, <1>6, <2>1, <2>3, Pairs DEF Wrote
  <2>4. CASE wire'["old"][Other(p)] =
                Added(Added(wire["old"][Other(p)], "LAST_WRITE"), "SAFE_TO_CLOSE")
    BY <1>1, <1>5, <1>6, <2>1, <2>4, Pairs
  <2> QED
    BY <2>2, <2>3, <2>4 DEF ControlStep, OldWire
<1>9. OK(wire'["new"][p], p, "new")
  <2>1. CASE wire'["new"][p] = <<>> \/ wire'["new"][p] = wire["new"][p]
    BY <1>2, <1>3, <2>1, Pairs
  <2>2. CASE wire["new"][p] # <<>> /\ wire'["new"][p] = Tail(wire["new"][p])
    BY <1>2, <1>4, <2>2, Pairs
  <2> QED
    BY <2>1, <2>2 DEF ControlStep, NewWire
<1>10. OK(wire'["new"][Other(p)], Other(p), "new")
  <2>1. OK(wire["new"][Other(p)], Other(p), "new") /\ wire["new"][Other(p)] \in Seq(Frames)
    BY <1>1, <1>2, Pairs
  <2>2. CASE \/ wire'["new"][Other(p)] = wire["new"][Other(p)]
             \/ \E k \in {"UPGRADE_FAILURE", "INTRODUCTION_ACK"} :
                   wire'["new"][Other(p)] = Added(wire["new"][Other(p)], k)
    BY <1>1, <1>5, <1>6, <2>1, <2>2, Pairs
  <2>3. CASE wire'["new"][Other(p)] = <<Frame("INTRODUCTION")>>
    <3>1. wire'["new"][Other(p)] = Added(<<>>, "INTRODUCTION")
      BY <1>6, <2>3, OneFrame
    <3>2. PICK e \in Seq(Frames) : e = <<>>
      BY EmptyWire
    <3>3. OK(e, Other(p), "new") /\ "new" \in Link
      BY <1>1, <1>3, <3>2, Pairs
    <3> QED
      BY <1>1, <1>5, <1>6, <3>1, <3>2, <3>3
  <2> QED
    BY <2>2, <2>3 DEF ControlStep, NewWire
<1>11. \A r \in Peer, l \in Link : OK(wire'[l][r], r, l)
  BY <1>7, <1>8, <1>9, <1>10, Pairs
<1> QED
  BY <1>1, <1>11 DEF OK, WireInv, Emptied

\* Every step of the owners and of the accept loop.
LEMMA ControlActionStep ==
    ASSUME ControlInv, NEW p \in Peer, ControlAction(p)
    PROVE  ControlInv' /\ ControlStep(p)
<1>1. TypeInv' /\ RegInv' /\ DialInv' /\ Emptied' /\ ControlStep(p)
  <2>1. CASE Offer /\ p = Advertiser
    BY <2>1, OfferStep
  <2>2. CASE \/ p = Advertiser /\ ResetUpgrade
             \/ OnIncomingConnection(p) \/ OnUpgradeFailure(p) \/ Ignore(p) \/ GetUpgradedChannel(p)
    BY <2>2, QuietStep
  <2>3. CASE DuplicateOffer(p) \/ RefuseOffer(p) \/ Disconnect(p)
    BY <2>3, DuplicateOfferStep, RefuseOfferStep, DisconnectStep
  <2>4. CASE JoinOffer(p) \/ ReadAck(p) \/ Accept(p) \/ ReadIntroduction(p)
    BY <2>4, JoinOfferStep, ReadAckStep, AcceptStep, ReadIntroductionStep
  <2>5. CASE OnLastWrite(p) \/ OnSafeToClose(p) \/ Drain(p)
    BY <2>5, OnLastWriteStep, OnSafeToCloseStep, DrainStep
  <2> QED
    BY <2>1, <2>2, <2>3, <2>4, <2>5 DEF ControlAction, OwnerStep
<1> QED
  BY <1>1, ControlWires DEF ControlInv

-------------------------------------------------------------------------------
(* LAST_WRITE and SAFE_TO_CLOSE are written once, and what follows is late *)

\* A LAST_WRITE is in flight to q, queued, latched or answered: only one of them, and its
\* writer has swapped.
LastWriteAt(q) ==
    /\ \/ Holds(wire["old"][q], "LAST_WRITE") \/ Queued(inbox[q], "LAST_WRITE")
       \/ latch[q] \/ said[q]
       => reg[Other(q)] # "old"
    /\ Once(wire["old"][q], "LAST_WRITE") /\ Alone(inbox[q], "LAST_WRITE")
    /\ Holds(wire["old"][q], "LAST_WRITE") => ~Queued(inbox[q], "LAST_WRITE") /\ ~latch[q] /\ ~said[q]
    /\ Queued(inbox[q], "LAST_WRITE") => ~latch[q] /\ ~said[q]
    /\ latch[q] => ~said[q]

\* The owner of p knows that the other device may close the old channel.
Heard(p) == Queued(inbox[p], "SAFE_TO_CLOSE") \/ pc[p] = "drain" \/ reported[p]

\* After SAFE_TO_CLOSE only DISCONNECTION and late payloads are written.
SafeAt(p) ==
    /\ Holds(wire["old"][p], "SAFE_TO_CLOSE") \/ Heard(p) => said[Other(p)]
    /\ LateAfterSafe(wire["old"][p], sent[Other(p)])
    /\ Heard(p) => AllLate(wire["old"][p], sent[Other(p)])
    /\ Holds(wire["old"][p], "DISCONNECTION") => pc[Other(p)] = "drain" \/ reported[Other(p)]

SwapInv == \A p \in Peer : LastWriteAt(p) /\ SafeAt(p)

\* A control step keeps LastWriteAt: a LAST_WRITE is answered for a device that has swapped.
LEMMA ControlLastWrite ==
    ASSUME ControlInv, SwapInv, NEW p \in Peer, ControlStep(p), ControlInv'
    PROVE  LastWriteAt(p)' /\ LastWriteAt(Other(p))'
<1>1. /\ LastWriteAt(p) /\ LastWriteAt(Other(p)) /\ Other(p) \in Peer /\ Other(Other(p)) = p
      /\ Beside(p) /\ Forward(p) /\ OldWire(p) /\ RegAt(p)
  BY Pairs DEF SwapInv, ControlStep, ControlInv, RegInv
<1>2. LastWriteAt(p)'
  <2>1. wire'["old"][p] = wire["old"][p] \/ wire'["old"][p] = <<>>
    BY <1>1, Pairs DEF OldWire, ControlInv, WireInv
  <2>2. /\ Holds(wire'["old"][p], "LAST_WRITE") => Holds(wire["old"][p], "LAST_WRITE")
        /\ Once(wire'["old"][p], "LAST_WRITE")
    BY <1>1, <2>1, EmptyWire DEF LastWriteAt
  <2>3. "LAST_WRITE" \in Kinds
    BY DEF Kinds
  <2> QED
    BY <1>1, <2>2, <2>3 DEF LastWriteAt, Beside, Forward, TookLastWrite
<1>3. LastWriteAt(Other(p))'
  <2> DEFINE o == wire["old"][Other(p)]
             t == wire'["old"][Other(p)]
  <2>1. o \in Seq(Frames)
    BY <1>1, Pairs DEF ControlInv, TypeInv, Wires
  <2>2. \A s \in Seq(Frames), k \in Kinds \ {"PAYLOAD"} :
           /\ Added(s, k) \in Seq(Frames)
           /\ Holds(Added(s, k), "LAST_WRITE") <=> Holds(s, "LAST_WRITE") \/ k = "LAST_WRITE"
           /\ Once(s, "LAST_WRITE") /\ (k = "LAST_WRITE" => ~Holds(s, "LAST_WRITE"))
                 => Once(Added(s, k), "LAST_WRITE")
    BY AddedFacts
  <2>3. /\ "OFFER" \in Kinds \ {"PAYLOAD"} /\ "UPGRADE_FAILURE" \in Kinds \ {"PAYLOAD"}
        /\ "LAST_WRITE" \in Kinds \ {"PAYLOAD"} /\ "SAFE_TO_CLOSE" \in Kinds \ {"PAYLOAD"}
        /\ "DISCONNECTION" \in Kinds \ {"PAYLOAD"}
    BY DEF Kinds
  <2>4. \/ /\ Holds(t, "LAST_WRITE") <=> Holds(o, "LAST_WRITE")
           /\ Once(o, "LAST_WRITE") => Once(t, "LAST_WRITE")
        \/ /\ reg[p] = "old" /\ reg'[p] # "old"
           /\ Once(o, "LAST_WRITE") /\ ~Holds(o, "LAST_WRITE") => Once(t, "LAST_WRITE")
    <3> HIDE DEF o, t
    <3>1. CASE t = o
      BY <3>1
    <3>2. CASE \E k \in {"OFFER", "UPGRADE_FAILURE", "SAFE_TO_CLOSE", "DISCONNECTION"} : t = Added(o, k)
      <4>1. PICK k \in Kinds \ {"PAYLOAD"} : k # "LAST_WRITE" /\ t = Added(o, k)
        BY <2>3, <3>2
      <4>2. (Holds(t, "LAST_WRITE") <=> Holds(o, "LAST_WRITE"))
            /\ (Once(o, "LAST_WRITE") => Once(t, "LAST_WRITE"))
        BY <2>1, <2>2, <4>1
      <4> QED
        BY <4>2
    <3>3. CASE reg[p] = "old" /\ reg'[p] # "old" /\ t = Added(o, "LAST_WRITE")
      BY <2>1, <2>2, <2>3, <3>3
    <3>4. CASE reg[p] = "old" /\ reg'[p] # "old" /\ t = Added(Added(o, "LAST_WRITE"), "SAFE_TO_CLOSE")
      BY <2>1, <2>2, <2>3, <3>4
    <3> QED
      BY <1>1, <3>1, <3>2, <3>3, <3>4 DEF OldWire, Wrote, o, t
  <2> HIDE DEF o, t
  <2>5. reg[p] # "old" => reg'[p] # "old"
    BY <1>1 DEF Forward
  <2>6. LastWriteAt(Other(p)) /\ Beside(p) /\ Other(Other(p)) = p
    BY <1>1
  <2> QED
    BY <2>4, <2>5, <2>6 DEF LastWriteAt, Beside, o, t
<1> QED
  BY <1>2, <1>3

\* A control step keeps SafeAt: SAFE_TO_CLOSE is the last needed thing on the old wire.
LEMMA ControlSafe ==
    ASSUME ControlInv, SwapInv, NEW p \in Peer, ControlStep(p), ControlInv'
    PROVE  SafeAt(p)' /\ SafeAt(Other(p))'
<1>1. /\ SafeAt(p) /\ SafeAt(Other(p)) /\ Other(p) \in Peer /\ Other(Other(p)) = p
      /\ LastWriteAt(p)
      /\ Beside(p) /\ Forward(p) /\ OldWire(p) /\ RegAt(p)
  BY Pairs DEF SwapInv, ControlStep, ControlInv, RegInv
<1>2. SafeAt(p)'
  <2>1. wire'["old"][p] = wire["old"][p] \/ wire'["old"][p] = <<>>
    BY <1>1, Pairs DEF OldWire, ControlInv, WireInv
  <2>2. Heard(p)' => Heard(p)
    <3>1. "SAFE_TO_CLOSE" \in Kinds
      BY DEF Kinds
    <3> QED
      BY <1>1, <3>1 DEF Heard, Forward
  <2>3. sent' = sent /\ said'[Other(p)] = said[Other(p)] /\ pc'[Other(p)] = pc[Other(p)]
        /\ reported'[Other(p)] = reported[Other(p)]
    BY <1>1 DEF Beside
  <2>4. CASE wire'["old"][p] = wire["old"][p]
    BY <1>1, <2>2, <2>3, <2>4 DEF SafeAt
  <2>5. CASE wire'["old"][p] = <<>>
    BY <1>1, <2>2, <2>3, <2>5, EmptyWire DEF SafeAt
  <2> QED
    BY <2>1, <2>4, <2>5
<1>3. SafeAt(Other(p))'
  <2> DEFINE o == wire["old"][Other(p)]
             t == wire'["old"][Other(p)]
             snt == sent[p]
             Safe(s) == Holds(s, "SAFE_TO_CLOSE")
             Disc(s) == Holds(s, "DISCONNECTION")
  <2>1. o \in Seq(Frames)
    BY <1>1, Pairs DEF ControlInv, TypeInv, Wires
  <2>2. \A s \in Seq(Frames), k \in Kinds \ {"PAYLOAD"} :
           /\ Added(s, k) \in Seq(Frames)
           /\ Safe(Added(s, k)) <=> Safe(s) \/ k = "SAFE_TO_CLOSE"
           /\ Disc(Added(s, k)) <=> Disc(s) \/ k = "DISCONNECTION"
           /\ AllLate(s, snt) /\ k = "DISCONNECTION" => AllLate(Added(s, k), snt)
           /\ LateAfterSafe(s, snt) /\ (Safe(s) => k = "DISCONNECTION")
                 => LateAfterSafe(Added(s, k), snt)
    BY AddedFacts
  <2>3. /\ "OFFER" \in Kinds \ {"PAYLOAD"} /\ "UPGRADE_FAILURE" \in Kinds \ {"PAYLOAD"}
        /\ "LAST_WRITE" \in Kinds \ {"PAYLOAD"} /\ "SAFE_TO_CLOSE" \in Kinds \ {"PAYLOAD"}
        /\ "DISCONNECTION" \in Kinds \ {"PAYLOAD"}
    BY DEF Kinds
  <2>4. /\ Safe(o) \/ Heard(Other(p)) => said[p]
        /\ LateAfterSafe(o, snt)
        /\ Heard(Other(p)) => AllLate(o, snt)
        /\ Disc(o) => pc[p] = "drain" \/ reported[p]
    BY <1>1 DEF SafeAt
  <2>5. /\ Heard(Other(p))' <=> Heard(Other(p))
        /\ said[p] => said'[p]
        /\ pc[p] = "drain" \/ reported[p] => pc'[p] = "drain" \/ reported'[p]
    BY <1>1 DEF Beside, Forward, Heard
  <2>6. (reg[p] = "old" => ~said[p]) /\ (TookLastWrite(p) => ~said[p])
    BY <1>1 DEF RegAt, LastWriteAt, TookLastWrite
  <2> HIDE DEF o, snt, Safe, Disc
  <2>7. /\ Safe(t) \/ Heard(Other(p)) => said'[p]
        /\ LateAfterSafe(t, snt)
        /\ Heard(Other(p)) => AllLate(t, snt)
        /\ Disc(t) => pc'[p] = "drain" \/ reported'[p]
    <3>1. CASE t = o
      BY <2>4, <2>5, <3>1
    <3>2. CASE reg[p] = "old" /\ \E k \in {"OFFER", "UPGRADE_FAILURE", "LAST_WRITE"} : t = Added(o, k)
      BY <2>1, <2>2, <2>3, <2>4, <2>5, <2>6, <3>2
    <3>3. CASE reg[p] = "old" /\ said'[p] /\ t = Added(Added(o, "LAST_WRITE"), "SAFE_TO_CLOSE")
      BY <2>1, <2>2, <2>3, <2>4, <2>5, <2>6, <3>3
    <3>4. CASE TookLastWrite(p) /\ said'[p] /\ t = Added(o, "SAFE_TO_CLOSE")
      BY <2>1, <2>2, <2>3, <2>4, <2>5, <2>6, <3>4
    <3>5. CASE pc'[p] = "drain" /\ t = Added(o, "DISCONNECTION")
      BY <2>1, <2>2, <2>3, <2>4, <2>5, <2>6, <3>5
    <3> QED
      BY <1>1, <3>1, <3>2, <3>3, <3>4, <3>5 DEF OldWire, Wrote, o
  <2>8. sent' = sent /\ Other(Other(p)) = p
    BY <1>1 DEF Beside
  <2> QED
    BY <2>5, <2>7, <2>8 DEF SafeAt, Safe, Disc, snt
<1> QED
  BY <1>2, <1>3

-------------------------------------------------------------------------------
(* The readers *)

\* The reader of link l takes the first frame and hands it on.
ReadStep(p, l) ==
    /\ UNCHANGED <<end, broken, reg, parked, latch, said, busy, pc, reported, asksAck, listening,
                   handles, sent, faults>>
    /\ l = "new" => reported[p]
    /\ wire' \in Wires /\ inbox' \in [Peer -> Seq(Commands)] /\ got' \in [Peer -> Seq(Nat)]
    /\ reading' \in [Peer -> BOOLEAN]
    /\ wire[l][p] # <<>> /\ end[p][l] # "closed"
    /\ wire'[l][p] = Tail(wire[l][p])
    /\ \A m \in Link, r \in Peer : m # l \/ r # p => wire'[m][r] = wire[m][r]
    /\ inbox'[Other(p)] = inbox[Other(p)] /\ got'[p] = got[p]
    /\ \/ /\ Head(wire[l][p]).kind = "PAYLOAD" /\ inbox' = inbox
          /\ got'[Other(p)] = Append(got[Other(p)], Head(wire[l][p]).n)
       \/ /\ Head(wire[l][p]).kind = "DISCONNECTION" /\ UNCHANGED <<inbox, got>>
       \/ /\ Head(wire[l][p]).kind # "PAYLOAD" /\ got' = got
          /\ inbox'[p] = Append(inbox[p], Head(wire[l][p]).kind)

\* A reader's step, on either channel, is a ReadStep.
LEMMA ReadFacts ==
    ASSUME TypeInv, NEW p \in Peer
    PROVE  /\ ReadOld(p) => \/ ReadStep(p, "old")
                            \/ /\ UNCHANGED <<wire, end, broken, reg, parked, latch, said, busy, pc,
                                              reported, asksAck, listening, handles, sent, got, inbox, faults>>
                               /\ reading' \in [Peer -> BOOLEAN]
           /\ ReadNew(p) => ReadStep(p, "new")
<1>1. \A l \in Link : wire[l][p] # <<>> =>
         /\ wire[l][p] \in Seq(Frames)
         /\ [wire EXCEPT ![l][p] = Tail(@)] \in Wires
         /\ \A m \in Link, r \in Peer :
               [wire EXCEPT ![l][p] = Tail(@)][m][r] =
                  IF m = l /\ r = p THEN Tail(wire[m][r]) ELSE wire[m][r]
         /\ Head(wire[l][p]) \in Frames
         /\ Head(wire[l][p]).kind \in Commands /\ Head(wire[l][p]).n \in Nat
  <2> SUFFICES ASSUME NEW l \in Link, wire[l][p] # <<>>
               PROVE  /\ wire[l][p] \in Seq(Frames)
                      /\ [wire EXCEPT ![l][p] = Tail(@)] \in Wires
                      /\ \A m \in Link, r \in Peer :
                            [wire EXCEPT ![l][p] = Tail(@)][m][r] =
                               IF m = l /\ r = p THEN Tail(wire[m][r]) ELSE wire[m][r]
                      /\ Head(wire[l][p]) \in Frames
                      /\ Head(wire[l][p]).kind \in Commands /\ Head(wire[l][p]).n \in Nat
    OBVIOUS
  <2>1. wire[l][p] \in Seq(Frames) /\ wire \in Wires
    BY DEF TypeInv, Wires
  <2>2. Head(wire[l][p]) \in Frames
    BY <2>1, TailFrame
  <2>3. Head(wire[l][p]).kind \in Commands /\ Head(wire[l][p]).n \in Nat
    BY <2>2 DEF Frames, Commands
  <2> QED
    BY <2>1, <2>2, <2>3, TailWire
<1>2. ASSUME NEW f \in Frames, Consume(p, f)
      PROVE  /\ inbox' \in [Peer -> Seq(Commands)] /\ got' \in [Peer -> Seq(Nat)]
             /\ inbox'[Other(p)] = inbox[Other(p)] /\ got'[p] = got[p]
             /\ \/ f.kind = "PAYLOAD" /\ inbox' = inbox /\ got'[Other(p)] = Append(got[Other(p)], f.n)
                \/ f.kind # "PAYLOAD" /\ got' = got /\ inbox'[p] = Append(inbox[p], f.kind)
  <2>1. f.kind \in Commands /\ f.n \in Nat
    BY DEF Frames, Commands
  <2>2. CASE f.kind = "PAYLOAD"
    <3>1. got' = [got EXCEPT ![Other(p)] = Append(got[Other(p)], f.n)] /\ inbox' = inbox
      BY <1>2, <2>2 DEF Consume
    <3>2. got[Other(p)] \in Seq(Nat)
      BY Pairs DEF TypeInv
    <3>3. Append(got[Other(p)], f.n) \in Seq(Nat)
      BY <2>1, <3>2
    <3> QED
      BY <2>2, <3>1, <3>3, Pairs DEF TypeInv
  <2>3. CASE f.kind # "PAYLOAD"
    <3>1. inbox' = [inbox EXCEPT ![p] = Append(inbox[p], f.kind)] /\ got' = got
      BY <1>2, <2>3 DEF Consume
    <3>2. inbox[p] \in Seq(Commands)
      BY DEF TypeInv
    <3>3. Append(inbox[p], f.kind) \in Seq(Commands)
      BY <2>1, <3>2
    <3> QED
      BY <2>3, <3>1, <3>3, Pairs DEF TypeInv
  <2> QED
    BY <2>2, <2>3
<1>3. ASSUME ReadOld(p)
      PROVE  \/ ReadStep(p, "old")
             \/ /\ UNCHANGED <<wire, end, broken, reg, parked, latch, said, busy, pc,
                               reported, asksAck, listening, handles, sent, got, inbox, faults>>
                /\ reading' \in [Peer -> BOOLEAN]
  <2>1. UNCHANGED <<end, broken, reg, parked, latch, said, busy, pc, reported, asksAck, listening,
                    handles, sent, faults>>
    BY <1>3 DEF ReadOld, swapVars, offerVars
  <2>2. reading' \in [Peer -> BOOLEAN]
    <3>1. \E b \in BOOLEAN : reading' = [reading EXCEPT ![p] = b]
      BY <1>3, HandshakeAssumption DEF ReadOld
    <3> QED
      BY <3>1 DEF TypeInv
  <2>3. CASE UNCHANGED <<wire, got, inbox>>
    BY <2>1, <2>2, <2>3
  <2>4. CASE ~UNCHANGED <<wire, got, inbox>>
    <3> DEFINE f == Head(wire["old"][p])
    <3>1. /\ ~AtEof(p, "old") /\ wire["old"][p] # <<>>
          /\ wire' = [wire EXCEPT !["old"][p] = Tail(@)]
          /\ \/ f.kind = "DISCONNECTION" /\ UNCHANGED <<got, inbox>>
             \/ f.kind # "DISCONNECTION" /\ Consume(p, f)
      BY <1>3, <2>4 DEF ReadOld
    <3>2. /\ wire' \in Wires /\ f \in Frames
          /\ \A m \in Link, r \in Peer :
                wire'[m][r] = IF m = "old" /\ r = p THEN Tail(wire[m][r]) ELSE wire[m][r]
      <4> DEFINE w == [wire EXCEPT !["old"][p] = Tail(@)]
      <4>1. wire \in Wires /\ "old" \in Link
        BY DEF TypeInv, Link
      <4>2. w \in Wires /\ \A m \in Link, r \in Peer :
               w[m][r] = IF m = "old" /\ r = p THEN Tail(wire[m][r]) ELSE wire[m][r]
        BY <3>1, <4>1, TailWire
      <4>3. f \in Frames
        BY <1>1, <3>1, <4>1
      <4>4. wire' = w
        BY <3>1
      <4> HIDE DEF w, f
      <4> QED
        BY <4>2, <4>3, <4>4
    <3>3. end[p]["old"] # "closed"
      BY <3>1 DEF AtEof
    <3>4. CASE f.kind = "DISCONNECTION" /\ UNCHANGED <<got, inbox>>
      BY SMTT(30), <2>1, <2>2, <3>1, <3>2, <3>3, <3>4, Pairs DEF ReadStep, TypeInv
    <3>5. CASE Consume(p, f)
      <4> HIDE DEF f
      <4>1. /\ inbox' \in [Peer -> Seq(Commands)] /\ got' \in [Peer -> Seq(Nat)]
            /\ inbox'[Other(p)] = inbox[Other(p)] /\ got'[p] = got[p]
            /\ \/ f.kind = "PAYLOAD" /\ inbox' = inbox /\ got'[Other(p)] = Append(got[Other(p)], f.n)
               \/ f.kind # "PAYLOAD" /\ got' = got /\ inbox'[p] = Append(inbox[p], f.kind)
        BY <1>2, <3>2, <3>5
      <4> QED
        BY <2>1, <2>2, <3>1, <3>2, <3>3, <4>1, Pairs DEF ReadStep, f
    <3> QED
      BY <3>1, <3>4, <3>5
  <2> QED
    BY <2>3, <2>4
<1>4. ASSUME ReadNew(p)
      PROVE  ReadStep(p, "new")
  <2> DEFINE f == Head(wire["new"][p])
  <2>1. /\ UNCHANGED <<end, broken, reg, parked, latch, said, busy, pc, reported, asksAck, listening,
                       handles, sent, reading, faults>>
        /\ reported[p] /\ ~AtEof(p, "new") /\ wire["new"][p] # <<>>
        /\ wire' = [wire EXCEPT !["new"][p] = Tail(@)] /\ Consume(p, f)
    BY <1>4 DEF ReadNew, swapVars, offerVars
  <2>2. /\ wire' \in Wires /\ f \in Frames
        /\ \A m \in Link, r \in Peer :
              wire'[m][r] = IF m = "new" /\ r = p THEN Tail(wire[m][r]) ELSE wire[m][r]
    <3> DEFINE w == [wire EXCEPT !["new"][p] = Tail(@)]
    <3>1. wire \in Wires /\ "new" \in Link
      BY DEF TypeInv, Link
    <3>2. w \in Wires /\ \A m \in Link, r \in Peer :
             w[m][r] = IF m = "new" /\ r = p THEN Tail(wire[m][r]) ELSE wire[m][r]
      BY <2>1, <3>1, TailWire
    <3>3. f \in Frames
      BY <1>1, <2>1, <3>1
    <3>4. wire' = w
      BY <2>1
    <3> HIDE DEF w, f
    <3> QED
      BY <3>2, <3>3, <3>4
  <2>3. end[p]["new"] # "closed"
    BY <2>1 DEF AtEof
  <2> HIDE DEF f
  <2>4. /\ inbox' \in [Peer -> Seq(Commands)] /\ got' \in [Peer -> Seq(Nat)]
        /\ inbox'[Other(p)] = inbox[Other(p)] /\ got'[p] = got[p]
        /\ \/ f.kind = "PAYLOAD" /\ inbox' = inbox /\ got'[Other(p)] = Append(got[Other(p)], f.n)
           \/ f.kind # "PAYLOAD" /\ got' = got /\ inbox'[p] = Append(inbox[p], f.kind)
    BY <1>2, <2>1, <2>2
  <2>5. reading' \in [Peer -> BOOLEAN]
    BY <2>1 DEF TypeInv
  <2> QED
    BY <2>1, <2>2, <2>3, <2>4, <2>5, Pairs DEF ReadStep, f
<1> QED
  BY <1>3, <1>4

\* A frame that is read leaves the wire and may be queued.
LEMMA ReadKeeps ==
    ASSUME ControlInv, SwapInv, NEW p \in Peer, NEW l \in Link, ReadStep(p, l)
    PROVE  ControlInv' /\ SwapInv'
<1> DEFINE s == wire[l][p]
           f == Head(s)
<1>1. /\ TypeInv /\ RegInv /\ DialInv /\ WireInv /\ s \in Seq(Frames) /\ s # <<>>
      /\ Other(p) \in Peer /\ Other(p) # p /\ Other(Other(p)) = p
  <2>1. wire \in Wires /\ wire[l][p] # <<>>
    BY DEF ControlInv, TypeInv, ReadStep
  <2> QED
    BY <2>1, Pairs DEF ControlInv, Wires
<1>2. /\ Tail(s) \in Seq(Frames) /\ Window(Tail(s), s) /\ f \in Frames
      /\ \A k : Holds(s, k) <=> f.kind = k \/ Holds(Tail(s), k)
      /\ \A k : Once(s, k) /\ f.kind = k => ~Holds(Tail(s), k)
      /\ LateAfterSafe(s, sent[Other(p)]) /\ f.kind = "SAFE_TO_CLOSE" => AllLate(Tail(s), sent[Other(p)])
  BY <1>1, TailFrame
<1>3. /\ \A k : Once(s, k) => Once(Tail(s), k)
      /\ AllLate(s, sent[Other(p)]) => AllLate(Tail(s), sent[Other(p)])
      /\ LateAfterSafe(s, sent[Other(p)]) => LateAfterSafe(Tail(s), sent[Other(p)])
      /\ UpTo(s, Len(sent[Other(p)])) => UpTo(Tail(s), Len(sent[Other(p)]))
  BY <1>1, <1>2, WindowKeeps
<1>4. f.kind \in Kinds /\ f.kind \in Commands /\ "SOCKET" \notin Kinds
  BY <1>2 DEF Frames, Commands, Kinds
<1>5. \/ inbox'[p] = inbox[p] /\ f.kind \in {"PAYLOAD", "DISCONNECTION"}
      \/ /\ \A k : Queued(inbox'[p], k) <=> Queued(inbox[p], k) \/ f.kind = k
         /\ \A k : Alone(inbox[p], k) /\ (f.kind = k => ~Queued(inbox[p], k)) => Alone(inbox'[p], k)
  <2>1. inbox[p] \in Seq(Commands)
    BY <1>1 DEF TypeInv
  <2>2. CASE inbox'[p] = Append(inbox[p], f.kind)
    BY <1>4, <2>1, <2>2, AppendCommand
  <2> QED
    BY <2>2 DEF ReadStep
<1>6. /\ UNCHANGED <<end, broken, reg, parked, latch, said, busy, pc, reported, asksAck, listening,
                     handles, sent>>
      /\ wire' \in Wires /\ inbox' \in [Peer -> Seq(Commands)] /\ got' \in [Peer -> Seq(Nat)]
      /\ reading' \in [Peer -> BOOLEAN] /\ end[p][l] # "closed"
      /\ wire'[l][p] = Tail(s)
      /\ \A m \in Link, r \in Peer : m # l \/ r # p => wire'[m][r] = wire[m][r]
      /\ inbox'[Other(p)] = inbox[Other(p)]
  BY DEF ReadStep
<1>7. /\ UpTo(s, Len(sent[Other(p)])) /\ (Holds(s, "OFFER") => p = Discoverer)
      /\ \A k \in {"LAST_WRITE", "SAFE_TO_CLOSE"} : Holds(s, k) => l = "old"
  BY <1>1 DEF WireInv
<1> HIDE DEF s, f
<1>8. TypeInv'
  BY <1>1, <1>6 DEF TypeInv
<1>9. RegInv'
  BY <1>1, <1>6 DEF RegInv, RegAt
<1>10. DialInv'
  <2>0. \A r \in Peer : r = p \/ inbox'[r] = inbox[r]
    <3>1. inbox'[Other(p)] = inbox[Other(p)]
      BY <1>6
    <3> QED
      BY <3>1, Pairs
  <2>1. \A k \in {"SOCKET", "OFFER"}, r \in Peer :
           Queued(inbox'[r], k) => Queued(inbox[r], k) \/ (k = "OFFER" /\ r = Discoverer)
    <3>1. \A k \in {"SOCKET", "OFFER"} :
             Queued(inbox'[p], k) => Queued(inbox[p], k) \/ (k = "OFFER" /\ p = Discoverer)
      BY <1>2, <1>4, <1>5, <1>7
    <3> QED
      BY <2>0, <3>1
  <2>2. \A r \in Peer : Alone(inbox[r], "SOCKET") => Alone(inbox'[r], "SOCKET")
    <3>1. Alone(inbox[p], "SOCKET") => Alone(inbox'[p], "SOCKET")
      BY <1>4, <1>5
    <3> QED
      BY <2>0, <3>1
  <2> QED
    BY <1>1, <1>6, <2>1, <2>2, Pairs DEF DialInv
<1>11. WireInv'
  <2> SUFFICES ASSUME NEW r \in Peer, NEW m \in Link
               PROVE  /\ end[r][m] = "closed" => wire'[m][r] = <<>>
                      /\ UpTo(wire'[m][r], Len(sent[Other(r)]))
                      /\ Holds(wire'[m][r], "OFFER") => r = Discoverer
                      /\ \A k \in {"LAST_WRITE", "SAFE_TO_CLOSE"} : Holds(wire'[m][r], k) => m = "old"
    BY <1>6 DEF WireInv
  <2>1. CASE m = l /\ r = p
    <3>1. /\ UpTo(Tail(s), Len(sent[Other(p)])) /\ (Holds(Tail(s), "OFFER") => p = Discoverer)
          /\ \A k \in {"LAST_WRITE", "SAFE_TO_CLOSE"} : Holds(Tail(s), k) => l = "old"
      BY <1>2, <1>3, <1>7
    <3> QED
      BY <1>6, <2>1, <3>1
  <2>2. CASE m # l \/ r # p
    <3>1. wire'[m][r] = wire[m][r]
      BY <1>6, <2>2
    <3> QED
      BY <1>1, <3>1 DEF WireInv
  <2> QED
    BY <2>1, <2>2
<1>12. LastWriteAt(p)' /\ SafeAt(p)'
  <2>1. LastWriteAt(p) /\ SafeAt(p)
    BY DEF SwapInv
  <2>2. CASE l = "old"
    <3>1. /\ s = wire["old"][p] /\ wire'["old"][p] = Tail(s)
      BY <1>6, <2>2 DEF s
    <3>2. LastWriteAt(p)'
      BY <1>2, <1>3, <1>5, <1>6, <2>1, <3>1 DEF LastWriteAt
    <3>3. Heard(p)' => Heard(p) \/ f.kind = "SAFE_TO_CLOSE"
      BY <1>5, <1>6 DEF Heard
    <3>4. SafeAt(p)'
      BY <1>2, <1>3, <1>6, <2>1, <3>1, <3>3 DEF SafeAt
    <3> QED
      BY <3>2, <3>4
  <2>3. CASE l # "old"
    <3>1. wire'["old"][p] = wire["old"][p]
      BY <1>6, <2>3, Pairs
    <3>2. f.kind # "LAST_WRITE" /\ f.kind # "SAFE_TO_CLOSE"
      BY <1>2, <1>7, <2>3
    <3>3. \A k \in {"LAST_WRITE", "SAFE_TO_CLOSE"} : Queued(inbox'[p], k) <=> Queued(inbox[p], k)
      BY <1>5, <3>2
    <3>4. Alone(inbox[p], "LAST_WRITE") => Alone(inbox'[p], "LAST_WRITE")
      BY <1>5, <3>2
    <3>5. LastWriteAt(p)'
      BY <1>6, <2>1, <3>1, <3>3, <3>4 DEF LastWriteAt
    <3>6. Heard(p)' <=> Heard(p)
      BY <1>6, <3>3 DEF Heard
    <3>7. SafeAt(p)'
      BY <1>6, <2>1, <3>1, <3>6 DEF SafeAt
    <3> QED
      BY <3>5, <3>7
  <2> QED
    BY <2>2, <2>3
<1>13. LastWriteAt(Other(p))' /\ SafeAt(Other(p))'
  <2>1. LastWriteAt(Other(p)) /\ SafeAt(Other(p)) /\ wire'["old"][Other(p)] = wire["old"][Other(p)]
    BY <1>1, <1>6, Pairs DEF SwapInv
  <2> QED
    BY <1>1, <1>6, <2>1 DEF LastWriteAt, SafeAt, Heard
<1> QED
  BY <1>8, <1>9, <1>10, <1>11, <1>12, <1>13, Pairs DEF ControlInv, SwapInv

-------------------------------------------------------------------------------
(* The writers, and breaking links *)

\* A payload is written, and arrives unless the far end is closed.
WriteStep(p, l) ==
    /\ UNCHANGED <<end, broken, reg, parked, latch, said, busy, pc, reported, asksAck, listening,
                   handles, inbox, reading, got, faults>>
    /\ wire' \in Wires /\ sent' \in [Peer -> Seq(BOOLEAN)]
    /\ end[p][l] = "open" /\ l \notin broken /\ l \in handles[p]
    /\ sent'[p] = Append(sent[p], ~(l = "old" /\ said[p]))
    /\ sent'[Other(p)] = sent[Other(p)]
    /\ wire'[l][Other(p)] = IF end[Other(p)][l] = "closed" THEN wire[l][Other(p)]
                            ELSE Append(wire[l][Other(p)], Payload(Len(sent[p]) + 1))
    /\ \A m \in Link, r \in Peer : m # l \/ r # Other(p) => wire'[m][r] = wire[m][r]

\* A writer's step is a WriteStep.
LEMMA WriteFacts ==
    ASSUME TypeInv, NEW p \in Peer, NEW l \in Link, WritePayload(p, l)
    PROVE  WriteStep(p, l)
<1> DEFINE x == Payload(Len(sent[p]) + 1)
           b == ~(l = "old" /\ said[p])
           fs == <<x>>
<1>1. /\ UNCHANGED <<end, broken, reg, parked, latch, said, busy, pc, reported, asksAck, listening,
                     handles, inbox, reading, got, faults>>
      /\ end[p][l] = "open" /\ l \notin broken /\ l \in handles[p]
      /\ sent' = [sent EXCEPT ![p] = Append(sent[p], b)]
      /\ wire' = Put(wire, p, l, fs)
  BY DEF WritePayload, Writable, swapVars, offerVars
<1>2. b \in BOOLEAN
  OBVIOUS
<1> HIDE DEF b
<1>3. sent[p] \in Seq(BOOLEAN) /\ wire \in Wires /\ Append(sent[p], b) \in Seq(BOOLEAN)
  BY <1>2 DEF TypeInv
<1>4. x \in Frames
  BY <1>3, FrameFacts
<1> HIDE DEF x
<1>5. fs \in Seq(Frames)
  BY <1>4
<1>6. \A s \in Seq(Frames) : s \o fs = Append(s, x)
  BY <1>4, AppendFrame
<1> HIDE DEF fs
<1>7. wire' \in Wires /\ \A m \in Link, r \in Peer :
         wire'[m][r] = IF m = l /\ r = Other(p) /\ end[r][m] # "closed"
                       THEN wire[m][r] \o fs ELSE wire[m][r]
  BY <1>1, <1>3, <1>5, PutFacts
<1>8. \A m \in Link, r \in Peer : wire[m][r] \o fs = Append(wire[m][r], x)
  BY <1>3, <1>6 DEF Wires
<1>9. wire'[l][Other(p)] = IF end[Other(p)][l] = "closed" THEN wire[l][Other(p)]
                           ELSE Append(wire[l][Other(p)], x)
  BY <1>7, <1>8, Pairs
<1>10. \A m \in Link, r \in Peer : m # l \/ r # Other(p) => wire'[m][r] = wire[m][r]
  BY <1>7
<1>11. sent' \in [Peer -> Seq(BOOLEAN)] /\ sent'[p] = Append(sent[p], b) /\ sent'[Other(p)] = sent[Other(p)]
  BY <1>1, <1>3, Pairs DEF TypeInv
<1> QED
  BY <1>1, <1>7, <1>9, <1>10, <1>11 DEF WriteStep, x, b

\* A payload written keeps the whole invariant.
LEMMA WriteKeeps ==
    ASSUME ControlInv, SwapInv, NEW p \in Peer, NEW l \in Link, WriteStep(p, l)
    PROVE  ControlInv' /\ SwapInv'
<1> DEFINE r == Other(p)
           n == Len(sent[p]) + 1
           b == ~(l = "old" /\ said[p])
           x == Payload(n)
           t == Append(sent[p], b)
<1>1. /\ TypeInv /\ RegInv /\ DialInv /\ WireInv /\ r \in Peer /\ r # p /\ Other(r) = p
      /\ sent[p] \in Seq(BOOLEAN) /\ b \in BOOLEAN
      /\ \A m \in Link, q \in Peer : wire[m][q] \in Seq(Frames)
  BY Pairs DEF ControlInv, TypeInv, Wires
<1>2. /\ UNCHANGED <<end, broken, reg, parked, latch, said, busy, pc, reported, asksAck, listening,
                     handles, inbox, reading, got>>
      /\ wire' \in Wires /\ sent' \in [Peer -> Seq(BOOLEAN)] /\ end[p][l] = "open"
      /\ sent'[p] = t /\ sent'[r] = sent[r]
      /\ wire'[l][r] = IF end[r][l] = "closed" THEN wire[l][r] ELSE Append(wire[l][r], x)
      /\ \A m \in Link, q \in Peer : m # l \/ q # r => wire'[m][q] = wire[m][q]
  BY DEF WriteStep
<1>3. /\ n \in Nat /\ x \in Frames /\ x.kind = "PAYLOAD" /\ x.n = n
      /\ t \in Seq(BOOLEAN) /\ Len(t) = n /\ t[n] = b /\ n \in 1..n
  BY <1>1, FrameFacts
<1>4. ~b => Late(x, t)
  BY <1>3 DEF Late
<1>5. \A m \in Link : /\ UpTo(wire[m][r], n)
                      /\ AllLate(wire[m][r], sent[p]) => AllLate(wire[m][r], t)
                      /\ LateAfterSafe(wire[m][r], sent[p]) => LateAfterSafe(wire[m][r], t)
  <2>1. \A m \in Link : wire[m][r] \in Seq(Frames) /\ UpTo(wire[m][r], Len(sent[p]))
    BY <1>1 DEF WireInv
  <2> HIDE DEF r, n, b
  <2> QED
    BY <1>1, <1>3, <2>1, SentGrows
<1> HIDE DEF n, x, t
<1>6. /\ Append(wire[l][r], x) \in Seq(Frames)
      /\ \A k : Holds(Append(wire[l][r], x), k) <=> Holds(wire[l][r], k) \/ k = "PAYLOAD"
      /\ \A k : k # "PAYLOAD" /\ Once(wire[l][r], k) => Once(Append(wire[l][r], x), k)
      /\ AllLate(wire[l][r], t) /\ Late(x, t) => AllLate(Append(wire[l][r], x), t)
      /\ LateAfterSafe(wire[l][r], t) /\ (Holds(wire[l][r], "SAFE_TO_CLOSE") => Late(x, t))
            => LateAfterSafe(Append(wire[l][r], x), t)
      /\ UpTo(Append(wire[l][r], x), n)
  <2>1. wire[l][r] \in Seq(Frames)
    BY <1>1
  <2>2. \A k : Holds(Append(wire[l][r], x), k) <=> Holds(wire[l][r], k) \/ x.kind = k
    BY <1>3, <2>1, AppendFrame
  <2>3. /\ \A k : Once(wire[l][r], k) /\ (x.kind = k => ~Holds(wire[l][r], k))
                     => Once(Append(wire[l][r], x), k)
        /\ AllLate(wire[l][r], t) /\ Late(x, t) => AllLate(Append(wire[l][r], x), t)
        /\ LateAfterSafe(wire[l][r], t) /\ (Holds(wire[l][r], "SAFE_TO_CLOSE") => Late(x, t))
              => LateAfterSafe(Append(wire[l][r], x), t)
        /\ UpTo(wire[l][r], n) /\ (x.kind = "PAYLOAD" => x.n \in 1..n) => UpTo(Append(wire[l][r], x), n)
    BY <1>3, <2>1, AppendKeeps
  <2> QED
    BY <1>3, <1>5, <2>1, <2>2, <2>3
<1>7. TypeInv'
  BY <1>1, <1>2 DEF TypeInv
<1>8. RegInv' /\ DialInv'
  BY <1>1, <1>2 DEF RegInv, RegAt, DialInv
<1>9. WireInv'
  <2> SUFFICES ASSUME NEW q \in Peer, NEW m \in Link
               PROVE  /\ end[q][m] = "closed" => wire'[m][q] = <<>>
                      /\ UpTo(wire'[m][q], Len(sent'[Other(q)]))
                      /\ Holds(wire'[m][q], "OFFER") => q = Discoverer
                      /\ \A k \in {"LAST_WRITE", "SAFE_TO_CLOSE"} : Holds(wire'[m][q], k) => m = "old"
    BY <1>2 DEF WireInv
  <2>1. CASE q = p
    BY <1>1, <1>2, <2>1 DEF WireInv
  <2>2. CASE q = r
    <3>1. Len(sent'[Other(q)]) = n
      BY <1>1, <1>2, <1>3, <2>2
    <3>2. CASE wire'[m][q] = wire[m][q]
      BY <1>1, <1>5, <2>2, <3>1, <3>2 DEF WireInv
    <3>3. CASE m = l /\ end[r][l] # "closed" /\ wire'[m][q] = Append(wire[l][r], x)
      BY <1>1, <1>6, <2>2, <3>1, <3>3 DEF WireInv
    <3> QED
      BY <1>2, <2>2, <3>2, <3>3
  <2> QED
    BY <2>1, <2>2, Pairs
<1>10. LastWriteAt(p)' /\ SafeAt(p)'
  <2>1. LastWriteAt(p) /\ SafeAt(p) /\ wire'["old"][p] = wire["old"][p]
    BY <1>1, <1>2, Pairs DEF SwapInv
  <2> QED
    BY <1>2, <2>1 DEF LastWriteAt, SafeAt, Heard
<1>11. LastWriteAt(r)' /\ SafeAt(r)'
  <2>1. LastWriteAt(r) /\ SafeAt(r) /\ (Heard(r)' <=> Heard(r))
    BY <1>1, <1>2 DEF SwapInv, Heard
  <2>2. CASE wire'["old"][r] = wire["old"][r]
    <3>1. LastWriteAt(r)'
      BY <1>2, <2>1, <2>2 DEF LastWriteAt
    <3>2. SafeAt(r)'
      BY <1>1, <1>2, <1>5, <2>1, <2>2, Pairs DEF SafeAt
    <3> QED
      BY <3>1, <3>2
  <2>3. CASE l = "old" /\ wire'["old"][r] = Append(wire["old"][r], x)
    <3>1. LastWriteAt(r)'
      BY <1>2, <1>6, <2>1, <2>3 DEF LastWriteAt
    <3>2. said[p] => Late(x, t)
      BY <1>4, <2>3 DEF b
    <3>3. SafeAt(r)'
      BY <1>1, <1>2, <1>5, <1>6, <2>1, <2>3, <3>2 DEF SafeAt
    <3> QED
      BY <3>1, <3>3
  <2>4. wire'["old"][r] = wire["old"][r] \/ (l = "old" /\ wire'["old"][r] = Append(wire["old"][r], x))
    <3> HIDE DEF r
    <3>1. CASE l = "old"
      BY <1>2, <3>1
    <3>2. CASE l # "old"
      BY <1>1, <1>2, <3>2, Pairs
    <3> QED
      BY <3>1, <3>2
  <2> QED
    BY <2>2, <2>3, <2>4
<1> QED
  BY <1>1, <1>7, <1>8, <1>9, <1>10, <1>11, Pairs DEF ControlInv, SwapInv

\* Of what is in flight on link l a prefix arrives.
BreakStep(l) ==
    /\ UNCHANGED <<end, reg, parked, latch, said, busy, pc, reported, asksAck, listening,
                   handles, inbox, reading, sent, got>>
    /\ broken' = broken \cup {l} /\ l \notin broken
    /\ wire' \in Wires
    /\ \A r \in Peer : \E c \in 0..Len(wire[l][r]) : wire'[l][r] = SubSeq(wire[l][r], 1, c)
    /\ \A m \in Link, r \in Peer : m # l => wire'[m][r] = wire[m][r]

\* A break of link l is a BreakStep.
LEMMA BreakFacts ==
    ASSUME TypeInv, NEW l \in Link, Break(l)
    PROVE  BreakStep(l)
<1>1. PICK i \in 0..Len(wire[l][Advertiser]), j \in 0..Len(wire[l][Discoverer]) :
         wire' = [wire EXCEPT ![l][Advertiser] = SubSeq(@, 1, i), ![l][Discoverer] = SubSeq(@, 1, j)]
  BY DEF Break
<1> DEFINE a == SubSeq(wire[l][Advertiser], 1, i)
           d == SubSeq(wire[l][Discoverer], 1, j)
<1>2. wire \in Wires /\ wire[l][Advertiser] \in Seq(Frames) /\ wire[l][Discoverer] \in Seq(Frames)
  BY Pairs DEF TypeInv, Wires
<1>3. a \in Seq(Frames) /\ d \in Seq(Frames)
  BY <1>2
<1>4. wire' = [wire EXCEPT ![l] = [wire[l] EXCEPT ![Advertiser] = a, ![Discoverer] = d]]
  BY <1>1, <1>2, Pairs DEF Wires
<1> HIDE DEF a, d
<1>5. /\ wire' \in Wires /\ wire'[l][Advertiser] = a /\ wire'[l][Discoverer] = d
      /\ \A m \in Link, r \in Peer : m # l => wire'[m][r] = wire[m][r]
  BY <1>2, <1>3, <1>4, Pairs DEF Wires
<1>6. \A r \in Peer : \E c \in 0..Len(wire[l][r]) : wire'[l][r] = SubSeq(wire[l][r], 1, c)
  BY <1>5, Pairs DEF a, d
<1>7. /\ UNCHANGED <<end, reg, parked, latch, said, busy, pc, reported, asksAck, listening,
                     handles, inbox, reading, sent, got>>
      /\ broken' = broken \cup {l} /\ l \notin broken
  BY DEF Break, swapVars, offerVars, consumerVars
<1> QED
  BY <1>5, <1>6, <1>7 DEF BreakStep

\* A break keeps the whole invariant: what arrives is a prefix of what was in flight.
LEMMA BreakKeeps ==
    ASSUME ControlInv, SwapInv, NEW l \in Link, BreakStep(l)
    PROVE  ControlInv' /\ SwapInv'
<1>1. /\ TypeInv /\ RegInv /\ DialInv /\ WireInv
      /\ \A m \in Link, r \in Peer : wire[m][r] \in Seq(Frames) /\ wire'[m][r] \in Seq(Frames)
  BY DEF ControlInv, TypeInv, Wires, BreakStep
<1>2. /\ UNCHANGED <<end, reg, parked, latch, said, busy, pc, reported, asksAck, listening,
                     handles, inbox, reading, sent, got>>
      /\ broken' = broken \cup {l} /\ wire' \in Wires
  BY DEF BreakStep
<1>3. \A m \in Link, r \in Peer : Window(wire'[m][r], wire[m][r])
  <2> SUFFICES ASSUME NEW m \in Link, NEW r \in Peer
               PROVE  Window(wire'[m][r], wire[m][r])
    OBVIOUS
  <2>1. PICK c \in 0..Len(wire[m][r]) : wire'[m][r] = SubSeq(wire[m][r], 1, c)
    <3>1. CASE m = l
      BY <3>1 DEF BreakStep
    <3>2. CASE m # l
      <4>1. wire'[m][r] = wire[m][r]
        BY <3>2 DEF BreakStep
      <4>2. Len(wire[m][r]) \in 0..Len(wire[m][r]) /\ SubSeq(wire[m][r], 1, Len(wire[m][r])) = wire[m][r]
        BY <1>1
      <4> QED
        BY <4>1, <4>2
    <3> QED
      BY <3>1, <3>2
  <2> QED
    BY <1>1, <2>1, PrefixFrame
<1>4. \A m \in Link, r \in Peer :
         /\ \A k : Holds(wire'[m][r], k) => Holds(wire[m][r], k)
         /\ \A k : Once(wire[m][r], k) => Once(wire'[m][r], k)
         /\ AllLate(wire[m][r], sent[Other(r)]) => AllLate(wire'[m][r], sent[Other(r)])
         /\ LateAfterSafe(wire[m][r], sent[Other(r)]) => LateAfterSafe(wire'[m][r], sent[Other(r)])
         /\ UpTo(wire[m][r], Len(sent[Other(r)])) => UpTo(wire'[m][r], Len(sent[Other(r)]))
  BY <1>1, <1>3, WindowKeeps
<1>5. TypeInv'
  BY <1>1, <1>2 DEF TypeInv
<1>6. RegInv' /\ DialInv'
  BY <1>1, <1>2 DEF RegInv, RegAt, DialInv
<1>7. \A m \in Link, r \in Peer : wire[m][r] = <<>> => wire'[m][r] = <<>>
  <2> SUFFICES ASSUME NEW m \in Link, NEW r \in Peer, wire[m][r] = <<>>
               PROVE  wire'[m][r] = <<>>
    OBVIOUS
  <2>1. DOMAIN wire[m][r] = {}
    OBVIOUS
  <2>2. DOMAIN wire'[m][r] = {}
    BY <1>3, <2>1 DEF Window
  <2> QED
    BY <1>1, <2>2
<1>8. WireInv'
  <2> SUFFICES ASSUME NEW r \in Peer, NEW m \in Link
               PROVE  /\ end[r][m] = "closed" => wire'[m][r] = <<>>
                      /\ UpTo(wire'[m][r], Len(sent[Other(r)]))
                      /\ Holds(wire'[m][r], "OFFER") => r = Discoverer
                      /\ \A k \in {"LAST_WRITE", "SAFE_TO_CLOSE"} : Holds(wire'[m][r], k) => m = "old"
    BY <1>2 DEF WireInv
  <2>1. /\ end[r][m] = "closed" => wire[m][r] = <<>>
        /\ UpTo(wire[m][r], Len(sent[Other(r)]))
        /\ Holds(wire[m][r], "OFFER") => r = Discoverer
        /\ \A k \in {"LAST_WRITE", "SAFE_TO_CLOSE"} : Holds(wire[m][r], k) => m = "old"
    BY <1>1 DEF WireInv
  <2> QED
    BY <1>4, <1>7, <2>1
<1>9. ASSUME NEW r \in Peer
      PROVE  LastWriteAt(r)' /\ SafeAt(r)'
  <2>1. LastWriteAt(r) /\ SafeAt(r) /\ "old" \in Link
    BY Pairs DEF SwapInv
  <2>2. LastWriteAt(r)'
    BY <1>2, <1>4, <2>1 DEF LastWriteAt
  <2>3. SafeAt(r)'
    BY <1>2, <1>4, <2>1 DEF SafeAt, Heard
  <2> QED
    BY <2>2, <2>3
<1> QED
  BY <1>5, <1>6, <1>8, <1>9 DEF ControlInv, SwapInv

-------------------------------------------------------------------------------
(* The inductive invariant *)

\* The invariant holds at the start: both ends open on empty wires.
LEMMA InitInv ==
    ASSUME Init
    PROVE  ControlInv /\ SwapInv
<1>1. /\ \A p \in Peer : Other(p) \in Peer
      /\ \A p \in Peer : /\ reg[p] = "old" /\ ~parked[p] /\ ~latch[p] /\ ~said[p] /\ ~busy[p]
                         /\ pc[p] = "idle" /\ inbox[p] = <<>> /\ ~reported[p] /\ handles[p] = {"old"}
                         /\ end[p]["old"] = "open" /\ end[p]["new"] = "absent"
      /\ \A p \in Peer, l \in Link : wire[l][p] = <<>>
      /\ ~listening
  BY Pairs DEF Init
<1>2. TypeInv
  <2>1. wire \in Wires
    BY EmptyWire DEF Init, Wires
  <2>2. end \in Ends /\ reg \in [Peer -> {"old", "new", "none"}] /\ handles \in [Peer -> SUBSET Link]
        /\ pc \in [Peer -> {"idle", "ack", "intro", "drain"}]
    BY Pairs DEF Init, Ends
  <2>3. /\ inbox \in [Peer -> Seq(Commands)] /\ sent \in [Peer -> Seq(BOOLEAN)]
        /\ got \in [Peer -> Seq(Nat)]
    BY DEF Init
  <2>4. /\ parked \in [Peer -> BOOLEAN] /\ busy \in [Peer -> BOOLEAN] /\ latch \in [Peer -> BOOLEAN]
        /\ said \in [Peer -> BOOLEAN] /\ reported \in [Peer -> BOOLEAN]
        /\ reading \in [Peer -> BOOLEAN] /\ broken \subseteq Link
        /\ asksAck \in BOOLEAN /\ listening \in BOOLEAN
    BY DEF Init
  <2> QED
    BY <2>1, <2>2, <2>3, <2>4 DEF TypeInv
<1>3. \A p \in Peer : \A k : ~Queued(inbox[p], k) /\ Alone(inbox[p], k)
  BY <1>1 DEF Queued, Alone
<1>4. RegInv
  BY <1>1 DEF RegInv, RegAt
<1>5. DialInv
  BY <1>1, <1>3, Pairs DEF DialInv
<1>6. WireInv
  BY <1>1, EmptyWire DEF WireInv
<1>7. ASSUME NEW p \in Peer
      PROVE  LastWriteAt(p) /\ SafeAt(p)
  <2>1. wire["old"][p] = <<>>
    BY <1>1, Pairs
  <2>2. LastWriteAt(p)
    BY <1>1, <1>3, <2>1, EmptyWire DEF LastWriteAt
  <2>3. SafeAt(p)
    BY <1>1, <1>3, <2>1, EmptyWire DEF SafeAt, Heard
  <2> QED
    BY <2>2, <2>3
<1> QED
  BY <1>2, <1>4, <1>5, <1>6, <1>7 DEF ControlInv, SwapInv

\* The steps that are not of an owner or of the accept loop.
LEMMA NextCases ==
    ASSUME TypeInv, Next
    PROVE  \/ \E p \in Peer : ControlAction(p)
           \/ \E p \in Peer : ReadOld(p) /\ ~ReadStep(p, "old")
           \/ \E p \in Peer, l \in Link : ReadStep(p, l)
           \/ \E p \in Peer, l \in Link : WriteStep(p, l)
           \/ \E l \in Link : BreakStep(l)
  BY Pairs, ReadFacts, WriteFacts, BreakFacts DEF Next, ControlAction

\* Every step keeps the invariant.
LEMMA NextInv ==
    ASSUME ControlInv, SwapInv, [Next]_vars
    PROVE  ControlInv' /\ SwapInv'
<1>1. TypeInv
  BY DEF ControlInv
<1>2. CASE UNCHANGED <<wire, end, broken, reg, parked, latch, said, busy, pc,
                       reported, asksAck, listening, handles, sent, got, inbox>>
           /\ reading' \in [Peer -> BOOLEAN]
  <2>1. TypeInv'
    BY <1>1, <1>2 DEF TypeInv
  <2>2. RegInv' /\ DialInv' /\ WireInv'
    BY <1>2 DEF ControlInv, RegInv, RegAt, DialInv, WireInv
  <2>3. SwapInv'
    BY <1>2 DEF SwapInv, LastWriteAt, SafeAt, Heard
  <2> QED
    BY <2>1, <2>2, <2>3 DEF ControlInv
<1>3. CASE \E p \in Peer : ControlAction(p)
  <2>1. PICK p \in Peer : ControlAction(p)
    BY <1>3
  <2>2. ControlInv' /\ ControlStep(p)
    BY <2>1, ControlActionStep
  <2>3. LastWriteAt(p)' /\ LastWriteAt(Other(p))' /\ SafeAt(p)' /\ SafeAt(Other(p))'
    BY <2>2, ControlLastWrite, ControlSafe
  <2> QED
    BY <2>2, <2>3, Pairs DEF SwapInv
<1>4. CASE \E p \in Peer, l \in Link : ReadStep(p, l)
  BY <1>4, ReadKeeps
<1>5. CASE \E p \in Peer, l \in Link : WriteStep(p, l)
  BY <1>5, WriteKeeps
<1>6. CASE \E l \in Link : BreakStep(l)
  BY <1>6, BreakKeeps
<1>7. CASE \E p \in Peer : ReadOld(p) /\ ~ReadStep(p, "old")
  BY <1>1, <1>2, <1>7, ReadFacts
<1>8. CASE UNCHANGED vars
  BY <1>1, <1>2, <1>8 DEF vars, swapVars, offerVars, consumerVars, TypeInv
<1> QED
  BY <1>1, <1>3, <1>4, <1>5, <1>6, <1>7, <1>8, NextCases

\* Neither device finishes the upgrade (process_safe_to_close_prior_channel_event) while
\* the other still has the old channel registered.
THEOREM SwapsTogetherSafe == Spec => []SwapsTogether
<1>1. Init => ControlInv /\ SwapInv
  BY InitInv
<1>2. ControlInv /\ SwapInv /\ [Next]_vars => (ControlInv /\ SwapInv)'
  BY NextInv
<1>3. ControlInv /\ SwapInv => SwapsTogether
  BY Pairs DEF ControlInv, RegInv, RegAt, SwapInv, SafeAt, Heard, SwapsTogether
<1> QED
  BY <1>1, <1>2, <1>3, PTL DEF Spec

\* What the drain read is for, of device p.
HeardAt(p) ==
    reported[p] /\ "old" \notin broken /\ FALSE \notin Range(sent[Other(p)])
        => AllLate(wire["old"][Other(p)], sent[p])

\* Every step keeps HeardAt of both devices.
LEMMA HeardNext ==
    ASSUME ControlInv, SwapInv, [Next]_vars, ControlInv', NEW p \in Peer, HeardAt(p)
    PROVE  HeardAt(p)'
<1> DEFINE q == Other(p)
           o == wire["old"][q]
<1>1. /\ TypeInv /\ RegAt(p) /\ RegAt(q) /\ SafeAt(p) /\ SafeAt(q) /\ q \in Peer /\ q # p /\ Other(q) = p
      /\ o \in Seq(Frames) /\ sent[p] \in Seq(BOOLEAN) /\ sent[q] \in Seq(BOOLEAN)
  <2>1. TypeInv /\ RegAt(p) /\ RegAt(q) /\ SafeAt(p) /\ SafeAt(q) /\ q \in Peer /\ q # p /\ Other(q) = p
    BY Pairs DEF ControlInv, RegInv, SwapInv
  <2> HIDE DEF q
  <2>2. o \in Seq(Frames) /\ sent[p] \in Seq(BOOLEAN) /\ sent[q] \in Seq(BOOLEAN)
    BY <2>1, Pairs DEF TypeInv, Wires
  <2> QED
    BY <2>1, <2>2
<1>2. reported[p] => end[p]["old"] = "closed"
  BY <1>1 DEF RegAt
<1>3. CASE UNCHANGED <<wire, broken, reported, sent>>
  BY <1>3 DEF HeardAt
<1>4. ASSUME ControlAction(p)
      PROVE  HeardAt(p)'
  <2>1. Beside(p) /\ Forward(p) /\ OldWire(p)
    BY <1>4, ControlActionStep DEF ControlStep
  <2>2. UNCHANGED <<broken, sent>>
    BY <2>1 DEF Beside
  <2>3. CASE reported[p]
    <3>1. wire'["old"][q] = wire["old"][q]
      BY <1>2, <2>1, <2>3 DEF OldWire, Wrote, OldOpen
    <3> QED
      BY <2>2, <2>3, <3>1 DEF HeardAt
  <2>4. CASE ~reported[p] /\ reported'[p] /\ "old" \notin broken /\ FALSE \notin Range(sent[q])
    <3>1. /\ pc[p] = "drain" /\ wire'["old"][q] = wire["old"][q]
          /\ AtEof(p, "old") \/ wire["old"][p] # <<>>
      BY <2>1, <2>4 DEF Forward
    <3>2. /\ AllLate(wire["old"][p], sent[q]) /\ end[p]["old"] = "open"
          /\ wire["old"][p] \in Seq(Frames) /\ UpTo(wire["old"][p], Len(sent[q]))
      BY <1>1, <3>1, Pairs DEF SafeAt, Heard, RegAt, ControlInv, WireInv, TypeInv, Wires
    <3>3. CASE wire["old"][p] # <<>>
      <4>1. /\ 1 \in DOMAIN wire["old"][p] /\ Head(wire["old"][p]) = wire["old"][p][1]
            /\ \A k : Head(wire["old"][p]).kind = k => Holds(wire["old"][p], k)
        BY <3>2, <3>3, TailFrame
      <4>2. Late(wire["old"][p][1], sent[q])
        BY <3>2, <4>1 DEF AllLate
      <4>3. \A n \in 1..Len(sent[q]) : sent[q][n]
        <5> SUFFICES ASSUME NEW n \in 1..Len(sent[q])
                     PROVE  sent[q][n]
          OBVIOUS
        <5>1. n \in DOMAIN sent[q] /\ sent[q][n] \in BOOLEAN
          BY <1>1
        <5>2. sent[q][n] # FALSE
          BY <2>4, <5>1, Zenon DEF Range
        <5> QED
          BY <5>1, <5>2
      <4>4. wire["old"][p][1].kind = "DISCONNECTION"
        BY <3>2, <4>1, <4>2, <4>3 DEF Late, UpTo
      <4>5. Heard(q)
        BY <1>1, <4>1, <4>4 DEF SafeAt, Heard
      <4> QED
        BY <1>1, <2>2, <3>1, <4>5 DEF SafeAt, HeardAt
    <3>4. CASE wire["old"][p] = <<>>
      <4>1. end[q]["old"] = "closed"
        BY <2>4, <3>1, <3>2, <3>4 DEF AtEof
      <4>2. wire["old"][q] = <<>>
        BY <1>1, <4>1, Pairs DEF ControlInv, WireInv
      <4> QED
        BY <2>2, <3>1, <4>2, EmptyWire DEF HeardAt
    <3> QED
      BY <3>3, <3>4
  <2> QED
    BY <2>2, <2>3, <2>4 DEF HeardAt
<1>5. ASSUME ControlAction(q)
      PROVE  HeardAt(p)'
  <2>1. Beside(q) /\ OldWire(q)
    BY <1>1, <1>5, ControlActionStep DEF ControlStep
  <2>2. UNCHANGED <<broken, sent>> /\ reported'[p] = reported[p]
    BY <1>1, <2>1 DEF Beside
  <2>3. wire'["old"][q] = wire["old"][q] \/ wire'["old"][q] = <<>>
    BY <1>1, <2>1, Pairs DEF OldWire, ControlInv, WireInv
  <2>4. CASE wire'["old"][q] = wire["old"][q]
    BY <2>2, <2>4 DEF HeardAt
  <2>5. CASE wire'["old"][q] = <<>>
    BY <2>5, EmptyWire DEF HeardAt
  <2> QED
    BY <2>3, <2>4, <2>5
<1>6. ASSUME NEW r \in Peer, NEW l \in Link, ReadStep(r, l)
      PROVE  HeardAt(p)'
  <2>1. UNCHANGED <<broken, sent, reported>>
    BY <1>6 DEF ReadStep
  <2>2. wire'["old"][q] = o \/ (o # <<>> /\ wire'["old"][q] = Tail(o))
    <3>1. CASE l = "old" /\ r = q
      BY <1>6, <3>1 DEF ReadStep
    <3>2. CASE ~(l = "old" /\ r = q)
      BY <1>1, <1>6, <3>2, Pairs DEF ReadStep
    <3> QED
      BY <3>1, <3>2
  <2>3. AllLate(o, sent[p]) => AllLate(wire'["old"][q], sent[p])
    <3>1. CASE o # <<>> /\ wire'["old"][q] = Tail(o)
      <4>1. Tail(o) \in Seq(Frames) /\ Window(Tail(o), o)
        BY <1>1, <3>1, TailFrame
      <4>2. AllLate(o, sent[p]) => AllLate(Tail(o), sent[p])
        BY <1>1, <4>1, WindowKeeps
      <4> QED
        BY <3>1, <4>2
    <3> QED
      BY <2>2, <3>1
  <2> QED
    BY <2>1, <2>3 DEF HeardAt
<1>7. ASSUME NEW r \in Peer, NEW l \in Link, WriteStep(r, l)
      PROVE  HeardAt(p)'
  <2>1. UNCHANGED <<broken, reported, end>> /\ end[r][l] = "open"
    BY <1>7 DEF WriteStep
  <2>2. CASE r = p
    <3> DEFINE b == ~(l = "old" /\ said[p])
    <3>1. sent'[q] = sent[q] /\ sent'[p] = Append(sent[p], b)
      BY <1>7, <2>2 DEF WriteStep
    <3>2. reported[p] => wire'["old"][q] = o
      BY <1>1, <1>2, <1>7, <2>1, <2>2, Pairs DEF WriteStep
    <3>3. UpTo(o, Len(sent[p]))
      BY <1>1, Pairs DEF ControlInv, WireInv
    <3>4. b \in BOOLEAN
      OBVIOUS
    <3> HIDE DEF b
    <3>5. AllLate(o, sent[p]) => AllLate(o, Append(sent[p], b))
      BY <1>1, <3>3, <3>4, SentGrows
    <3> QED
      BY <2>1, <3>1, <3>2, <3>5 DEF HeardAt
  <2>3. CASE r = q
    <3> DEFINE b == ~(l = "old" /\ said[q])
    <3>1. sent'[p] = sent[p] /\ sent'[q] = Append(sent[q], b) /\ wire'["old"][q] = o
      BY <1>1, <1>7, <2>3, Pairs DEF WriteStep
    <3>2. b \in BOOLEAN
      OBVIOUS
    <3> HIDE DEF b
    <3>3. FALSE \in Range(sent[q]) => FALSE \in Range(sent'[q])
      <4>1. \A n \in DOMAIN sent[q] : n \in DOMAIN sent'[q] /\ sent'[q][n] = sent[q][n]
        <5>1. /\ Len(sent[q]) \in Nat /\ DOMAIN sent[q] = 1..Len(sent[q])
              /\ DOMAIN Append(sent[q], b) = 1..(Len(sent[q]) + 1)
              /\ \A n \in 1..Len(sent[q]) : Append(sent[q], b)[n] = sent[q][n]
          BY <1>1, <3>2
        <5> QED
          BY <3>1, <5>1
      <4> QED
        BY <4>1, Zenon DEF Range
    <3> QED
      BY <2>1, <3>1, <3>3 DEF HeardAt
  <2> QED
    BY <2>2, <2>3, Pairs
<1>8. ASSUME NEW l \in Link, BreakStep(l)
      PROVE  HeardAt(p)'
  <2>1. broken' = broken \cup {l} /\ UNCHANGED <<reported, sent>>
    BY <1>8 DEF BreakStep
  <2>2. CASE l = "old"
    BY <2>1, <2>2 DEF HeardAt
  <2>3. CASE l # "old"
    <3>1. wire'["old"][q] = wire["old"][q]
      BY <1>1, <1>8, <2>3, Pairs DEF BreakStep
    <3> QED
      BY <2>1, <3>1 DEF HeardAt
  <2> QED
    BY <2>2, <2>3
<1>9. CASE \E r \in Peer : ReadOld(r) /\ ~ReadStep(r, "old")
  BY <1>1, <1>3, <1>9, ReadFacts
<1>10. CASE UNCHANGED vars
  BY <1>3, <1>10 DEF vars, consumerVars
<1>11. CASE \E r \in Peer : ControlAction(r)
  BY <1>4, <1>5, <1>11, Pairs
<1> QED
  BY <1>1, <1>6, <1>7, <1>8, <1>9, <1>10, <1>11, NextCases

\* A device that closes its old channel after the drain read leaves nothing unread there that
\* the other one needs (process_safe_to_close_prior_channel_event).
THEOREM HeardSafe == Spec => []HeardBeforeClosed
<1> DEFINE HInv == \A p \in Peer : HeardAt(p)
<1>1. Init => ControlInv /\ SwapInv /\ HInv
  BY InitInv DEF Init, HeardAt
<1>2. ControlInv /\ SwapInv /\ HInv /\ [Next]_vars => (ControlInv /\ SwapInv /\ HInv)'
  BY NextInv, HeardNext
<1>3. HInv => HeardBeforeClosed
  BY DEF HeardAt, HeardBeforeClosed, AllLate, Late
<1> HIDE DEF HInv
<1> QED
  BY <1>1, <1>2, <1>3, PTL DEF Spec

-------------------------------------------------------------------------------
(* The owners do not wait for each other *)

\* The old link works in both directions.
OldAlive == "old" \notin broken /\ \A p \in Peer : end[p]["old"] # "closed"

\* SAFE_TO_CLOSE does not follow DISCONNECTION.
SafeFirst(s) ==
    \A i, j \in DOMAIN s : i < j /\ s[i].kind = "DISCONNECTION" => s[j].kind # "SAFE_TO_CLOSE"

\* The reader of p stops at SAFE_TO_CLOSE, so the DISCONNECTION after it is left for the drain.
StopAt(p) ==
    /\ Queued(inbox[p], "SAFE_TO_CLOSE") \/ pc[p] = "drain" => ~reading[p]
    /\ OldAlive /\ said[Other(p)] /\ reading[p] => Holds(wire["old"][p], "SAFE_TO_CLOSE")
    /\ OldAlive /\ said[Other(p)] /\ pc[Other(p)] = "drain" => Holds(wire["old"][p], "DISCONNECTION")
    /\ SafeFirst(wire["old"][p])
StopInv == ReaderStops => \A p \in Peer : StopAt(p)

\* The dialled socket is on its way to the owner, or the owner reads its introduction.
Introducing ==
    \/ end[Advertiser]["new"] = "dialled" \/ Queued(inbox[Advertiser], "SOCKET")
    \/ pc[Advertiser] = "intro"

\* The introduction is there to be read, or the read ends without it.
IntroInv ==
    /\ Introducing => \/ wire["new"][Advertiser] # <<>> \/ "new" \in broken
                      \/ \E p \in Peer : end[p]["new"] = "closed"
    /\ reg[Advertiser] = "none" => end[Advertiser]["new"] \in {"absent", "closed"}

\* What a step of p does to what it has said: the frame goes out with the mark.
Says(p) ==
    /\ said'[p] /\ ~said[p] /\ OldAlive' => Holds(wire'["old"][Other(p)], "SAFE_TO_CLOSE")
    /\ pc'[p] = "drain" /\ pc[p] # "drain" =>
          /\ said'[p] = said[p]
          /\ OldAlive' => wire'["old"][Other(p)] = Added(wire["old"][Other(p)], "DISCONNECTION")
    /\ pc[p] = "drain" => said'[p] = said[p] /\ wire'["old"][Other(p)] = wire["old"][Other(p)]

\* A latched LAST_WRITE is answered with the swap itself.
LEMMA ProtocolSays ==
    ASSUME TypeInv, NEW p \in Peer, NEW w \in Wires, RunUpgradeProtocol(p, w),
           said'[p], ~said[p], end[Other(p)]["old"] # "closed"
    PROVE  Holds(wire'["old"][Other(p)], "SAFE_TO_CLOSE")
<1>1. /\ Other(p) \in Peer /\ "old" \in Link
      /\ "LAST_WRITE" \in Kinds \ {"PAYLOAD"} /\ "SAFE_TO_CLOSE" \in Kinds \ {"PAYLOAD"}
      /\ w["old"][Other(p)] \in Seq(Frames)
  BY Pairs DEF Kinds, Wires
<1>2. /\ Writable(p, "old") /\ latch[p]
      /\ wire' = Put(w, p, "old", <<Frame("LAST_WRITE"), Frame("SAFE_TO_CLOSE")>>)
  BY DEF RunUpgradeProtocol, TypeInv
<1>3. wire'["old"][Other(p)] = Added(Added(w["old"][Other(p)], "LAST_WRITE"), "SAFE_TO_CLOSE")
  BY <1>1, <1>2, PutTwo
<1>4. Added(w["old"][Other(p)], "LAST_WRITE") \in Seq(Frames)
  BY <1>1, AddedFacts
<1>5. \A s \in Seq(Frames) : Holds(Added(s, "SAFE_TO_CLOSE"), "SAFE_TO_CLOSE")
  BY <1>1, AddedFacts
<1> QED
  BY <1>3, <1>4, <1>5

\* Every step of an owner or of the accept loop says what it marks.
LEMMA ControlSays ==
    ASSUME ControlInv, NEW p \in Peer, ControlAction(p)
    PROVE  Says(p)
<1>1. /\ TypeInv /\ wire \in Wires /\ end \in Ends /\ Other(p) \in Peer /\ Other(p) # p
      /\ "old" \in Link /\ "new" \in Link /\ wire["old"][Other(p)] \in Seq(Frames)
      /\ "SAFE_TO_CLOSE" \in Kinds \ {"PAYLOAD"} /\ "DISCONNECTION" \in Kinds \ {"PAYLOAD"}
  <2>1. "SAFE_TO_CLOSE" \in Kinds \ {"PAYLOAD"} /\ "DISCONNECTION" \in Kinds \ {"PAYLOAD"}
    BY DEF Kinds
  <2>2. TypeInv /\ wire \in Wires /\ end \in Ends
    BY DEF ControlInv, TypeInv
  <2>3. \A l \in Link, r \in Peer : wire[l][r] \in Seq(Frames)
    BY <2>2 DEF Wires
  <2> QED
    BY <2>1, <2>2, <2>3, Pairs
<1>2. end'[Other(p)]["old"] = end[Other(p)]["old"]
  BY ControlActionStep DEF ControlStep, Beside
<1>3. OldAlive' => /\ end[Other(p)]["old"] # "closed" /\ "old" \notin broken'
                   /\ end'[p]["old"] # "closed"
  BY <1>1, <1>2 DEF OldAlive
<1>4. CASE pc[p] # "drain" /\ pc'[p] # "drain" /\ said' = said
  BY <1>4 DEF Says
<1>5. CASE p = Advertiser /\ (Offer \/ ResetUpgrade)
  BY <1>4, <1>5 DEF Offer, ResetUpgrade, swapVars
<1>6. CASE DuplicateOffer(p) \/ RefuseOffer(p) \/ OnUpgradeFailure(p) \/ Ignore(p)
  BY <1>4, <1>6 DEF DuplicateOffer, RefuseOffer, OnUpgradeFailure, Ignore, Take, swapVars
<1>7. CASE OnIncomingConnection(p) \/ GetUpgradedChannel(p) \/ Disconnect(p)
  BY <1>1, <1>4, <1>7 DEF OnIncomingConnection, GetUpgradedChannel, Disconnect, Take, TypeInv, swapVars
<1>8. CASE Accept(p)
  <2>1. said' = said /\ pc' = pc
    BY <1>8 DEF Accept, swapVars
  <2>2. wire' = wire \/ wire' = Discard(wire, p, {"new"})
    BY <1>8 DEF Accept
  <2>3. wire'["old"][Other(p)] = wire["old"][Other(p)]
    BY <1>1, <2>2, DiscardFacts
  <2> QED
    BY <2>1, <2>3 DEF Says
<1>9. CASE Drain(p)
  <2>1. /\ said' = said /\ pc' = [pc EXCEPT ![p] = "idle"]
        /\ wire' = Discard(wire, p, {"old"})
    BY <1>9 DEF Drain, FinishUpgrade, swapVars
  <2>2. wire'["old"][Other(p)] = wire["old"][Other(p)]
    BY <1>1, <2>1, DiscardFacts
  <2>3. pc'[p] = "idle"
    BY <1>1, <2>1 DEF TypeInv
  <2> QED
    BY <2>1, <2>2, <2>3 DEF Says
<1>10. ASSUME NEW w \in Wires, RunUpgradeProtocol(p, w), pc[p] # "drain", pc'[p] # "drain"
       PROVE  Says(p)
  BY <1>1, <1>3, <1>10, ProtocolSays DEF Says
<1>11. CASE JoinOffer(p)
  <2>1. pc[p] = "idle" /\ pc'[p] # "drain"
    BY <1>1, <1>11 DEF JoinOffer, Take, TypeInv
  <2>2. CASE said' = said
    BY <1>4, <2>1, <2>2
  <2>3. CASE said' # said
    <3> DEFINE w == [wire EXCEPT !["new"][Other(p)] = <<Frame("INTRODUCTION")>>]
    <3>1. RunUpgradeProtocol(p, w)
      BY <1>11, <2>3 DEF JoinOffer, swapVars
    <3>2. w \in Wires
      <4>1. <<Frame("INTRODUCTION")>> \in Seq(Frames)
        BY FrameFacts DEF Kinds
      <4> QED
        BY <1>1, <4>1 DEF Wires
    <3> HIDE DEF w
    <3> QED
      BY <1>10, <2>1, <3>1, <3>2
  <2> QED
    BY <2>2, <2>3
<1>12. CASE ReadAck(p)
  <2>1. pc[p] = "ack" /\ pc'[p] = "idle"
    BY <1>1, <1>12 DEF ReadAck, TypeInv
  <2>2. CASE said' = said
    BY <1>4, <2>1, <2>2
  <2>3. CASE said' # said
    <3> DEFINE w == [wire EXCEPT !["new"][p] = Tail(@)]
    <3>1. RunUpgradeProtocol(p, w) /\ wire["new"][p] # <<>>
      BY <1>12, <2>3 DEF ReadAck, swapVars
    <3>2. w \in Wires
      BY <1>1, <3>1, TailWire
    <3> HIDE DEF w
    <3> QED
      BY <1>10, <2>1, <3>1, <3>2
  <2> QED
    BY <2>2, <2>3
<1>13. CASE ReadIntroduction(p)
  <2>1. pc[p] = "intro" /\ pc'[p] = "idle"
    BY <1>1, <1>13 DEF ReadIntroduction, TypeInv
  <2>2. CASE said' = said
    BY <1>4, <2>1, <2>2
  <2>3. CASE said' # said
    <3> DEFINE v == [wire EXCEPT !["new"][p] = Tail(@)]
               w == Put(v, p, "new", <<Frame("INTRODUCTION_ACK")>>)
    <3>1. RunUpgradeProtocol(p, w) /\ wire["new"][p] # <<>>
      BY <1>13, <2>3 DEF ReadIntroduction, swapVars
    <3>2. v \in Wires
      BY <1>1, <3>1, TailWire
    <3>3. "INTRODUCTION_ACK" \in Kinds
      BY DEF Kinds
    <3> HIDE DEF v
    <3>4. w \in Wires
      BY <1>1, <3>2, <3>3, PutFrame
    <3> HIDE DEF w
    <3> QED
      BY <1>10, <2>1, <3>1, <3>4
  <2> QED
    BY <2>2, <2>3
<1>14. CASE OnLastWrite(p)
  <2>1. pc[p] = "idle" /\ pc' = pc
    BY <1>14 DEF OnLastWrite, Take
  <2>2. CASE said' = said
    BY <1>4, <2>1, <2>2
  <2>3. CASE said' # said
    <3>1. wire' = Put(wire, p, "old", <<Frame("SAFE_TO_CLOSE")>>)
      BY <1>14, <2>3 DEF OnLastWrite
    <3>2. OldAlive' => wire'["old"][Other(p)] = Added(wire["old"][Other(p)], "SAFE_TO_CLOSE")
      BY <1>1, <1>3, <3>1, PutFrame
    <3>3. Holds(Added(wire["old"][Other(p)], "SAFE_TO_CLOSE"), "SAFE_TO_CLOSE")
      BY <1>1, AddedFacts
    <3> QED
      BY <2>1, <3>2, <3>3 DEF Says
  <2> QED
    BY <2>2, <2>3
<1>15. CASE OnSafeToClose(p)
  <2>1. /\ pc[p] = "idle" /\ said' = said /\ end' = end /\ broken' = broken /\ parked[p]
        /\ wire' = IF Writable(p, "old") THEN Put(wire, p, "old", <<Frame("DISCONNECTION")>>) ELSE wire
    BY <1>15 DEF OnSafeToClose, Take
  <2>2. end[p]["old"] = "open"
    BY <2>1 DEF ControlInv, RegInv, RegAt
  <2>3. OldAlive' => wire'["old"][Other(p)] = Added(wire["old"][Other(p)], "DISCONNECTION")
    <3> SUFFICES ASSUME OldAlive'
                 PROVE  wire'["old"][Other(p)] = Added(wire["old"][Other(p)], "DISCONNECTION")
      OBVIOUS
    <3>1. wire' = Put(wire, p, "old", <<Frame("DISCONNECTION")>>)
      BY <1>3, <2>1, <2>2 DEF Writable
    <3> QED
      BY <1>1, <1>3, <3>1, PutFrame
  <2> QED
    BY <2>1, <2>3 DEF Says
<1> QED
  BY <1>5, <1>6, <1>7, <1>8, <1>9, <1>11, <1>12, <1>13, <1>14, <1>15 DEF ControlAction, OwnerStep

\* SAFE_TO_CLOSE stays before DISCONNECTION.
LEMMA SafeFirstKeeps ==
    ASSUME NEW s \in Seq(Frames), SafeFirst(s)
    PROVE  /\ \A x \in Frames : (x.kind = "SAFE_TO_CLOSE" => ~Holds(s, "DISCONNECTION"))
                 => SafeFirst(Append(s, x))
           /\ \A t \in Seq(Frames) : Window(t, s) => SafeFirst(t)
<1>1. ASSUME NEW x \in Frames, x.kind = "SAFE_TO_CLOSE" => ~Holds(s, "DISCONNECTION")
      PROVE  SafeFirst(Append(s, x))
  <2> DEFINE u == Append(s, x)
  <2>1. /\ Len(u) = Len(s) + 1 /\ Len(s) \in Nat /\ u[Len(s) + 1] = x
        /\ \A i \in 1..Len(s) : u[i] = s[i]
        /\ DOMAIN u = 1..Len(u) /\ DOMAIN s = 1..Len(s)
    OBVIOUS
  <2> HIDE DEF u
  <2>2. \A i, j \in DOMAIN u : i < j => /\ i \in DOMAIN s /\ u[i] = s[i]
                                        /\ (j \in DOMAIN s /\ u[j] = s[j]) \/ u[j] = x
    BY <2>1
  <2>3. SafeFirst(u)
    BY <1>1, <2>2 DEF SafeFirst, Holds
  <2> QED
    BY <2>3 DEF u
<1>2. ASSUME NEW t \in Seq(Frames), Window(t, s)
      PROVE  SafeFirst(t)
  <2>1. PICK k \in {0, 1} : \A i \in DOMAIN t : i + k \in DOMAIN s /\ t[i] = s[i + k]
    BY <1>2 DEF Window
  <2>2. DOMAIN t = 1..Len(t) /\ Len(t) \in Nat
    OBVIOUS
  <2>3. \A i, j \in DOMAIN t : i < j => i + k < j + k
    BY <2>2
  <2> QED
    BY <2>1, <2>3 DEF SafeFirst
<1> QED
  BY <1>1, <1>2

\* A control step keeps StopAt: DISCONNECTION goes out after SAFE_TO_CLOSE and last.
LEMMA ControlStops ==
    ASSUME ControlInv, SwapInv, NEW p \in Peer, ControlAction(p), StopAt(p), StopAt(Other(p))
    PROVE  StopAt(p)' /\ StopAt(Other(p))'
<1> DEFINE q == Other(p)
<1>1. /\ q \in Peer /\ q # p /\ Other(q) = p /\ Beside(p) /\ Forward(p) /\ OldWire(p) /\ Says(p)
      /\ RegAt(p) /\ SafeAt(q) /\ "SAFE_TO_CLOSE" \in Kinds
  BY Pairs, ControlActionStep, ControlSays DEF ControlStep, ControlInv, RegInv, SwapInv, Kinds
<1>2. OldAlive' => OldAlive /\ end'[p]["old"] # "closed" /\ end[p]["old"] # "closed"
  BY <1>1, Pairs DEF OldAlive, Beside, OldWire
<1>3. StopAt(p)'
  <2>1. /\ said'[q] = said[q] /\ pc'[q] = pc[q] /\ reading' = reading
        /\ Queued(inbox'[p], "SAFE_TO_CLOSE") => Queued(inbox[p], "SAFE_TO_CLOSE")
        /\ pc'[p] = "drain" => pc[p] = "drain" \/ Queued(inbox[p], "SAFE_TO_CLOSE")
    BY <1>1 DEF Beside, Forward
  <2>2. OldAlive' => wire'["old"][p] = wire["old"][p]
    BY <1>1, <1>2 DEF OldWire
  <2>3. wire'["old"][p] = wire["old"][p] \/ wire'["old"][p] = <<>>
    BY <1>1, ControlActionStep, Pairs DEF OldWire, ControlInv, WireInv
  <2>4. SafeFirst(wire'["old"][p])
    <3>1. SafeFirst(<<>>)
      BY DEF SafeFirst
    <3> QED
      BY <2>3, <3>1 DEF StopAt
  <2> QED
    BY <1>2, <2>1, <2>2, <2>4 DEF StopAt
<1>4. StopAt(q)'
  <2> DEFINE o == wire["old"][q]
             t == wire'["old"][q]
  <2>1. o \in Seq(Frames)
    BY <1>1, Pairs DEF ControlInv, TypeInv, Wires
  <2>2. \A s \in Seq(Frames), k \in Kinds \ {"PAYLOAD"} :
           /\ Added(s, k) \in Seq(Frames)
           /\ \A c : Holds(Added(s, k), c) <=> Holds(s, c) \/ k = c
           /\ SafeFirst(s) /\ (k = "SAFE_TO_CLOSE" => ~Holds(s, "DISCONNECTION")) => SafeFirst(Added(s, k))
    BY AddedFacts, FrameFacts, SafeFirstKeeps DEF Added
  <2>3. /\ "OFFER" \in Kinds \ {"PAYLOAD"} /\ "UPGRADE_FAILURE" \in Kinds \ {"PAYLOAD"}
        /\ "LAST_WRITE" \in Kinds \ {"PAYLOAD"} /\ "SAFE_TO_CLOSE" \in Kinds \ {"PAYLOAD"}
        /\ "DISCONNECTION" \in Kinds \ {"PAYLOAD"}
    BY DEF Kinds
  <2>4. t # o => ~Holds(o, "DISCONNECTION")
    <3>1. t # o => OldOpen(p) /\ pc[p] # "drain"
      BY <1>1 DEF OldWire, Wrote, Says
    <3> QED
      BY <1>1, <3>1 DEF SafeAt, RegAt, OldOpen
  <2> HIDE DEF o, t
  <2>5. /\ SafeFirst(o) => SafeFirst(t)
        /\ \A c : Holds(o, c) => Holds(t, c)
    <3>1. CASE t = o
      BY <3>1
    <3>2. CASE \E k \in Kinds \ {"PAYLOAD"} : t = Added(o, k)
      BY <2>1, <2>2, <2>4, <3>2
    <3>3. CASE t = Added(Added(o, "LAST_WRITE"), "SAFE_TO_CLOSE")
      <4>1. /\ Added(o, "LAST_WRITE") \in Seq(Frames)
            /\ \A c : Holds(Added(o, "LAST_WRITE"), c) <=> Holds(o, c) \/ "LAST_WRITE" = c
            /\ SafeFirst(o) => SafeFirst(Added(o, "LAST_WRITE"))
        BY <2>1, <2>2, <2>3
      <4>2. t # o => ~Holds(Added(o, "LAST_WRITE"), "DISCONNECTION")
        BY <2>4, <4>1
      <4> QED
        BY <2>2, <2>3, <3>1, <3>3, <4>1, <4>2
    <3>4. \/ t = o \/ t = Added(Added(o, "LAST_WRITE"), "SAFE_TO_CLOSE")
          \/ t = Added(o, "OFFER") \/ t = Added(o, "UPGRADE_FAILURE") \/ t = Added(o, "LAST_WRITE")
          \/ t = Added(o, "SAFE_TO_CLOSE") \/ t = Added(o, "DISCONNECTION")
      BY <1>1 DEF OldWire, Wrote, o, t
    <3> QED
      BY <2>3, <3>1, <3>2, <3>3, <3>4
  <2>6. /\ pc'[q] = pc[q] /\ reading' = reading /\ inbox'[q] = inbox[q]
    BY <1>1 DEF Beside
  <2>7. OldAlive' /\ said'[p] /\ reading[q] => Holds(t, "SAFE_TO_CLOSE")
    BY <1>1, <1>2, <2>5 DEF StopAt, Says, o, t
  <2>8. OldAlive' /\ said'[p] /\ pc'[p] = "drain" => Holds(t, "DISCONNECTION")
    <3>1. CASE pc[p] = "drain"
      BY <1>1, <1>2, <3>1 DEF StopAt, Says, o, t
    <3>2. CASE pc[p] # "drain"
      <4>1. OldAlive' /\ pc'[p] = "drain" => t = Added(o, "DISCONNECTION")
        BY <1>1, <3>2 DEF Says, o, t
      <4>2. Holds(Added(o, "DISCONNECTION"), "DISCONNECTION")
        BY <2>1, <2>2, <2>3
      <4> QED
        BY <4>1, <4>2
    <3> QED
      BY <3>1, <3>2
  <2> QED
    BY <1>1, <2>5, <2>6, <2>7, <2>8 DEF StopAt, o, t
<1> QED
  BY <1>3, <1>4

\* The reader of the old channel goes on or stops, at SAFE_TO_CLOSE if it is one that does.
LEMMA ReadingStep ==
    ASSUME TypeInv, NEW p \in Peer
    PROVE  /\ ReadOld(p) => /\ reading[p] /\ reading'[Other(p)] = reading[Other(p)]
                            /\ ReaderStops /\ Head(wire["old"][p]).kind = "SAFE_TO_CLOSE" => ~reading'[p]
           /\ ReadNew(p) => reading' = reading
<1>1. ASSUME ReadOld(p)
      PROVE  /\ reading[p] /\ reading'[Other(p)] = reading[Other(p)]
             /\ ReaderStops /\ Head(wire["old"][p]).kind = "SAFE_TO_CLOSE" => ~reading'[p]
  <2>1. \E b \in BOOLEAN :
           /\ reading' = [reading EXCEPT ![p] = b]
           /\ ReaderStops /\ Head(wire["old"][p]).kind = "SAFE_TO_CLOSE" => b = FALSE
    BY <1>1, HandshakeAssumption DEF ReadOld
  <2>2. reading[p] /\ reading \in [Peer -> BOOLEAN]
    BY <1>1 DEF ReadOld, TypeInv
  <2> QED
    BY <2>1, <2>2, Pairs
<1>2. ReadNew(p) => reading' = reading
  BY DEF ReadNew
<1> QED
  BY <1>1, <1>2

\* A read of the old channel keeps StopAt: SAFE_TO_CLOSE ends it before DISCONNECTION.
LEMMA ReadOldStops ==
    ASSUME ControlInv, NEW p \in Peer, ReadOld(p), ReaderStops, StopAt(p), StopAt(Other(p))
    PROVE  StopAt(p)' /\ StopAt(Other(p))'
<1> DEFINE q == Other(p)
           s == wire["old"][p]
           f == Head(s)
<1>1. /\ TypeInv /\ q \in Peer /\ q # p /\ Other(q) = p /\ "old" \in Link /\ s \in Seq(Frames)
      /\ reading[p] /\ reading'[q] = reading[q] /\ (f.kind = "SAFE_TO_CLOSE" => ~reading'[p])
  <2>1. TypeInv /\ wire \in Wires
    BY DEF ControlInv, TypeInv
  <2>2. reading[p] /\ reading'[q] = reading[q] /\ (f.kind = "SAFE_TO_CLOSE" => ~reading'[p])
    BY <2>1, ReadingStep
  <2>3. s \in Seq(Frames)
    BY <2>1, Pairs DEF Wires
  <2> HIDE DEF s, f
  <2> QED
    BY <2>1, <2>2, <2>3, Pairs
<1>2. CASE UNCHANGED <<wire, end, broken, said, pc, inbox>>
  BY <1>1, <1>2 DEF StopAt, OldAlive
<1>3. CASE ReadStep(p, "old")
  <2>1. /\ UNCHANGED <<end, broken, said, pc>> /\ s # <<>>
        /\ wire'["old"][p] = Tail(s) /\ wire'["old"][q] = wire["old"][q]
        /\ inbox'[q] = inbox[q] /\ inbox[p] \in Seq(Commands)
        /\ inbox'[p] = inbox[p] \/ inbox'[p] = Append(inbox[p], f.kind)
    BY <1>1, <1>3 DEF ReadStep, TypeInv
  <2>2. /\ Tail(s) \in Seq(Frames) /\ Window(Tail(s), s) /\ f \in Frames /\ f = s[1] /\ 1 \in DOMAIN s
        /\ \A k : Holds(s, k) <=> f.kind = k \/ Holds(Tail(s), k)
    BY <1>1, <2>1, TailFrame
  <2>3. Queued(inbox'[p], "SAFE_TO_CLOSE") => Queued(inbox[p], "SAFE_TO_CLOSE") \/ f.kind = "SAFE_TO_CLOSE"
    <3>1. f.kind \in Commands
      BY <2>2 DEF Frames, Commands
    <3>2. CASE inbox'[p] = Append(inbox[p], f.kind)
      BY <2>1, <3>1, <3>2, AppendCommand
    <3> QED
      BY <2>1, <3>2
  <2>4. f.kind = "DISCONNECTION" => ~Holds(s, "SAFE_TO_CLOSE")
    <3>1. \A i \in DOMAIN s : i = 1 \/ 1 < i
      <4>1. DOMAIN s = 1..Len(s) /\ Len(s) \in Nat
        BY <1>1
      <4> QED
        BY <4>1
    <3> HIDE DEF s
    <3> QED
      BY <2>2, <3>1 DEF StopAt, SafeFirst, Holds, s
  <2>5. SafeFirst(Tail(s))
    BY <1>1, <2>2, SafeFirstKeeps DEF StopAt
  <2> HIDE DEF s, f
  <2>6. StopAt(p)'
    BY <1>1, <2>1, <2>2, <2>3, <2>4, <2>5 DEF StopAt, OldAlive, s
  <2>7. StopAt(q)'
    BY <1>1, <2>1 DEF StopAt, OldAlive
  <2> QED
    BY <2>6, <2>7
<1> QED
  BY <1>1, <1>2, <1>3, ReadFacts

\* Every step keeps StopAt of both devices.
LEMMA StopNext ==
    ASSUME ControlInv, SwapInv, StopInv, [Next]_vars
    PROVE  StopInv'
<1> SUFFICES ASSUME ReaderStops, \A p \in Peer : StopAt(p)
             PROVE  \A p \in Peer : StopAt(p)'
  BY DEF StopInv
<1>1. TypeInv /\ \A l \in Link, p \in Peer : wire[l][p] \in Seq(Frames)
  BY DEF ControlInv, TypeInv, Wires
<1>2. CASE \E p \in Peer : ControlAction(p)
  BY <1>2, ControlStops, Pairs
<1>3. CASE \E p \in Peer : ReadOld(p)
  BY <1>3, ReadOldStops, Pairs
<1>4. ASSUME NEW p \in Peer, ReadNew(p)
      PROVE  \A r \in Peer : StopAt(r)'
  <2> DEFINE f == Head(wire["new"][p])
  <2>1. ReadStep(p, "new") /\ reading' = reading
    BY <1>1, <1>4, ReadFacts, ReadingStep
  <2>2. /\ UNCHANGED <<end, broken, said, pc>> /\ wire["new"][p] # <<>>
        /\ \A r \in Peer : wire'["old"][r] = wire["old"][r]
        /\ inbox'[Other(p)] = inbox[Other(p)] /\ inbox[p] \in Seq(Commands)
        /\ inbox'[p] = inbox[p] \/ inbox'[p] = Append(inbox[p], f.kind)
    <3>1. "old" \in Link /\ "old" # "new" /\ inbox[p] \in Seq(Commands)
      BY <1>1, Pairs DEF TypeInv
    <3>2. \A r \in Peer : wire'["old"][r] = wire["old"][r]
      BY <2>1, <3>1 DEF ReadStep
    <3>3. inbox'[p] = inbox[p] \/ inbox'[p] = Append(inbox[p], f.kind)
      BY <2>1 DEF ReadStep
    <3> QED
      BY <2>1, <3>1, <3>2, <3>3 DEF ReadStep
  <2>3. f \in Frames /\ Holds(wire["new"][p], f.kind)
    BY <1>1, <2>2, TailFrame, Pairs
  <2>4. f.kind \in Commands /\ f.kind # "SAFE_TO_CLOSE"
    <3>1. ~Holds(wire["new"][p], "SAFE_TO_CLOSE")
      BY Pairs DEF ControlInv, WireInv
    <3>2. f.kind \in Commands
      BY <2>3 DEF Frames, Commands
    <3> QED
      BY <2>3, <3>1, <3>2
  <2> HIDE DEF f
  <2>5. Queued(inbox'[p], "SAFE_TO_CLOSE") => Queued(inbox[p], "SAFE_TO_CLOSE")
    <3>1. CASE inbox'[p] = Append(inbox[p], f.kind)
      BY <2>2, <2>4, <3>1, AppendCommand
    <3> QED
      BY <2>2, <3>1
  <2>6. \A r \in Peer : Queued(inbox'[r], "SAFE_TO_CLOSE") => Queued(inbox[r], "SAFE_TO_CLOSE")
    BY <2>2, <2>5, Pairs
  <2> QED
    BY <2>1, <2>2, <2>6 DEF StopAt, OldAlive
<1>5. ASSUME NEW p \in Peer, NEW l \in Link, WriteStep(p, l)
      PROVE  \A r \in Peer : StopAt(r)'
  <2>1. UNCHANGED <<end, broken, said, pc, reading, inbox>>
    BY <1>5 DEF WriteStep
  <2> SUFFICES ASSUME NEW r \in Peer
               PROVE  StopAt(r)'
    OBVIOUS
  <2> DEFINE o == wire["old"][r]
             x == Payload(Len(sent[p]) + 1)
  <2>2. wire'["old"][r] = o \/ wire'["old"][r] = Append(o, x)
    <3>1. CASE l = "old" /\ r = Other(p)
      BY <1>5, <3>1 DEF WriteStep
    <3>2. CASE ~(l = "old" /\ r = Other(p))
      BY <1>5, <3>2, Pairs DEF WriteStep
    <3> QED
      BY <3>1, <3>2
  <2>3. x \in Frames /\ x.kind = "PAYLOAD" /\ o \in Seq(Frames)
    <3>1. Len(sent[p]) + 1 \in Nat
      BY <1>1 DEF TypeInv
    <3> QED
      BY <1>1, <3>1, FrameFacts, Pairs
  <2> HIDE DEF x
  <2>4. (\A k : Holds(o, k) => Holds(Append(o, x), k)) /\ (SafeFirst(o) => SafeFirst(Append(o, x)))
    BY <2>3, AppendFrame, SafeFirstKeeps
  <2> HIDE DEF o
  <2>5. (\A k : Holds(o, k) => Holds(wire'["old"][r], k)) /\ SafeFirst(wire'["old"][r])
    BY <2>2, <2>4 DEF StopAt, o
  <2> QED
    BY <2>1, <2>5 DEF StopAt, OldAlive, o
<1>6. ASSUME NEW l \in Link, BreakStep(l)
      PROVE  \A r \in Peer : StopAt(r)'
  <2>1. UNCHANGED <<end, said, pc, reading, inbox>> /\ broken' = broken \cup {l}
    BY <1>6 DEF BreakStep
  <2>2. CASE l # "old"
    <3>1. \A r \in Peer : wire'["old"][r] = wire["old"][r]
      BY <1>6, <2>2, Pairs DEF BreakStep
    <3> QED
      BY <2>1, <2>2, <3>1 DEF StopAt, OldAlive
  <2>3. CASE l = "old"
    <3> SUFFICES ASSUME NEW r \in Peer
                 PROVE  StopAt(r)'
      OBVIOUS
    <3>1. PICK c \in 0..Len(wire["old"][r]) : wire'["old"][r] = SubSeq(wire["old"][r], 1, c)
      BY <1>6, <2>3 DEF BreakStep
    <3>2. SafeFirst(wire'["old"][r])
      BY <1>1, <3>1, PrefixFrame, SafeFirstKeeps, Pairs DEF StopAt
    <3> QED
      BY <2>1, <2>3, <3>2 DEF StopAt, OldAlive
  <2> QED
    BY <2>2, <2>3
<1>7. CASE UNCHANGED vars
  BY <1>7 DEF vars, swapVars, consumerVars, StopAt, OldAlive
<1> QED
  BY <1>1, <1>2, <1>3, <1>4, <1>5, <1>6, <1>7, Pairs, WriteFacts, BreakFacts DEF Next, ControlAction

\* What a step of p does to the introduction and the ends of the new link.
Introduces(p) ==
    /\ end[p]["new"] = "closed" => end'[p]["new"] = "closed"
    /\ p = Advertiser /\ Introducing' =>
          Introducing /\ (wire'["new"][p] = wire["new"][p] \/ end'[p]["new"] = "closed")
    /\ reg'[p] = "none" => \/ end'[p]["new"] \in {"absent", "closed"}
                           \/ reg[p] = "none" /\ end'[p]["new"] = end[p]["new"]
    /\ \/ end'[Other(p)]["new"] = end[Other(p)]["new"]
       \/ wire'["new"][Other(p)] = <<Frame("INTRODUCTION")>>

\* Every step of an owner or of the accept loop leaves the introduction to its reader.
LEMMA ControlIntroduces ==
    ASSUME ControlInv, NEW p \in Peer, ControlAction(p)
    PROVE  Introduces(p)
<1>1. /\ TypeInv /\ DialInv /\ RegAt(p) /\ wire \in Wires /\ end \in Ends
      /\ Other(p) \in Peer /\ Other(p) # p /\ "old" \in Link /\ "new" \in Link
      /\ Advertiser # Discoverer /\ (p = Advertiser \/ p = Discoverer)
  BY Pairs DEF ControlInv, TypeInv, RegInv
<1>2. ASSUME NEW k, Take(p, k)
      PROVE  /\ pc[p] = "idle" /\ Queued(inbox[p], k)
             /\ Queued(inbox'[p], "SOCKET") => Queued(inbox[p], "SOCKET")
  BY <1>1, <1>2, TakeFacts DEF TypeInv
<1>3. ASSUME \/ end'[p]["new"] = "closed"
             \/ /\ end'[p]["new"] = end[p]["new"] /\ (reg' = reg \/ end[p]["new"] = "absent")
                /\ wire'["new"][p] = wire["new"][p] \/ end[p]["new"] = "absent",
             end'[Other(p)]["new"] = end[Other(p)]["new"],
             Queued(inbox'[p], "SOCKET") => Queued(inbox[p], "SOCKET"),
             pc'[p] = "intro" => pc[p] = "intro" \/ Queued(inbox[p], "SOCKET")
      PROVE  Introduces(p)
  <2>1. p = Advertiser /\ Introducing' => Introducing
    BY <1>3 DEF Introducing
  <2>2. p = Advertiser /\ Introducing => end[p]["new"] # "absent"
    BY <1>1 DEF Introducing, DialInv
  <2> QED
    BY <1>3, <2>1, <2>2 DEF Introduces
<1>4. CASE p = Advertiser /\ (Offer \/ ResetUpgrade)
  <2>1. /\ UNCHANGED <<end, reg, pc, inbox>>
        /\ wire' = wire \/ wire' = Put(wire, p, "old", <<Frame("OFFER")>>)
    BY <1>4 DEF Offer, ResetUpgrade, swapVars
  <2>2. "OFFER" \in Kinds
    BY DEF Kinds
  <2>3. wire'["new"][p] = wire["new"][p]
    BY <1>1, <2>1, <2>2, PutFrame
  <2> QED
    BY <1>3, <2>1, <2>3
<1>5. CASE OnIncomingConnection(p) \/ OnUpgradeFailure(p) \/ Ignore(p) \/ GetUpgradedChannel(p)
  <2>1. /\ UNCHANGED <<end, reg, wire>>
        /\ pc' = pc \/ (pc' = [pc EXCEPT ![p] = "intro"] /\ Take(p, "SOCKET"))
        /\ inbox' = inbox \/ \E k : Take(p, k)
    BY <1>5 DEF OnIncomingConnection, OnUpgradeFailure, Ignore, GetUpgradedChannel, swapVars
  <2> QED
    BY <1>1, <1>2, <1>3, <2>1
<1>6. CASE OnLastWrite(p) \/ OnSafeToClose(p)
  <2>1. /\ reg' = reg /\ (pc' = pc \/ pc' = [pc EXCEPT ![p] = "drain"])
        /\ end' = end \/ end' = Closed(p, {"old"})
        /\ Take(p, "LAST_WRITE") \/ Take(p, "SAFE_TO_CLOSE")
        /\ \/ wire' = wire \/ wire' = Discard(wire, p, {"old"})
           \/ \E k \in {"SAFE_TO_CLOSE", "DISCONNECTION"} : wire' = Put(wire, p, "old", <<Frame(k)>>)
    BY <1>6 DEF OnLastWrite, OnSafeToClose
  <2>2. wire'["new"][p] = wire["new"][p]
    <3>1. "SAFE_TO_CLOSE" \in Kinds /\ "DISCONNECTION" \in Kinds
      BY DEF Kinds
    <3>2. CASE wire' = Discard(wire, p, {"old"})
      BY <1>1, <3>2, DiscardFacts
    <3>3. ASSUME NEW k \in {"SAFE_TO_CLOSE", "DISCONNECTION"}, wire' = Put(wire, p, "old", <<Frame(k)>>)
          PROVE  wire'["new"][p] = wire["new"][p]
      BY <1>1, <3>1, <3>3, PutFrame
    <3> QED
      BY <2>1, <3>2, <3>3
  <2>3. \A r \in Peer : end'[r]["new"] = end[r]["new"]
    BY <1>1, <2>1, ClosedFacts
  <2>4. pc'[p] # "intro"
    BY <1>1, <1>2, <2>1 DEF TypeInv
  <2> QED
    BY <1>1, <1>2, <1>3, <2>1, <2>2, <2>3, <2>4
<1>7. ASSUME NEW ls, end' = Closed(p, ls), wire' = Discard(wire, p, ls), reg' = reg \/ "new" \in ls,
             Queued(inbox'[p], "SOCKET") => Queued(inbox[p], "SOCKET"), pc'[p] # "intro"
      PROVE  Introduces(p)
  <2>1. \A r \in Peer, m \in Link :
           end'[r][m] = IF r = p /\ m \in ls /\ end[r][m] # "absent" THEN "closed" ELSE end[r][m]
    BY <1>1, <1>7, ClosedFacts
  <2>2. wire'["new"][p] = IF "new" \in ls THEN <<>> ELSE wire["new"][p]
    BY <1>1, <1>7, DiscardFacts
  <2> QED
    BY <1>1, <1>3, <1>7, <2>1, <2>2
<1>8. CASE DuplicateOffer(p)
  <2> DEFINE down == {reg[p]} \cup IF parked[p] THEN {"old"} ELSE {}
  <2>1. /\ Take(p, "OFFER") /\ end' = Closed(p, down) /\ wire' = Discard(wire, p, down)
        /\ reg' = reg /\ pc' = pc
    BY <1>8 DEF DuplicateOffer
  <2> HIDE DEF down
  <2> QED
    BY <1>2, <1>7, <2>1
<1>9. CASE Disconnect(p)
  <2>1. /\ end' = Closed(p, Link) /\ wire' = Discard(wire, p, Link)
        /\ inbox' = inbox /\ pc' = pc /\ pc[p] = "idle"
    BY <1>9 DEF Disconnect
  <2> QED
    BY <1>1, <1>7, <2>1
<1>10. ASSUME NEW down, down \subseteq {"new"}, reg[p] # "none",
              \A m \in down \cup {reg[p]} : end[p][m] # "absent",
              RunUpgradeFailedProtocol(p, down), reg' = reg,
              Queued(inbox'[p], "SOCKET") => Queued(inbox[p], "SOCKET"), pc'[p] # "intro"
       PROVE  Introduces(p)
  <2>1. PICK D : /\ D \subseteq {"new", reg[p]} /\ \A m \in D : end[p][m] # "absent"
                 /\ wire' \in Wires /\ end' \in Ends /\ busy' \in [Peer -> BOOLEAN]
                 /\ busy'[p] => busy[p]
                 /\ busy'[Other(p)] = busy[Other(p)]
                 /\ \A m \in Link : /\ end'[p][m] = IF m \in D THEN "closed" ELSE end[p][m]
                                    /\ wire'[m][p] = IF m \in D THEN <<>> ELSE wire[m][p]
                                    /\ end'[Other(p)][m] = end[Other(p)][m]
                 /\ \A m \in Link :
                       \/ wire'[m][Other(p)] = wire[m][Other(p)]
                       \/ /\ m = reg[p] /\ end[p][m] = "open" /\ m \notin broken
                          /\ end[Other(p)][m] # "closed"
                          /\ wire'[m][Other(p)] = Added(wire[m][Other(p)], "UPGRADE_FAILURE")
    BY <1>1, <1>10, FailedFacts
  <2> QED
    BY <1>1, <1>3, <1>10, <2>1
<1>11. CASE RefuseOffer(p)
  <2>1. /\ Take(p, "OFFER") /\ reg[p] # "none" /\ RunUpgradeFailedProtocol(p, {})
        /\ reg' = reg /\ pc' = pc
    BY <1>11 DEF RefuseOffer, swapVars
  <2>2. reg[p] \in {"old", "new"} /\ end[p][reg[p]] # "absent"
    BY <1>1, <2>1 DEF RegAt, TypeInv
  <2> QED
    BY <1>2, <1>10, <2>1, <2>2
<1>12. CASE JoinOffer(p)
  <2>1. /\ Take(p, "OFFER") /\ end[p]["new"] = "absent" /\ reg[p] # "none"
        /\ reg' = reg \/ reg' = [reg EXCEPT ![p] = "new"]
    BY <1>12 DEF JoinOffer, swapVars, RunUpgradeProtocol
  <2>2. p = Discoverer /\ reg'[p] # "none"
    BY <1>1, <1>2, <2>1 DEF DialInv, TypeInv
  <2>3. wire'["new"][Other(p)] = <<Frame("INTRODUCTION")>>
    <3> DEFINE fr == <<Frame("INTRODUCTION")>>
               w == [wire EXCEPT !["new"][Other(p)] = fr]
    <3>1. wire' = w \/ RunUpgradeProtocol(p, w)
      BY <1>12 DEF JoinOffer
    <3>2. fr \in Seq(Frames)
      BY FrameFacts DEF Kinds
    <3> HIDE DEF fr
    <3>3. w \in Wires /\ w["new"][Other(p)] = fr
      BY <1>1, <3>2 DEF Wires
    <3> HIDE DEF w
    <3>4. CASE RunUpgradeProtocol(p, w)
      <4>1. Swapped(p, w)
        BY <1>1, <3>3, <3>4, ProtocolFacts
      <4> QED
        BY <1>1, <3>3, <4>1 DEF Swapped, fr
    <3> QED
      BY <3>1, <3>3, <3>4 DEF fr
  <2> QED
    BY <1>1, <2>1, <2>2, <2>3 DEF Introduces
<1>13. CASE ReadAck(p)
  <2>1. /\ pc[p] = "ack" /\ pc'[p] = "idle" /\ inbox' = inbox
        /\ reg[p] = "old" /\ p = Discoverer /\ end[p]["new"] = "open"
    BY <1>1, <1>13 DEF ReadAck, RegAt, TypeInv
  <2>2. CASE end' = PauseNew(p) /\ reg' = [reg EXCEPT ![p] = "new"]
    BY <1>1, <2>1, <2>2 DEF PauseNew, Ends, TypeInv, Introduces
  <2>3. CASE RunUpgradeFailedProtocol(p, {"new"}) /\ reg' = reg
    <3>1. reg[p] # "none" /\ \A m \in {"new"} \cup {reg[p]} : end[p][m] # "absent"
      BY <1>1, <2>1 DEF RegAt
    <3> QED
      BY <1>10, <2>1, <2>3, <3>1
  <2> QED
    BY <1>13, <2>2, <2>3 DEF ReadAck, RunUpgradeProtocol, swapVars
<1>14. CASE Accept(p)
  <2>1. p = Advertiser /\ reg[p] = "old" /\ reg' = reg /\ pc' = pc /\ end[p]["new"] = "dialled"
    BY <1>1, <1>14 DEF Accept, DialInv, swapVars
  <2>2. CASE listening
    <3>1. end' = [end EXCEPT ![p]["new"] = "open"] /\ wire' = wire
      BY <1>14, <2>2 DEF Accept
    <3> QED
      BY <1>1, <2>1, <3>1 DEF Introduces, Introducing, Ends
  <2>3. CASE ~listening
    <3>1. end' = Closed(p, {"new"}) /\ wire' = Discard(wire, p, {"new"}) /\ inbox' = inbox
      BY <1>14, <2>3 DEF Accept
    <3>2. pc'[p] # "intro"
      BY <1>1, <2>1 DEF DialInv
    <3> QED
      BY <1>7, <2>1, <3>1, <3>2
  <2> QED
    BY <2>2, <2>3
<1>15. CASE ReadIntroduction(p)
  <2>1. pc[p] = "intro" /\ pc'[p] = "idle" /\ inbox' = inbox /\ p = Advertiser
    BY <1>1, <1>15 DEF ReadIntroduction, DialInv, TypeInv
  <2>2. ~Queued(inbox'[p], "SOCKET")
    BY <1>1, <2>1 DEF DialInv
  <2>3. CASE end' = PauseNew(p) /\ ~AtEof(p, "new") /\ reg' = [reg EXCEPT ![p] = "new"]
    <3>1. end[p]["new"] # "closed"
      BY <2>3 DEF AtEof
    <3>2. /\ end'[p]["new"] = "paused" /\ end'[Other(p)]["new"] = end[Other(p)]["new"]
          /\ reg'[p] = "new"
      BY <1>1, <2>3 DEF PauseNew, Ends, TypeInv
    <3> QED
      BY <2>1, <2>2, <3>1, <3>2 DEF Introduces, Introducing
  <2>4. CASE end' = Closed(p, {"new"}) /\ reg' = reg
    <3>1. end[p]["new"] # "absent"
      BY <1>1, <2>1 DEF DialInv
    <3>2. end'[p]["new"] = "closed" /\ end'[Other(p)]["new"] = end[Other(p)]["new"]
      BY <1>1, <2>4, <3>1, ClosedFacts
    <3> QED
      BY <2>1, <2>2, <3>2 DEF Introduces, Introducing
  <2> QED
    BY <1>15, <2>3, <2>4 DEF ReadIntroduction, RunUpgradeProtocol, swapVars
<1>16. CASE Drain(p)
  <2>1. /\ pc[p] = "drain" /\ reg[p] = "new" /\ end[p]["new"] = "paused"
        /\ end' = [Closed(p, {"old"}) EXCEPT ![p]["new"] = "open"]
        /\ wire' = Discard(wire, p, {"old"}) /\ pc' = [pc EXCEPT ![p] = "idle"]
        /\ inbox' = inbox /\ reg' = reg
    BY <1>1, <1>16 DEF Drain, FinishUpgrade, RegAt, swapVars
  <2>2. /\ end'[p]["new"] = "open" /\ end'[Other(p)]["new"] = end[Other(p)]["new"]
        /\ pc'[p] = "idle"
    <3>1. /\ Closed(p, {"old"}) \in Ends
          /\ Closed(p, {"old"})[Other(p)]["new"] = end[Other(p)]["new"]
      BY <1>1, ClosedFacts
    <3> DEFINE c == Closed(p, {"old"})
    <3> HIDE DEF c
    <3>2. c \in Ends /\ c[Other(p)]["new"] = end[Other(p)]["new"] /\ end' = [c EXCEPT ![p]["new"] = "open"]
      BY <2>1, <3>1 DEF c
    <3> QED
      BY <1>1, <2>1, <3>2 DEF Ends, TypeInv
  <2>3. wire'["new"][p] = wire["new"][p]
    BY <1>1, <2>1, DiscardFacts
  <2> QED
    BY <2>1, <2>2, <2>3 DEF Introduces, Introducing
<1> QED
  BY <1>4, <1>5, <1>6, <1>8, <1>9, <1>11, <1>12, <1>13, <1>14, <1>15, <1>16 DEF ControlAction, OwnerStep

\* Every step keeps IntroInv.
LEMMA IntroNext ==
    ASSUME ControlInv, IntroInv, [Next]_vars
    PROVE  IntroInv'
<1>1. /\ TypeInv /\ DialInv /\ RegAt(Advertiser) /\ "new" \in Link /\ "new" # "old"
      /\ \A l \in Link, p \in Peer : wire[l][p] \in Seq(Frames)
  BY Pairs DEF ControlInv, TypeInv, RegInv, Wires
<1>2. ASSUME NEW p \in Peer, ControlAction(p)
      PROVE  IntroInv'
  <2>1. Introduces(p) /\ Beside(p) /\ NewWire(p)
    BY <1>2, ControlIntroduces, ControlActionStep DEF ControlStep
  <2>2. broken' = broken
    BY <2>1 DEF Beside
  <2>3. \A r \in Peer : end[r]["new"] = "closed" => end'[r]["new"] = "closed"
    BY <2>1, Pairs DEF Introduces, Beside
  <2>4. CASE p = Advertiser
    BY <2>1, <2>2, <2>3, <2>4 DEF Introduces, IntroInv
  <2>5. CASE p = Discoverer
    <3>1. Other(p) = Advertiser
      BY <2>5, Pairs
    <3>2. /\ inbox'[Advertiser] = inbox[Advertiser] /\ pc'[Advertiser] = pc[Advertiser]
          /\ reg'[Advertiser] = reg[Advertiser]
          /\ end'[Advertiser]["new"] = end[Advertiser]["new"] \/ reg[Advertiser] = "old"
      BY <2>1, <3>1 DEF Beside
    <3>3. wire["new"][Advertiser] # <<>> => wire'["new"][Advertiser] # <<>>
      <4>1. \A s \in Seq(Frames), k \in {"UPGRADE_FAILURE", "INTRODUCTION_ACK"} : Added(s, k) # <<>>
        BY FrameFacts DEF Added, Kinds
      <4>2. wire["new"][Advertiser] \in Seq(Frames)
        BY <1>1, Pairs
      <4>3. <<Frame("INTRODUCTION")>> # <<>>
        OBVIOUS
      <4> QED
        BY <2>1, <3>1, <4>1, <4>2, <4>3 DEF NewWire
    <3>4. \/ end'[Advertiser]["new"] = end[Advertiser]["new"]
          \/ wire'["new"][Advertiser] # <<>>
      <4>1. <<Frame("INTRODUCTION")>> # <<>>
        OBVIOUS
      <4> QED
        BY <2>1, <3>1, <4>1 DEF Introduces
    <3> QED
      BY <2>2, <2>3, <3>2, <3>3, <3>4 DEF IntroInv, Introducing
  <2> QED
    BY <2>4, <2>5, Pairs
<1>3. ASSUME NEW p \in Peer, NEW l \in Link, ReadStep(p, l)
      PROVE  IntroInv'
  <2>1. UNCHANGED <<end, broken, reg, pc>>
    BY <1>3 DEF ReadStep
  <2>2. Queued(inbox'[Advertiser], "SOCKET") => Queued(inbox[Advertiser], "SOCKET")
    <3> DEFINE f == Head(wire[l][p])
    <3>1. /\ wire[l][p] # <<>> /\ inbox'[Other(p)] = inbox[Other(p)]
          /\ inbox'[p] = inbox[p] \/ inbox'[p] = Append(inbox[p], f.kind)
      BY <1>3 DEF ReadStep
    <3>2. f \in Frames
      BY <1>1, <3>1, TailFrame
    <3> HIDE DEF f
    <3>3. f.kind \in Commands /\ f.kind # "SOCKET" /\ inbox[p] \in Seq(Commands)
      BY <1>1, <3>2 DEF Frames, Kinds, Commands, TypeInv
    <3>4. CASE inbox'[p] = Append(inbox[p], f.kind)
      <4>1. Queued(inbox'[p], "SOCKET") => Queued(inbox[p], "SOCKET")
        BY <3>3, <3>4, AppendCommand
      <4> QED
        BY <3>1, <4>1, Pairs
    <3> QED
      BY <3>1, <3>4, Pairs
  <2>3. CASE l = "new" /\ p = Advertiser
    <3>1. reported[Advertiser] /\ end[Advertiser]["new"] # "closed"
      BY <1>3, <2>3 DEF ReadStep
    <3>2. ~Introducing
      BY <1>1, <3>1, Pairs DEF RegAt, TypeInv, DialInv, IntroInv, Introducing
    <3> QED
      BY <2>1, <2>2, <3>2 DEF IntroInv, Introducing
  <2>4. CASE ~(l = "new" /\ p = Advertiser)
    <3>1. wire'["new"][Advertiser] = wire["new"][Advertiser]
      BY <1>1, <1>3, <2>4, Pairs DEF ReadStep
    <3> QED
      BY <2>1, <2>2, <3>1 DEF IntroInv, Introducing
  <2> QED
    BY <2>3, <2>4
<1>4. ASSUME NEW p \in Peer, NEW l \in Link, WriteStep(p, l)
      PROVE  IntroInv'
  <2> DEFINE o == wire["new"][Advertiser]
             x == Payload(Len(sent[p]) + 1)
  <2>1. UNCHANGED <<end, broken, reg, pc, inbox>>
    BY <1>4 DEF WriteStep
  <2>2. wire'["new"][Advertiser] = o \/ wire'["new"][Advertiser] = Append(o, x)
    <3>1. CASE l = "new" /\ Advertiser = Other(p)
      BY <1>4, <3>1 DEF WriteStep
    <3>2. CASE ~(l = "new" /\ Advertiser = Other(p))
      BY <1>4, <3>2, Pairs DEF WriteStep
    <3> QED
      BY <3>1, <3>2
  <2>3. o \in Seq(Frames) /\ x \in Frames
    <3>1. Len(sent[p]) + 1 \in Nat
      BY <1>1 DEF TypeInv
    <3> QED
      BY <1>1, <3>1, FrameFacts, Pairs
  <2> HIDE DEF x
  <2>4. Append(o, x) # <<>>
    BY <2>3
  <2> QED
    BY <2>1, <2>2, <2>4 DEF IntroInv, Introducing
<1>5. ASSUME NEW l \in Link, BreakStep(l)
      PROVE  IntroInv'
  <2>1. UNCHANGED <<end, reg, pc, inbox>> /\ broken' = broken \cup {l}
    BY <1>5 DEF BreakStep
  <2>2. l = "new" \/ wire'["new"][Advertiser] = wire["new"][Advertiser]
    BY <1>1, <1>5, Pairs DEF BreakStep
  <2> QED
    BY <2>1, <2>2 DEF IntroInv, Introducing
<1>6. CASE UNCHANGED <<wire, end, broken, reg, pc, inbox>>
  BY <1>6 DEF IntroInv, Introducing
<1>7. CASE \E p \in Peer : ReadOld(p) /\ ~ReadStep(p, "old")
  BY <1>1, <1>6, <1>7, ReadFacts
<1>8. CASE UNCHANGED vars
  BY <1>6, <1>8 DEF vars, swapVars
<1> QED
  BY <1>1, <1>2, <1>3, <1>4, <1>5, <1>7, <1>8, NextCases

\* The owners never wait for each other in the reads inside their commands
\* (read_client_introduction_frame, its acknowledgement, and the drain read of
\* process_safe_to_close_prior_channel_event), for any number of offers, payloads and faults.
THEOREM NeverBothWaitSafe == Spec => []NeverBothWait
<1> DEFINE WInv == ControlInv /\ SwapInv /\ StopInv /\ IntroInv
<1>1. Init => WInv
  <2> SUFFICES ASSUME Init
               PROVE  StopInv /\ IntroInv
    BY InitInv
  <2>1. /\ \A p \in Peer : ~said[p] /\ inbox[p] = <<>> /\ pc[p] = "idle" /\ reg[p] = "old"
                           /\ end[p]["new"] = "absent" /\ wire["old"][p] = <<>> /\ Other(p) \in Peer
    BY Pairs DEF Init
  <2>2. \A k : ~Queued(<<>>, k)
    BY DEF Queued
  <2>3. SafeFirst(<<>>)
    BY DEF SafeFirst
  <2> QED
    BY <2>1, <2>2, <2>3, Pairs DEF StopInv, StopAt, IntroInv, Introducing
<1>2. WInv /\ [Next]_vars => WInv'
  BY NextInv, StopNext, IntroNext
<1>3. WInv => NeverBothWait
  <2> SUFFICES ASSUME WInv, ReaderStops, Waits(Advertiser), Waits(Discoverer)
               PROVE  FALSE
    BY Pairs DEF NeverBothWait
  <2>1. /\ pc[Advertiser] \in {"idle", "ack", "intro", "drain"} /\ pc[Advertiser] # "idle"
        /\ pc[Discoverer] \in {"idle", "ack", "intro", "drain"} /\ pc[Discoverer] # "idle"
        /\ Other(Advertiser) = Discoverer /\ Other(Discoverer) = Advertiser
        /\ RegAt(Advertiser) /\ RegAt(Discoverer) /\ SafeAt(Advertiser) /\ SafeAt(Discoverer)
        /\ StopAt(Discoverer) /\ DialInv /\ IntroInv /\ Advertiser # Discoverer
    BY Pairs DEF ControlInv, TypeInv, RegInv, SwapInv, StopInv, Waits
  <2>2. CASE pc[Advertiser] = "intro"
    BY <2>1, <2>2, Pairs DEF IntroInv, Introducing, Waits, AtEof
  <2>3. CASE pc[Advertiser] = "drain" /\ pc[Discoverer] = "ack"
    BY <2>1, <2>3 DEF SafeAt, Heard, RegAt
  <2>4. CASE pc[Advertiser] = "drain" /\ pc[Discoverer] = "drain"
    <3>1. wire["old"][Discoverer] = <<>> /\ OldAlive
      BY <2>1, <2>4 DEF Waits, AtEof, OldAlive, Peer
    <3>2. Holds(<<>>, "DISCONNECTION")
      BY <2>1, <2>4, <3>1 DEF StopAt, SafeAt, Heard
    <3> QED
      BY <3>2, EmptyWire
  <2> QED
    BY <2>1, <2>2, <2>3, <2>4 DEF RegAt, DialInv
<1> HIDE DEF WInv
<1> QED
  BY <1>1, <1>2, <1>3, PTL DEF Spec
=============================================================================
