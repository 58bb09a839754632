------------------------------ MODULE Handshake ------------------------------
(***************************************************************************)
(* The swap of one connection from its old channel to a new one, with both *)
(* devices running the code: the BwuManager of the advertiser, which       *)
(* offers the upgrade, and the one of the discoverer, which joins it       *)
(* (src/bwu/manager.rs), each inside its own single-owner actor, and the   *)
(* frames in flight between them on the two channels.                      *)
(*                                                                         *)
(* Each device has an owner, which takes commands off its queue one at a   *)
(* time and may wait inside one for a frame (`pc`); a consumer thread that *)
(* reads the old channel, hands negotiation frames to the owner and        *)
(* delivers payloads; a reader of the new channel, once the change of      *)
(* bandwidth is reported; and writers, which write on any channel they     *)
(* ever got from the owner (get_upgraded_channel), however stale.          *)
(*                                                                         *)
(* A channel is reliable and FIFO in each direction.  An end that closes   *)
(* leaves what it wrote readable and discards what comes to it; a broken   *)
(* channel loses what is in flight and refuses writes.                     *)
(***************************************************************************)
EXTENDS Naturals, Sequences, FiniteSets, Functions

CONSTANTS
    Advertiser, Discoverer,   \* the two devices
    MaxSend,                  \* bound: payloads the two devices write
    MaxOffers,                \* bound: upgrades offered
    MaxFaults,                \* bound: kinds of disturbance (reset, disconnect, break)
    ReaderStops               \* the old channel's reader stops at SAFE_TO_CLOSE

Peer == {Advertiser, Discoverer}
Other(p) == IF p = Advertiser THEN Discoverer ELSE Advertiser
Link == {"old", "new"}

ASSUME HandshakeAssumption ==
    /\ Advertiser # Discoverer
    /\ MaxSend \in Nat /\ MaxOffers \in Nat
    /\ MaxFaults \in Nat /\ ReaderStops \in BOOLEAN

VARIABLES
    wire,      \* [link][peer]: the frames in flight to that peer
    end,       \* [peer][link]: "absent", "dialled", "open", "paused" or "closed"
    broken,    \* the links that broke
    reg,       \* the link registered for the connection, "none" once disconnected
    parked,    \* previous_endpoint_channels holds the old channel
    busy,      \* in_progress_upgrades
    latch,     \* successfully_upgraded_endpoints
    pc,        \* the owner: "idle", or the read it waits in
    inbox,     \* commands queued for the owner
    asksAck,   \* the offers say supports_client_introduction_ack
    offers,    \* offers made so far
    listening, \* the advertiser's medium stands
    reading,   \* the consumer still reads the old channel
    handles,   \* the links the consumer's writers hold
    reported,  \* on_bandwidth_changed was called
    said,      \* SAFE_TO_CLOSE was written
    sent, got, \* payloads written and delivered, as in Conversation
    faults     \* what has happened to disturb the swap

swapVars     == <<reg, parked, latch, said>>
offerVars    == <<asksAck, offers, listening>>
consumerVars == <<reading, handles, sent, got>>
vars == <<wire, end, broken, swapVars, busy, pc, reported, inbox, offerVars,
          consumerVars, faults>>

-------------------------------------------------------------------------------
(* Channels *)

Payload(n) == [kind |-> "PAYLOAD", n |-> n]
Frame(k) == [kind |-> k, n |-> 0]

\* A write by p on link l succeeds; on a paused end it waits, else it fails.
Writable(p, l) == end[p][l] = "open" /\ l \notin broken

\* w after p has written frames fs on link l; a closed far end discards them.
Put(w, p, l, fs) ==
    IF end[Other(p)][l] = "closed" THEN w ELSE [w EXCEPT ![l][Other(p)] = @ \o fs]

\* w after p has closed its end of the links ls.
Discard(w, p, ls) ==
    [l \in Link |-> IF l \in ls THEN [w[l] EXCEPT ![p] = <<>>] ELSE w[l]]

Closed(p, ls) ==
    [end EXCEPT ![p] = [l \in Link |-> IF l \in ls /\ @[l] # "absent" THEN "closed" ELSE @[l]]]

\* A read by p on link l would end without a frame.
AtEof(p, l) ==
    \/ end[p][l] = "closed"
    \/ wire[l][p] = <<>> /\ (l \in broken \/ end[Other(p)][l] = "closed")

\* A disturbance of kind f happens.
Disturb(f) ==
    /\ Cardinality((faults \cup {f}) \ {"duplicate"}) <= MaxFaults
    /\ faults' = faults \cup {f}

-------------------------------------------------------------------------------
(* The offer *)

\* initiate_bwu_for_endpoint, also as the retry alarm calls it.  When the offer cannot
\* be written the medium is given up again.
Offer ==
    /\ pc[Advertiser] = "idle" /\ offers < MaxOffers
    /\ ~busy[Advertiser] /\ reg[Advertiser] = "old"
    /\ offers' = offers + 1
    /\ listening' = Writable(Advertiser, "old")
    /\ busy' = [busy EXCEPT ![Advertiser] = listening']
    /\ wire' = IF listening' THEN Put(wire, Advertiser, "old", <<Frame("OFFER")>>) ELSE wire
    /\ UNCHANGED <<end, broken, swapVars, pc, reported, inbox, asksAck, consumerVars, faults>>

\* reset_upgrade_for_endpoint: the medium stays.
ResetUpgrade ==
    /\ pc[Advertiser] = "idle" /\ busy[Advertiser]
    /\ busy' = [busy EXCEPT ![Advertiser] = FALSE]
    /\ Disturb("reset")
    /\ UNCHANGED <<wire, end, broken, swapVars, pc, reported, inbox, offerVars, consumerVars>>

-------------------------------------------------------------------------------
(* run_upgrade_protocol, run_upgrade_failed_protocol *)

\* The new channel is not paused.
MutPauseForgotten(p) == [end EXCEPT ![p]["new"] = "open"]

\* EndpointChannel::pause of the new channel.
PauseNew(p) == [end EXCEPT ![p]["new"] = "paused"]

\* A LAST_WRITE that came early is forgotten.
MutLatchNotReplayed(p, w) ==
    /\ reg' = [reg EXCEPT ![p] = "new"]
    /\ IF Writable(p, "old")
       THEN /\ parked' = [parked EXCEPT ![p] = TRUE]
            /\ wire' = Put(w, p, "old", <<Frame("LAST_WRITE")>>)
            /\ UNCHANGED <<latch, said>>
       ELSE wire' = w /\ UNCHANGED <<parked, latch, said>>

\* Pause the new channel, swap it in, write LAST_WRITE on the old one and park that; a
\* LAST_WRITE that came early is answered.  w is the wire as the command left it so far.
RunUpgradeProtocol(p, w) ==
    /\ reg' = [reg EXCEPT ![p] = "new"]
    /\ IF Writable(p, "old")
       THEN /\ parked' = [parked EXCEPT ![p] = TRUE]
            /\ latch' = [latch EXCEPT ![p] = FALSE]
            /\ said' = [said EXCEPT ![p] = @ \/ latch[p]]
            /\ wire' = Put(w, p, "old", IF latch[p] THEN <<Frame("LAST_WRITE"), Frame("SAFE_TO_CLOSE")>>
                                        ELSE <<Frame("LAST_WRITE")>>)
       ELSE wire' = w /\ UNCHANGED <<parked, latch, said>>

\* Tell the advertiser; if that fails, close the connection's channel.  The links `down`
\* were closed by the command before.
RunUpgradeFailedProtocol(p, down) ==
    IF Writable(p, reg[p])
    THEN /\ wire' = Put(Discard(wire, p, down), p, reg[p], <<Frame("UPGRADE_FAILURE")>>)
         /\ end' = Closed(p, down)
         /\ busy' = [busy EXCEPT ![p] = FALSE]
    ELSE /\ wire' = Discard(wire, p, down \cup {reg[p]})
         /\ end' = Closed(p, down \cup {reg[p]})
         /\ UNCHANGED busy
-------------------------------------------------------------------------------
(* The owners' commands *)

\* The owner of p takes a command of kind k off its queue.
Take(p, k) ==
    /\ pc[p] = "idle" /\ inbox[p] # <<>> /\ Head(inbox[p]) = k
    /\ inbox' = [inbox EXCEPT ![p] = Tail(@)]

\* UPGRADE_PATH_AVAILABLE while an upgrade runs: out of sync, close everything.
DuplicateOffer(p) ==
    /\ Take(p, "OFFER") /\ busy[p] /\ reg[p] # "none"
    /\ LET down == {reg[p]} \cup IF parked[p] THEN {"old"} ELSE {}
       IN  end' = Closed(p, down) /\ wire' = Discard(wire, p, down)
    /\ parked' = [parked EXCEPT ![p] = FALSE]
    /\ faults' = faults \cup {"duplicate"}
    /\ UNCHANGED <<broken, reg, latch, said, busy, pc, reported, offerVars, consumerVars>>

\* UPGRADE_PATH_AVAILABLE whose medium cannot be joined.
RefuseOffer(p) ==
    /\ Take(p, "OFFER") /\ ~busy[p] /\ reg[p] # "none"
    /\ RunUpgradeFailedProtocol(p, {})
    /\ UNCHANGED <<broken, swapVars, pc, reported, offerVars, consumerVars, faults>>

\* UPGRADE_PATH_AVAILABLE: dial and introduce ourselves; wait for the acknowledgement if
\* the offer promises one.  One new link exists, so one dial succeeds.
JoinOffer(p) ==
    /\ Take(p, "OFFER") /\ ~busy[p] /\ reg[p] # "none"
    /\ listening /\ end[p]["new"] = "absent"
    /\ LET w == [wire EXCEPT !["new"][Other(p)] = <<Frame("INTRODUCTION")>>]
       IN  IF asksAck
           THEN /\ end' = [end EXCEPT ![p]["new"] = "open", ![Other(p)]["new"] = "dialled"]
                /\ pc' = [pc EXCEPT ![p] = "ack"]
                /\ wire' = w
                /\ UNCHANGED <<busy, swapVars>>
           ELSE /\ end' = [PauseNew(p) EXCEPT ![Other(p)]["new"] = "dialled"]
                /\ busy' = [busy EXCEPT ![p] = TRUE]
                /\ RunUpgradeProtocol(p, w)
                /\ UNCHANGED pc
    /\ UNCHANGED <<broken, reported, offerVars, consumerVars, faults>>

\* read_client_introduction_ack_frame returns.
ReadAck(p) ==
    /\ pc[p] = "ack"
    /\ pc' = [pc EXCEPT ![p] = "idle"]
    /\ \/ /\ ~AtEof(p, "new") /\ wire["new"][p] # <<>>
          /\ end' = PauseNew(p)
          /\ busy' = [busy EXCEPT ![p] = TRUE]
          /\ RunUpgradeProtocol(p, [wire EXCEPT !["new"][p] = Tail(@)])
       \/ /\ AtEof(p, "new")
          /\ RunUpgradeFailedProtocol(p, {"new"})
          /\ UNCHANGED swapVars
    /\ UNCHANGED <<broken, inbox, reported, offerVars, consumerVars, faults>>

\* The accept loop takes the dialled socket and posts it, or is gone and it is closed.
Accept(p) ==
    /\ end[p]["new"] = "dialled"
    /\ IF listening
       THEN /\ end' = [end EXCEPT ![p]["new"] = "open"]
            /\ inbox' = [inbox EXCEPT ![p] = Append(@, "SOCKET")]
            /\ UNCHANGED wire
       ELSE /\ end' = Closed(p, {"new"})
            /\ wire' = Discard(wire, p, {"new"})
            /\ UNCHANGED inbox
    /\ UNCHANGED <<broken, swapVars, busy, pc, reported, offerVars, consumerVars, faults>>

\* on_incoming_connection, up to the read of the introduction.
OnIncomingConnection(p) ==
    /\ Take(p, "SOCKET")
    /\ pc' = [pc EXCEPT ![p] = "intro"]
    /\ UNCHANGED <<wire, end, broken, swapVars, busy, reported, offerVars, consumerVars, faults>>

\* read_client_introduction_frame returns: acknowledge, and swap if an upgrade is running;
\* otherwise the channel is closed or dropped.
ReadIntroduction(p) ==
    /\ pc[p] = "intro"
    /\ pc' = [pc EXCEPT ![p] = "idle"]
    /\ \/ /\ ~AtEof(p, "new") /\ wire["new"][p] # <<>>
          /\ Writable(p, "new") /\ busy[p]
          /\ end' = PauseNew(p)
          /\ RunUpgradeProtocol(p, Put([wire EXCEPT !["new"][p] = Tail(@)], p, "new",
                                       <<Frame("INTRODUCTION_ACK")>>))
       \/ /\ ~AtEof(p, "new") /\ wire["new"][p] # <<>>
          /\ ~(Writable(p, "new") /\ busy[p])
          /\ end' = Closed(p, {"new"})
          /\ wire' = LET w == Discard(wire, p, {"new"})
                     IN  IF Writable(p, "new") THEN Put(w, p, "new", <<Frame("INTRODUCTION_ACK")>>) ELSE w
          /\ UNCHANGED swapVars
       \/ /\ AtEof(p, "new")
          /\ end' = Closed(p, {"new"})
          /\ wire' = Discard(wire, p, {"new"})
          /\ UNCHANGED swapVars
    /\ UNCHANGED <<broken, busy, inbox, reported, offerVars, consumerVars, faults>>

\* A LAST_WRITE is answered although nothing is parked.
MutAnswersUnparked(p) ==
    /\ Take(p, "LAST_WRITE") /\ busy[p] /\ Writable(p, "old")
    /\ wire' = Put(wire, p, "old", <<Frame("SAFE_TO_CLOSE")>>)
    /\ said' = [said EXCEPT ![p] = TRUE]
    /\ UNCHANGED <<end, parked, latch, broken, reg, busy, pc, reported, offerVars, consumerVars,
                   faults>>

\* LAST_WRITE_TO_PRIOR_CHANNEL: answer on the parked channel, or latch it.
OnLastWrite(p) ==
    /\ Take(p, "LAST_WRITE") /\ busy[p]
    /\ \/ /\ ~parked[p]
          /\ latch' = [latch EXCEPT ![p] = TRUE]
          /\ UNCHANGED <<wire, end, parked, said>>
       \/ /\ parked[p] /\ Writable(p, "old")
          /\ wire' = Put(wire, p, "old", <<Frame("SAFE_TO_CLOSE")>>)
          /\ said' = [said EXCEPT ![p] = TRUE]
          /\ UNCHANGED <<end, parked, latch>>
       \/ /\ parked[p] /\ ~Writable(p, "old")
          /\ end' = Closed(p, {"old"})
          /\ wire' = Discard(wire, p, {"old"})
          /\ parked' = [parked EXCEPT ![p] = FALSE]
          /\ UNCHANGED <<latch, said>>
    /\ UNCHANGED <<broken, reg, busy, pc, reported, offerVars, consumerVars, faults>>

\* DISCONNECTION is not sent.
MutNoDisconnection(p) ==
    /\ Take(p, "SAFE_TO_CLOSE") /\ busy[p] /\ parked[p]
    /\ parked' = [parked EXCEPT ![p] = FALSE]
    /\ pc' = [pc EXCEPT ![p] = "drain"]
    /\ UNCHANGED <<wire, end, broken, reg, latch, said, busy, reported, offerVars, consumerVars, faults>>

\* SAFE_TO_CLOSE_PRIOR_CHANNEL, up to the drain read: DISCONNECTION is written as well as
\* it goes.
OnSafeToClose(p) ==
    /\ Take(p, "SAFE_TO_CLOSE") /\ busy[p] /\ parked[p]
    /\ parked' = [parked EXCEPT ![p] = FALSE]
    /\ wire' = IF Writable(p, "old") THEN Put(wire, p, "old", <<Frame("DISCONNECTION")>>) ELSE wire
    /\ pc' = [pc EXCEPT ![p] = "drain"]
    /\ UNCHANGED <<end, broken, reg, latch, said, busy, reported, offerVars, consumerVars, faults>>

\* Close the old channel, resume the new one and report it.
FinishUpgrade(p) ==
    /\ wire' = Discard(wire, p, {"old"})
    /\ end' = [Closed(p, {"old"}) EXCEPT ![p][reg[p]] = "open"]
    /\ reported' = [reported EXCEPT ![p] = TRUE]
    /\ busy' = [busy EXCEPT ![p] = FALSE]
    /\ pc' = [pc EXCEPT ![p] = "idle"]

\* The old channel is closed without the drain read.
MutNoDrain(p) ==
    /\ pc[p] = "drain"
    /\ FinishUpgrade(p)
    /\ UNCHANGED <<broken, swapVars, inbox, offerVars, consumerVars, faults>>

\* The drain read returns, with whatever frame is next or at the end of the stream.
Drain(p) ==
    /\ pc[p] = "drain"
    /\ AtEof(p, "old") \/ wire["old"][p] # <<>>
    /\ FinishUpgrade(p)
    /\ UNCHANGED <<broken, swapVars, inbox, offerVars, consumerVars, faults>>

\* UPGRADE_FAILURE: the upgrade is over and its medium reverted.
OnUpgradeFailure(p) ==
    /\ Take(p, "UPGRADE_FAILURE") /\ reg[p] # "none"
    /\ busy' = [busy EXCEPT ![p] = FALSE]
    /\ listening' = FALSE
    /\ UNCHANGED <<wire, end, broken, swapVars, pc, reported, asksAck, offers, consumerVars, faults>>

\* Frames the manager drops: of an endpoint that is no longer connected, of the swap when
\* no upgrade is running or nothing is parked, and acknowledgements nobody waits for.
Ignore(p) ==
    /\ \/ Take(p, "INTRODUCTION_ACK")
       \/ reg[p] = "none" /\ (Take(p, "OFFER") \/ Take(p, "UPGRADE_FAILURE"))
       \/ ~busy[p] /\ Take(p, "LAST_WRITE")
       \/ ~(busy[p] /\ parked[p]) /\ Take(p, "SAFE_TO_CLOSE")
    /\ UNCHANGED <<wire, end, broken, swapVars, busy, pc, reported, offerVars, consumerVars, faults>>
-------------------------------------------------------------------------------
(* The consumers (external): readers, writer, disconnect *)

\* The consumer hands p's negotiation frame f to the owner, or delivers a payload.
Consume(p, f) ==
    IF f.kind = "PAYLOAD"
    THEN got' = [got EXCEPT ![Other(p)] = Append(@, f.n)] /\ UNCHANGED inbox
    ELSE inbox' = [inbox EXCEPT ![p] = Append(@, f.kind)] /\ UNCHANGED got

\* The reader of the old channel goes on to its end, to DISCONNECTION or, if it leaves
\* the rest to the owner's drain read, to SAFE_TO_CLOSE.
ReadOld(p) ==
    /\ reading[p]
    /\ \/ /\ AtEof(p, "old")
          /\ reading' = [reading EXCEPT ![p] = FALSE]
          /\ UNCHANGED <<wire, got, inbox>>
       \/ /\ ~AtEof(p, "old") /\ wire["old"][p] # <<>>
          /\ wire' = [wire EXCEPT !["old"][p] = Tail(@)]
          /\ LET f == Head(wire["old"][p])
             IN  IF f.kind = "DISCONNECTION"
                 THEN reading' = [reading EXCEPT ![p] = FALSE] /\ UNCHANGED <<got, inbox>>
                 ELSE /\ Consume(p, f)
                      /\ reading' = [reading EXCEPT ![p] = ~(ReaderStops /\ f.kind = "SAFE_TO_CLOSE")]
    /\ UNCHANGED <<end, broken, swapVars, busy, pc, reported, offerVars, handles, sent, faults>>

\* The reader of the upgraded channel, from the report of the change on.
ReadNew(p) ==
    /\ reported[p] /\ ~AtEof(p, "new") /\ wire["new"][p] # <<>>
    /\ wire' = [wire EXCEPT !["new"][p] = Tail(@)]
    /\ Consume(p, Head(wire["new"][p]))
    /\ UNCHANGED <<end, broken, swapVars, busy, pc, reported, offerVars, reading, handles, sent, faults>>

\* get_upgraded_channel: the owner answers between two commands.
GetUpgradedChannel(p) ==
    /\ pc[p] = "idle" /\ reg[p] \notin handles[p] \cup {"none"}
    /\ handles' = [handles EXCEPT ![p] = @ \cup {reg[p]}]
    /\ UNCHANGED <<wire, end, broken, swapVars, busy, pc, reported, inbox, offerVars,
                   reading, sent, got, faults>>

\* A writer writes the next payload on a channel l that it holds.
WritePayload(p, l) ==
    /\ Len(sent[Advertiser]) + Len(sent[Discoverer]) < MaxSend /\ l \in handles[p] /\ Writable(p, l)
    /\ sent' = [sent EXCEPT ![p] = Append(@, ~(l = "old" /\ said[p]))]
    /\ wire' = Put(wire, p, l, <<Payload(Len(sent[p]) + 1)>>)
    /\ UNCHANGED <<end, broken, swapVars, busy, pc, reported, inbox, offerVars, reading, handles,
                   got, faults>>

\* Unregister, on_endpoint_disconnect, on_disconnected, and the consumer drops its channels.
Disconnect(p) ==
    /\ pc[p] = "idle" /\ reg[p] # "none"
    /\ reg' = [reg EXCEPT ![p] = "none"]
    /\ end' = Closed(p, Link) /\ wire' = Discard(wire, p, Link)
    /\ parked' = [parked EXCEPT ![p] = FALSE] /\ latch' = [latch EXCEPT ![p] = FALSE]
    /\ busy' = [busy EXCEPT ![p] = FALSE]
    /\ listening' = (listening /\ p # Advertiser)
    /\ Disturb("disconnect")
    /\ UNCHANGED <<broken, said, pc, reported, inbox, asksAck, offers, consumerVars>>

\* Link l breaks (external): of what is in flight a prefix arrives.
Break(l) ==
    /\ l \notin broken /\ \A p \in Peer : end[p][l] # "absent"
    /\ broken' = broken \cup {l}
    /\ \E i \in 0..Len(wire[l][Advertiser]), j \in 0..Len(wire[l][Discoverer]) :
          wire' = [wire EXCEPT ![l][Advertiser] = SubSeq(@, 1, i),
                               ![l][Discoverer] = SubSeq(@, 1, j)]
    /\ Disturb("break")
    /\ UNCHANGED <<end, swapVars, busy, pc, reported, inbox, offerVars, consumerVars>>

-------------------------------------------------------------------------------
Init ==
    /\ wire = [l \in Link |-> [p \in Peer |-> <<>>]]
    /\ end = [p \in Peer |-> [l \in Link |-> IF l = "old" THEN "open" ELSE "absent"]]
    /\ broken = {} /\ faults = {}
    /\ reg = [p \in Peer |-> "old"] /\ handles = [p \in Peer |-> {"old"}]
    /\ parked = [p \in Peer |-> FALSE] /\ latch = [p \in Peer |-> FALSE]
    /\ said = [p \in Peer |-> FALSE] /\ busy = [p \in Peer |-> FALSE]
    /\ pc = [p \in Peer |-> "idle"] /\ inbox = [p \in Peer |-> <<>>]
    /\ reported = [p \in Peer |-> FALSE] /\ reading = [p \in Peer |-> TRUE]
    /\ asksAck \in BOOLEAN /\ offers = 0 /\ listening = FALSE
    /\ sent = [p \in Peer |-> <<>>] /\ got = [p \in Peer |-> <<>>]

OwnerStep(p) ==
    \/ DuplicateOffer(p) \/ RefuseOffer(p) \/ JoinOffer(p) \/ ReadAck(p)
    \/ OnIncomingConnection(p) \/ ReadIntroduction(p)
    \/ OnLastWrite(p) \/ OnSafeToClose(p) \/ Drain(p) \/ OnUpgradeFailure(p) \/ Ignore(p)

Next ==
    \/ Offer \/ ResetUpgrade
    \/ \E p \in Peer :
          \/ OwnerStep(p) \/ Accept(p) \/ ReadOld(p) \/ ReadNew(p)
          \/ GetUpgradedChannel(p) \/ Disconnect(p)
    \/ \E p \in Peer, l \in Link : WritePayload(p, l)
    \/ \E l \in Link : Break(l)

Spec == Init /\ [][Next]_vars

\* The owners, the accept loop and the readers run on.  No offer, write, query or
\* disconnect need ever be made.
FairSpec ==
    /\ Spec
    /\ \A p \in Peer : /\ WF_vars(OwnerStep(p)) /\ WF_vars(Accept(p))
                       /\ WF_vars(ReadOld(p)) /\ WF_vars(ReadNew(p))
-------------------------------------------------------------------------------
(* Properties *)

\* The swap keeps the promise made to the consumers: to them it is a conversation.
Conv == INSTANCE Conversation WITH cut <- faults # {}
KeepsConversation == Conv!Spec

\* "A best-effort drain Read so the peer can receive our SAFE_TO_CLOSE, then close"
\* (process_safe_to_close_prior_channel_event): a device that closes its old channel
\* leaves nothing unread there that the other one needs, unless the drain read met a
\* late payload of the other's instead of its DISCONNECTION.
HeardBeforeClosed ==
    \A p \in Peer : reported[p] /\ "old" \notin broken /\ FALSE \notin Range(sent[Other(p)]) =>
        \A i \in DOMAIN wire["old"][Other(p)] :
            LET f == wire["old"][Other(p)][i]
            IN  f.kind = "DISCONNECTION" \/ (f.kind = "PAYLOAD" /\ ~sent[p][f.n])

\* Neither device finishes the upgrade while the other still has the old channel
\* registered, whatever is reset, offered again, refused, disconnected or broken.
SwapsTogether ==
    \A p \in Peer : reported[p] => reg[Other(p)] # "old"

\* The read that the owner of p waits in does not return as things are.
Waits(p) ==
    LET l == IF pc[p] = "drain" THEN "old" ELSE "new"
    IN  pc[p] # "idle" /\ wire[l][p] = <<>> /\ ~AtEof(p, l)

\* The owners never wait for each other: of the reads inside a command, which have no
\* timeout (read_client_introduction_frame and its acknowledgement, the drain read of
\* process_safe_to_close_prior_channel_event), one can always return, whatever is reset,
\* disconnected or broken, if the consumers leave what follows SAFE_TO_CLOSE to the owner.
NeverBothWait == ReaderStops => ~ \A p \in Peer : Waits(p)

\* Once the new channel is dialled both devices finish, unless something disturbs them.
UpgradeConverges ==
    (end[Discoverer]["new"] # "absent") ~> (faults # {} \/ \A p \in Peer : reported[p])

\* The owner's reads inside a command (introduction, acknowledgement, drain), which have
\* no timeout, all return against a peer that runs this code and does not reset its
\* upgrade in between.
OwnerReturns ==
    \A p \in Peer : (pc[p] # "idle") ~> (pc[p] = "idle" \/ "reset" \in faults)
=============================================================================
