# TLA+ models of nearby-rs

nearby-rs is a Rust port of the bandwidth-upgrade (BWU) part of Nearby
Connections: two devices that are connected over a slow medium (Bluetooth) agree
on a faster one (a shared WLAN, or a hotspot one of them opens), connect over it,
and move the conversation to the new channel without losing, duplicating or
reordering anything. This directory holds TLA+ modules of that machinery, TLC
configurations for small instances, and TLAPS proofs for every instance.

Paths below are relative to the repository's `src/` directory unless they start
with `tests/`.

## 1. The system

| Component | State | Operations |
|---|---|---|
| `BwuManager` (`bwu/manager.rs`) | upgrade medium per endpoint (or one for all), upgrades in progress, parked old channels, latched early `LAST_WRITE`s, retry alarms and backoff delays | initiate, reset, negotiation frames, incoming sockets, retry fired, disconnect, shutdown |
| `EndpointChannelManager` (`bwu/channel_manager.rs`) | the channel of each endpoint | register, replace, unregister |
| `ClientProxy` (`bwu/client.rs`) | connection phase, role, preference list per endpoint; reported changes | connection events, `set_upgrade_mediums` |
| `BwuActor`, `BwuHandle` (`bwu/actor.rs`) | bounded command channel, armed timers | one owner task runs every command; a biased `select` fires due retries first |
| `StreamChannel`, `Pipe` (`bwu/stream_channel.rs`) | pause and close flags, cipher, reader and writer locks, byte stream | write, read, pause, resume, close, enable and disable encryption, from any thread |
| TCP listener (`bwu/tcp.rs`) | a thread per listener, a stop flag | start, accept loop, stop and join |
| `BaseBwuHandler` (`bwu/handler.rs`) | endpoints tracked under each wrapped service id | initialize, revert for one endpoint, revert all |
| `WifiHotspotBwuHandler`, `WifiLanBwuHandler` | listener (and access point) per service id | set up, join, revert, disconnect |
| `OfflineFrames`, validator (`frames.rs`, `validator.rs`) | none | build, decode and validate frames |

How they meet. Callers hold a `BwuHandle` and send commands to the owner; queries
carry a reply channel. The owner runs `BwuManager`, which calls the registry, the
handlers and the channels. A handler's listener thread posts each accepted socket
on the owner's own command channel through a *connection sink*. Channels are
shared: the consumer's threads write and read them while the owner pauses,
resumes, reads (to drain) and closes them.

The upgrade itself. The initiator sets a medium up and sends
`UPGRADE_PATH_AVAILABLE`; the responder joins, dials and introduces itself; both
then pause the new channel, swap it into the registry, write `LAST_WRITE` on the
old one and park that. A `LAST_WRITE` is answered by `SAFE_TO_CLOSE`, and
`SAFE_TO_CLOSE` closes the old channel and resumes the new one. The two channels share one
sequence-numbered cipher, so nothing may be written on the new channel before the
old one is drained.

What is hard about it: any frame may arrive at any time, twice or not at all
(`LAST_WRITE` before the receiver has parked anything, a failure after an
unregistration, a second offer); any write may fail in the middle of a command;
one medium serves several endpoints; retries race with upgrades that start in
another way; a listener thread and the owner wait for each other; the pause,
close and lock protocol of a channel is exercised from many threads. PROJECT.json
lists these hazards at their lines.

What makes each part correct, in one line each: the manager never lets two
channels of an endpoint carry payloads at once and leaves nothing behind; the
channel keeps frames whole and in cipher order and loses no wake-up; timers match
pending retries and always come; every call through a handle returns; a medium is
up exactly while somebody needs it; two devices that run the swap keep their
conversation whole and end it together; a frame is accepted if it can be used, and
means to the receiver what the sender put in.

## 2. The modules

Each component module has an `...MC` module, which declares model values for the
configurations, and a `...Proofs` module. Names that start with `Mut` are mutated forms
of the definition that follows them: each breaks the property it is paired with in
PROJECT.json.

### BwuManager

The state machine of `manager.rs` with the registry, the client record and the
channel states it drives. An action is one command of the owner, to its last call.

* A channel is an identity with a state (`chan`): unused, accepted by a listener
  and not yet handed over, open, paused or closed; `prior` remembers which channel
  it displaced. A write on an open channel may succeed or fail, on a closed one it
  fails, on a paused one it does not return, and the owner is `blocked` for good:
  nobody else resumes channels.
* `initiate` -> failure -> try next -> `initiate` is one chain of calls in the
  code. `TryNextBest` describes it without recursion by where it stops, given what
  each medium would do now (`out`): no offer, offer not written, sent, or blocked.
* Everything outside is free: any frame of a connected endpoint at any time, any
  socket with any introduction, any failure. Frames that do not decode change
  nothing and are left out.
* The consumer tears a connection down in the order of `tests/bwu_manager.rs`
  (lines 582-583): unregister, `on_endpoint_disconnect`, then the client forgets
  it. Frames and sockets may come in between.
* `active` is the handlers' tracking per medium; its split by service id is
  HotspotHandler's subject.
* Channels nobody references are closed when their last `Arc` is dropped; the
  model marks the ones the manager drops as closed.

Assumptions (`ConstantsAssumption`): preference lists do not repeat a medium (with a
repeated one the failover would re-enter itself without end), the initial retry
delay is positive and not above the maximum, handlers are for known mediums.

### StreamChannel

`write`, `read`, `pause`, `resume`, `do_close` and the encryption switches of one
channel over a `Pipe`. A step is one critical section: what happens under one
mutex. A frame is two items of the stream, length and payload, and a payload
carries the cipher's counter. `try_decrypt` is left out, payloads are not empty,
and a read's refusal of an over-long length is left out because `write` never
sends one. A cipher error may or may not consume a counter.

### RetryTimers

`reconcile_timers`, `fire_due_retries` and the biased `select`, with time as the
time left of each timer. The manager is reduced to the delays it has pending; that
a rescheduled delay is never shorter than the one before is proved in
BwuManagerProofs (`AlarmSafe`, `BackoffMonotone`) and is a guard here. `age` is the
time since the manager scheduled the retry.

### CommandQueue

Callers, the bounded command channel, the accept loop and the owner. Of a command
only this is kept: a query is answered, a shutdown stops the actor after reverting
every handler, any other may start or stop the listener. A command, a posted socket and a
retry may also wait inside the owner (`Wait`): in the read of an introduction, of its
acknowledgement or of what is left on the old channel (`manager.rs:966`, 610), or in a
write on a paused channel (560). `GoOn` ends the wait, if ever. What such a command does
afterwards is a `Retry` that follows at once. Stopping a listener is two steps (raise the
flag; the join returns), so the accept loop can be anywhere when it happens.

### HotspotHandler

`BaseBwuHandler` around `WifiHotspotBwuHandler`, called as `BwuManager` calls them
with `support_multiple_bwu_mediums`. A service id is a pair of a service and a mark
for the `_UPGRADE` postfix. The `SoftAp` is external: access points that are up and
whether we have joined one. The failure outcomes of every step (the access point
does not start, the listener is not bound, the offer is not written, the join or
the dial fails, the failure cannot be reported) are inputs of the actions. The `Drop` of a
handler, which stops what still stands when the actor itself goes, is left out.

### Conversation and Handshake

BwuManager looks at one device and leaves the other free. Handshake puts two of them
together: the advertiser that offers, the discoverer that joins, and the frames in
flight on the old and the new channel in both directions.

* Each device has an owner with a queue (`inbox`), which may wait *inside* a command:
  `pc` is the read it waits in, of the introduction, of its acknowledgement, or the
  drain of the old channel. A command is one action up to its blocking read and one
  from there on.
* A channel end is open, paused or closed; a write on an open end succeeds unless the
  link is broken, and is discarded if the far end is closed. An end that closes leaves what it wrote
  readable, as a socket and a `Pipe` do.
* The consumer is external: a reader of the old channel that hands frames to the
  owner, a reader of the new one once the change is reported, and writers that use any
  channel they ever got, however stale. `ReaderStops` says whether the old channel's
  reader leaves what follows `SAFE_TO_CLOSE` to the owner's drain read, which is how
  `tests/wifi_lan_actor.rs` (lines 71 and 96) reads.
* Faults: a reset, a disconnect of either device, a link that breaks and delivers a
  prefix of what is in flight; a second offer while an upgrade runs is a fault the
  protocol brings about by itself after a reset.
* Only what matters to the swap is kept of the manager: one medium, one new channel,
  no backoff (an offer may be made again while the bound allows).

`Conversation` is what the two consumers are promised: each direction is a FIFO, and
unless a fault cuts it, what was sent arrives. A payload is not *sure* if it was written
on the old channel after its sender had sent `SAFE_TO_CLOSE`; only such a payload may be skipped.
`KeepsConversation` is the refinement: `sent` and `got` are the abstract variables
themselves and `cut` is `faults # {}`.

### OfflineFrames, FrameValidator, FrameExchange

`OfflineFrames` has the builders and conversions of `frames.rs`, `FrameValidator` the
checks of `validator.rs`, one operator per function. A message is a function on the
fields that are present; an enumeration is on the wire as its number, which the reader
may not know; a string is its length, a name the set of illegal patterns in it, an
address in text the sequence of its parts. Fields nothing in the crate reads back (nonce, bssid, os_info...) are left out.

`FrameExchange` sends these frames from one device to another. A device with a list of
upgrade mediums runs the failover of `manager.rs`: it offers the first one left, the
remote validates the offer and dials what its handler reads there or sends the path
back, and the medium read from *that* decides what is left. What has a handler in what
is left is kept as positions (`Available`, `Earliest`), since a list may name a medium
twice: what follows the first is then tried again and again and the upgrade is never put
off, which is why BwuManager, where the chain is one step, assumes it away. The connection's own medium
is taken to be none of the list and not WLAN; those special cases are BwuManager's. A
device with an empty list sends one other frame: a connection request, a frame of the
handshake, a payload with any of its fields left out, or a frame of a newer
implementation.

`meant` is what the sender had in mind, stated apart from the validator: whether a radio
can use an offer's credentials (`RadioUsable`: names of up to 32 octets, passphrases of 8 to
63, PINs of 4 or 8 digits), and of a payload frame whether it comes from a sender that cuts
a payload up properly (`Genuine`) or has no place in it (`Stray`). Some frames are neither.
The name of a file or folder is the set of what occurs in it, `"up"` for a component that is
just `..`.

## 3. The runs

All runs but the fair ones check safety. Deadlock is not checked: a system whose actor has shut
down, whose channels are all closed or whose bound is used up has stopped.

| Run | Shows |
|---|---|
| `swap` | one connection from its start with the one global upgrade medium, two mediums, three channels, so a second upgrade on top of the first (Bluetooth, WLAN, hotspot) is reached: payloads never interleave, the parked channel always belongs to the registered one, the latch is consumed once, changes are reported by the step that ends the swap, and the owner waits in a write only while a swap is unfinished |
| `multi` | two advertiser-side endpoints on one shared medium: neither's failure stops the other's listener; disconnects leave nothing behind; a retry excludes its running upgrade; the backoff is consistent, capped, and grows |
| `wedge` (violated) | finding 1 |
| `channel_locks` | two writers with two calls each and two readers: frames whole on the stream and off it, payloads in cipher order, no lost wake-up |
| `channel_live` | fair threads, one reader: decoding in order, writes return, a close ends reads |
| `timers_live` | two endpoints, delays up to 3: timers are the pending retries, never late, always come, always served |
| `queue_calls` | two callers and a queue of two, with and without a sink: unless a command waits for ever, calls return, each waiting caller's query is in the queue and none is left at a stopped actor, no accept loop outlives the actor, dropped handles stop it |
| `queue_join` (violated) | finding 2 |
| `hotspot_shared` | two endpoints, two services, one endpoint on each side: a hotspot stands exactly while an endpoint is tracked for it, and falls with the last |
| `hotspot_leftover` (violated) | finding 3 |
| `handshake` | both devices and the frames between them, with one kind of fault: the swap refines `Conversation`; a device closes the old channel only when the other has heard all it needs from it; neither finishes while the other still uses the old channel; the two owners never wait for each other; once dialled, both finish; every blocking read of an owner returns |
| `frames` | frames at the edges of every length, port and size: a dialled address is listened on, only unusable offers and Wi-Fi Direct names of 32 octets are lost, failover leaves no medium out and keeps the order, genuine payload frames are taken and stray ones refused, requests read back with their role, and no frame of the handshake is refused or mistaken |

Bounds. Three channel objects are what a two-stage upgrade needs: the base
channel, its successor and that one's. In the two-endpoint runs they
are two base channels and one upgrade socket for which both compete; those runs
start from two established connections (`ConnectedInit`), the state the first
three actions of `swap` lead to, to spare the set-up. `MaxDelay` 2 reaches the
cap of the backoff. Delays up to 3 let a timer be rescheduled with a longer delay
while it runs. A queue of two reaches "full" with one command waiting behind
another; the join deadlock needs only one place. In `handshake` two offers allow a
repeated one, one kind of fault (of any number of occurrences) shows each alone, and two
payloads, in one direction or one in each, fall before, during and after the swap; a second new channel is `wedge`'s subject. `frames` takes lengths, ports
and sizes on both sides of each comparison, and lists in which every medium with a
builder comes first, in the middle or last, and one that names a medium twice. Several endpoints on the one global medium
are no run: the theorems of section 4 hold for both settings of
`support_multiple_bwu_mediums`. Channel and thread identities
are symmetric; symmetry is used only where safety alone is checked.

Fairness. RetryTimers: time passes and the runtime polls an elapsed timer (weak).
StreamChannel: a thread inside a call goes on (weak); no call need be made.
CommandQueue: the owner and the accept loop run on; senders and the receiver are
strongly fair, because tokio's channel serves waiting senders in order, and
because retries, spaced by their delays, cannot keep the owner from its queue for
ever. `GoOn` is not fair, because none of the waits inside a command has a timeout:
`CallsReturn` excuses calls behind finding 2 and calls behind a command that waits for ever
(finding 1, or a peer that is silent at `manager.rs:610` or 966), `DroppedHandlesStop` the latter.
The runs of RetryTimers take it that commands return.
Handshake: owners, accept loop and readers run on (weak); no offer, write, query or
disconnect need be made. `OwnerReturns` excuses resets (see section 5). The readers are
the consumer's: the crate has no reader of its own, and an upgrade whose frames nobody
hands to the owner does not move.

## 4. What is proved

Every safety property that a passing run checks, and the type invariants of BwuManager
and CommandQueue, for every number of endpoints, channels, threads, callers and services:

* **BwuManagerProofs.** `TypeCorrect`. Then `SwapInvariant`, for
  `NoInterleavedChannels`, `ParkedUnderItsSuccessor`, `LatchConsumedByParking` and
  `DiscardedIsClean`. None is inductive alone: resuming a channel is safe because
  it is the one that displaced the parked channel (`ParkedUnderItsSuccessor`), which
  needs that no channel is registered or parked twice (`ReferencesDistinct`), that a
  fresh channel is unknown to the manager (`FreshUnreferenced`), and that a
  channel is registered only while the connection is up (`RegisteredIsUp`).
  `ReportsOnlyTheSwap` is an action property from the same invariant.
  `BlockSafe` (from `BlockInv`: a registered channel that is paused displaced another)
  says how far finding 1 reaches: only between an endpoint's `LAST_WRITE` and its
  `SAFE_TO_CLOSE` can a write of the owner not return.
  `RetryInvariant` carries `AlarmIsLatestBackoff` (with the cap of the delay), `AdvertiserRetryExclusive` and
  `RunningUpgradeIsListening`; `BackoffMonotone` follows from its step lemma.
  What the failover chain may do is stated once, in lemmas about `TryNextBest`.
* **StreamChannelProofs.** `WakeupSafe`, and `FramesSafe` from `FrameInv`: a writer
  past the gate holds the lock (`LockInv`), what it prepared is a payload (`OutInv`),
  and a stream that ends in a length is waiting for that very writer's payload or
  has been closed (`TailInv`). `ReadsSafe` adds the readers' side, `WholeInv`: lengths
  and payloads alternate, the stream starts with a length unless a reader has
  taken that (`HeadInv`), and a length whose payload is still to be written is the last
  item or in a reader's hands (`PendingInv`). `CipherOrderSafe` needs that a writer's
  encoded payload was numbered after everything on the stream (`CipherInv`), and
  `DecodesSafe`, for one reader as the code intends, that what was taken comes before
  all that is left (`DecodeInv`).
* **RetryTimersProofs.** `TimersSafe` and `NeverLateSafe`, by mutual induction.
* **CommandQueueProofs.** `QueueTyped` (the bound of the channel), `StoppedSafe`, and
  `WaitersSafe`: a caller that waits for an answer has exactly one query in the queue, and
  none waits at a stopped actor. The lemmas are about the queue: what putting a command in,
  taking the first and dropping all of them do to the queries in it.
* **HotspotHandlerProofs.** `MediumSafe`, `ShutdownSafe` and `OthersSafe`, from
  `HandlerInv`, which adds that nobody is tracked after a shutdown.
* **HandshakeProofs.** `SwapsTogetherSafe` and `HeardSafe`, for any number of payloads,
  offers and faults and both kinds of reader. `SwapsTogether` is far from inductive: that
  a device has finished says something of the other only through the frames that
  were exchanged. `LastWriteAt` follows one `LAST_WRITE` from the wire to the queue, the
  latch and its answer, each of which implies that its writer has swapped; `SafeAt` does
  the same for `SAFE_TO_CLOSE` up to the drain read, and says that whatever follows it on
  the wire is late. Both rest on `ControlInv`: what a device's registration says of its
  two ends (`RegAt`), that the new link is dialled once (`DialInv`), and which frames
  each wire may hold (`WireInv`). The steps of the owners and of the accept loop are first
  shown to be `ControlStep`s, one lemma per action, so that the invariants are shown to
  be kept once and not once per action. `NeverBothWaitSafe`: the reads of `manager.rs:610`
  and 966 have no timeout, and yet the two owners are never both in one that nothing can end.
  Two drains cannot hold each other up because a device writes `DISCONNECTION` before it
  drains, behind its own `SAFE_TO_CLOSE`, at which the other's reader has stopped, so that it
  is left for the drain there (`StopInv`); a
  drain and the wait for an acknowledgement exclude each other by `SafeAt`; and while the
  advertiser waits for the introduction it is there to be read, or the read ends because the
  link is broken or closed (`IntroInv`). TLC checked both invariants first, with three kinds
  of faults.
* **ConversationProofs.** `KeepsConversationSafe`: Handshake implements the safety part
  of `Conversation`, step by step: a write is a `Send`, a payload read is a
  `Deliver`, everything else a stutter or the `Cut`. That a delivery skips no sure payload
  needs `OrderAt`: the payloads in flight on the old link come before those on the new
  one; a sure payload before one in flight on the old link is in flight there too; and
  once `SAFE_TO_CLOSE` is on its way every sure payload before one on the new link is in
  flight on one of the two. TLC checked each of these invariants first, on two payloads,
  two offers and three kinds of faults.
* **FrameExchangeProofs.** `OfferReachesSafe`, `OnlyUnusableLostSafe`,
  `ControlFramesSafe`, `RequestsSafe` and `PayloadsSafe`, for any preference lists,
  handlers, ports, credential lengths, payload sizes and offsets, all from `FramesInv`.
  None of the properties is inductive: each speaks of the step that receives a frame,
  and what it needs is a fact about the step that built it. So `SentInv` says of the
  frame in flight that it reads back, and is judged, as what was meant (`SoundFrame`), and
  that the verdict is that of `FromBytes` on the frame as sent; `ChainInv` says of an
  offer that whatever may be dialled from it is listened on (`OfferSound`) and that the
  validator accepts it when usable, and of a refusal that it is accepted. The lemmas follow
  the frame: the numbers of the enumerations read back, each builder's fields are the ones
  the validator and the handlers look at, the offers of each medium and the sends of
  each kind are sound, and the address a handler writes in text parses to itself. TLC
  checked `SentInv` and `ChainInv` first, on the instance of the run `frames`.
  `FailoverSafe` needs `OrderInv` (`OrderSafe`): there is a place `p` of the list such that
  the mediums tried are those with a handler up to `p`, the rest follows `p`, and the offer or refusal
  in flight names the medium at `p` (`Reached`); or the list names a medium twice and
  failover goes round before the second of the two (`Loops`). `Earliest` exists in
  a list of any length by `LeastElement`, which takes the place of an induction over the
  list.

Only model-checked, because fairness is out of the prover's reach: `WritesReturn`,
`CloseEndsReads`, `DeadlineComes`, `DueIsServed`, `CallsReturn`, `DroppedHandlesStop`,
`UpgradeConverges`, `OwnerReturns`, and of `KeepsConversation` the part that sure payloads
do arrive. No theorem is about a `RECURSIVE` operator or needs induction over data.

## 5. Findings

1. `wedge`: a second socket introduced for an upgrade whose channel is already
   swapped in makes the owner write `LAST_WRITE` on that paused channel, which only
   the owner could resume.
2. `queue_join`: the owner joins an accept loop that waits for room in the owner's
   own queue (`tcp.rs:154` against `actor.rs:298`).
3. `hotspot_leftover`: an `UPGRADE_FAILURE` between an endpoint's unregistration and
   its disconnect reverts under the unknown service id; the hotspot stays up until
   shutdown. The same property fails with `Incoming = {}` too: if the dial fails
   after the join, the revert never leaves the hotspot.

Behaviours seen while modelling that no run is spent on:

* `initiate_bwu_for_endpoint` overwrites the upgrade medium before it finds that an
  upgrade is running (`manager.rs:209`; `tests/bwu_manager.rs:534` calls the second
  initiate ignored): `[][\A e \in inProgress \cap inProgress' : bwuMedium'[e] = bwuMedium[e]]_vars` fails.
* The responder's upgrade starts without cancelling a pending retry
  (`manager.rs:411`, against the comment at 522): `previous[e] # None => alarm[e] = 0`
  holds for advertisers only.
* A retry cancelled and scheduled again in one command keeps the older deadline and
  fires early (`actor.rs:550`): `\A e \in Due : age[e] >= pending[e]` fails.
* `pause` after `close` parks later writers, and a second close returns early
  (`stream_channel.rs:258`): `closed => wpc[w] # "parked"` fails.
* If `LAST_WRITE` cannot be written on the old channel, the new one is already swapped
  in: the old one is neither parked nor closed, the new one stays paused and the upgrade
  in progress (`manager.rs:560`, against `channel_manager.rs:54`, "The BWU state machine,
  not unregister, closes the displaced channel"):
  `prior[c] # None => chan[prior[c]] = "closed" \/ \E e \in Endpoint : previous[e] = prior[c]` fails.
* If the consumer's readers go on after `SAFE_TO_CLOSE`, each may take the other's
  `DISCONNECTION`, and both owners wait in the drain read (`manager.rs:610`) for ever:
  with `ReaderStops = FALSE` and no fault at all `OwnerReturns` fails, and so does
  `~ \A p \in Peer : Waits(p)`, which `NeverBothWait` claims for readers that stop.
* The introduction is acknowledged before it is known whether an upgrade still runs
  (`manager.rs:503` and 515): after a reset the discoverer swaps onto a channel the
  advertiser drops, or is left waiting in its drain read.
* `BLE_L2CAP` has no number in a path and `WEB_RTC_NON_CELLULAR` is offered as `WEB_RTC`
  (`frames.rs:710`, `testing.rs:192`), so an `UPGRADE_FAILURE` for them drops the whole
  list and not "everything up to and including the medium we last attempted"
  (`manager.rs:692`): without its excuse for these two `FailoverTriesAll` fails. With `WEB_RTC` before
  `WEB_RTC_NON_CELLULAR` in one list, a failure of the second is read as one of the first,
  and the second is tried again and again.
* The validator accepts a WLAN offer with address candidates alone, which the handler
  does not dial (`validator.rs:224`, `wifi_lan.rs:128`), and a hotspot's port 0 (or none), which
  nobody listens on; both end in an `UPGRADE_FAILURE`.
* The validator refuses a Wi-Fi Direct SSID or device name of exactly 32 octets, because
  it compares with `WIFI_DIRECT_SSID_MAX_LENGTH = 32` by `<` (`validator.rs:249` and 261): the
  offer is lost without an answer. `outcome = "lost" => ~meant.usable` fails, and
  `OnlyUnusableOffersLost` excuses exactly this length.
* Of a payload chunk only the start is compared with the size (`validator.rs:105`), so that a
  body may run past the end; a file called `..` and a folder `/` are accepted, and a folder
  such as `a..b` is refused. `PayloadFramesJudged` leaves these frames open.
* A late `UPGRADE_FAILURE` between `on_endpoint_disconnect` and the client's forgetting the
  endpoint schedules a retry again (`manager.rs:663` after 864): an alarm and a backoff are
  left for a reconnect under the same id to inherit. `DiscardedIsClean` speaks of upgrades, parked channels and
  latches only, and `AlarmIsLatestBackoff` holds of such an alarm.
* With a connection sink the actor never ends by dropped handles, because the
  handler it owns holds a sender (`actor.rs:296`).

## 6. Not modelled, and the plan

* The byte encoding of frames (prost), the text of names beyond the patterns that are
  looked for, and the fields nothing reads.
* `TcpDuplexStream`, the `SoftAp`, and the `Drop` of handlers: I/O of the platform.
* `try_decrypt`, the accessors, the `local_accepted` and `remote_accepted` marks, and
  the recording fakes: no operation of the upgrade reads them.
* A socket that stays silent: the reads of `manager.rs:610` and `966` have no timeout
  (the code marks it as open work), so nothing can be shown against such a peer.
* Two devices with several endpoints each, and a third one that dials in: BwuManager has
  the endpoints, Handshake the two devices; their product is out of TLC's reach.

Every safety property that the passing runs check has a proof; the liveness properties named
at the end of section 4 have none. What is left of the plan is outside the prover's and
TLC's reach, as said there and above.
