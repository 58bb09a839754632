---------------------------- MODULE CommandQueue ----------------------------
(***************************************************************************)
(* How the threads of nearby-rs meet: callers drive the actor through      *)
(* BwuHandle, which sends on a bounded channel (src/bwu/actor.rs); the     *)
(* accept loop of a medium's listener posts sockets on the same channel    *)
(* with blocking_send (connection_sink); the owner takes one command at a  *)
(* time, and while one stops a listener it joins that loop's thread        *)
(* (src/bwu/tcp.rs).                                                       *)
(*                                                                         *)
(* Of a command only this is kept: a query is answered, Shutdown stops the *)
(* actor, any other may start or stop the listener (initiate, failure,     *)
(* disconnect, revert) or wait for the remote, as a posted socket may too. *)
(* What a command does after that is left to Retry, which may do the same  *)
(* and may follow at once.                                                 *)
(***************************************************************************)
EXTENDS Naturals, Sequences

CONSTANTS
    Caller,   \* tasks that hold a BwuHandle
    Buffer    \* command_buffer, at least 1

ASSUME QueueAssumption == Buffer \in Nat \ {0}

VARIABLES
    queue,      \* the channel: commands [kind, from]
    caller,     \* "idle", "fire", "query" or "shutdown" (sending), "asked", "dropped"
    owner,      \* "select", "waiting" (inside a command), "joining", "stopping" (joining
                \* in a shutdown), "stopped"
    listener,   \* the accept loop: "down", "accept", "sink" or "exited"; "none" if no
                \* handler was given a connection_sink, which holds a sender of its own
    stop        \* the listener's stop flag

vars == <<queue, caller, owner, listener, stop>>

Kinds == {"fire", "query", "shutdown"}

\* A listener is registered, though its loop may have ended.
Standing == listener \in {"accept", "sink", "exited"}

Commands == [kind : Kinds \cup {"socket"}, from : Caller]

-------------------------------------------------------------------------------
(* BwuHandle *)

Call(c, kind) ==
    /\ caller[c] = "idle"
    /\ caller' = [caller EXCEPT ![c] = kind]
    /\ UNCHANGED <<queue, owner, listener, stop>>

\* tx.send: waits for room; an error (the actor stopped) is a no-op, and no answer.
Send(c) ==
    /\ caller[c] \in Kinds
    /\ \/ /\ owner = "stopped"
          /\ caller' = [caller EXCEPT ![c] = "idle"]
          /\ UNCHANGED queue
       \/ /\ owner # "stopped" /\ Len(queue) < Buffer
          /\ queue' = Append(queue, [kind |-> caller[c], from |-> c])
          /\ caller' = [caller EXCEPT ![c] = IF @ = "query" THEN "asked" ELSE "idle"]
    /\ UNCHANGED <<owner, listener, stop>>

DropHandle(c) ==
    /\ caller[c] = "idle"
    /\ caller' = [caller EXCEPT ![c] = "dropped"]
    /\ UNCHANGED <<queue, owner, listener, stop>>

-------------------------------------------------------------------------------
(* The accept loop *)

\* A socket arrives and is wrapped for the sink.
Accept ==
    /\ listener = "accept" /\ ~stop
    /\ listener' = "sink"
    /\ UNCHANGED <<queue, caller, owner, stop>>

\* blocking_send in the sink; the error of a stopped owner's channel is ignored.
Post(c) ==
    /\ listener = "sink"
    /\ owner = "stopped" \/ Len(queue) < Buffer
    /\ queue' = IF owner = "stopped" THEN queue
                ELSE Append(queue, [kind |-> "socket", from |-> c])
    /\ listener' = "accept"
    /\ UNCHANGED <<caller, owner, stop>>

\* The throwaway connection of stop_listener, or any other, finds the flag set.
ExitLoop ==
    /\ listener = "accept" /\ stop
    /\ listener' = "exited"
    /\ UNCHANGED <<queue, caller, owner, stop>>

\* accept fails: the loop ends, the listener is still registered.
AcceptError ==
    /\ listener = "accept"
    /\ listener' = "exited"
    /\ UNCHANGED <<queue, caller, owner, stop>>

-------------------------------------------------------------------------------
(* The owner *)

\* The listener's thread is left to itself.
MutStopWithoutJoin(next) ==
    /\ stop' = TRUE
    /\ owner' = IF next = "stopping" THEN "stopped" ELSE "select"
    /\ UNCHANGED listener

\* stop_listener: raise the flag, then join the thread.
StopListener(next) ==
    /\ stop' = TRUE
    /\ owner' = next
    /\ UNCHANGED listener

\* The reply senders in the queue live on.
MutStopKeepsQueue == UNCHANGED <<queue, caller>>

\* The receiver is dropped with what it holds: callers that wait for an answer get None.
DropReceiver ==
    /\ queue' = <<>>
    /\ caller' = [c \in Caller |-> IF caller[c] = "asked" THEN "idle" ELSE caller[c]]

\* The operation sets the medium up, or reverts it.
StartOrStop ==
    \/ /\ listener = "down"
       /\ listener' = "accept" /\ stop' = FALSE
       /\ UNCHANGED owner
    \/ /\ Standing
       /\ StopListener("joining")

\* The operation waits in a read: of the introduction, its acknowledgement or what is left
\* on the old channel; or in a write on a paused channel.
Wait ==
    /\ owner' = "waiting"
    /\ UNCHANGED <<listener, stop>>

\* run: one command.
Receive ==
    /\ owner = "select" /\ queue # <<>>
    /\ LET cmd == Head(queue) IN
       \/ \* Shutdown with no listener standing.
          /\ cmd.kind = "shutdown" /\ ~Standing
          /\ owner' = "stopped"
          /\ DropReceiver
          /\ UNCHANGED <<listener, stop>>
       \/ \* Shutdown reverts every handler first.
          /\ cmd.kind = "shutdown" /\ Standing
          /\ StopListener("stopping")
          /\ queue' = Tail(queue)
          /\ UNCHANGED caller
       \/ \* A query is answered.
          /\ cmd.kind = "query"
          /\ queue' = Tail(queue)
          /\ caller' = [caller EXCEPT ![cmd.from] = "idle"]
          /\ UNCHANGED <<owner, listener, stop>>
       \/ \* Any other command, or a socket.
          /\ cmd.kind \in {"fire", "socket"}
          /\ queue' = Tail(queue)
          /\ \/ UNCHANGED <<owner, listener, stop>>
             \/ Wait
             \/ cmd.kind = "fire" /\ StartOrStop
          /\ UNCHANGED caller

\* A retry fires between two commands.
Retry ==
    /\ owner = "select"
    /\ StartOrStop \/ Wait
    /\ UNCHANGED <<queue, caller>>

\* What the owner waits for comes, or its channel is closed.  It need not.
GoOn ==
    /\ owner = "waiting"
    /\ owner' = "select"
    /\ UNCHANGED <<queue, caller, listener, stop>>

\* join returns.
Joined ==
    /\ owner \in {"joining", "stopping"} /\ listener = "exited"
    /\ listener' = "down"
    /\ stop' = FALSE
    /\ IF owner = "stopping" THEN owner' = "stopped" /\ DropReceiver
       ELSE owner' = "select" /\ UNCHANGED <<queue, caller>>

\* The actor keeps a handle of its own.
MutOwnHandle == FALSE /\ UNCHANGED vars

\* recv gives None once no sender is left; a sink is one.
AllDropped ==
    /\ owner = "select" /\ queue = <<>>
    /\ listener = "none" /\ \A c \in Caller : caller[c] = "dropped"
    /\ owner' = "stopped"
    /\ DropReceiver
    /\ UNCHANGED <<listener, stop>>

Init ==
    /\ queue = <<>>
    /\ caller = [c \in Caller |-> "idle"]
    /\ owner = "select"
    /\ listener \in {"none", "down"}
    /\ stop = FALSE

AcceptLoop == (\E c \in Caller : Post(c)) \/ ExitLoop

Next ==
    \/ \E c \in Caller : Send(c) \/ DropHandle(c) \/ \E kind \in Kinds : Call(c, kind)
    \/ Accept \/ AcceptError \/ AcceptLoop
    \/ Receive \/ Retry \/ GoOn \/ Joined \/ AllDropped

Spec == Init /\ [][Next]_vars

\* The owner runs on, and since retries are spaced by their delays it always comes
\* back to the queue, unless a command waits; no wait need end (GoOn is not fair).  The
\* accept loop runs on; the channel's semaphore is first come, first served, so a waiting
\* sender is not passed over for ever.  Nobody need call.
FairSpec ==
    /\ Spec
    /\ SF_vars(Receive) /\ SF_vars(AllDropped) /\ WF_vars(Joined)
    /\ \A c \in Caller : SF_vars(Send(c))
    /\ SF_vars(AcceptLoop)

-------------------------------------------------------------------------------
(* Properties *)

\* Every variable keeps its type.
TypeOK ==
    /\ queue \in Seq(Commands) /\ Len(queue) <= Buffer
    /\ caller \in [Caller -> Kinds \cup {"idle", "asked", "dropped"}]
    /\ owner \in {"select", "waiting", "joining", "stopping", "stopped"}
    /\ listener \in {"none", "down", "accept", "sink", "exited"}
    /\ stop \in BOOLEAN

\* The owner joins an accept loop that waits for the owner to make room.
Wedged == owner \in {"joining", "stopping"} /\ listener = "sink" /\ Len(queue) = Buffer

\* Every call through the handle returns, answered or not, around shutdowns, full
\* queues, listener restarts and commands that wait for a while, unless the owner is caught
\* joining a blocked sink or never comes back from the wait inside one command.
CallsReturn ==
    \A c \in Caller :
        (caller[c] \in Kinds \cup {"asked"})
            ~> (caller[c] = "idle" \/ Wedged \/ [](owner = "waiting"))

\* A stopped actor has no accept loop left that would take sockets for nobody.
StoppedHasNoListener == owner = "stopped" => ~Standing

\* The places of the queries in the queue, and the callers that wait for an answer.
Queries == {i \in DOMAIN queue : queue[i].kind = "query"}
Waiting == {c \in Caller : caller[c] = "asked"}

\* The callers that wait for an answer (BwuHandle::query) are those of the
\* queries in the queue, each with one, and a stopped actor holds none: no query is left
\* unanswered by a shutdown it raced, and no answer comes to a caller that has moved on.
WaitersHaveQueries ==
    /\ Waiting = {queue[i].from : i \in Queries}
    /\ \A i, j \in Queries : queue[i].from = queue[j].from => i = j
    /\ owner = "stopped" => queue = <<>>

\* "Stop a listener: signal the loop, unblock its blocking accept() with a throwaway
\* connection, and join the thread" (stop_listener): stopping a listener ends.
StopListenerReturns == (owner \in {"joining", "stopping"}) ~> (owner \in {"select", "stopped"})

\* "Runs the actor until BwuCommand::Shutdown or until every BwuHandle is dropped" (run):
\* so it does as long as no handler holds a sink and no command waits for ever.
DroppedHandlesStop ==
    (listener = "none" /\ \A c \in Caller : caller[c] = "dropped")
        ~> (owner = "stopped" \/ [](owner = "waiting"))
=============================================================================
