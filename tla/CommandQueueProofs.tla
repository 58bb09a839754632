------------------------- MODULE CommandQueueProofs -------------------------
(***************************************************************************)
(* Proofs about CommandQueue, for any number of callers and any buffer.    *)
(***************************************************************************)
EXTENDS CommandQueue, TLAPS

\* A listener stands only while the actor lives.
QueueInv == TypeOK /\ StoppedHasNoListener

\* Every step of a caller, the accept loop and the owner keeps the invariant.
LEMMA QueueStep == QueueInv /\ [Next]_vars => QueueInv'
<1> SUFFICES ASSUME QueueInv, [Next]_vars PROVE QueueInv'
  OBVIOUS
<1> USE DEF QueueInv, TypeOK, StoppedHasNoListener, Standing, Kinds
<1>1. ASSUME NEW c \in Caller, NEW kind \in Kinds, Call(c, kind) PROVE QueueInv'
  BY <1>1 DEF Call
<1>2. ASSUME NEW c \in Caller, Send(c) PROVE QueueInv'
  <2>1. [kind |-> caller[c], from |-> c] \in Commands
    BY <1>2 DEF Send, Commands
  <2>2. Append(queue, [kind |-> caller[c], from |-> c]) \in Seq(Commands)
        /\ Len(Append(queue, [kind |-> caller[c], from |-> c])) = Len(queue) + 1
    BY <2>1
  <2>3. queue' \in Seq(Commands) /\ Len(queue') <= Buffer
    BY <1>2, <2>2, QueueAssumption DEF Send
  <2>4. UNCHANGED <<owner, listener, stop>>
        /\ caller' \in [Caller -> Kinds \cup {"idle", "asked", "dropped"}]
    BY <1>2 DEF Send
  <2> QED BY <2>3, <2>4
<1>3. ASSUME NEW c \in Caller, DropHandle(c) PROVE QueueInv'
  BY <1>3 DEF DropHandle
<1>4. CASE Accept \/ AcceptError \/ ExitLoop
  BY <1>4 DEF Accept, AcceptError, ExitLoop
<1>5. ASSUME NEW c \in Caller, Post(c) PROVE QueueInv'
  <2>1. [kind |-> "socket", from |-> c] \in Commands
    BY DEF Commands
  <2>2. Append(queue, [kind |-> "socket", from |-> c]) \in Seq(Commands)
        /\ Len(Append(queue, [kind |-> "socket", from |-> c])) = Len(queue) + 1
    BY <2>1
  <2>3. queue' \in Seq(Commands) /\ Len(queue') <= Buffer
    BY <1>5, <2>2, QueueAssumption DEF Post
  <2> QED BY <1>5, <2>3 DEF Post
<1>6. DropReceiver => /\ queue' \in Seq(Commands) /\ Len(queue') <= Buffer
                      /\ caller' \in [Caller -> Kinds \cup {"idle", "asked", "dropped"}]
  BY QueueAssumption DEF DropReceiver
<1>7. StartOrStop => /\ owner' \in {owner, "joining"}
                     /\ listener' \in {listener, "accept"} /\ stop' \in BOOLEAN
  BY DEF StartOrStop, StopListener
<1>8. CASE Receive
  <2>1. /\ Tail(queue) \in Seq(Commands)
        /\ Len(Tail(queue)) = Len(queue) - 1
        /\ Head(queue) \in Commands
    BY <1>8 DEF Receive
  <2>2. Len(queue) \in Nat /\ Head(queue).from \in Caller
    BY <2>1 DEF Commands
  <2>3. queue' \in Seq(Commands) /\ Len(queue') <= Buffer
    BY <1>6, <1>8, <2>1, <2>2, QueueAssumption DEF Receive
  <2>4. caller' \in [Caller -> Kinds \cup {"idle", "asked", "dropped"}]
    BY <1>6, <1>8, <2>2 DEF Receive
  <2>5. /\ owner' \in {"select", "waiting", "joining", "stopping", "stopped"}
        /\ listener' \in {"none", "down", "accept", "sink", "exited"}
        /\ stop' \in BOOLEAN
        /\ owner' = "stopped" => ~Standing'
    BY <1>7, <1>8 DEF Receive, StopListener, Wait
  <2> QED BY <2>3, <2>4, <2>5
<1>9. CASE Retry \/ GoOn
  BY <1>7, <1>9 DEF Retry, Wait, GoOn
<1>10. CASE Joined
  BY <1>6, <1>10 DEF Joined
<1>11. CASE AllDropped
  BY <1>6, <1>11 DEF AllDropped
<1>12. CASE UNCHANGED vars
  BY <1>12 DEF vars
<1> QED
  BY <1>1, <1>2, <1>3, <1>4, <1>5, <1>8, <1>9, <1>10, <1>11, <1>12 DEF Next, AcceptLoop

\* The queue never exceeds command_buffer, and every variable keeps its type.
THEOREM QueueInvariant == Spec => []QueueInv
<1>1. Init => QueueInv
  <2>1. <<>> \in Seq(Commands) /\ Len(<<>>) <= Buffer
    BY QueueAssumption
  <2> QED BY <2>1 DEF Init, QueueInv, TypeOK, StoppedHasNoListener, Standing, Kinds
<1> QED BY <1>1, QueueStep, PTL DEF Spec

\* The bounded channel and the threads' states stay typed.
THEOREM QueueTyped == Spec => []TypeOK
BY QueueInvariant, PTL DEF QueueInv

\* A stopped actor leaves no accept loop behind: shutdown joins it first.
THEOREM StoppedSafe == Spec => []StoppedHasNoListener
BY QueueInvariant, PTL DEF QueueInv

-------------------------------------------------------------------------------
(* Queries and their callers *)

\* A query is put in the queue as its caller begins to wait, another command with no such effect...
LEMMA PutCommand ==
    ASSUME QueueInv, WaitersHaveQueries, NEW cmd \in Commands,
           queue' = Append(queue, cmd), owner' # "stopped",
           IF cmd.kind = "query"
           THEN cmd.from \notin Waiting /\ Waiting' = Waiting \cup {cmd.from}
           ELSE Waiting' = Waiting
    PROVE  WaitersHaveQueries'
<1>1. queue \in Seq(Commands) /\ Len(queue) \in Nat /\ DOMAIN queue = 1..Len(queue)
  BY DEF QueueInv, TypeOK
<1> DEFINE n == Len(queue) + 1
<1>2. /\ DOMAIN queue' = DOMAIN queue \cup {n} /\ n \notin DOMAIN queue
      /\ queue'[n] = cmd /\ \A i \in DOMAIN queue : queue'[i] = queue[i]
  BY <1>1
<1> HIDE DEF n
<1>3. Queries' = IF cmd.kind = "query" THEN Queries \cup {n} ELSE Queries
  BY <1>2 DEF Queries
<1>4. n \notin Queries /\ Queries \subseteq DOMAIN queue
  BY <1>2 DEF Queries
<1>5. /\ Waiting = {queue[i].from : i \in Queries}
      /\ \A i, j \in Queries : queue[i].from = queue[j].from => i = j
  BY DEF WaitersHaveQueries
<1>6. Waiting' = {queue'[i].from : i \in Queries'}
  BY <1>2, <1>3, <1>4, <1>5
<1>7. \A i, j \in Queries' : queue'[i].from = queue'[j].from => i = j
  BY <1>2, <1>3, <1>4, <1>5
<1> QED BY <1>6, <1>7 DEF WaitersHaveQueries

\* ...and taking the first one ends the wait of its caller if it is a query.
LEMMA TakeCommand ==
    ASSUME QueueInv, WaitersHaveQueries, queue # <<>>, queue' = Tail(queue), owner' # "stopped",
           Waiting' = IF Head(queue).kind = "query" THEN Waiting \ {Head(queue).from} ELSE Waiting
    PROVE  WaitersHaveQueries'
<1>1. queue \in Seq(Commands) /\ Len(queue) \in Nat /\ DOMAIN queue = 1..Len(queue)
  BY DEF QueueInv, TypeOK
<1>2. /\ 1 \in DOMAIN queue /\ Head(queue) = queue[1]
      /\ DOMAIN queue' = 1..(Len(queue) - 1)
      /\ \A i \in DOMAIN queue' : i + 1 \in DOMAIN queue /\ i + 1 # 1 /\ queue'[i] = queue[i + 1]
      /\ \A i \in DOMAIN queue : i # 1 => i - 1 \in DOMAIN queue' /\ queue'[i - 1] = queue[i]
  BY <1>1
<1>3. /\ Waiting = {queue[i].from : i \in Queries}
      /\ \A i, j \in Queries : queue[i].from = queue[j].from => i = j
  BY DEF WaitersHaveQueries
<1>4. /\ \A i \in Queries' : i \in Nat /\ i + 1 \in Queries /\ i + 1 # 1 /\ queue'[i] = queue[i + 1]
      /\ \A i \in Queries : i # 1 => i - 1 \in Queries' /\ queue'[i - 1] = queue[i]
      /\ 1 \in Queries <=> Head(queue).kind = "query"
  BY <1>2 DEF Queries
<1>5. ASSUME NEW i \in Queries', NEW j \in Queries', queue'[i].from = queue'[j].from PROVE i = j
  <2>1. i + 1 \in Queries /\ j + 1 \in Queries /\ queue[i + 1].from = queue[j + 1].from
    BY <1>4, <1>5
  <2>2. i + 1 = j + 1 /\ i \in Nat /\ j \in Nat
    BY <1>3, <1>4, <2>1
  <2> QED BY <2>2
<1>6. ASSUME NEW c PROVE c \in Waiting' <=> \E i \in Queries' : c = queue'[i].from
  <2>1. ASSUME c \in Waiting' PROVE \E i \in Queries' : c = queue'[i].from
    <3>1. PICK i \in Queries : c = queue[i].from
      BY <1>3, <2>1
    <3>2. i # 1
      BY <1>2, <1>4, <2>1, <3>1
    <3> QED BY <1>4, <3>1, <3>2
  <2>2. ASSUME NEW i \in Queries', c = queue'[i].from PROVE c \in Waiting'
    <3>1. c = queue[i + 1].from /\ i + 1 \in Queries /\ i + 1 # 1
      BY <1>4, <2>2
    <3>2. c \in Waiting
      BY <1>3, <3>1
    <3>3. 1 \in Queries => c # queue[1].from
      BY <1>3, <3>1
    <3> QED BY <1>2, <1>4, <3>2, <3>3
  <2> QED BY <2>1, <2>2
<1>7. Waiting' = {queue'[i].from : i \in Queries'}
  BY <1>6
<1> QED BY <1>5, <1>7 DEF WaitersHaveQueries

\* The receiver is dropped with every query, and nobody waits.
LEMMA DropAll ==
    ASSUME QueueInv, DropReceiver
    PROVE  WaitersHaveQueries'
<1>1. queue' = <<>> /\ Queries' = {}
  BY DEF DropReceiver, Queries
<1>2. Waiting' = {}
  BY DEF DropReceiver, Waiting, QueueInv, TypeOK, Kinds
<1> QED BY <1>1, <1>2 DEF WaitersHaveQueries

LEMMA WaitersStep == QueueInv /\ WaitersHaveQueries /\ [Next]_vars => WaitersHaveQueries'
<1> SUFFICES ASSUME QueueInv, WaitersHaveQueries, [Next]_vars PROVE WaitersHaveQueries'
  OBVIOUS
<1>0. caller \in [Caller -> Kinds \cup {"idle", "asked", "dropped"}] /\ queue \in Seq(Commands)
  BY DEF QueueInv, TypeOK
<1>1. ASSUME Waiting' = Waiting, queue' = queue, owner' = owner \/ owner' # "stopped"
      PROVE  WaitersHaveQueries'
  BY <1>1 DEF WaitersHaveQueries, Queries
<1>2. ASSUME NEW c \in Caller, NEW kind \in Kinds, Call(c, kind) PROVE WaitersHaveQueries'
  <2>1. Waiting' = Waiting /\ queue' = queue /\ owner' = owner
    BY <1>0, <1>2 DEF Call, Waiting, Kinds
  <2> QED BY <1>1, <2>1
<1>3. ASSUME NEW c \in Caller, Send(c) PROVE WaitersHaveQueries'
  <2>1. CASE owner = "stopped"
    <3>1. Waiting' = Waiting /\ queue' = queue /\ owner' = owner
      BY <1>0, <1>3, <2>1 DEF Send, Waiting, Kinds
    <3> QED BY <1>1, <3>1
  <2>2. CASE owner # "stopped"
    <3> DEFINE cmd == [kind |-> caller[c], from |-> c]
    <3>1. /\ queue' = Append(queue, cmd) /\ owner' # "stopped"
          /\ caller' = [caller EXCEPT ![c] = IF caller[c] = "query" THEN "asked" ELSE "idle"]
          /\ caller[c] \in Kinds
      BY <1>3, <2>2 DEF Send
    <3>2. cmd \in Commands /\ cmd.kind = caller[c] /\ cmd.from = c
      BY <3>1 DEF Commands
    <3> HIDE DEF cmd
    <3>3. c \notin Waiting /\ Waiting' = IF caller[c] = "query" THEN Waiting \cup {c} ELSE Waiting
      BY <1>0, <3>1 DEF Waiting, Kinds
    <3> QED BY <3>1, <3>2, <3>3, PutCommand
  <2> QED BY <2>1, <2>2
<1>4. ASSUME NEW c \in Caller, DropHandle(c) PROVE WaitersHaveQueries'
  <2>1. Waiting' = Waiting /\ queue' = queue /\ owner' = owner
    BY <1>0, <1>4 DEF DropHandle, Waiting, Kinds
  <2> QED BY <1>1, <2>1
<1>5. CASE Accept \/ AcceptError \/ ExitLoop
  BY <1>1, <1>5 DEF Accept, AcceptError, ExitLoop, Waiting
<1>6. ASSUME NEW c \in Caller, Post(c) PROVE WaitersHaveQueries'
  <2>1. caller' = caller /\ owner' = owner /\ Waiting' = Waiting
    BY <1>6 DEF Post, Waiting
  <2>2. CASE owner = "stopped"
    BY <1>1, <1>6, <2>1, <2>2 DEF Post
  <2>3. CASE owner # "stopped"
    <3> DEFINE cmd == [kind |-> "socket", from |-> c]
    <3>1. queue' = Append(queue, cmd)
      BY <1>6, <2>3 DEF Post
    <3>2. cmd \in Commands /\ cmd.kind # "query"
      BY DEF Commands
    <3> HIDE DEF cmd
    <3> QED BY <2>1, <2>3, <3>1, <3>2, PutCommand
  <2> QED BY <2>2, <2>3
<1>7. CASE Receive
  <2>1. queue # <<>> /\ owner = "select" /\ Head(queue) \in Commands
    BY <1>0, <1>7 DEF Receive
  <2>2. CASE DropReceiver
    BY <2>2, DropAll
  <2>3. ASSUME queue' = Tail(queue), caller' = caller, Head(queue).kind # "query", owner' # "stopped"
        PROVE  WaitersHaveQueries'
    BY <2>1, <2>3, TakeCommand DEF Waiting
  <2>4. ASSUME queue' = Tail(queue), Head(queue).kind = "query", owner' = owner,
               caller' = [caller EXCEPT ![Head(queue).from] = "idle"]
        PROVE  WaitersHaveQueries'
    <3>1. Waiting' = Waiting \ {Head(queue).from}
      BY <1>0, <2>1, <2>4 DEF Waiting, Kinds, Commands
    <3> QED BY <2>1, <2>4, <3>1, TakeCommand
  <2>5. StartOrStop => owner' \in {owner, "joining"}
    BY DEF StartOrStop, StopListener
  <2> QED BY <1>7, <2>1, <2>2, <2>3, <2>4, <2>5 DEF Receive, StopListener, Wait
<1>8. CASE Retry \/ GoOn
  <2>1. owner' # "stopped" /\ queue' = queue /\ Waiting' = Waiting
    BY <1>8 DEF Retry, StartOrStop, StopListener, Wait, GoOn, Waiting
  <2> QED BY <1>1, <2>1
<1>9. CASE Joined
  <2>1. CASE DropReceiver
    BY <2>1, DropAll
  <2>2. CASE owner' = "select" /\ UNCHANGED <<queue, caller>>
    BY <1>1, <2>2 DEF Waiting
  <2> QED BY <1>9, <2>1, <2>2 DEF Joined
<1>10. CASE AllDropped
  BY <1>10, DropAll DEF AllDropped
<1>11. CASE UNCHANGED vars
  BY <1>1, <1>11 DEF vars, Waiting
<1> QED
  BY <1>2, <1>3, <1>4, <1>5, <1>6, <1>7, <1>8, <1>9, <1>10, <1>11 DEF Next, AcceptLoop

\* Whatever the number of callers and the buffer: every caller waiting for an answer has its one query in
\* the queue of a living actor (BwuHandle's queries, run and its exits).
THEOREM WaitersSafe == Spec => []WaitersHaveQueries
<1>1. Init => WaitersHaveQueries
  BY DEF Init, WaitersHaveQueries, Queries, Waiting
<1> QED BY <1>1, WaitersStep, QueueInvariant, PTL DEF Spec
=============================================================================
