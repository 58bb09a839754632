---------------------------- MODULE StreamChannel ----------------------------
(***************************************************************************)
(* StreamChannel (src/bwu/stream_channel.rs) over its in-memory Pipe: a    *)
(* length-framed channel that any thread may write, read, pause, resume,   *)
(* close or (de)crypt at any time.  A step is one critical section of the  *)
(* code: the pause mutex with its condition variable, the writer and       *)
(* reader locks, and the Pipe's own mutex.  What a Pipe carries is         *)
(* readable back from it, so one channel shows both directions.            *)
(*                                                                         *)
(* A frame is a length and a payload, two items of the byte stream; `seq`  *)
(* is the message counter of the session cipher, 0 on a plaintext payload. *)
(* Payloads are not empty, and since write sends no length that read would *)
(* refuse, read's length check is left out.                                *)
(* A spurious wake-up re-checks the pause flag and parks again: a stutter. *)
(***************************************************************************)
EXTENDS Naturals, Sequences

CONSTANTS
    Writer,      \* threads that call write
    Reader,      \* threads that call read
    MaxWrites,   \* bound: calls of write per writer
    NoThread     \* holder of a free lock

ASSUME ThreadsAssumption == NoThread \notin Writer \cup Reader /\ MaxWrites \in Nat

VARIABLES
    paused, closed,   \* PauseState
    cipher,           \* a cipher is installed
    encoded,          \* messages the cipher has encoded
    decoded,          \* counter of the last message the cipher has decoded
    buf, eof,         \* PipeState
    writerLock, readerLock,
    wpc,              \* "idle", "parked", "woken", "gate", "len" or "payload"
    rpc,              \* "idle", "queued", "len", "payload" or "decode"
    calls,            \* writes each writer has called
    out,              \* the payload each writer has prepared
    got               \* the items each reader has taken off the stream

pauseVars  == <<paused, closed>>
cipherVars == <<cipher, encoded, decoded>>
writerVars == <<writerLock, wpc, calls, out>>
readerVars == <<readerLock, rpc, got>>
vars == <<pauseVars, cipherVars, buf, eof, writerVars, readerVars>>

Payload(w, n, s) == [part |-> "payload", by |-> w, call |-> n, seq |-> s]
Items == [part : {"len", "payload"}, by : Writer, call : Nat, seq : Nat]

\* The condition variable is not signalled.
MutNoNotify(pc) == pc

\* pause_cond.notify_all.
NotifyAll(pc) == [w \in Writer |-> IF pc[w] = "parked" THEN "woken" ELSE pc[w]]

-------------------------------------------------------------------------------
(* write *)

\* The pause wait at the head of write: park while paused.
WriteCall(w) ==
    /\ wpc[w] = "idle" /\ calls[w] < MaxWrites
    /\ calls' = [calls EXCEPT ![w] = @ + 1]
    /\ wpc' = [wpc EXCEPT ![w] = IF paused THEN "parked" ELSE "gate"]
    /\ UNCHANGED <<pauseVars, cipherVars, buf, eof, writerLock, out, readerVars>>

\* A notified writer looks at the flag again.
Recheck(w) ==
    /\ wpc[w] = "woken"
    /\ wpc' = [wpc EXCEPT ![w] = IF paused THEN "parked" ELSE "gate"]
    /\ UNCHANGED <<pauseVars, cipherVars, buf, eof, writerLock, calls, out, readerVars>>

\* The writer lock is not waited for.
MutEncodeUnlocked(w) ==
    /\ wpc[w] = "gate"
    /\ wpc' = [wpc EXCEPT ![w] = "len"]
    /\ encoded' = IF cipher THEN encoded + 1 ELSE encoded
    /\ out' = [out EXCEPT ![w] = Payload(w, calls[w], IF cipher THEN encoded' ELSE 0)]
    /\ UNCHANGED <<pauseVars, cipher, decoded, buf, eof, writerLock, calls, readerVars>>

\* Take the writer lock and prepare the payload; a payload that cannot be encoded, or
\* is too long once encoded, is Exception::Io and lets the lock go again.
Encode(w) ==
    /\ wpc[w] = "gate" /\ writerLock = NoThread
    /\ \/ /\ wpc' = [wpc EXCEPT ![w] = "idle"]
          /\ encoded' \in IF cipher THEN {encoded, encoded + 1} ELSE {encoded}
          /\ UNCHANGED <<writerLock, out>>
       \/ /\ wpc' = [wpc EXCEPT ![w] = "len"]
          /\ writerLock' = w
          /\ encoded' = IF cipher THEN encoded + 1 ELSE encoded
          /\ out' = [out EXCEPT ![w] = Payload(w, calls[w], IF cipher THEN encoded' ELSE 0)]
    /\ UNCHANGED <<pauseVars, cipher, decoded, buf, eof, calls, readerVars>>

\* write_all of the length; on a closed stream write returns Exception::Io.
WriteLen(w) ==
    /\ wpc[w] = "len"
    /\ IF eof
       THEN /\ wpc' = [wpc EXCEPT ![w] = "idle"]
            /\ writerLock' = NoThread
            /\ UNCHANGED buf
       ELSE /\ wpc' = [wpc EXCEPT ![w] = "payload"]
            /\ buf' = Append(buf, [out[w] EXCEPT !.part = "len"])
            /\ UNCHANGED writerLock
    /\ UNCHANGED <<pauseVars, cipherVars, eof, calls, out, readerVars>>

\* write_all of the payload, and the flush.
WritePayload(w) ==
    /\ wpc[w] = "payload"
    /\ buf' = IF eof THEN buf ELSE Append(buf, out[w])
    /\ wpc' = [wpc EXCEPT ![w] = "idle"]
    /\ writerLock' = NoThread
    /\ UNCHANGED <<pauseVars, cipherVars, eof, calls, out, readerVars>>

-------------------------------------------------------------------------------
(* read *)

ReadCall(r) ==
    /\ rpc[r] = "idle"
    /\ rpc' = [rpc EXCEPT ![r] = "queued"]
    /\ UNCHANGED <<pauseVars, cipherVars, buf, eof, writerVars, readerLock, got>>

\* The reader lock is not waited for.
MutReadUnlocked(r) ==
    /\ rpc[r] = "queued"
    /\ rpc' = [rpc EXCEPT ![r] = "len"]
    /\ got' = [got EXCEPT ![r] = <<>>]
    /\ UNCHANGED <<pauseVars, cipherVars, buf, eof, writerVars, readerLock>>

LockReader(r) ==
    /\ rpc[r] = "queued" /\ readerLock = NoThread
    /\ rpc' = [rpc EXCEPT ![r] = "len"]
    /\ readerLock' = r
    /\ got' = [got EXCEPT ![r] = <<>>]
    /\ UNCHANGED <<pauseVars, cipherVars, buf, eof, writerVars>>

\* A parked reader does not notice that the stream was closed.
MutReadIgnoresClose(r) ==
    /\ rpc[r] \in {"len", "payload"} /\ buf # <<>>
    /\ buf' = Tail(buf)
    /\ got' = [got EXCEPT ![r] = Append(@, Head(buf))]
    /\ rpc' = [rpc EXCEPT ![r] = IF @ = "len" THEN "payload" ELSE "decode"]
    /\ readerLock' = IF rpc[r] = "len" THEN readerLock ELSE NoThread
    /\ UNCHANGED <<pauseVars, cipherVars, eof, writerVars>>

\* read_exact of the length, then of the payload: it waits for bytes, and is
\* Exception::NoData once the stream is closed and empty.
ReadExact(r) ==
    /\ rpc[r] \in {"len", "payload"}
    /\ \/ /\ buf # <<>>
          /\ buf' = Tail(buf)
          /\ got' = [got EXCEPT ![r] = Append(@, Head(buf))]
          /\ rpc' = [rpc EXCEPT ![r] = IF @ = "len" THEN "payload" ELSE "decode"]
          /\ readerLock' = IF rpc[r] = "len" THEN readerLock ELSE NoThread
       \/ /\ buf = <<>> /\ eof
          /\ rpc' = [rpc EXCEPT ![r] = "idle"]
          /\ readerLock' = NoThread
          /\ UNCHANGED <<buf, got>>
    /\ UNCHANGED <<pauseVars, cipherVars, eof, writerVars>>

\* Outside the reader lock: an installed cipher decodes an encrypted payload, which
\* moves its counter; a plaintext one is refused or, a KEEP_ALIVE, let through, and
\* without a cipher the bytes are returned raw.
Decode(r) ==
    /\ rpc[r] = "decode"
    /\ rpc' = [rpc EXCEPT ![r] = "idle"]
    /\ decoded' = IF cipher /\ got[r][2].seq # 0 THEN got[r][2].seq ELSE decoded
    /\ UNCHANGED <<pauseVars, cipher, encoded, buf, eof, writerVars, readerLock, got>>

-------------------------------------------------------------------------------
(* The other calls *)

Pause ==
    /\ paused' = TRUE
    /\ UNCHANGED <<closed, cipherVars, buf, eof, writerVars, readerVars>>

Resume ==
    /\ paused' = FALSE
    /\ wpc' = NotifyAll(wpc)
    /\ UNCHANGED <<closed, cipherVars, buf, eof, writerLock, calls, out, readerVars>>

\* do_close, first half: under the pause mutex, once.
Close ==
    /\ ~closed
    /\ closed' = TRUE
    /\ paused' = FALSE
    /\ wpc' = NotifyAll(wpc)
    /\ UNCHANGED <<cipherVars, buf, eof, writerLock, calls, out, readerVars>>

\* do_close, second half: the stream, under no lock of the channel.
CloseStream ==
    /\ closed /\ ~eof
    /\ eof' = TRUE
    /\ UNCHANGED <<pauseVars, cipherVars, buf, writerVars, readerVars>>

EnableEncryption ==
    /\ cipher' = TRUE
    /\ UNCHANGED <<pauseVars, encoded, decoded, buf, eof, writerVars, readerVars>>

DisableEncryption ==
    /\ cipher' = FALSE
    /\ UNCHANGED <<pauseVars, encoded, decoded, buf, eof, writerVars, readerVars>>

Init ==
    /\ paused = FALSE /\ closed = FALSE
    /\ cipher = FALSE /\ encoded = 0 /\ decoded = 0
    /\ buf = <<>> /\ eof = FALSE
    /\ writerLock = NoThread /\ readerLock = NoThread
    /\ wpc = [w \in Writer |-> "idle"] /\ rpc = [r \in Reader |-> "idle"]
    /\ calls = [w \in Writer |-> 0]
    /\ out = [w \in Writer |-> Payload(w, 0, 0)]
    /\ got = [r \in Reader |-> <<>>]

WriterStep(w) == Recheck(w) \/ Encode(w) \/ WriteLen(w) \/ WritePayload(w)
ReaderStep(r) == LockReader(r) \/ ReadExact(r) \/ Decode(r)

Next ==
    \/ \E w \in Writer : WriteCall(w) \/ WriterStep(w)
    \/ \E r \in Reader : ReadCall(r) \/ ReaderStep(r)
    \/ Pause \/ Resume \/ Close \/ CloseStream
    \/ EnableEncryption \/ DisableEncryption

Spec == Init /\ [][Next]_vars

\* A thread inside a call goes on running, and one that closes finishes closing; no
\* call is ever made of necessity.
FairSpec ==
    /\ Spec
    /\ \A w \in Writer : WF_vars(WriterStep(w))
    /\ \A r \in Reader : WF_vars(ReaderStep(r))
    /\ WF_vars(CloseStream)

-------------------------------------------------------------------------------
(* Properties *)

\* Every variable keeps its type.
TypeOK ==
    /\ paused \in BOOLEAN /\ closed \in BOOLEAN /\ cipher \in BOOLEAN /\ eof \in BOOLEAN
    /\ encoded \in Nat /\ decoded \in Nat
    /\ buf \in Seq(Items)
    /\ writerLock \in Writer \cup {NoThread} /\ readerLock \in Reader \cup {NoThread}
    /\ wpc \in [Writer -> {"idle", "parked", "woken", "gate", "len", "payload"}]
    /\ rpc \in [Reader -> {"idle", "queued", "len", "payload", "decode"}]
    /\ calls \in [Writer -> 0..MaxWrites]
    /\ out \in [Writer -> Items]
    /\ got \in [Reader -> Seq(Items)]

Frame(item) == <<item.by, item.call>>

\* Whoever writes, every length on the stream is followed by its own payload: the
\* writers never interleave, and a frame cut by a close is the last.
FramesUntorn ==
    \A i \in 1..Len(buf) - 1 :
        buf[i].part = "len" => buf[i + 1].part = "payload" /\ Frame(buf[i + 1]) = Frame(buf[i])

\* Whoever reads, a frame is taken off the stream whole: what a reader has taken is a
\* length and then that frame's payload.
ReadsWholeFrames ==
    \A r \in Reader :
        /\ got[r] # <<>> => got[r][1].part = "len"
        /\ Len(got[r]) = 2 => got[r][2].part = "payload" /\ Frame(got[r][2]) = Frame(got[r][1])

\* The cipher is sequence numbered: encrypted payloads enter the stream in the order in
\* which they were encoded, which is why write encodes under the writer lock.
WireInCipherOrder ==
    \A i, j \in 1..Len(buf) :
        i < j /\ buf[i].part = "payload" /\ buf[j].part = "payload"
            /\ buf[i].seq # 0 /\ buf[j].seq # 0 => buf[i].seq < buf[j].seq

\* With a single reader the cipher decodes in that order too, also around
\* enable_encryption and disable_encryption.
DecodesInOrder ==
    [][decoded' # decoded => decoded' > decoded]_vars

\* No wake-up is lost: a writer sleeps in the pause wait only while the channel is paused.
NoLostWakeup == \A w \in Writer : wpc[w] = "parked" => paused

\* A write on a channel that does not stay paused returns.
WritesReturn ==
    (<>[]~paused) => \A w \in Writer : [](wpc[w] # "idle" => <>(wpc[w] = "idle"))

\* Closing the channel ends a read that waits for bytes.
CloseEndsReads ==
    \A r \in Reader : (closed /\ rpc[r] # "idle") ~> (rpc[r] = "idle")
=============================================================================
