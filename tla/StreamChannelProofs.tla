-------------------------- MODULE StreamChannelProofs --------------------------
(***************************************************************************)
(* The locking of StreamChannel, proved for any number of threads and      *)
(* calls: types, wake-ups, frames that are whole on the stream and off it, *)
(* and the order of the cipher.                                            *)
(***************************************************************************)
EXTENDS StreamChannel, TLAPS

\* Part of a writer's program is run under the writer lock.
LockInv == \A w \in Writer : wpc[w] \in {"len", "payload"} => writerLock = w

\* A payload that was prepared is a payload.
OutInv == \A w \in Writer : out[w].part = "payload"

\* The length at the end of an open stream belongs to the writer about to complete it.
TailInv ==
    ~eof /\ buf # <<>> /\ buf[Len(buf)].part = "len" =>
        \E w \in Writer : wpc[w] = "payload" /\ Frame(out[w]) = Frame(buf[Len(buf)])

\* A reader has taken one item when it waits for the payload and two when it decodes.
GotInv ==
    \A r \in Reader :
        /\ rpc[r] = "len" => Len(got[r]) = 0
        /\ rpc[r] = "payload" => Len(got[r]) = 1
        /\ rpc[r] = "decode" => Len(got[r]) = 2

FrameInv == TypeOK /\ GotInv /\ LockInv /\ OutInv /\ TailInv /\ FramesUntorn

\* What appending does to a sequence.
LEMMA AppendFacts ==
    ASSUME NEW S, NEW s \in Seq(S), NEW x \in S
    PROVE  /\ Append(s, x) \in Seq(S) /\ Len(Append(s, x)) = Len(s) + 1
           /\ Append(s, x)[Len(s) + 1] = x
           /\ \A i \in 1..Len(s) : Append(s, x)[i] = s[i]
  OBVIOUS

\* What taking the first item does to a sequence.
LEMMA TailFacts ==
    ASSUME NEW S, NEW s \in Seq(S), s # <<>>
    PROVE  /\ Head(s) \in S /\ Tail(s) \in Seq(S)
           /\ Len(s) \in Nat \ {0} /\ Len(Tail(s)) = Len(s) - 1
           /\ \A i \in 1..Len(s) - 1 : Tail(s)[i] = s[i + 1]
  OBVIOUS

\* The second of two items.
LEMMA SecondItem ==
    ASSUME NEW S, NEW s \in Seq(S), Len(s) = 2
    PROVE  s[2] \in S
  OBVIOUS

\* A prepared payload and its length are items of the stream.
LEMMA PayloadType ==
    ASSUME NEW w \in Writer, NEW n \in Nat, NEW s \in Nat
    PROVE  /\ Payload(w, n, s) \in Items
           /\ Payload(w, n, s).part = "payload"
  BY DEF Payload, Items

LEMMA LenType ==
    ASSUME NEW x \in Items
    PROVE  /\ [x EXCEPT !.part = "len"] \in Items
           /\ [x EXCEPT !.part = "len"].part = "len"
           /\ Frame([x EXCEPT !.part = "len"]) = Frame(x)
           /\ [x EXCEPT !.part = "len"].seq = x.seq
  BY DEF Items, Frame

\* Every step keeps the types; that Decode finds a payload takes GotInv.
LEMMA TypeStep == TypeOK /\ GotInv /\ [Next]_vars => TypeOK'
<1> SUFFICES ASSUME TypeOK, GotInv, [Next]_vars PROVE TypeOK'
  OBVIOUS
<1> USE ThreadsAssumption DEF TypeOK
<1>1. ASSUME NEW w \in Writer, WriteCall(w) PROVE TypeOK'
  BY <1>1 DEF WriteCall, pauseVars, cipherVars, readerVars
<1>2. ASSUME NEW w \in Writer, Recheck(w) PROVE TypeOK'
  BY <1>2 DEF Recheck, pauseVars, cipherVars, readerVars
<1>3. ASSUME NEW w \in Writer, Encode(w) PROVE TypeOK'
  <2>1. encoded' \in Nat
    BY <1>3 DEF Encode
  <2>2. calls[w] \in Nat /\ (IF cipher THEN encoded' ELSE 0) \in Nat
    BY <2>1
  <2>3. Payload(w, calls[w], IF cipher THEN encoded' ELSE 0) \in Items
    BY <2>2, PayloadType
  <2>4. out' \in [Writer -> Items]
    BY <1>3, <2>3 DEF Encode
  <2> QED
    BY <1>3, <2>1, <2>4 DEF Encode, pauseVars, readerVars
<1>4. ASSUME NEW w \in Writer, WriteLen(w) PROVE TypeOK'
  <2>1. [out[w] EXCEPT !.part = "len"] \in Items
    BY LenType
  <2>3. Append(buf, [out[w] EXCEPT !.part = "len"]) \in Seq(Items)
    BY <2>1, AppendFacts
  <2>2. buf' \in Seq(Items)
    BY <1>4, <2>3 DEF WriteLen
  <2> QED
    BY <1>4, <2>2 DEF WriteLen, pauseVars, cipherVars, readerVars
<1>5. ASSUME NEW w \in Writer, WritePayload(w) PROVE TypeOK'
  <2>2. buf' \in Seq(Items)
    BY <1>5, AppendFacts DEF WritePayload
  <2> QED
    BY <1>5, <2>2 DEF WritePayload, pauseVars, cipherVars, readerVars
<1>6. ASSUME NEW r \in Reader, ReadCall(r) PROVE TypeOK'
  BY <1>6 DEF ReadCall, pauseVars, cipherVars, writerVars
<1>7. ASSUME NEW r \in Reader, LockReader(r) PROVE TypeOK'
  BY <1>7 DEF LockReader, pauseVars, cipherVars, writerVars
<1>8. ASSUME NEW r \in Reader, ReadExact(r) PROVE TypeOK'
  <2>1. CASE buf # <<>>
    <3>1. Head(buf) \in Items /\ Tail(buf) \in Seq(Items)
      BY <2>1, TailFacts
    <3>2. Append(got[r], Head(buf)) \in Seq(Items)
      BY <3>1, AppendFacts
    <3>3. got' \in [Reader -> Seq(Items)]
      BY <1>8, <2>1, <3>2 DEF ReadExact
    <3> QED
      BY <1>8, <3>1, <3>3 DEF ReadExact, pauseVars, cipherVars, writerVars
  <2>2. CASE buf = <<>>
    BY <1>8, <2>2 DEF ReadExact, pauseVars, cipherVars, writerVars
  <2> QED
    BY <2>1, <2>2
<1>9. ASSUME NEW r \in Reader, Decode(r) PROVE TypeOK'
  <2>1. got[r] \in Seq(Items) /\ Len(got[r]) = 2
    BY <1>9 DEF Decode, GotInv
  <2>2. got[r][2] \in Items
    BY <2>1, SecondItem
  <2>3. got[r][2].seq \in Nat
    BY <2>2 DEF Items
  <2> QED
    BY <1>9, <2>3 DEF Decode, pauseVars, cipherVars, writerVars
<1>10. CASE Pause \/ Resume \/ Close \/ CloseStream
  BY <1>10 DEF Pause, Resume, Close, CloseStream, NotifyAll, pauseVars, cipherVars, writerVars, readerVars
<1>11. CASE EnableEncryption \/ DisableEncryption
  BY <1>11 DEF EnableEncryption, DisableEncryption, pauseVars, writerVars, readerVars
<1>12. CASE UNCHANGED vars
  BY <1>12 DEF vars, pauseVars, cipherVars, writerVars, readerVars
<1> QED
  BY <1>1, <1>2, <1>3, <1>4, <1>5, <1>6, <1>7, <1>8, <1>9, <1>10, <1>11, <1>12
     DEF Next, WriterStep, ReaderStep

\* What StreamChannel::new and the Pipe start from.
LEMMA TypeInit == Init => TypeOK
<1> SUFFICES ASSUME Init PROVE TypeOK
  OBVIOUS
<1>1. \A w \in Writer : Payload(w, 0, 0) \in Items
  BY PayloadType
<1>2. out \in [Writer -> Items]
  BY <1>1 DEF Init
<1>3. buf \in Seq(Items) /\ got \in [Reader -> Seq(Items)]
  BY DEF Init
<1>4. /\ wpc \in [Writer -> {"idle", "parked", "woken", "gate", "len", "payload"}]
      /\ rpc \in [Reader -> {"idle", "queued", "len", "payload", "decode"}]
      /\ calls \in [Writer -> 0..MaxWrites]
  BY ThreadsAssumption DEF Init
<1>5. paused \in BOOLEAN /\ closed \in BOOLEAN /\ cipher \in BOOLEAN /\ eof \in BOOLEAN
  BY DEF Init
<1>6. /\ encoded \in Nat /\ decoded \in Nat
      /\ writerLock \in Writer \cup {NoThread} /\ readerLock \in Reader \cup {NoThread}
  BY DEF Init
<1> QED
  BY <1>2, <1>3, <1>4, <1>5, <1>6 DEF TypeOK

\* Every step keeps the count of items a reader has taken.
LEMMA GotStep == TypeOK /\ GotInv /\ [Next]_vars => GotInv'
<1> SUFFICES ASSUME TypeOK, GotInv, [Next]_vars PROVE GotInv'
  OBVIOUS
<1> USE DEF TypeOK, GotInv
<1>1. ASSUME NEW w \in Writer, WriteCall(w) \/ WriterStep(w) PROVE GotInv'
  BY <1>1 DEF WriterStep, WriteCall, Recheck, Encode, WriteLen, WritePayload, readerVars
<1>2. ASSUME NEW r \in Reader, ReadCall(r) \/ LockReader(r) \/ Decode(r) PROVE GotInv'
  BY <1>2 DEF ReadCall, LockReader, Decode
<1>3. ASSUME NEW r \in Reader, ReadExact(r) PROVE GotInv'
  <2>1. CASE buf # <<>>
    <3>1. Head(buf) \in Items /\ got[r] \in Seq(Items)
      BY <2>1, TailFacts
    <3>2. Len(Append(got[r], Head(buf))) = Len(got[r]) + 1
      BY <3>1, AppendFacts
    <3>3. \A q \in Reader \ {r} : rpc'[q] = rpc[q] /\ got'[q] = got[q]
      BY <1>3, <2>1 DEF ReadExact
    <3>4. /\ got'[r] = Append(got[r], Head(buf))
          /\ rpc'[r] = IF rpc[r] = "len" THEN "payload" ELSE "decode"
          /\ rpc[r] \in {"len", "payload"}
      BY <1>3, <2>1 DEF ReadExact
    <3>6. Len(got'[r]) = Len(got[r]) + 1
      BY <3>2, <3>4
    <3>7. (rpc[r] = "len" => Len(got[r]) = 0) /\ (rpc[r] = "payload" => Len(got[r]) = 1)
      OBVIOUS
    <3> HIDE DEF TypeOK, GotInv
    <3>5. /\ rpc'[r] = "payload" => Len(got'[r]) = 1
          /\ rpc'[r] = "decode" => Len(got'[r]) = 2
          /\ rpc'[r] # "len"
      <4>1. CASE rpc[r] = "len"
        <5>1. rpc'[r] = "payload" /\ Len(got'[r]) = 0 + 1
          BY <3>4, <3>6, <3>7, <4>1
        <5> QED
          BY <5>1
      <4>2. CASE rpc[r] = "payload"
        <5>1. rpc'[r] = "decode" /\ Len(got'[r]) = 1 + 1
          BY <3>4, <3>6, <3>7, <4>2
        <5> QED
          BY <5>1
      <4> QED
        BY <3>4, <4>1, <4>2
    <3> QED
      BY <3>3, <3>5 DEF GotInv
  <2>2. CASE buf = <<>>
    BY <1>3, <2>2 DEF ReadExact
  <2> QED
    BY <2>1, <2>2
<1>4. CASE Pause \/ Resume \/ Close \/ CloseStream
  BY <1>4 DEF Pause, Resume, Close, CloseStream, readerVars
<1>5. CASE EnableEncryption \/ DisableEncryption \/ UNCHANGED vars
  BY <1>5 DEF EnableEncryption, DisableEncryption, vars, readerVars
<1> QED
  BY <1>1, <1>2, <1>3, <1>4, <1>5 DEF Next, ReaderStep

\* Every variable of the channel keeps its type.
THEOREM ChannelTyped == Spec => []TypeOK
<1>1. Init => TypeOK /\ GotInv
  BY TypeInit DEF Init, GotInv
<1>2. TypeOK /\ GotInv /\ [Next]_vars => TypeOK' /\ GotInv'
  BY TypeStep, GotStep
<1> QED
  BY <1>1, <1>2, PTL DEF Spec

-------------------------------------------------------------------------------

\* Pausing, resuming and closing never leave a writer asleep on a channel that is not
\* paused: NoLostWakeup holds for any number of writers and calls.
THEOREM WakeupSafe == Spec => []NoLostWakeup
<1>1. Init => NoLostWakeup
  BY DEF Init, NoLostWakeup
<1>2. TypeOK /\ NoLostWakeup /\ [Next]_vars => NoLostWakeup'
  <2> SUFFICES ASSUME TypeOK, NoLostWakeup, [Next]_vars PROVE NoLostWakeup'
    OBVIOUS
  <2> USE DEF TypeOK, NoLostWakeup
  <2>1. ASSUME NEW w \in Writer, WriteCall(w) \/ WriterStep(w) PROVE NoLostWakeup'
    BY <2>1 DEF WriterStep, WriteCall, Recheck, Encode, WriteLen, WritePayload, pauseVars
  <2>2. ASSUME NEW r \in Reader, ReadCall(r) \/ ReaderStep(r) PROVE NoLostWakeup'
    BY <2>2 DEF ReaderStep, ReadCall, LockReader, ReadExact, Decode, pauseVars, writerVars
  <2>3. CASE Pause \/ Resume \/ Close \/ CloseStream
    BY <2>3 DEF Pause, Resume, Close, CloseStream, NotifyAll, pauseVars, writerVars
  <2>4. CASE EnableEncryption \/ DisableEncryption \/ UNCHANGED vars
    BY <2>4 DEF EnableEncryption, DisableEncryption, vars, pauseVars, writerVars
  <2> QED
    BY <2>1, <2>2, <2>3, <2>4 DEF Next
<1> QED
  BY <1>1, <1>2, ChannelTyped, PTL DEF Spec

-------------------------------------------------------------------------------

\* A writer holds the lock from the encoding of its payload to the end of its frame, and
\* what it prepared is a payload.
LEMMA LockStep == TypeOK /\ LockInv /\ OutInv /\ [Next]_vars => LockInv' /\ OutInv'
<1> SUFFICES ASSUME TypeOK, LockInv, OutInv, [Next]_vars PROVE LockInv' /\ OutInv'
  OBVIOUS
<1> USE ThreadsAssumption DEF TypeOK, LockInv, OutInv
<1>1. ASSUME NEW w \in Writer, WriteCall(w) \/ Recheck(w) PROVE LockInv' /\ OutInv'
  BY <1>1 DEF WriteCall, Recheck
<1>2. ASSUME NEW w \in Writer, Encode(w) PROVE LockInv' /\ OutInv'
  <2>1. \A s \in {0, encoded'} : Payload(w, calls[w], s).part = "payload"
    BY DEF Payload
  <2>2. out'[w].part = "payload" /\ \A v \in Writer \ {w} : out'[v] = out[v]
    BY <1>2, <2>1 DEF Encode
  <2>3. \A v \in Writer : wpc[v] \notin {"len", "payload"}
    BY <1>2 DEF Encode
  <2> QED
    BY <1>2, <2>2, <2>3 DEF Encode
<1>3. ASSUME NEW w \in Writer, WriteLen(w) \/ WritePayload(w) PROVE LockInv' /\ OutInv'
  BY <1>3 DEF WriteLen, WritePayload
<1>4. ASSUME NEW r \in Reader, ReadCall(r) \/ ReaderStep(r) PROVE LockInv' /\ OutInv'
  BY <1>4 DEF ReaderStep, ReadCall, LockReader, ReadExact, Decode, writerVars
<1>5. CASE Pause \/ Resume \/ Close \/ CloseStream
  BY <1>5 DEF Pause, Resume, Close, CloseStream, NotifyAll, writerVars
<1>6. CASE EnableEncryption \/ DisableEncryption \/ UNCHANGED vars
  BY <1>6 DEF EnableEncryption, DisableEncryption, vars, writerVars
<1> QED
  BY <1>1, <1>2, <1>3, <1>4, <1>5, <1>6 DEF Next, WriterStep

\* Only the two writes of a frame and a read change what is on the stream.
LEMMA FrameStep == FrameInv /\ [Next]_vars => TailInv' /\ FramesUntorn'
<1> SUFFICES ASSUME FrameInv, [Next]_vars PROVE TailInv' /\ FramesUntorn'
  OBVIOUS
<1>0. TypeOK /\ LockInv /\ OutInv /\ TailInv /\ FramesUntorn
  BY DEF FrameInv
<1>1. ASSUME UNCHANGED <<buf, out>>, eof' = eof \/ eof',
             \A w \in Writer : wpc[w] = "payload" => wpc'[w] = "payload"
      PROVE  TailInv' /\ FramesUntorn'
  BY <1>0, <1>1 DEF TailInv, FramesUntorn, TypeOK
<1>2. ASSUME NEW w \in Writer, WriteCall(w) \/ Recheck(w) PROVE TailInv' /\ FramesUntorn'
  BY <1>0, <1>1, <1>2 DEF WriteCall, Recheck, TypeOK
<1>3. ASSUME NEW w \in Writer, Encode(w) PROVE TailInv' /\ FramesUntorn'
  <2>1. wpc[w] # "payload" /\ buf' = buf /\ eof' = eof
    BY <1>3 DEF Encode
  <2>2. \A v \in Writer \ {w} : out'[v] = out[v] /\ wpc'[v] = wpc[v]
    BY <1>0, <1>3 DEF Encode, TypeOK
  <2> QED
    BY <1>0, <2>1, <2>2 DEF TailInv, FramesUntorn
<1>4. ASSUME NEW w \in Writer, WriteLen(w) PROVE TailInv' /\ FramesUntorn'
  <2> DEFINE item == [out[w] EXCEPT !.part = "len"]
  <2>1. CASE eof
    BY <1>0, <1>1, <1>4, <2>1 DEF WriteLen, TypeOK
  <2>2. CASE ~eof
    <3>1. item \in Items /\ item.part = "len" /\ Frame(item) = Frame(out[w])
      BY <1>0, LenType DEF TypeOK
    <3>2. buf' = Append(buf, item) /\ out' = out /\ wpc'[w] = "payload"
      BY <1>0, <1>4, <2>2 DEF WriteLen, TypeOK
    <3> HIDE DEF item
    <3>3. buf \in Seq(Items) /\ Len(buf) \in Nat
      BY <1>0 DEF TypeOK
    <3>4. /\ Len(buf') = Len(buf) + 1 /\ buf'[Len(buf) + 1] = item
          /\ \A i \in 1..Len(buf) : buf'[i] = buf[i]
      BY <3>1, <3>2, <3>3, AppendFacts
    <3>5. TailInv'
      BY <3>1, <3>2, <3>3, <3>4 DEF TailInv
    <3>6. \A v \in Writer : wpc[v] # "payload"
      BY <1>0, <1>4 DEF LockInv, WriteLen
    <3>7. buf # <<>> => buf[Len(buf)].part # "len"
      BY <1>0, <2>2, <3>6 DEF TailInv
    <3>8. FramesUntorn'
      <4> SUFFICES ASSUME NEW i \in 1..Len(buf') - 1, buf'[i].part = "len"
                   PROVE  buf'[i + 1].part = "payload" /\ Frame(buf'[i + 1]) = Frame(buf'[i])
        BY DEF FramesUntorn, Frame
      <4>1. i \in 1..Len(buf) /\ buf[i].part = "len"
        BY <3>3, <3>4
      <4>2. i # Len(buf)
        BY <3>3, <3>7, <4>1
      <4>3. i \in 1..Len(buf) - 1 /\ buf'[i] = buf[i] /\ buf'[i + 1] = buf[i + 1]
        BY <3>3, <3>4, <4>1, <4>2
      <4> QED
        BY <1>0, <4>1, <4>3 DEF FramesUntorn
    <3> QED
      BY <3>5, <3>8
  <2> QED
    BY <2>1, <2>2
<1>5. ASSUME NEW w \in Writer, WritePayload(w) PROVE TailInv' /\ FramesUntorn'
  <2>1. CASE eof
    BY <1>0, <1>5, <2>1 DEF WritePayload, TailInv, FramesUntorn, TypeOK
  <2>2. CASE ~eof
    <3>1. /\ buf' = Append(buf, out[w]) /\ out[w] \in Items /\ out[w].part = "payload"
          /\ buf \in Seq(Items) /\ Len(buf) \in Nat
      BY <1>0, <1>5, <2>2 DEF WritePayload, TypeOK, OutInv
    <3>2. /\ Len(buf') = Len(buf) + 1 /\ buf'[Len(buf) + 1] = out[w]
          /\ \A i \in 1..Len(buf) : buf'[i] = buf[i]
      BY <3>1, AppendFacts
    <3>3. TailInv'
      BY <3>1, <3>2 DEF TailInv
    <3>4. \A v \in Writer : wpc[v] = "payload" => v = w
      BY <1>0, <1>5 DEF LockInv, WritePayload
    <3>5. buf # <<>> /\ buf[Len(buf)].part = "len" => Frame(out[w]) = Frame(buf[Len(buf)])
      BY <1>0, <2>2, <3>4 DEF TailInv
    <3>6. FramesUntorn'
      <4> SUFFICES ASSUME NEW i \in 1..Len(buf') - 1, buf'[i].part = "len"
                   PROVE  buf'[i + 1].part = "payload" /\ Frame(buf'[i + 1]) = Frame(buf'[i])
        BY DEF FramesUntorn, Frame
      <4>1. i \in 1..Len(buf) /\ buf[i].part = "len" /\ buf'[i] = buf[i]
        BY <3>1, <3>2
      <4>2. CASE i = Len(buf)
        BY <3>1, <3>2, <3>5, <4>1, <4>2
      <4>3. CASE i # Len(buf)
        <5>1. i \in 1..Len(buf) - 1 /\ buf'[i + 1] = buf[i + 1]
          BY <3>1, <3>2, <4>1, <4>3
        <5> QED
          BY <1>0, <4>1, <5>1 DEF FramesUntorn
      <4> QED
        BY <4>2, <4>3
    <3> QED
      BY <3>3, <3>6
  <2> QED
    BY <2>1, <2>2
<1>6. ASSUME NEW r \in Reader, ReadExact(r) PROVE TailInv' /\ FramesUntorn'
  <2>1. CASE buf # <<>>
    <3>1. buf' = Tail(buf) /\ UNCHANGED <<eof, wpc, out>> /\ buf \in Seq(Items)
      BY <1>0, <1>6, <2>1 DEF ReadExact, writerVars, TypeOK
    <3>2. /\ Len(buf) \in Nat \ {0} /\ Len(buf') = Len(buf) - 1 /\ buf' \in Seq(Items)
          /\ \A i \in 1..Len(buf) - 1 : buf'[i] = buf[i + 1]
      BY <2>1, <3>1, TailFacts
    <3>3. TailInv'
      <4>1. buf' # <<>> => Len(buf') \in 1..Len(buf) - 1 /\ buf'[Len(buf')] = buf[Len(buf)]
        BY <3>2
      <4> QED
        BY <1>0, <2>1, <3>1, <4>1 DEF TailInv
    <3>4. FramesUntorn'
      <4> SUFFICES ASSUME NEW i \in 1..Len(buf') - 1, buf'[i].part = "len"
                   PROVE  buf'[i + 1].part = "payload" /\ Frame(buf'[i + 1]) = Frame(buf'[i])
        BY DEF FramesUntorn, Frame
      <4>1. /\ i + 1 \in 1..Len(buf) - 1
            /\ buf'[i] = buf[i + 1] /\ buf'[i + 1] = buf[(i + 1) + 1]
        BY <3>2
      <4> QED
        BY <1>0, <4>1 DEF FramesUntorn
    <3> QED
      BY <3>3, <3>4
  <2>2. CASE buf = <<>>
    BY <1>0, <1>1, <1>6, <2>2 DEF ReadExact, writerVars
  <2> QED
    BY <2>1, <2>2
<1>7. ASSUME NEW r \in Reader, ReadCall(r) \/ LockReader(r) \/ Decode(r)
      PROVE  TailInv' /\ FramesUntorn'
  BY <1>1, <1>7 DEF ReadCall, LockReader, Decode, writerVars
<1>8. CASE Pause \/ Resume \/ Close \/ CloseStream
  BY <1>0, <1>1, <1>8 DEF Pause, Resume, Close, CloseStream, NotifyAll, writerVars, TypeOK
<1>9. CASE EnableEncryption \/ DisableEncryption \/ UNCHANGED vars
  BY <1>1, <1>9 DEF EnableEncryption, DisableEncryption, vars, writerVars
<1> QED
  BY <1>2, <1>3, <1>4, <1>5, <1>6, <1>7, <1>8, <1>9 DEF Next, WriterStep, ReaderStep

\* The strengthened invariant holds throughout.
THEOREM FrameInvariant == Spec => []FrameInv
<1>1. Init => FrameInv
  BY TypeInit DEF Init, FrameInv, GotInv, LockInv, OutInv, TailInv, FramesUntorn, Payload
<1>2. FrameInv /\ [Next]_vars => FrameInv'
  BY TypeStep, GotStep, LockStep, FrameStep DEF FrameInv
<1> QED
  BY <1>1, <1>2, PTL DEF Spec

\* Whoever writes and whenever the channel is closed, every length on the stream is
\* followed by its own payload: the writer lock of write is enough.
THEOREM FramesSafe == Spec => []FramesUntorn
  BY FrameInvariant, PTL DEF FrameInv

-------------------------------------------------------------------------------

\* Part of a reader's program is run under the reader lock.
ReaderLockInv == \A r \in Reader : rpc[r] \in {"len", "payload"} => readerLock = r

\* A payload on the stream is followed by the length of the next frame.
Alternates ==
    \A i \in 1..Len(buf) - 1 : buf[i].part = "payload" => buf[i + 1].part = "len"

\* The stream starts with a length, unless a reader has taken that and waits for its
\* payload, which is next or still to be written.
HeadInv ==
    /\ (\A r \in Reader : rpc[r] # "payload") /\ buf # <<>> => buf[1].part = "len"
    /\ \A r \in Reader : rpc[r] = "payload" /\ buf # <<>> =>
          buf[1].part = "payload" /\ Frame(buf[1]) = Frame(got[r][1])
    /\ \A r \in Reader : rpc[r] = "payload" /\ buf = <<>> /\ ~eof =>
          \E w \in Writer : wpc[w] = "payload" /\ Frame(out[w]) = Frame(got[r][1])

\* The length a writer has written is the last item, or has been taken by a reader.
PendingInv ==
    \A w \in Writer : wpc[w] = "payload" /\ ~eof =>
        \/ buf # <<>> /\ buf[Len(buf)].part = "len" /\ Frame(buf[Len(buf)]) = Frame(out[w])
        \/ buf = <<>> /\ \E r \in Reader : rpc[r] = "payload" /\ Frame(got[r][1]) = Frame(out[w])

WholeInv == ReaderLockInv /\ Alternates /\ HeadInv /\ PendingInv /\ ReadsWholeFrames

\* A reader holds the lock from the length to the payload.
LEMMA ReaderLockStep == TypeOK /\ ReaderLockInv /\ [Next]_vars => ReaderLockInv'
<1> SUFFICES ASSUME TypeOK, ReaderLockInv, [Next]_vars PROVE ReaderLockInv'
  OBVIOUS
<1> USE ThreadsAssumption DEF TypeOK, ReaderLockInv
<1>1. ASSUME NEW w \in Writer, WriteCall(w) \/ WriterStep(w) PROVE ReaderLockInv'
  BY <1>1 DEF WriterStep, WriteCall, Recheck, Encode, WriteLen, WritePayload, readerVars
<1>2. ASSUME NEW r \in Reader, ReadCall(r) \/ LockReader(r) \/ Decode(r) PROVE ReaderLockInv'
  BY <1>2 DEF ReadCall, LockReader, Decode
<1>3. ASSUME NEW r \in Reader, ReadExact(r) PROVE ReaderLockInv'
  <2>1. readerLock = r /\ \A q \in Reader \ {r} : rpc[q] \notin {"len", "payload"}
    BY <1>3 DEF ReadExact
  <2>2. \A q \in Reader \ {r} : rpc'[q] = rpc[q]
    BY <1>3 DEF ReadExact
  <2>3. rpc'[r] = "payload" => readerLock' = r
    BY <1>3, <2>1 DEF ReadExact
  <2>4. rpc'[r] # "len"
    BY <1>3 DEF ReadExact
  <2> QED
    BY <2>1, <2>2, <2>3, <2>4
<1>4. CASE Pause \/ Resume \/ Close \/ CloseStream
  BY <1>4 DEF Pause, Resume, Close, CloseStream, readerVars
<1>5. CASE EnableEncryption \/ DisableEncryption \/ UNCHANGED vars
  BY <1>5 DEF EnableEncryption, DisableEncryption, vars, readerVars
<1> QED
  BY <1>1, <1>2, <1>3, <1>4, <1>5 DEF Next, ReaderStep

\* A step that moves nothing on the stream, and neither a writer nor a reader into or out
\* of the middle of a frame, keeps the invariant.
LEMMA WholeQuiet ==
    ASSUME WholeInv, ReaderLockInv', buf' = buf, eof' \/ ~eof,
           \A w \in Writer : /\ wpc'[w] = "payload" <=> wpc[w] = "payload"
                             /\ wpc[w] = "payload" => out'[w] = out[w],
           \A r \in Reader : /\ rpc'[r] = "payload" <=> rpc[r] = "payload"
                             /\ got'[r] = got[r] \/ (got'[r] = <<>> /\ rpc[r] # "payload")
    PROVE  WholeInv'
<1> USE DEF WholeInv
<1>1. Alternates'
  BY DEF Alternates
<1>2. \A r \in Reader : rpc[r] = "payload" => got'[r] = got[r]
  OBVIOUS
<1>3. HeadInv'
  BY <1>2 DEF HeadInv
<1>4. PendingInv'
  BY <1>2 DEF PendingInv
<1>5. ReadsWholeFrames'
  BY DEF ReadsWholeFrames
<1> QED
  BY <1>1, <1>3, <1>4, <1>5

\* The first item of a sequence that is not empty.
LEMMA HeadIsFirst ==
    ASSUME NEW S, NEW s \in Seq(S), s # <<>>
    PROVE  Head(s) = s[1]
  OBVIOUS

\* A writer completes or begins a frame.
LEMMA WholeWrite ==
    ASSUME FrameInv, WholeInv, ReaderLockInv',
           NEW w \in Writer, WriteLen(w) \/ WritePayload(w)
    PROVE  WholeInv'
<1>0. TypeOK /\ LockInv /\ OutInv /\ HeadInv /\ PendingInv /\ Alternates /\ ReadsWholeFrames
  BY DEF FrameInv, WholeInv
<1>1. ReadsWholeFrames' /\ rpc' = rpc /\ got' = got /\ out' = out /\ eof' = eof
  BY <1>0 DEF WriteLen, WritePayload, readerVars, ReadsWholeFrames
<1>2. \A v \in Writer \ {w} : wpc[v] # "payload" /\ wpc'[v] # "payload"
  BY <1>0 DEF WriteLen, WritePayload, LockInv, TypeOK
<1>3. /\ buf \in Seq(Items) /\ Len(buf) \in Nat /\ out[w] \in Items
      /\ out[w].part = "payload"
      /\ buf # <<>> => 1 \in 1..Len(buf)
  BY <1>0 DEF TypeOK, OutInv
<1>4. CASE eof
  <2>1. buf' = buf /\ eof'
    BY <1>1, <1>4 DEF WriteLen, WritePayload
  <2> QED
    BY <1>0, <1>1, <2>1 DEF WholeInv, HeadInv, PendingInv, Alternates
<1>5. CASE ~eof /\ WriteLen(w)
  <2> DEFINE item == [out[w] EXCEPT !.part = "len"]
  <2>1. item \in Items /\ item.part = "len" /\ Frame(item) = Frame(out[w])
    BY <1>3, LenType
  <2>2. buf' = Append(buf, item) /\ wpc'[w] = "payload" /\ wpc[w] # "payload"
    BY <1>0, <1>5 DEF WriteLen, TypeOK
  <2> HIDE DEF item
  <2>3. /\ Len(buf') = Len(buf) + 1 /\ buf'[Len(buf) + 1] = item /\ buf' # <<>>
        /\ \A i \in 1..Len(buf) : buf'[i] = buf[i]
    BY <1>3, <2>1, <2>2, AppendFacts
  <2>4. buf = <<>> => Len(buf) = 0 /\ buf'[1] = item
    BY <2>3
  <2>5. \A r \in Reader : rpc[r] = "payload" => buf # <<>>
    BY <1>0, <1>2, <1>5, <2>2 DEF HeadInv
  <2>6. HeadInv'
    BY <1>0, <1>1, <1>3, <2>1, <2>3, <2>4, <2>5 DEF HeadInv
  <2>7. PendingInv'
    BY <1>1, <1>2, <2>1, <2>3 DEF PendingInv
  <2>8. Alternates'
    BY <1>0, <1>3, <2>1, <2>3 DEF Alternates
  <2> QED
    BY <1>1, <2>6, <2>7, <2>8 DEF WholeInv
<1>6. CASE ~eof /\ WritePayload(w)
  <2>1. buf' = Append(buf, out[w]) /\ wpc[w] = "payload" /\ wpc'[w] # "payload"
    BY <1>0, <1>6 DEF WritePayload, TypeOK
  <2>2. /\ Len(buf') = Len(buf) + 1 /\ buf'[Len(buf) + 1] = out[w] /\ buf' # <<>>
        /\ \A i \in 1..Len(buf) : buf'[i] = buf[i]
    BY <1>3, <2>1, AppendFacts
  <2>3. buf # <<>> => buf[Len(buf)].part = "len"
    BY <1>0, <1>6, <2>1 DEF PendingInv
  <2>4. Alternates'
    <3> SUFFICES ASSUME NEW i \in 1..Len(buf') - 1, buf'[i].part = "payload"
                 PROVE  buf'[i + 1].part = "len"
      BY DEF Alternates
    <3>1. i \in 1..Len(buf) /\ buf[i].part = "payload" /\ buf # <<>>
      BY <1>3, <2>2
    <3>2. i \in 1..Len(buf) - 1 /\ i + 1 \in 1..Len(buf)
      BY <1>3, <2>3, <3>1
    <3> QED
      BY <1>0, <2>2, <3>1, <3>2 DEF Alternates
  <2>5. PendingInv'
    BY <1>2, <2>1 DEF PendingInv
  <2>6. CASE buf # <<>>
    BY <1>0, <1>1, <1>3, <2>2, <2>4, <2>5, <2>6 DEF HeadInv, WholeInv
  <2>7. CASE buf = <<>>
    <3>1. PICK r \in Reader : rpc[r] = "payload" /\ Frame(got[r][1]) = Frame(out[w])
      BY <1>0, <1>6, <2>1, <2>7 DEF PendingInv
    <3>2. \A q \in Reader : rpc[q] = "payload" => q = r
      BY <3>1 DEF WholeInv, ReaderLockInv
    <3>3. buf'[1] = out[w]
      BY <2>2, <2>7
    <3>4. HeadInv'
      BY <1>1, <1>3, <2>2, <3>1, <3>2, <3>3 DEF HeadInv
    <3> QED
      BY <1>1, <2>4, <2>5, <3>4 DEF WholeInv
  <2> QED
    BY <2>6, <2>7
<1> QED
  BY <1>4, <1>5, <1>6

\* A reader takes the length or the payload of a frame, or meets the end of the stream.
LEMMA WholeRead ==
    ASSUME FrameInv, WholeInv, ReaderLockInv', NEW r \in Reader, ReadExact(r)
    PROVE  WholeInv'
<1>0. /\ TypeOK /\ GotInv /\ TailInv /\ FramesUntorn
      /\ ReaderLockInv /\ HeadInv /\ PendingInv /\ Alternates /\ ReadsWholeFrames
  BY DEF FrameInv, WholeInv
<1>1. UNCHANGED <<eof, wpc, out>>
  BY DEF ReadExact, writerVars
<1>2. /\ \A q \in Reader \ {r} : rpc[q] # "payload" /\ rpc'[q] = rpc[q] /\ got'[q] = got[q]
      /\ rpc[r] \in {"len", "payload"}
  BY <1>0 DEF ReadExact, ReaderLockInv, TypeOK
<1>3. CASE buf = <<>>
  <2>1. buf' = buf /\ got' = got /\ eof /\ eof'
    BY <1>1, <1>3 DEF ReadExact
  <2> QED
    BY <1>0, <1>3, <2>1 DEF WholeInv, HeadInv, PendingInv, Alternates, ReadsWholeFrames
<1>4. CASE buf # <<>>
  <2>1. /\ buf \in Seq(Items) /\ got[r] \in Seq(Items) /\ buf' = Tail(buf)
        /\ got'[r] = Append(got[r], Head(buf))
        /\ rpc'[r] = IF rpc[r] = "len" THEN "payload" ELSE "decode"
    BY <1>0, <1>4 DEF ReadExact, TypeOK
  <2>2. /\ Len(buf) \in Nat \ {0} /\ Len(buf') = Len(buf) - 1 /\ buf' \in Seq(Items)
        /\ \A i \in 1..Len(buf) - 1 : buf'[i] = buf[i + 1]
        /\ Head(buf) \in Items /\ Head(buf) = buf[1]
    BY <1>4, <2>1, TailFacts, HeadIsFirst
  <2>3. buf' # <<>> => /\ Len(buf) > 1 /\ 1 \in 1..Len(buf) - 1
                       /\ buf'[1] = buf[2] /\ buf'[Len(buf')] = buf[Len(buf)]
    BY <2>2
  <2>4. buf' = <<>> => Len(buf) = 1
    BY <2>2
  <2>5. /\ Len(got'[r]) = Len(got[r]) + 1 /\ got'[r][Len(got[r]) + 1] = buf[1]
        /\ \A i \in 1..Len(got[r]) : got'[r][i] = got[r][i]
    BY <2>1, <2>2, AppendFacts
  <2>6. Alternates'
    <3> SUFFICES ASSUME NEW i \in 1..Len(buf') - 1, buf'[i].part = "payload"
                 PROVE  buf'[i + 1].part = "len"
      BY DEF Alternates
    <3>1. /\ i + 1 \in 1..Len(buf) - 1
          /\ buf'[i] = buf[i + 1] /\ buf'[i + 1] = buf[(i + 1) + 1]
      BY <2>2
    <3> QED
      BY <1>0, <3>1 DEF Alternates
  <2>7. CASE rpc[r] = "len"
    <3>1. Len(got[r]) = 0 /\ Len(got'[r]) = 1 /\ got'[r][1] = buf[1] /\ rpc'[r] = "payload"
      BY <1>0, <2>1, <2>5, <2>7 DEF GotInv
    <3>2. buf[1].part = "len"
      BY <1>0, <1>2, <1>4, <2>7 DEF HeadInv
    <3>3. ReadsWholeFrames'
      BY <1>0, <1>2, <3>1, <3>2 DEF ReadsWholeFrames
    <3>4. buf' # <<>> => buf'[1].part = "payload" /\ Frame(buf'[1]) = Frame(got'[r][1])
      BY <1>0, <2>3, <3>1, <3>2 DEF FramesUntorn
    <3>5. buf' = <<>> /\ ~eof =>
             \E w \in Writer : wpc[w] = "payload" /\ Frame(out[w]) = Frame(got'[r][1])
      BY <1>0, <1>4, <2>4, <3>1, <3>2 DEF TailInv
    <3>6. HeadInv'
      BY <1>1, <1>2, <3>1, <3>4, <3>5 DEF HeadInv
    <3>7. PendingInv'
      BY <1>0, <1>1, <1>4, <2>3, <2>4, <3>1 DEF PendingInv
    <3> QED
      BY <2>6, <3>3, <3>6, <3>7 DEF WholeInv
  <2>8. CASE rpc[r] = "payload"
    <3>1. Len(got[r]) = 1 /\ rpc'[r] = "decode"
      BY <1>0, <2>1, <2>8 DEF GotInv
    <3>2. Len(got'[r]) = 2 /\ got'[r][1] = got[r][1] /\ got'[r][2] = buf[1] /\ got[r] # <<>>
      BY <2>5, <3>1
    <3>3. buf[1].part = "payload" /\ Frame(buf[1]) = Frame(got[r][1])
      BY <1>0, <1>4, <2>8 DEF HeadInv
    <3>4. ReadsWholeFrames'
      BY <1>0, <1>2, <3>2, <3>3 DEF ReadsWholeFrames
    <3>5. buf' # <<>> => buf'[1].part = "len"
      BY <1>0, <2>3, <3>3 DEF Alternates
    <3>6. HeadInv'
      BY <1>2, <3>1, <3>5 DEF HeadInv
    <3>7. PendingInv'
      <4>1. buf[Len(buf)].part = "len" => buf' # <<>>
        BY <2>4, <3>3
      <4> QED
        BY <1>0, <1>1, <1>4, <2>3, <4>1 DEF PendingInv
    <3> QED
      BY <2>6, <3>4, <3>6, <3>7 DEF WholeInv
  <2> QED
    BY <1>2, <2>7, <2>8
<1> QED
  BY <1>3, <1>4

\* Every step keeps frames whole for the readers.
LEMMA WholeStep == FrameInv /\ WholeInv /\ [Next]_vars => WholeInv'
<1> SUFFICES ASSUME FrameInv, WholeInv, [Next]_vars PROVE WholeInv'
  OBVIOUS
<1>0. TypeOK /\ GotInv /\ ReaderLockInv /\ ReaderLockInv'
  BY ReaderLockStep DEF FrameInv, WholeInv
<1>1. ASSUME NEW w \in Writer, WriteCall(w) \/ Recheck(w) \/ Encode(w) PROVE WholeInv'
  BY <1>0, <1>1, WholeQuiet DEF WriteCall, Recheck, Encode, TypeOK, readerVars
<1>2. ASSUME NEW w \in Writer, WriteLen(w) \/ WritePayload(w) PROVE WholeInv'
  BY <1>0, <1>2, WholeWrite
<1>3. ASSUME NEW r \in Reader, ReadCall(r) \/ LockReader(r) \/ Decode(r) PROVE WholeInv'
  BY <1>0, <1>3, WholeQuiet DEF ReadCall, LockReader, Decode, TypeOK, writerVars
<1>4. ASSUME NEW r \in Reader, ReadExact(r) PROVE WholeInv'
  BY <1>0, <1>4, WholeRead
<1>5. CASE Pause \/ Resume \/ Close \/ CloseStream
  BY <1>0, <1>5, WholeQuiet
     DEF Pause, Resume, Close, CloseStream, NotifyAll, writerVars, readerVars, TypeOK
<1>6. CASE EnableEncryption \/ DisableEncryption \/ UNCHANGED vars
  BY <1>0, <1>6, WholeQuiet DEF EnableEncryption, DisableEncryption, vars, writerVars, readerVars
<1> QED
  BY <1>1, <1>2, <1>3, <1>4, <1>5, <1>6 DEF Next, WriterStep, ReaderStep

\* However many threads read, each takes frames off the stream whole: a length and then
\* that frame's payload.  The reader lock of read is enough, given the writers' lock.
THEOREM ReadsSafe == Spec => []ReadsWholeFrames
<1>1. Init => WholeInv
  BY DEF Init, WholeInv, ReaderLockInv, Alternates, HeadInv, PendingInv, ReadsWholeFrames
<1>2. FrameInv /\ WholeInv /\ [Next]_vars => WholeInv'
  BY WholeStep
<1>3. WholeInv => ReadsWholeFrames
  BY DEF WholeInv
<1> QED
  BY <1>1, <1>2, <1>3, FrameInvariant, PTL DEF Spec

-------------------------------------------------------------------------------

\* A payload that went through the cipher.
Sealed(item) == item.part = "payload" /\ item.seq # 0

\* A writer that has encoded its payload and not yet written it.
Holds(w) == wpc[w] \in {"len", "payload"} /\ out[w].seq # 0

\* No counter was used that the cipher has not reached, and what a writer is about to write
\* was encoded after everything on the stream.
CipherInv ==
    /\ \A i \in 1..Len(buf) : buf[i].seq <= encoded
    /\ \A w \in Writer : out[w].seq <= encoded
    /\ \A w \in Writer, i \in 1..Len(buf) : Holds(w) /\ Sealed(buf[i]) => buf[i].seq < out[w].seq
    /\ WireInCipherOrder

\* Everything on the stream, and in the hands of a writer, comes after counter n.
AllAfter(n) ==
    /\ n <= encoded
    /\ \A i \in 1..Len(buf) : Sealed(buf[i]) => n < buf[i].seq
    /\ \A w \in Writer : Holds(w) => n < out[w].seq

\* What is still to be decoded comes after what was, and the payload a reader has taken is
\* the next one.
DecodeInv ==
    /\ AllAfter(decoded)
    /\ \A r \in Reader : rpc[r] = "decode" /\ got[r][2].seq # 0 =>
          decoded < got[r][2].seq /\ AllAfter(got[r][2].seq)

\* The counter of an item is a number.
LEMMA SeqTypes ==
    ASSUME TypeOK
    PROVE  /\ encoded \in Nat /\ decoded \in Nat /\ Len(buf) \in Nat
           /\ \A i \in 1..Len(buf) : buf[i].seq \in Nat
           /\ \A w \in Writer : out[w].seq \in Nat
<1>1. \A i \in 1..Len(buf) : buf[i] \in Items
  BY DEF TypeOK
<1>2. \A w \in Writer : out[w] \in Items
  BY DEF TypeOK
<1> QED
  BY <1>1, <1>2 DEF TypeOK, Items

\* What Encode does, whether it fails or not.
LEMMA EncodeFacts ==
    ASSUME TypeOK, LockInv, NEW w \in Writer, Encode(w)
    PROVE  /\ buf' = buf /\ encoded' \in {encoded, encoded + 1}
           /\ \A v \in Writer : ~Holds(v)
           /\ \A v \in Writer \ {w} : out'[v] = out[v] /\ wpc'[v] = wpc[v]
           /\ \/ out'[w] = out[w] /\ wpc'[w] = "idle"
              \/ out'[w].seq = 0
              \/ out'[w].seq = encoded' /\ encoded' = encoded + 1
<1> USE ThreadsAssumption
<1>1. \A n : Payload(w, calls[w], n).seq = n
  BY DEF Payload
<1>2. \A v \in Writer : wpc[v] \notin {"len", "payload"}
  BY DEF LockInv, Encode, TypeOK
<1>3. \A v \in Writer \ {w} : out'[v] = out[v] /\ wpc'[v] = wpc[v]
  BY DEF Encode, TypeOK
<1>4. buf' = buf /\ encoded' \in {encoded, encoded + 1}
  BY DEF Encode
<1>5. \/ out'[w] = out[w] /\ wpc'[w] = "idle"
      \/ out'[w].seq = 0
      \/ out'[w].seq = encoded' /\ encoded' = encoded + 1
  <2>1. CASE out' = out /\ wpc' = [wpc EXCEPT ![w] = "idle"]
    BY <2>1 DEF TypeOK
  <2>2. CASE /\ out' = [out EXCEPT ![w] = Payload(w, calls[w], IF cipher THEN encoded' ELSE 0)]
             /\ encoded' = IF cipher THEN encoded + 1 ELSE encoded
    <3>1. out'[w].seq = IF cipher THEN encoded' ELSE 0
      BY <1>1, <2>2 DEF TypeOK
    <3> QED
      BY <2>2, <3>1
  <2> QED
    BY <2>1, <2>2 DEF Encode
<1> QED
  BY <1>2, <1>3, <1>4, <1>5 DEF Holds

\* A step that leaves the stream, the cipher and what the writers hold alone.
LEMMA CipherQuiet ==
    ASSUME CipherInv, buf' = buf, encoded' = encoded, out' = out,
           \A w \in Writer : Holds(w)' => Holds(w)
    PROVE  CipherInv'
  BY DEF CipherInv, WireInCipherOrder

\* Every step keeps the stream in the order of the cipher.
LEMMA CipherStep == TypeOK /\ LockInv /\ CipherInv /\ [Next]_vars => CipherInv'
<1> SUFFICES ASSUME TypeOK, LockInv, CipherInv, [Next]_vars PROVE CipherInv'
  OBVIOUS
<1>0. /\ encoded \in Nat /\ Len(buf) \in Nat
      /\ \A i \in 1..Len(buf) : buf[i].seq \in Nat
      /\ \A w \in Writer : out[w].seq \in Nat
  BY SeqTypes
<1>1. ASSUME NEW w \in Writer, WriteCall(w) \/ Recheck(w) PROVE CipherInv'
  BY <1>1, CipherQuiet DEF WriteCall, Recheck, cipherVars, Holds, TypeOK
<1>2. ASSUME NEW w \in Writer, Encode(w) PROVE CipherInv'
  <2>1. /\ buf' = buf /\ encoded' \in {encoded, encoded + 1}
        /\ \A v \in Writer : ~Holds(v)
        /\ \A v \in Writer \ {w} : out'[v] = out[v] /\ wpc'[v] = wpc[v]
        /\ \/ out'[w] = out[w] /\ wpc'[w] = "idle"
           \/ out'[w].seq = 0
           \/ out'[w].seq = encoded' /\ encoded' = encoded + 1
    BY <1>2, EncodeFacts
  <2>2. \A v \in Writer : out'[v].seq <= encoded'
    BY <1>0, <2>1 DEF CipherInv
  <2>3. \A v \in Writer : Holds(v)' => out'[v].seq = encoded + 1
    BY <2>1 DEF Holds
  <2>4. \A i \in 1..Len(buf) : buf[i].seq <= encoded /\ buf[i].seq < encoded + 1
    BY <1>0 DEF CipherInv
  <2> QED
    BY <1>0, <2>1, <2>2, <2>3, <2>4 DEF CipherInv, WireInCipherOrder
<1>3. ASSUME NEW w \in Writer, WriteLen(w) \/ WritePayload(w), eof PROVE CipherInv'
  BY <1>3, CipherQuiet DEF WriteLen, WritePayload, cipherVars, Holds, TypeOK
<1>4. ASSUME NEW w \in Writer, WriteLen(w), ~eof PROVE CipherInv'
  <2> DEFINE item == [out[w] EXCEPT !.part = "len"]
  <2>1. item \in Items /\ item.part = "len" /\ item.seq = out[w].seq
    BY LenType DEF TypeOK
  <2>2. /\ buf' = Append(buf, item) /\ encoded' = encoded /\ out' = out
        /\ \A v \in Writer : Holds(v)' <=> Holds(v)
    BY <1>4 DEF WriteLen, cipherVars, Holds, TypeOK
  <2> HIDE DEF item
  <2>3. /\ Len(buf') = Len(buf) + 1 /\ buf'[Len(buf) + 1] = item
        /\ \A i \in 1..Len(buf) : buf'[i] = buf[i]
    BY <2>1, <2>2, AppendFacts DEF TypeOK
  <2>4. \A i \in 1..Len(buf') : buf'[i] = item \/ (i \in 1..Len(buf) /\ buf'[i] = buf[i])
    BY <1>0, <2>3
  <2>5. ~Sealed(item)
    BY <2>1 DEF Sealed
  <2>6. WireInCipherOrder'
    BY <2>1, <2>4 DEF CipherInv, WireInCipherOrder
  <2> QED
    BY <2>1, <2>2, <2>4, <2>5, <2>6 DEF CipherInv
<1>5. ASSUME NEW w \in Writer, WritePayload(w), ~eof PROVE CipherInv'
  <2>1. /\ buf' = Append(buf, out[w]) /\ encoded' = encoded /\ out' = out
        /\ \A v \in Writer : ~Holds(v)'
        /\ out[w].seq # 0 => Holds(w)
    BY <1>5 DEF WritePayload, cipherVars, Holds, LockInv, TypeOK
  <2>2. /\ Len(buf') = Len(buf) + 1 /\ buf'[Len(buf) + 1] = out[w]
        /\ \A i \in 1..Len(buf) : buf'[i] = buf[i]
    BY <2>1, AppendFacts DEF TypeOK
  <2>4. \A i \in 1..Len(buf') : /\ i = Len(buf) + 1 => buf'[i] = out[w]
                                /\ i # Len(buf) + 1 => i \in 1..Len(buf) /\ buf'[i] = buf[i]
    BY <1>0, <2>2
  <2>5. \A i \in 1..Len(buf) : Sealed(buf[i]) /\ out[w].seq # 0 => buf[i].seq < out[w].seq
    BY <2>1 DEF CipherInv
  <2>6. WireInCipherOrder'
    <3> SUFFICES ASSUME NEW i \in 1..Len(buf'), NEW j \in 1..Len(buf'), i < j,
                        Sealed(buf'[i]), Sealed(buf'[j])
                 PROVE  buf'[i].seq < buf'[j].seq
      BY DEF WireInCipherOrder, Sealed
    <3>1. i \in 1..Len(buf) /\ buf'[i] = buf[i]
      BY <1>0, <2>2, <2>4
    <3>2. CASE j = Len(buf) + 1
      BY <2>4, <2>5, <3>1, <3>2 DEF Sealed
    <3>3. CASE j # Len(buf) + 1
      BY <2>4, <3>1, <3>3 DEF CipherInv, WireInCipherOrder, Sealed
    <3> QED
      BY <3>2, <3>3
  <2> QED
    BY <2>1, <2>4, <2>6 DEF CipherInv
<1>6. ASSUME NEW r \in Reader, ReadExact(r), buf # <<>> PROVE CipherInv'
  <2>1. buf' = Tail(buf) /\ encoded' = encoded /\ out' = out /\ wpc' = wpc
    BY <1>6 DEF ReadExact, cipherVars, writerVars
  <2>2. /\ Len(buf) \in Nat \ {0} /\ Len(buf') = Len(buf) - 1
        /\ \A i \in 1..Len(buf) - 1 : buf'[i] = buf[i + 1]
    BY <1>6, <2>1, TailFacts DEF TypeOK
  <2>3. \A i \in 1..Len(buf') : i + 1 \in 1..Len(buf) /\ buf'[i] = buf[i + 1]
    BY <2>2
  <2>4. WireInCipherOrder'
    <3> SUFFICES ASSUME NEW i \in 1..Len(buf'), NEW j \in 1..Len(buf'), i < j,
                        Sealed(buf'[i]), Sealed(buf'[j])
                 PROVE  buf'[i].seq < buf'[j].seq
      BY DEF WireInCipherOrder, Sealed
    <3>1. i + 1 < j + 1
      BY <2>2
    <3> QED
      BY <2>3, <3>1 DEF CipherInv, WireInCipherOrder, Sealed
  <2> QED
    BY <2>1, <2>3, <2>4 DEF CipherInv, Holds
<1>7. ASSUME NEW r \in Reader, ReadCall(r) \/ LockReader(r) \/ Decode(r) \/ ReadExact(r),
             UNCHANGED buf
      PROVE  CipherInv'
  BY <1>7, CipherQuiet DEF ReadCall, LockReader, Decode, ReadExact, cipherVars, writerVars, Holds
<1>8. CASE Pause \/ Resume \/ Close \/ CloseStream
  BY <1>8, CipherQuiet
     DEF Pause, Resume, Close, CloseStream, NotifyAll, cipherVars, writerVars, Holds, TypeOK
<1>9. CASE EnableEncryption \/ DisableEncryption \/ UNCHANGED vars
  BY <1>9, CipherQuiet DEF EnableEncryption, DisableEncryption, vars, cipherVars, writerVars, Holds
<1>10. ASSUME NEW r \in Reader, ReaderStep(r) \/ ReadCall(r) PROVE CipherInv'
  BY <1>6, <1>7, <1>10 DEF ReaderStep, ReadCall, LockReader, Decode, ReadExact
<1> QED
  BY <1>1, <1>2, <1>3, <1>4, <1>5, <1>8, <1>9, <1>10 DEF Next, WriterStep

\* Encrypted payloads enter the stream in the order in which they were encoded, whatever the
\* writers and the switches of encryption do: it is enough that write encodes under the
\* writer lock.
THEOREM CipherOrderSafe == Spec => []WireInCipherOrder
<1>1. Init => CipherInv
  BY DEF Init, CipherInv, WireInCipherOrder, Holds, Payload
<1>2. FrameInv /\ CipherInv /\ [Next]_vars => CipherInv'
  BY CipherStep DEF FrameInv
<1>3. CipherInv => WireInCipherOrder
  BY DEF CipherInv
<1> QED
  BY <1>1, <1>2, <1>3, FrameInvariant, PTL DEF Spec

\* A step that leaves the stream and what the writers hold alone, and does not turn the
\* cipher back, keeps what comes after n.
LEMMA AfterQuiet ==
    ASSUME NEW n, AllAfter(n), buf' = buf, n <= encoded', out' = out,
           \A w \in Writer : Holds(w)' => Holds(w)
    PROVE  AllAfter(n)'
  BY DEF AllAfter

\* Nothing a writer does puts anything before a counter that was in use.
LEMMA AfterWrite ==
    ASSUME TypeOK, LockInv, OutInv, NEW n \in Nat, AllAfter(n),
           NEW w \in Writer, WriteCall(w) \/ WriterStep(w)
    PROVE  AllAfter(n)'
<1>0. /\ encoded \in Nat /\ Len(buf) \in Nat /\ n <= encoded
      /\ \A i \in 1..Len(buf) : buf[i].seq \in Nat
      /\ \A v \in Writer : out[v].seq \in Nat
  BY SeqTypes DEF AllAfter
<1>1. CASE WriteCall(w) \/ Recheck(w) \/ (eof /\ (WriteLen(w) \/ WritePayload(w)))
  BY <1>0, <1>1, AfterQuiet
     DEF WriteCall, Recheck, WriteLen, WritePayload, cipherVars, Holds, TypeOK
<1>2. CASE Encode(w)
  <2>1. /\ buf' = buf /\ encoded' \in {encoded, encoded + 1}
        /\ \A v \in Writer : ~Holds(v)
        /\ \A v \in Writer \ {w} : out'[v] = out[v] /\ wpc'[v] = wpc[v]
        /\ \/ out'[w] = out[w] /\ wpc'[w] = "idle"
           \/ out'[w].seq = 0
           \/ out'[w].seq = encoded' /\ encoded' = encoded + 1
    BY <1>2, EncodeFacts
  <2>2. \A v \in Writer : Holds(v)' => out'[v].seq = encoded + 1
    BY <2>1 DEF Holds
  <2>3. n <= encoded' /\ n < encoded + 1
    BY <1>0, <2>1
  <2> QED
    BY <2>1, <2>2, <2>3 DEF AllAfter
<1>3. CASE WriteLen(w) /\ ~eof
  <2> DEFINE item == [out[w] EXCEPT !.part = "len"]
  <2>1. item \in Items /\ item.part = "len"
    BY LenType DEF TypeOK
  <2>2. /\ buf' = Append(buf, item) /\ encoded' = encoded /\ out' = out
        /\ \A v \in Writer : Holds(v)' <=> Holds(v)
    BY <1>3 DEF WriteLen, cipherVars, Holds, TypeOK
  <2> HIDE DEF item
  <2>3. /\ Len(buf') = Len(buf) + 1 /\ buf'[Len(buf) + 1] = item
        /\ \A i \in 1..Len(buf) : buf'[i] = buf[i]
    BY <2>1, <2>2, AppendFacts DEF TypeOK
  <2>4. \A i \in 1..Len(buf') : buf'[i] = item \/ (i \in 1..Len(buf) /\ buf'[i] = buf[i])
    BY <1>0, <2>3
  <2> QED
    BY <2>1, <2>2, <2>4 DEF AllAfter, Sealed
<1>4. CASE WritePayload(w) /\ ~eof
  <2>1. /\ buf' = Append(buf, out[w]) /\ encoded' = encoded /\ out' = out
        /\ \A v \in Writer : ~Holds(v)'
        /\ out[w].seq # 0 => Holds(w)
    BY <1>4 DEF WritePayload, cipherVars, Holds, LockInv, TypeOK
  <2>2. /\ Len(buf') = Len(buf) + 1 /\ buf'[Len(buf) + 1] = out[w]
        /\ \A i \in 1..Len(buf) : buf'[i] = buf[i]
    BY <2>1, AppendFacts DEF TypeOK
  <2>3. \A i \in 1..Len(buf') : buf'[i] = out[w] \/ (i \in 1..Len(buf) /\ buf'[i] = buf[i])
    BY <1>0, <2>2
  <2> QED
    BY <2>1, <2>3 DEF AllAfter, Sealed
<1> QED
  BY <1>1, <1>2, <1>3, <1>4 DEF WriterStep

\* Every step of a channel with one reader keeps the order of decoding.
LEMMA DecodeStep ==
    ASSUME NEW r \in Reader, Reader = {r},
           FrameInv, WholeInv, CipherInv, DecodeInv, [Next]_vars
    PROVE  DecodeInv' /\ (decoded' # decoded => decoded' > decoded)
<1> DEFINE next == got[r][2].seq
<1>0. TypeOK /\ GotInv /\ LockInv /\ OutInv
  BY DEF FrameInv
<1>1. /\ encoded \in Nat /\ decoded \in Nat /\ Len(buf) \in Nat
      /\ \A i \in 1..Len(buf) : buf[i].seq \in Nat
      /\ \A v \in Writer : out[v].seq \in Nat
  BY <1>0, SeqTypes
<1>2. rpc[r] = "decode" => next \in Nat
  <2>1. rpc[r] = "decode" => got[r] \in Seq(Items) /\ Len(got[r]) = 2
    BY <1>0 DEF TypeOK, GotInv
  <2>2. rpc[r] = "decode" => got[r][2] \in Items
    BY <2>1, SecondItem
  <2> QED
    BY <2>2 DEF Items
<1>3. /\ AllAfter(decoded)
      /\ rpc[r] = "decode" /\ next # 0 => decoded < next /\ AllAfter(next)
  BY DEF DecodeInv
<1> HIDE DEF next
<1>4. ASSUME decoded' = decoded, got' = got, rpc'[r] = "decode" => rpc[r] = "decode",
             \A n \in Nat : AllAfter(n) => AllAfter(n)'
      PROVE  DecodeInv'
  <2>1. AllAfter(decoded)'
    BY <1>1, <1>3, <1>4 DEF AllAfter
  <2>2. rpc'[r] = "decode" /\ got'[r][2].seq # 0 =>
           decoded' < got'[r][2].seq /\ AllAfter(got[r][2].seq)'
    BY <1>2, <1>3, <1>4 DEF next
  <2>3. got'[r][2].seq = got[r][2].seq
    BY <1>4
  <2>4. rpc'[r] = "decode" /\ got'[r][2].seq # 0 => AllAfter(got[r][2].seq)'
    BY <2>2, <2>3 DEF AllAfter
  <2> QED
    BY <2>1, <2>2, <2>4 DEF DecodeInv
<1>5. ASSUME NEW w \in Writer, WriteCall(w) \/ WriterStep(w)
      PROVE  DecodeInv' /\ decoded' = decoded
  <2>1. decoded' = decoded /\ got' = got /\ rpc' = rpc
    BY <1>5 DEF WriterStep, WriteCall, Recheck, Encode, WriteLen, WritePayload,
                cipherVars, readerVars
  <2>2. \A n \in Nat : AllAfter(n) => AllAfter(n)'
    BY <1>0, <1>5, AfterWrite
  <2> QED
    BY <1>4, <2>1, <2>2
<1>6. CASE Pause \/ Resume \/ Close \/ CloseStream \/ EnableEncryption \/ DisableEncryption
           \/ UNCHANGED vars
  <2>1. /\ UNCHANGED <<decoded, encoded, buf, out, got, rpc>>
        /\ \A w \in Writer : Holds(w)' => Holds(w)
    BY <1>0, <1>6 DEF Pause, Resume, Close, CloseStream, EnableEncryption, DisableEncryption,
                vars, cipherVars, writerVars, readerVars, NotifyAll, Holds, TypeOK
  <2>2. \A n \in Nat : AllAfter(n) => AllAfter(n)'
    BY <2>1 DEF AllAfter
  <2> QED
    BY <1>4, <2>1, <2>2
<1>7. CASE ReadCall(r) \/ LockReader(r) \/ (ReadExact(r) /\ buf = <<>>)
  <2>1. UNCHANGED <<decoded, encoded, buf, out, wpc>> /\ rpc'[r] # "decode"
    BY <1>0, <1>7 DEF ReadCall, LockReader, ReadExact, cipherVars, writerVars, TypeOK
  <2>2. AllAfter(decoded)'
    BY <1>3, <2>1 DEF AllAfter, Holds
  <2> QED
    BY <2>1, <2>2 DEF DecodeInv
<1>8. CASE Decode(r)
  <2>1. /\ UNCHANGED <<encoded, buf, out, wpc>> /\ rpc'[r] # "decode" /\ rpc[r] = "decode"
        /\ decoded' = decoded \/ (decoded' = next /\ next # 0)
    BY <1>0, <1>8 DEF Decode, writerVars, TypeOK, next
  <2>2. AllAfter(decoded)'
    BY <1>3, <2>1 DEF AllAfter, Holds
  <2>3. decoded' # decoded => decoded' > decoded
    BY <1>1, <1>2, <1>3, <2>1
  <2> QED
    BY <2>1, <2>2, <2>3 DEF DecodeInv
<1>9. CASE ReadExact(r) /\ buf # <<>>
  <2>1. /\ UNCHANGED <<decoded, encoded, out, wpc>> /\ buf' = Tail(buf)
        /\ buf \in Seq(Items) /\ got[r] \in Seq(Items)
        /\ got'[r] = Append(got[r], Head(buf)) /\ rpc[r] \in {"len", "payload"}
        /\ rpc'[r] = "decode" => rpc[r] = "payload"
    BY <1>0, <1>9 DEF ReadExact, cipherVars, writerVars, TypeOK
  <2>2. /\ Len(buf) \in Nat \ {0} /\ Len(buf') = Len(buf) - 1
        /\ \A i \in 1..Len(buf) - 1 : buf'[i] = buf[i + 1]
        /\ Head(buf) \in Items /\ Head(buf) = buf[1]
    BY <1>9, <2>1, TailFacts, HeadIsFirst
  <2>3. \A i \in 1..Len(buf') : i + 1 \in 1..Len(buf) /\ 1 < i + 1 /\ buf'[i] = buf[i + 1]
    BY <2>2
  <2>4. 1 \in 1..Len(buf)
    BY <2>2
  <2>5. AllAfter(decoded)'
    BY <1>3, <2>1, <2>3 DEF AllAfter, Holds
  <2>6. ASSUME rpc'[r] = "decode", got'[r][2].seq # 0
        PROVE  decoded' < got'[r][2].seq /\ AllAfter(got[r][2].seq)'
    <3>1. Len(got[r]) = 1 /\ got'[r][2] = buf[1]
      <4>1. Len(got[r]) = 1
        BY <1>0, <2>1, <2>6 DEF GotInv
      <4> QED
        BY <2>1, <2>2, <4>1, AppendFacts
    <3>2. Sealed(buf[1])
      BY <1>9, <2>1, <2>6, <3>1 DEF WholeInv, HeadInv, Sealed
    <3>3. decoded < buf[1].seq /\ buf[1].seq <= encoded
      BY <1>3, <2>4, <3>2 DEF AllAfter, CipherInv
    <3>4. \A i \in 1..Len(buf') : Sealed(buf'[i]) => buf[1].seq < buf'[i].seq
      BY <2>3, <2>4, <3>2 DEF CipherInv, WireInCipherOrder, Sealed
    <3>5. \A w \in Writer : Holds(w)' => buf[1].seq < out'[w].seq
      BY <2>1, <2>4, <3>2 DEF CipherInv, Holds
    <3> QED
      BY <2>1, <3>1, <3>3, <3>4, <3>5 DEF AllAfter
  <2> QED
    BY <2>1, <2>5, <2>6 DEF DecodeInv
<1> QED
  BY <1>5, <1>6, <1>7, <1>8, <1>9 DEF Next, ReaderStep, ReadExact

\* A channel that only one thread reads decodes encrypted payloads in the order of their
\* counters, also around enable_encryption and disable_encryption, and although decoding
\* happens after the reader lock is let go.
THEOREM DecodesSafe ==
    ASSUME NEW r \in Reader, Reader = {r}
    PROVE  Spec => DecodesInOrder
<1> DEFINE Inv == FrameInv /\ WholeInv /\ CipherInv /\ DecodeInv
<1>1. Init => Inv
  <2>1. Init => FrameInv
    BY TypeInit DEF Init, FrameInv, GotInv, LockInv, OutInv, TailInv, FramesUntorn, Payload
  <2>2. Init => WholeInv /\ CipherInv
    BY DEF Init, WholeInv, ReaderLockInv, Alternates, HeadInv, PendingInv, ReadsWholeFrames,
           CipherInv, WireInCipherOrder, Holds, Payload
  <2>3. Init => DecodeInv
    BY DEF Init, DecodeInv, AllAfter, Holds
  <2> QED
    BY <2>1, <2>2, <2>3
<1>2. Inv /\ [Next]_vars => Inv' /\ [decoded' # decoded => decoded' > decoded]_vars
  BY TypeStep, GotStep, LockStep, FrameStep, WholeStep, CipherStep, DecodeStep DEF FrameInv
<1> QED
  BY <1>1, <1>2, PTL DEF Spec, DecodesInOrder
=============================================================================
