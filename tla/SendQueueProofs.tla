-------------------------- MODULE SendQueueProofs ---------------------------
(***************************************************************************)
(* For any sizes of what is pushed and any split into writes: the streams  *)
(* of a SendQueue are well formed, its assertion holds as long as nothing  *)
(* empty is pushed, and it implements ByteFifo whether or not something    *)
(* empty is pushed. The inductive invariant IInv adds to the types that    *)
(* everything between the cursors of a stream is a byte somebody pushed.   *)
(***************************************************************************)
EXTENDS SendQueueSpec, QueueProofs

IInv == SoundQueue(Byte, sendQueue) /\ pushed \in Nat /\ written \in Seq(Byte)

-----------------------------------------------------------------------------
(***************************************************************************)
(* The steps of the specification.                                         *)
(***************************************************************************)
\* Both ways to push append one stream that holds the next n bytes.
LEMMA PushedStream ==
  ASSUME IInv, NEW n \in Chunks, Push(n)
  PROVE  \E s : /\ SoundStream(Byte, s)
                /\ StreamReadableSize(s) = n
                /\ \A i \in 1 .. n : s.cells[s.m_read + i] = pushed + i
                /\ sendQueue' = Append(sendQueue, s)
<1>1. n \in Nat /\ pushed \in Nat
  BY ChunksAssumption DEF IInv
<1> DEFINE bytes == Fresh(n)
<1>2. bytes \in Seq(Byte) /\ Len(bytes) = n /\ \A i \in 1 .. n : bytes[i] = pushed + i
  <2>1. bytes \in [1 .. n -> Byte]
    BY <1>1 DEF Fresh, Byte
  <2>2. \A i \in 1 .. n : bytes[i] = pushed + i
    BY DEF Fresh
  <2> HIDE DEF bytes
  <2> QED
    BY <1>1, <2>1, <2>2, FunctionIsSeq
<1> HIDE DEF bytes
<1>3. PICK size \in Nat :
             /\ n <= size
             /\ sendQueue' = Append(sendQueue, StreamWrite(NewStream(size), bytes))
  <2>1. CASE sendQueue' = pushData(sendQueue, Fresh(n))
    BY <1>1, <1>2, <2>1 DEF pushData, StreamOf, bytes
  <2>2. CASE \E spare \in Chunks :
               sendQueue' = push(sendQueue, StreamWrite(NewStream(n + spare), Fresh(n)))
    <3>1. PICK spare \in Chunks :
                 sendQueue' = push(sendQueue, StreamWrite(NewStream(n + spare), Fresh(n)))
      BY <2>2
    <3>2. n + spare \in Nat /\ n <= n + spare
      BY <1>1, ChunksAssumption
    <3> QED
      BY <3>1, <3>2 DEF push, bytes
  <2> QED
    BY <2>1, <2>2 DEF Push
<1> DEFINE s == StreamWrite(NewStream(size), bytes)
<1>4. /\ SoundStream(Byte, s)
      /\ StreamReadableSize(s) = n
      /\ s.m_read = 0
      /\ \A i \in 1 .. n : s.cells[i] = bytes[i]
  BY <1>2, <1>3, WrittenStream
<1>5. sendQueue' = Append(sendQueue, s)
  BY <1>3
<1> HIDE DEF s
<1>6. \A i \in 1 .. n : s.cells[s.m_read + i] = pushed + i
  <2> TAKE i \in 1 .. n
  <2>1. 0 + i = i
    BY <1>1
  <2> QED
    BY <1>2, <1>4, <2>1
<1> QED
  BY <1>4, <1>5, <1>6

LEMMA InitIInv == Init => IInv
BY EmptySound DEF Init, IInv

\* One step per action of Next.
LEMMA NextIInv == IInv /\ [Next]_vars => IInv'
<1> SUFFICES ASSUME IInv, [Next]_vars
             PROVE  IInv'
  OBVIOUS
<1>1. ASSUME NEW n \in Chunks, Push(n)
      PROVE  IInv'
  <2>1. PICK s : SoundStream(Byte, s) /\ sendQueue' = Append(sendQueue, s)
    BY <1>1, PushedStream
  <2>2. SoundQueue(Byte, sendQueue')
    BY <2>1, PushGood DEF IInv
  <2>3. pushed' = pushed + n /\ written' = written /\ n \in Nat
    BY <1>1, ChunksAssumption DEF Push
  <2> QED
    BY <2>2, <2>3 DEF IInv
<1>2. ASSUME NEW n \in 1 .. MaxPushed, Sent(n)
      PROVE  IInv'
  <2>1. /\ SoundQueue(Byte, sendQueue) /\ Backlog(sendQueue) \in Nat
        /\ n <= Backlog(sendQueue)
        /\ n \in Nat /\ 1 <= n
    BY <1>2, MaxPushedAssumption, SumsOfQueue DEF IInv, Sent
  <2>2. n \in 1 .. Backlog(sendQueue) /\ n \in 0 .. Backlog(sendQueue)
    BY <2>1
  <2>3. SoundQueue(Byte, consume(sendQueue, n)) /\ FirstBytes(sendQueue, n) \in Seq(Byte)
    BY <2>1, <2>2, ConsumeGood, FirstBytesType
  <2> QED
    BY <1>2, <2>3 DEF IInv, Sent
<1>3. ASSUME Clear
      PROVE  IInv'
  BY <1>3, EmptySound DEF IInv, Clear
<1>4. ASSUME UNCHANGED vars
      PROVE  IInv'
  BY <1>4 DEF IInv, vars, SoundQueue
<1> QED
  BY <1>1, <1>2, <1>3, <1>4 DEF Next

\* The queue holds pushed bytes only, whatever is pushed and whatever part of it
\* the socket takes (SendQueue.cpp:6-54).
THEOREM Inductive == Spec => []IInv
BY InitIInv, NextIInv, PTL DEF Spec

\* Types and cursor bounds: whatever part of the backlog the socket takes, no
\* assertion of Stream.h about cursors can fail in SendQueue, and the socket is
\* given bytes that were pushed only, never the spare memory of a buffer
\* (SendQueue.cpp:6-54, Stream.h:86,106,112).
THEOREM TypeCorrect == Spec => []TypeOK
<1>1. IInv => TypeOK
  BY DEF IInv, TypeOK, SoundQueue, SoundStream, CellsOf
<1> QED
  BY <1>1, Inductive, PTL

-----------------------------------------------------------------------------
\* Where every stream of the queue is busy, and no push is empty, the loop of
\* consume meets no drained stream.
LEMMA InitBusy == Init => Busy(sendQueue)
BY DEF Init, Busy

LEMMA NextBusy ==
  ASSUME 0 \notin Chunks
  PROVE  IInv /\ Busy(sendQueue) /\ [Next]_vars => Busy(sendQueue)'
<1> SUFFICES ASSUME IInv, Busy(sendQueue), [Next]_vars
             PROVE  Busy(sendQueue')
  BY DEF Busy
<1>1. ASSUME NEW n \in Chunks, Push(n)
      PROVE  Busy(sendQueue')
  <2>1. PICK s : /\ SoundStream(Byte, s)
                 /\ StreamReadableSize(s) = n
                 /\ sendQueue' = Append(sendQueue, s)
    BY <1>1, PushedStream
  <2>2. n > 0
    BY ChunksAssumption
  <2>3. /\ Len(sendQueue) \in Nat
        /\ DOMAIN sendQueue = 1 .. Len(sendQueue)
        /\ DOMAIN sendQueue' = 1 .. Len(sendQueue) + 1
        /\ \A i \in 1 .. Len(sendQueue) : sendQueue'[i] = sendQueue[i]
        /\ sendQueue'[Len(sendQueue) + 1] = s
    BY <2>1, PushGood, SoundShape DEF IInv
  <2>4. \A i \in 1 .. Len(sendQueue) + 1 : i \in 1 .. Len(sendQueue) \/ i = Len(sendQueue) + 1
    BY <2>3
  <2> QED
    BY <2>1, <2>2, <2>3, <2>4 DEF Busy
<1>2. ASSUME NEW n \in 1 .. MaxPushed, Sent(n)
      PROVE  Busy(sendQueue')
  <2>1. n \in 1 .. Backlog(sendQueue)
    BY <1>2, MaxPushedAssumption, SumsOfQueue DEF IInv, Sent
  <2> QED
    BY <1>2, <2>1, ConsumeGood DEF IInv, Sent
<1>3. ASSUME Clear
      PROVE  Busy(sendQueue')
  BY <1>3 DEF Clear, Busy
<1>4. ASSUME UNCHANGED vars
      PROVE  Busy(sendQueue')
  BY <1>4 DEF vars
<1> QED
  BY <1>1, <1>2, <1>3, <1>4 DEF Next

\* As long as nothing empty is pushed, the assertion in the loop of consume
\* holds for every number of bytes the socket may take (SendQueue.cpp:32).
THEOREM AssertionHolds ==
  ASSUME 0 \notin Chunks
  PROVE  Spec => []ConsumeAssertionHolds
<1>1. IInv /\ Busy(sendQueue) => ConsumeAssertionHolds
  <2> SUFFICES ASSUME IInv, Busy(sendQueue), NEW n \in 1 .. Backlog(sendQueue),
                      NEW i \in 1 .. StopAt(UnreadSizes(sendQueue), n)
               PROVE  StreamReadableSize(sendQueue[i]) > 0
    BY DEF ConsumeAssertionHolds, ConsumeAssertion
  <2>1. SoundQueue(Byte, sendQueue)
    BY DEF IInv
  <2>2. StopAt(UnreadSizes(sendQueue), n) \in 1 .. Len(sendQueue)
    BY <2>1, StoppedStream
  <2>3. i \in DOMAIN sendQueue
    BY <2>1, <2>2, SoundShape
  <2> QED
    BY <2>3 DEF Busy
<1> QED
  BY <1>1, InitBusy, NextBusy, Inductive, PTL DEF Spec

-----------------------------------------------------------------------------
(***************************************************************************)
(* The backlog, read from its first byte to its last, is the FIFO.         *)
(***************************************************************************)
LEMMA InitFifo == Init => BacklogFifo!FifoInit
<1> SUFFICES ASSUME Init
             PROVE  BacklogFifo!FifoInit
  OBVIOUS
<1>1. Bytes(<< >>) = << >>
  BY EmptySound, BytesType
<1> QED
  BY <1>1 DEF Init, BacklogFifo!FifoInit, Bytes

LEMMA NextFifo == IInv /\ [Next]_vars => [BacklogFifo!FifoNext]_BacklogFifo!fifoVars
<1> SUFFICES ASSUME IInv, [Next]_vars
             PROVE  [BacklogFifo!FifoNext]_BacklogFifo!fifoVars
  OBVIOUS
<1>1. SoundQueue(Byte, sendQueue) /\ pushed \in Nat
  BY DEF IInv
<1>2. ASSUME NEW n \in Chunks, Push(n)
      PROVE  [BacklogFifo!FifoNext]_BacklogFifo!fifoVars
  <2>1. n \in Nat /\ pushed' = pushed + n /\ written' = written
    BY <1>2, ChunksAssumption DEF Push
  <2>2. Bytes(sendQueue') = Bytes(sendQueue) \o [i \in 1 .. n |-> pushed + i]
    <3>1. PICK s : /\ SoundStream(Byte, s)
                   /\ StreamReadableSize(s) = n
                   /\ \A i \in 1 .. n : s.cells[s.m_read + i] = pushed + i
                   /\ sendQueue' = Append(sendQueue, s)
      BY <1>2, PushedStream
    <3>2. Bytes(Append(sendQueue, s)) = Bytes(sendQueue) \o Unread(s)
      BY <1>1, <3>1, PushIsPut
    <3>3. Unread(s) = [i \in 1 .. n |-> pushed + i]
      <4> DEFINE fresh == [i \in 1 .. n |-> pushed + i]
      <4>1. /\ Unread(s) \in Seq(Byte) /\ Len(Unread(s)) = n
            /\ \A i \in 1 .. n : Unread(s)[i] = s.cells[s.m_read + i]
        BY <3>1, SoundUnread
      <4>2. fresh \in [1 .. n -> Byte] /\ \A i \in 1 .. n : fresh[i] = pushed + i
        BY <1>1, <2>1 DEF Byte
      <4> HIDE DEF fresh
      <4>3. fresh \in Seq(Byte) /\ Len(fresh) = n
        BY <2>1, <4>2, FunctionIsSeq
      <4> QED
        BY <3>1, <4>1, <4>2, <4>3, SeqEqual DEF fresh
    <3> QED
      BY <3>1, <3>2, <3>3
  <2>3. BacklogFifo!Put(n)
    BY <2>1, <2>2 DEF BacklogFifo!Put, Bytes
  <2>4. CASE n = 0
    <3>1. Bytes(sendQueue) \in Seq(Byte)
      BY <1>1, BytesType
    <3>2. Bytes(sendQueue') = Bytes(sendQueue)
      <4>1. [i \in 1 .. n |-> pushed + i] = << >>
        BY <2>4
      <4> QED
        BY <2>2, <3>1, <4>1, ConcatEmptySeq
    <3> QED
      BY <1>1, <2>1, <2>4, <3>2 DEF BacklogFifo!fifoVars, Bytes
  <2>5. CASE n # 0
    <3>1. n \in 1 .. (pushed' - pushed)
      BY <1>1, <2>1, <2>5
    <3> QED
      BY <2>3, <3>1 DEF BacklogFifo!FifoNext
  <2> QED
    BY <2>4, <2>5
<1>3. ASSUME NEW n \in 1 .. MaxPushed, Sent(n)
      PROVE  BacklogFifo!FifoNext
  <2>1. /\ written' = FirstBytes(sendQueue, n)
        /\ sendQueue' = consume(sendQueue, n)
        /\ pushed' = pushed
        /\ n <= Backlog(sendQueue)
    BY <1>3 DEF Sent
  <2>2. n \in 1 .. Backlog(sendQueue) /\ Len(Bytes(sendQueue)) = Backlog(sendQueue)
    BY <1>1, <2>1, MaxPushedAssumption, BytesType
  <2>3. /\ written' = SubSeq(Bytes(sendQueue), 1, n)
        /\ Bytes(sendQueue') = SubSeq(Bytes(sendQueue), n + 1, Len(Bytes(sendQueue)))
    BY <1>1, <2>1, <2>2, SentIsTake
  <2>4. BacklogFifo!Take(n)
    BY <2>1, <2>3 DEF BacklogFifo!Take, Bytes
  <2>5. n \in 1 .. Len(Bytes(sendQueue))
    BY <2>2
  <2> QED
    BY <2>4, <2>5 DEF BacklogFifo!FifoNext, Bytes
<1>4. ASSUME Clear
      PROVE  BacklogFifo!FifoNext
  <2>1. Bytes(<< >>) = << >>
    BY EmptySound, BytesType
  <2>2. BacklogFifo!Forget
    BY <1>4, <2>1 DEF Clear, BacklogFifo!Forget, Bytes
  <2> QED
    BY <2>2 DEF BacklogFifo!FifoNext
<1>5. ASSUME UNCHANGED vars
      PROVE  UNCHANGED BacklogFifo!fifoVars
  BY <1>5 DEF vars, BacklogFifo!fifoVars
<1> QED
  BY <1>2, <1>3, <1>4, <1>5 DEF Next

\* However the backlog is split into writes, and whether or not something empty
\* was pushed, the socket is given every pushed byte once and in order, until
\* clear (SendQueue.cpp:6-54).
THEOREM Refinement == Spec => ImplementsFifo
BY InitFifo, NextFifo, Inductive, PTL DEF Spec, ImplementsFifo, BacklogFifo!FifoSpec
=============================================================================
