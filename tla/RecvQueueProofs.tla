-------------------------- MODULE RecvQueueProofs ---------------------------
(***************************************************************************)
(* For any buffer sizes and any sequence of legal calls: the streams of a  *)
(* RecvQueue stay well formed, no caller is ever given a byte that was not *)
(* received (TypeOK), and the queue stays packed, so that its front stream *)
(* is where the next byte is (Packed, FrontReadable). A reader gets the    *)
(* bytes the socket delivered, in order and once (Refinement), and the     *)
(* memory that waits for bytes is bounded (SpareAlwaysBounded).            *)
(*                                                                         *)
(* TypeOK is not inductive: that peek returns bytes and not uninitialised  *)
(* memory rests on WrittenBytes, and that a completed read fits the queue  *)
(* rests on FreshBuffers, because prepare may run while the socket holds   *)
(* the buffers.                                                            *)
(***************************************************************************)
EXTENDS RecvQueueSpec, QueueProofs

-----------------------------------------------------------------------------
(***************************************************************************)
(* The inductive invariant.                                                *)
(***************************************************************************)
IInv ==
  /\ GoodQueue(Byte, recvQueue)
  /\ FreshBuffers(recvQueue, pending)
  /\ arrived \in Nat
  /\ got \in Seq(Byte)

LEMMA IInvTypeOK == IInv => TypeOK
<1> SUFFICES ASSUME IInv
             PROVE  TypeOK
  OBVIOUS
<1>1. /\ recvQueue \in Seq(StreamsOf(CellsOf(Byte)))
      /\ \A i \in DOMAIN recvQueue : CursorsOK(recvQueue[i])
  BY DEF IInv, GoodQueue, WellFormed
<1>2. /\ pending \in Seq([from : Nat, size : Nat])
      /\ Len(pending) <= Len(recvQueue)
  BY DEF IInv, FreshBuffers
<1>3. ASSUME NEW i \in DOMAIN pending
      PROVE  pending[i].from + pending[i].size <= StreamAllocSize(recvQueue[i])
  <2>1. pending[i].from = recvQueue[i].m_written
        /\ pending[i].size = StreamWritableSize(recvQueue[i])
    BY DEF IInv, FreshBuffers
  <2>2. i \in 1 .. Len(recvQueue)
    BY <1>1, <1>2
  <2>3. recvQueue[i] \in StreamsOf(CellsOf(Byte)) /\ CursorsOK(recvQueue[i])
    BY <1>1, <2>2
  <2>4. /\ StreamAllocSize(recvQueue[i]) \in Nat
        /\ StreamWritableSize(recvQueue[i]) =
             StreamAllocSize(recvQueue[i]) - recvQueue[i].m_written
        /\ recvQueue[i].m_written \in Nat
    BY <2>3, StreamSizes DEF CursorsOK
  <2> QED
    BY <2>1, <2>4
<1> QED
  BY <1>1, <1>2, <1>3 DEF IInv, TypeOK, CellsOf

LEMMA IInvPacked == IInv => Packed
BY DEF IInv, GoodQueue, PackedQueue, Packed

\* An empty head would be a stream nothing was ever written to, so it has room,
\* and then no stream behind it can have been written to either.
LEMMA IInvFrontReadable == IInv => FrontReadable
<1> DEFINE q == recvQueue
<1> SUFFICES ASSUME GoodQueue(Byte, q), ~(q # << >> /\ StreamReadableSize(Head(q)) > 0)
             PROVE  ~(getReadableSize(q) > 0)
  BY DEF IInv, FrontReadable
<1> HIDE DEF q
<1>1. /\ q \in Seq(StreamsOf(CellsOf(Byte)))
      /\ Len(q) \in Nat
      /\ DOMAIN q = 1 .. Len(q)
      /\ \A i \in 1 .. Len(q) : q[i] \in StreamsOf(CellsOf(Byte)) /\ CursorsOK(q[i])
  BY QueueShape DEF GoodQueue, WellFormed
<1>2. ASSUME NEW i \in 1 .. Len(q)
      PROVE  StreamReadableSize(q[i]) = 0
  <2>1. 1 \in DOMAIN q /\ Head(q) = q[1] /\ q # << >>
    BY <1>1
  <2>2. q[1] \in StreamsOf(CellsOf(Byte)) /\ CursorsOK(q[1])
    BY <1>1, <2>1
  <2>3. StreamReadableSize(q[1]) = 0
    BY <2>1, <2>2, StreamSizes
  <2>4. q[1].m_written = 0
    BY <2>1, <2>2, <2>3
    DEF GoodQueue, PackedQueue, NoDrainedStream, CursorsOK, StreamReadableSize
  <2>5. StreamWritableSize(q[1]) # 0
    BY <2>1, <2>2, <2>4, StreamSizes DEF GoodQueue, PackedQueue, HasMemory
  <2>6. CASE i = 1
    BY <2>3, <2>6
  <2>7. CASE i > 1
    <3>1. q[i] \in StreamsOf(CellsOf(Byte)) /\ CursorsOK(q[i]) /\ i \in DOMAIN q
      BY <1>1
    <3>2. ~(q[i].m_written > 0)
      BY <2>1, <2>5, <2>7, <3>1 DEF GoodQueue, PackedQueue, FilledInOrder
    <3> QED
      BY <3>1, <3>2 DEF CursorsOK, StreamReadableSize
  <2> QED
    BY <1>1, <2>6, <2>7
<1>3. \A i \in 1 .. Len(q) : ReadableSizes(q)[i] = 0
  BY <1>2, ReadableSizesAreNat DEF GoodQueue
<1>4. getReadableSize(q) = 0
  BY <1>1, <1>3, ReadableSizesAreNat, SumToNothing DEF GoodQueue, getReadableSize, Total
<1> QED
  BY <1>4

-----------------------------------------------------------------------------
LEMMA InitIInv == Init => IInv
BY EmptyGood DEF Init, IInv, FreshBuffers, NoRead

\* One step per action of Next.
LEMMA NextIInv == IInv /\ [Next]_vars => IInv'
<1> SUFFICES ASSUME IInv, [Next]_vars
             PROVE  IInv'
  OBVIOUS
<1>1. ASSUME NEW size \in Requests, Prepare(size)
      PROVE  IInv'
  <2> DEFINE p == prepare(recvQueue, size)
  <2>1. size \in Nat \ {0}
    BY RequestsAssumption
  <2>2. /\ GoodQueue(Byte, p)
        /\ Len(recvQueue) <= Len(p)
        /\ \A i \in 1 .. Len(recvQueue) : p[i] = recvQueue[i]
    BY <2>1, PrepareGood DEF IInv
  <2>3. recvQueue' = p /\ pending' = pending /\ arrived' = arrived /\ got' = got
    BY <1>1 DEF Prepare
  <2> HIDE DEF p
  <2>4. FreshBuffers(p, pending)
    <3>1. /\ pending \in Seq([from : Nat, size : Nat])
          /\ Len(pending) <= Len(recvQueue)
          /\ \A i \in DOMAIN pending :
               /\ pending[i].from = recvQueue[i].m_written
               /\ pending[i].size = StreamWritableSize(recvQueue[i])
      BY DEF IInv, FreshBuffers
    <3>2. Len(recvQueue) \in Nat /\ Len(p) \in Nat
      BY <2>2, QueueShape DEF IInv, GoodQueue
    <3>3. \A i \in DOMAIN pending : i \in 1 .. Len(recvQueue)
      BY <3>1, <3>2
    <3> QED
      BY <2>2, <3>1, <3>2, <3>3 DEF FreshBuffers
  <2> QED
    BY <2>2, <2>3, <2>4 DEF IInv
<1>2. ASSUME StartReceive
      PROVE  IInv'
  BY <1>2, BuffersFresh DEF IInv, StartReceive, GoodQueue
<1>3. ASSUME NEW n \in 1 .. MaxArrived, CompleteReceive(n)
      PROVE  IInv'
  <2> DEFINE bytes == [i \in 1 .. n |-> arrived + i]
  <2>1. n \in Nat /\ 0 < n /\ arrived \in Nat
    BY MaxArrivedAssumption DEF IInv
  <2>2. bytes \in [1 .. n -> Byte]
    BY <2>1 DEF Byte
  <2> HIDE DEF bytes
  <2>3. bytes \in Seq(Byte) /\ Len(bytes) = n
    BY <2>1, <2>2, FunctionIsSeq
  <2>4. GoodQueue(Byte, commit(Scatter(recvQueue, pending, bytes), n))
    BY <1>3, <2>1, <2>3, CompleteGood DEF IInv, CompleteReceive
  <2>5. /\ recvQueue' = commit(Scatter(recvQueue, pending, bytes), n)
        /\ pending' = << >>
        /\ arrived' = arrived + n
        /\ got' = got
    BY <1>3 DEF CompleteReceive, NoRead, bytes
  <2>6. GoodQueue(Byte, recvQueue')
    BY <2>4, <2>5
  <2>7. FreshBuffers(recvQueue', << >>)
    BY <2>6, QueueShape DEF GoodQueue, FreshBuffers
  <2> QED
    BY <2>1, <2>5, <2>6, <2>7 DEF IInv
<1>4. ASSUME NEW n \in 1 .. MaxArrived, Peek(n)
      PROVE  IInv'
  <2>1. peek(recvQueue, n) \in Seq(Byte)
    BY <1>4, MaxArrivedAssumption, PeekBytes DEF IInv, Peek
  <2> QED
    BY <1>4, <2>1 DEF IInv, Peek
<1>5. ASSUME NEW n \in 1 .. MaxArrived, Pop(n)
      PROVE  IInv'
  <2>1. GoodQueue(Byte, pop(recvQueue, n))
    BY <1>5, MaxArrivedAssumption, PopGood DEF IInv, Pop
  <2>2. recvQueue' = pop(recvQueue, n) /\ pending' = << >> /\ arrived' = arrived /\ got' = got
    BY <1>5 DEF Pop, NoRead
  <2>3. FreshBuffers(recvQueue', << >>)
    BY <2>1, <2>2, QueueShape DEF GoodQueue, FreshBuffers
  <2> QED
    BY <2>1, <2>2, <2>3 DEF IInv
<1>6. ASSUME NEW n \in 1 .. MaxArrived, Detach(n)
      PROVE  IInv'
  <2>1. GoodQueue(Byte, Tail(recvQueue)) /\ Unread(Head(recvQueue)) \in Seq(Byte)
    BY <1>6, DetachGood DEF IInv, Detach
  <2>2. /\ recvQueue' = Tail(recvQueue)
        /\ pending' = << >>
        /\ arrived' = arrived
        /\ got' = Unread(Head(recvQueue))
    BY <1>6 DEF Detach, NoRead, AfterDetach
  <2>3. FreshBuffers(recvQueue', << >>)
    BY <2>1, <2>2, QueueShape DEF GoodQueue, FreshBuffers
  <2> QED
    BY <2>1, <2>2, <2>3 DEF IInv
<1>7. ASSUME Clear
      PROVE  IInv'
  BY <1>7, EmptyGood DEF IInv, Clear, NoRead, FreshBuffers
<1>8. ASSUME UNCHANGED vars
      PROVE  IInv'
  BY <1>8 DEF vars, IInv, FreshBuffers, GoodQueue, WellFormed, WrittenBytes, PackedQueue,
              NoDrainedStream, OnlyFrontRead, FilledInOrder, HasMemory
<1> QED
  BY <1>1, <1>2, <1>3, <1>4, <1>5, <1>6, <1>7, <1>8 DEF Next

\* No legal call breaks what the queue rests on (RecvQueue.cpp:6-122).
THEOREM Inductive == Spec => []IInv
BY InitIInv, NextIInv, PTL DEF Spec

\* Types and cursor bounds: no assertion of Stream.h about cursors can fail
\* under RecvQueue, the socket never writes outside a stream's memory, and what
\* a caller gets is received bytes only (Stream.h:86,106,112, RecvQueue.cpp).
THEOREM TypeCorrect == Spec => []TypeOK
BY Inductive, IInvTypeOK, PTL

\* The queue stays packed, for any buffer sizes and any order of legal calls
\* (RecvQueue.cpp:47-63, 83-122).
THEOREM AlwaysPacked == Spec => []Packed
BY Inductive, IInvPacked, PTL

\* front() in detachable and detach always has the next unread byte
\* (RecvQueue.cpp:113-122).
THEOREM FrontAlwaysReadable == Spec => []FrontReadable
BY Inductive, IInvFrontReadable, PTL

-----------------------------------------------------------------------------
(***************************************************************************)
(* The bytes of the queue, from the first to the last, are the FIFO.       *)
(***************************************************************************)
LEMMA InitFifo == Init => Fifo!FifoInit
<1> SUFFICES ASSUME Init
             PROVE  Fifo!FifoInit
  OBVIOUS
<1>1. SoundQueue(Byte, << >>) /\ Backlog(<< >>) = 0
  BY EmptySound
<1>2. Contents(<< >>) = << >>
  BY <1>1, BytesType, SameReading
<1> QED
  BY <1>2 DEF Init, Fifo!FifoInit

\* One step per action of Next; prepare and StartReceive change no byte.
LEMMA NextFifo == IInv /\ [Next]_vars => [Fifo!FifoNext]_Fifo!fifoVars
<1> SUFFICES ASSUME IInv, [Next]_vars
             PROVE  [Fifo!FifoNext]_Fifo!fifoVars
  OBVIOUS
<1> DEFINE q == recvQueue
<1>1. /\ GoodQueue(Byte, q) /\ FreshBuffers(q, pending) /\ arrived \in Nat
  BY DEF IInv
<1>2. /\ SoundQueue(Byte, q) /\ Backlog(q) \in Nat
      /\ Bytes(q) \in Seq(Byte) /\ Len(Bytes(q)) = Backlog(q)
  BY <1>1, GoodIsSound, BytesType
<1>3. /\ Contents(q) = Bytes(q) /\ Contents(recvQueue') = Bytes(recvQueue')
      /\ getReadableSize(q) = Backlog(q)
  BY SameReading
<1>4. ASSUME NEW size \in Requests, Prepare(size)
      PROVE  UNCHANGED Fifo!fifoVars
  <2>1. size \in Nat \ {0}
    BY RequestsAssumption
  <2>2. recvQueue' = prepare(q, size) /\ arrived' = arrived /\ got' = got
    BY <1>4 DEF Prepare
  <2>3. Bytes(prepare(q, size)) = Bytes(q)
    BY <1>1, <2>1, PrepareBytes
  <2> QED
    BY <1>3, <2>2, <2>3 DEF Fifo!fifoVars
<1>5. ASSUME StartReceive
      PROVE  UNCHANGED Fifo!fifoVars
  BY <1>5 DEF StartReceive, Fifo!fifoVars
<1>6. ASSUME NEW n \in 1 .. MaxArrived, CompleteReceive(n)
      PROVE  Fifo!FifoNext
  <2> DEFINE bytes == [i \in 1 .. n |-> arrived + i]
             r == commit(Scatter(q, pending, bytes), n)
  <2>1. n \in Nat /\ 0 < n
    BY MaxArrivedAssumption
  <2>2. bytes \in [1 .. n -> Byte]
    BY <1>1, <2>1 DEF Byte
  <2>3. /\ recvQueue' = r /\ arrived' = arrived + n /\ got' = got
        /\ n <= Total(BufferSizes(pending))
    BY <1>6 DEF CompleteReceive
  <2> HIDE DEF bytes
  <2>4. bytes \in Seq(Byte) /\ Len(bytes) = n
    BY <2>1, <2>2, FunctionIsSeq
  <2>5. GoodQueue(Byte, r) /\ \E k \in Nat : Filled(q, r, bytes, k)
    BY <1>1, <2>1, <2>3, <2>4, CompleteGood
  <2> HIDE DEF r
  <2>6. Bytes(r) = Bytes(q) \o bytes
    BY <1>1, <2>4, <2>5, FilledBytes
  <2>7. Fifo!Put(n)
    BY <1>3, <2>3, <2>6 DEF Fifo!Put, bytes
  <2>8. n \in 1 .. (arrived' - arrived)
    BY <1>1, <2>1, <2>3
  <2> QED
    BY <2>7, <2>8 DEF Fifo!FifoNext
<1>7. ASSUME NEW n \in 1 .. MaxArrived, Peek(n)
      PROVE  Fifo!FifoNext
  <2>1. /\ n <= getReadableSize(q) /\ got' = peek(q, n)
        /\ recvQueue' = q /\ arrived' = arrived
    BY <1>7 DEF Peek
  <2>2. n \in 0 .. Backlog(q) /\ n \in 1 .. Len(Bytes(q))
    BY <1>2, <1>3, <2>1, MaxArrivedAssumption
  <2>3. peek(q, n) = SubSeq(Bytes(q), 1, n)
    BY <1>1, <2>2, PeekIsLook
  <2>4. Fifo!Look(n)
    BY <1>3, <2>1, <2>3 DEF Fifo!Look
  <2> QED
    BY <1>3, <2>2, <2>4 DEF Fifo!FifoNext
<1>8. ASSUME NEW n \in 1 .. MaxArrived, Pop(n)
      PROVE  Fifo!FifoNext
  <2>1. /\ n <= getReadableSize(q)
        /\ recvQueue' = pop(q, n) /\ arrived' = arrived /\ got' = got
    BY <1>8 DEF Pop
  <2>2. n \in 1 .. Backlog(q) /\ n \in 1 .. Len(Bytes(q))
    BY <1>2, <1>3, <2>1, MaxArrivedAssumption
  <2>3. Bytes(pop(q, n)) = SubSeq(Bytes(q), n + 1, Len(Bytes(q)))
    BY <1>1, <2>2, PopBytes
  <2>4. Fifo!Drop(n)
    BY <1>3, <2>1, <2>3 DEF Fifo!Drop
  <2> QED
    BY <1>3, <2>2, <2>4 DEF Fifo!FifoNext
<1>9. ASSUME NEW n \in 1 .. MaxArrived, Detach(n)
      PROVE  Fifo!FifoNext
  <2>1. /\ q # << >> /\ StreamReadableSize(Head(q)) = n
        /\ recvQueue' = Tail(q) /\ arrived' = arrived /\ got' = Unread(Head(q))
    BY <1>9 DEF Detach, detachable, AfterDetach
  <2>2. /\ n \in 0 .. Backlog(q)
        /\ Unread(Head(q)) = SubSeq(Bytes(q), 1, n)
        /\ Bytes(Tail(q)) = SubSeq(Bytes(q), n + 1, Len(Bytes(q)))
    BY <1>1, <2>1, DetachBytes
  <2>3. n \in 1 .. Len(Bytes(q))
    BY <1>2, <2>2, MaxArrivedAssumption
  <2>4. Fifo!Take(n)
    BY <1>3, <2>1, <2>2 DEF Fifo!Take
  <2> QED
    BY <1>3, <2>3, <2>4 DEF Fifo!FifoNext
<1>10. ASSUME Clear
       PROVE  Fifo!FifoNext
  <2>1. SoundQueue(Byte, << >>) /\ Backlog(<< >>) = 0
    BY EmptySound
  <2>2. Bytes(<< >>) = << >>
    BY <2>1, BytesType
  <2>3. recvQueue' = << >> /\ got' = << >> /\ arrived' = arrived
    BY <1>10 DEF Clear
  <2>4. Fifo!Forget
    BY <1>3, <2>2, <2>3 DEF Fifo!Forget
  <2> QED
    BY <2>4 DEF Fifo!FifoNext
<1>11. ASSUME UNCHANGED vars
       PROVE  UNCHANGED Fifo!fifoVars
  BY <1>11 DEF vars, Fifo!fifoVars
<1> QED
  BY <1>4, <1>5, <1>6, <1>7, <1>8, <1>9, <1>10, <1>11 DEF Next

\* The bytes a reader gets are the bytes the socket delivered, each once and in
\* order, whatever the sizes of the buffers and of the reads: across the end of
\* a stream, with prepare called while a read is in progress, with the last
\* stream rewound or the front stream detached (RecvQueue.cpp:12-122).
THEOREM Refinement == Spec => ImplementsFifo
BY InitFifo, NextFifo, Inductive, PTL DEF Spec, ImplementsFifo, Fifo!FifoSpec

-----------------------------------------------------------------------------
(***************************************************************************)
(* The room that waits to be written to.                                   *)
(***************************************************************************)
\* One buffer of the largest request, on top of less than the request itself.
SpareBelow(room) ==
  \E r \in Requests : room < r + AllocSize(Larger(r, DEFAULT_BUF_SIZE))

\* Whatever room there may be, less is allowed too, and so is none and the
\* default buffer.
LEMMA SpareAllowed ==
  ASSUME Requests # {}
  PROVE  /\ \A m, n \in Nat : m <= n /\ SpareBelow(n) => SpareBelow(m)
         /\ SpareBelow(0)
         /\ SpareBelow(DEFAULT_BUF_SIZE)
<1>1. \A r \in Requests :
        /\ r \in Nat \ {0}
        /\ AllocSize(Larger(r, DEFAULT_BUF_SIZE)) \in Nat
        /\ DEFAULT_BUF_SIZE <= AllocSize(Larger(r, DEFAULT_BUF_SIZE))
  <2> TAKE r \in Requests
  <2> DEFINE n == Larger(r, DEFAULT_BUF_SIZE)
  <2>1. r \in Nat \ {0} /\ n \in Nat /\ DEFAULT_BUF_SIZE <= n
    BY RequestsAssumption, DefaultBufAssumption DEF Larger
  <2> HIDE DEF n
  <2>2. AllocSize(n) \in Nat /\ n <= AllocSize(n)
    BY <2>1, AllocSizeFits
  <2> QED
    BY <2>1, <2>2, DefaultBufAssumption DEF n
<1>2. PICK r \in Requests : TRUE
  OBVIOUS
<1>3. \A m, n \in Nat : m <= n /\ SpareBelow(n) => SpareBelow(m)
  BY <1>1 DEF SpareBelow
<1> QED
  BY <1>1, <1>2, <1>3, DefaultBufAssumption DEF SpareBelow

LEMMA InitSpare ==
  ASSUME Requests # {}
  PROVE  Init => SpareBounded
<1>1. getWritableSize(<< >>) = SumTo(WritableSizes(<< >>), Len(<< >>))
  BY EmptyGood, Room
<1>2. getWritableSize(<< >>) = 0
  BY <1>1, SumToZero
<1> QED
  BY <1>2, SpareAllowed DEF Init, SpareBounded, SpareBelow

LEMMA NextSpare ==
  ASSUME Requests # {}
  PROVE  IInv /\ SpareBounded /\ [Next]_vars => SpareBounded'
<1> SUFFICES ASSUME IInv, SpareBounded, [Next]_vars
             PROVE  SpareBounded'
  OBVIOUS
<1> DEFINE q == recvQueue
           room == getWritableSize(q)
<1>1. /\ GoodQueue(Byte, q) /\ FreshBuffers(q, pending) /\ arrived \in Nat
  BY DEF IInv
<1>2. room \in Nat /\ SpareBelow(room)
  BY <1>1, Room DEF SpareBounded, SpareBelow
<1>3. SUFFICES SpareBelow(getWritableSize(recvQueue'))
  BY DEF SpareBounded, SpareBelow
<1>4. ASSUME recvQueue' = q
      PROVE  SpareBelow(getWritableSize(recvQueue'))
  BY <1>2, <1>4
<1>5. ASSUME recvQueue' = << >>
      PROVE  SpareBelow(getWritableSize(recvQueue'))
  <2>1. getWritableSize(<< >>) = SumTo(WritableSizes(<< >>), Len(<< >>))
    BY EmptyGood, Room
  <2>2. getWritableSize(<< >>) = 0
    BY <2>1, SumToZero
  <2> QED
    BY <1>5, <2>2, SpareAllowed
<1>6. ASSUME NEW r, GoodQueue(Byte, r), recvQueue' = r, getWritableSize(r) <= room
      PROVE  SpareBelow(getWritableSize(recvQueue'))
  <2>1. getWritableSize(r) \in Nat
    BY <1>6, Room
  <2> QED
    BY <1>2, <1>6, <2>1, SpareAllowed
<1>7. ASSUME NEW size \in Requests, Prepare(size)
      PROVE  SpareBelow(getWritableSize(recvQueue'))
  <2>1. size \in Nat \ {0} /\ recvQueue' = prepare(q, size)
    BY <1>7, RequestsAssumption DEF Prepare
  <2>2. \/ prepare(q, size) = q
        \/ getWritableSize(prepare(q, size)) < size + AllocSize(Larger(size, DEFAULT_BUF_SIZE))
    BY <1>1, <2>1, PrepareRoom
  <2> QED
    BY <1>4, <2>1, <2>2 DEF SpareBelow
<1>8. ASSUME NEW n \in 1 .. MaxArrived, CompleteReceive(n)
      PROVE  SpareBelow(getWritableSize(recvQueue'))
  <2> DEFINE bytes == [i \in 1 .. n |-> arrived + i]
             r == commit(Scatter(q, pending, bytes), n)
  <2>1. n \in Nat /\ 0 < n
    BY MaxArrivedAssumption
  <2>2. bytes \in [1 .. n -> Byte]
    BY <1>1, <2>1 DEF Byte
  <2>3. recvQueue' = r /\ n <= Total(BufferSizes(pending))
    BY <1>8 DEF CompleteReceive
  <2> HIDE DEF bytes
  <2>4. bytes \in Seq(Byte) /\ Len(bytes) = n
    BY <2>1, <2>2, FunctionIsSeq
  <2>5. GoodQueue(Byte, r) /\ \E k \in Nat : Filled(q, r, bytes, k)
    BY <1>1, <2>1, <2>3, <2>4, CompleteGood
  <2> HIDE DEF r
  <2>6. getWritableSize(r) <= room
    BY <1>1, <2>4, <2>5, FilledRoom
  <2> QED
    BY <1>6, <2>3, <2>5, <2>6
<1>9. ASSUME NEW n \in 1 .. MaxArrived, Pop(n)
      PROVE  SpareBelow(getWritableSize(recvQueue'))
  <2>1. n \in 1 .. Backlog(q)
    <3>1. n <= getReadableSize(q) /\ getReadableSize(q) = Backlog(q)
      BY <1>9, SameReading DEF Pop
    <3>2. Backlog(q) \in Nat
      BY <1>1, GoodIsSound, SumsOfQueue
    <3> QED
      BY <3>1, <3>2, MaxArrivedAssumption
  <2>2. recvQueue' = pop(q, n)
    BY <1>9 DEF Pop
  <2>3. GoodQueue(Byte, pop(q, n))
    BY <1>1, <2>1, PopBytes
  <2>4. \/ getWritableSize(pop(q, n)) <= room
        \/ getWritableSize(pop(q, n)) = DEFAULT_BUF_SIZE
    BY <1>1, <2>1, PopRoom
  <2> QED
    BY <1>6, <2>2, <2>3, <2>4, SpareAllowed
<1>10. ASSUME NEW n \in 1 .. MaxArrived, Detach(n)
       PROVE  SpareBelow(getWritableSize(recvQueue'))
  <2>1. q # << >> /\ recvQueue' = Tail(q)
    BY <1>10 DEF Detach, AfterDetach
  <2>2. GoodQueue(Byte, Tail(q))
    BY <1>1, <2>1, DetachBytes
  <2>3. getWritableSize(Tail(q)) <= room
    <3> DEFINE r == Tail(q)
    <3>1. /\ Len(q) \in Nat /\ q \in Seq(StreamsOf(CellsOf(Byte)))
          /\ \A i \in 1 .. Len(q) : StreamWritableSize(q[i]) \in Nat
      BY <1>1, Room
    <3>2. PICK d \in Nat : d = 1
      OBVIOUS
    <3>3. /\ Len(q) = d + Len(r)
          /\ \A i \in 1 .. Len(r) : r[i] = q[d + i] /\ d + i \in 1 .. Len(q)
      BY <2>1, <3>1, <3>2
    <3>4. \A i \in 1 .. Len(r) : StreamWritableSize(r[i]) <= StreamWritableSize(q[d + i])
      BY <3>1, <3>3
    <3> QED
      BY <1>1, <2>2, <3>3, <3>4, LessRoom
  <2> QED
    BY <1>6, <2>1, <2>2, <2>3
<1> QED
  <2>1. ASSUME StartReceive
        PROVE  recvQueue' = q
    BY <2>1 DEF StartReceive
  <2>2. ASSUME NEW n \in 1 .. MaxArrived, Peek(n)
        PROVE  recvQueue' = q
    BY <2>2 DEF Peek
  <2>3. ASSUME Clear
        PROVE  recvQueue' = << >>
    BY <2>3 DEF Clear
  <2>4. ASSUME UNCHANGED vars
        PROVE  recvQueue' = q
    BY <2>4 DEF vars
  <2> QED
    BY <1>4, <1>5, <1>7, <1>8, <1>9, <1>10, <2>1, <2>2, <2>3, <2>4 DEF Next

\* However often prepare is called, the memory that waits to be written to stays
\* below one request and the buffer made for it: prepare adds only what is
\* missing, and pop rewinds no more than one default buffer, when the queue is
\* empty (RecvQueue.cpp:12-18, 99-109). Requests # {}: the session reads at all.
THEOREM SpareAlwaysBounded ==
  ASSUME Requests # {}
  PROVE  Spec => []SpareBounded
<1>1. Init => SpareBounded
  BY InitSpare
<1>2. IInv /\ SpareBounded /\ [Next]_vars => SpareBounded'
  BY NextSpare
<1> QED
  BY <1>1, <1>2, Inductive, PTL DEF Spec
=============================================================================
